--------------------------- MODULE OverlayProofs ---------------------------
(***************************************************************************)
(* Proofs, for any number of peers, connections and events, of the         *)
(* invariants of Overlay that concern one node's tables: TablesDisjoint,   *)
(* NeighborsBounded and AssertsHold.  The rest of the actions, those that  *)
(* make neighbors among them, keep the invariant of OverlayInvProofs.      *)
(***************************************************************************)
EXTENDS OverlayActionProofs

(* A connection is bound to its peer, to be listed next.                   *)
LEMMA NewBoundInv ==
  ASSUME NEW n \in Nodes, NEW w, WInv(w, n, {}), NEW c \in Conns, NEW b,
         ConnOK(b), NotYet(w.t, b, c, n), Foreign(w.conns[c], b, n),
         NEW v, v = SetConn(w, c, b)
  PROVE  WInv(v, n, {c}) /\ Frame(w, v, n, {}) /\ v.conns[c] = b
<1>1. DOMAIN w = WFields /\ DOMAIN w.conns = Conns
  BY DEF WInv
<1>2. /\ DOMAIN v = WFields /\ v.t = w.t /\ v.failed = w.failed
      /\ v.conns = [w.conns EXCEPT ![c] = b]
  BY <1>1 DEF WFields, SetConn
<1>3. /\ DOMAIN v.conns = Conns /\ v.conns[c] = b
      /\ \A d \in Conns \ {c} : v.conns[d] = w.conns[d]
  BY <1>1, <1>2
<1>4. \A d \in Conns : ConnOK(v.conns[d])
  BY <1>3 DEF WInv
<1>5. \A d \in Conns \ {c} : OwnAt(v.t, v.conns[d], d, n)
  BY <1>2, <1>3 DEF WInv
<1>6. {c} \subseteq Conns /\ \A d \in {c} : NotYet(v.t, v.conns[d], d, n)
  BY <1>2, <1>3
<1>7. WInv(v, n, {c})
  BY <1>2, <1>3, <1>4, <1>5, <1>6 DEF WInv
<1>8. Frame(w, v, n, {})
  BY <1>3 DEF Frame, Foreign
<1> QED BY <1>3, <1>7, <1>8

(* to_neighbor, and the handshake that follows if it succeeds.             *)
LEMMA ToNeighborAndSend ==
  ASSUME NEW n \in Nodes, NEW w, NEW c \in Conns, WInv(w, n, {c}),
         Bound(w.conns[c], n), NEW k, NEW dead, NEW r, r = ToNeighbor(w, n, c, k, dead),
         NEW v, v = IF r.ok THEN SendOn(r.w, n, c, "handshake") ELSE r.w
  PROVE  WInv(v, n, {}) /\ Frame(w, v, n, {})
<1> DEFINE x == r.w
<1>1. WInv(x, n, {}) /\ Frame(w, x, n, {})
  BY ToNeighborInv
<1>2. v = SendOn(x, n, c, "handshake") \/ v = x
  OBVIOUS
<1> HIDE DEF x
<1>3. CASE v = SendOn(x, n, c, "handshake")
  <2>1. WInv(v, n, {}) /\ Frame(x, v, n, {})
    BY <1>1, <1>3, SendOnInv
  <2> QED BY <1>1, <2>1, FrameTrans
<1>4. CASE v = x
  BY <1>1, <1>4
<1> QED BY <1>2, <1>3, <1>4

(* The connected handler, on success.                                      *)
LEMMA ConnectedInv ==
  ASSUME Inv, NEW n \in Nodes, NEW c \in Conns, NEW k, Connected(n, c, k)
  PROVE  Inv'
<1> DEFINE w == World(n)
           a == conns[c]
           b1 == [a EXCEPT !.active = "open"]
           b2 == [a EXCEPT !.active = "loose"]
           u == SetConn(w, c, b1)
           r == ToNeighbor(u, n, c, k, FALSE)
           v1 == IF r.ok THEN SendOn(r.w, n, c, "handshake") ELSE r.w
           v2 == SetConn(w, c, b2)
<1>1. WInv(w, n, {}) /\ w.conns = conns /\ w.t = node[n]
  BY WorldInv, WorldFields
<1>2. ConnOK(a) /\ OwnAt(w.t, a, c, n)
  BY <1>1, ConnType
<1>3. a.active = "connecting" /\ a.from = n
  BY DEF Connected
<1>4. Become(n, v1) \/ Become(n, v2)
  <2>1. u = [w EXCEPT !.conns[c].active = "open"] /\ v2 = [w EXCEPT !.conns[c].active = "loose"]
    BY <1>1 DEF SetConn
  <2> HIDE DEF u, v2, w
  <2>2. \/ Become(n, v2)
        \/ Become(n, v1)
    BY Zenon, <2>1 DEF Connected, w
  <2> QED BY Zenon, <2>2
<1> HIDE DEF w, a
<1>5. /\ DOMAIN b1 = CFields /\ b1.from = a.from /\ b1.to = a.to /\ b1.active = "open"
      /\ b1.passive = a.passive /\ b1.fromObj = a.fromObj /\ b1.toObj = a.toObj
  BY <1>2 DEF ConnOK, CFields
<1>6. /\ DOMAIN b2 = CFields /\ b2.from = a.from /\ b2.to = a.to /\ b2.active = "loose"
      /\ b2.passive = a.passive /\ b2.fromObj = a.fromObj /\ b2.toObj = a.toObj
  BY <1>2 DEF ConnOK, CFields
<1> HIDE DEF b1, b2
<1>7. ConnOK(b1) /\ ConnOK(b2)
  BY <1>2, <1>3, <1>5, <1>6 DEF ConnOK
<1>8. ~ Settled(a, n)
  BY <1>2, <1>3 DEF ConnOK, Settled
<1>9. NotYet(w.t, b1, c, n) /\ Bound(b1, n)
  BY <1>2, <1>3, <1>5, <1>8 DEF OwnAt, NotYet, HasEnd, Bound
<1>10. OwnAt(w.t, b2, c, n)
  <2>1. ~ Bound(b2, n)
    BY <1>2, <1>3, <1>6 DEF ConnOK, Bound
  <2> QED BY <1>2, <1>8, <2>1 DEF OwnAt
<1>11. Foreign(w.conns[c], b1, n) /\ Foreign(w.conns[c], b2, n)
  <2>1. Foreign(a, b1, n) /\ Foreign(a, b2, n)
    BY <1>3, <1>5, <1>6 DEF Foreign, Bound, Settled, Far
  <2> QED BY <1>1, <2>1 DEF a
<1>12. WInv(v2, n, {}) /\ Frame(w, v2, n, {})
  BY Zenon, <1>1, <1>7, <1>10, <1>11, SetConnInv
<1> HIDE DEF v2
<1>13. WInv(u, n, {c}) /\ Frame(w, u, n, {}) /\ u.conns[c] = b1
  BY <1>1, <1>7, <1>9, <1>11, NewBoundInv
<1> HIDE DEF u
<1>14. WInv(v1, n, {}) /\ Frame(u, v1, n, {})
  BY Zenon, <1>9, <1>13, ToNeighborAndSend
<1> HIDE DEF v1
<1>15. Frame(w, v1, n, {})
  BY <1>13, <1>14, FrameTrans
<1> QED BY <1>4, <1>12, <1>14, <1>15, BecomeInv DEF w

(* The connected handler, on failure.                                      *)
LEMMA ConnectFailsInv ==
  ASSUME Inv, NEW n \in Nodes, NEW c \in Conns, NEW stage, ConnectFails(n, c, stage)
  PROVE  Inv'
<1> DEFINE w == World(n)
           u == CloseConn(w, n, c)
           q == Peer(u, n, c)
           v == ConnectPeer(u, n, q, conns[c].fromObj, stage)
<1>1. WInv(w, n, {}) /\ w.conns = conns /\ w.t = node[n]
  BY WorldInv, WorldFields
<1>2. ConnOK(conns[c]) /\ conns[c].active = "connecting" /\ conns[c].from = n
  BY ConnType DEF ConnectFails
<1>3. u = [w EXCEPT !.conns[c].active = "closed", !.conns[c].passive = "closed"]
  BY <1>1, <1>2 DEF CloseConn
<1>4. HasEnd(w.conns[c], n)
  BY <1>1, <1>2 DEF HasEnd
<1> HIDE DEF w
<1>5. WInv(u, n, {}) /\ Frame(w, u, n, {})
  BY <1>1, <1>4, CloseConnInv
<1>6. u.conns[c].from = n /\ u.conns[c].to = conns[c].to
  BY SMTT(30), <1>1, <1>2, <1>4, CloseConnFacts DEF WInv, Closes
<1> HIDE DEF u
<1>7. /\ stage # "none" => FreeConns(u) # {}
      /\ Become(n, IF u.t.neighbors[q] # 0 THEN u ELSE v)
  BY <1>3 DEF ConnectFails, w
<1>8. q \in Others(n) /\ conns[c].fromObj # 0 /\ CanOpen(u, stage)
  BY <1>2, <1>6, <1>7 DEF Peer, Others, ConnOK, CanOpen
<1>9. CASE u.t.neighbors[q] # 0
  BY <1>5, <1>7, <1>9, BecomeInv DEF w
<1>10. CASE u.t.neighbors[q] = 0
  <2> HIDE DEF q
  <2> DEFINE o == conns[c].fromObj
  <2>1. v = ConnectPeer(u, n, q, o, stage) /\ o # 0
    BY <1>8
  <2> HIDE DEF v, o
  <2>2. WInv(v, n, {}) /\ Frame(u, v, n, {})
    BY <1>5, <1>8, <1>10, <2>1, ConnectPeerInv
  <2>3. Frame(w, v, n, {})
    BY <1>5, <2>2, FrameTrans
  <2>4. Become(n, v)
    BY <1>7, <1>10
  <2> QED BY <2>2, <2>3, <2>4, BecomeInv DEF w
<1> QED BY <1>9, <1>10

(* A handshake arrives.                                                    *)
LEMMA OnRecvdHandshakeInv ==
  ASSUME NEW n \in Nodes, NEW w, WInv(w, n, {}), NEW c \in Conns,
         n \in {w.conns[c].from, w.conns[c].to}, IsConnected(w, n, c), NEW k, NEW dead,
         NEW v, v = OnRecvdHandshake(w, n, c, k, dead)
  PROVE  WInv(v, n, {}) /\ Frame(w, v, n, {})
<1> DEFINE q == Peer(w, n, c)
           x == OnKnownNewPeer(w, q)
           a == w.conns[c]
           o == x.t.peers[q]
           b == [a EXCEPT !.passive = "bound", !.toObj = o]
           u == SetConn(x, c, b)
           r == ToNeighbor(u, n, c, k, dead)
           y == IF r.ok THEN SendOn(r.w, n, c, "handshake") ELSE r.w
<1>1. HasEnd(a, n) /\ q \in Others(n)
  BY ConnectedEnd
<1>2. /\ WInv(x, n, {}) /\ Frame(w, x, n, {}) /\ x.conns = w.conns
      /\ SameEntries(w.t, x.t)
  BY <1>1, OnKnownNewPeerInv
<1>3. u = [x EXCEPT !.conns[c].passive = "bound", !.conns[c].toObj = o]
  <2>1. DOMAIN x = WFields /\ DOMAIN x.conns = Conns /\ DOMAIN a = CFields /\ x.conns[c] = a
    BY <1>2 DEF WInv, ConnOK
  <2> HIDE DEF x, a, o
  <2> QED BY ONLY Zenon, <2>1, c \in Conns DEF SetConn, WFields, CFields
<1>4. \/ v = CloseConn(x, n, c)
      \/ v = x
      \/ o # 0 /\ ObjOf(w, n, c) = 0 /\ v = y
  <2> HIDE DEF u
  <2>1. v = IF o = 0 THEN CloseConn(x, n, c) ELSE IF ObjOf(w, n, c) # 0 THEN x ELSE y
    BY <1>3 DEF OnRecvdHandshake
  <2> HIDE DEF x, y, o
  <2> QED BY <2>1
<1>5. ConnOK(a) /\ OwnAt(w.t, a, c, n)
  BY DEF WInv
<1> HIDE DEF x, q, o
<1>6. CASE v = CloseConn(x, n, c)
  <2>1. HasEnd(x.conns[c], n)
    BY <1>1, <1>2
  <2>2. WInv(v, n, {}) /\ Frame(x, v, n, {})
    BY <1>2, <1>6, <2>1, CloseConnInv
  <2> QED BY <1>2, <2>2, FrameTrans
<1>7. CASE v = x
  BY <1>2, <1>7
<1>8. CASE o # 0 /\ ObjOf(w, n, c) = 0 /\ v = y
  <2>1. a.from # n /\ a.to = n /\ a.passive = "accepted" /\ a.active # "free"
    BY <1>1, <1>5, <1>8 DEF ConnOK, HasEnd, ObjOf, IsConnected
  <2>2. a.active # "connecting"
    BY <1>1, <2>1 DEF HasEnd
  <2>3. x.conns[c] = a
    BY <1>2
  <2> HIDE DEF a
  <2>4. /\ DOMAIN b = CFields /\ b.from = a.from /\ b.to = a.to /\ b.active = a.active
        /\ b.passive = "bound" /\ b.fromObj = a.fromObj /\ b.toObj = o
    BY <1>5 DEF ConnOK, CFields
  <2> HIDE DEF b
  <2>5. ConnOK(b)
    BY <1>5, <1>8, <2>1, <2>2, <2>4 DEF ConnOK
  <2>6. Bound(b, n) /\ HasEnd(b, n) /\ ~ Settled(a, n)
    BY <2>1, <2>2, <2>4 DEF Bound, HasEnd, Settled
  <2>7. NotYet(x.t, b, c, n)
    BY <1>2, <1>5, <2>6 DEF OwnAt, NotYet, SameEntries
  <2>8. Foreign(x.conns[c], b, n)
    <3>1. Foreign(a, b, n)
      BY <2>1, <2>4 DEF Foreign, Bound, Settled, Far
    <3> QED BY <2>3, <3>1
  <2>9. WInv(u, n, {c}) /\ Frame(x, u, n, {}) /\ u.conns[c] = b
    BY <1>2, <2>5, <2>7, <2>8, NewBoundInv
  <2> HIDE DEF u
  <2>10. WInv(y, n, {}) /\ Frame(u, y, n, {})
    BY <2>6, <2>9, ToNeighborAndSend
  <2> HIDE DEF y
  <2>11. Frame(w, y, n, {})
    BY <1>2, <2>9, <2>10, FrameTrans
  <2> QED BY <1>8, <2>10, <2>11
<1> QED BY <1>4, <1>6, <1>7, <1>8

(* A message arrives.                                                      *)
LEMMA DeliverInv ==
  ASSUME Inv, NEW n \in Nodes, NEW c \in Conns, NEW k, Deliver(n, c, k)
  PROVE  Inv'
<1> DEFINE z == World(n)
           w == IF conns[c].from = n THEN [z EXCEPT !.conns[c].toActive = Tail(@)]
                                     ELSE [z EXCEPT !.conns[c].toPassive = Tail(@)]
<1>1. WInv(z, n, {}) /\ z.conns = conns /\ z.t = node[n]
  BY WorldInv, WorldFields
<1>2. /\ n \in {conns[c].from, conns[c].to} /\ IsConnected(z, n, c)
      /\ \E dead : \/ Become(n, OnDisconnected(w, n, c))
                   \/ Become(n, OnRecvdHandshake(w, n, c, k, dead))
  BY DEF Deliver
<1> HIDE DEF z
<1>3. DOMAIN z = WFields /\ DOMAIN z.conns = Conns /\ \A d \in Conns : DOMAIN z.conns[d] = CFields
  BY <1>1 DEF WInv, ConnOK
<1>4. /\ DOMAIN w = WFields /\ w.t = z.t /\ w.failed = z.failed /\ DOMAIN w.conns = Conns
      /\ \A d \in Conns \ {c} : w.conns[d] = z.conns[d]
  BY <1>3 DEF WFields, CFields
<1>5. SameEnds(z.conns[c], w.conns[c])
  BY <1>3 DEF WFields, CFields, SameEnds
<1> HIDE DEF w
<1>6. \A d \in Conns : SameEnds(z.conns[d], w.conns[d])
  BY <1>4, <1>5 DEF SameEnds
<1>7. WInv(w, n, {}) /\ Frame(z, w, n, {})
  BY <1>1, <1>4, <1>6, SameEndsStep
<1>8. n \in {w.conns[c].from, w.conns[c].to} /\ IsConnected(w, n, c)
  BY <1>1, <1>2, <1>5 DEF SameEnds, IsConnected
<1>9. CASE Become(n, OnDisconnected(w, n, c))
  <2> DEFINE v == OnDisconnected(w, n, c)
  <2>1. WInv(v, n, {}) /\ Frame(w, v, n, {})
    BY <1>7, <1>8, OnDisconnectedInv
  <2>2. Become(n, v)
    BY <1>9
  <2> HIDE DEF v
  <2>3. Frame(z, v, n, {})
    BY <1>7, <2>1, FrameTrans
  <2> QED BY <2>1, <2>2, <2>3, BecomeInv DEF z
<1>10. CASE \E dead : Become(n, OnRecvdHandshake(w, n, c, k, dead))
  <2>0. PICK dead : Become(n, OnRecvdHandshake(w, n, c, k, dead))
    BY <1>10
  <2> DEFINE v == OnRecvdHandshake(w, n, c, k, dead)
  <2>1. WInv(v, n, {}) /\ Frame(w, v, n, {})
    BY <1>7, <1>8, OnRecvdHandshakeInv
  <2>2. Become(n, v)
    BY <2>0
  <2> HIDE DEF v
  <2>3. Frame(z, v, n, {})
    BY <1>7, <2>1, FrameTrans
  <2> QED BY <2>1, <2>2, <2>3, BecomeInv DEF z
<1> QED BY <1>2, <1>9, <1>10

(* start closes every connection of n.                                     *)
LEMMA CloseAllFacts ==
  ASSUME NEW n \in Nodes, NEW w, WInv(w, n, {}), NEW v, v = CloseAll(w, n)
  PROVE  /\ DOMAIN v = WFields /\ v.t = w.t /\ v.failed = w.failed /\ DOMAIN v.conns = Conns
         /\ \A c \in Conns : /\ ConnOK(v.conns[c]) /\ ~ Bound(v.conns[c], n)
                             /\ w.t.closing = c =>
                                  v.conns[c].active # "free" /\ Settled(v.conns[c], n)
                             /\ Foreign(w.conns[c], v.conns[c], n)
<1> DEFINE C == [c \in Conns |-> IF c \in Held(w, n) THEN CloseConn(w, n, c).conns[c]
                                                     ELSE w.conns[c]]
<1>1. DOMAIN w = WFields
  BY DEF WInv
<1>2. v = [w EXCEPT !.conns = C]
  BY DEF CloseAll
<1>3. DOMAIN C = Conns /\ \A c \in Conns :
        C[c] = IF c \in Held(w, n) THEN CloseConn(w, n, c).conns[c] ELSE w.conns[c]
  OBVIOUS
<1> HIDE DEF C
<1>4. DOMAIN v = WFields /\ v.t = w.t /\ v.failed = w.failed /\ v.conns = C
  BY ONLY <1>1, <1>2 DEF WFields
<1>5. ASSUME NEW c \in Conns
      PROVE  /\ ConnOK(C[c]) /\ ~ Bound(C[c], n)
             /\ w.t.closing = c => C[c].active # "free" /\ Settled(C[c], n)
             /\ Foreign(w.conns[c], C[c], n)
  <2>1. ConnOK(w.conns[c]) /\ OwnAt(w.t, w.conns[c], c, n)
    BY SMTT(30) DEF WInv
  <2>2. CASE c \in Held(w, n)
    <3>1. HasEnd(w.conns[c], n)
      BY SMTT(30), <2>1, <2>2 DEF Held, IsConnected, HasEnd, ConnOK
    <3>2. Closes(w.conns[c], CloseConn(w, n, c).conns[c], n)
      BY <3>1, CloseConnFacts DEF WInv
    <3> QED BY <1>3, <2>2, <3>2 DEF Closes
  <2>3. CASE c \notin Held(w, n)
    <3>1. ~ Bound(w.conns[c], n)
      BY <2>1, <2>3 DEF Held, IsConnected, Bound, ConnOK
    <3>2. Foreign(w.conns[c], w.conns[c], n)
      BY DEF Foreign
    <3>3. C[c] = w.conns[c]
      BY <1>3, <2>3
    <3> QED BY <2>1, <3>1, <3>2, <3>3 DEF OwnAt
  <2> QED BY <2>2, <2>3
<1> QED BY <1>3, <1>4, <1>5

(* A new login starts the overlay again.                                   *)
LEMMA RestartInv ==
  ASSUME Inv, NEW n \in Nodes, Restart(n)
  PROVE  Inv'
<1> DEFINE w == World(n)
           u == CloseAll(w, n)
           N == [q \in Nodes |-> 0]
           v == [u EXCEPT !.t.neighbors = N, !.t.restarts = @ + 1]
<1>1. WInv(w, n, {})
  BY WorldInv
<1>2. Become(n, v)
  BY DEF Restart
<1>3. N \in [Nodes -> {0} \cup Conns] /\ \A q \in Nodes : N[q] = 0
  OBVIOUS
<1> HIDE DEF w, N
<1>4. /\ DOMAIN u = WFields /\ u.t = w.t /\ u.failed = w.failed /\ DOMAIN u.conns = Conns
      /\ \A c \in Conns : /\ ConnOK(u.conns[c]) /\ ~ Bound(u.conns[c], n)
                          /\ w.t.closing = c =>
                               u.conns[c].active # "free" /\ Settled(u.conns[c], n)
                          /\ Foreign(w.conns[c], u.conns[c], n)
  BY <1>1, CloseAllFacts
<1> HIDE DEF u
<1>5. TablesOK(w.t, n) /\ DOMAIN u = WFields
  BY <1>1, <1>4 DEF WInv
<1>6. /\ DOMAIN v = WFields /\ v.conns = u.conns /\ v.failed = u.failed
      /\ v.t = [u.t EXCEPT !.neighbors = N, !.restarts = @ + 1]
  BY ONLY <1>5 DEF WFields
<1> HIDE DEF v
<1>7. v.t = [w.t EXCEPT !.neighbors = N, !.restarts = @ + 1]
  BY <1>4, <1>6
<1>8. /\ DOMAIN v.t = TFields /\ v.t.neighbors = N
      /\ v.t.closing = w.t.closing /\ v.t.members = w.t.members
      /\ v.t.pending = w.t.pending /\ v.t.unreachable = w.t.unreachable
      /\ v.t.peers = w.t.peers /\ v.t.made = w.t.made /\ v.t.posts = w.t.posts
  BY ONLY <1>5, <1>7 DEF TablesOK, TFields
<1>9. TablesOK(v.t, n)
  BY ONLY SMTT(30), <1>3, <1>5, <1>8 DEF TablesOK
<1>10. Disjoint(v.t, n)
  BY <1>1, <1>3, <1>8 DEF WInv, Disjoint
<1>11. Cardinality(NeighborIds(v.t)) <= MaxNeighbors
  <2>1. NeighborIds(v.t) \subseteq NeighborIds(w.t)
    BY <1>3, <1>8 DEF NeighborIds
  <2> QED BY <1>1, <2>1, FewerNeighbors DEF WInv
<1>12. \A c \in Conns : OwnAt(v.t, v.conns[c], c, n)
  BY <1>3, <1>4, <1>6, <1>8, Constants DEF OwnAt
<1>13. WInv(v, n, {})
  <2>1. v.failed \subseteq {1111}
    BY <1>1, <1>4, <1>6 DEF WInv
  <2> QED BY <1>4, <1>6, <1>9, <1>10, <1>11, <1>12, <2>1 DEF WInv
<1>14. Frame(w, v, n, {})
  BY <1>4, <1>6 DEF Frame
<1> QED BY <1>2, <1>13, <1>14, BecomeInv DEF w

(* on_neighbor_maintainer_timer                                            *)
LEMMA MaintainInv ==
  ASSUME Inv, NEW n \in Nodes, NEW stage, Maintain(n, stage)
  PROVE  Inv'
<1> DEFINE z == World(n)
<1>1. WInv(z, n, {})
  BY SMTT(30), WorldInv
<1>2. PICK dead \in {0} \cup DeadNeighbors(z, n) :
        LET w == DropDead(z, n, dead)
        IN  \/ \E k : Become(n, TryShrink(w, n, k)) \/ Become(n, w)
            \/ \E freed, lucky, S :
                 /\ freed \subseteq Unreachable(w) /\ lucky \subseteq freed
                 /\ S \subseteq Members(Release(w, freed, lucky))
                 /\ stage # "none" =>
                      Cardinality(S) <= Cardinality(FreeConns(Release(w, freed, lucky)))
                 /\ Become(n, ConnectAll(Release(w, freed, lucky), n, S, stage))
  <2>1. PICK dead \in {0} \cup DeadNeighbors(World(n), n) :
          LET w == DropDead(World(n), n, dead)
          IN  \/ \E k \in Picks(n) :
                   Become(n, IF Full(w) /\ Cardinality(Members(w)) >= MaxNeighbors
                             THEN TryShrink(w, n, k) ELSE w)
              \/ \E freed \in IF Members(w) # {} THEN {{}}
                            ELSE kSubset(Min({3, Cardinality(Unreachable(w))}), Unreachable(w)) :
                 \E lucky \in SUBSET freed :
                 LET v == Release(w, freed, lucky)
                 IN  \E S \in SUBSET Members(v) :
                       /\ stage # "none" => Cardinality(S) <= Cardinality(FreeConns(v))
                       /\ Become(n, ConnectAll(v, n, S, stage))
    BY Zenon DEF Maintain
  <2> DEFINE w == DropDead(World(n), n, dead)
             F == IF Members(w) # {} THEN {{}}
                  ELSE kSubset(Min({3, Cardinality(Unreachable(w))}), Unreachable(w))
  <2>2. \A f \in F : f \subseteq Unreachable(w)
    BY DEF kSubset
  <2> HIDE DEF w, F
  <2> QED BY Zenon, <2>1, <2>2 DEF w, F
<1> DEFINE w == DropDead(z, n, dead)
<1>3. WInv(w, n, {}) /\ Frame(z, w, n, {})
  BY <1>1, DropDeadInv
<1> HIDE DEF z, w
<1>4. CASE \E k : Become(n, TryShrink(w, n, k)) \/ Become(n, w)
  <2>0. PICK k : Become(n, TryShrink(w, n, k)) \/ Become(n, w)
    BY <1>4
  <2> DEFINE v == TryShrink(w, n, k)
  <2>1. WInv(v, n, {}) /\ Frame(w, v, n, {})
    BY <1>3, TryShrinkInv
  <2> HIDE DEF v
  <2>2. Frame(z, v, n, {})
    BY <1>3, <2>1, FrameTrans
  <2>3. Become(n, v) \/ Become(n, w)
    BY <2>0 DEF v
  <2> QED BY <1>3, <2>1, <2>2, <2>3, BecomeInv DEF z
<1>5. CASE \E freed, lucky, S :
             /\ freed \subseteq Unreachable(w) /\ lucky \subseteq freed
             /\ S \subseteq Members(Release(w, freed, lucky))
             /\ stage # "none" =>
                  Cardinality(S) <= Cardinality(FreeConns(Release(w, freed, lucky)))
             /\ Become(n, ConnectAll(Release(w, freed, lucky), n, S, stage))
  <2>0. PICK freed, lucky, S :
             /\ freed \subseteq Unreachable(w) /\ lucky \subseteq freed
             /\ S \subseteq Members(Release(w, freed, lucky))
             /\ stage # "none" =>
                  Cardinality(S) <= Cardinality(FreeConns(Release(w, freed, lucky)))
             /\ Become(n, ConnectAll(Release(w, freed, lucky), n, S, stage))
    BY <1>5
  <2> DEFINE u == Release(w, freed, lucky)
             v == ConnectAll(u, n, S, stage)
  <2>1. WInv(u, n, {}) /\ Frame(w, u, n, {})
    BY <1>3, <2>0, ReleaseInv
  <2>2. /\ S \subseteq Members(u) /\ Become(n, v)
        /\ stage # "none" => Cardinality(S) <= Cardinality(FreeConns(u))
    BY <2>0
  <2> HIDE DEF u
  <2>3. WInv(v, n, {}) /\ Frame(u, v, n, {})
    BY Zenon, <2>1, <2>2, ConnectAllInv
  <2> HIDE DEF v
  <2>4. Frame(z, v, n, {})
    BY <1>3, <2>1, <2>3, FrameTrans
  <2> QED BY <2>2, <2>3, <2>4, BecomeInv DEF z
<1> QED BY <1>2, <1>4, <1>5 DEF w

-----------------------------------------------------------------------------
(* The invariant holds                                                     *)

(* At first every table is empty and every connection is free.             *)
LEMMA InitInv ==
  ASSUME Init
  PROVE  Inv
<1>1. ASSUME NEW n \in Nodes
      PROVE  WInv(World(n), n, {})
  <2> DEFINE w == World(n)
  <2>1. DOMAIN w = WFields /\ w.t = NoTables /\ w.conns = conns /\ w.failed = {}
    BY WorldFields DEF Init
  <2>2. DOMAIN conns = Conns /\ \A c \in Conns : conns[c] = Free
    BY SMTT(30) DEF Init
  <2> HIDE DEF w
  <2>3. /\ DOMAIN NoTables = TFields
        /\ NoTables.members = [q \in Nodes |-> 0] /\ NoTables.pending = [q \in Nodes |-> 0]
        /\ NoTables.unreachable = [q \in Nodes |-> 0] /\ NoTables.peers = [q \in Nodes |-> 0]
        /\ NoTables.made = [q \in Nodes |-> 0] /\ NoTables.neighbors = [q \in Nodes |-> 0]
        /\ NoTables.closing = 0 /\ NoTables.posts = <<>>
    BY DEF NoTables, TFields
  <2>4. TablesOK(w.t, n)
    <3>1. <<>> \in Seq(Posts(n))
      OBVIOUS
    <3> QED BY <2>1, <2>3, <3>1 DEF TablesOK
  <2>5. Disjoint(w.t, n)
    BY <2>1, <2>3 DEF Disjoint
  <2>6. /\ DOMAIN Free = CFields /\ Free.active = "free" /\ Free.passive = "none"
        /\ Free.toObj = 0
    BY DEF Free, CFields
  <2>7. ConnOK(Free) /\ ~ Bound(Free, n)
    BY <2>6 DEF ConnOK, Bound
  <2>8. \A c \in Conns : ConnOK(w.conns[c]) /\ OwnAt(w.t, w.conns[c], c, n)
    BY Zenon, <2>1, <2>2, <2>3, <2>7, Constants DEF OwnAt
  <2>9. Cardinality(NeighborIds(w.t)) <= MaxNeighbors
    <3>1. NeighborIds(w.t) = {}
      BY <2>1, <2>3 DEF NeighborIds
    <3> QED BY <3>1, FS_EmptySet, Constants
  <2>10. WInv(w, n, {})
    BY <2>1, <2>2, <2>4, <2>5, <2>8, <2>9 DEF WInv
  <2> QED BY <2>10 DEF w
<1> QED BY <1>1 DEF Init, Inv

(* No step breaks it.                                                      *)
LEMMA StepInv ==
  ASSUME Inv, [Next]_vars
  PROVE  Inv'
<1>1. CASE UNCHANGED vars
  <2>1. node' = node /\ conns' = conns /\ yielded' = yielded /\ failed' = failed
    BY <1>1 DEF vars
  <2> QED BY <2>1 DEF Inv, World, WInv
<1>2. ASSUME NEW n \in Nodes, NEW q \in Others(n),
             Learn(n, q) \/ LearnOffline(n, q) \/ Expire(n, q) \/ RejectMedia(n, q)
      PROVE  Inv'
  BY <1>2, LearnInv, LearnOfflineInv, ExpireInv, RejectMediaInv
<1>3. ASSUME NEW n \in Nodes, RunPosted(n) \/ Restart(n)
      PROVE  Inv'
  BY <1>3, RunPostedInv, RestartInv
<1>4. ASSUME NEW n \in Nodes, NEW c \in Conns,
             \/ \E k \in Picks(n) : Connected(n, c, k)
             \/ \E stage \in {"direct", "punch", "tcp", "none"} : ConnectFails(n, c, stage)
             \/ Accepted(n, c) \/ NotAccepted(n, c)
             \/ \E k \in Picks(n) : Deliver(n, c, k)
             \/ LosePath(c) \/ GiveUp(n, c) \/ SocketExpires(n, c)
      PROVE  Inv'
  BY <1>4, ConnectedInv, ConnectFailsInv, AcceptedInv, NotAcceptedInv, DeliverInv,
     LosePathInv, GiveUpInv, SocketExpiresInv
<1>5. ASSUME NEW n \in Nodes, NEW stage \in FirstStages, Maintain(n, stage)
      PROVE  Inv'
  BY <1>5, MaintainInv
<1> QED BY <1>1, <1>2, <1>3, <1>4, <1>5 DEF Next

(* The inductive invariant of the overlay.                                 *)
THEOREM OverlayInvariant == Spec => []Inv
<1>1. Init => Inv
  BY InitInv
<1>2. Inv /\ [Next]_vars => Inv'
  BY StepInv
<1> QED BY <1>1, <1>2, PTL DEF Spec

(* A peer is in at most one of members_, unreachable_members_ and          *)
(* neighbors_conn_, and a neighbor is not pending, for any number of       *)
(* peers, connections and events.                                          *)
THEOREM TablesAreDisjoint == Spec => []TablesDisjoint
<1>1. Inv => TablesDisjoint
  <2> SUFFICES ASSUME Inv, NEW n \in Nodes
               PROVE  LET w == World(n)
                      IN  /\ Members(w) \cap Neighbors(w) = {}
                          /\ Members(w) \cap Unreachable(w) = {}
                          /\ Unreachable(w) \cap Neighbors(w) = {}
                          /\ Pending(w) \cap Neighbors(w) = {}
    BY DEF TablesDisjoint
  <2>1. Disjoint(World(n).t, n)
    BY WorldInv DEF WInv
  <2> QED BY <2>1 DEF Disjoint, Members, Neighbors, Unreachable, Pending
<1> QED BY <1>1, OverlayInvariant, PTL

(* A node never has more than max_neighbor_cnt_ neighbors.                 *)
THEOREM NeighborsAreBounded == Spec => []NeighborsBounded
<1>1. Inv => NeighborsBounded
  <2> SUFFICES ASSUME Inv, NEW n \in Nodes
               PROVE  Cardinality(Neighbors(World(n))) <= MaxNeighbors
    BY DEF NeighborsBounded
  <2>1. Cardinality(NeighborIds(World(n).t)) <= MaxNeighbors
    BY WorldInv DEF WInv
  <2>2. NeighborIds(World(n).t) = Neighbors(World(n))
    BY DEF NeighborIds, Neighbors
  <2> QED BY <2>1, <2>2
<1> QED BY <1>1, OverlayInvariant, PTL

(* The assertions of to_neighbor (overlay.cpp:1003) and member_to_pending  *)
(* (1077) never fail.                                                      *)
THEOREM TheAssertsHold == Spec => []AssertsHold
<1>1. Init => AssertsHold
  BY SMTT(30) DEF Init, AssertsHold
<1>2. Inv /\ Nodes # {} => AssertsHold
  <2> SUFFICES ASSUME Inv, NEW n \in Nodes
               PROVE  failed \subseteq {1111}
    BY DEF AssertsHold
  <2> QED BY WorldInv, WorldFields DEF WInv
<1>3. AssertsHold /\ Nodes = {} /\ [Next]_vars => AssertsHold'
  <2>1. Nodes = {} => ~ Next
    BY Zenon DEF Next
  <2> SUFFICES ASSUME AssertsHold, Nodes = {}, [Next]_vars
               PROVE  AssertsHold'
    OBVIOUS
  <2>2. failed' = failed
    BY <2>1 DEF vars
  <2> QED BY <2>2 DEF AssertsHold
<1>4. CASE Nodes = {}
  BY <1>1, <1>3, <1>4, PTL DEF Spec
<1>5. CASE Nodes # {}
  BY <1>2, <1>5, OverlayInvariant, PTL
<1> QED BY <1>4, <1>5
=============================================================================
