------------------------ MODULE OverlayActionProofs ------------------------
(***************************************************************************)
(* From one node to all of them: what an operation of one node does is     *)
(* right for the others too.  Then the actions that do not make a          *)
(* neighbor keep the invariant of OverlayInvProofs.                        *)
(***************************************************************************)
EXTENDS OverlayMemberProofs

(* From one world to all of them                                           *)

(* What an operation of n leaves is right for n.                           *)
LEMMA SameWorld ==
  ASSUME NEW n, NEW v, NEW b, WInv(v, n, {}), DOMAIN b = WFields,
         b.t = v.t, b.conns = v.conns, b.failed = v.failed
  PROVE  WInv(b, n, {})
BY DEF WInv

(* What an operation of n leaves is right for another node m too.          *)
LEMMA OtherWorld ==
  ASSUME NEW n \in Nodes, NEW m \in Nodes, m # n, NEW w, NEW a, NEW v, NEW b,
         WInv(a, m, {}), w.conns = a.conns, WInv(v, n, {}), Frame(w, v, n, {}),
         DOMAIN b = WFields, b.t = a.t, b.conns = v.conns, b.failed = v.failed
  PROVE  WInv(b, m, {})
<1>1. ASSUME NEW c \in Conns
      PROVE  ConnOK(b.conns[c]) /\ OwnAt(b.t, b.conns[c], c, m)
  <2> DEFINE x == a.conns[c]
             y == v.conns[c]
  <2>1. ConnOK(x) /\ ConnOK(y) /\ OwnAt(a.t, x, c, m) /\ Foreign(x, y, n)
    BY DEF WInv, Frame
  <2> HIDE DEF x, y
  <2>2. /\ Bound(y, m) <=> Bound(x, m)
        /\ x.active # "free" => /\ y.active # "free" /\ Far(y, m) = Far(x, m)
                                /\ Settled(x, m) => Settled(y, m)
    BY <2>1 DEF Foreign
  <2>3. Bound(x, m) => x.active # "free"
    BY <2>1 DEF ConnOK, Bound
  <2>4. OwnAt(a.t, y, c, m)
    BY <2>1, <2>2, <2>3 DEF OwnAt
  <2> QED BY <2>1, <2>4 DEF y
<1>2. DOMAIN b.conns = Conns /\ b.failed \subseteq {1111}
  BY DEF WInv
<1>3. TablesOK(b.t, m) /\ Disjoint(b.t, m) /\ Cardinality(NeighborIds(b.t)) <= MaxNeighbors
  BY DEF WInv
<1> QED BY <1>1, <1>2, <1>3 DEF WInv

(* The shape of a world.                                                   *)
LEMMA WorldFields ==
  ASSUME NEW n
  PROVE  /\ DOMAIN World(n) = WFields /\ World(n).t = node[n] /\ World(n).conns = conns
         /\ World(n).failed = failed
         /\ DOMAIN World(n)' = WFields /\ World(n)'.t = node'[n] /\ World(n)'.conns = conns'
         /\ World(n)'.failed = failed'
BY DEF World, WFields

(* A node takes a step.                                                    *)
LEMMA BecomeInv ==
  ASSUME Inv, NEW n \in Nodes, NEW v, Become(n, v), WInv(v, n, {}),
         Frame(World(n), v, n, {})
  PROVE  Inv'
<1>1. /\ DOMAIN node' = Nodes /\ node'[n] = v.t /\ \A m \in Nodes \ {n} : node'[m] = node[m]
      /\ conns' = v.conns /\ failed' = v.failed
  BY DEF Become, Inv
<1>2. ASSUME NEW m \in Nodes
      PROVE  WInv(World(m)', m, {})
  <2>1. /\ DOMAIN World(m)' = WFields /\ World(m)'.t = node'[m] /\ World(m)'.conns = conns'
        /\ World(m)'.failed = failed' /\ World(m).t = node[m] /\ World(m).conns = conns
    BY WorldFields
  <2>2. World(n).conns = conns
    BY WorldFields
  <2>3. WInv(World(m), m, {})
    BY DEF Inv
  <2>4. CASE m = n
    BY <1>1, <2>1, <2>4, SameWorld
  <2>5. CASE m # n
    <3> DEFINE a == World(m)
               b == World(m)'
               w == World(n)
    <3>1. /\ DOMAIN b = WFields /\ b.t = a.t /\ b.conns = v.conns /\ b.failed = v.failed
          /\ w.conns = a.conns /\ WInv(a, m, {}) /\ Frame(w, v, n, {})
      BY <1>1, <2>1, <2>2, <2>3, <2>5
    <3> HIDE DEF a, b, w
    <3>2. WInv(b, m, {})
      BY <2>5, <3>1, OtherWorld
    <3> QED BY <3>2 DEF b
  <2> QED BY <2>4, <2>5
<1> QED BY <1>1, <1>2 DEF Inv

(* What a step starts from.                                                *)
LEMMA WorldInv ==
  ASSUME Inv, NEW n \in Nodes
  PROVE  WInv(World(n), n, {})
BY DEF Inv

(* Fields that no invariant is about.                                      *)
LEMMA OtherFields ==
  ASSUME NEW n \in Nodes, NEW w, NEW v, WInv(w, n, {}),
         DOMAIN v = WFields, v.conns = w.conns, v.failed = w.failed,
         DOMAIN v.t = TFields, SameEntries(w.t, v.t),
         v.t.peers = w.t.peers, v.t.made = w.t.made, v.t.posts \in Seq(Posts(n))
  PROVE  WInv(v, n, {}) /\ Frame(w, v, n, {})
<1>1. TablesOK(w.t, n) /\ w.failed \subseteq {1111}
  BY DEF WInv
<1>2. TablesOK(v.t, n)
  BY <1>1 DEF TablesOK, SameEntries
<1>3. v.failed \subseteq {1111}
  BY <1>1
<1> QED BY <1>2, <1>3, SameEntriesStep

(* The tracker, or a neighbor, names q.                                    *)
LEMMA LearnInv ==
  ASSUME Inv, NEW n \in Nodes, NEW q \in Others(n), Learn(n, q)
  PROVE  Inv'
<1> DEFINE v == OnKnownNewPeer(World(n), q)
<1>1. WInv(v, n, {}) /\ Frame(World(n), v, n, {})
  BY WorldInv, OnKnownNewPeerInv
<1>2. Become(n, v)
  BY DEF Learn
<1> HIDE DEF v
<1> QED BY <1>1, <1>2, BecomeInv

(* The tracker calls q offline.                                            *)
LEMMA LearnOfflineInv ==
  ASSUME Inv, NEW n \in Nodes, NEW q \in Others(n), LearnOffline(n, q)
  PROVE  Inv'
<1> DEFINE w == World(n)
           u == OnKnownOfflinePeer(w, q)
           v == [u EXCEPT !.t.notices = @ + 1]
<1>1. WInv(u, n, {}) /\ Frame(w, u, n, {})
  BY WorldInv, OnKnownOfflinePeerInv
<1>2. Become(n, v)
  BY DEF LearnOffline
<1> HIDE DEF u
<1>3. DOMAIN u = WFields /\ TablesOK(u.t, n)
  BY <1>1 DEF WInv
<1>4. /\ DOMAIN v = WFields /\ v.conns = u.conns /\ v.failed = u.failed
      /\ v.t = [u.t EXCEPT !.notices = @ + 1]
  BY ONLY <1>3 DEF WFields
<1> HIDE DEF v, w
<1>5. /\ DOMAIN v.t = TFields /\ SameEntries(u.t, v.t)
      /\ v.t.peers = u.t.peers /\ v.t.made = u.t.made /\ v.t.posts = u.t.posts
  BY ONLY <1>3, <1>4 DEF TablesOK, TFields, SameEntries
<1>6. v.t.posts \in Seq(Posts(n))
  BY <1>3, <1>5 DEF TablesOK
<1>7. WInv(v, n, {}) /\ Frame(u, v, n, {})
  <2>1. DOMAIN v = WFields /\ v.conns = u.conns /\ v.failed = u.failed
    BY <1>4
  <2>2. DOMAIN v.t = TFields /\ SameEntries(u.t, v.t) /\ v.t.peers = u.t.peers
        /\ v.t.made = u.t.made
    BY <1>5
  <2> QED BY <1>1, <1>6, <2>1, <2>2, OtherFields
<1>8. Frame(w, v, n, {})
  BY <1>1, <1>7, FrameTrans
<1> QED BY <1>2, <1>7, <1>8, BecomeInv DEF w

(* A packet with a wrong signature.                                        *)
LEMMA RejectMediaInv ==
  ASSUME Inv, NEW n \in Nodes, NEW q \in Others(n), RejectMedia(n, q)
  PROVE  Inv'
<1> DEFINE v == EraseOfflinePeer(World(n), n, q)
<1>0. q \in Nodes
  BY DEF Others
<1>1. WInv(v, n, {}) /\ Frame(World(n), v, n, {})
  BY <1>0, WorldInv, EraseOfflinePeerInv
<1>2. Become(n, v)
  BY DEF RejectMedia
<1> HIDE DEF v
<1> QED BY <1>1, <1>2, BecomeInv

(* An entry of unreachable_members_ expires.                               *)
LEMMA ReachableInv ==
  ASSUME NEW n \in Nodes, NEW w, WInv(w, n, {}), NEW q \in Others(n),
         NEW v, v = [w EXCEPT !.t.unreachable[q] = 0]
  PROVE  WInv(v, n, {}) /\ Frame(w, v, n, {})
<1>0. v = [w EXCEPT !.t.unreachable[q] = 0]
  OBVIOUS
<1>1. DOMAIN w = WFields
  BY DEF WInv
<1>2. TablesOK(w.t, n)
  BY DEF WInv
<1>3. w.failed \subseteq {1111} /\ Disjoint(w.t, n)
  BY DEF WInv
<1>4. /\ DOMAIN v = WFields /\ v.conns = w.conns /\ v.failed = w.failed
      /\ v.t = [w.t EXCEPT !.unreachable[q] = 0]
  BY ONLY <1>0, <1>1 DEF WFields
<1>5. /\ DOMAIN v.t = TFields /\ v.t.neighbors = w.t.neighbors
      /\ v.t.closing = w.t.closing /\ v.t.members = w.t.members
      /\ v.t.pending = w.t.pending
      /\ v.t.unreachable = [w.t.unreachable EXCEPT ![q] = 0]
      /\ v.t.peers = w.t.peers /\ v.t.made = w.t.made /\ v.t.posts = w.t.posts
  BY ONLY <1>2, <1>4 DEF TablesOK, TFields
<1>6. TablesOK(v.t, n)
  BY ONLY <1>2, <1>5 DEF TablesOK
<1>7. q \in Nodes
  BY DEF Others
<1>8. \A p \in Nodes : v.t.unreachable[p] = IF p = q THEN 0 ELSE w.t.unreachable[p]
  BY ONLY <1>2, <1>5 DEF TablesOK
<1>9. Disjoint(v.t, n)
  BY ONLY <1>3, <1>5, <1>8, n \in Nodes DEF Disjoint
<1>10. /\ DOMAIN v = WFields /\ v.conns = w.conns /\ v.failed \subseteq {1111}
       /\ v.t.neighbors = w.t.neighbors /\ v.t.closing = w.t.closing
  BY ONLY <1>3, <1>4, <1>5
<1> HIDE <1>0
<1> QED BY ONLY <1>6, <1>9, <1>10, WInv(w, n, {}), n \in Nodes, TableStep

(* The entries of the timed keepers expire.                                *)
LEMMA ExpireInv ==
  ASSUME Inv, NEW n \in Nodes, NEW q \in Others(n), Expire(n, q)
  PROVE  Inv'
<1> DEFINE w == World(n)
           v1 == [w EXCEPT !.t.unreachable[q] = 0]
           v2 == SetPending(w, q, 0)
           v3 == SetBlack(w, w.t.black \ {q})
           v4 == [w EXCEPT !.t.offline = @ \ {q}]
<1>1. WInv(w, n, {})
  BY WorldInv
<1>2. Become(n, v1) \/ Become(n, v2) \/ Become(n, v3) \/ Become(n, v4)
  BY DEF Expire, SetPending, SetBlack
<1> HIDE DEF w
<1>3. WInv(v1, n, {}) /\ Frame(w, v1, n, {})
  BY <1>1, ReachableInv
<1>4. WInv(v2, n, {}) /\ Frame(w, v2, n, {})
  BY <1>1, SetPendingInv
<1>5. WInv(v3, n, {}) /\ Frame(w, v3, n, {})
  BY <1>1, BlackStep
<1>6. WInv(v4, n, {}) /\ Frame(w, v4, n, {})
  <2>1. DOMAIN w = WFields /\ TablesOK(w.t, n)
    BY <1>1 DEF WInv
  <2>2. /\ DOMAIN v4 = WFields /\ v4.conns = w.conns /\ v4.failed = w.failed
        /\ v4.t = [w.t EXCEPT !.offline = @ \ {q}]
    BY ONLY <2>1 DEF WFields
  <2> HIDE DEF v4
  <2>3. /\ DOMAIN v4.t = TFields /\ SameEntries(w.t, v4.t)
        /\ v4.t.peers = w.t.peers /\ v4.t.made = w.t.made /\ v4.t.posts = w.t.posts
    BY ONLY <2>1, <2>2 DEF TablesOK, TFields, SameEntries
  <2>4. v4.t.posts \in Seq(Posts(n)) /\ SameEntries(w.t, v4.t) /\ DOMAIN v4.t = TFields
    BY ONLY <2>1, <2>3 DEF TablesOK
  <2>5. DOMAIN v4 = WFields /\ v4.conns = w.conns /\ v4.failed = w.failed
    BY <2>2
  <2>6. v4.t.peers = w.t.peers /\ v4.t.made = w.t.made
    BY <2>3
  <2> QED BY <1>1, <2>4, <2>5, <2>6, OtherFields
<1> HIDE DEF v1, v2, v3, v4
<1> QED BY <1>2, <1>3, <1>4, <1>5, <1>6, BecomeInv DEF w

(* The io_service runs an operation that was posted.                       *)
LEMMA RunPostedInv ==
  ASSUME Inv, NEW n \in Nodes, RunPosted(n)
  PROVE  Inv'
<1> DEFINE w == World(n)
           p == Head(node[n].posts)
           u == [w EXCEPT !.t.posts = Tail(@)]
<1>1. WInv(w, n, {}) /\ w.t = node[n]
  BY WorldInv, WorldFields
<1>2. DOMAIN w = WFields /\ TablesOK(w.t, n)
  BY <1>1 DEF WInv
<1>3. /\ node[n].posts # <<>>
      /\ Become(n, IF p.op = "known" THEN KnownNewPeer(u, p.id, p.obj)
                                     ELSE EraseOfflinePeer(u, n, p.id))
  BY DEF RunPosted
<1>4. p \in Posts(n) /\ Tail(w.t.posts) \in Seq(Posts(n))
  BY <1>1, <1>2, <1>3, HeadTailProperties DEF TablesOK
<1>5. p.id \in Others(n) /\ p.id \in Nodes
  BY <1>4 DEF Posts, Others
<1> HIDE DEF w, p
<1>6. /\ DOMAIN u = WFields /\ u.conns = w.conns /\ u.failed = w.failed
      /\ u.t = [w.t EXCEPT !.posts = Tail(@)]
  BY ONLY <1>2 DEF WFields
<1> HIDE DEF u
<1>7. /\ DOMAIN u.t = TFields /\ SameEntries(w.t, u.t)
      /\ u.t.peers = w.t.peers /\ u.t.made = w.t.made /\ u.t.posts = Tail(w.t.posts)
  BY ONLY <1>2, <1>6 DEF TablesOK, TFields, SameEntries
<1>8. WInv(u, n, {}) /\ Frame(w, u, n, {})
  <2>1. DOMAIN u = WFields /\ u.conns = w.conns /\ u.failed = w.failed
    BY <1>6
  <2>2. /\ DOMAIN u.t = TFields /\ SameEntries(w.t, u.t) /\ u.t.peers = w.t.peers
        /\ u.t.made = w.t.made /\ u.t.posts \in Seq(Posts(n))
    BY <1>4, <1>7
  <2> QED BY <1>1, <2>1, <2>2, OtherFields
<1>9. CASE p.op = "known"
  <2> DEFINE v == KnownNewPeer(u, p.id, p.obj)
  <2>1. WInv(v, n, {}) /\ Frame(u, v, n, {})
    BY <1>5, <1>8, KnownNewPeerInv
  <2>2. Become(n, v)
    BY <1>3, <1>9
  <2> HIDE DEF v
  <2>3. Frame(w, v, n, {})
    BY <1>8, <2>1, FrameTrans
  <2> QED BY <2>1, <2>2, <2>3, BecomeInv DEF w
<1>10. CASE p.op # "known"
  <2> DEFINE v == EraseOfflinePeer(u, n, p.id)
  <2>1. WInv(v, n, {}) /\ Frame(u, v, n, {})
    BY <1>5, <1>8, EraseOfflinePeerInv
  <2>2. Become(n, v)
    BY <1>3, <1>10
  <2> HIDE DEF v
  <2>3. Frame(w, v, n, {})
    BY <1>8, <2>1, FrameTrans
  <2> QED BY <2>1, <2>2, <2>3, BecomeInv DEF w
<1> QED BY <1>9, <1>10

(* One end of a connection is closed, and nothing else happens.            *)
LEMMA JustClose ==
  ASSUME Inv, NEW n \in Nodes, NEW c \in Conns, HasEnd(conns[c], n),
         Become(n, CloseConn(World(n), n, c))
  PROVE  Inv'
<1> DEFINE w == World(n)
           v == CloseConn(w, n, c)
<1>1. WInv(w, n, {}) /\ w.conns = conns
  BY WorldInv, WorldFields
<1> HIDE DEF w
<1>2. WInv(v, n, {}) /\ Frame(w, v, n, {})
  BY <1>1, CloseConnInv
<1>3. Become(n, v)
  BY DEF w
<1> HIDE DEF v
<1> QED BY <1>2, <1>3, BecomeInv DEF w

(* The type of a connection in a state of the invariant.                   *)
LEMMA ConnType ==
  ASSUME Inv, NEW n \in Nodes, NEW c \in Conns
  PROVE  ConnOK(conns[c]) /\ OwnAt(node[n], conns[c], c, n)
BY WorldInv, WorldFields DEF WInv

(* The passive flow is never accepted.                                     *)
LEMMA NotAcceptedInv ==
  ASSUME Inv, NEW n \in Nodes, NEW c \in Conns, NotAccepted(n, c)
  PROVE  Inv'
<1>1. HasEnd(conns[c], n)
  BY DEF NotAccepted, HasEnd
<1> QED BY <1>1, JustClose DEF NotAccepted

(* A connection leaves pending_passive_sockets_ or pending_active_sockets_. *)
LEMMA SocketExpiresInv ==
  ASSUME Inv, NEW n \in Nodes, NEW c \in Conns, SocketExpires(n, c)
  PROVE  Inv'
<1>1. HasEnd(conns[c], n)
  BY ConnType DEF SocketExpires, HasEnd, ConnOK
<1> QED BY <1>1, JustClose DEF SocketExpires

(* An end of a lost path gives up.                                         *)
LEMMA GiveUpInv ==
  ASSUME Inv, NEW n \in Nodes, NEW c \in Conns, GiveUp(n, c)
  PROVE  Inv'
<1> DEFINE w == World(n)
           v == OnDisconnected(w, n, c)
<1>1. WInv(w, n, {}) /\ w.conns = conns
  BY WorldInv, WorldFields
<1>2. n \in {w.conns[c].from, w.conns[c].to} /\ IsConnected(w, n, c) /\ Become(n, v)
  BY <1>1 DEF GiveUp
<1> HIDE DEF w
<1>3. WInv(v, n, {}) /\ Frame(w, v, n, {})
  BY <1>1, <1>2, OnDisconnectedInv
<1> HIDE DEF v
<1> QED BY <1>2, <1>3, BecomeInv DEF w

(* A path is lost.                                                         *)
LEMMA LosePathInv ==
  ASSUME Inv, NEW c \in Conns, LosePath(c)
  PROVE  Inv'
<1>1. /\ node' = node /\ failed' = failed /\ conns' = [conns EXCEPT ![c].lost = TRUE]
  BY DEF LosePath
<1>2. ASSUME NEW m \in Nodes
      PROVE  WInv(World(m)', m, {})
  <2>1. WInv(World(m), m, {}) /\ DOMAIN conns = Conns /\ \A d \in Conns : ConnOK(conns[d])
    BY WorldInv, WorldFields DEF WInv
  <2>2. DOMAIN conns' = Conns /\ \A d \in Conns : SameEnds(conns[d], conns'[d])
    BY <1>1, <2>1 DEF SameEnds, ConnOK, CFields
  <2>3. /\ DOMAIN World(m)' = WFields /\ World(m)'.t = World(m).t
        /\ World(m)'.failed = World(m).failed /\ World(m)'.conns = conns'
        /\ World(m).conns = conns
    BY Zenon, <1>1, WorldFields
  <2> DEFINE a == World(m)
             b == World(m)'
  <2>4. /\ DOMAIN b = WFields /\ b.t = a.t /\ b.failed = a.failed /\ DOMAIN b.conns = Conns
        /\ \A d \in Conns : SameEnds(a.conns[d], b.conns[d])
        /\ WInv(a, m, {})
    BY <2>1, <2>2, <2>3
  <2> HIDE DEF a, b
  <2>5. WInv(b, m, {})
    BY <2>4, SameEndsStep
  <2> QED BY <2>5 DEF b
<1> QED BY <1>1, <1>2 DEF Inv

(* on_accepted                                                             *)
LEMMA AcceptedInv ==
  ASSUME Inv, NEW n \in Nodes, NEW c \in Conns, Accepted(n, c)
  PROVE  Inv'
<1> DEFINE w == World(n)
           a == conns[c]
           b == [a EXCEPT !.passive = "accepted"]
           v == SetConn(w, c, b)
<1>1. WInv(w, n, {}) /\ w.conns = conns /\ w.t = node[n]
  BY WorldInv, WorldFields
<1>2. ConnOK(a) /\ OwnAt(w.t, a, c, n)
  BY <1>1, ConnType
<1>3. a.to = n /\ a.active \notin {"free", "connecting"} /\ a.passive = "none"
  BY DEF Accepted
<1>4. Become(n, v)
  BY <1>1 DEF Accepted, SetConn
<1> HIDE DEF w, a
<1>5. /\ DOMAIN b = CFields /\ b.from = a.from /\ b.to = a.to /\ b.active = a.active
      /\ b.passive = "accepted" /\ b.fromObj = a.fromObj /\ b.toObj = a.toObj
  BY <1>2 DEF ConnOK, CFields
<1> HIDE DEF b
<1>6. ConnOK(b)
  BY <1>2, <1>3, <1>5 DEF ConnOK
<1>7. OwnAt(w.t, b, c, n)
  <2>1. ~ Bound(b, n) /\ ~ Settled(a, n)
    BY <1>2, <1>3, <1>5 DEF ConnOK, Bound, Settled
  <2> QED BY <1>2, <2>1 DEF OwnAt
<1>8. Foreign(a, b, n)
  BY <1>3, <1>5 DEF Foreign, Bound, Settled, Far
<1>9. Foreign(w.conns[c], b, n)
  BY <1>1, <1>8 DEF a
<1>10. WInv(v, n, {}) /\ Frame(w, v, n, {})
  BY Zenon, <1>1, <1>6, <1>7, <1>9, SetConnInv
<1> HIDE DEF v
<1> QED BY <1>4, <1>10, BecomeInv DEF w

=============================================================================
