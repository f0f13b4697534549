----------------------- MODULE OverlayNeighborProofs -----------------------
(***************************************************************************)
(* Choking a neighbor and to_neighbor keep the invariant of                *)
(* OverlayInvProofs at the node that calls them.                           *)
(***************************************************************************)
EXTENDS OverlayInvProofs

\* A table that no invariant is about, and which connection is to be closed.
SetBlack(w, B) == [w EXCEPT !.t.black = B]
SetClosing(w, k) == [w EXCEPT !.t.closing = k]

(* low_capacity_peer_keeper_ is in no invariant.                           *)
LEMMA BlackStep ==
  ASSUME NEW n \in Nodes, NEW w, NEW v, NEW X, WInv(w, n, X), NEW B,
         v = SetBlack(w, B)
  PROVE  /\ WInv(v, n, X) /\ Frame(w, v, n, X)
         /\ v.t.neighbors = w.t.neighbors /\ v.t.closing = w.t.closing
         /\ v.t.members = w.t.members /\ v.t.pending = w.t.pending
         /\ v.t.unreachable = w.t.unreachable
<1>1. /\ DOMAIN w = WFields /\ TablesOK(w.t, n) /\ Disjoint(w.t, n)
      /\ w.failed \subseteq {1111}
  BY DEF WInv
<1>2. /\ DOMAIN v = WFields /\ v.conns = w.conns /\ v.failed \subseteq {1111}
      /\ v.t = [w.t EXCEPT !.black = B]
  BY <1>1 DEF WFields, SetBlack
<1>3. /\ DOMAIN v.t = TFields /\ v.t.neighbors = w.t.neighbors
      /\ v.t.closing = w.t.closing /\ v.t.members = w.t.members
      /\ v.t.pending = w.t.pending /\ v.t.unreachable = w.t.unreachable
      /\ v.t.peers = w.t.peers /\ v.t.made = w.t.made /\ v.t.posts = w.t.posts
  BY <1>1, <1>2 DEF TablesOK, TFields
<1>4. TablesOK(v.t, n) /\ Disjoint(v.t, n)
  BY <1>1, <1>3 DEF TablesOK, Disjoint
<1>5. v.t.neighbors = w.t.neighbors /\ v.t.closing = w.t.closing
  BY <1>3
<1>6. DOMAIN v = WFields /\ v.conns = w.conns /\ v.failed \subseteq {1111}
  BY <1>2
<1>7. WInv(v, n, X) /\ Frame(w, v, n, X)
  BY <1>4, <1>5, <1>6, TableStep
<1> QED BY <1>3, <1>7

\* try_shrink_neighbors: what was not a neighbor keeps its entries.
Shrinks(s, t) ==
  \A p \in Nodes :
    /\ t.neighbors[p] # 0 => t.neighbors[p] = s.neighbors[p]
    /\ s.neighbors[p] = 0 => /\ t.neighbors[p] = 0 /\ t.members[p] = s.members[p]
                             /\ t.pending[p] = s.pending[p]
                             /\ t.unreachable[p] = s.unreachable[p]

(* A connection that is connected, was bound and is to be closed, is that  *)
(* of a neighbor.                                                          *)
LEMMA ClosingIsBound ==
  ASSUME NEW n \in Nodes, NEW w, NEW X, WInv(w, n, X), NEW k \in Conns,
         w.t.closing = k, IsConnected(w, n, k)
  PROVE  /\ k \notin X /\ HasEnd(w.conns[k], n) /\ Far(w.conns[k], n) \in Others(n)
         /\ w.t.neighbors[Far(w.conns[k], n)] = k
<1>1. k \notin X
  BY DEF WInv, NotYet
<1>2. OwnAt(w.t, w.conns[k], k, n) /\ ConnOK(w.conns[k])
  BY <1>1 DEF WInv
<1>3. w.conns[k].active # "free" /\ Settled(w.conns[k], n)
  BY <1>2 DEF OwnAt
<1>4. Bound(w.conns[k], n)
  BY <1>2, <1>3 DEF ConnOK, Settled, Bound, IsConnected
<1>5. HasEnd(w.conns[k], n) /\ Far(w.conns[k], n) \in Others(n)
  BY <1>2, <1>3 DEF ConnOK, Settled, HasEnd, Far, Others
<1> QED BY <1>1, <1>2, <1>4, <1>5 DEF OwnAt

(* Which connection is to be closed may change to none, or to one that is  *)
(* a neighbor's.                                                           *)
LEMMA ClosingStep ==
  ASSUME NEW n \in Nodes, NEW w, NEW v, NEW X, WInv(w, n, X), NEW k,
         v = SetClosing(w, k),
         k = 0 \/ \E q \in Nodes : w.t.neighbors[q] = k
  PROVE  /\ WInv(v, n, X) /\ Frame(w, v, n, X) /\ v.t.neighbors = w.t.neighbors
         /\ v.t.members = w.t.members /\ v.t.pending = w.t.pending
         /\ v.t.unreachable = w.t.unreachable
<1>1. /\ DOMAIN w = WFields /\ TablesOK(w.t, n) /\ Disjoint(w.t, n)
      /\ w.failed \subseteq {1111}
  BY DEF WInv
<1>2. /\ DOMAIN v = WFields /\ v.conns = w.conns /\ v.failed = w.failed
      /\ v.t = [w.t EXCEPT !.closing = k]
  BY <1>1 DEF WFields, SetClosing
<1>3. /\ DOMAIN v.t = TFields /\ v.t.neighbors = w.t.neighbors
      /\ v.t.closing = k /\ v.t.members = w.t.members
      /\ v.t.pending = w.t.pending /\ v.t.unreachable = w.t.unreachable
      /\ v.t.peers = w.t.peers /\ v.t.made = w.t.made /\ v.t.posts = w.t.posts
  BY <1>1, <1>2 DEF TablesOK, TFields
<1>4. k \in {0} \cup Conns
  BY <1>1 DEF TablesOK
<1>5. TablesOK(v.t, n) /\ Disjoint(v.t, n)
  BY <1>1, <1>3, <1>4 DEF TablesOK, Disjoint
<1>6. NeighborIds(v.t) = NeighborIds(w.t)
  BY <1>3 DEF NeighborIds
<1>7. ASSUME NEW d \in Conns \ X
      PROVE  OwnAt(v.t, v.conns[d], d, n)
  <2>1. OwnAt(w.t, w.conns[d], d, n) /\ d # 0
    BY Constants DEF WInv
  <2> QED BY <1>2, <1>3, <2>1 DEF OwnAt
<1>8. ASSUME NEW d \in X
      PROVE  NotYet(v.t, v.conns[d], d, n)
  <2>1. NotYet(w.t, w.conns[d], d, n) /\ d # 0
    BY Constants DEF WInv
  <2> QED BY <1>2, <1>3, <2>1 DEF NotYet
<1>9. WInv(v, n, X)
  BY <1>2, <1>5, <1>6, <1>7, <1>8 DEF WInv
<1> QED BY <1>2, <1>3, <1>9, FrameSame

(* try_shrink_neighbors names a connection to close, or closes the one it  *)
(* named and makes that neighbor a member.                                 *)
LEMMA TryShrinkInv ==
  ASSUME NEW n \in Nodes, NEW w, NEW X, WInv(w, n, X), NEW k,
         NEW v, v = TryShrink(w, n, k)
  PROVE  WInv(v, n, X) /\ Frame(w, v, n, X) /\ Shrinks(w.t, v.t)
<1>1. CASE v = w
  BY <1>1, FrameSame DEF Shrinks
<1>2. CASE v = SetClosing(w, k) /\ \E q \in Nodes : w.t.neighbors[q] = k
  BY <1>2, ClosingStep DEF Shrinks
<1>3. CASE v = SetClosing(w, 0)
  BY <1>3, ClosingStep DEF Shrinks
<1>4. CASE k # 0 /\ w.t.closing # 0 /\ k = w.t.closing /\ IsConnected(w, n, k)
  <2> DEFINE q == Peer(w, n, k)
             obj == ObjOf(w, n, k)
             a == CloseConn(w, n, k)
             b == NeighborToMember(a, n, q, obj)
             e == EraseOfflinePeer(b, n, q)
             f == SetBlack(e, e.t.black \cup {q})
             u == IF Cardinality(Members(b)) > ManyMembers THEN f ELSE b
  <2>1. k \in Conns
    BY <1>4 DEF WInv, TablesOK
  <2>a. q = Far(w.conns[k], n)
    BY DEF Far, Peer
  <2>b. /\ k \notin X /\ HasEnd(w.conns[k], n) /\ Far(w.conns[k], n) \in Others(n)
        /\ w.t.neighbors[Far(w.conns[k], n)] = k
    BY <1>4, <2>1, ClosingIsBound
  <2>2. /\ k \notin X /\ HasEnd(w.conns[k], n) /\ q \in Others(n) /\ q \in Nodes
        /\ w.t.neighbors[q] = k
    BY <2>a, <2>b DEF Others
  <2>3. v = SetClosing(u, 0)
    BY Zenon, <1>4 DEF TryShrink, SetClosing, SetBlack
  <2> HIDE DEF q, obj
  <2>4. WInv(a, n, X) /\ Frame(w, a, n, X) /\ a.t = w.t
    BY <2>1, <2>2, CloseConnInv
  <2> HIDE DEF a
  <2>5. WInv(b, n, X) /\ Frame(a, b, n, X) /\ Touches(a.t, b.t, q) /\ b.t.neighbors[q] = 0
    BY <2>2, <2>4, NeighborToMemberInv
  <2> HIDE DEF b
  <2>6. WInv(e, n, X) /\ Frame(b, e, n, X) /\ Touches(b.t, e.t, q) /\ e.t.neighbors[q] = 0
    BY <2>2, <2>5, EraseOfflinePeerInv
  <2> HIDE DEF e
  <2>7. WInv(f, n, X) /\ Frame(e, f, n, X) /\ Touches(b.t, f.t, q) /\ f.t.neighbors[q] = 0
    BY <2>6, BlackStep DEF Touches
  <2> HIDE DEF f
  <2>8. WInv(u, n, X) /\ Frame(w, u, n, X) /\ Touches(w.t, u.t, q) /\ u.t.neighbors[q] = 0
    <3>1. Frame(w, b, n, X)
      BY <2>4, <2>5, FrameTrans
    <3>2. Frame(w, f, n, X)
      BY <3>1, <2>6, <2>7, FrameTrans
    <3>3. Touches(w.t, f.t, q)
      BY <2>4, <2>5, <2>7 DEF Touches
    <3> QED BY <2>4, <2>5, <2>7, <3>1, <3>2, <3>3
  <2> HIDE DEF u
  <2>9. /\ WInv(v, n, X) /\ Frame(u, v, n, X) /\ v.t.neighbors = u.t.neighbors
        /\ v.t.members = u.t.members /\ v.t.pending = u.t.pending
        /\ v.t.unreachable = u.t.unreachable
    BY <2>3, <2>8, ClosingStep
  <2>10. Shrinks(w.t, v.t)
    <3>1. k # 0
      BY <1>4
    <3> QED BY <2>2, <2>8, <2>9, <3>1 DEF Touches, Shrinks
  <2> QED BY <2>8, <2>9, <2>10, FrameTrans
<1> QED BY Zenon, <1>1, <1>2, <1>3, <1>4 DEF TryShrink, Neighbors, SetClosing

-----------------------------------------------------------------------------
(* to_neighbor                                                             *)

SetNeighbor(w, q, c) == [w EXCEPT !.t.neighbors[q] = c]

\* q is in no table but, perhaps, that of the neighbors.
Apart(t, q) == t.members[q] = 0 /\ t.unreachable[q] = 0 /\ t.pending[q] = 0

(* The conflicts decided so far are in no invariant.                       *)
LEMMA YieldedStep ==
  ASSUME NEW n \in Nodes, NEW w, NEW v, NEW X, WInv(w, n, X), NEW a, NEW b,
         v = Yield(w, n, a, b)
  PROVE  WInv(v, n, X) /\ Frame(w, v, n, X) /\ v.t = w.t /\ v.conns = w.conns
<1>1. DOMAIN w = WFields /\ TablesOK(w.t, n) /\ Disjoint(w.t, n) /\ w.failed \subseteq {1111}
  BY DEF WInv
<1>2. DOMAIN v = WFields /\ v.conns = w.conns /\ v.failed = w.failed /\ v.t = w.t
  BY <1>1 DEF WFields, Yield
<1> QED BY <1>1, <1>2, TableStep

(* A peer that becomes a neighbor leaves the other tables first.           *)
LEMMA EnterInv ==
  ASSUME NEW n \in Nodes, NEW w, NEW X, WInv(w, n, X), NEW q \in Others(n), NEW obj,
         NEW v, v = Enter(w, q, obj)
  PROVE  /\ WInv(v, n, X) /\ Frame(w, v, n, X) /\ v.conns = w.conns
         /\ v.t.neighbors = w.t.neighbors /\ Apart(v.t, q) /\ Touches(w.t, v.t, q)
<1>1. DOMAIN w = WFields
  BY DEF WInv
<1>2. TablesOK(w.t, n) /\ w.failed \subseteq {1111}
  BY DEF WInv
<1>3. DOMAIN v = WFields /\ v.conns = w.conns /\ v.failed \subseteq {1111}
  BY SMTT(30), <1>1, <1>2 DEF WFields, Enter
<1>4. v.t = [w.t EXCEPT !.marks[q][obj] = 0, !.unreachable[q] = 0, !.members[q] = 0,
                        !.pending[q] = 0]
  BY Zenon, <1>1 DEF WFields, Enter
<1>5. /\ DOMAIN v.t = TFields /\ v.t.neighbors = w.t.neighbors
      /\ v.t.closing = w.t.closing
      /\ v.t.members = [w.t.members EXCEPT ![q] = 0]
      /\ v.t.pending = [w.t.pending EXCEPT ![q] = 0]
      /\ v.t.unreachable = [w.t.unreachable EXCEPT ![q] = 0]
      /\ v.t.peers = w.t.peers /\ v.t.made = w.t.made /\ v.t.posts = w.t.posts
  BY <1>2, <1>4 DEF TablesOK, TFields
<1>6. TablesOK(v.t, n)
  BY <1>2, <1>5 DEF TablesOK
<1>7. Apart(v.t, q) /\ Touches(w.t, v.t, q) /\ v.t.neighbors = w.t.neighbors
  BY <1>2, <1>5 DEF TablesOK, Touches, Apart, Others
<1>8. WInv(v, n, X) /\ Frame(w, v, n, X)
  BY <1>3, <1>6, <1>7, EntryStep DEF Apart
<1> QED BY <1>3, <1>7, <1>8

(* A peer becomes a member.                                                *)
LEMMA InsertMemberInv ==
  ASSUME NEW n \in Nodes, NEW w, NEW X, WInv(w, n, X), NEW q \in Others(n), NEW obj,
         w.t.neighbors[q] = 0, w.t.unreachable[q] = 0,
         NEW v, v = InsertMember(w, q, obj)
  PROVE  /\ WInv(v, n, X) /\ Frame(w, v, n, X) /\ v.conns = w.conns
         /\ Touches(w.t, v.t, q)
<1>1. DOMAIN w = WFields
  BY DEF WInv
<1>2. TablesOK(w.t, n) /\ w.failed \subseteq {1111}
  BY DEF WInv
<1>3. DOMAIN v = WFields /\ v.conns = w.conns /\ v.failed \subseteq {1111}
  BY <1>1, <1>2 DEF WFields, InsertMember
<1>4. v.t = [w.t EXCEPT !.members[q] = IF @ = 0 THEN obj ELSE @]
  BY <1>1 DEF WFields, InsertMember
<1>5. /\ DOMAIN v.t = TFields /\ v.t.neighbors = w.t.neighbors
      /\ v.t.closing = w.t.closing
      /\ v.t.members = [w.t.members EXCEPT ![q] = IF @ = 0 THEN obj ELSE @]
      /\ v.t.pending = w.t.pending /\ v.t.unreachable = w.t.unreachable
      /\ v.t.peers = w.t.peers /\ v.t.made = w.t.made /\ v.t.posts = w.t.posts
  BY <1>2, <1>4 DEF TablesOK, TFields
<1>6. TablesOK(v.t, n)
  BY <1>2, <1>5 DEF TablesOK
<1>7. /\ Touches(w.t, v.t, q) /\ v.t.neighbors[q] = w.t.neighbors[q]
      /\ v.t.neighbors[q] = 0 /\ v.t.unreachable[q] = 0
  BY <1>2, <1>5 DEF TablesOK, Touches
<1>8. WInv(v, n, X) /\ Frame(w, v, n, X)
  BY <1>3, <1>6, <1>7, EntryStep
<1> QED BY <1>3, <1>7, <1>8

(* The new connection c becomes that of the neighbor q, for which no other *)
(* connection is bound any more.                                           *)
LEMMA SetNeighborInv ==
  ASSUME NEW n \in Nodes, NEW w, NEW c \in Conns, WInv(w, n, {c}),
         Bound(w.conns[c], n), NEW q \in Others(n), Far(w.conns[c], n) = q,
         Apart(w.t, q),
         \A d \in Conns \ {c} : Bound(w.conns[d], n) => Far(w.conns[d], n) # q,
         Cardinality(NeighborIds(w.t) \cup {q}) <= MaxNeighbors,
         NEW v, v = SetNeighbor(w, q, c)
  PROVE  WInv(v, n, {}) /\ Frame(w, v, n, {})
<1>1. DOMAIN w = WFields
  BY DEF WInv
<1>2. TablesOK(w.t, n) /\ w.failed \subseteq {1111} /\ Disjoint(w.t, n)
  BY DEF WInv
<1>3. DOMAIN v = WFields /\ v.conns = w.conns /\ v.failed \subseteq {1111}
  BY <1>1, <1>2 DEF WFields, SetNeighbor
<1>4. v.t = [w.t EXCEPT !.neighbors[q] = c]
  BY <1>1 DEF WFields, SetNeighbor
<1>5. /\ DOMAIN v.t = TFields /\ v.t.neighbors = [w.t.neighbors EXCEPT ![q] = c]
      /\ v.t.closing = w.t.closing /\ v.t.members = w.t.members
      /\ v.t.pending = w.t.pending /\ v.t.unreachable = w.t.unreachable
      /\ v.t.peers = w.t.peers /\ v.t.made = w.t.made /\ v.t.posts = w.t.posts
  BY <1>2, <1>4 DEF TablesOK, TFields
<1>a. v.t.neighbors \in [Nodes -> {0} \cup Conns]
  <2>1. w.t.neighbors \in [Nodes -> {0} \cup Conns]
    BY <1>2 DEF TablesOK
  <2> QED BY Zenon, <1>5, <2>1
<1>6. TablesOK(v.t, n)
  <2>1. /\ v.t.closing = w.t.closing /\ v.t.members = w.t.members
        /\ v.t.pending = w.t.pending /\ v.t.unreachable = w.t.unreachable
        /\ v.t.peers = w.t.peers /\ v.t.made = w.t.made /\ v.t.posts = w.t.posts
        /\ DOMAIN v.t = TFields
    BY <1>5
  <2> QED BY <1>2, <1>a, <2>1 DEF TablesOK
<1>7. q \in Nodes /\ q # n /\ c # 0
  BY Constants DEF Others
<1>8. \A p \in Nodes : v.t.neighbors[p] = IF p = q THEN c ELSE w.t.neighbors[p]
  BY <1>2, <1>5 DEF TablesOK
<1>9. Disjoint(v.t, n)
  BY <1>2, <1>5, <1>7, <1>8 DEF Disjoint, Apart
<1>10. Cardinality(NeighborIds(v.t)) <= MaxNeighbors
  <2>1. NeighborIds(v.t) = NeighborIds(w.t) \cup {q}
    BY <1>7, <1>8 DEF NeighborIds
  <2> QED BY <2>1
<1>11. ASSUME NEW d \in Conns
       PROVE  OwnAt(v.t, v.conns[d], d, n)
  <2>1. ConnOK(w.conns[d])
    BY DEF WInv
  <2>2. CASE d = c
    <3>1. NotYet(w.t, w.conns[c], c, n)
      BY DEF WInv
    <3>2. v.t.neighbors[q] = c /\ \A p \in Nodes : v.t.neighbors[p] = c => p = q
      BY <1>7, <1>8, <3>1 DEF NotYet
    <3>3. w.conns[c].active # "free" /\ Settled(w.conns[c], n)
      BY <2>1, <2>2 DEF ConnOK, Bound, Settled
    <3>4. v.t.closing # c
      BY <1>5, <3>1 DEF NotYet
    <3> QED BY <1>3, <2>2, <3>2, <3>3, <3>4 DEF OwnAt
  <2>3. CASE d # c
    <3>1. OwnAt(w.t, w.conns[d], d, n)
      BY <2>3 DEF WInv
    <3>2. Bound(w.conns[d], n) => Far(w.conns[d], n) # q /\ Far(w.conns[d], n) \in Nodes
      BY <2>1, <2>3 DEF ConnOK, Bound, Far
    <3> QED BY <1>3, <1>5, <1>8, <2>3, <3>1, <3>2 DEF OwnAt
  <2> QED BY <2>2, <2>3
<1>12. DOMAIN w.conns = Conns /\ \A d \in Conns : ConnOK(w.conns[d])
  BY DEF WInv
<1>13. WInv(v, n, {})
  BY <1>3, <1>6, <1>9, <1>10, <1>11, <1>12 DEF WInv
<1> QED BY <1>3, <1>13, FrameSame

(* The connection of the neighbor q is closed and c takes its place.       *)
LEMMA ReplaceInv ==
  ASSUME NEW n \in Nodes, NEW w, NEW c \in Conns, WInv(w, n, {c}),
         Bound(w.conns[c], n), NEW q \in Others(n), Far(w.conns[c], n) = q,
         Apart(w.t, q), NEW old, old = w.t.neighbors[q], old # 0,
         NEW v, v = SetNeighbor(CloseConn(w, n, old), q, c)
  PROVE  WInv(v, n, {}) /\ Frame(w, v, n, {})
<1> DEFINE u == CloseConn(w, n, old)
<1>0. q \in Nodes /\ v = SetNeighbor(u, q, c)
  BY DEF Others
<1>1. old \in Conns /\ old # c
  BY <1>0 DEF WInv, TablesOK, NotYet
<1>2. HasEnd(w.conns[old], n)
  BY <1>0, <1>1, SettledEnd DEF WInv, OwnAt
<1>3. WInv(u, n, {c}) /\ u.t = w.t /\ Frame(w, u, n, {c})
  BY SMTT(30), <1>1, <1>2, CloseConnInv
<1>4. ~ Bound(u.conns[old], n)
  BY <1>1, <1>2, CloseConnFacts DEF WInv, Closes
<1> HIDE DEF u
<1>5. u.conns[c] = w.conns[c]
  BY <1>3 DEF Frame
<1>6. \A d \in Conns \ {c} : Bound(u.conns[d], n) => Far(u.conns[d], n) # q
  <2>1. \A d \in Conns \ {c} : OwnAt(u.t, u.conns[d], d, n)
    BY <1>3 DEF WInv
  <2> QED BY <1>3, <1>4, <2>1 DEF OwnAt
<1>7. Cardinality(NeighborIds(u.t) \cup {q}) <= MaxNeighbors
  <2>1. NeighborIds(u.t) \cup {q} = NeighborIds(w.t)
    BY <1>0, <1>3 DEF NeighborIds
  <2> QED BY <2>1 DEF WInv
<1>8. Bound(u.conns[c], n) /\ Far(u.conns[c], n) = q /\ Apart(u.t, q)
  BY <1>3, <1>5
<1>9. WInv(v, n, {}) /\ Frame(u, v, n, {})
  BY <1>0, <1>3, <1>6, <1>7, <1>8, SetNeighborInv
<1>10. Frame(w, u, n, {})
  BY SMTT(30), <1>3 DEF Frame
<1> QED BY <1>9, <1>10, FrameTrans

(* to_neighbor, given a connection that is bound to its peer and not yet   *)
(* listed: in every branch it is listed in the end, or closed.             *)
LEMMA ToNeighborInv ==
  ASSUME NEW n \in Nodes, NEW w, NEW c \in Conns, WInv(w, n, {c}),
         Bound(w.conns[c], n), NEW k, NEW dead,
         NEW r, r = ToNeighbor(w, n, c, k, dead)
  PROVE  WInv(r.w, n, {}) /\ Frame(w, r.w, n, {})
<1> DEFINE q == Peer(w, n, c)
           obj == ObjOf(w, n, c)
           old == w.t.neighbors[q]
           v == Enter(w, q, obj)
           u == MakeRoom(v, n, k)
           x == CloseConn(v, n, c)
           r1 == SetNeighbor(CloseConn(v, n, old), q, c)
           r2 == Yield(x, n, c, old)
           r3 == SetNeighbor(CloseConn(Yield(v, n, old, c), n, old), q, c)
           r4 == InsertMember(CloseConn(u, n, c), q, obj)
           r5 == SetNeighbor(u, q, c)
<1>1. ConnOK(w.conns[c]) /\ NotYet(w.t, w.conns[c], c, n)
  BY DEF WInv
<1>2. q = Far(w.conns[c], n) /\ q \in Others(n) /\ q \in Nodes
  BY <1>1 DEF ConnOK, Bound, Far, Peer, Others
<1>3. old # c
  BY <1>1, <1>2 DEF NotYet
<1>a. r = IF old = c THEN [ok |-> FALSE, w |-> [v EXCEPT !.failed = @ \cup {1003}]]
          ELSE IF old # 0
          THEN IF SeemsDead(w, n, old, dead) THEN [ok |-> TRUE, w |-> r1]
               ELSE IF SessionId(w, c) < SessionId(w, old) THEN [ok |-> FALSE, w |-> r2]
               ELSE [ok |-> TRUE, w |-> r3]
          ELSE IF Full(u) THEN [ok |-> FALSE, w |-> r4] ELSE [ok |-> TRUE, w |-> r5]
  BY Zenon DEF ToNeighbor, Replace, SetNeighbor
<1>4. \/ old # 0 /\ r.w = r1
      \/ old # 0 /\ r.w = r2
      \/ old # 0 /\ r.w = r3
      \/ old = 0 /\ r.w = r4
      \/ old = 0 /\ ~ Full(u) /\ r.w = r5
  <2> HIDE DEF q, obj, old, v, u, x, r1, r2, r3, r4, r5
  <2> QED BY <1>3, <1>a
<1> HIDE DEF q, obj
<1>5. /\ WInv(v, n, {c}) /\ Frame(w, v, n, {c}) /\ v.conns = w.conns
      /\ v.t.neighbors = w.t.neighbors /\ Apart(v.t, q)
  BY <1>2, EnterInv
<1> HIDE DEF v
<1>6. Bound(v.conns[c], n) /\ Far(v.conns[c], n) = q /\ v.t.neighbors[q] = old
  BY <1>2, <1>5
<1>7. HasEnd(v.conns[c], n)
  BY <1>1, <1>5 DEF NotYet
<1>8. Frame(w, v, n, {})
  BY <1>5 DEF Frame
<1>9. CASE old # 0 /\ r.w = r1
  <2>1. WInv(r.w, n, {}) /\ Frame(v, r.w, n, {})
    BY <1>2, <1>5, <1>6, <1>9, ReplaceInv
  <2> QED BY <1>8, <2>1, FrameTrans
<1>10. CASE r.w = r2
  <2>2. WInv(x, n, {c} \ {c}) /\ Frame(v, x, n, {c} \ {c})
    BY <1>5, <1>7, CloseConnInv
  <2>3. WInv(x, n, {}) /\ Frame(v, x, n, {})
    <3>1. {c} \ {c} = {}
      OBVIOUS
    <3> QED BY <2>2, <3>1
  <2>4. r.w = Yield(x, n, c, old)
    BY <1>10
  <2> HIDE DEF x
  <2>5. WInv(r.w, n, {}) /\ Frame(x, r.w, n, {})
    BY <2>3, <2>4, YieldedStep
  <2> QED BY <1>8, <2>3, <2>5, FrameTrans
<1>11. CASE old # 0 /\ r.w = r3
  <2> DEFINE y == Yield(v, n, old, c)
  <2>2. WInv(y, n, {c}) /\ Frame(v, y, n, {c}) /\ y.t = v.t /\ y.conns = v.conns
    BY <1>5, YieldedStep
  <2>3. r.w = SetNeighbor(CloseConn(y, n, old), q, c)
    BY <1>11
  <2> HIDE DEF y
  <2>4. /\ Bound(y.conns[c], n) /\ Far(y.conns[c], n) = q /\ y.t.neighbors[q] = old
        /\ Apart(y.t, q)
    BY SMTT(30), <1>5, <1>6, <2>2
  <2>5. WInv(r.w, n, {}) /\ Frame(y, r.w, n, {})
    BY <1>2, <1>11, <2>2, <2>3, <2>4, ReplaceInv
  <2>6. Frame(v, y, n, {})
    BY <2>2 DEF Frame
  <2> QED BY <1>8, <2>5, <2>6, FrameTrans
<1>12. ASSUME old = 0
       PROVE  /\ WInv(u, n, {c}) /\ Frame(w, u, n, {}) /\ u.conns[c] = v.conns[c]
              /\ u.t.neighbors[q] = 0 /\ Apart(u.t, q)
  <2>1. WInv(u, n, {c}) /\ Frame(v, u, n, {c}) /\ Shrinks(v.t, u.t)
    <3>1. CASE Full(v)
      BY <1>5, <3>1, TryShrinkInv DEF MakeRoom
    <3>2. CASE ~ Full(v)
      BY SMTT(30), <1>5, <3>2, FrameSame DEF Shrinks, MakeRoom
    <3> QED BY <3>1, <3>2
  <2> HIDE DEF u
  <2>2. u.t.neighbors[q] = 0 /\ Apart(u.t, q)
    BY <1>2, <1>5, <1>6, <1>12, <2>1 DEF Shrinks, Apart
  <2>3. Frame(v, u, n, {}) /\ u.conns[c] = v.conns[c]
    BY <2>1 DEF Frame
  <2> QED BY <1>8, <2>1, <2>2, <2>3, FrameTrans
<1>13. CASE old = 0 /\ r.w = r4
  <2> DEFINE z == CloseConn(u, n, c)
  <2>1. /\ WInv(u, n, {c}) /\ Frame(w, u, n, {}) /\ u.conns[c] = v.conns[c]
        /\ u.t.neighbors[q] = 0 /\ Apart(u.t, q)
    BY SMTT(30), <1>12, <1>13
  <2> HIDE DEF u
  <2>2. WInv(z, n, {c} \ {c}) /\ Frame(u, z, n, {c} \ {c}) /\ z.t = u.t
    BY <1>7, <2>1, CloseConnInv
  <2>3. WInv(z, n, {}) /\ Frame(u, z, n, {})
    <3>1. {c} \ {c} = {}
      OBVIOUS
    <3> QED BY SMTT(30), <2>2, <3>1
  <2>4. r.w = InsertMember(z, q, obj) /\ z.t.neighbors[q] = 0 /\ z.t.unreachable[q] = 0
    BY SMTT(30), <1>13, <2>1, <2>2 DEF Apart
  <2> HIDE DEF z
  <2>5. WInv(r.w, n, {}) /\ Frame(z, r.w, n, {})
    BY <1>2, <2>3, <2>4, InsertMemberInv
  <2> QED BY SMTT(30), <2>1, <2>3, <2>5, FrameTrans
<1>14. CASE old = 0 /\ ~ Full(u) /\ r.w = r5
  <2>1. /\ WInv(u, n, {c}) /\ Frame(w, u, n, {}) /\ u.conns[c] = v.conns[c]
        /\ u.t.neighbors[q] = 0 /\ Apart(u.t, q)
    BY SMTT(30), <1>12, <1>14
  <2> HIDE DEF u
  <2>2. Bound(u.conns[c], n) /\ Far(u.conns[c], n) = q
    BY SMTT(30), <1>6, <2>1
  <2>3. \A d \in Conns \ {c} : Bound(u.conns[d], n) => Far(u.conns[d], n) # q
    <3>1. \A d \in Conns \ {c} : OwnAt(u.t, u.conns[d], d, n)
      BY SMTT(30), <2>1 DEF WInv
    <3> QED BY SMTT(30), <2>1, <3>1, Constants DEF OwnAt
  <2>4. Cardinality(NeighborIds(u.t) \cup {q}) <= MaxNeighbors
    <3>1. NeighborIds(u.t) = Neighbors(u) /\ NeighborIds(u.t) \subseteq Nodes
      BY DEF NeighborIds, Neighbors
    <3>2. IsFiniteSet(NeighborIds(u.t))
      BY <3>1, Constants, FS_Subset
    <3>3. Cardinality(NeighborIds(u.t)) \in Nat
      BY <3>2, FS_CardinalityType
    <3>4. q \notin NeighborIds(u.t)
      BY <2>1 DEF NeighborIds
    <3>5. Cardinality(NeighborIds(u.t) \cup {q}) = Cardinality(NeighborIds(u.t)) + 1
      BY Zenon, <3>2, <3>4, FS_AddElement
    <3>6. ~ (Cardinality(NeighborIds(u.t)) >= MaxNeighbors)
      BY <1>14, <3>1 DEF Full
    <3> QED BY <3>3, <3>5, <3>6, Constants
  <2>5. WInv(r.w, n, {}) /\ Frame(u, r.w, n, {})
    BY <1>2, <1>14, <2>1, <2>2, <2>3, <2>4, SetNeighborInv
  <2> QED BY SMTT(30), <2>1, <2>5, FrameTrans
<1> QED BY <1>4, <1>9, <1>10, <1>11, <1>13, <1>14

=============================================================================
