------------------------- MODULE OverlayInvProofs --------------------------
(***************************************************************************)
(* The inductive invariant of Overlay, and the operations of one node that *)
(* close a connection or remove a neighbor: they keep it.                  *)
(*                                                                         *)
(* What is to be proved, that the tables of a node are disjoint, is not    *)
(* inductive.  try_shrink_neighbors and on_disconnected remove a neighbor  *)
(* by the id of the peer at the other end of a connection, so the          *)
(* invariant has to tie the table of neighbors to the connections: one     *)
(* that is bound to a peer is that neighbor's (OwnAt).  While to_neighbor  *)
(* runs, the new connection is bound and not yet listed; X is the set of   *)
(* such connections, empty between handlers.                               *)
(***************************************************************************)
EXTENDS Overlay, FiniteSetTheorems, SequenceTheorems, WellFoundedInduction, TLAPS

WFields == {"t", "conns", "yielded", "failed"}
TFields == {"members", "pending", "unreachable", "neighbors", "black", "closing", "peers",
            "made", "offline", "marks", "posts", "restarts", "notices"}
CFields == {"from", "to", "stage", "active", "passive", "fromObj", "toObj", "toActive",
            "toPassive", "lost"}

\* The connection record a is bound to a peer at its end n; was bound once and may
\* be closed; the node at its other end.
Bound(a, n) == \/ a.from = n /\ a.active = "open"
               \/ a.to = n /\ a.passive = "bound"
Settled(a, n) == \/ a.from = n /\ a.active \in {"open", "closed"}
                 \/ a.to = n /\ a.passive \in {"bound", "closed"}
Far(a, n) == IF a.from = n THEN a.to ELSE a.from

\* n has an end of a that it can close.
HasEnd(a, n) ==
  /\ a.active # "free" /\ n \in {a.from, a.to}
  /\ a.active = "connecting" => a.from = n

ConnOK(a) ==
  /\ DOMAIN a = CFields
  /\ a.active = "free" => a.passive = "none"
  /\ a.active # "free" => a.from \in Nodes /\ a.to \in Nodes /\ a.from # a.to /\ a.fromObj # 0
  /\ a.active = "connecting" => a.passive = "none"
  /\ a.passive \in {"none", "accepted"} => a.toObj = 0
  /\ a.passive = "bound" => a.toObj # 0

Posts(n) == [op: {"known", "erase"}, id: Others(n), obj: Nat]

TablesOK(t, n) ==
  /\ DOMAIN t = TFields
  /\ DOMAIN t.members = Nodes /\ DOMAIN t.pending = Nodes /\ DOMAIN t.unreachable = Nodes
  /\ DOMAIN t.peers = Nodes /\ t.made \in [Nodes -> Nat]
  /\ t.neighbors \in [Nodes -> {0} \cup Conns] /\ t.closing \in {0} \cup Conns
  /\ t.posts \in Seq(Posts(n))

\* A node is not in its own tables, and no other peer is in two of them.
Disjoint(t, n) ==
  /\ t.members[n] = 0 /\ t.unreachable[n] = 0 /\ t.neighbors[n] = 0
  /\ \A q \in Nodes :
       /\ t.neighbors[q] # 0 => t.members[q] = 0 /\ t.unreachable[q] = 0 /\ t.pending[q] = 0
       /\ t.members[q] # 0 => t.unreachable[q] = 0

OwnAt(t, a, c, n) ==
  /\ Bound(a, n) => t.neighbors[Far(a, n)] = c
  /\ \A q \in Nodes : t.neighbors[q] = c => a.active # "free" /\ Settled(a, n) /\ Far(a, n) = q
  /\ t.closing = c => a.active # "free" /\ Settled(a, n)

NotYet(t, a, c, n) ==
  /\ HasEnd(a, n)
  /\ \A q \in Nodes : t.neighbors[q] # c
  /\ t.closing # c

NeighborIds(t) == {q \in Nodes : t.neighbors[q] # 0}

WInv(w, n, X) ==
  /\ DOMAIN w = WFields /\ DOMAIN w.conns = Conns
  /\ \A c \in Conns : ConnOK(w.conns[c])
  /\ TablesOK(w.t, n) /\ Disjoint(w.t, n)
  /\ \A c \in Conns \ X : OwnAt(w.t, w.conns[c], c, n)
  /\ X \subseteq Conns /\ \A c \in X : NotYet(w.t, w.conns[c], c, n)
  /\ Cardinality(NeighborIds(w.t)) <= MaxNeighbors
  /\ w.failed \subseteq {1111}

\* What an operation of n does to a connection, as seen from the other nodes.
Foreign(a, b, n) ==
  \A m \in Nodes \ {n} :
    /\ Bound(b, m) <=> Bound(a, m)
    /\ a.active # "free" =>
         /\ b.active # "free" /\ Far(b, m) = Far(a, m)
         /\ Settled(a, m) => Settled(b, m)

Frame(w, v, n, X) ==
  /\ \A c \in Conns : Foreign(w.conns[c], v.conns[c], n)
  /\ \A c \in X : v.conns[c] = w.conns[c]

\* t differs from s in the entries of q only.
Touches(s, t, q) ==
  /\ \A p \in Nodes \ {q} :
       /\ t.neighbors[p] = s.neighbors[p] /\ t.members[p] = s.members[p]
       /\ t.pending[p] = s.pending[p] /\ t.unreachable[p] = s.unreachable[p]
  /\ t.closing = s.closing

Inv == DOMAIN node = Nodes /\ \A n \in Nodes : WInv(World(n), n, {})

-----------------------------------------------------------------------------
(* Nothing done, and one thing done after another.                         *)
LEMMA FrameSame ==
  ASSUME NEW w, NEW v, NEW n, NEW X, v.conns = w.conns
  PROVE  Frame(w, v, n, X)
BY DEF Frame, Foreign

(* Two operations of a node, seen from the others.                         *)
LEMMA FrameTrans ==
  ASSUME NEW w, NEW u, NEW v, NEW n, NEW X, Frame(w, u, n, X), Frame(u, v, n, X)
  PROVE  Frame(w, v, n, X)
BY DEF Frame, Foreign

(* What the proofs use of the assumptions.                                 *)
LEMMA Constants ==
  IsFiniteSet(Nodes) /\ MaxNeighbors \in Nat /\ MaxConns \in Nat /\ Conns \subseteq Nat \ {0}
<1>1. IsFiniteSet(Nodes) /\ MaxNeighbors \in Nat \ {0} /\ MaxConns \in Nat
  BY OverlayAssumption
<1>2. Conns \subseteq Nat \ {0}
  BY <1>1 DEF Conns
<1> QED BY <1>1, <1>2

(* The least of a nonempty set of connections is one of them.              *)
LEMMA LeastConn ==
  ASSUME NEW S, S \subseteq Conns, S # {}
  PROVE  Min(S) \in S
<1> DEFINE R == OpToRel(<, Nat)
<1>0. S \subseteq Nat
  BY Constants
<1>1. PICK x \in S : \A y \in S : ~(<<y, x>> \in R)
  BY Zenon, <1>0, NatLessThanWellFounded, WFMin
<1>2. \A y \in S : ~(y < x)
  BY Zenon, <1>0, <1>1 DEF OpToRel
<1>3. \A y \in S : x <= y
  BY <1>0, <1>2
<1> QED BY <1>3 DEF Min

(* A table with no new neighbor is as small as it was.                     *)
LEMMA FewerNeighbors ==
  ASSUME NEW t, NEW s, Cardinality(NeighborIds(t)) <= MaxNeighbors,
         NeighborIds(s) \subseteq NeighborIds(t)
  PROVE  Cardinality(NeighborIds(s)) <= MaxNeighbors
<1>1. IsFiniteSet(NeighborIds(t))
  <2>1. NeighborIds(t) \subseteq Nodes
    BY DEF NeighborIds
  <2> QED BY <2>1, Constants, FS_Subset
<1>2. /\ Cardinality(NeighborIds(s)) <= Cardinality(NeighborIds(t))
      /\ IsFiniteSet(NeighborIds(s))
  BY <1>1, FS_Subset
<1>3. Cardinality(NeighborIds(s)) \in Nat /\ Cardinality(NeighborIds(t)) \in Nat
  BY <1>1, <1>2, FS_CardinalityType
<1> QED BY <1>2, <1>3, Constants

(* An operation on the other tables of n leaves what ties neighbors and    *)
(* connections together.                                                   *)
LEMMA TableStep ==
  ASSUME NEW n \in Nodes, NEW w, NEW v, NEW X, WInv(w, n, X),
         DOMAIN v = WFields, v.conns = w.conns, v.failed \subseteq {1111},
         v.t.neighbors = w.t.neighbors, v.t.closing = w.t.closing,
         TablesOK(v.t, n), Disjoint(v.t, n)
  PROVE  WInv(v, n, X) /\ Frame(w, v, n, X)
<1>1. NeighborIds(v.t) = NeighborIds(w.t)
  BY DEF NeighborIds
<1> QED BY <1>1, FrameSame DEF WInv, OwnAt, NotYet

(* An operation on the entries of one peer q.                              *)
LEMMA EntryStep ==
  ASSUME NEW n \in Nodes, NEW w, NEW v, NEW X, WInv(w, n, X), NEW q \in Others(n),
         DOMAIN v = WFields, v.conns = w.conns, v.failed \subseteq {1111},
         TablesOK(v.t, n), Touches(w.t, v.t, q), v.t.neighbors[q] = w.t.neighbors[q],
         v.t.neighbors[q] # 0 =>
           v.t.members[q] = 0 /\ v.t.unreachable[q] = 0 /\ v.t.pending[q] = 0,
         v.t.members[q] # 0 => v.t.unreachable[q] = 0
  PROVE  WInv(v, n, X) /\ Frame(w, v, n, X)
<1>1. v.t.closing = w.t.closing
  BY DEF Touches
<1>2. v.t.neighbors = w.t.neighbors
  <2>1. /\ v.t.neighbors \in [Nodes -> {0} \cup Conns]
        /\ w.t.neighbors \in [Nodes -> {0} \cup Conns]
    BY DEF WInv, TablesOK
  <2>2. \A p \in Nodes : v.t.neighbors[p] = w.t.neighbors[p]
    BY DEF Touches
  <2> QED BY <2>1, <2>2
<1>3. Disjoint(w.t, n)
  BY DEF WInv
<1>4. Disjoint(v.t, n)
  BY <1>3 DEF Disjoint, Touches, Others
<1> QED BY <1>1, <1>2, <1>4, TableStep

-----------------------------------------------------------------------------
(* What closing a connection does, at the end n.                           *)
Closes(a, b, n) ==
  /\ ConnOK(b) /\ ~ Bound(b, n) /\ b.active # "free" /\ Settled(b, n) /\ HasEnd(b, n)
  /\ b.from = a.from /\ b.to = a.to /\ b.fromObj = a.fromObj /\ b.toObj = a.toObj
  /\ b.stage = a.stage
  /\ Foreign(a, b, n)

(* A message on its way changes nothing else of its connection.            *)
LEMMA SendOnConn ==
  ASSUME NEW n, NEW w, NEW c \in Conns, NEW m, NEW v, v = SendOn(w, n, c, m),
         DOMAIN w = WFields, DOMAIN w.conns = Conns, DOMAIN w.conns[c] = CFields
  PROVE  /\ DOMAIN v = WFields /\ v.t = w.t /\ v.failed = w.failed
         /\ DOMAIN v.conns = Conns /\ \A d \in Conns \ {c} : v.conns[d] = w.conns[d]
         /\ DOMAIN v.conns[c] = CFields
         /\ v.conns[c].from = w.conns[c].from /\ v.conns[c].to = w.conns[c].to
         /\ v.conns[c].active = w.conns[c].active /\ v.conns[c].passive = w.conns[c].passive
         /\ v.conns[c].fromObj = w.conns[c].fromObj /\ v.conns[c].toObj = w.conns[c].toObj
         /\ v.conns[c].stage = w.conns[c].stage
BY DEF SendOn, WFields, CFields

(* close() and the destructor of a connection, at its end n.               *)
LEMMA CloseConnFacts ==
  ASSUME NEW n \in Nodes, NEW w, NEW c \in Conns, NEW v, v = CloseConn(w, n, c),
         DOMAIN w = WFields, DOMAIN w.conns = Conns, ConnOK(w.conns[c]),
         HasEnd(w.conns[c], n)
  PROVE  /\ DOMAIN v = WFields /\ v.t = w.t /\ v.failed = w.failed
         /\ DOMAIN v.conns = Conns /\ \A d \in Conns \ {c} : v.conns[d] = w.conns[d]
         /\ Closes(w.conns[c], v.conns[c], n)
<1> DEFINE u == SendOn(w, n, c, "fin")
           a == w.conns[c]
           b == v.conns[c]
<1>0. DOMAIN a = CFields
  BY DEF ConnOK
<1>1. /\ DOMAIN u = WFields /\ u.t = w.t /\ u.failed = w.failed
      /\ DOMAIN u.conns = Conns /\ \A d \in Conns \ {c} : u.conns[d] = w.conns[d]
      /\ DOMAIN u.conns[c] = CFields
      /\ u.conns[c].from = a.from /\ u.conns[c].to = a.to
      /\ u.conns[c].active = a.active /\ u.conns[c].passive = a.passive
      /\ u.conns[c].fromObj = a.fromObj /\ u.conns[c].toObj = a.toObj
      /\ u.conns[c].stage = a.stage
  BY <1>0, SendOnConn
<1>2. v = IF a.from = n
          THEN IF a.active = "closed" THEN w
               ELSE IF a.active = "connecting"
                    THEN [w EXCEPT !.conns[c].active = "closed", !.conns[c].passive = "closed"]
                    ELSE [u EXCEPT !.conns[c].active = "closed", !.conns[c].toActive = <<>>]
          ELSE IF a.passive = "closed" THEN w
               ELSE [u EXCEPT !.conns[c].passive = "closed", !.conns[c].toPassive = <<>>]
  BY DEF CloseConn
<1> HIDE DEF u
<1>3. /\ DOMAIN v = WFields /\ v.t = w.t /\ v.failed = w.failed
      /\ DOMAIN v.conns = Conns /\ \A d \in Conns \ {c} : v.conns[d] = w.conns[d]
  BY <1>0, <1>1, <1>2 DEF WFields, CFields
<1>4. /\ DOMAIN b = CFields /\ b.from = a.from /\ b.to = a.to /\ b.fromObj = a.fromObj
      /\ b.toObj = a.toObj /\ b.stage = a.stage
  BY <1>0, <1>1, <1>2 DEF WFields, CFields
<1>5. /\ b.active = IF a.from = n THEN "closed" ELSE a.active
      /\ b.passive = IF a.from = n THEN IF a.active = "connecting" THEN "closed" ELSE a.passive
                                   ELSE "closed"
  BY <1>0, <1>1, <1>2 DEF WFields, CFields
<1> HIDE DEF a, b
<1>6. /\ ConnOK(a) /\ a.active # "free" /\ n \in {a.from, a.to}
      /\ a.active = "connecting" => a.from = n
  BY DEF a, HasEnd
<1>7. ConnOK(b) /\ ~ Bound(b, n) /\ b.active # "free" /\ Settled(b, n) /\ HasEnd(b, n)
  BY <1>4, <1>5, <1>6 DEF ConnOK, Bound, Settled, HasEnd
<1>8. Foreign(a, b, n)
  BY <1>4, <1>5, <1>6 DEF ConnOK, Bound, Settled, Far, Foreign
<1>9. Closes(a, b, n)
  BY <1>4, <1>7, <1>8 DEF Closes
<1> QED BY <1>3, <1>9 DEF a, b

(* A connection that was a neighbor's, or is to become one, can be closed. *)
LEMMA SettledEnd ==
  ASSUME NEW n, NEW a, ConnOK(a), a.active # "free", Settled(a, n)
  PROVE  HasEnd(a, n)
BY DEF ConnOK, Settled, HasEnd

(* Closing a connection breaks nothing: a neighbor whose connection is     *)
(* closed is still listed, until somebody removes it.                      *)
LEMMA CloseConnInv ==
  ASSUME NEW n \in Nodes, NEW w, NEW X, WInv(w, n, X), NEW c \in Conns,
         HasEnd(w.conns[c], n), NEW v, v = CloseConn(w, n, c)
  PROVE  /\ WInv(v, n, X \ {c}) /\ WInv(v, n, X) /\ v.t = w.t
         /\ Frame(w, v, n, X \ {c}) /\ (c \notin X => Frame(w, v, n, X))
<1>1. /\ DOMAIN v = WFields /\ v.t = w.t /\ v.failed = w.failed
      /\ DOMAIN v.conns = Conns /\ \A d \in Conns \ {c} : v.conns[d] = w.conns[d]
      /\ Closes(w.conns[c], v.conns[c], n)
  BY SMTT(30), CloseConnFacts DEF WInv
<1>2. Frame(w, v, n, X \ {c}) /\ (c \notin X => Frame(w, v, n, X))
  BY <1>1 DEF Frame, Closes, Foreign, WInv
<1>3. \A d \in Conns : ConnOK(v.conns[d])
  BY SMTT(30), <1>1 DEF WInv, Closes
<1>4. c \notin X => OwnAt(v.t, v.conns[c], c, n)
  BY SMTT(30), <1>1 DEF WInv, OwnAt, Closes, Far
<1>5. c \in X => OwnAt(v.t, v.conns[c], c, n) /\ NotYet(v.t, v.conns[c], c, n)
  BY <1>1 DEF WInv, OwnAt, Closes, NotYet, HasEnd
<1>6. /\ \A d \in Conns \ X : OwnAt(v.t, v.conns[d], d, n)
      /\ \A d \in Conns \ (X \ {c}) : OwnAt(v.t, v.conns[d], d, n)
      /\ X \subseteq Conns => \A d \in X : NotYet(v.t, v.conns[d], d, n)
  BY <1>1, <1>4, <1>5 DEF WInv
<1> QED BY <1>1, <1>2, <1>3, <1>6 DEF WInv

-----------------------------------------------------------------------------
(* The neighbor q, if it is one, is removed and its connection closed.     *)
LEMMA DropNeighborInv ==
  ASSUME NEW n \in Nodes, NEW w, NEW X, WInv(w, n, X), NEW q \in Nodes,
         NEW v, v = DropNeighbor(w, n, q)
  PROVE  /\ WInv(v, n, X) /\ Frame(w, v, n, X)
         /\ v.t.neighbors[q] = 0 /\ v.t.members = w.t.members
         /\ v.t.pending = w.t.pending /\ v.t.unreachable = w.t.unreachable
         /\ Touches(w.t, v.t, q)
<1>1. CASE w.t.neighbors[q] = 0
  <2>1. v = w
    BY <1>1 DEF DropNeighbor
  <2> QED BY <1>1, <2>1, FrameSame DEF Touches
<1>2. CASE w.t.neighbors[q] # 0
  <2> DEFINE c == w.t.neighbors[q]
             u == CloseConn(w, n, c)
  <2>1. c \in Conns /\ c \notin X
    BY <1>2 DEF WInv, TablesOK, NotYet
  <2>2. HasEnd(w.conns[c], n) /\ Far(w.conns[c], n) = q
    BY <2>1, SettledEnd DEF WInv, OwnAt
  <2>3. /\ WInv(u, n, X) /\ Frame(w, u, n, X) /\ u.t = w.t
    BY SMTT(30), <2>1, <2>2, CloseConnInv
  <2>4. ~ Bound(u.conns[c], n)
    BY <2>1, <2>2, CloseConnFacts DEF WInv, Closes
  <2>5. v = [u EXCEPT !.t.neighbors[q] = 0]
    BY <1>2 DEF DropNeighbor
  <2> HIDE DEF u
  <2>6. /\ DOMAIN v = WFields /\ v.conns = u.conns /\ v.failed = u.failed
        /\ v.t = [w.t EXCEPT !.neighbors[q] = 0]
    BY <2>3, <2>5 DEF WInv, WFields
  <2>7. TablesOK(v.t, n) /\ Disjoint(v.t, n)
    BY <2>6 DEF WInv, TablesOK, TFields, Disjoint
  <2>8. \A p \in Nodes : v.t.neighbors[p] = IF p = q THEN 0 ELSE w.t.neighbors[p]
    BY <2>6 DEF WInv, TablesOK, TFields
  <2>9. /\ v.t.closing = w.t.closing /\ v.t.members = w.t.members
        /\ v.t.pending = w.t.pending /\ v.t.unreachable = w.t.unreachable
    BY <2>6 DEF WInv, TablesOK, TFields
  <2>10. Cardinality(NeighborIds(v.t)) <= MaxNeighbors
    <3>1. NeighborIds(v.t) \subseteq NeighborIds(w.t)
      BY <2>8 DEF NeighborIds
    <3> QED BY <3>1, FewerNeighbors DEF WInv
  <2>11. ASSUME NEW d \in Conns \ X
         PROVE  OwnAt(v.t, v.conns[d], d, n)
    <3>1. OwnAt(w.t, u.conns[d], d, n) /\ ConnOK(u.conns[d])
      BY <2>3 DEF WInv
    <3>2. d # 0 /\ (d = c => ~ Bound(u.conns[d], n))
      BY <2>4, Constants
    <3>3. Bound(u.conns[d], n) => Far(u.conns[d], n) \in Nodes
      BY <3>1 DEF ConnOK, Bound, Far
    <3>4. Bound(u.conns[d], n) => Far(u.conns[d], n) # q
      BY <3>1, <3>2 DEF OwnAt
    <3> QED BY <3>1, <3>2, <3>3, <3>4, <2>6, <2>8, <2>9 DEF OwnAt
  <2>12. \A d \in X : NotYet(v.t, v.conns[d], d, n)
    <3>1. \A d \in X : d # 0 /\ NotYet(w.t, u.conns[d], d, n)
      BY <2>3, Constants DEF WInv
    <3> QED BY <3>1, <2>6, <2>8, <2>9 DEF NotYet
  <2>13. Frame(w, v, n, X)
    BY <2>3, <2>6 DEF Frame
  <2>14. WInv(v, n, X)
    BY <2>3, <2>6, <2>7, <2>10, <2>11, <2>12 DEF WInv
  <2> QED BY <2>8, <2>9, <2>13, <2>14 DEF Touches
<1> QED BY <1>1, <1>2

(* q leaves every table.                                                   *)
LEMMA EraseOfflinePeerInv ==
  ASSUME NEW n \in Nodes, NEW w, NEW X, WInv(w, n, X), NEW q \in Nodes,
         NEW v, v = EraseOfflinePeer(w, n, q)
  PROVE  /\ WInv(v, n, X) /\ Frame(w, v, n, X) /\ Touches(w.t, v.t, q)
         /\ v.t.neighbors[q] = 0 /\ v.t.members[q] = 0
         /\ v.t.pending[q] = 0 /\ v.t.unreachable[q] = 0
<1> DEFINE u == DropNeighbor(w, n, q)
<1>1. /\ WInv(u, n, X) /\ Frame(w, u, n, X) /\ Touches(w.t, u.t, q)
      /\ u.t.neighbors[q] = 0
  BY DropNeighborInv
<1>2. v = [u EXCEPT !.t.members[q] = 0, !.t.pending[q] = 0, !.t.unreachable[q] = 0]
  BY DEF EraseOfflinePeer
<1> HIDE DEF u
<1>3. /\ DOMAIN u = WFields /\ TablesOK(u.t, n) /\ Disjoint(u.t, n)
      /\ u.failed \subseteq {1111}
  BY <1>1 DEF WInv
<1>4. DOMAIN v = WFields /\ v.conns = u.conns /\ v.failed \subseteq {1111}
  BY <1>2, <1>3 DEF WFields
<1>a. v.t = [u.t EXCEPT !.members[q] = 0, !.pending[q] = 0, !.unreachable[q] = 0]
  <2>1. DOMAIN u = WFields
    BY <1>3
  <2> QED BY ONLY Zenon, <1>2, <2>1 DEF WFields
<1>5. /\ DOMAIN v.t = TFields /\ v.t.neighbors = u.t.neighbors /\ v.t.closing = u.t.closing
      /\ v.t.members = [u.t.members EXCEPT ![q] = 0]
      /\ v.t.pending = [u.t.pending EXCEPT ![q] = 0]
      /\ v.t.unreachable = [u.t.unreachable EXCEPT ![q] = 0]
      /\ v.t.peers = u.t.peers /\ v.t.made = u.t.made /\ v.t.posts = u.t.posts
  BY <1>3, <1>a DEF TablesOK, TFields
<1>6. TablesOK(v.t, n) /\ Disjoint(v.t, n)
  BY <1>3, <1>5 DEF TablesOK, Disjoint
<1>7. WInv(v, n, X) /\ Frame(u, v, n, X)
  BY <1>1, <1>3, <1>4, <1>5, <1>6, TableStep
<1>8. Frame(w, v, n, X)
  BY <1>1, <1>7, FrameTrans
<1>9. /\ Touches(w.t, v.t, q) /\ v.t.neighbors[q] = 0 /\ v.t.members[q] = 0
      /\ v.t.pending[q] = 0 /\ v.t.unreachable[q] = 0
  BY <1>1, <1>3, <1>5 DEF Touches, TablesOK
<1> QED BY <1>7, <1>8, <1>9

(* The neighbor q, if it is one, becomes a member again, or is forgotten.  *)
LEMMA NeighborToMemberInv ==
  ASSUME NEW n \in Nodes, NEW w, NEW X, WInv(w, n, X), NEW q \in Others(n), NEW obj,
         NEW v, v = NeighborToMember(w, n, q, obj)
  PROVE  /\ WInv(v, n, X) /\ Frame(w, v, n, X) /\ Touches(w.t, v.t, q)
         /\ v.t.neighbors[q] = 0
<1> DEFINE a == [w EXCEPT !.t.marks[q][obj] = 0]
           u == DropNeighbor(a, n, q)
           x == [u EXCEPT !.t.unreachable[q] = 0, !.t.pending[q] = 0]
<1>0. q \in Nodes /\ q # n
  BY DEF Others
<1>1. WInv(a, n, X) /\ Frame(w, a, n, X) /\ Touches(w.t, a.t, q)
  <2>1. /\ DOMAIN w = WFields /\ TablesOK(w.t, n) /\ Disjoint(w.t, n)
        /\ w.failed \subseteq {1111}
    BY DEF WInv
  <2>2. /\ DOMAIN a = WFields /\ a.conns = w.conns /\ a.failed \subseteq {1111}
        /\ a.t = [w.t EXCEPT !.marks[q][obj] = 0]
    BY <2>1 DEF WFields
  <2> HIDE DEF a
  <2>3. /\ DOMAIN a.t = TFields /\ a.t.neighbors = w.t.neighbors
        /\ a.t.closing = w.t.closing /\ a.t.members = w.t.members
        /\ a.t.pending = w.t.pending /\ a.t.unreachable = w.t.unreachable
        /\ a.t.peers = w.t.peers /\ a.t.made = w.t.made /\ a.t.posts = w.t.posts
    BY <2>1, <2>2 DEF TablesOK, TFields
  <2>4. TablesOK(a.t, n) /\ Disjoint(a.t, n)
    BY <2>1, <2>3 DEF TablesOK, Disjoint
  <2>5. WInv(a, n, X) /\ Frame(w, a, n, X)
    <3>1. a.t.neighbors = w.t.neighbors /\ a.t.closing = w.t.closing
      BY <2>3
    <3>2. DOMAIN a = WFields /\ a.conns = w.conns /\ a.failed \subseteq {1111}
      BY <2>2
    <3> QED BY <3>1, <3>2, <2>4, TableStep
  <2> QED BY <2>3, <2>5 DEF Touches
<1> HIDE DEF a
<1>2. /\ WInv(u, n, X) /\ Frame(a, u, n, X) /\ u.t.neighbors[q] = 0
      /\ Touches(a.t, u.t, q)
  BY <1>0, <1>1, DropNeighborInv DEF u
<1>3. v = IF q \in w.t.offline THEN EraseOfflinePeer(a, n, q) ELSE InsertMember(x, q, obj)
  BY DEF NeighborToMember, a
<1> HIDE DEF u
<1>4. CASE q \in w.t.offline
  <2>1. v = EraseOfflinePeer(a, n, q)
    BY <1>3, <1>4
  <2>2. /\ WInv(v, n, X) /\ Frame(a, v, n, X) /\ Touches(a.t, v.t, q)
        /\ v.t.neighbors[q] = 0
    BY <1>0, <1>1, <2>1, EraseOfflinePeerInv
  <2> QED BY <1>1, <2>2, FrameTrans DEF Touches
<1>5. CASE q \notin w.t.offline
  <2>1. /\ DOMAIN u = WFields /\ TablesOK(u.t, n) /\ Disjoint(u.t, n)
        /\ u.failed \subseteq {1111}
    BY SMTT(30), <1>2 DEF WInv
  <2>2. v = [x EXCEPT !.t.members[q] = IF @ = 0 THEN obj ELSE @]
    BY Zenon, <1>3, <1>5 DEF InsertMember
  <2>3. DOMAIN x = WFields /\ x.conns = u.conns /\ x.failed \subseteq {1111}
    BY <2>1 DEF WFields
  <2>a. x.t = [u.t EXCEPT !.unreachable[q] = 0, !.pending[q] = 0]
    <3>1. DOMAIN u = WFields
      BY <2>1
    <3> QED BY ONLY Zenon, <3>1 DEF WFields
  <2> HIDE DEF x
  <2>4. /\ DOMAIN v = WFields /\ v.conns = u.conns /\ v.failed \subseteq {1111}
        /\ v.t = [x.t EXCEPT !.members[q] = IF @ = 0 THEN obj ELSE @]
    BY <2>2, <2>3 DEF WFields
  <2>5. /\ DOMAIN v.t = TFields /\ v.t.neighbors = u.t.neighbors
        /\ v.t.closing = u.t.closing
        /\ v.t.members = [u.t.members EXCEPT ![q] = IF @ = 0 THEN obj ELSE @]
        /\ v.t.pending = [u.t.pending EXCEPT ![q] = 0]
        /\ v.t.unreachable = [u.t.unreachable EXCEPT ![q] = 0]
        /\ v.t.peers = u.t.peers /\ v.t.made = u.t.made /\ v.t.posts = u.t.posts
    BY <2>1, <2>a, <2>4 DEF TablesOK, TFields
  <2>6. TablesOK(v.t, n)
    BY <2>1, <2>5 DEF TablesOK
  <2>7. Disjoint(v.t, n)
    BY <1>0, <1>2, <2>1, <2>5 DEF TablesOK, Disjoint
  <2>8. WInv(v, n, X) /\ Frame(u, v, n, X)
    <3>1. v.t.neighbors = u.t.neighbors /\ v.t.closing = u.t.closing
      BY <2>5
    <3>2. DOMAIN v = WFields /\ v.conns = u.conns /\ v.failed \subseteq {1111}
      BY <2>4
    <3> QED BY <1>2, <3>1, <3>2, <2>6, <2>7, TableStep
  <2>9. Touches(u.t, v.t, q) /\ v.t.neighbors[q] = 0
    BY <1>2, <2>1, <2>5 DEF Touches, TablesOK
  <2>10. Frame(w, v, n, X)
    BY <1>1, <1>2, <2>8, FrameTrans
  <2> QED BY <1>1, <1>2, <2>8, <2>9, <2>10 DEF Touches
<1> QED BY <1>4, <1>5

=============================================================================
