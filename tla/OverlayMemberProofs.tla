------------------------ MODULE OverlayMemberProofs ------------------------
(***************************************************************************)
(* The operations of one node on its members, pending and unreachable      *)
(* peers, on its posted operations and on the connections it opens keep    *)
(* the invariant of OverlayInvProofs.                                      *)
(***************************************************************************)
EXTENDS OverlayNeighborProofs

(* Operations on the other tables                                          *)

SameEntries(s, t) ==
  /\ t.neighbors = s.neighbors /\ t.closing = s.closing
  /\ t.members = s.members /\ t.pending = s.pending /\ t.unreachable = s.unreachable

SetPending(w, q, p) == [w EXCEPT !.t.pending[q] = p]
SetMark(w, q, obj, m) == [w EXCEPT !.t.marks[q][obj] = m]
SetFailed(w, a) == [w EXCEPT !.failed = @ \cup {a}]
AddPost(w, p) == [w EXCEPT !.t.posts = Append(@, p)]

(* Tables that no invariant is about may change.                           *)
LEMMA SameEntriesStep ==
  ASSUME NEW n \in Nodes, NEW w, NEW v, NEW X, WInv(w, n, X),
         DOMAIN v = WFields, v.conns = w.conns, v.failed \subseteq {1111},
         TablesOK(v.t, n), SameEntries(w.t, v.t)
  PROVE  /\ WInv(v, n, X) /\ Frame(w, v, n, X)
         /\ \A q : Touches(w.t, v.t, q)
<1>1. v.t.neighbors = w.t.neighbors /\ v.t.closing = w.t.closing
  BY DEF SameEntries
<1>2. Disjoint(v.t, n)
  BY DEF SameEntries, WInv, Disjoint
<1>3. \A q : Touches(w.t, v.t, q)
  BY DEF SameEntries, Touches
<1> QED BY <1>1, <1>2, <1>3, TableStep

(* client_service posts an operation.                                      *)
LEMMA AddPostInv ==
  ASSUME NEW n \in Nodes, NEW w, NEW X, WInv(w, n, X), NEW p \in Posts(n),
         NEW v, v = AddPost(w, p)
  PROVE  /\ WInv(v, n, X) /\ Frame(w, v, n, X) /\ v.conns = w.conns
         /\ SameEntries(w.t, v.t) /\ v.t.peers = w.t.peers
<1>1. DOMAIN w = WFields
  BY DEF WInv
<1>2. TablesOK(w.t, n) /\ w.failed \subseteq {1111}
  BY DEF WInv
<1>3. DOMAIN v = WFields /\ v.conns = w.conns /\ v.failed \subseteq {1111}
  BY <1>1, <1>2 DEF WFields, AddPost
<1>4. v.t = [w.t EXCEPT !.posts = Append(@, p)]
  BY <1>1 DEF WFields, AddPost
<1>5. /\ DOMAIN v.t = TFields /\ SameEntries(w.t, v.t)
      /\ v.t.peers = w.t.peers /\ v.t.made = w.t.made /\ v.t.posts = Append(w.t.posts, p)
  BY <1>2, <1>4 DEF TablesOK, TFields, SameEntries
<1>6. v.t.posts \in Seq(Posts(n))
  <2>1. w.t.posts \in Seq(Posts(n))
    BY <1>2 DEF TablesOK
  <2> QED BY <2>1, <1>5
<1>7. TablesOK(v.t, n)
  BY <1>2, <1>5, <1>6 DEF TablesOK, SameEntries
<1>8. SameEntries(w.t, v.t) /\ v.t.peers = w.t.peers
  BY <1>5
<1>9. WInv(v, n, X) /\ Frame(w, v, n, X)
  BY <1>3, <1>7, <1>8, SameEntriesStep
<1> QED BY <1>3, <1>8, <1>9

(* client_service::on_known_offline_peer                                   *)
LEMMA OnKnownOfflinePeerInv ==
  ASSUME NEW n \in Nodes, NEW w, NEW X, WInv(w, n, X), NEW q \in Others(n),
         NEW v, v = OnKnownOfflinePeer(w, q)
  PROVE  /\ WInv(v, n, X) /\ Frame(w, v, n, X) /\ v.conns = w.conns
         /\ SameEntries(w.t, v.t)
<1> DEFINE p == [op |-> "erase", id |-> q, obj |-> 0]
           u == AddPost(w, p)
<1>1. p \in Posts(n)
  BY DEF Posts
<1>2. v = IF w.t.peers[q] = 0 THEN u
          ELSE [u EXCEPT !.t.peers[q] = 0, !.t.offline = @ \cup {q}]
  BY DEF OnKnownOfflinePeer, AddPost
<1> HIDE DEF p
<1>3. /\ WInv(u, n, X) /\ Frame(w, u, n, X) /\ u.conns = w.conns
      /\ SameEntries(w.t, u.t) /\ u.t.peers = w.t.peers
  BY <1>1, AddPostInv
<1> HIDE DEF u
<1>4. CASE w.t.peers[q] = 0
  BY <1>2, <1>3, <1>4
<1>5. CASE v = [u EXCEPT !.t.peers[q] = 0, !.t.offline = @ \cup {q}]
  <2>1. DOMAIN u = WFields
    BY <1>3 DEF WInv
  <2>2. TablesOK(u.t, n) /\ u.failed \subseteq {1111}
    BY <1>3 DEF WInv
  <2>3. DOMAIN v = WFields /\ v.conns = u.conns /\ v.failed = u.failed
    BY ONLY <1>5, <2>1 DEF WFields
  <2>4. v.t = [u.t EXCEPT !.peers[q] = 0, !.offline = @ \cup {q}]
    BY ONLY <1>5, <2>1 DEF WFields
  <2>5. /\ DOMAIN v.t = TFields /\ SameEntries(u.t, v.t)
        /\ DOMAIN v.t.peers = DOMAIN u.t.peers
        /\ v.t.made = u.t.made /\ v.t.posts = u.t.posts
    BY ONLY <2>2, <2>4 DEF TablesOK, TFields, SameEntries
  <2>6. TablesOK(v.t, n)
    BY ONLY <2>2, <2>5 DEF TablesOK, SameEntries
  <2>7. v.failed \subseteq {1111} /\ v.conns = u.conns /\ DOMAIN v = WFields
    BY <2>2, <2>3
  <2>8. SameEntries(u.t, v.t)
    BY <2>5
  <2>9. WInv(v, n, X) /\ Frame(u, v, n, X)
    BY <1>3, <2>6, <2>7, <2>8, SameEntriesStep
  <2>10. Frame(w, v, n, X)
    BY <1>3, <2>9, FrameTrans
  <2>11. SameEntries(w.t, v.t)
    BY <1>3, <2>8 DEF SameEntries
  <2> QED BY <1>3, <2>7, <2>9, <2>10, <2>11
<1> QED BY <1>2, <1>4, <1>5

(* client_service::on_known_new_peer                                       *)
LEMMA OnKnownNewPeerInv ==
  ASSUME NEW n \in Nodes, NEW w, NEW X, WInv(w, n, X), NEW q \in Others(n),
         NEW v, v = OnKnownNewPeer(w, q)
  PROVE  /\ WInv(v, n, X) /\ Frame(w, v, n, X) /\ v.conns = w.conns
         /\ SameEntries(w.t, v.t)
<1>1. CASE v = w
  BY <1>1, FrameSame DEF SameEntries
<1>2. CASE v # w
  <2> DEFINE obj == w.t.made[q] + 1
             p == [op |-> "known", id |-> q, obj |-> obj]
  <2>1. DOMAIN w = WFields
    BY DEF WInv
  <2>2. TablesOK(w.t, n) /\ w.failed \subseteq {1111}
    BY DEF WInv
  <2>3. obj \in Nat
    BY <2>2 DEF TablesOK, Others
  <2>4. p \in Posts(n)
    BY <2>3 DEF Posts
  <2>5. v = [w EXCEPT !.t.peers[q] = obj, !.t.made[q] = obj, !.t.posts = Append(@, p)]
    BY <1>2 DEF OnKnownNewPeer
  <2> HIDE DEF obj, p
  <2>6. DOMAIN v = WFields /\ v.conns = w.conns /\ v.failed = w.failed
    BY ONLY <2>5, <2>1 DEF WFields
  <2>7. v.t = [w.t EXCEPT !.peers[q] = obj, !.made[q] = obj, !.posts = Append(@, p)]
    BY ONLY Zenon, <2>5, <2>1 DEF WFields
  <2>8. /\ DOMAIN v.t = TFields /\ SameEntries(w.t, v.t)
        /\ DOMAIN v.t.peers = DOMAIN w.t.peers
        /\ v.t.made = [w.t.made EXCEPT ![q] = obj] /\ v.t.posts = Append(w.t.posts, p)
    BY ONLY <2>2, <2>7 DEF TablesOK, TFields, SameEntries
  <2>9. v.t.made \in [Nodes -> Nat]
    <3>1. w.t.made \in [Nodes -> Nat] /\ v.t.made = [w.t.made EXCEPT ![q] = obj]
      BY <2>2, <2>8 DEF TablesOK
    <3> QED BY ONLY Zenon, <2>3, <3>1
  <2>10. v.t.posts \in Seq(Posts(n))
    <3>1. w.t.posts \in Seq(Posts(n))
      BY <2>2 DEF TablesOK
    <3> QED BY ONLY <3>1, <2>4, <2>8
  <2>11. TablesOK(v.t, n)
    <3>1. DOMAIN v.t = TFields /\ DOMAIN v.t.peers = DOMAIN w.t.peers /\ SameEntries(w.t, v.t)
      BY <2>8
    <3> QED BY ONLY <2>2, <3>1, <2>9, <2>10 DEF TablesOK, SameEntries
  <2>12. v.failed \subseteq {1111} /\ v.conns = w.conns /\ DOMAIN v = WFields
    BY <2>2, <2>6
  <2>13. SameEntries(w.t, v.t)
    BY <2>8
  <2>14. WInv(v, n, X) /\ Frame(w, v, n, X)
    BY <2>11, <2>12, <2>13, SameEntriesStep
  <2> QED BY <2>12, <2>13, <2>14
<1> QED BY <1>1, <1>2

(* overlay::known_new_peer                                                 *)
LEMMA KnownNewPeerInv ==
  ASSUME NEW n \in Nodes, NEW w, NEW X, WInv(w, n, X), NEW q \in Others(n), NEW obj,
         NEW v, v = KnownNewPeer(w, q, obj)
  PROVE  WInv(v, n, X) /\ Frame(w, v, n, X)
<1>1. CASE v = w
  BY <1>1, FrameSame
<1>2. CASE v # w
  <2>1. v = InsertMember(w, q, obj) /\ w.t.unreachable[q] = 0 /\ w.t.neighbors[q] = 0
    BY <1>2 DEF KnownNewPeer
  <2> QED BY <2>1, InsertMemberInv
<1> QED BY <1>1, <1>2

(* The number of failed attempts is in no invariant.                       *)
LEMMA SetMarkInv ==
  ASSUME NEW n \in Nodes, NEW w, NEW X, WInv(w, n, X), NEW q, NEW obj, NEW m,
         NEW v, v = SetMark(w, q, obj, m)
  PROVE  /\ WInv(v, n, X) /\ Frame(w, v, n, X) /\ v.conns = w.conns
         /\ SameEntries(w.t, v.t)
<1>1. DOMAIN w = WFields
  BY DEF WInv
<1>2. TablesOK(w.t, n) /\ w.failed \subseteq {1111}
  BY DEF WInv
<1>3. DOMAIN v = WFields /\ v.conns = w.conns /\ v.failed \subseteq {1111}
  BY <1>1, <1>2 DEF WFields, SetMark
<1>4. v.t = [w.t EXCEPT !.marks[q][obj] = m]
  BY <1>1 DEF WFields, SetMark
<1>5. /\ DOMAIN v.t = TFields /\ SameEntries(w.t, v.t)
      /\ v.t.peers = w.t.peers /\ v.t.made = w.t.made /\ v.t.posts = w.t.posts
  BY <1>2, <1>4 DEF TablesOK, TFields, SameEntries
<1>6. TablesOK(v.t, n)
  BY <1>2, <1>5 DEF TablesOK, SameEntries
<1>7. SameEntries(w.t, v.t)
  BY <1>5
<1>8. WInv(v, n, X) /\ Frame(w, v, n, X)
  BY <1>3, <1>6, <1>7, SameEntriesStep
<1> QED BY <1>3, <1>7, <1>8

(* An entry of pending_peers_ goes.                                        *)
LEMMA SetPendingInv ==
  ASSUME NEW n \in Nodes, NEW w, NEW X, WInv(w, n, X), NEW q \in Others(n),
         NEW v, v = SetPending(w, q, 0)
  PROVE  /\ WInv(v, n, X) /\ Frame(w, v, n, X) /\ v.conns = w.conns
         /\ Touches(w.t, v.t, q) /\ v.t.neighbors = w.t.neighbors
         /\ v.t.members = w.t.members /\ v.t.unreachable = w.t.unreachable
<1>1. DOMAIN w = WFields
  BY DEF WInv
<1>2. TablesOK(w.t, n) /\ w.failed \subseteq {1111}
  BY DEF WInv
<1>a. Disjoint(w.t, n)
  BY DEF WInv
<1>3. DOMAIN v = WFields /\ v.conns = w.conns /\ v.failed \subseteq {1111}
  BY <1>1, <1>2 DEF WFields, SetPending
<1>4. v.t = [w.t EXCEPT !.pending[q] = 0]
  BY <1>1 DEF WFields, SetPending
<1>5. /\ DOMAIN v.t = TFields /\ v.t.neighbors = w.t.neighbors
      /\ v.t.closing = w.t.closing /\ v.t.members = w.t.members
      /\ v.t.pending = [w.t.pending EXCEPT ![q] = 0] /\ v.t.unreachable = w.t.unreachable
      /\ v.t.peers = w.t.peers /\ v.t.made = w.t.made /\ v.t.posts = w.t.posts
  BY ONLY <1>2, <1>4 DEF TablesOK, TFields
<1>6. TablesOK(v.t, n)
  BY <1>2, <1>5 DEF TablesOK
<1>7. Touches(w.t, v.t, q) /\ v.t.pending[q] = 0 /\ v.t.neighbors[q] = w.t.neighbors[q]
  BY <1>2, <1>5 DEF TablesOK, Touches, Others
<1>8. /\ v.t.neighbors[q] # 0 => v.t.members[q] = 0 /\ v.t.unreachable[q] = 0
      /\ v.t.members[q] # 0 => v.t.unreachable[q] = 0
  BY <1>a, <1>5 DEF Disjoint, Others
<1>9. WInv(v, n, X) /\ Frame(w, v, n, X)
  BY <1>3, <1>6, <1>7, <1>8, EntryStep
<1> QED BY <1>3, <1>5, <1>7, <1>9

(* A peer that is not a neighbor becomes unreachable.                      *)
LEMMA ToUnreachableInv ==
  ASSUME NEW n \in Nodes, NEW w, NEW X, WInv(w, n, X), NEW q \in Others(n), NEW obj,
         w.t.neighbors[q] = 0, NEW v, v = ToUnreachable(w, q, obj)
  PROVE  /\ WInv(v, n, X) /\ Frame(w, v, n, X) /\ v.conns = w.conns
         /\ Touches(w.t, v.t, q)
<1>1. DOMAIN w = WFields
  BY DEF WInv
<1>2. TablesOK(w.t, n) /\ w.failed \subseteq {1111}
  BY DEF WInv
<1>3. DOMAIN v = WFields /\ v.conns = w.conns /\ v.failed \subseteq {1111}
  BY <1>1, <1>2 DEF WFields, ToUnreachable
<1>4. v.t = [w.t EXCEPT !.members[q] = 0, !.unreachable[q] = IF @ = 0 THEN obj ELSE @]
  BY Zenon, <1>1 DEF WFields, ToUnreachable
<1>5. /\ DOMAIN v.t = TFields /\ v.t.neighbors = w.t.neighbors
      /\ v.t.closing = w.t.closing /\ v.t.pending = w.t.pending
      /\ v.t.members = [w.t.members EXCEPT ![q] = 0]
      /\ v.t.unreachable = [w.t.unreachable EXCEPT ![q] = IF @ = 0 THEN obj ELSE @]
      /\ v.t.peers = w.t.peers /\ v.t.made = w.t.made /\ v.t.posts = w.t.posts
  BY <1>2, <1>4 DEF TablesOK, TFields
<1>6. TablesOK(v.t, n)
  BY <1>2, <1>5 DEF TablesOK
<1>7. /\ Touches(w.t, v.t, q) /\ v.t.neighbors[q] = w.t.neighbors[q]
      /\ v.t.neighbors[q] = 0 /\ v.t.members[q] = 0
  BY <1>2, <1>5 DEF TablesOK, Touches, Others
<1>8. WInv(v, n, X) /\ Frame(w, v, n, X)
  BY <1>3, <1>6, <1>7, EntryStep
<1> QED BY <1>3, <1>7, <1>8

(* The end of an attempt that failed.                                      *)
LEMMA PendingToMemberInv ==
  ASSUME NEW n \in Nodes, NEW w, NEW X, WInv(w, n, X), NEW q \in Others(n), NEW obj,
         NEW r, r = PendingToMember(w, n, q, obj)
  PROVE  WInv(r, n, X) /\ Frame(w, r, n, X) /\ Touches(w.t, r.t, q)
<1> DEFINE v == SetPending(w, q, 0)
           mark == IF w.t.marks[q][obj] = 3 THEN 3 ELSE w.t.marks[q][obj] + 1
           u == SetMark(v, q, obj, mark)
           x == ToUnreachable(u, q, obj)
<1>1. \/ r = EraseOfflinePeer(v, n, q)
      \/ r = Enter(v, q, obj)
      \/ w.t.neighbors[q] = 0 /\ r = x
      \/ w.t.neighbors[q] = 0 /\ r = OnKnownOfflinePeer(x, q)
      \/ w.t.neighbors[q] = 0 /\ w.t.unreachable[q] = 0 /\ r = InsertMember(u, q, obj)
      \/ r = SetFailed(u, 1111)
  BY DEF PendingToMember, SetPending, SetMark, SetFailed
<1> HIDE DEF mark
<1>0. q \in Nodes
  BY DEF Others
<1>2. /\ WInv(v, n, X) /\ Frame(w, v, n, X) /\ Touches(w.t, v.t, q)
      /\ v.t.neighbors = w.t.neighbors /\ v.t.unreachable = w.t.unreachable
  BY SetPendingInv
<1> HIDE DEF v
<1>3. WInv(u, n, X) /\ Frame(v, u, n, X) /\ SameEntries(v.t, u.t)
  BY <1>2, SetMarkInv
<1> HIDE DEF u
<1>4. Frame(w, u, n, X) /\ Touches(w.t, u.t, q)
  <2>1. Touches(w.t, u.t, q)
    BY <1>2, <1>3 DEF Touches, SameEntries
  <2> QED BY <1>2, <1>3, <2>1, FrameTrans
<1>5. ASSUME w.t.neighbors[q] = 0
      PROVE  WInv(x, n, X) /\ Frame(w, x, n, X) /\ Touches(w.t, x.t, q)
  <2>1. u.t.neighbors[q] = 0
    BY <1>2, <1>3, <1>5 DEF SameEntries
  <2>2. WInv(x, n, X) /\ Frame(u, x, n, X) /\ Touches(u.t, x.t, q)
    BY <1>3, <2>1, ToUnreachableInv
  <2>3. Touches(w.t, x.t, q)
    BY <1>4, <2>2 DEF Touches
  <2> QED BY <1>4, <2>2, <2>3, FrameTrans
<1> HIDE DEF x
<1>6. CASE r = EraseOfflinePeer(v, n, q)
  <2>1. WInv(r, n, X) /\ Frame(v, r, n, X) /\ Touches(v.t, r.t, q)
    BY <1>0, <1>2, <1>6, EraseOfflinePeerInv
  <2>2. Touches(w.t, r.t, q)
    BY <1>2, <2>1 DEF Touches
  <2> QED BY <1>2, <2>1, <2>2, FrameTrans
<1>7. CASE r = Enter(v, q, obj)
  <2>1. WInv(r, n, X) /\ Frame(v, r, n, X) /\ Touches(v.t, r.t, q)
    BY <1>2, <1>7, EnterInv
  <2>2. Touches(w.t, r.t, q)
    BY <1>2, <2>1 DEF Touches
  <2> QED BY <1>2, <2>1, <2>2, FrameTrans
<1>8. CASE w.t.neighbors[q] = 0 /\ r = x
  BY <1>5, <1>8
<1>9. CASE w.t.neighbors[q] = 0 /\ r = OnKnownOfflinePeer(x, q)
  <2>1. WInv(x, n, X) /\ Frame(w, x, n, X) /\ Touches(w.t, x.t, q)
    BY <1>5, <1>9
  <2>2. WInv(r, n, X) /\ Frame(x, r, n, X) /\ SameEntries(x.t, r.t)
    BY <1>9, <2>1, OnKnownOfflinePeerInv
  <2>3. Touches(w.t, r.t, q)
    BY <2>1, <2>2 DEF Touches, SameEntries
  <2> QED BY <2>1, <2>2, <2>3, FrameTrans
<1>10. CASE w.t.neighbors[q] = 0 /\ w.t.unreachable[q] = 0 /\ r = InsertMember(u, q, obj)
  <2>1. u.t.neighbors[q] = 0 /\ u.t.unreachable[q] = 0
    BY <1>2, <1>3, <1>10 DEF SameEntries
  <2>2. WInv(r, n, X) /\ Frame(u, r, n, X) /\ Touches(u.t, r.t, q)
    BY <1>3, <1>10, <2>1, InsertMemberInv
  <2>3. Touches(w.t, r.t, q)
    BY <1>4, <2>2 DEF Touches
  <2> QED BY <1>4, <2>2, <2>3, FrameTrans
<1>11. CASE r = SetFailed(u, 1111)
  <2>1. DOMAIN u = WFields /\ TablesOK(u.t, n) /\ u.failed \subseteq {1111}
    BY <1>3 DEF WInv
  <2>2. /\ DOMAIN r = WFields /\ r.conns = u.conns /\ r.t = u.t
        /\ r.failed = u.failed \cup {1111}
    BY <1>11, <2>1 DEF WFields, SetFailed
  <2>3. r.failed \subseteq {1111} /\ SameEntries(u.t, r.t) /\ TablesOK(r.t, n)
    BY <2>1, <2>2 DEF SameEntries
  <2>4. WInv(r, n, X) /\ Frame(u, r, n, X)
    <3>1. DOMAIN r = WFields /\ r.conns = u.conns
      BY <2>2
    <3> QED BY <1>3, <2>3, <3>1, SameEntriesStep
  <2> QED BY <1>4, <2>2, <2>4, FrameTrans
<1> QED BY SMTT(30), <1>1, <1>6, <1>7, <1>8, <1>9, <1>10, <1>11

-----------------------------------------------------------------------------
(* Opening connections                                                     *)

NewConn(n, q, obj, stage) ==
  [Free EXCEPT !.from = n, !.to = q, !.stage = stage, !.active = "connecting", !.fromObj = obj]
SetConn(w, c, b) == [w EXCEPT !.conns[c] = b]

(* A peer that is not a neighbor becomes pending.                          *)
LEMMA MemberToPendingInv ==
  ASSUME NEW n \in Nodes, NEW w, NEW X, WInv(w, n, X), NEW q \in Others(n), NEW obj,
         w.t.neighbors[q] = 0, NEW v, v = MemberToPending(w, q, obj)
  PROVE  /\ WInv(v, n, X) /\ Frame(w, v, n, X) /\ v.conns = w.conns
         /\ Touches(w.t, v.t, q)
<1>1. DOMAIN w = WFields
  BY DEF WInv
<1>2. TablesOK(w.t, n) /\ w.failed \subseteq {1111}
  BY DEF WInv
<1>0. v = [w EXCEPT !.t.members[q] = 0, !.t.pending[q] = obj]
  BY DEF MemberToPending
<1>3. DOMAIN v = WFields /\ v.conns = w.conns /\ v.failed \subseteq {1111}
  BY ONLY <1>0, <1>1, <1>2 DEF WFields
<1>4. v.t = [w.t EXCEPT !.members[q] = 0, !.pending[q] = obj]
  BY ONLY Zenon, <1>0, <1>1 DEF WFields
<1>5. /\ DOMAIN v.t = TFields /\ v.t.neighbors = w.t.neighbors
      /\ v.t.closing = w.t.closing /\ v.t.unreachable = w.t.unreachable
      /\ v.t.members = [w.t.members EXCEPT ![q] = 0]
      /\ v.t.pending = [w.t.pending EXCEPT ![q] = obj]
      /\ v.t.peers = w.t.peers /\ v.t.made = w.t.made /\ v.t.posts = w.t.posts
  BY ONLY <1>2, <1>4 DEF TablesOK, TFields
<1>6. TablesOK(v.t, n)
  BY ONLY <1>2, <1>5 DEF TablesOK
<1>7. /\ Touches(w.t, v.t, q) /\ v.t.neighbors[q] = w.t.neighbors[q]
      /\ v.t.neighbors[q] = 0 /\ v.t.members[q] = 0
  BY <1>2, <1>5 DEF TablesOK, Touches, Others
<1>8. WInv(v, n, X) /\ Frame(w, v, n, X)
  BY <1>3, <1>6, <1>7, EntryStep
<1> QED BY <1>3, <1>7, <1>8

(* One connection changes, and it is neither bound nor listed at n.        *)
LEMMA SetConnInv ==
  ASSUME NEW n \in Nodes, NEW w, NEW X, WInv(w, n, X), NEW c \in Conns, NEW b,
         ConnOK(b), OwnAt(w.t, b, c, n), c \notin X,
         Foreign(w.conns[c], b, n), NEW v, v = SetConn(w, c, b)
  PROVE  /\ WInv(v, n, X) /\ Frame(w, v, n, X) /\ v.t = w.t
         /\ v.conns = [w.conns EXCEPT ![c] = b]
<1>1. DOMAIN w = WFields /\ DOMAIN w.conns = Conns
  BY DEF WInv
<1>2. /\ DOMAIN v = WFields /\ v.t = w.t /\ v.failed = w.failed
      /\ v.conns = [w.conns EXCEPT ![c] = b]
  BY <1>1 DEF WFields, SetConn
<1>3. /\ DOMAIN v.conns = Conns /\ v.conns[c] = b
      /\ \A d \in Conns \ {c} : v.conns[d] = w.conns[d]
  BY <1>1, <1>2
<1>4. \A d \in Conns : ConnOK(v.conns[d])
  BY <1>3 DEF WInv
<1>5. \A d \in Conns \ X : OwnAt(v.t, v.conns[d], d, n)
  BY <1>2, <1>3 DEF WInv
<1>6. \A d \in X : NotYet(v.t, v.conns[d], d, n)
  BY <1>2, <1>3 DEF WInv
<1>7. WInv(v, n, X)
  BY <1>2, <1>3, <1>4, <1>5, <1>6 DEF WInv
<1>8. Frame(w, v, n, X)
  <2>1. X \subseteq Conns
    BY DEF WInv
  <2> QED BY <1>3, <2>1 DEF Frame, Foreign
<1> QED BY <1>2, <1>7, <1>8

CanOpen(w, stage) == stage # "none" => FreeConns(w) # {}
Opened(w, v, stage) ==
  stage # "none" => \E c \in FreeConns(w) : FreeConns(v) = FreeConns(w) \ {c}

(* A turn of __async_connect_peer.                                         *)
LEMMA ConnectPeerInv ==
  ASSUME NEW n \in Nodes, NEW w, WInv(w, n, {}), NEW q \in Others(n), NEW obj, obj # 0,
         w.t.neighbors[q] = 0, NEW stage, CanOpen(w, stage),
         NEW v, v = ConnectPeer(w, n, q, obj, stage)
  PROVE  /\ WInv(v, n, {}) /\ Frame(w, v, n, {}) /\ Touches(w.t, v.t, q)
         /\ Opened(w, v, stage)
<1>1. CASE stage = "none"
  <2> DEFINE u == PendingToMember(w, n, q, obj)
  <2>1. v = SetBlack(u, u.t.black \cup {q})
    BY <1>1 DEF ConnectPeer, SetBlack
  <2>2. WInv(u, n, {}) /\ Frame(w, u, n, {}) /\ Touches(w.t, u.t, q)
    BY PendingToMemberInv
  <2> HIDE DEF u
  <2>3. /\ WInv(v, n, {}) /\ Frame(u, v, n, {})
        /\ v.t.neighbors = u.t.neighbors /\ v.t.closing = u.t.closing
        /\ v.t.members = u.t.members /\ v.t.pending = u.t.pending
        /\ v.t.unreachable = u.t.unreachable
    BY <2>1, <2>2, BlackStep
  <2>4. Touches(w.t, v.t, q)
    BY <2>2, <2>3 DEF Touches
  <2>5. Opened(w, v, stage)
    BY <1>1 DEF Opened
  <2> QED BY <2>2, <2>3, <2>4, <2>5, FrameTrans
<1>2. CASE stage # "none"
  <2> DEFINE c == Min(FreeConns(w))
             b == NewConn(n, q, obj, stage)
             u == MemberToPending(w, q, obj)
  <2>1. v = SetConn(u, c, b)
    BY <1>2 DEF ConnectPeer, SetConn, NewConn
  <2>2. c \in FreeConns(w)
    BY <1>2, LeastConn DEF FreeConns, CanOpen
  <2>3. /\ DOMAIN b = CFields /\ b.from = n /\ b.to = q /\ b.active = "connecting"
        /\ b.passive = "none" /\ b.fromObj = obj /\ b.toObj = 0
    BY DEF NewConn, Free, CFields
  <2>4. /\ WInv(u, n, {}) /\ Frame(w, u, n, {}) /\ u.conns = w.conns
        /\ Touches(w.t, u.t, q)
    BY MemberToPendingInv
  <2> HIDE DEF b, c, u
  <2>5. c \in Conns /\ w.conns[c].active = "free"
    BY <2>2 DEF FreeConns
  <2>6. ConnOK(b)
    BY <2>3 DEF ConnOK, Others
  <2>7. OwnAt(u.t, b, c, n)
    <3>1. OwnAt(u.t, u.conns[c], c, n) /\ u.conns[c].active = "free"
      BY <2>4, <2>5 DEF WInv
    <3>2. ~ Bound(b, n)
      BY <2>3 DEF Bound
    <3> QED BY SMTT(30), <3>1, <3>2 DEF OwnAt
  <2>8. Foreign(u.conns[c], b, n)
    <3>1. ConnOK(u.conns[c]) /\ u.conns[c].active = "free"
      BY <2>4, <2>5 DEF WInv
    <3> QED BY <2>3, <3>1 DEF ConnOK, Foreign, Bound
  <2>9. /\ WInv(v, n, {}) /\ Frame(u, v, n, {}) /\ v.t = u.t
        /\ v.conns = [w.conns EXCEPT ![c] = b]
    BY <2>1, <2>4, <2>5, <2>6, <2>7, <2>8, SetConnInv
  <2>10. FreeConns(v) = FreeConns(w) \ {c}
    <3>1. DOMAIN w.conns = Conns
      BY DEF WInv
    <3> QED BY <2>3, <2>5, <2>9, <3>1 DEF FreeConns
  <2>11. Touches(w.t, v.t, q)
    BY <2>4, <2>9
  <2>12. Frame(w, v, n, {})
    BY <2>4, <2>9, FrameTrans
  <2>13. Opened(w, v, stage)
    BY <2>2, <2>10 DEF Opened
  <2> QED BY <2>9, <2>11, <2>12, <2>13
<1> QED BY <1>1, <1>2

(* The maintainer tries one or two members.                                *)
LEMMA ConnectAllInv ==
  ASSUME NEW n \in Nodes, NEW w, WInv(w, n, {}), NEW S, S \subseteq Members(w),
         NEW stage, stage # "none" => Cardinality(S) <= Cardinality(FreeConns(w)),
         NEW v, v = ConnectAll(w, n, S, stage)
  PROVE  WInv(v, n, {}) /\ Frame(w, v, n, {})
<1> DEFINE p == CHOOSE q \in S : TRUE
           q == CHOOSE x \in S \ {p} : TRUE
           u == ConnectPeer(w, n, p, w.t.members[p], stage)
<1>1. CASE S = {}
  BY <1>1, FrameSame DEF ConnectAll
<1>2. CASE S # {}
  <2>1. p \in S
    BY <1>2
  <2>2. v = IF S = {p} THEN u ELSE ConnectPeer(u, n, q, u.t.members[q], stage)
    BY <1>2 DEF ConnectAll
  <2>3. S # {p} => q \in S /\ q # p
    BY <1>2, <2>1
  <2> HIDE DEF p, q
  <2>4. /\ Disjoint(w.t, n) /\ IsFiniteSet(S) /\ IsFiniteSet(FreeConns(w))
        /\ S \subseteq Nodes
    <3>1. S \subseteq Nodes
      BY DEF Members
    <3>2. IsFiniteSet(Conns) /\ FreeConns(w) \subseteq Conns
      BY FS_Interval, Constants DEF Conns, FreeConns
    <3> QED BY <3>1, <3>2, Constants, FS_Subset DEF WInv
  <2>5. \A x \in S : x \in Others(n) /\ w.t.members[x] # 0 /\ w.t.neighbors[x] = 0
    BY <2>4 DEF Members, Disjoint, Others
  <2>6. CanOpen(w, stage)
    <3>1. Cardinality(S) \in Nat /\ Cardinality(S) # 0
      BY <1>2, <2>4, FS_CardinalityType, FS_EmptySet
    <3>2. Cardinality({}) = 0
      BY FS_EmptySet
    <3> QED BY <3>1, <3>2 DEF CanOpen
  <2>7. /\ WInv(u, n, {}) /\ Frame(w, u, n, {}) /\ Touches(w.t, u.t, p)
        /\ Opened(w, u, stage)
    <3>1. p \in Others(n) /\ w.t.members[p] # 0 /\ w.t.neighbors[p] = 0
      BY <2>1, <2>5
    <3> DEFINE o == w.t.members[p]
    <3>2. o # 0 /\ u = ConnectPeer(w, n, p, o, stage)
      BY <3>1
    <3> HIDE DEF o, u
    <3> QED BY <2>6, <3>1, <3>2, ConnectPeerInv
  <2> HIDE DEF u
  <2>8. CASE S = {p}
    BY <2>2, <2>7, <2>8
  <2>9. CASE S # {p}
    <3>1. q \in S /\ q # p /\ q \in Others(n) /\ q \in Nodes
      BY <2>3, <2>4, <2>5, <2>9
    <3>2. u.t.members[q] # 0 /\ u.t.neighbors[q] = 0
      BY <2>5, <2>7, <3>1 DEF Touches
    <3>3. ASSUME stage # "none" PROVE FreeConns(u) # {}
      <4>1. PICK c \in FreeConns(w) : FreeConns(u) = FreeConns(w) \ {c}
        BY <2>7, <3>3 DEF Opened
      <4>2. SUFFICES ASSUME FreeConns(w) = {c} PROVE FALSE
        BY <4>1
      <4>3. Cardinality(FreeConns(w)) = 1
        BY <4>2, FS_Singleton
      <4>4. {p, q} \subseteq S /\ Cardinality({p, q}) = 2
        <5>1. Cardinality({p}) = 1 /\ IsFiniteSet({p})
          BY Zenon, FS_Singleton
        <5>2. Cardinality({p} \cup {q}) = Cardinality({p}) + 1
          BY Zenon, <3>1, <5>1, FS_AddElement
        <5>3. {p} \cup {q} = {p, q}
          OBVIOUS
        <5> QED BY <2>1, <3>1, <5>1, <5>2, <5>3
      <4>5. Cardinality({p, q}) <= Cardinality(S) /\ Cardinality(S) \in Nat
        BY <2>4, <4>4, FS_Subset, FS_CardinalityType
      <4> QED BY <3>3, <4>3, <4>4, <4>5
    <3>4. v = ConnectPeer(u, n, q, u.t.members[q], stage)
      BY <2>2, <2>9
    <3>5. WInv(v, n, {}) /\ Frame(u, v, n, {})
      <4>1. WInv(u, n, {}) /\ q \in Others(n) /\ CanOpen(u, stage)
        BY <2>7, <3>1, <3>3 DEF CanOpen
      <4> DEFINE o == u.t.members[q]
      <4>2. o # 0 /\ v = ConnectPeer(u, n, q, o, stage) /\ u.t.neighbors[q] = 0
        BY SMTT(30), <3>2, <3>4
      <4> HIDE DEF o
      <4> QED BY <4>1, <4>2, ConnectPeerInv
    <3> QED BY <2>7, <3>5, FrameTrans
  <2> QED BY <2>8, <2>9
<1> QED BY <1>1, <1>2

-----------------------------------------------------------------------------
(* Messages, disconnection, timers                                         *)

\* b is a but for the messages on their way and whether the path is lost.
SameEnds(a, b) ==
  /\ DOMAIN b = DOMAIN a
  /\ b.from = a.from /\ b.to = a.to /\ b.active = a.active /\ b.passive = a.passive
  /\ b.fromObj = a.fromObj /\ b.toObj = a.toObj

(* Messages and lost paths are in no invariant.                            *)
LEMMA SameEndsStep ==
  ASSUME NEW n, NEW w, NEW v, NEW X, WInv(w, n, X),
         DOMAIN v = WFields, v.t = w.t, v.failed = w.failed, DOMAIN v.conns = Conns,
         \A c \in Conns : SameEnds(w.conns[c], v.conns[c])
  PROVE  WInv(v, n, X) /\ Frame(w, v, n, {})
<1>1. ASSUME NEW c \in Conns
      PROVE  /\ ConnOK(v.conns[c])
             /\ c \notin X => OwnAt(v.t, v.conns[c], c, n)
             /\ c \in X => NotYet(v.t, v.conns[c], c, n)
             /\ Foreign(w.conns[c], v.conns[c], n)
  <2> DEFINE a == w.conns[c]
             b == v.conns[c]
  <2>1. /\ ConnOK(a) /\ (c \notin X => OwnAt(w.t, a, c, n))
        /\ (c \in X => NotYet(w.t, a, c, n)) /\ SameEnds(a, b)
    BY SMTT(30) DEF WInv
  <2> HIDE DEF a, b
  <2>2. ConnOK(b) /\ Foreign(a, b, n)
    BY SMTT(30), <2>1 DEF ConnOK, SameEnds, Foreign, Bound, Settled, Far
  <2>3. c \notin X => OwnAt(v.t, b, c, n)
    BY <2>1 DEF OwnAt, SameEnds, Bound, Settled, Far
  <2>4. c \in X => NotYet(v.t, b, c, n)
    BY <2>1 DEF NotYet, SameEnds, HasEnd
  <2> QED BY <2>2, <2>3, <2>4 DEF a, b
<1>2. Frame(w, v, n, {})
  BY <1>1 DEF Frame
<1> QED BY SMTT(30), <1>1, <1>2 DEF WInv

(* A message is sent.                                                      *)
LEMMA SendOnInv ==
  ASSUME NEW n, NEW w, WInv(w, n, {}), NEW c \in Conns, NEW m,
         NEW v, v = SendOn(w, n, c, m)
  PROVE  WInv(v, n, {}) /\ Frame(w, v, n, {})
<1>1. DOMAIN w = WFields /\ DOMAIN w.conns = Conns /\ DOMAIN w.conns[c] = CFields
  BY SMTT(30) DEF WInv, ConnOK
<1>2. /\ DOMAIN v = WFields /\ v.t = w.t /\ v.failed = w.failed
      /\ DOMAIN v.conns = Conns /\ \A d \in Conns \ {c} : v.conns[d] = w.conns[d]
      /\ DOMAIN v.conns[c] = CFields
      /\ v.conns[c].from = w.conns[c].from /\ v.conns[c].to = w.conns[c].to
      /\ v.conns[c].active = w.conns[c].active /\ v.conns[c].passive = w.conns[c].passive
      /\ v.conns[c].fromObj = w.conns[c].fromObj /\ v.conns[c].toObj = w.conns[c].toObj
  BY SMTT(30), <1>1, SendOnConn
<1>3. \A d \in Conns : SameEnds(w.conns[d], v.conns[d])
  BY <1>1, <1>2 DEF SameEnds
<1> QED BY SMTT(30), <1>2, <1>3, SameEndsStep

(* Where a connected connection of n leads, and that it can be closed.     *)
LEMMA ConnectedEnd ==
  ASSUME NEW n \in Nodes, NEW w, NEW X, WInv(w, n, X), NEW c \in Conns,
         n \in {w.conns[c].from, w.conns[c].to}, IsConnected(w, n, c)
  PROVE  HasEnd(w.conns[c], n) /\ Peer(w, n, c) \in Others(n)
<1>1. ConnOK(w.conns[c])
  BY DEF WInv
<1> QED BY <1>1 DEF ConnOK, IsConnected, HasEnd, Peer, Others

(* on_disconnected, and the drop of a dead neighbor.                       *)
LEMMA CloseAndRemove ==
  ASSUME NEW n \in Nodes, NEW w, WInv(w, n, {}), NEW c \in Conns,
         HasEnd(w.conns[c], n), NEW q \in Others(n), NEW obj,
         NEW v, v = NeighborToMember(CloseConn(w, n, c), n, q, obj)
  PROVE  WInv(v, n, {}) /\ Frame(w, v, n, {})
<1> DEFINE u == CloseConn(w, n, c)
<1>1. WInv(u, n, {}) /\ Frame(w, u, n, {})
  BY CloseConnInv
<1>2. v = NeighborToMember(u, n, q, obj)
  OBVIOUS
<1> HIDE DEF u
<1>3. WInv(v, n, {}) /\ Frame(u, v, n, {})
  BY SMTT(30), <1>1, <1>2, NeighborToMemberInv
<1> QED BY <1>1, <1>3, FrameTrans

(* on_disconnected                                                         *)
LEMMA OnDisconnectedInv ==
  ASSUME NEW n \in Nodes, NEW w, WInv(w, n, {}), NEW c \in Conns,
         n \in {w.conns[c].from, w.conns[c].to}, IsConnected(w, n, c),
         NEW v, v = OnDisconnected(w, n, c)
  PROVE  WInv(v, n, {}) /\ Frame(w, v, n, {})
<1>1. HasEnd(w.conns[c], n) /\ Peer(w, n, c) \in Others(n)
  BY ConnectedEnd
<1>2. CASE v = CloseConn(w, n, c)
  BY <1>1, <1>2, CloseConnInv
<1>3. CASE v = NeighborToMember(CloseConn(w, n, c), n, Peer(w, n, c), ObjOf(w, n, c))
  BY <1>1, <1>3, CloseAndRemove
<1> QED BY <1>2, <1>3 DEF OnDisconnected

(* The dead neighbor that the maintainer found, if any, is dropped.        *)
LEMMA DropDeadInv ==
  ASSUME NEW n \in Nodes, NEW w, WInv(w, n, {}),
         NEW dead \in {0} \cup DeadNeighbors(w, n), NEW v, v = DropDead(w, n, dead)
  PROVE  WInv(v, n, {}) /\ Frame(w, v, n, {})
<1>1. CASE dead = 0
  BY SMTT(30), <1>1, FrameSame DEF DropDead
<1>2. CASE dead # 0
  <2>1. PICK q \in Nodes : w.t.neighbors[q] = dead
    BY Zenon, <1>2 DEF DeadNeighbors, Neighbors
  <2>2. dead \in Conns
    BY <1>2, <2>1 DEF WInv, TablesOK
  <2>3. ConnOK(w.conns[dead]) /\ OwnAt(w.t, w.conns[dead], dead, n)
    BY <2>2 DEF WInv
  <2>4. w.conns[dead].active # "free" /\ Settled(w.conns[dead], n)
    BY <2>1, <2>3 DEF OwnAt
  <2>5. HasEnd(w.conns[dead], n)
    BY SMTT(30), <2>3, <2>4, SettledEnd
  <2>6. Peer(w, n, dead) \in Others(n)
    BY <2>3, <2>4, <2>5 DEF ConnOK, HasEnd, Peer, Others
  <2>7. v = NeighborToMember(CloseConn(w, n, dead), n, Peer(w, n, dead), ObjOf(w, n, dead))
    BY <1>2 DEF DropDead
  <2> QED BY <2>2, <2>5, <2>6, <2>7, CloseAndRemove
<1> QED BY <1>1, <1>2

(* Unreachable peers are released; some become members.                    *)
LEMMA ReleaseInv ==
  ASSUME NEW n \in Nodes, NEW w, NEW X, WInv(w, n, X), NEW freed, NEW lucky,
         freed \subseteq Unreachable(w), lucky \subseteq freed,
         NEW v, v = Release(w, freed, lucky)
  PROVE  WInv(v, n, X) /\ Frame(w, v, n, X)
<1> DEFINE M == [q \in Nodes |-> IF q \in lucky THEN w.t.unreachable[q] ELSE w.t.members[q]]
           U == [q \in Nodes |-> IF q \in freed THEN 0 ELSE w.t.unreachable[q]]
<1>1. DOMAIN w = WFields
  BY DEF WInv
<1>2. TablesOK(w.t, n) /\ w.failed \subseteq {1111}
  BY DEF WInv
<1>a. Disjoint(w.t, n)
  BY DEF WInv
<1>0. v = [w EXCEPT !.t.members = M, !.t.unreachable = U]
  BY DEF Release
<1>b. /\ DOMAIN M = Nodes /\ DOMAIN U = Nodes
      /\ \A q \in Nodes : /\ M[q] = IF q \in lucky THEN w.t.unreachable[q] ELSE w.t.members[q]
                          /\ U[q] = IF q \in freed THEN 0 ELSE w.t.unreachable[q]
  OBVIOUS
<1> HIDE DEF M, U
<1>3. DOMAIN v = WFields /\ v.conns = w.conns /\ v.failed \subseteq {1111}
  BY ONLY <1>0, <1>1, <1>2 DEF WFields
<1>4. v.t = [w.t EXCEPT !.members = M, !.unreachable = U]
  BY ONLY <1>0, <1>1 DEF WFields
<1>5. /\ DOMAIN v.t = TFields /\ v.t.neighbors = w.t.neighbors
      /\ v.t.closing = w.t.closing /\ v.t.unreachable = U /\ v.t.members = M
      /\ v.t.pending = w.t.pending
      /\ v.t.peers = w.t.peers /\ v.t.made = w.t.made /\ v.t.posts = w.t.posts
  BY ONLY <1>2, <1>4 DEF TablesOK, TFields
<1>6. TablesOK(v.t, n)
  BY ONLY <1>2, <1>5, <1>b DEF TablesOK
<1>7. \A q \in lucky : q \in freed /\ q \in Nodes /\ w.t.unreachable[q] # 0
  BY SMTT(30) DEF Unreachable
<1>8. Disjoint(v.t, n)
  BY <1>a, <1>b, <1>5, <1>7 DEF Disjoint
<1>9. v.t.neighbors = w.t.neighbors /\ v.t.closing = w.t.closing
  BY <1>5
<1> QED BY <1>3, <1>6, <1>8, <1>9, TableStep

=============================================================================
