--------------------------- MODULE UrdpFlowProofs ---------------------------
(***************************************************************************)
(* That the sender's books of a URDP flow are always in order, proved for  *)
(* every number space M, all initial sequence numbers, all bounds on       *)
(* messages, pings, buffers and retries, and all calls of the              *)
(* applications: Spec => []SenderBookkeeping.                              *)
(*                                                                         *)
(* The module follows the code: one lemma per method of urdp_flow says     *)
(* that the method keeps the invariant of the flow it is called on;        *)
(* NextInv puts them together, action by action.                           *)
(***************************************************************************)
EXTENDS UrdpFlow, SequenceTheorems, WellFoundedInduction, TLAPS

(***************************************************************************)
(* Modular arithmetic.                                                     *)
(***************************************************************************)
\* An unsigned sum stays in the type.
LEMMA UAddWord ==
  ASSUME NEW a \in Word, NEW b \in 0 .. M
  PROVE  UAdd(a, b) \in Word
  BY MAssumption DEF Word, UAdd

\* Two advances are one, as long as they do not go round the number space.
LEMMA UAddTwice ==
  ASSUME NEW a \in Word, NEW b \in Nat, NEW c \in Nat, b + c < M
  PROVE  UAdd(UAdd(a, b), c) = UAdd(a, b + c)
  BY MAssumption DEF Word, UAdd

\* Different advances lead to different numbers.
LEMMA UAddInjective ==
  ASSUME NEW a \in Word, NEW b \in Nat, NEW c \in Nat, b < M, c < M, UAdd(a, b) = UAdd(a, c)
  PROVE  b = c
  BY MAssumption DEF Word, UAdd

\* The arithmetic behind the test of a new acknowledgement: a number that
\* wrappable_cmp puts after una and not after una + len is una plus something
\* between 1 and len, although the sums may have wrapped.
LEMMA NewAckCount ==
  ASSUME NEW una \in Word, NEW len \in Nat, 2 * len < M, NEW ack \in Word,
         ModLess(una, ack), ModLessEqual(ack, UAdd(una, len))
  PROVE  /\ ModMinus(ack, una) \in 1 .. len
         /\ ack = UAdd(una, ModMinus(ack, una))
  BY MAssumption DEF Word, UAdd, USub, ModMinus, ModLess, ModLessEqual

\* The last number of the window is a new acknowledgement, unless the window is empty.
LEMMA AllAcked ==
  ASSUME NEW una \in Word, NEW len \in Nat, 2 * len < M, len > 0
  PROVE  /\ ModLess(una, UAdd(una, len))
         /\ ModLessEqual(UAdd(una, len), UAdd(una, len))
         /\ ModMinus(UAdd(una, len), una) = len
  BY MAssumption DEF Word, UAdd, USub, ModMinus, ModLess, ModLessEqual

\* Every nonempty set of naturals has a least member.
LEMMA LeastMember ==
  ASSUME NEW S, S \subseteq Nat, S # {}
  PROVE  \E m \in S : \A n \in S : m <= n
  <1> DEFINE R == OpToRel(<, Nat)
  <1>1. \E m \in S : \A n \in S : ~ (<<n, m>> \in R)
    BY WFMin, NatLessThanWellFounded
  <1>2. \A m, n \in Nat : ~ (<<n, m>> \in R) => m <= n
    BY DEF OpToRel
  <1> QED BY <1>1, <1>2

\* The loop that moves m_rcv_nxt over the segments that follow it stops somewhere.
LEMMA EndOfRunWord ==
  ASSUME NEW n \in Word, NEW seqs
  PROVE  EndOfRun(n, seqs) \in Word
  <1> DEFINE S == {k \in 0 .. M : k = M \/ UAdd(n, k) \notin seqs}
             Last(k) == /\ k = M \/ UAdd(n, k) \notin seqs
                        /\ \A j \in 0 .. k - 1 : UAdd(n, j) \in seqs
  <1>1. M \in S /\ S \subseteq Nat
    BY MAssumption
  <1>2. PICK m \in S : \A k \in S : m <= k
    BY <1>1, LeastMember
  <1>3. m \in 0 .. M /\ Last(m)
    BY <1>2, MAssumption
  <1>4. (CHOOSE k \in 0 .. M : Last(k)) \in 0 .. M
    BY <1>3
  <1> QED BY <1>4, UAddWord DEF EndOfRun

(***************************************************************************)
(* The inductive invariant.  SenderBookkeeping alone is not inductive: that *)
(* an acknowledgement removes exactly the segments it acknowledges needs    *)
(* the list to be shorter than half the number space, which follows from    *)
(* the counts of what was queued; and that a closing flow keeps its timer   *)
(* needs its operations to be canceled.                                     *)
(***************************************************************************)
Fields == {"state", "shutdown", "close_called", "canceled", "socket", "remote_peer",
           "ignore_all", "t_close_base", "t_rto_base", "t_ack", "snd_una", "snd_nxt",
           "slen", "slist", "retrans", "snd_wnd", "dup_acks", "recover", "rcv_nxt",
           "rcv_wnd", "rlen", "rlist", "detect_readable", "detect_writable",
           "keep_recving", "recv_posted", "write_posted", "sent", "pings", "delivered",
           "connected", "refused", "disconnected", "accepted", "asserts", "out"}

PacketOK(p) ==
  p.ctrl \in Controls /\ p.seq \in Word /\ p.ack \in Word /\ p.len \in {0, 1}

\* What e has put behind m_snd_una: one handshake segment, its messages, its pings.
Numbered(f) ==
  f.sent + f.pings + (IF f.state \in {"INIT", "LISTEN"} THEN 0 ELSE 1)

FlowType(e, f) ==
  /\ DOMAIN f = Fields
  /\ f.snd_una \in Word /\ f.snd_nxt \in Word /\ f.rcv_nxt \in Word
  /\ f.sent \in 0 .. MaxMsgs[e] /\ f.pings \in 0 .. MaxPings[e]
  /\ f.retrans \in Seq(SSegments)
  /\ f.t_rto_base \in BOOLEAN /\ f.t_close_base \in BOOLEAN
  /\ \A p \in f.out : PacketOK(p)

\* Something is unacknowledged.
Unacked(f) == f.retrans # <<>>

\* The unacknowledged segments.
Window(f) ==
  /\ f.slen = Len(f.retrans)
  /\ f.snd_nxt = UAdd(f.snd_una, Len(f.retrans))
  /\ Len(f.retrans) <= Numbered(f)
  /\ \A i \in 1 .. Len(f.retrans) :
       f.retrans[i].seq = UAdd(f.snd_una, i - 1) /\ f.retrans[i].xmit > 0

\* Inside a handler a closing flow may have nothing left to wait for.
Handling(e, f) ==
  /\ FlowType(e, f)
  /\ f.slist = <<>>
  /\ f.t_rto_base <=> f.retrans # <<>>
  /\ f.state # "CLOSED" => Window(f)
  /\ f.state = "WATING_FIN_ACK" => f.t_close_base /\ f.retrans = <<>>
  /\ f.state \in {"CLOSING", "WATING_FIN_ACK"} => f.canceled

FlowInv(e, f) == Handling(e, f) /\ (f.state = "CLOSING" => f.retrans # <<>>)

Inv ==
  /\ DOMAIN flow = Ends /\ DOMAIN net = Ends
  /\ \A e \in Ends : FlowInv(e, flow[e]) /\ (\A p \in net[e] : PacketOK(p))

\* The fields the invariant is about.
SameSender(f, g) ==
  /\ DOMAIN g = DOMAIN f
  /\ g.state = f.state /\ g.canceled = f.canceled
  /\ g.t_close_base = f.t_close_base /\ g.t_rto_base = f.t_rto_base
  /\ g.snd_una = f.snd_una /\ g.snd_nxt = f.snd_nxt /\ g.slen = f.slen
  /\ g.slist = f.slist /\ g.retrans = f.retrans
  /\ g.sent = f.sent /\ g.pings = f.pings

\* A step that leaves them alone, and sends well-formed datagrams, keeps it.
LEMMA SameSenderInv ==
  ASSUME NEW e \in Ends, NEW f, NEW g, SameSender(f, g), g.rcv_nxt \in Word,
         \A p \in g.out : PacketOK(p)
  PROVE  /\ Handling(e, f) => Handling(e, g)
         /\ FlowInv(e, f) => FlowInv(e, g)
  BY DEF SameSender, FlowInv, Handling, FlowType, Window, Numbered

\* The packet types the flow sends are packet types.
LEMMA ControlNames ==
  {"CONNECT", "CONNECT_ACK", "DATA", "ACK", "RST", "FIN", "FIN_ACK"} \subseteq Controls
  BY DEF Controls

\* __packet_as_reliable_and_sendout only sends: the books stay as they are.
LEMMA SendoutInv ==
  ASSUME NEW e \in Ends, NEW f, Handling(e, f), NEW seq \in Word, NEW ctrl \in Controls,
         NEW len \in {0, 1}, NEW msg, NEW g, g = Sendout(f, seq, ctrl, len, msg)
  PROVE  Handling(e, g) /\ SameSender(f, g) /\ (FlowInv(e, f) => FlowInv(e, g))
  <1>1. DOMAIN f = Fields /\ f.rcv_nxt \in Word /\ \A p \in f.out : PacketOK(p)
    BY DEF Handling, FlowType
  <1>2. SameSender(f, g) /\ g.rcv_nxt = f.rcv_nxt /\ \A p \in g.out : PacketOK(p)
    BY <1>1 DEF Sendout, SameSender, PacketOK, Fields
  <1> QED BY <1>1, <1>2, SameSenderInv

\* Retransmission changes nothing but the count of transmissions.
LEMMA RetransmitInv ==
  ASSUME NEW e \in Ends, NEW f, Handling(e, f), Unacked(f), f.state # "CLOSED",
         NEW g, g = Retransmit(f)
  PROVE  /\ Handling(e, g) /\ (FlowInv(e, f) => FlowInv(e, g))
         /\ g.state = f.state /\ g.canceled = f.canceled
         /\ g.snd_una = f.snd_una /\ g.snd_nxt = f.snd_nxt
         /\ Len(g.retrans) = Len(f.retrans)
  <1> DEFINE seg == f.retrans[1]
             h == Sendout(f, seg.seq, seg.ctrl, 1, seg.msg)
  <1>0. f.retrans \in Seq(SSegments) /\ Len(f.retrans) \in Nat \ {0} /\ Window(f)
    BY EmptySeq DEF Handling, FlowType, Unacked
  <1>1. seg \in SSegments
    BY <1>0, ElementOfSeq
  <1>2. seg.seq \in Word /\ seg.ctrl \in Controls
    BY <1>1 DEF SSegments
  <1>h. Handling(e, h) /\ SameSender(f, h) /\ (FlowInv(e, f) => FlowInv(e, h))
    BY <1>2, SendoutInv
  <1> DEFINE cap == IF ConnXmitLimit > XmitLimit THEN ConnXmitLimit ELSE XmitLimit
             x == IF h.retrans[1].xmit < cap THEN h.retrans[1].xmit + 1 ELSE h.retrans[1].xmit
             r == [h.retrans EXCEPT ![1] = [h.retrans[1] EXCEPT !.xmit = x]]
  <1>g. g = [h EXCEPT !.retrans = r, !.t_rto_base = TRUE]
    BY DEF Retransmit
  <1> HIDE DEF h
  <1>3. h.retrans = f.retrans /\ h.state = f.state /\ DOMAIN h = Fields
    BY <1>h DEF SameSender, Handling, FlowType
  <1>4. x \in Nat /\ x > 0
    <2>1. seg.xmit \in Nat /\ seg.xmit > 0
      BY <1>0, <1>1 DEF Window, SSegments
    <2>2. cap \in Nat
      BY FlowAssumption
    <2> QED BY <2>1, <2>2, <1>3
  <1> HIDE DEF x
  <1>5. [h.retrans[1] EXCEPT !.xmit = x] \in SSegments
    BY <1>1, <1>3, <1>4 DEF SSegments
  <1>6. /\ r \in Seq(SSegments) /\ Len(r) = Len(f.retrans) /\ r # <<>>
        /\ \A i \in 1 .. Len(r) : r[i].seq = f.retrans[i].seq /\ r[i].xmit > 0
    <2>1. r \in Seq(SSegments) /\ Len(r) = Len(f.retrans)
          /\ \A j \in 1 .. Len(f.retrans) :
               r[j] = IF j = 1 THEN [h.retrans[1] EXCEPT !.xmit = x] ELSE f.retrans[j]
      BY <1>0, <1>3, <1>5, ExceptSeq
    <2>2. [h.retrans[1] EXCEPT !.xmit = x].xmit = x /\ [h.retrans[1] EXCEPT !.xmit = x].seq = seg.seq
      BY <1>1, <1>3 DEF SSegments
    <2>3. r # <<>>
      BY <2>1, <1>0, EmptySeq
    <2> HIDE DEF r
    <2> QED BY <2>1, <2>2, <2>3, <1>0, <1>4 DEF Window
  <1> HIDE DEF r
  <1>7. /\ g.state = h.state /\ g.canceled = h.canceled /\ g.t_close_base = h.t_close_base
        /\ g.snd_una = h.snd_una /\ g.snd_nxt = h.snd_nxt /\ g.slen = h.slen
        /\ g.slist = h.slist /\ g.retrans = r /\ g.t_rto_base = TRUE
        /\ g.sent = h.sent /\ g.pings = h.pings /\ g.rcv_nxt = h.rcv_nxt
        /\ g.out = h.out /\ DOMAIN g = Fields
    BY <1>g, <1>3 DEF Fields
  <1>8. Handling(e, g)
    <2>1. FlowType(e, g)
      BY <1>h, <1>6, <1>7 DEF Handling, FlowType
    <2>2. Window(h) /\ Window(g)
      BY <1>h, <1>3, <1>6, <1>7 DEF Handling, Window, Numbered
    <2> QED BY <1>h, <1>3, <1>6, <1>7, <2>1, <2>2 DEF Handling, Unacked
  <1> QED BY <1>h, <1>3, <1>6, <1>7, <1>8 DEF FlowInv, SameSender, Unacked

\* With nothing queued, __attempt_send at most sends an acknowledgement.
LEMMA AttemptSendInv ==
  ASSUME NEW e \in Ends, NEW f, Handling(e, f), NEW sflags, NEW soon,
         NEW g, g = AttemptSend(f, sflags, soon)
  PROVE  Handling(e, g) /\ SameSender(f, g) /\ (FlowInv(e, f) => FlowInv(e, g))
  <1>1. f.slist = <<>> /\ DOMAIN f = Fields /\ f.snd_nxt \in Word /\ f.rcv_nxt \in Word
        /\ \A p \in f.out : PacketOK(p)
    BY DEF Handling, FlowType
  <1>2. CASE g = Sendout(f, f.snd_nxt, "ACK", 0, 0)
    BY <1>1, <1>2, ControlNames, SendoutInv
  <1>3. CASE g = [f EXCEPT !.t_ack = TRUE]
    <2>1. SameSender(f, g) /\ g.rcv_nxt = f.rcv_nxt /\ g.out = f.out
      BY <1>1, <1>3 DEF SameSender, Fields
    <2> QED BY <1>1, <2>1, SameSenderInv
  <1>4. CASE g = f
    BY <1>4 DEF SameSender
  <1> QED BY <1>1, <1>2, <1>3, <1>4 DEF AttemptSend

\* g is f with one more segment behind everything else.
Pushed(f, g) ==
  /\ DOMAIN g = Fields
  /\ g.state = f.state /\ g.canceled = f.canceled
  /\ g.t_close_base = f.t_close_base /\ g.rcv_nxt = f.rcv_nxt
  /\ g.sent = f.sent /\ g.pings = f.pings /\ g.snd_una = f.snd_una
  /\ g.slist = <<>> /\ g.t_rto_base = TRUE
  /\ g.retrans \in Seq(SSegments) /\ Len(g.retrans) = Len(f.retrans) + 1
  /\ g.slen = Len(g.retrans)
  /\ g.snd_nxt = UAdd(f.snd_una, Len(g.retrans))
  /\ \A i \in 1 .. Len(g.retrans) :
       g.retrans[i].seq = UAdd(g.snd_una, i - 1) /\ g.retrans[i].xmit > 0
  /\ \A p \in g.out : PacketOK(p)

\* __queue and __attempt_send: the new segment is numbered m_snd_nxt and goes out.
LEMMA QueueAndSend ==
  ASSUME NEW e \in Ends, NEW f, FlowType(e, f), f.slist = <<>>, Window(f),
         2 * (Len(f.retrans) + 1) < M, NEW ctrl \in Controls, NEW msg \in Nat,
         NEW sflags, NEW soon, NEW g, g = AttemptSend(Queue(f, ctrl, msg), sflags, soon)
  PROVE  Pushed(f, g)
  <1> DEFINE len == Len(f.retrans)
             seg == [seq |-> UAdd(f.snd_una, f.slen), ctrl |-> ctrl, msg |-> msg, xmit |-> 0]
             q == [f EXCEPT !.slist = Append(@, seg), !.slen = @ + 1]
             segs == [i \in 1 .. Len(q.slist) |-> [q.slist[i] EXCEPT !.xmit = 1]]
  <1>1. len \in Nat /\ f.slen = len /\ DOMAIN f = Fields
        /\ f.snd_una \in Word /\ f.rcv_nxt \in Word /\ \A p \in f.out : PacketOK(p)
    BY LenProperties DEF FlowType, Window
  <1>a. len \in 0 .. M /\ len + 1 < M
    BY <1>1, MAssumption
  <1>2. f.snd_nxt = UAdd(f.snd_una, len) /\ UAdd(f.snd_una, len) \in Word
    BY <1>1, <1>a, UAddWord DEF Window
  <1>3. seg \in SSegments
    BY <1>1, <1>2 DEF SSegments
  <1>4. q = Queue(f, ctrl, msg)
    BY DEF Queue
  <1>5. q.slist = <<seg>>
    <2>1. q.slist = Append(f.slist, seg)
      BY <1>1 DEF Fields
    <2> HIDE DEF q, seg
    <2> QED BY <2>1
  <1>6. /\ DOMAIN q = Fields /\ q.slen = len + 1 /\ q.retrans = f.retrans
        /\ q.state = f.state /\ q.canceled = f.canceled /\ q.t_close_base = f.t_close_base
        /\ q.rcv_nxt = f.rcv_nxt /\ q.sent = f.sent /\ q.pings = f.pings
        /\ q.snd_una = f.snd_una /\ q.snd_nxt = f.snd_nxt /\ q.out = f.out
    BY <1>1 DEF Fields
  <1> DEFINE new == [seg EXCEPT !.xmit = 1]
  <1>7. new \in SSegments /\ new.seq = UAdd(f.snd_una, len) /\ new.xmit = 1
    BY <1>1, <1>3 DEF SSegments
  <1>8. Len(q.slist) = 1 /\ q.slist[1] = seg /\ q.slist # <<>> /\ segs = <<new>>
    <2> HIDE DEF q, seg
    <2> QED BY <1>5
  <1> DEFINE sentNow == {[ctrl |-> q.slist[i].ctrl, seq |-> q.slist[i].seq,
                          ack |-> q.rcv_nxt, wnd |-> q.rcv_wnd # 0,
                          len |-> 1, msg |-> q.slist[i].msg] :
                            i \in {j \in 1 .. Len(q.slist) :
                                     q.slist[j].ctrl = "CONNECT" \/ q.remote_peer}}
  <1>9. \A p \in sentNow : PacketOK(p)
    <2> SUFFICES ASSUME NEW i \in 1 .. Len(q.slist)
                 PROVE  PacketOK([ctrl |-> q.slist[i].ctrl, seq |-> q.slist[i].seq,
                          ack |-> q.rcv_nxt, wnd |-> q.rcv_wnd # 0,
                          len |-> 1, msg |-> q.slist[i].msg])
      OBVIOUS
    <2>1. q.slist[i] = seg
      BY <1>8
    <2>2. seg.seq \in Word /\ seg.ctrl \in Controls
      BY <1>3 DEF SSegments
    <2> HIDE DEF q, seg
    <2> QED BY <2>1, <2>2, <1>1, <1>6 DEF PacketOK
  <1>10. g = [q EXCEPT !.out = @ \cup sentNow, !.t_ack = FALSE,
                       !.snd_nxt = UAdd(@, Len(q.slist)), !.retrans = @ \o segs,
                       !.slist = <<>>, !.t_rto_base = TRUE]
    <2>1. g = AttemptSend(q, sflags, soon) /\ q.slist # <<>>
      BY <1>4, <1>8
    <2> HIDE DEF q
    <2> QED BY <2>1 DEF AttemptSend
  <1> HIDE DEF q, seg, segs, new, sentNow
  <1>11. /\ DOMAIN g = Fields
         /\ g.state = f.state /\ g.canceled = f.canceled
         /\ g.t_close_base = f.t_close_base /\ g.rcv_nxt = f.rcv_nxt
         /\ g.sent = f.sent /\ g.pings = f.pings /\ g.snd_una = f.snd_una
         /\ g.slist = <<>> /\ g.t_rto_base = TRUE
         /\ g.retrans = f.retrans \o segs /\ g.slen = len + 1
         /\ g.snd_nxt = UAdd(f.snd_nxt, Len(q.slist))
         /\ g.out = f.out \cup sentNow
    BY <1>6, <1>10 DEF Fields
  <1>12. /\ g.retrans \in Seq(SSegments) /\ Len(g.retrans) = len + 1
         /\ \A i \in 1 .. len : g.retrans[i] = f.retrans[i]
         /\ g.retrans[len + 1] = new
    <2>1. f.retrans \in Seq(SSegments) /\ <<new>> \in Seq(SSegments) /\ Len(<<new>>) = 1
      BY <1>7 DEF FlowType
    <2> QED BY <2>1, <1>1, <1>8, <1>11, ConcatProperties
  <1>13. \A i \in 1 .. Len(g.retrans) :
           g.retrans[i].seq = UAdd(g.snd_una, i - 1) /\ g.retrans[i].xmit > 0
    BY <1>1, <1>7, <1>11, <1>12 DEF Window
  <1>14. g.snd_nxt = UAdd(f.snd_una, Len(g.retrans))
    <2>1. g.snd_nxt = UAdd(UAdd(f.snd_una, len), 1)
      BY <1>2, <1>8, <1>11
    <2>2. UAdd(UAdd(f.snd_una, len), 1) = UAdd(f.snd_una, len + 1)
      BY <1>1, <1>a, UAddTwice
    <2> QED BY <2>1, <2>2, <1>12
  <1> QED BY <1>1, <1>9, <1>11, <1>12, <1>13, <1>14 DEF Pushed

(***************************************************************************)
(* Closing and telling the application.                                    *)
(***************************************************************************)
\* __to_closed_state empties both lists and stops the timer.
LEMMA ToClosedInv ==
  ASSUME NEW e \in Ends, NEW f, Handling(e, f), NEW g, g = ToClosedState(f)
  PROVE  FlowInv(e, g)
  <1>1. FlowType(e, f) /\ DOMAIN f = Fields
    BY DEF Handling, FlowType
  <1>2. CASE f.state = "CLOSED"
    <2>1. /\ DOMAIN g = Fields /\ g.state = "CLOSED" /\ g.slist = f.slist
          /\ g.retrans = f.retrans /\ g.t_rto_base = f.t_rto_base
          /\ g.t_close_base = f.t_close_base /\ g.snd_una = f.snd_una
          /\ g.snd_nxt = f.snd_nxt /\ g.rcv_nxt = f.rcv_nxt /\ g.sent = f.sent
          /\ g.pings = f.pings /\ g.out = f.out
      BY <1>1, <1>2 DEF ToClosedState, Fields
    <2>2. FlowType(e, g)
      BY <1>1, <2>1 DEF FlowType
    <2> QED BY <2>1, <2>2 DEF FlowInv, Handling
  <1>3. CASE f.state # "CLOSED"
    <2>1. /\ DOMAIN g = Fields /\ g.state = "CLOSED" /\ g.slist = <<>>
          /\ g.retrans = <<>> /\ g.t_rto_base = FALSE
          /\ g.t_close_base = f.t_close_base /\ g.snd_una = f.snd_una
          /\ g.snd_nxt = f.snd_nxt /\ g.rcv_nxt = f.rcv_nxt /\ g.sent = f.sent
          /\ g.pings = f.pings /\ g.out = f.out
      BY <1>1, <1>3 DEF ToClosedState, Fields
    <2>2. FlowType(e, g)
      BY <1>1, <2>1, EmptySeq DEF FlowType
    <2> QED BY <2>1, <2>2 DEF FlowInv, Handling
  <1> QED BY <1>2, <1>3

\* The FIN is sent when nothing is unacknowledged, by a flow that was canceled.
LEMMA SendFinInv ==
  ASSUME NEW e \in Ends, NEW f, Handling(e, f), f.state \notin {"CLOSED", "INIT", "LISTEN"},
         ~ Unacked(f), f.canceled, NEW g, g = SendFin(f)
  PROVE  FlowInv(e, g)
  <1> DEFINE h == [f EXCEPT !.state = "WATING_FIN_ACK", !.t_close_base = TRUE]
  <1>1. FlowType(e, f) /\ DOMAIN f = Fields /\ Window(f)
    BY DEF Handling, FlowType
  <1>2. /\ DOMAIN h = Fields /\ h.state = "WATING_FIN_ACK" /\ h.slist = f.slist
        /\ h.retrans = f.retrans /\ h.t_rto_base = f.t_rto_base
        /\ h.t_close_base = TRUE /\ h.snd_una = f.snd_una /\ h.canceled = f.canceled
        /\ h.snd_nxt = f.snd_nxt /\ h.rcv_nxt = f.rcv_nxt /\ h.sent = f.sent
        /\ h.pings = f.pings /\ h.out = f.out /\ h.slen = f.slen
    BY <1>1 DEF Fields
  <1>3. g = Sendout(h, f.snd_nxt, "FIN", 0, 0)
    BY DEF SendFin
  <1> HIDE DEF h
  <1>4. FlowType(e, h)
    BY <1>1, <1>2 DEF FlowType
  <1>5. Window(h)
    BY <1>1, <1>2 DEF Window, Numbered
  <1>6. FlowInv(e, h)
    BY <1>2, <1>4, <1>5 DEF FlowInv, Handling, Unacked
  <1>7. Handling(e, h) /\ f.snd_nxt \in Word /\ 0 \in {0, 1}
    BY <1>1, <1>6 DEF FlowInv, FlowType
  <1> QED BY <1>3, <1>6, <1>7, ControlNames, SendoutInv

\* __close: with a reset, with a FIN at once, or waiting for what is unacknowledged.
LEMMA CloseFlowInv ==
  ASSUME NEW e \in Ends, NEW f, FlowInv(e, f), NEW graceful \in BOOLEAN,
         NEW g, g = CloseFlow(f, graceful)
  PROVE  FlowInv(e, g)
  <1> DEFINE forceful == ~ graceful \/ f.state \in Unconnected
             h == [f EXCEPT !.canceled = TRUE, !.socket = FALSE, !.close_called = TRUE,
                            !.shutdown = IF forceful THEN "SD_FORCEFUL" ELSE "SD_GRACEFUL"]
             s == Sendout(h, h.snd_nxt, "RST", 0, 0)
             c == [h EXCEPT !.state = "CLOSING"]
  <1>1. Handling(e, f) /\ FlowType(e, f) /\ DOMAIN f = Fields
    BY DEF FlowInv, Handling, FlowType
  <1>2. CASE f.state = "CLOSED"
    BY <1>1, <1>2, ToClosedInv DEF CloseFlow
  <1>3. CASE f.state # "CLOSED" /\ f.close_called
    BY <1>3 DEF CloseFlow
  <1>4. CASE f.state # "CLOSED" /\ ~ f.close_called
    <2>1. g = IF forceful THEN ToClosedState(s)
              ELSE IF h.retrans = <<>> /\ h.slist = <<>> THEN SendFin(h) ELSE c
      BY <1>4 DEF CloseFlow
    <2>2. /\ DOMAIN h = Fields /\ h.state = f.state /\ h.slist = f.slist
          /\ h.retrans = f.retrans /\ h.t_rto_base = f.t_rto_base
          /\ h.t_close_base = f.t_close_base /\ h.snd_una = f.snd_una /\ h.canceled = TRUE
          /\ h.snd_nxt = f.snd_nxt /\ h.rcv_nxt = f.rcv_nxt /\ h.sent = f.sent
          /\ h.pings = f.pings /\ h.out = f.out /\ h.slen = f.slen
      BY <1>1 DEF Fields
    <2> HIDE DEF h
    <2>3. FlowType(e, h)
      BY <1>1, <2>2 DEF FlowType
    <2>4. Window(h)
      BY <1>1, <1>4, <2>2 DEF Handling, Window, Numbered
    <2>5. FlowInv(e, h) /\ Handling(e, h)
      BY <1>1, <2>2, <2>3, <2>4 DEF FlowInv, Handling
    <2>6. CASE forceful
      <3>1. h.snd_nxt \in Word /\ 0 \in {0, 1}
        BY <2>3 DEF FlowType
      <3>2. Handling(e, s)
        BY <2>5, <3>1, ControlNames, SendoutInv
      <3> QED BY <2>1, <2>6, <3>2, ToClosedInv
    <2>7. CASE ~ forceful /\ h.retrans = <<>>
      <3>1. g = SendFin(h)
        BY <2>1, <2>5, <2>7 DEF Handling
      <3>2. h.state \notin {"CLOSED", "INIT", "LISTEN"} /\ ~ Unacked(h) /\ h.canceled
        BY <1>4, <2>2, <2>7 DEF Unconnected, Unacked
      <3> QED BY <2>5, <3>1, <3>2, SendFinInv
    <2>8. CASE ~ forceful /\ h.retrans # <<>>
      <3>1. g = c
        BY <2>1, <2>8
      <3>2. /\ DOMAIN c = Fields /\ c.state = "CLOSING" /\ c.slist = h.slist
            /\ c.retrans = h.retrans /\ c.t_rto_base = h.t_rto_base
            /\ c.t_close_base = h.t_close_base /\ c.snd_una = h.snd_una /\ c.canceled = TRUE
            /\ c.snd_nxt = h.snd_nxt /\ c.rcv_nxt = h.rcv_nxt /\ c.sent = h.sent
            /\ c.pings = h.pings /\ c.out = h.out /\ c.slen = h.slen
        BY <2>2 DEF Fields
      <3> HIDE DEF c
      <3>3. FlowType(e, c)
        BY <2>3, <3>2 DEF FlowType
      <3>4. h.state \notin {"INIT", "LISTEN"}
        BY <2>2, <2>8 DEF Unconnected
      <3>5. Window(c)
        BY <2>4, <3>2, <3>4 DEF Window, Numbered
      <3> QED BY <2>5, <2>8, <3>1, <3>2, <3>3, <3>5 DEF FlowInv, Handling
    <2> QED BY <2>6, <2>7, <2>8
  <1> QED BY <1>2, <1>3, <1>4

SameFlow(f, g) == SameSender(f, g) /\ g.rcv_nxt = f.rcv_nxt /\ g.out = f.out

\* A step that changes neither the books nor what is sent keeps the invariant.
LEMMA SameFlowInv ==
  ASSUME NEW e \in Ends, NEW f, NEW g, SameFlow(f, g)
  PROVE  /\ Handling(e, f) => Handling(e, g)
         /\ FlowInv(e, f) => FlowInv(e, g)
  <1>1. Handling(e, f) => g.rcv_nxt \in Word /\ \A p \in g.out : PacketOK(p)
    BY DEF SameFlow, Handling, FlowType
  <1>2. FlowInv(e, f) => Handling(e, f)
    BY DEF FlowInv
  <1> QED BY <1>1, <1>2, SameSenderInv DEF SameFlow

\* keep_async_receiving only posts a receive.
LEMMA KeepReceivingInv ==
  ASSUME NEW e \in Ends, NEW f, FlowInv(e, f), NEW g, g = KeepReceiving(f)
  PROVE  FlowInv(e, g) /\ SameFlow(f, g)
  <1>1. DOMAIN f = Fields
    BY DEF FlowInv, Handling, FlowType
  <1>2. SameFlow(f, g)
    BY <1>1 DEF KeepReceiving, SameFlow, SameSender, Fields
  <1> QED BY <1>2, SameFlowInv

\* The connection timer stops only while the flow is not waiting for a FIN_ACK.
LEMMA StopCloseTimer ==
  ASSUME NEW e \in Ends, NEW f, FlowInv(e, f), f.state # "WATING_FIN_ACK",
         NEW g, g = [f EXCEPT !.t_close_base = FALSE]
  PROVE  FlowInv(e, g)
  <1>1. FlowType(e, f) /\ DOMAIN f = Fields
    BY DEF FlowInv, Handling, FlowType
  <1>2. /\ DOMAIN g = Fields /\ g.state = f.state /\ g.slist = f.slist
        /\ g.retrans = f.retrans /\ g.t_rto_base = f.t_rto_base
        /\ g.t_close_base = FALSE /\ g.snd_una = f.snd_una /\ g.canceled = f.canceled
        /\ g.snd_nxt = f.snd_nxt /\ g.rcv_nxt = f.rcv_nxt /\ g.sent = f.sent
        /\ g.pings = f.pings /\ g.out = f.out /\ g.slen = f.slen
    BY <1>1 DEF Fields
  <1>3. FlowType(e, g)
    BY <1>1, <1>2 DEF FlowType
  <1>4. Window(f) => Window(g)
    BY <1>2 DEF Window, Numbered
  <1> QED BY <1>2, <1>3, <1>4 DEF FlowInv, Handling

\* __allert_connected stops the connection timer and calls the application.
LEMMA AllertConnectedInv ==
  ASSUME NEW e \in Ends, NEW f, FlowInv(e, f), f.state # "WATING_FIN_ACK",
         NEW g, g = AllertConnected(f)
  PROVE  FlowInv(e, g)
  <1> DEFINE h == [f EXCEPT !.t_close_base = FALSE]
             k == KeepReceiving(h)
  <1>1. FlowInv(e, h)
    BY StopCloseTimer
  <1>2. g = IF Deaf(h) THEN CloseFlow(h, TRUE) ELSE [k EXCEPT !.connected = @ + 1]
    BY DEF AllertConnected
  <1> HIDE DEF h
  <1>3. CASE Deaf(h)
    BY <1>1, <1>2, <1>3, CloseFlowInv
  <1>4. CASE ~ Deaf(h)
    <2>1. FlowInv(e, k)
      BY <1>1, KeepReceivingInv
    <2> HIDE DEF k
    <2>2. DOMAIN k = Fields
      BY <2>1 DEF FlowInv, Handling, FlowType
    <2>3. SameFlow(k, g)
      BY <1>2, <1>4, <2>2 DEF SameFlow, SameSender, Fields
    <2> QED BY <2>1, <2>3, SameFlowInv
  <1> QED BY <1>3, <1>4

\* __allert_disconnected ends in the closed state.
LEMMA AllertDisconnectedInv ==
  ASSUME NEW e \in Ends, NEW f, Handling(e, f), NEW g, g = AllertDisconnected(f)
  PROVE  FlowInv(e, g)
  <1> DEFINE h == IF Deaf(f) THEN f
                  ELSE IF f.state \notin Unconnected THEN [f EXCEPT !.disconnected = @ + 1]
                  ELSE [f EXCEPT !.refused = @ + 1]
  <1>1. DOMAIN f = Fields
    BY DEF Handling, FlowType
  <1>2. SameFlow(f, h)
    BY <1>1 DEF SameFlow, SameSender, Fields
  <1>3. g = ToClosedState(h)
    BY DEF AllertDisconnected
  <1> HIDE DEF h
  <1>4. Handling(e, h)
    BY <1>2, SameFlowInv
  <1> QED BY <1>3, <1>4, ToClosedInv

\* Handing messages to the application touches the receiver's side, and perhaps
\* sends an acknowledgement.
LEMMA ReceiveAllInv ==
  ASSUME NEW e \in Ends, NEW f, FlowInv(e, f), NEW soon, NEW g, g = ReceiveAll(f, soon)
  PROVE  FlowInv(e, g)
  <1> DEFINE front == {r \in f.rlist : Rank(r, f.rlist) < f.rlen}
             inOrder == [i \in 1 .. f.rlen |->
                           (CHOOSE r \in f.rlist : Rank(r, f.rlist) = i - 1).msg]
             wasClosed == f.rcv_wnd = 0 \/ RecvBuf < f.rlen
             a == [f EXCEPT !.rlist = @ \ front, !.rlen = 0, !.rcv_wnd = RecvBuf,
                            !.delivered = @ \o inOrder]
             h == IF wasClosed THEN AttemptSend(a, "sfImmediateAck", soon) ELSE a
             b == IF f.rlen = 0 THEN f ELSE h
  <1>1. g = [b EXCEPT !.detect_readable = TRUE]
    BY DEF ReceiveAll
  <1>2. DOMAIN f = Fields
    BY DEF FlowInv, Handling, FlowType
  <1> HIDE DEF front, inOrder, wasClosed
  <1>3. SameFlow(f, a)
    BY <1>2 DEF SameFlow, SameSender, Fields
  <1> HIDE DEF a
  <1>4. FlowInv(e, a) /\ Handling(e, a)
    BY <1>3, SameFlowInv DEF FlowInv
  <1>5. FlowInv(e, h)
    BY <1>4, AttemptSendInv
  <1>6. FlowInv(e, b)
    BY <1>5
  <1> HIDE DEF b
  <1>7. DOMAIN b = Fields
    BY <1>6 DEF FlowInv, Handling, FlowType
  <1>8. SameFlow(b, g)
    BY <1>1, <1>7 DEF SameFlow, SameSender, Fields
  <1> QED BY <1>6, <1>8, SameFlowInv

\* __async_receive delivers, or ends a flow that cannot receive.
LEMMA AsyncReceiveInv ==
  ASSUME NEW e \in Ends, NEW f, FlowInv(e, f), NEW soon, NEW g, g = AsyncReceive(f, soon)
  PROVE  FlowInv(e, g)
  <1> DEFINE h == IF f.socket THEN f ELSE [f EXCEPT !.asserts = @ \cup {"recv"}]
  <1>1. CASE f.socket /\ f.state = "ESTABLISHED"
    BY <1>1, ReceiveAllInv DEF AsyncReceive
  <1>2. CASE ~ (f.socket /\ f.state = "ESTABLISHED")
    <2>1. g = AllertDisconnected(h)
      BY <1>2 DEF AsyncReceive
    <2>2. DOMAIN f = Fields /\ Handling(e, f)
      BY DEF FlowInv, Handling, FlowType
    <2>3. SameFlow(f, h)
      BY <2>2 DEF SameFlow, SameSender, Fields
    <2> HIDE DEF h
    <2>4. Handling(e, h)
      BY <2>2, <2>3, SameFlowInv
    <2> QED BY <2>1, <2>4, AllertDisconnectedInv
  <1> QED BY <1>1, <1>2

\* __allert_readable receives, or closes a flow that nobody listens to.
LEMMA AllertReadableInv ==
  ASSUME NEW e \in Ends, NEW f, FlowInv(e, f), NEW soon, NEW g, g = AllertReadable(f, soon)
  PROVE  FlowInv(e, g)
  <1> DEFINE h == [f EXCEPT !.detect_readable = FALSE]
  <1>1. DOMAIN f = Fields
    BY DEF FlowInv, Handling, FlowType
  <1>2. SameFlow(f, h)
    BY <1>1 DEF SameFlow, SameSender, Fields
  <1>3. g \in {CloseFlow(f, TRUE), f, h, AsyncReceive(h, soon)}
    BY DEF AllertReadable
  <1> HIDE DEF h
  <1>4. FlowInv(e, h)
    BY <1>2, SameFlowInv
  <1>5. CASE g = CloseFlow(f, TRUE)
    BY <1>5, CloseFlowInv
  <1>6. CASE g = AsyncReceive(h, soon)
    BY <1>4, <1>6, AsyncReceiveInv
  <1> QED BY <1>3, <1>4, <1>5, <1>6

\* __allert_writeable calls the application, or closes such a flow.
LEMMA AllertWriteableInv ==
  ASSUME NEW e \in Ends, NEW f, FlowInv(e, f), NEW g, g = AllertWriteable(f)
  PROVE  FlowInv(e, g)
  <1> DEFINE h == [f EXCEPT !.detect_writable = FALSE]
  <1>1. DOMAIN f = Fields
    BY DEF FlowInv, Handling, FlowType
  <1>2. SameFlow(f, h)
    BY <1>1 DEF SameFlow, SameSender, Fields
  <1>3. g \in {CloseFlow(f, TRUE), f, h}
    BY DEF AllertWriteable
  <1> HIDE DEF h
  <1>4. FlowInv(e, h)
    BY <1>2, SameFlowInv
  <1>5. CASE g = CloseFlow(f, TRUE)
    BY <1>5, CloseFlowInv
  <1> QED BY <1>3, <1>4, <1>5

\* __allert_accepted: the acceptor takes the flow, or it is closed.
LEMMA AllertAcceptedInv ==
  ASSUME NEW e \in Ends, NEW f, FlowInv(e, f), NEW a, NEW g, g = AllertAccepted(f, a)
  PROVE  FlowInv(e, g)
  <1> DEFINE h == [f EXCEPT !.t_close_base = FALSE]
             k == KeepReceiving(h)
             s == a.keep /\ a.state = "LISTENING" /\ h.state = "ESTABLISHED"
  <1>1. CASE f.canceled
    BY <1>1, CloseFlowInv DEF AllertAccepted
  <1>2. CASE ~ f.canceled
    <2>1. f.state # "WATING_FIN_ACK"
      BY <1>2 DEF FlowInv, Handling
    <2>2. FlowInv(e, h)
      BY <2>1, StopCloseTimer
    <2>3. g = IF a.state = "GONE" THEN CloseFlow(h, TRUE)
              ELSE [k EXCEPT !.accepted = @ + 1, !.socket = s]
      BY <1>2 DEF AllertAccepted
    <2> HIDE DEF h, s
    <2>4. CASE a.state = "GONE"
      BY <2>2, <2>3, <2>4, CloseFlowInv
    <2>5. CASE a.state # "GONE"
      <3>1. FlowInv(e, k)
        BY <2>2, KeepReceivingInv
      <3> HIDE DEF k
      <3>2. DOMAIN k = Fields
        BY <3>1 DEF FlowInv, Handling, FlowType
      <3>3. SameFlow(k, g)
        BY <2>3, <2>5, <3>2 DEF SameFlow, SameSender, Fields
      <3> QED BY <3>1, <3>3, SameFlowInv
    <2> QED BY <2>4, <2>5
  <1> QED BY <1>1, <1>2

(***************************************************************************)
(* Acknowledgements.                                                       *)
(***************************************************************************)
\* What is unacknowledged, and one segment more, fits half the number space.
LEMMA WindowBound ==
  ASSUME NEW e \in Ends, NEW f, FlowType(e, f), Window(f)
  PROVE  /\ Len(f.retrans) \in Nat
         /\ 2 * (Len(f.retrans) + 1) < M
         /\ 2 * Len(f.retrans) < M
  <1>1. Len(f.retrans) \in Nat
    BY LenProperties DEF FlowType
  <1>2. MaxMsgs[e] \in Nat /\ MaxPings[e] \in Nat /\ 2 * (MaxMsgs[e] + MaxPings[e] + 2) < M
    BY FlowAssumption
  <1>3. Len(f.retrans) <= MaxMsgs[e] + MaxPings[e] + 1
    BY <1>1, <1>2 DEF FlowType, Window, Numbered
  <1> QED BY <1>1, <1>2, <1>3, MAssumption

\* A new acknowledgement removes exactly the segments it acknowledges.
LEMMA AcknowledgeInv ==
  ASSUME NEW e \in Ends, NEW f, Handling(e, f), f.state # "CLOSED",
         NEW ack \in Word, ModLess(f.snd_una, ack), ModLessEqual(ack, f.snd_nxt),
         NEW g, g = Acknowledge(f, ack)
  PROVE  /\ Handling(e, g) /\ g.state = f.state /\ g.canceled = f.canceled
         /\ g.snd_nxt = f.snd_nxt /\ g.snd_una = ack
         /\ ack = f.snd_nxt <=> ~ Unacked(g)
  <1> DEFINE len == Len(f.retrans)
             n == ModMinus(ack, f.snd_una)
             rest == SubSeq(f.retrans, n + 1, len)
  <1>1. FlowType(e, f) /\ Window(f) /\ DOMAIN f = Fields /\ f.snd_una \in Word
        /\ f.retrans \in Seq(SSegments)
    BY DEF Handling, FlowType
  <1>2. len \in Nat /\ 2 * len < M /\ len < M
    BY <1>1, WindowBound, MAssumption
  <1>3. f.snd_nxt = UAdd(f.snd_una, len) /\ f.slen = len
    BY <1>1 DEF Window
  <1>4. n \in 1 .. len /\ ack = UAdd(f.snd_una, n)
    BY <1>1, <1>2, <1>3, NewAckCount
  <1> HIDE DEF n
  <1>5. /\ rest \in Seq(SSegments) /\ Len(rest) = len - n
        /\ \A i \in 1 .. len - n : rest[i] = f.retrans[n + i]
    <2>1. \A i \in n + 1 .. len : f.retrans[i] \in SSegments
      BY <1>1, <1>2, <1>4, ElementOfSeq
    <2>2. /\ rest \in Seq(SSegments)
          /\ Len(rest) = IF n + 1 <= len THEN len - (n + 1) + 1 ELSE 0
          /\ \A i \in 1 .. len - (n + 1) + 1 : rest[i] = f.retrans[n + 1 + i - 1]
      BY <1>2, <1>4, <2>1, SubSeqProperties
    <2> HIDE DEF rest
    <2> QED BY <1>2, <1>4, <2>2
  <1> HIDE DEF rest
  <1>6. ack = f.snd_nxt <=> len = n
    <2>1. n \in Nat /\ n < M
      BY <1>2, <1>4, MAssumption
    <2> QED BY <1>1, <1>2, <1>3, <1>4, <2>1, UAddInjective
  <1>7. rest = <<>> <=> len = n
    BY <1>2, <1>4, <1>5, EmptySeq
  <1>8. g = [f EXCEPT !.snd_una = ack, !.slen = @ - n, !.retrans = rest,
                      !.t_rto_base = ack # f.snd_nxt /\ rest # <<>>]
    BY DEF Acknowledge, n, rest
  <1>9. /\ DOMAIN g = Fields /\ g.state = f.state /\ g.slist = f.slist
        /\ g.retrans = rest /\ g.t_rto_base = (ack # f.snd_nxt /\ rest # <<>>)
        /\ g.t_close_base = f.t_close_base /\ g.snd_una = ack /\ g.canceled = f.canceled
        /\ g.snd_nxt = f.snd_nxt /\ g.rcv_nxt = f.rcv_nxt /\ g.sent = f.sent
        /\ g.pings = f.pings /\ g.out = f.out /\ g.slen = len - n
    BY <1>1, <1>3, <1>8 DEF Fields
  <1>10. FlowType(e, g)
    BY <1>1, <1>5, <1>9 DEF FlowType
  <1>11. g.snd_nxt = UAdd(ack, len - n)
    <2>1. UAdd(UAdd(f.snd_una, n), len - n) = UAdd(f.snd_una, n + (len - n))
      BY <1>1, <1>2, <1>4, UAddTwice
    <2>2. n + (len - n) = len
      BY <1>2, <1>4
    <2> QED BY <1>3, <1>4, <1>9, <2>1, <2>2
  <1>12. \A i \in 1 .. len - n : rest[i].seq = UAdd(ack, i - 1) /\ rest[i].xmit > 0
    <2> SUFFICES ASSUME NEW i \in 1 .. len - n
                 PROVE  rest[i].seq = UAdd(ack, i - 1) /\ rest[i].xmit > 0
      OBVIOUS
    <2>1. n + i \in 1 .. len /\ (n + i) - 1 = n + (i - 1) /\ i - 1 \in Nat /\ n \in Nat
          /\ n + (i - 1) < M
      <3> HIDE DEF len
      <3> QED BY <1>2, <1>4, MAssumption
    <2>2. f.retrans[n + i].seq = UAdd(f.snd_una, n + (i - 1)) /\ f.retrans[n + i].xmit > 0
      BY <1>1, <2>1 DEF Window
    <2>3. UAdd(UAdd(f.snd_una, n), i - 1) = UAdd(f.snd_una, n + (i - 1))
      BY <1>1, <2>1, UAddTwice
    <2> QED BY <1>4, <1>5, <2>2, <2>3
  <1>13. Window(g)
    <2>1. len <= Numbered(f) /\ Numbered(f) \in Nat /\ Numbered(g) = Numbered(f)
      BY <1>1, <1>9, FlowAssumption DEF Window, Numbered, FlowType
    <2> HIDE DEF len
    <2>2. Len(g.retrans) = len - n
      BY <1>5, <1>9
    <2>3. len - n <= Numbered(g)
      BY <1>2, <1>4, <2>1
    <2> QED BY <1>9, <1>11, <1>12, <2>2, <2>3 DEF Window
  <1>14. f.state # "WATING_FIN_ACK"
    <2>1. Len(<<>>) = 0
      BY EmptySeq
    <2> QED BY <1>2, <1>4, <2>1 DEF Handling
  <1> QED BY <1>6, <1>7, <1>9, <1>10, <1>13, <1>14 DEF Handling, Unacked

\* The state may change between two that the invariant does not tell apart.
LEMMA StateInv ==
  ASSUME NEW e \in Ends, NEW f, Handling(e, f), f.state # "CLOSED",
         NEW s, s \notin {"CLOSED", "CLOSING", "WATING_FIN_ACK"},
         f.state \in {"INIT", "LISTEN"} \/ s \notin {"INIT", "LISTEN"},
         NEW g, DOMAIN g = Fields, g.state = s, g.canceled = f.canceled,
         g.t_close_base \in BOOLEAN, g.t_rto_base = f.t_rto_base,
         g.snd_una = f.snd_una, g.snd_nxt = f.snd_nxt, g.slen = f.slen,
         g.slist = f.slist, g.retrans = f.retrans, g.rcv_nxt \in Word,
         g.sent = f.sent, g.pings = f.pings, g.out = f.out
  PROVE  FlowInv(e, g) /\ Handling(e, g) /\ Window(g)
  <1>1. FlowType(e, f) /\ Window(f)
    BY DEF Handling
  <1>2. FlowType(e, g)
    BY <1>1 DEF FlowType
  <1>3. Numbered(f) <= Numbered(g) /\ Numbered(f) \in Nat /\ Numbered(g) \in Nat
        /\ Len(f.retrans) \in Nat
    <2>1. f.sent \in Nat /\ f.pings \in Nat
      BY <1>1, FlowAssumption DEF FlowType
    <2>2. Len(f.retrans) \in Nat
      BY <1>1, LenProperties DEF FlowType
    <2> QED BY <2>1, <2>2 DEF Numbered
  <1>4. Window(g)
    BY <1>1, <1>3 DEF Window
  <1> QED BY <1>2, <1>4 DEF FlowInv, Handling

\* Fast recovery retransmits the oldest segment, if there is one.
LEMMA FastRetransmitInv ==
  ASSUME NEW e \in Ends, NEW f, Handling(e, f), f.state # "CLOSED",
         NEW g, g = FastRetransmit(f)
  PROVE  /\ Handling(e, g) /\ g.state = f.state /\ g.canceled = f.canceled
         /\ g.snd_una = f.snd_una /\ g.snd_nxt = f.snd_nxt
         /\ Unacked(g) <=> Unacked(f)
  <1>1. CASE Unacked(f)
    <2>1. g = Retransmit(f)
      BY <1>1 DEF FastRetransmit, Unacked
    <2>2. /\ Handling(e, g) /\ g.state = f.state /\ g.canceled = f.canceled
          /\ g.snd_una = f.snd_una /\ g.snd_nxt = f.snd_nxt
          /\ Len(g.retrans) = Len(f.retrans)
      BY <1>1, <2>1, RetransmitInv
    <2>3. f.retrans \in Seq(SSegments) /\ g.retrans \in Seq(SSegments)
      BY <2>2 DEF Handling, FlowType
    <2>4. Unacked(g)
      BY <1>1, <2>2, <2>3, EmptySeq DEF Unacked
    <2> QED BY <1>1, <2>2, <2>4
  <1>2. CASE ~ Unacked(f)
    <2>1. g = [f EXCEPT !.asserts = @ \cup {"transmit"}]
      BY <1>2 DEF FastRetransmit, Unacked
    <2>2. DOMAIN f = Fields
      BY DEF Handling, FlowType
    <2>3. SameFlow(f, g)
      BY <2>1, <2>2 DEF SameFlow, SameSender, Fields
    <2> QED BY <2>3, SameFlowInv DEF SameFlow, SameSender, Unacked
  <1> QED BY <1>1, <1>2

\* What an acknowledgement leaves: in particular, a closing flow has nothing left
\* exactly when the number acknowledged is m_snd_nxt.
AfterAck(e, f, g, p) ==
  /\ Handling(e, g) /\ g.state # "CLOSED" /\ g.canceled = f.canceled
  /\ g.state = f.state \/ (f.state = "SYN_RCVD" /\ g.state = "ESTABLISHED")
  /\ g.state = "CLOSING" => (p.ack = g.snd_nxt <=> ~ Unacked(g))

\* The whole treatment of a new acknowledgement in __process.
LEMMA OnNewAckInv ==
  ASSUME NEW e \in Ends, NEW f, FlowInv(e, f), f.state # "CLOSED", NEW p, PacketOK(p),
         NewAck(f, p), NEW g, g = OnNewAck(f, p)
  PROVE  AfterAck(e, f, g, p)
  <1> DEFINE a == Acknowledge(f, p.ack)
             z == [a EXCEPT !.dup_acks = 0]
             h == IF a.dup_acks < 3 \/ RecoveryEnds(a) THEN z ELSE FastRetransmit(a)
  <1>1. Handling(e, f) /\ p.ack \in Word /\ ModLess(f.snd_una, p.ack)
        /\ ModLessEqual(p.ack, f.snd_nxt)
    BY DEF FlowInv, PacketOK, NewAck
  <1>2. /\ Handling(e, a) /\ a.state = f.state /\ a.canceled = f.canceled
        /\ a.snd_nxt = f.snd_nxt /\ (p.ack = f.snd_nxt <=> ~ Unacked(a))
    BY <1>1, AcknowledgeInv
  <1>3. g = IF h.state = "SYN_RCVD" THEN [h EXCEPT !.state = "ESTABLISHED"] ELSE h
    BY DEF OnNewAck
  <1> HIDE DEF a
  <1>4. DOMAIN a = Fields
    BY <1>2 DEF Handling, FlowType
  <1>5. SameFlow(a, z)
    BY <1>4 DEF SameFlow, SameSender, Fields
  <1>6. Handling(e, z) /\ z.state = a.state /\ z.canceled = a.canceled
        /\ z.snd_nxt = a.snd_nxt /\ (Unacked(z) <=> Unacked(a))
    BY <1>2, <1>5, SameFlowInv DEF SameFlow, SameSender, Unacked
  <1> HIDE DEF z
  <1>7. Handling(e, h) /\ h.state = a.state /\ h.canceled = a.canceled
        /\ h.snd_nxt = a.snd_nxt /\ (Unacked(h) <=> Unacked(a))
    BY <1>2, <1>6, FastRetransmitInv
  <1> HIDE DEF h
  <1>8. CASE h.state # "SYN_RCVD"
    BY <1>2, <1>3, <1>7, <1>8 DEF AfterAck
  <1>9. CASE h.state = "SYN_RCVD"
    <2>1. DOMAIN h = Fields /\ h.t_close_base \in BOOLEAN /\ h.rcv_nxt \in Word
      BY <1>7 DEF Handling, FlowType
    <2>2. /\ DOMAIN g = Fields /\ g.state = "ESTABLISHED" /\ g.canceled = h.canceled
          /\ g.t_close_base = h.t_close_base /\ g.t_rto_base = h.t_rto_base
          /\ g.snd_una = h.snd_una /\ g.snd_nxt = h.snd_nxt /\ g.slen = h.slen
          /\ g.slist = h.slist /\ g.retrans = h.retrans /\ g.rcv_nxt = h.rcv_nxt
          /\ g.sent = h.sent /\ g.pings = h.pings /\ g.out = h.out
      BY <1>3, <1>9, <2>1 DEF Fields
    <2>3. Handling(e, g)
      BY <1>7, <1>9, <2>1, <2>2, StateInv
    <2> QED BY <1>2, <1>7, <1>9, <2>2, <2>3 DEF AfterAck
  <1> QED BY <1>8, <1>9

\* Any acknowledgement number: new, duplicate or out of the window.
LEMMA OnAckInv ==
  ASSUME NEW e \in Ends, NEW f, FlowInv(e, f), f.state # "CLOSED", NEW p, PacketOK(p),
         NEW g, g = OnAck(f, p)
  PROVE  AfterAck(e, f, g, p)
  <1>1. CASE NewAck(f, p)
    BY <1>1, OnNewAckInv DEF OnAck
  <1>2. CASE ~ NewAck(f, p)
    <2>1. Handling(e, f) /\ FlowType(e, f) /\ Window(f) /\ DOMAIN f = Fields
          /\ f.snd_una \in Word
      BY DEF FlowInv, Handling, FlowType
    <2>2. p.ack = f.snd_nxt => ~ Unacked(f)
      <3> SUFFICES ASSUME p.ack = f.snd_nxt, Unacked(f) PROVE FALSE
        OBVIOUS
      <3>1. Len(f.retrans) \in Nat /\ 2 * Len(f.retrans) < M /\ Len(f.retrans) > 0
        BY <2>1, WindowBound, EmptySeq DEF FlowType, Unacked
      <3>2. f.snd_nxt = UAdd(f.snd_una, Len(f.retrans))
        BY <2>1 DEF Window
      <3> QED BY <1>2, <2>1, <3>1, <3>2, AllAcked DEF NewAck
    <2>3. f.state = "CLOSING" => Unacked(f)
      BY DEF FlowInv, Unacked
    <2> DEFINE z == [f EXCEPT !.dup_acks = 0]
               c == [f EXCEPT !.dup_acks = IF @ < 4 THEN @ + 1 ELSE @]
               d == [c EXCEPT !.recover = f.snd_nxt]
    <2>4. g \in {f, z, c, FastRetransmit(d)}
      BY <1>2 DEF OnAck, OnDupAck
    <2>5. SameFlow(f, f) /\ SameFlow(f, z) /\ SameFlow(f, c) /\ SameFlow(f, d)
      BY <2>1 DEF SameFlow, SameSender, Fields
    <2> HIDE DEF z, c, d
    <2>6. ASSUME NEW h, SameFlow(f, h)
          PROVE  Handling(e, h) /\ h.state = f.state /\ h.canceled = f.canceled
                 /\ h.snd_nxt = f.snd_nxt /\ (Unacked(h) <=> Unacked(f))
      BY <2>1, <2>6, SameFlowInv DEF SameFlow, SameSender, Unacked
    <2>7. Handling(e, g) /\ g.state = f.state /\ g.canceled = f.canceled
          /\ g.snd_nxt = f.snd_nxt /\ (Unacked(g) <=> Unacked(f))
      <3>1. CASE g \in {f, z, c}
        BY <2>5, <2>6, <3>1
      <3>2. CASE g = FastRetransmit(d)
        BY <2>5, <2>6, <3>2, FastRetransmitInv
      <3> QED BY <2>4, <3>1, <3>2
    <2> QED BY <2>2, <2>3, <2>7 DEF AfterAck
  <1> QED BY <1>1, <1>2

(***************************************************************************)
(* __process.                                                              *)
(***************************************************************************)
\* Incoming data touches only the receiver's side of the flow.
LEMMA OnDataInv ==
  ASSUME NEW e \in Ends, NEW f, Handling(e, f), NEW p, PacketOK(p), NEW g, g = OnData(f, p)
  PROVE  Handling(e, g) /\ SameSender(f, g)
  <1> DEFINE seqs == {r.seq : r \in f.rlist}
             new == p.seq \notin seqs
             end == IF p.seq = f.rcv_nxt THEN EndOfRun(f.rcv_nxt, seqs \cup {p.seq})
                    ELSE f.rcv_nxt
             skip == [f EXCEPT !.rcv_nxt = UAdd(@, 1)]
             take == [f EXCEPT
                        !.rlist = IF new THEN @ \cup {[seq |-> p.seq, msg |-> p.msg]} ELSE @,
                        !.rcv_wnd = IF new /\ @ > 0 THEN @ - 1 ELSE @,
                        !.rlen = @ + USub(end, f.rcv_nxt),
                        !.rcv_nxt = end]
  <1>1. DOMAIN f = Fields /\ f.rcv_nxt \in Word /\ \A q \in f.out : PacketOK(q)
    BY DEF Handling, FlowType
  <1>2. g \in {f, skip, take}
    BY DEF OnData
  <1>3. end \in Word
    BY <1>1, EndOfRunWord
  <1> HIDE DEF end, new
  <1>4. SameSender(f, take) /\ take.rcv_nxt \in Word /\ take.out = f.out
    BY <1>1, <1>3 DEF SameSender, Fields
  <1>5. 1 \in 0 .. M
    BY MAssumption
  <1>6. UAdd(f.rcv_nxt, 1) \in Word
    BY <1>1, <1>5, UAddWord
  <1>7. SameSender(f, skip) /\ skip.rcv_nxt \in Word /\ skip.out = f.out
    BY <1>1, <1>6 DEF SameSender, Fields
  <1>8. SameSender(f, f)
    BY DEF SameSender
  <1> HIDE DEF skip, take
  <1>9. SameSender(f, g) /\ g.rcv_nxt \in Word /\ \A q \in g.out : PacketOK(q)
    BY <1>1, <1>2, <1>4, <1>7, <1>8
  <1> QED BY <1>9, SameSenderInv

\* The common part of __process: acknowledgement, data, end of a close, answers.
LEMMA SegmentInv ==
  ASSUME NEW e \in Ends, NEW f, FlowInv(e, f), f.state # "CLOSED", NEW p, PacketOK(p),
         NEW soon, NEW handshake \in BOOLEAN, handshake => f.state = "ESTABLISHED", NEW a,
         NEW g, g = Segment(f, p, soon, handshake, a)
  PROVE  FlowInv(e, g)
  <1> DEFINE g1 == OnAck(f, p)
             g2 == OnData(g1, p)
             g3 == AttemptSend(g2, SFlags(f, p, handshake), soon)
             readable == g2.rlen > g1.rlen /\ g3.detect_readable
             writable == g3.detect_writable /\ g3.slen < (SndBuf + RecvBuf) \div 2
             g4 == IF handshake THEN AllertConnected(g3) ELSE g3
             g5 == IF writable THEN AllertWriteable(g4) ELSE g4
             g6 == IF readable THEN AllertReadable(g5, soon) ELSE g5
  <1>1. AfterAck(e, f, g1, p)
    BY OnAckInv
  <1>2. g = IF g2.state = "CLOSING" /\ p.ack = g2.snd_nxt THEN SendFin(g2)
            ELSE IF f.state = "SYN_RCVD" /\ g1.state = "ESTABLISHED" THEN AllertAccepted(g6, a)
            ELSE g6
    BY DEF Segment
  <1> HIDE DEF g1
  <1>3. Handling(e, g2) /\ SameSender(g1, g2)
    BY <1>1, OnDataInv DEF AfterAck
  <1> HIDE DEF g2
  <1>4. /\ g2.state # "CLOSED" /\ (handshake => g2.state = "ESTABLISHED")
        /\ g2.state = "CLOSING" => (p.ack = g2.snd_nxt <=> ~ Unacked(g2))
    BY <1>1, <1>3 DEF AfterAck, SameSender, Unacked
  <1>5. CASE g2.state = "CLOSING" /\ p.ack = g2.snd_nxt
    <2>1. g2.canceled /\ ~ Unacked(g2)
      BY <1>3, <1>4, <1>5 DEF Handling
    <2> QED BY <1>2, <1>3, <1>5, <2>1, SendFinInv
  <1>6. CASE ~ (g2.state = "CLOSING" /\ p.ack = g2.snd_nxt)
    <2>1. FlowInv(e, g2)
      BY <1>3, <1>4, <1>6 DEF FlowInv, Unacked
    <2>2. FlowInv(e, g3) /\ g3.state = g2.state
      BY <1>3, <2>1, AttemptSendInv DEF SameSender
    <2> HIDE DEF g3, readable, writable
    <2>3. FlowInv(e, g4)
      BY <1>4, <2>2, AllertConnectedInv
    <2> HIDE DEF g4
    <2>4. FlowInv(e, g5)
      BY <2>3, AllertWriteableInv
    <2> HIDE DEF g5
    <2>5. FlowInv(e, g6)
      BY <2>4, AllertReadableInv
    <2> HIDE DEF g6
    <2> QED BY <1>2, <1>6, <2>5, AllertAcceptedInv
  <1> QED BY <1>5, <1>6

\* A segment is queued and sent, and counted.
LEMMA PushInv ==
  ASSUME NEW e \in Ends, NEW f, FlowType(e, f), f.slist = <<>>, Window(f),
         f.state \notin {"CLOSED", "CLOSING", "WATING_FIN_ACK"},
         NEW ctrl \in Controls, NEW msg \in Nat, NEW sflags, NEW soon,
         NEW g, g = AttemptSend(Queue(f, ctrl, msg), sflags, soon),
         NEW h, DOMAIN h = DOMAIN g, h.state = g.state, h.canceled = g.canceled,
         h.t_close_base = g.t_close_base, h.t_rto_base = g.t_rto_base,
         h.snd_una = g.snd_una, h.snd_nxt = g.snd_nxt, h.slen = g.slen,
         h.slist = g.slist, h.retrans = g.retrans, h.rcv_nxt = g.rcv_nxt, h.out = g.out,
         h.sent \in 0 .. MaxMsgs[e], h.pings \in 0 .. MaxPings[e],
         Len(f.retrans) + 1 <= Numbered(h)
  PROVE  FlowInv(e, h)
  <1>1. 2 * (Len(f.retrans) + 1) < M /\ Len(f.retrans) \in Nat
    BY WindowBound
  <1>2. Pushed(f, g)
    BY <1>1, QueueAndSend
  <1>3. Len(g.retrans) \in 0 .. M
    BY <1>1, <1>2, MAssumption DEF Pushed
  <1>4. g.snd_nxt \in Word
    BY <1>2, <1>3, UAddWord DEF FlowType, Pushed
  <1>5. FlowType(e, h)
    BY <1>2, <1>4 DEF FlowType, Pushed
  <1>6. Window(h)
    BY <1>2 DEF Window, Pushed
  <1>7. h.retrans # <<>>
    BY <1>1, <1>2, EmptySeq DEF Pushed
  <1> QED BY <1>2, <1>5, <1>6, <1>7 DEF FlowInv, Handling, Pushed

\* The two handshakes: the flow leaves INIT or LISTEN and sends its first segment.
LEMMA HandshakeInv ==
  ASSUME NEW e \in Ends, NEW f, Handling(e, f), f.state \in {"INIT", "LISTEN"},
         NEW s \in {"SYN_SENT", "SYN_RCVD"}, NEW ctrl \in Controls, NEW sflags, NEW soon,
         NEW h, DOMAIN h = Fields, h.state = s, h.canceled = f.canceled,
         h.t_close_base \in BOOLEAN, h.t_rto_base = f.t_rto_base,
         h.snd_una = f.snd_una, h.snd_nxt = f.snd_nxt, h.slen = f.slen,
         h.slist = f.slist, h.retrans = f.retrans, h.rcv_nxt \in Word,
         h.sent = f.sent, h.pings = f.pings, h.out = f.out,
         NEW g, g = AttemptSend(Queue(h, ctrl, 0), sflags, soon)
  PROVE  FlowInv(e, g)
  <1>1. FlowInv(e, h) /\ Handling(e, h) /\ Window(h)
    BY StateInv
  <1>2. FlowType(e, h) /\ h.slist = <<>> /\ Window(f) /\ FlowType(e, f)
    BY <1>1 DEF Handling
  <1>3. 2 * (Len(h.retrans) + 1) < M
    BY <1>1, <1>2, WindowBound
  <1>4. Pushed(h, g)
    BY <1>1, <1>2, <1>3, QueueAndSend
  <1>5. Len(h.retrans) + 1 <= Numbered(g)
    <2>1. f.sent \in Nat /\ f.pings \in Nat /\ Len(f.retrans) \in Nat
      BY <1>2, FlowAssumption, LenProperties DEF FlowType
    <2>2. Len(f.retrans) <= f.sent + f.pings
      BY <1>2, <2>1 DEF Window, Numbered
    <2>3. Numbered(g) = f.sent + f.pings + 1
      BY <1>4 DEF Pushed, Numbered
    <2> QED BY <2>1, <2>2, <2>3
  <1>6. g.sent \in 0 .. MaxMsgs[e] /\ g.pings \in 0 .. MaxPings[e]
    BY <1>2, <1>4 DEF Pushed, FlowType
  <1> QED BY <1>1, <1>2, <1>5, <1>6, PushInv

\* CTRL_CONNECT at the passive flow.
LEMMA OnConnectInv ==
  ASSUME NEW e \in Ends, NEW f, FlowInv(e, f), NEW p, PacketOK(p), NEW g, g = OnConnect(f, p)
  PROVE  FlowInv(e, g)
  <1> DEFINE h == [f EXCEPT !.state = "SYN_RCVD", !.remote_peer = TRUE,
                            !.rcv_nxt = UAdd(p.seq, p.len)]
  <1>1. CASE f.state # "LISTEN"
    BY <1>1 DEF OnConnect
  <1>2. CASE f.state = "LISTEN"
    <2>1. Handling(e, f) /\ DOMAIN f = Fields /\ f.t_close_base \in BOOLEAN
      BY DEF FlowInv, Handling, FlowType
    <2>2. p.len \in 0 .. M /\ p.seq \in Word
      BY MAssumption DEF PacketOK
    <2>3. UAdd(p.seq, p.len) \in Word
      BY <2>2, UAddWord
    <2>4. /\ DOMAIN h = Fields /\ h.state = "SYN_RCVD" /\ h.canceled = f.canceled
          /\ h.t_close_base = f.t_close_base /\ h.t_rto_base = f.t_rto_base
          /\ h.snd_una = f.snd_una /\ h.snd_nxt = f.snd_nxt /\ h.slen = f.slen
          /\ h.slist = f.slist /\ h.retrans = f.retrans /\ h.rcv_nxt \in Word
          /\ h.sent = f.sent /\ h.pings = f.pings /\ h.out = f.out
      BY <2>1, <2>3 DEF Fields
    <2>5. g = AttemptSend(Queue(h, "CONNECT_ACK", 0), "sfImmediateAck", FALSE)
      BY <1>2 DEF OnConnect
    <2> HIDE DEF h
    <2> QED BY <1>2, <2>1, <2>4, <2>5, ControlNames, HandshakeInv
  <1> QED BY <1>1, <1>2

\* CTRL_CONNECT_ACK at the active flow.
LEMMA OnConnectAckInv ==
  ASSUME NEW e \in Ends, NEW f, FlowInv(e, f), f.state # "CLOSED", NEW p, PacketOK(p),
         NEW soon, NEW a, NEW g, g = OnConnectAck(f, p, soon, a)
  PROVE  FlowInv(e, g)
  <1> DEFINE h == [f EXCEPT !.state = "ESTABLISHED", !.remote_peer = TRUE, !.rcv_nxt = p.seq]
  <1>1. CASE f.state # "SYN_SENT"
    BY <1>1, SegmentInv DEF OnConnectAck
  <1>2. CASE f.state = "SYN_SENT"
    <2>1. Handling(e, f) /\ DOMAIN f = Fields /\ f.t_close_base \in BOOLEAN /\ p.seq \in Word
      BY DEF FlowInv, Handling, FlowType, PacketOK
    <2>2. /\ DOMAIN h = Fields /\ h.state = "ESTABLISHED" /\ h.canceled = f.canceled
          /\ h.t_close_base = f.t_close_base /\ h.t_rto_base = f.t_rto_base
          /\ h.snd_una = f.snd_una /\ h.snd_nxt = f.snd_nxt /\ h.slen = f.slen
          /\ h.slist = f.slist /\ h.retrans = f.retrans /\ h.rcv_nxt \in Word
          /\ h.sent = f.sent /\ h.pings = f.pings /\ h.out = f.out
      BY <2>1 DEF Fields
    <2>3. g = Segment(h, p, soon, TRUE, a)
      BY <1>2 DEF OnConnectAck
    <2> HIDE DEF h
    <2>4. FlowInv(e, h)
      BY <1>2, <2>1, <2>2, StateInv
    <2> QED BY <2>2, <2>3, <2>4, SegmentInv
  <1> QED BY <1>1, <1>2

\* A packet too short for __process is answered with a reset, once.
LEMMA OnRejectedInv ==
  ASSUME NEW e \in Ends, NEW f, FlowInv(e, f), NEW g, g = OnRejected(f)
  PROVE  FlowInv(e, g)
  <1> DEFINE h == Sendout(f, f.snd_nxt, "RST", 0, 0)
  <1>1. Handling(e, f) /\ f.snd_nxt \in Word /\ 0 \in {0, 1}
    BY DEF FlowInv, Handling, FlowType
  <1>2. FlowInv(e, h)
    BY <1>1, ControlNames, SendoutInv
  <1>3. g = f \/ g = [h EXCEPT !.ignore_all = TRUE]
    BY DEF OnRejected
  <1> HIDE DEF h
  <1>4. DOMAIN h = Fields
    BY <1>2 DEF FlowInv, Handling, FlowType
  <1>5. CASE g = [h EXCEPT !.ignore_all = TRUE]
    <2>1. SameFlow(h, g)
      BY <1>4, <1>5 DEF SameFlow, SameSender, Fields
    <2> QED BY <1>2, <2>1, SameFlowInv
  <1> QED BY <1>3, <1>5

\* __process, for every type of packet.
LEMMA ProcessInv ==
  ASSUME NEW e \in Ends, NEW f, FlowInv(e, f), f.state # "CLOSED", NEW p, PacketOK(p),
         NEW soon, NEW a, NEW g, g = Process(f, p, soon, a)
  PROVE  FlowInv(e, g)
  <1> DEFINE h == [f EXCEPT !.snd_wnd = p.wnd]
             x == Sendout(h, h.snd_nxt, "FIN_ACK", 0, 0)
  <1>1. DOMAIN f = Fields
    BY DEF FlowInv, Handling, FlowType
  <1>2. SameFlow(f, h)
    BY <1>1 DEF SameFlow, SameSender, Fields
  <1>3. \/ g = OnRejected(h)
        \/ g = OnConnect(h, p)
        \/ g = OnConnectAck(h, p, soon, a)
        \/ g = AllertDisconnected(x)
        \/ g = AllertDisconnected(h)
        \/ g = Segment(h, p, soon, FALSE, a)
    BY DEF Process, PacketOK, Controls, OnFin
  <1> HIDE DEF h
  <1>4. FlowInv(e, h) /\ Handling(e, h) /\ h.state # "CLOSED"
    BY <1>2, SameFlowInv DEF FlowInv, SameFlow, SameSender
  <1>5. h.snd_nxt \in Word /\ 0 \in {0, 1}
    BY <1>4 DEF Handling, FlowType
  <1>6. Handling(e, x)
    BY <1>4, <1>5, ControlNames, SendoutInv
  <1> HIDE DEF x
  <1>7. CASE g = OnRejected(h)
    BY <1>4, <1>7, OnRejectedInv
  <1>8. CASE g = OnConnect(h, p)
    BY <1>4, <1>8, OnConnectInv
  <1>9. CASE g = OnConnectAck(h, p, soon, a)
    BY <1>4, <1>9, OnConnectAckInv
  <1>10. CASE g = AllertDisconnected(x) \/ g = AllertDisconnected(h)
    BY <1>4, <1>6, <1>10, AllertDisconnectedInv
  <1>11. CASE g = Segment(h, p, soon, FALSE, a)
    BY <1>4, <1>11, SegmentInv
  <1> QED BY <1>3, <1>7, <1>8, <1>9, <1>10, <1>11

(***************************************************************************)
(* __on_clock.                                                             *)
(***************************************************************************)
\* The retransmission timer in __on_clock.
LEMMA ClockRtoInv ==
  ASSUME NEW e \in Ends, NEW f, FlowInv(e, f), f.state # "CLOSED", NEW due,
         NEW g, g = ClockRto(f, due)
  PROVE  FlowInv(e, g) /\ g.state = f.state
  <1>1. Handling(e, f) /\ DOMAIN f = Fields
    BY DEF FlowInv, Handling, FlowType
  <1>2. CASE "rto" \notin due
    BY <1>2 DEF ClockRto
  <1>3. CASE "rto" \in due /\ ~ Unacked(f)
    <2>1. g = [f EXCEPT !.t_rto_base = FALSE]
      BY <1>3 DEF ClockRto, Unacked
    <2>2. f.t_rto_base = FALSE
      BY <1>1, <1>3 DEF Handling, FlowType, Unacked
    <2>3. SameFlow(f, g)
      <3>1. g.t_rto_base = FALSE
        BY <1>1, <2>1 DEF Fields
      <3>2. g.t_rto_base = f.t_rto_base
        BY <2>2, <3>1, Zenon
      <3>3. /\ DOMAIN g = DOMAIN f /\ g.state = f.state /\ g.canceled = f.canceled
            /\ g.t_close_base = f.t_close_base
            /\ g.snd_una = f.snd_una /\ g.snd_nxt = f.snd_nxt /\ g.slen = f.slen
            /\ g.slist = f.slist /\ g.retrans = f.retrans /\ g.rcv_nxt = f.rcv_nxt
            /\ g.sent = f.sent /\ g.pings = f.pings /\ g.out = f.out
        BY <1>1, <2>1 DEF Fields
      <3> QED BY <3>2, <3>3, Zenon DEF SameFlow, SameSender
    <2> QED BY <2>3, SameFlowInv DEF SameFlow, SameSender
  <1>4. CASE "rto" \in due /\ Unacked(f)
    <2>1. g = Retransmit(f)
      BY <1>4 DEF ClockRto, Unacked
    <2> QED BY <1>1, <1>4, <2>1, RetransmitInv
  <1> QED BY <1>2, <1>3, <1>4

\* The keep-alive ping in __on_clock.
LEMMA ClockPingInv ==
  ASSUME NEW e \in Ends, NEW f, FlowInv(e, f), NEW due,
         "ping" \in due => f.state = "ESTABLISHED" /\ f.pings < MaxPings[e],
         NEW g, g = ClockPing(f, due)
  PROVE  FlowInv(e, g)
  <1> DEFINE q == AttemptSend(Queue(f, "ACK", 0), "sfNone", FALSE)
  <1>1. CASE g = f
    BY <1>1
  <1>2. CASE "ping" \in due /\ g = [q EXCEPT !.pings = @ + 1]
    <2>1. Handling(e, f) /\ FlowType(e, f) /\ f.slist = <<>> /\ Window(f)
      BY <1>2 DEF FlowInv, Handling
    <2>2. 2 * (Len(f.retrans) + 1) < M
      BY <2>1, WindowBound
    <2>3. Pushed(f, q)
      BY <2>1, <2>2, ControlNames, QueueAndSend
    <2> HIDE DEF q
    <2>4. /\ DOMAIN g = DOMAIN q /\ g.state = q.state /\ g.canceled = q.canceled
          /\ g.t_close_base = q.t_close_base /\ g.t_rto_base = q.t_rto_base
          /\ g.snd_una = q.snd_una /\ g.snd_nxt = q.snd_nxt /\ g.slen = q.slen
          /\ g.slist = q.slist /\ g.retrans = q.retrans /\ g.rcv_nxt = q.rcv_nxt
          /\ g.out = q.out /\ g.sent = q.sent /\ g.pings = q.pings + 1
      BY <1>2, <2>3 DEF Pushed, Fields
    <2>5. g.sent \in 0 .. MaxMsgs[e] /\ g.pings \in 0 .. MaxPings[e]
      <3>1. MaxPings[e] \in Nat /\ f.pings \in 0 .. MaxPings[e] /\ f.pings < MaxPings[e]
        BY <1>2, <2>1, FlowAssumption DEF FlowType
      <3>2. g.sent = f.sent /\ g.pings = f.pings + 1
        BY <2>3, <2>4 DEF Pushed
      <3> QED BY <2>1, <3>1, <3>2 DEF FlowType
    <2>6. Len(f.retrans) + 1 <= Numbered(g)
      <3>1. f.sent \in Nat /\ f.pings \in Nat /\ Len(f.retrans) \in Nat
        BY <2>1, FlowAssumption, LenProperties DEF FlowType
      <3>2. Len(f.retrans) <= Numbered(f)
        BY <2>1 DEF Window
      <3>3. Numbered(g) = Numbered(f) + 1
        BY <2>3, <2>4, <3>1 DEF Pushed, Numbered
      <3>4. Numbered(f) \in Nat
        BY <3>1 DEF Numbered
      <3> QED BY <3>1, <3>2, <3>3, <3>4
    <2> QED BY <1>2, <2>1, <2>4, <2>5, <2>6, ControlNames, PushInv DEF q
  <1> QED BY <1>1, <1>2 DEF ClockPing

\* The delayed acknowledgement in __on_clock.
LEMMA ClockAckInv ==
  ASSUME NEW e \in Ends, NEW f, FlowInv(e, f), NEW due, NEW sent,
         NEW g, g = ClockAck(f, due, sent)
  PROVE  FlowInv(e, g)
  <1>1. Handling(e, f) /\ f.snd_nxt \in Word /\ 0 \in {0, 1}
    BY DEF FlowInv, Handling, FlowType
  <1>2. USub(f.snd_nxt, 1) \in Word
    BY <1>1, MAssumption DEF USub, Word
  <1>3. g = f \/ g = Sendout(f, USub(f.snd_nxt, 1), "ACK", 0, 0)
              \/ g = Sendout(f, f.snd_nxt, "ACK", 0, 0)
    BY DEF ClockAck
  <1> QED BY <1>1, <1>2, <1>3, ControlNames, SendoutInv

\* __on_clock, every timer of it.
LEMMA OnClockInv ==
  ASSUME NEW e \in Ends, NEW f, FlowInv(e, f), f.state # "CLOSED", NEW due,
         due \subseteq Armed(f), "ping" \in due => f.pings < MaxPings[e], NEW silent,
         NEW g, g = OnClock(f, due, silent)
  PROVE  FlowInv(e, g)
  <1> DEFINE g1 == ClockRto(f, due)
             g2 == ClockPing(g1, due)
             sent == ("rto" \in due /\ f.retrans # <<>>) \/ g2 # g1
             x == Sendout(g2, g2.snd_nxt, "RST", 0, 0)
  <1>1. \/ g = AllertDisconnected(f)
        \/ g = AllertDisconnected(x)
        \/ g = ClockAck(g2, due, sent)
    BY DEF OnClock
  <1>2. Handling(e, f)
    BY DEF FlowInv
  <1>3. FlowInv(e, g1) /\ g1.state = f.state
    BY ClockRtoInv
  <1>4. "ping" \in due => f.state = "ESTABLISHED" /\ g1.pings < MaxPings[e]
    <2>1. "ping" \in due => f.state = "ESTABLISHED"
      BY DEF Armed
    <2>2. "ping" \in due => f.retrans = <<>>
      BY DEF Armed
    <2>3. "ping" \in due => g1.pings = f.pings
      <3>1. DOMAIN f = Fields
        BY <1>2 DEF Handling, FlowType
      <3> QED BY <2>2, <3>1 DEF ClockRto, Fields
    <2> QED BY <2>1, <2>3
  <1> HIDE DEF g1
  <1>5. FlowInv(e, g2)
    BY <1>3, <1>4, ClockPingInv
  <1> HIDE DEF g2, sent
  <1>6. Handling(e, g2) /\ g2.snd_nxt \in Word /\ 0 \in {0, 1}
    BY <1>5 DEF FlowInv, Handling, FlowType
  <1>7. Handling(e, x)
    BY <1>6, ControlNames, SendoutInv
  <1> HIDE DEF x
  <1> QED BY <1>1, <1>2, <1>5, <1>7, AllertDisconnectedInv, ClockAckInv

(***************************************************************************)
(* The actions.                                                            *)
(***************************************************************************)
\* A handler that keeps its flow's invariant keeps that of the system.
LEMMA StepInv ==
  ASSUME Inv, NEW e \in Ends, NEW g, FlowInv(e, g), Step(e, g)
  PROVE  Inv'
  <1> DEFINE h == [g EXCEPT !.out = {}]
  <1>1. FlowType(e, g) /\ DOMAIN g = Fields /\ Peer(e) \in Ends
    BY DEF FlowInv, Handling, FlowType, Peer, Ends
  <1>2. SameSender(g, h) /\ h.rcv_nxt = g.rcv_nxt /\ h.out = {}
    BY <1>1 DEF SameSender, Fields
  <1> HIDE DEF h
  <1>3. FlowInv(e, h)
    BY <1>1, <1>2, SameSenderInv DEF FlowType
  <1>4. flow' = [flow EXCEPT ![e] = h] /\ net' = [net EXCEPT ![Peer(e)] = @ \cup g.out]
    BY DEF Step, h
  <1>5. \A p \in g.out : PacketOK(p)
    BY <1>1 DEF FlowType
  <1> QED BY <1>1, <1>3, <1>4, <1>5 DEF Inv

\* New flows satisfy the invariant.
LEMMA InitInv ==
  ASSUME Init
  PROVE  Inv
  <1> SUFFICES ASSUME NEW e \in Ends PROVE FlowInv(e, NewFlow(e))
    BY DEF Init, Inv
  <1> DEFINE f == NewFlow(e)
  <1>1. /\ DOMAIN f = Fields /\ f.state \in {"INIT", "LISTEN"} /\ f.canceled = FALSE
        /\ f.t_close_base = TRUE /\ f.t_rto_base = FALSE /\ f.snd_una = Iss[e]
        /\ f.snd_nxt = Iss[e] /\ f.slen = 0 /\ f.slist = <<>> /\ f.retrans = <<>>
        /\ f.rcv_nxt = 0 /\ f.sent = 0 /\ f.pings = 0 /\ f.out = {}
    BY DEF NewFlow, Fields
  <1> HIDE DEF f
  <1>2. Iss[e] \in Word /\ 0 \in Word /\ MaxMsgs[e] \in Nat /\ MaxPings[e] \in Nat
    BY FlowAssumption, MAssumption DEF Word
  <1>3. FlowType(e, f)
    <2>1. f.retrans \in Seq(SSegments)
      BY <1>1, EmptySeq
    <2>2. f.sent \in 0 .. MaxMsgs[e] /\ f.pings \in 0 .. MaxPings[e]
      BY <1>1, <1>2
    <2>3. f.t_rto_base \in BOOLEAN /\ f.t_close_base \in BOOLEAN
      BY <1>1, Zenon
    <2> QED BY <1>1, <1>2, <2>1, <2>2, <2>3 DEF FlowType
  <1>4. UAdd(Iss[e], 0) = Iss[e]
    BY <1>2, MAssumption DEF UAdd, Word
  <1>5. Len(<<>>) = 0
    BY EmptySeq
  <1>6. Window(f)
    BY <1>1, <1>4, <1>5 DEF Window, Numbered
  <1>7. FlowInv(e, f)
    BY <1>1, <1>3, <1>6 DEF FlowInv, Handling
  <1> QED BY <1>7 DEF f

\* Every action keeps the invariant.
LEMMA NextInv ==
  ASSUME Inv, [Next]_vars
  PROVE  Inv'
  <1> USE DEF Inv
  <1>0. \A e \in Ends : /\ FlowInv(e, flow[e]) /\ Handling(e, flow[e])
                        /\ FlowType(e, flow[e]) /\ DOMAIN flow[e] = Fields
    BY DEF FlowInv, Handling, FlowType
  <1>e. A \in Ends /\ P \in Ends /\ \A e \in Ends : Peer(e) \in Ends
    BY DEF Ends, Peer
  <1>1. CASE Connect
    <2> DEFINE h == [flow[A] EXCEPT !.t_close_base = TRUE, !.state = "SYN_SENT"]
               g == AttemptSend(Queue(h, "CONNECT", 0), "sfNone", FALSE)
    <2>1. flow[A].state = "INIT" /\ Step(A, g)
      BY <1>1 DEF Connect
    <2>2. /\ DOMAIN h = Fields /\ h.state = "SYN_SENT" /\ h.canceled = flow[A].canceled
          /\ h.t_close_base = TRUE /\ h.t_rto_base = flow[A].t_rto_base
          /\ h.snd_una = flow[A].snd_una /\ h.snd_nxt = flow[A].snd_nxt
          /\ h.slen = flow[A].slen /\ h.slist = flow[A].slist /\ h.retrans = flow[A].retrans
          /\ h.rcv_nxt = flow[A].rcv_nxt /\ h.sent = flow[A].sent
          /\ h.pings = flow[A].pings /\ h.out = flow[A].out
      BY <1>0, <1>e DEF Fields
    <2> HIDE DEF h
    <2>3. h.rcv_nxt \in Word /\ h.t_close_base \in BOOLEAN
      <3>1. h.rcv_nxt \in Word
        BY <1>0, <1>e, <2>2 DEF FlowType
      <3> QED BY <2>2, <3>1
    <2>4. FlowInv(A, g)
      BY <1>0, <1>e, <2>1, <2>2, <2>3, ControlNames, HandshakeInv
    <2> HIDE DEF g
    <2> QED BY <1>e, <2>1, <2>4, StepInv
  <1>2. CASE Punch
    <2> DEFINE p == [ctrl |-> "PUNCH", seq |-> flow[A].snd_nxt, ack |-> 0, wnd |-> TRUE,
                     len |-> 0, msg |-> 0]
    <2>1. flow[A].snd_nxt \in Word /\ 0 \in Word
      BY <1>0, <1>e, MAssumption DEF FlowType, Word
    <2>2. PacketOK(p)
      BY <2>1 DEF PacketOK, Controls
    <2>3. net' = [net EXCEPT ![A] = @ \cup {p}] /\ UNCHANGED flow
      BY <1>2 DEF Punch
    <2> HIDE DEF p
    <2> QED BY <1>e, <2>2, <2>3
  <1>3. CASE KeepAccepting
    <2> DEFINE s == IF acc.pending /\ flow[P].state = "ESTABLISHED" THEN TRUE ELSE flow[P].socket
               g == [flow[P] EXCEPT !.socket = s]
    <2>1. Step(P, g)
      BY <1>3 DEF KeepAccepting
    <2> HIDE DEF s
    <2>2. SameFlow(flow[P], g)
      BY <1>0, <1>e DEF SameFlow, SameSender, Fields
    <2> HIDE DEF g
    <2>3. FlowInv(P, g)
      BY <1>0, <1>e, <2>2, SameFlowInv
    <2> QED BY <1>e, <2>1, <2>3, StepInv
  <1>4. CASE BlockAccepting \/ \E s \in {"CLOSED", "GONE"} : CloseAcceptor(s)
    BY <1>4 DEF BlockAccepting, CloseAcceptor
  <1>5. ASSUME NEW e \in Ends, NEW p \in net[e], Receive(e, p)
        PROVE  Inv'
    <2>1. PICK soon \in BOOLEAN : Step(e, Process(flow[e], p, soon, acc))
      BY <1>5 DEF Receive
    <2>2. flow[e].state # "CLOSED" /\ PacketOK(p) /\ FlowInv(e, flow[e])
      BY <1>0, <1>5 DEF Receive, Dispatched
    <2>3. FlowInv(e, Process(flow[e], p, soon, acc))
      BY <2>2, ProcessInv
    <2> QED BY <2>1, <2>3, StepInv
  <1>6. ASSUME NEW e \in Ends, NEW p \in net[e], Refuse(e, p)
        PROVE  Inv'
    <2> DEFINE q(w) == [ctrl |-> "NETWORK_UNREACHABLE", seq |-> 0, ack |-> 0, wnd |-> w,
                        len |-> 0, msg |-> 0]
    <2>1. PICK w \in BOOLEAN : net' = [net EXCEPT ![Peer(e)] = @ \cup {q(w)}]
      BY <1>6 DEF Refuse
    <2>2. PacketOK(q(w))
      BY MAssumption DEF PacketOK, Controls, Word
    <2>3. UNCHANGED flow
      BY <1>6 DEF Refuse
    <2> HIDE DEF q
    <2> QED BY <1>e, <2>1, <2>2, <2>3
  <1>7. ASSUME NEW e \in Ends, NEW p \in net[e], Lose(e, p)
        PROVE  Inv'
    BY <1>7 DEF Lose
  <1>8. ASSUME NEW e \in Ends, Clock(e)
        PROVE  Inv'
    <2>1. PICK due \in SUBSET Armed(flow[e]), silent \in BOOLEAN : ClockWith(e, due, silent)
      BY <1>8 DEF Clock
    <2>2. /\ flow[e].state # "CLOSED" /\ due \subseteq Armed(flow[e])
          /\ "ping" \in due => flow[e].pings < MaxPings[e]
          /\ Step(e, OnClock(flow[e], due, silent))
      BY <2>1 DEF ClockWith
    <2>3. FlowInv(e, OnClock(flow[e], due, silent))
      BY <1>0, <2>2, OnClockInv
    <2> QED BY <2>2, <2>3, StepInv
  <1>9. ASSUME NEW e \in Ends, PostedReceive(e)
        PROVE  Inv'
    <2> DEFINE f == [flow[e] EXCEPT !.recv_posted = FALSE]
    <2>1. PICK soon \in BOOLEAN : Step(e, f) \/ Step(e, AsyncReceive(f, soon))
      BY <1>9 DEF PostedReceive
    <2>2. SameFlow(flow[e], f)
      BY <1>0 DEF SameFlow, SameSender, Fields
    <2> HIDE DEF f
    <2>3. FlowInv(e, f)
      BY <1>0, <2>2, SameFlowInv
    <2>4. FlowInv(e, AsyncReceive(f, soon))
      BY <2>3, AsyncReceiveInv
    <2> QED BY <2>1, <2>3, <2>4, StepInv
  <1>10. ASSUME NEW e \in Ends, PostedWritable(e)
         PROVE  Inv'
    <2> DEFINE f == [flow[e] EXCEPT !.write_posted = FALSE]
    <2>1. Step(e, f) \/ Step(e, AllertWriteable(f))
      BY <1>10 DEF PostedWritable
    <2>2. SameFlow(flow[e], f)
      BY <1>0 DEF SameFlow, SameSender, Fields
    <2> HIDE DEF f
    <2>3. FlowInv(e, f)
      BY <1>0, <2>2, SameFlowInv
    <2>4. FlowInv(e, AllertWriteable(f))
      BY <2>3, AllertWriteableInv
    <2> QED BY <2>1, <2>3, <2>4, StepInv
  <1>11. ASSUME NEW e \in Ends, Send(e)
         PROVE  Inv'
    <2> DEFINE f == flow[e]
               q == AttemptSend(Queue(f, "DATA", f.sent + 1), "sfNone", FALSE)
               dw == q.detect_writable \/ q.slen >= SndBuf
               wp == q.write_posted \/ q.slen < SndBuf
               g == [q EXCEPT !.sent = @ + 1, !.detect_writable = dw, !.write_posted = wp]
    <2>1. f.state = "ESTABLISHED" /\ f.sent < MaxMsgs[e] /\ Step(e, g)
      BY <1>11 DEF Send
    <2>2. FlowInv(e, f) /\ FlowType(e, f) /\ f.slist = <<>> /\ Window(f)
      BY <1>0, <2>1 DEF Handling
    <2>3. f.sent \in Nat /\ f.sent + 1 \in Nat /\ f.pings \in Nat /\ Len(f.retrans) \in Nat
          /\ MaxMsgs[e] \in Nat
      BY <2>2, FlowAssumption, LenProperties DEF FlowType
    <2> HIDE DEF f
    <2>4. 2 * (Len(f.retrans) + 1) < M
      BY <2>2, WindowBound
    <2>5. Pushed(f, q)
      BY <2>2, <2>3, <2>4, ControlNames, QueueAndSend
    <2> HIDE DEF q, dw, wp
    <2>6. /\ DOMAIN g = DOMAIN q /\ g.state = q.state /\ g.canceled = q.canceled
          /\ g.t_close_base = q.t_close_base /\ g.t_rto_base = q.t_rto_base
          /\ g.snd_una = q.snd_una /\ g.snd_nxt = q.snd_nxt /\ g.slen = q.slen
          /\ g.slist = q.slist /\ g.retrans = q.retrans /\ g.rcv_nxt = q.rcv_nxt
          /\ g.out = q.out /\ g.sent = q.sent + 1 /\ g.pings = q.pings
      BY <2>5 DEF Pushed, Fields
    <2> HIDE DEF g
    <2>7. g.sent = f.sent + 1 /\ g.pings = f.pings /\ g.state = "ESTABLISHED"
      BY <2>1, <2>5, <2>6 DEF Pushed
    <2>8. g.sent \in 0 .. MaxMsgs[e] /\ g.pings \in 0 .. MaxPings[e]
      BY <2>1, <2>2, <2>3, <2>7 DEF FlowType
    <2>9. Len(f.retrans) + 1 <= Numbered(g)
      <3>1. Len(f.retrans) <= f.sent + f.pings + 1
        BY <2>1, <2>2, <2>3 DEF Window, Numbered
      <3>2. Numbered(g) = f.sent + 1 + f.pings + 1
        BY <2>7 DEF Numbered
      <3> QED BY <2>3, <3>1, <3>2
    <2>10. FlowInv(e, g)
      BY <2>1, <2>2, <2>3, <2>6, <2>8, <2>9, ControlNames, PushInv DEF q
    <2> QED BY <2>1, <2>10, StepInv
  <1>12. ASSUME NEW e \in Ends, NEW graceful \in BOOLEAN, Close(e, graceful)
         PROVE  Inv'
    BY <1>0, <1>12, CloseFlowInv, StepInv DEF Close
  <1>13. ASSUME NEW e \in Ends, Keep(e)
         PROVE  Inv'
    BY <1>0, <1>13, KeepReceivingInv, StepInv DEF Keep
  <1>14. ASSUME NEW e \in Ends, Block(e)
         PROVE  Inv'
    <2> DEFINE g == [flow[e] EXCEPT !.keep_recving = FALSE]
    <2>1. SameFlow(flow[e], g)
      BY <1>0 DEF SameFlow, SameSender, Fields
    <2>2. Step(e, g)
      BY <1>14 DEF Block
    <2> HIDE DEF g
    <2>3. FlowInv(e, g)
      BY <1>0, <2>1, SameFlowInv
    <2> QED BY <2>2, <2>3, StepInv
  <1>15. CASE UNCHANGED vars
    BY <1>15 DEF vars
  <1> QED
    <2> USE DEF Inv
    <2> QED BY <1>1, <1>2, <1>3, <1>4, <1>5, <1>6, <1>7, <1>8, <1>9, <1>10, <1>11,
               <1>12, <1>13, <1>14, <1>15 DEF Next

\* The sender's bookkeeping is right in every state: whatever the network loses,
\* repeats and reorders, wherever the sequence numbers start, an acknowledgement
\* removes exactly what it acknowledges, and the retransmission timer runs exactly
\* while something is unacknowledged (__queue, __attempt_send, __process, __close
\* and __on_clock of urdp_flow.cpp).
THEOREM SenderBookkeepingHolds == Spec => []SenderBookkeeping
  <1>1. Init => Inv
    BY InitInv
  <1>2. Inv /\ [Next]_vars => Inv'
    BY NextInv
  <1>3. Inv => SenderBookkeeping
    BY DEF Inv, FlowInv, Handling, Window, SenderBookkeeping, SenderBook
  <1> QED BY <1>1, <1>2, <1>3, PTL DEF Spec
=============================================================================
