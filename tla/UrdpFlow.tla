------------------------------ MODULE UrdpFlow ------------------------------
(***************************************************************************)
(* One reliable connection of p2engine's URDP protocol (urdp_flow.cpp):    *)
(* an active flow "A" and a passive flow "P", the acceptor that owns P     *)
(* (urdp_acceptor.hpp), and a UDP network that loses, duplicates, delays   *)
(* and reorders packets.                                                   *)
(*                                                                         *)
(* A flow is a record.  Every method of urdp_flow is an operator from a    *)
(* flow to the flow it leaves behind; `out' collects the datagrams sent    *)
(* meanwhile.  An action runs one io_service handler (a datagram, a timer, *)
(* a posted __async_receive) or one call of the application to its end.    *)
(*                                                                         *)
(* Abstractions.  The unit of sequence numbers is a segment: a handshake   *)
(* segment, a ping and a message (header and payload fit the MSS) each     *)
(* take one number, which is exact for acknowledgement and trimming since  *)
(* __queue starts a segment per message and segments are retransmitted     *)
(* verbatim.  Congestion control and RTT estimation are left out: they     *)
(* never hold back a segment (__attempt_send drains m_slist) and only move *)
(* deadlines.  Deadlines are nondeterministic: an armed timer may fire at  *)
(* any moment.  A message is named by its position in its sender's stream. *)
(***************************************************************************)
EXTENDS UrdpSeq, Sequences, FiniteSets

CONSTANTS Iss,          \* Iss[e]: the first sequence number of e (s_sqno_seed)
          MaxMsgs,      \* MaxMsgs[e]: bound on the messages e sends
          MaxPings,     \* MaxPings[e]: bound on the keep-alive pings of e
          RecvBuf,      \* RECV_BUF_SIZE, in segments
          SndBuf,       \* SND_BUF_SIZE
          XmitLimit,    \* transmissions of a segment before a silent peer is given up
          ConnXmitLimit,\* the same while connecting
          GiveUp,       \* whether the deadlines of silence may pass
          Lossy,        \* whether a datagram under way may disappear
          SameId,       \* whether both flows got the same number from their layers
          AppCalls      \* the calls the applications make

A == "A"
P == "P"
Ends == {A, P}
Peer(e) == IF e = A THEN P ELSE A

ASSUME FlowAssumption ==
    /\ Iss \in [Ends -> Word]
    /\ MaxMsgs \in [Ends -> Nat]
    /\ MaxPings \in [Ends -> Nat]
    /\ RecvBuf \in Nat \ {0}
    /\ SndBuf \in Nat \ {0}
    /\ XmitLimit \in Nat \ {0}
    /\ ConnXmitLimit \in Nat \ {0}
    /\ GiveUp \in BOOLEAN
    /\ Lossy \in BOOLEAN
    /\ SameId \in BOOLEAN
    /\ AppCalls \subseteq {"send", "close", "abort", "keep", "block", "accept",
                           "noaccept", "unlisten", "destroy", "punch"}
    \* All that a flow numbers in a behaviour is less than half the number space.
    /\ \A e \in Ends : 2 * (MaxMsgs[e] + MaxPings[e] + 2) < M
    /\ 2 * RecvBuf < M

(***************************************************************************)
(* State.                                                                  *)
(***************************************************************************)
VARIABLES flow,  \* flow[e]: the urdp_flow of endpoint e
          net,   \* net[e]: the datagrams sent to e; delivery does not remove one, so
                 \* it may be delivered never, once or again, in any order
          acc    \* the acceptor of P

vars == <<flow, net, acc>>

\* enum TcpState; the states before ESTABLISHED in the enum's order.
Unconnected == {"INIT", "LISTEN", "SYN_SENT", "SYN_RCVD"}
States == Unconnected \cup {"ESTABLISHED", "CLOSING", "WATING_FIN_ACK", "CLOSED"}

Controls == {"NETWORK_UNREACHABLE", "PUNCH", "CONNECT", "CONNECT_ACK", "DATA",
             "ACK", "RST", "FIN", "FIN_ACK"}

\* The header fields that matter; len and msg stand for the payload.
Packets == [ctrl : Controls, seq : Word, ack : Word, wnd : BOOLEAN,
            len : {0, 1}, msg : Nat]

\* SSegment and RSegment.
SSegments == [seq : Word, ctrl : Controls, msg : Nat, xmit : Nat]
RSegments == [seq : Word, msg : Nat]

Flows ==
  [state : States, shutdown : {"SD_NONE", "SD_GRACEFUL", "SD_FORCEFUL"},
   close_called : BOOLEAN,   \* b_close_called_
   canceled : BOOLEAN,       \* op_cancel: never undone, the stamp is taken in __init
   socket : BOOLEAN,         \* m_socket # NULL
   remote_peer : BOOLEAN,    \* m_remote_peer_id is known
   ignore_all : BOOLEAN,     \* b_ignore_all_pkt_
   t_close_base : BOOLEAN,   \* timers: armed or not
   t_rto_base : BOOLEAN,
   t_ack : BOOLEAN,
   snd_una : Word, snd_nxt : Word, slen : Nat,
   slist : Seq(SSegments), retrans : Seq(SSegments),
   snd_wnd : BOOLEAN,        \* m_snd_wnd # 0
   dup_acks : 0 .. 4,        \* 4 stands for any larger count
   recover : Word,
   rcv_nxt : Word, rcv_wnd : Nat, rlen : Nat, rlist : SUBSET RSegments,
   detect_readable : BOOLEAN, detect_writable : BOOLEAN,
   keep_recving : BOOLEAN,
   recv_posted : BOOLEAN,    \* an __async_receive is in the io_service's queue,
   write_posted : BOOLEAN,   \* and an __allert_writeable
   \* History: what the application and the acceptor saw.
   sent : Nat, pings : Nat, delivered : Seq(Nat),
   connected : Nat, refused : Nat, disconnected : Nat, accepted : Nat,
   asserts : SUBSET {"recv", "transmit"},  \* BOOST_ASSERTs that failed
   out : SUBSET Packets]

\* The constructor: __init and create_for_active_connect / _passive_connect.
\* m_rcv_nxt starts uninitialized; nothing reads it before the handshake sets it.
NewFlow(e) ==
  [state |-> IF e = A THEN "INIT" ELSE "LISTEN", shutdown |-> "SD_NONE",
   close_called |-> FALSE, canceled |-> FALSE, socket |-> (e = A),
   remote_peer |-> FALSE, ignore_all |-> FALSE,
   t_close_base |-> TRUE, t_rto_base |-> FALSE, t_ack |-> FALSE,
   snd_una |-> Iss[e], snd_nxt |-> Iss[e], slen |-> 0,
   slist |-> <<>>, retrans |-> <<>>, snd_wnd |-> TRUE, dup_acks |-> 0, recover |-> 0,
   rcv_nxt |-> 0, rcv_wnd |-> RecvBuf, rlen |-> 0, rlist |-> {},
   detect_readable |-> TRUE, detect_writable |-> FALSE,
   keep_recving |-> FALSE, recv_posted |-> FALSE, write_posted |-> FALSE,
   sent |-> 0, pings |-> 0, delivered |-> <<>>,
   connected |-> 0, refused |-> 0, disconnected |-> 0, accepted |-> 0,
   asserts |-> {}, out |-> {}]

Init ==
  /\ flow = [e \in Ends |-> NewFlow(e)]
  /\ net = [e \in Ends |-> {}]
  /\ acc = [state |-> "LISTENING", keep |-> TRUE, pending |-> FALSE]

(***************************************************************************)
(* Sending.                                                                *)
(***************************************************************************)
\* __packet_as_reliable_and_sendout.  A packet other than CONNECT is addressed
\* to m_remote_peer_id: while that is invalid no flow receives it.
Sendout(f, seq, ctrl, len, msg) ==
  LET p == [ctrl |-> ctrl, seq |-> seq, ack |-> f.rcv_nxt, wnd |-> f.rcv_wnd # 0,
            len |-> len, msg |-> msg]
  IN  [f EXCEPT !.out = IF ctrl = "CONNECT" \/ f.remote_peer THEN @ \cup {p} ELSE @,
                !.t_ack = FALSE]

\* __queue: a new segment behind everything that is sent or queued.
Queue(f, ctrl, msg) ==
  [f EXCEPT !.slist = Append(@, [seq |-> UAdd(f.snd_una, f.slen), ctrl |-> ctrl,
                                 msg |-> msg, xmit |-> 0]),
            !.slen = @ + 1]

\* The test of __transmit that gives a segment up: too many transmissions, and
\* nothing received for ten seconds.
Limit(f) == IF f.state \in Unconnected THEN ConnXmitLimit ELSE XmitLimit

Exhausted(f, silent) == f.retrans[1].xmit >= Limit(f) /\ silent

\* __transmit of the oldest unacknowledged segment.  Its transmission count is
\* only ever compared with the limits, so it saturates at the larger one.
Retransmit(f) ==
  LET seg == f.retrans[1]
      cap == IF ConnXmitLimit > XmitLimit THEN ConnXmitLimit ELSE XmitLimit
  IN  [Sendout(f, seg.seq, seg.ctrl, 1, seg.msg) EXCEPT
         !.retrans[1].xmit = IF @ < cap THEN @ + 1 ELSE @,
         !.t_rto_base = TRUE]

\* __attempt_send: the queued segments all go out, for the first time; without
\* one, an acknowledgement is sent now or put off.  soon: the put-off one is
\* less than ACK_DELAY old.
AttemptSend(f, sflags, soon) ==
  IF f.slist # <<>>
  THEN [f EXCEPT
          !.out = @ \cup {[ctrl |-> f.slist[i].ctrl, seq |-> f.slist[i].seq,
                           ack |-> f.rcv_nxt, wnd |-> f.rcv_wnd # 0,
                           len |-> 1, msg |-> f.slist[i].msg] :
                              i \in {j \in 1 .. Len(f.slist) :
                                       f.slist[j].ctrl = "CONNECT" \/ f.remote_peer}},
          !.t_ack = FALSE,
          !.snd_nxt = UAdd(@, Len(f.slist)),
          !.retrans = @ \o [i \in 1 .. Len(f.slist) |-> [f.slist[i] EXCEPT !.xmit = 1]],
          !.slist = <<>>,
          !.t_rto_base = TRUE]
  ELSE IF sflags = "sfImmediateAck" \/ (f.t_ack /\ soon)
  THEN Sendout(f, f.snd_nxt, "ACK", 0, 0)
  ELSE IF sflags # "sfNone" /\ ~ f.t_ack
  THEN [f EXCEPT !.t_ack = TRUE]
  ELSE f

(***************************************************************************)
(* Closing.                                                                *)
(***************************************************************************)
\* __to_closed_state
ToClosedState(f) ==
  IF f.state = "CLOSED" THEN [f EXCEPT !.canceled = TRUE]
  ELSE [f EXCEPT !.state = "CLOSED", !.canceled = TRUE, !.socket = FALSE,
                 !.slist = <<>>, !.retrans = <<>>, !.rlist = {}, !.t_rto_base = FALSE]

\* Mutant: the timer that waits for the FIN_ACK is not set.
SendFinNoTimer(f) ==
  Sendout([f EXCEPT !.state = "WATING_FIN_ACK"], f.snd_nxt, "FIN", 0, 0)

\* Nothing left to acknowledge: the FIN that ends a graceful close, sent once.
SendFin(f) ==
  Sendout([f EXCEPT !.state = "WATING_FIN_ACK", !.t_close_base = TRUE],
          f.snd_nxt, "FIN", 0, 0)

\* Mutant: the FIN does not wait for what is unacknowledged.
CloseFlowFinAtOnce(f, graceful) ==
  IF f.state = "CLOSED" THEN ToClosedState(f)
  ELSE IF f.close_called THEN f
  ELSE LET forceful == ~ graceful \/ f.state \in Unconnected
           g == [f EXCEPT !.canceled = TRUE, !.socket = FALSE, !.close_called = TRUE,
                          !.shutdown = IF forceful THEN "SD_FORCEFUL" ELSE "SD_GRACEFUL"]
       IN  IF forceful THEN ToClosedState(Sendout(g, g.snd_nxt, "RST", 0, 0))
           ELSE SendFin(g)

\* Mutant: the operations are not canceled and the socket is not let go.
CloseFlowKeepsSocket(f, graceful) ==
  IF f.state = "CLOSED" THEN ToClosedState(f)
  ELSE IF f.close_called THEN f
  ELSE LET forceful == ~ graceful \/ f.state \in Unconnected
           g == [f EXCEPT !.close_called = TRUE,
                          !.shutdown = IF forceful THEN "SD_FORCEFUL" ELSE "SD_GRACEFUL"]
       IN  IF forceful THEN ToClosedState(Sendout(g, g.snd_nxt, "RST", 0, 0))
           ELSE IF g.retrans = <<>> /\ g.slist = <<>> THEN SendFin(g)
           ELSE [g EXCEPT !.state = "CLOSING"]

\* __close
CloseFlow(f, graceful) ==
  IF f.state = "CLOSED" THEN ToClosedState(f)
  ELSE IF f.close_called THEN f
  ELSE LET forceful == ~ graceful \/ f.state \in Unconnected
           g == [f EXCEPT !.canceled = TRUE, !.socket = FALSE, !.close_called = TRUE,
                          !.shutdown = IF forceful THEN "SD_FORCEFUL" ELSE "SD_GRACEFUL"]
       IN  IF forceful THEN ToClosedState(Sendout(g, g.snd_nxt, "RST", 0, 0))
           ELSE IF g.retrans = <<>> /\ g.slist = <<>> THEN SendFin(g)
           ELSE [g EXCEPT !.state = "CLOSING"]

(***************************************************************************)
(* Telling the application.                                                *)
(***************************************************************************)
\* A flow whose socket is gone or whose operations are canceled tells nobody.
Deaf(f) == ~ f.socket \/ f.canceled

\* keep_async_receiving
KeepReceiving(f) ==
  IF f.keep_recving THEN f ELSE [f EXCEPT !.keep_recving = TRUE, !.recv_posted = TRUE]

\* __allert_connected without an error
AllertConnected(f) ==
  LET g == [f EXCEPT !.t_close_base = FALSE]
  IN  IF Deaf(g) THEN CloseFlow(g, TRUE)
      ELSE [KeepReceiving(g) EXCEPT !.connected = @ + 1]

\* Mutant: a failed connect is not reported.
AllertDisconnectedMute(f) ==
  ToClosedState(
    IF Deaf(f) \/ f.state \in Unconnected THEN f
    ELSE [f EXCEPT !.disconnected = @ + 1])

\* Mutant: a connect that failed is reported, and its flow goes on.
AllertDisconnectedStays(f) ==
  IF ~ Deaf(f) /\ f.state \in Unconnected THEN [f EXCEPT !.refused = @ + 1]
  ELSE ToClosedState(IF Deaf(f) THEN f ELSE [f EXCEPT !.disconnected = @ + 1])

\* __allert_disconnected.  (DISCONN_LOCAL is only set by a close, which also
\* takes the socket away.)
AllertDisconnected(f) ==
  ToClosedState(
    IF Deaf(f) THEN f
    ELSE IF f.state \notin Unconnected THEN [f EXCEPT !.disconnected = @ + 1]
    ELSE [f EXCEPT !.refused = @ + 1])

\* How many received segments precede r: m_rlist is ordered by mod_less.
Rank(r, rlist) == Cardinality({q \in rlist : ModLess(q.seq, r.seq)})

\* The loop of __async_receive and __recv: every message received in order goes
\* to the application, until __recv would block.  Each message leaves m_rlist at
\* its front; at the end m_rlen = 0 and the window is open again.  A window that
\* was closed at one of the reads is announced at once.
ReceiveAll(f, soon) ==
  LET front == {r \in f.rlist : Rank(r, f.rlist) < f.rlen}
      inOrder == [i \in 1 .. f.rlen |->
                    (CHOOSE r \in f.rlist : Rank(r, f.rlist) = i - 1).msg]
      wasClosed == f.rcv_wnd = 0 \/ RecvBuf < f.rlen
      g == [f EXCEPT !.rlist = @ \ front, !.rlen = 0, !.rcv_wnd = RecvBuf,
                     !.delivered = @ \o inOrder]
      h == IF wasClosed THEN AttemptSend(g, "sfImmediateAck", soon) ELSE g
  IN  [(IF f.rlen = 0 THEN f ELSE h) EXCEPT !.detect_readable = TRUE]

\* __async_receive, past its tests of the mark and of b_keep_recving_.
AsyncReceive(f, soon) ==
  IF f.socket /\ f.state = "ESTABLISHED" THEN ReceiveAll(f, soon)
  ELSE AllertDisconnected(
         IF f.socket THEN f ELSE [f EXCEPT !.asserts = @ \cup {"recv"}])

\* __allert_readable; __can_let_transport_read is -1 outside ESTABLISHED.
AllertReadable(f, soon) ==
  IF Deaf(f) THEN CloseFlow(f, TRUE)
  ELSE IF f.detect_readable /\ (f.state # "ESTABLISHED" \/ f.rlen > 0)
  THEN LET g == [f EXCEPT !.detect_readable = FALSE]
       IN  IF g.keep_recving THEN AsyncReceive(g, soon) ELSE g
  ELSE f

\* Mutant: the detection of writability is never answered.
AllertWriteableMute(f) == IF Deaf(f) THEN CloseFlow(f, TRUE) ELSE f

\* __allert_writeable
AllertWriteable(f) ==
  IF Deaf(f) THEN CloseFlow(f, TRUE)
  ELSE IF f.slen < SndBuf THEN [f EXCEPT !.detect_writable = FALSE]
  ELSE f

\* __allert_accepted and the acceptor's accept_flow and __on_accepted: the flow
\* gets its connection only if the acceptor is accepting.
AllertAccepted(f, a) ==
  IF f.canceled THEN CloseFlow(f, TRUE)
  ELSE LET g == [f EXCEPT !.t_close_base = FALSE]
       IN  IF a.state = "GONE" THEN CloseFlow(g, TRUE)
           ELSE [KeepReceiving(g) EXCEPT
                   !.accepted = @ + 1,
                   !.socket = a.keep /\ a.state = "LISTENING" /\ g.state = "ESTABLISHED"]

(***************************************************************************)
(* __process: one datagram, past the test of session and endpoint.         *)
(***************************************************************************)
\* m_snd_una < ackno <= m_snd_nxt
NewAck(f, p) == ModLess(f.snd_una, p.ack) /\ ModLessEqual(p.ack, f.snd_nxt)

\* Mutant: m_slen shrinks by one too many.
AcknowledgeOneTooMany(f, ack) ==
  LET n == ModMinus(ack, f.snd_una)
      rest == SubSeq(f.retrans, n + 1, Len(f.retrans))
  IN  [f EXCEPT !.snd_una = ack, !.slen = @ - n - 1, !.retrans = rest,
                !.t_rto_base = ack # f.snd_nxt /\ rest # <<>>]

\* Mutant: the retransmission timer is not stopped when all is acknowledged.
AcknowledgeKeepsTimer(f, ack) ==
  LET n == ModMinus(ack, f.snd_una)
  IN  [f EXCEPT !.snd_una = ack, !.slen = @ - n,
                !.retrans = SubSeq(f.retrans, n + 1, Len(f.retrans)),
                !.t_rto_base = TRUE]

\* The bookkeeping of a new acknowledgement: n segments leave the front of the
\* retransmission list, one for each number acknowledged.
Acknowledge(f, ack) ==
  LET n == ModMinus(ack, f.snd_una)
      rest == SubSeq(f.retrans, n + 1, Len(f.retrans))
  IN  [f EXCEPT !.snd_una = ack, !.slen = @ - n, !.retrans = rest,
                !.t_rto_base = ack # f.snd_nxt /\ rest # <<>>]

\* Fast retransmission of the front segment; nothing was silent, so it is never
\* given up here.  On an empty list __transmit's BOOST_ASSERT fails.
FastRetransmit(f) ==
  IF f.retrans = <<>> THEN [f EXCEPT !.asserts = @ \cup {"transmit"}] ELSE Retransmit(f)

\* Recovery ends when m_snd_una >= m_recover, compared as plain numbers.
RecoveryEnds(f) == f.snd_una >= f.recover

OnNewAck(f, p) ==
  LET g == Acknowledge(f, p.ack)
      h == IF g.dup_acks < 3 \/ RecoveryEnds(g) THEN [g EXCEPT !.dup_acks = 0]
           ELSE FastRetransmit(g)
  IN  IF h.state = "SYN_RCVD" THEN [h EXCEPT !.state = "ESTABLISHED"] ELSE h

OnDupAck(f, p) ==
  IF p.len > 0 THEN f
  ELSE IF f.snd_una = f.snd_nxt THEN [f EXCEPT !.dup_acks = 0]
  ELSE LET g == [f EXCEPT !.dup_acks = IF @ < 4 THEN @ + 1 ELSE @]
       IN  IF g.dup_acks = 3 /\ f.dup_acks = 2
           THEN FastRetransmit([g EXCEPT !.recover = f.snd_nxt])
           ELSE g

OnAck(f, p) ==
  IF NewAck(f, p) THEN OnNewAck(f, p)
  ELSE IF p.ack = f.snd_una THEN OnDupAck(f, p)
  ELSE f

\* Mutant: off by one, the last segment received counts as new.
OldOffByOne(f, seq) == seq + 1 < f.rcv_nxt

\* A segment that is old, by a plain comparison of the numbers, is cut away.
Old(f, seq) == seq < f.rcv_nxt

\* What is left of the payload after the trimming, and then after the test
\* against RECV_BUF_SIZE, which is only made when m_rlist holds something.
UsableLen(f, p) ==
  IF Old(f, p.seq) THEN 0
  ELSE IF f.rlist # {} /\ ModMinus(UAdd(p.seq, p.len), f.rcv_nxt) >= RecvBuf THEN 0
  ELSE p.len

\* The number after the last one of the run that starts at n; the loop over m_rlist
\* ends after at most one round of the number space.
EndOfRun(n, seqs) ==
  UAdd(n, CHOOSE k \in 0 .. M : /\ k = M \/ UAdd(n, k) \notin seqs
                                /\ \A j \in 0 .. k - 1 : UAdd(n, j) \in seqs)

\* Mutant: data for an application that is not reading is dropped, but numbered.
OnDataIgnoresUnread(f, p) ==
  IF UsableLen(f, p) = 0 THEN f
  ELSE IF p.ctrl # "DATA" \/ f.shutdown # "SD_NONE" \/ ~ f.keep_recving
  THEN IF p.seq = f.rcv_nxt THEN [f EXCEPT !.rcv_nxt = UAdd(@, 1)] ELSE f
  ELSE LET seqs == {r.seq : r \in f.rlist}
           new == p.seq \notin seqs
           end == IF p.seq = f.rcv_nxt THEN EndOfRun(f.rcv_nxt, seqs \cup {p.seq})
                  ELSE f.rcv_nxt
       IN  [f EXCEPT
              !.rlist = IF new THEN @ \cup {[seq |-> p.seq, msg |-> p.msg]} ELSE @,
              !.rcv_wnd = IF new /\ @ > 0 THEN @ - 1 ELSE @,
              !.rlen = @ + USub(end, f.rcv_nxt),
              !.rcv_nxt = end]

\* Payload into m_rlist; a segment at m_rcv_nxt moves it past what follows.
OnData(f, p) ==
  IF UsableLen(f, p) = 0 THEN f
  ELSE IF p.ctrl # "DATA" \/ f.shutdown # "SD_NONE"
  THEN IF p.seq = f.rcv_nxt THEN [f EXCEPT !.rcv_nxt = UAdd(@, 1)] ELSE f
  ELSE LET seqs == {r.seq : r \in f.rlist}
           new == p.seq \notin seqs
           end == IF p.seq = f.rcv_nxt THEN EndOfRun(f.rcv_nxt, seqs \cup {p.seq})
                  ELSE f.rcv_nxt
       IN  [f EXCEPT
              !.rlist = IF new THEN @ \cup {[seq |-> p.seq, msg |-> p.msg]} ELSE @,
              !.rcv_wnd = IF new /\ @ > 0 THEN @ - 1 ELSE @,
              !.rlen = @ + USub(end, f.rcv_nxt),
              !.rcv_nxt = end]

SFlags(f, p, immediate) ==
  IF p.seq # f.rcv_nxt \/ immediate THEN "sfImmediateAck"
  ELSE IF p.len # 0 THEN "sfDelayedAck" ELSE "sfNone"

\* The common part of __process, for CONNECT_ACK, DATA and ACK.
Segment(f, p, soon, handshake, a) ==
  LET g1 == OnAck(f, p)
      g2 == OnData(g1, p)
      g3 == AttemptSend(g2, SFlags(f, p, handshake), soon)
      readable == g2.rlen > g1.rlen /\ g3.detect_readable
      writable == g3.detect_writable /\ g3.slen < (SndBuf + RecvBuf) \div 2
      g4 == IF handshake THEN AllertConnected(g3) ELSE g3
      g5 == IF writable THEN AllertWriteable(g4) ELSE g4
      g6 == IF readable THEN AllertReadable(g5, soon) ELSE g5
  IN  IF g2.state = "CLOSING" /\ p.ack = g2.snd_nxt THEN SendFin(g2)
      ELSE IF f.state = "SYN_RCVD" /\ g1.state = "ESTABLISHED" THEN AllertAccepted(g6, a)
      ELSE g6

\* Mutant: a repeated CONNECT starts the handshake again.
OnConnectAgain(f, p) ==
  LET g == [f EXCEPT !.state = "SYN_RCVD", !.remote_peer = TRUE,
                     !.rcv_nxt = UAdd(p.seq, p.len)]
  IN  AttemptSend(Queue(g, "CONNECT_ACK", 0), "sfImmediateAck", FALSE)

\* Mutant: a repeated CONNECT is answered with a reset.
OnConnectRejects(f, p) ==
  IF f.state # "LISTEN" THEN Sendout(f, f.snd_nxt, "RST", 0, 0)
  ELSE LET g == [f EXCEPT !.state = "SYN_RCVD", !.remote_peer = TRUE,
                          !.rcv_nxt = UAdd(p.seq, p.len)]
       IN  AttemptSend(Queue(g, "CONNECT_ACK", 0), "sfImmediateAck", FALSE)

\* CTRL_CONNECT: the passive flow answers the first one.
OnConnect(f, p) ==
  IF f.state # "LISTEN" THEN f
  ELSE LET g == [f EXCEPT !.state = "SYN_RCVD", !.remote_peer = TRUE,
                          !.rcv_nxt = UAdd(p.seq, p.len)]
       IN  AttemptSend(Queue(g, "CONNECT_ACK", 0), "sfImmediateAck", FALSE)

\* CTRL_CONNECT_ACK: the handshake of the active flow.
OnConnectAck(f, p, soon, a) ==
  IF f.state # "SYN_SENT" THEN Segment(f, p, soon, FALSE, a)
  ELSE Segment([f EXCEPT !.state = "ESTABLISHED", !.remote_peer = TRUE, !.rcv_nxt = p.seq],
               p, soon, TRUE, a)

\* CTRL_FIN
OnFin(f) == AllertDisconnected(Sendout(f, f.snd_nxt, "FIN_ACK", 0, 0))

\* on_received when __process returns false: one RST, never repeated.  A refusal
\* (CTRL_NETWORK_UNREACHABLE) and a punch (CTRL_PUNCH) end here: both are sent
\* as the 12 bytes of the basic header, shorter than the header of a reliable
\* packet, so __process returns before it looks at the control field.
OnRejected(f) ==
  IF f.ignore_all THEN f
  ELSE [Sendout(f, f.snd_nxt, "RST", 0, 0) EXCEPT !.ignore_all = TRUE]

Process(f, p, soon, a) ==
  LET g == [f EXCEPT !.snd_wnd = p.wnd]
  IN  CASE p.ctrl \in {"NETWORK_UNREACHABLE", "PUNCH"} -> OnRejected(g)
        [] p.ctrl = "CONNECT"            -> OnConnect(g, p)
        [] p.ctrl = "CONNECT_ACK"        -> OnConnectAck(g, p, soon, a)
        [] p.ctrl = "FIN"                -> OnFin(g)
        [] p.ctrl \in {"RST", "FIN_ACK"} -> AllertDisconnected(g)
        [] p.ctrl \in {"DATA", "ACK"}    -> Segment(g, p, soon, FALSE, a)

(***************************************************************************)
(* __on_clock: one run of the timer handler.  due is the set of armed      *)
(* deadlines that have passed; silent: nothing received for 10 (15) s.     *)
(***************************************************************************)
Armed(f) ==
  {d \in {"close", "idle", "rto", "ping", "probe", "ack"} :
     CASE d = "close" -> f.t_close_base /\ GiveUp
       [] d = "idle"  -> f.state = "ESTABLISHED" /\ GiveUp
       [] d = "rto"   -> f.t_rto_base
       [] d = "ping"  -> f.state = "ESTABLISHED" /\ f.retrans = <<>> /\ f.slist = <<>>
       [] d = "probe" -> f.state = "ESTABLISHED" /\ ~ f.snd_wnd
       [] d = "ack"   -> f.t_ack}

\* Mutant: the timer is served without a retransmission.
ClockRtoForgets(f, due) ==
  IF "rto" \notin due THEN f ELSE [f EXCEPT !.t_rto_base = FALSE]

\* Retransmission of the oldest segment, if its timer has run out.
ClockRto(f, due) ==
  IF "rto" \notin due THEN f
  ELSE IF f.retrans = <<>> THEN [f EXCEPT !.t_rto_base = FALSE]
  ELSE Retransmit(f)

\* ping: an ACK with one dummy byte, which the peer must acknowledge.
ClockPing(f, due) ==
  IF "ping" \in due /\ f.retrans = <<>> /\ f.slist = <<>>
  THEN [AttemptSend(Queue(f, "ACK", 0), "sfNone", FALSE) EXCEPT !.pings = @ + 1]
  ELSE f

\* The last two parts: the probe of a closed window, the delayed acknowledgement.
ClockAck(f, due, sent) ==
  IF sent THEN f
  ELSE IF "probe" \in due THEN Sendout(f, USub(f.snd_nxt, 1), "ACK", 0, 0)
  ELSE IF "ack" \in due /\ f.t_ack THEN Sendout(f, f.snd_nxt, "ACK", 0, 0)
  ELSE f

OnClock(f, due, silent) ==
  LET g1 == ClockRto(f, due)
      g2 == ClockPing(g1, due)
      sent == ("rto" \in due /\ f.retrans # <<>>) \/ g2 # g1
  IN  IF due \cap {"close", "idle"} # {} THEN AllertDisconnected(f)
      ELSE IF "rto" \in due /\ f.retrans # <<>> /\ Exhausted(f, silent)
      THEN AllertDisconnected(f)
      ELSE IF "probe" \in due /\ silent
      THEN AllertDisconnected(Sendout(g2, g2.snd_nxt, "RST", 0, 0))
      ELSE ClockAck(g2, due, sent)

(***************************************************************************)
(* Actions.  Step(e, g): the handler of e leaves g; what it sent is under  *)
(* way.                                                                    *)
(***************************************************************************)
Step(e, g) ==
  /\ flow' = [flow EXCEPT ![e] = [g EXCEPT !.out = {}]]
  /\ net' = [net EXCEPT ![Peer(e)] = @ \cup g.out]

\* The shared layer has a flow for the packet: the receiver's flow lives; a
\* connection request also needs the acceptor, and creates P's flow.
Dispatched(e, p) ==
  /\ flow[e].state # "CLOSED"
  /\ p.ctrl = "CONNECT" => acc.state = "LISTENING"
  /\ flow[e].state = "LISTEN" => p.ctrl = "CONNECT"

\* A datagram reaches the flow of e.
Receive(e, p) ==
  /\ Dispatched(e, p)
  /\ \E soon \in BOOLEAN :
       LET g == Process(flow[e], p, soon, acc)
       IN  /\ Step(e, g)
           /\ acc' = [acc EXCEPT !.pending = @ \/ (g.accepted > flow[e].accepted /\ ~ acc.keep)]

\* A datagram finds no flow: the layer answers it with a refusal, unless it is a
\* refusal itself.  The refusal carries the peer_id of the packet it answers: the
\* sender's flow in a CONNECT, but the dead flow in every other packet, so it
\* comes to the sender's flow only if both have the same number.  Its window
\* field is never set.  (Until the posted unregister_flow runs, the closed flow
\* swallows the packet; that and a lost refusal are the same to the sender.)
Refuse(e, p) ==
  /\ ~ Dispatched(e, p)
  /\ p.ctrl # "NETWORK_UNREACHABLE"
  /\ p.ctrl = "CONNECT" \/ SameId
  /\ \E w \in BOOLEAN :
       net' = [net EXCEPT ![Peer(e)] = @ \cup
                 {[ctrl |-> "NETWORK_UNREACHABLE", seq |-> 0, ack |-> 0, wnd |-> w,
                   len |-> 0, msg |-> 0]}]
  /\ UNCHANGED <<flow, acc>>

\* The timer of e's flow runs out; it is set when the flow starts to connect.
ClockWith(e, due, silent) ==
  /\ flow[e].state \notin {"INIT", "LISTEN", "CLOSED"}
  /\ due # {} /\ due \subseteq Armed(flow[e])
  /\ silent => GiveUp
  /\ "ping" \in due => flow[e].pings < MaxPings[e]
  /\ Step(e, OnClock(flow[e], due, silent))
  /\ UNCHANGED acc

Clock(e) ==
  \E due \in SUBSET Armed(flow[e]), silent \in BOOLEAN : ClockWith(e, due, silent)

\* A datagram is lost for good, unless it is sent again.  (Only liveness can tell.)
Lose(e, p) ==
  /\ Lossy
  /\ net' = [net EXCEPT ![e] = @ \ {p}]
  /\ UNCHANGED <<flow, acc>>

\* The posted __async_receive runs.
PostedReceive(e) ==
  /\ flow[e].recv_posted
  /\ \E soon \in BOOLEAN :
       LET f == [flow[e] EXCEPT !.recv_posted = FALSE]
       IN  Step(e, IF f.canceled \/ f.state = "CLOSED" \/ ~ f.keep_recving THEN f
                   ELSE AsyncReceive(f, soon))
  /\ UNCHANGED acc

\* async_connect
Connect ==
  /\ flow[A].state = "INIT"
  /\ LET f == [flow[A] EXCEPT !.t_close_base = TRUE, !.state = "SYN_SENT"]
     IN  Step(A, AttemptSend(Queue(f, "CONNECT", 0), "sfNone", FALSE))
  /\ UNCHANGED acc

\* The posted __allert_writeable runs, unless the flow was closed meanwhile.
PostedWritable(e) ==
  /\ flow[e].write_posted
  /\ LET f == [flow[e] EXCEPT !.write_posted = FALSE]
     IN  Step(e, IF f.canceled THEN f ELSE AllertWriteable(f))
  /\ UNCHANGED acc

\* async_send of a reliable message; the application sends on an open connection.
\* The message is taken even when it fills the send buffer: then the flow starts
\* to watch for room, otherwise it posts on_writable.
Send(e) ==
  LET f == flow[e]
      g == AttemptSend(Queue(f, "DATA", f.sent + 1), "sfNone", FALSE)
  IN  /\ "send" \in AppCalls
      /\ f.socket /\ f.state = "ESTABLISHED" /\ f.sent < MaxMsgs[e]
      /\ Step(e, [g EXCEPT !.sent = @ + 1,
                           !.detect_writable = @ \/ g.slen >= SndBuf,
                           !.write_posted = @ \/ g.slen < SndBuf])
      /\ UNCHANGED acc

\* close(graceful) of the connection that owns the flow.
Close(e, graceful) ==
  /\ (IF graceful THEN "close" ELSE "abort") \in AppCalls
  /\ flow[e].socket
  /\ Step(e, CloseFlow(flow[e], graceful))
  /\ UNCHANGED acc

\* keep_async_receiving and block_async_receiving
Keep(e) ==
  /\ "keep" \in AppCalls
  /\ flow[e].socket /\ flow[e].state = "ESTABLISHED" /\ ~ flow[e].keep_recving
  /\ Step(e, KeepReceiving(flow[e]))
  /\ UNCHANGED acc

Block(e) ==
  /\ "block" \in AppCalls
  /\ flow[e].socket /\ flow[e].keep_recving
  /\ Step(e, [flow[e] EXCEPT !.keep_recving = FALSE])
  /\ UNCHANGED acc

\* keep_async_accepting: a pending flow that is still connected is handed over.
KeepAccepting ==
  /\ "accept" \in AppCalls /\ ~ acc.keep /\ acc.state = "LISTENING"
  /\ acc' = [acc EXCEPT !.keep = TRUE, !.pending = FALSE]
  /\ Step(P, [flow[P] EXCEPT
                !.socket = IF acc.pending /\ flow[P].state = "ESTABLISHED" THEN TRUE ELSE @])

\* block_async_accepting
BlockAccepting ==
  /\ "noaccept" \in AppCalls /\ acc.keep
  /\ acc' = [acc EXCEPT !.keep = FALSE]
  /\ UNCHANGED <<flow, net>>

\* close of the acceptor, or its destruction.
CloseAcceptor(s) ==
  /\ (IF s = "CLOSED" THEN "unlisten" ELSE "destroy") \in AppCalls
  /\ acc.state = "LISTENING"
  /\ acc' = [acc EXCEPT !.state = s, !.pending = @ /\ s = "CLOSED"]
  /\ UNCHANGED <<flow, net>>

\* on_received_punch_request of a third party sends A's punch packet back to A.
Punch ==
  /\ "punch" \in AppCalls /\ flow[A].state = "SYN_SENT"
  /\ net' = [net EXCEPT ![A] = @ \cup
               {[ctrl |-> "PUNCH", seq |-> flow[A].snd_nxt, ack |-> 0, wnd |-> TRUE,
                 len |-> 0, msg |-> 0]}]
  /\ UNCHANGED <<flow, acc>>

Next ==
  \/ Connect
  \/ Punch
  \/ KeepAccepting
  \/ BlockAccepting
  \/ \E s \in {"CLOSED", "GONE"} : CloseAcceptor(s)
  \/ \E e \in Ends : \/ \E p \in net[e] : Receive(e, p) \/ Refuse(e, p) \/ Lose(e, p)
                     \/ Clock(e)
                     \/ PostedReceive(e)
                     \/ PostedWritable(e)
                     \/ Send(e)
                     \/ \E graceful \in BOOLEAN : Close(e, graceful)
                     \/ Keep(e)
                     \/ Block(e)

Spec == Init /\ [][Next]_vars

\* The datagrams to e that its peer sends again and again: its oldest segment, or
\* its latest acknowledgement.
Repeated(e, kind) ==
  {p \in net[e] :
     IF kind = "ack" THEN p.ctrl = "ACK" /\ p.ack = flow[Peer(e)].rcv_nxt
     ELSE p.len = 1 /\ p.seq = flow[Peer(e)].snd_una}

\* Delivering one of them would change something, and a step that does.
CanMatter(e, kind) ==
  \E p \in Repeated(e, kind) :
    /\ Dispatched(e, p)
    /\ LET g == Process(flow[e], p, FALSE, acc)
       IN  g.out \subseteq net[Peer(e)] => [g EXCEPT !.out = {}] # flow[e]

Matters(e, kind) == \E p \in Repeated(e, kind) : Receive(e, p) /\ vars' # vars

(***************************************************************************)
(* Fairness.  The io_service runs what is posted and every timer that is   *)
(* due, and the application connects.  A flow that retransmits hears from  *)
(* its peer or notices the silence.  The network may lose any copy of a    *)
(* datagram, but not every copy of one that is sent again and again (this  *)
(* is SF of the deliveries that change something, ENABLED written out).    *)
(***************************************************************************)
TimerFairness ==
  /\ WF_vars(Connect)
  /\ \A e \in Ends :
       /\ WF_vars(PostedReceive(e))
       /\ WF_vars(PostedWritable(e))
       /\ WF_vars(ClockWith(e, {"rto"}, FALSE))
       /\ WF_vars(ClockWith(e, {"rto"}, TRUE))
       /\ WF_vars(ClockWith(e, {"close"}, FALSE))
       /\ WF_vars(ClockWith(e, {"ack"}, FALSE))

NetFairness ==
  \A e \in Ends, kind \in {"segment", "ack"} :
    <>[](~ CanMatter(e, kind)) \/ []<><<Matters(e, kind)>>_vars

TimerSpec == Spec /\ TimerFairness
FairSpec == Spec /\ TimerFairness /\ NetFairness

(***************************************************************************)
(* Properties.                                                             *)
(***************************************************************************)
\* Every field has the type the code declares for it, and nothing is left in
\* the outbox of a handler that has ended.
TypeOK ==
  /\ flow \in [Ends -> Flows]
  /\ net \in [Ends -> SUBSET Packets]
  /\ acc \in [state : {"LISTENING", "CLOSED", "GONE"}, keep : BOOLEAN, pending : BOOLEAN]
  /\ \A e \in Ends : flow[e].out = {}

\* What the sender's BOOST_ASSERTs (urdp_flow.cpp 464, 468, 495, 508, 1388, 1399,
\* 1408, 1468) rest on: the unacknowledged segments are numbered without a gap from
\* m_snd_una to m_snd_nxt, nothing waits unsent between handlers, the
\* retransmission timer runs exactly while something is unacknowledged, and a
\* closing flow always has something that will end it.
SenderBook(f) ==
  /\ f.slist = <<>>
  /\ f.t_rto_base <=> f.retrans # <<>>
  /\ f.state # "CLOSED" =>
       /\ f.slen = Len(f.retrans)
       /\ f.snd_nxt = UAdd(f.snd_una, Len(f.retrans))
       /\ \A i \in 1 .. Len(f.retrans) :
            /\ f.retrans[i].seq = UAdd(f.snd_una, i - 1)
            /\ f.retrans[i].xmit > 0
  /\ f.state = "CLOSING" => f.retrans # <<>>
  /\ f.state = "WATING_FIN_ACK" => f.t_close_base /\ f.retrans = <<>>

SenderBookkeeping == \A e \in Ends : SenderBook(flow[e])

Live(e) == flow[e].remote_peer /\ flow[e].state # "CLOSED"

\* The two ends agree on the stream although packets are lost, repeated and
\* reordered: what one has had acknowledged the other has taken, and the other
\* has taken nothing that was not sent (m_snd_una <= peer's m_rcv_nxt <= m_snd_nxt).
SequenceAgreement ==
  \A e \in Ends :
    LET f == flow[e]
        r == flow[Peer(e)]
    IN  Live(Peer(e)) /\ f.state # "CLOSED" =>
          USub(r.rcv_nxt, f.snd_una) <= USub(f.snd_nxt, f.snd_una)

\* How far the application of e has come with its connection.
Phase(f) ==
  IF f.state \in Unconnected THEN "new"
  ELSE IF f.connected + f.accepted = 0 THEN "failed"
  ELSE IF f.state = "ESTABLISHED" THEN "open" ELSE "over"

\* The flows give the applications the reliable connection of Connection.tla:
\* although packets are lost, repeated and reordered, an end opens once and only
\* after its peer agreed, is given the peer's messages in the order sent, none twice
\* and none left out, and is given nothing before it opens or after it ended.
Promise == INSTANCE Connection WITH
             phase <- [e \in Ends |-> Phase(flow[e])],
             said <- [e \in Ends |-> flow[e].sent],
             heard <- [e \in Ends |-> flow[e].delivered]

ImplementsConnection == Promise!Spec

\* Messages of e that its peer has acknowledged.
Acked(e) ==
  flow[e].sent - Cardinality({i \in 1 .. Len(flow[e].retrans) : flow[e].retrans[i].ctrl = "DATA"})

\* An acknowledged message is not lost: while both ends live and the receiver has
\* not been closed, it was delivered or lies in order in m_rlist.
AckedIsHeld ==
  \A e \in Ends :
    LET r == flow[Peer(e)]
    IN  flow[e].state # "CLOSED" /\ r.state # "CLOSED" /\ r.shutdown = "SD_NONE" =>
          Acked(e) <= Len(r.delivered) + r.rlen

\* A graceful close sends its FIN only when nothing is missing: a receiver that
\* still talks has every message when a FIN for it is under way.
FinAfterEverything ==
  \A e \in Ends :
    flow[e].state = "ESTABLISHED" /\ (\E p \in net[e] : p.ctrl = "FIN") =>
      Len(flow[e].delivered) + flow[e].rlen = flow[Peer(e)].sent

\* A healthy connection is not torn down by its own other end: when a reset or a
\* FIN is under way to an established flow, its sender has given the connection up.
TeardownIsMutual ==
  \A e \in Ends :
    flow[e].state = "ESTABLISHED" /\ (\E p \in net[e] : p.ctrl \in {"RST", "FIN", "FIN_ACK"})
      => flow[Peer(e)].state \notin {"SYN_RCVD", "ESTABLISHED"}

Upcalls(f) == <<f.connected, f.refused, f.disconnected, f.delivered>>

\* The application hears of one outcome of its connect and of at most one
\* disconnect, and never of a disconnect of a connection it was not given.
OneOutcome ==
  \A e \in Ends :
    LET f == flow[e]
    IN  /\ f.connected + f.refused <= 1
        /\ f.disconnected <= IF e = A THEN f.connected ELSE f.accepted
        /\ f.accepted <= 1

\* Once the application has closed a connection it is called no more.
SilentAfterClose ==
  [][\A e \in Ends : flow[e].close_called => Upcalls(flow'[e]) = Upcalls(flow[e])]_vars

\* Retransmission works: a message sent is delivered, although any number of
\* copies and acknowledgements are lost, unless the sending flow gives its peer up
\* or the receiving one is closed.
MessagesArrive ==
  \A n \in 1 .. MaxMsgs[A] :
    flow[A].sent >= n ~> \/ Len(flow[P].delivered) >= n
                         \/ flow[A].state = "CLOSED"
                         \/ flow[P].close_called \/ flow[P].state = "CLOSED"

\* A sender that found the send buffer full is told when it may send again
\* (on_writable), unless the connection ends.
WritableAgain ==
  \A e \in Ends : flow[e].detect_writable ~> ~ flow[e].detect_writable \/ ~ flow[e].socket

\* Every connect gets an answer: the application hears success or failure, unless
\* it closes first.
ConnectEnds ==
  flow[A].state = "SYN_SENT" ~> flow[A].connected + flow[A].refused = 1 \/ flow[A].close_called

\* A close ends, whether or not the peer answers the FIN or the data before it: the
\* flow does not stay registered with the shared layer for ever.
CloseEnds == \A e \in Ends : flow[e].close_called ~> flow[e].state = "CLOSED"

(***************************************************************************)
(* What comments and assertions of the code say and the code does not do.  *)
(***************************************************************************)
\* "this will be called by flow when a passive flow is established"
\* (rdp_fwd.hpp, accept_flow): an established passive flow was handed to its acceptor.
EstablishedIsAccepted ==
  flow[P].state \in {"ESTABLISHED", "CLOSING", "WATING_FIN_ACK"} => flow[P].accepted = 1

\* "if __recv is called, m_socket should not be NULL" (BOOST_ASSERT in __recv).
RecvHasSocket == \A e \in Ends : "recv" \notin flow[e].asserts

\* BOOST_ASSERT(!m_slist.empty() || !m_retrans_slist.empty()) in __transmit: fast
\* recovery only retransmits when something is unacknowledged.
TransmitHasSegment == \A e \in Ends : "transmit" \notin flow[e].asserts

\* "Adjust the incoming segment to fit our receive buffer" (__process): what waits
\* for the application never exceeds RECV_BUF_SIZE.
ReceiveBufferBound == \A e \in Ends : flow[e].rlen <= RecvBuf
=============================================================================
