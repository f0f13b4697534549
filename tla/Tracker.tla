------------------------------ MODULE Tracker ------------------------------
(***************************************************************************)
(* One channel at the tracker, the media server that offers it and the     *)
(* clients that log in to it: tracker_manager (client), tracker_session    *)
(* (media server), member_service, channel and member_table (tracker).     *)
(*                                                                         *)
(* A connection is what urdp_connection and trdp_connection give their     *)
(* users: messages arrive in order, a close arrives after them, and an     *)
(* outage loses what is under way and is noticed by each end at its own    *)
(* time.  An end that closed is called no more.  Its two ends are `near'   *)
(* (client or server) and `far' (tracker); `up' and `down' hold what is    *)
(* under way, "syn" being what makes the tracker accept.                   *)
(*                                                                         *)
(* Every handler is one action.  Delays only decide when a timer acts, so  *)
(* a timer acts at any time.  Requests, reports, relayed messages and room *)
(* broadcasts change nothing kept here and are left out.                   *)
(***************************************************************************)
EXTENDS Naturals, Sequences, FiniteSets, FiniteSetsExt

CONSTANTS Clients,
          MaxConns,     \* connections a client, or the server, has at a time
          MaxFaults,    \* bound on what goes wrong: outages, failures, stops
          UsingRudp,    \* b_tracker_using_rudp
          UsingRtcp     \* b_tracker_using_rtcp

ASSUME TrackerAssumption ==
    /\ IsFiniteSet(Clients)
    /\ MaxConns \in Nat \ {0}
    /\ MaxFaults \in Nat
    /\ UsingRudp \in BOOLEAN /\ UsingRtcp \in BOOLEAN
    /\ UsingRudp \/ UsingRtcp

VARIABLES cl,     \* cl[c]: the tracker_manager of client c and its connections
          srv,    \* the tracker_session of the server and its connections
          trk,    \* the member_service of the tracker
          faults  \* the number of faults so far

vars == <<cl, srv, trk, faults>>

Ids == 1 .. MaxConns
Kinds == {"udp", "tcp"}
Letters == {"syn", "challenge", "login", "welcome", "error", "create", "fin"}

Connections ==
  [kind : Kinds \cup {"none"}, near : {"connecting", "open", "closed"},
   far : {"none", "open", "closed"}, up : Seq(Letters), down : Seq(Letters),
   \* On a server's connection: the channel that registered on_server_disconnected.
   disc : {"none", "live", "destroyed"}]

Managers ==
  [state : {"init", "connecting", "logining", "logined"},
   socket : {0} \cup Ids,     \* socket_, 0 for NULL
   map : SUBSET Ids,          \* socket_map_
   timer : BOOLEAN,           \* timer_
   failed : BOOLEAN,          \* last_connect_fail_time_ is set
   told : BOOLEAN,            \* history: ON_LOGIN_FINISHED reported an error,
   stopped : BOOLEAN,         \* the application left,
   asserts : SUBSET {91, 328, 334},  \* and the lines of BOOST_ASSERTs that failed
   conns : [Ids -> Connections]]

\* A connection that neither end has; the slot may be used again.
NoConn == [kind |-> "none", near |-> "closed", far |-> "closed",
           up |-> <<>>, down |-> <<>>, disc |-> "none"]

(***************************************************************************)
(* Connections.                                                            *)
(***************************************************************************)
CloseNear(n) ==
  IF n.far = "closed" THEN NoConn
  ELSE [n EXCEPT !.near = "closed", !.down = <<>>, !.up = Append(@, "fin")]

CloseFar(n) ==
  IF n.near = "closed" THEN NoConn
  ELSE [n EXCEPT !.far = "closed", !.up = <<>>, !.down = Append(@, "fin")]

\* An end learns that the connection is gone.
NearGone(n) ==
  IF n.far = "closed" THEN NoConn ELSE [n EXCEPT !.near = "closed", !.down = <<>>]
FarGone(n) ==
  IF n.near = "closed" THEN NoConn ELSE [n EXCEPT !.far = "closed", !.up = <<>>]

Broken(n) ==
  [n EXCEPT !.up = IF n.far = "open" THEN <<"fin">> ELSE <<>>,
            !.far = IF n.far = "open" THEN "open" ELSE "closed",
            !.down = <<"fin">>]

Connecting(kind) == [NoConn EXCEPT !.kind = kind, !.near = "connecting"]

Established(n, letters) ==
  [n EXCEPT !.near = "open", !.far = "none", !.up = <<"syn">> \o letters]

\* What is sent to an end that closed is lost.
SendUp(n, letter) == [n EXCEPT !.up = IF n.far = "closed" THEN @ ELSE Append(@, letter)]
SendDown(n, letter) ==
  [n EXCEPT !.down = IF n.near = "closed" THEN @ ELSE Append(@, letter)]

(***************************************************************************)
(* The client: tracker_manager.                                            *)
(***************************************************************************)
FreeConns(m) == {k \in Ids : m.conns[k] = NoConn /\ k \notin m.map \cup {m.socket}}

\* connect_tracker goes through the kinds of connection until one opens; `ok' are
\* the kinds whose open succeeds.  When none is left on_connected gets an error.
\* (Mutant: a connection that did not open stays in socket_map_.)
TryKindsKeepsUnopened(m, kinds, ok) ==
  LET good == SelectSeq(kinds, LAMBDA kind : kind \in ok)
      k == Min(FreeConns(m))
  IN  IF good = <<>> THEN [m EXCEPT !.failed = TRUE, !.map = @ \cup {0}]
      ELSE [m EXCEPT !.conns[k] = Connecting(Head(good)), !.map = @ \cup {k}]

TryKinds(m, kinds, ok) ==
  LET good == SelectSeq(kinds, LAMBDA kind : kind \in ok)
      k == Min(FreeConns(m))
  IN  IF good = <<>> THEN [m EXCEPT !.failed = TRUE]
      ELSE [m EXCEPT !.conns[k] = Connecting(Head(good)), !.map = @ \cup {k}]

Rtcp == IF UsingRtcp THEN <<"tcp">> ELSE <<>>

ConnectTracker(m, rudp, ok) ==
  TryKinds([m EXCEPT !.state = "connecting", !.failed = FALSE,
                     !.asserts = @ \cup IF rudp \/ UsingRtcp THEN {} ELSE {91}],
           (IF rudp THEN <<"udp">> ELSE <<>>) \o Rtcp, ok)

\* The coroutine resumes with an error: after UDP it goes on with TCP.
\* (Mutant: it does not, and notes no failure.)
ConnectFailedGivesUp(m, k, ok) ==
  [m EXCEPT !.map = @ \ {k}, !.conns[k] = NoConn]

ConnectFailed(m, k, ok) ==
  TryKinds([m EXCEPT !.map = @ \ {k}, !.conns[k] = NoConn],
           IF m.conns[k].kind = "udp" THEN Rtcp ELSE <<>>, ok)

\* on_connected without an error; the other attempts, and what socket_ held, are
\* closed.
OnConnected(m, k) ==
  [m EXCEPT !.state = "logining", !.socket = k, !.map = {},
            !.conns = [j \in Ids |->
               IF j = k THEN Established(@[j], <<>>)
               ELSE IF j \in m.map \cup {m.socket} THEN CloseNear(@[j]) ELSE @[j]]]

OnDisconnected(m, k) ==
  LET n == [m EXCEPT !.conns[k] = NearGone(@)]
  IN  IF m.socket \notin {0, k} THEN n
      ELSE [n EXCEPT !.socket = 0, !.state = "init",
                     !.asserts = @ \cup (IF m.timer THEN {} ELSE {328})
                                   \cup (IF m.map = {} THEN {} ELSE {334})]

DoStop(m) ==
  [m EXCEPT !.state = "init", !.socket = 0, !.timer = FALSE,
            !.conns = [j \in Ids |-> IF j = m.socket THEN CloseNear(@[j]) ELSE @[j]]]

\* on_timer when the connection, or the login, has to be tried again.  A login
\* that timed out is tried with the other kind of connection first, and do_stop
\* has dropped the timer.
OnTimerRetry(m, ok) == ConnectTracker(m, UsingRudp, ok)
OnTimerLogin(m, ok) == ConnectTracker(DoStop(m), ~ UsingRudp, ok)

\* Mutant: an attempt that is under way is not waited for.
MustRetryEarly(m) == m.state \in {"init", "connecting"}

MustRetry(m) ==
  \/ m.state = "init"
  \/ m.state = "connecting" /\ m.map = {} /\ m.failed

\* A manager is destroyed: its sockets close.  client_service::restart then
\* creates and starts another.
Destroyed(m) ==
  [m EXCEPT !.state = "init", !.socket = 0, !.map = {}, !.timer = FALSE,
            !.failed = FALSE,
            !.conns = [j \in Ids |-> IF @[j].near = "closed" THEN @[j]
                                     ELSE CloseNear(@[j])]]

Start(m, ok) ==
  [ConnectTracker(Destroyed(m), UsingRudp, ok) EXCEPT !.timer = TRUE]

\* on_recvd_challenge, on_recvd_login_reply and on_disconnected.
OnLetter(m, k) ==
  LET n == [m EXCEPT !.conns[k].down = Tail(@)]
  IN  CASE Head(m.conns[k].down) = "challenge" ->
             [n EXCEPT !.conns[k] = SendUp(@, "login")]
        [] Head(m.conns[k].down) = "welcome" -> [n EXCEPT !.state = "logined"]
        [] Head(m.conns[k].down) = "error" -> DoStop([n EXCEPT !.told = TRUE])
        [] OTHER -> OnDisconnected(n, k)

(***************************************************************************)
(* The tracker: member_service and its channel.  The operators below map a *)
(* world, a record of cl, srv and trk, to a world: a socket that nobody    *)
(* owns any more is destroyed, which closes the connection.                *)
(***************************************************************************)
NoChannel == [on |-> FALSE, sock |-> 0, table |-> [c \in Clients |-> 0]]
NewChannel(k) == [NoChannel EXCEPT !.on = TRUE, !.sock = k]

Members == [on : BOOLEAN,                          \* channel_set_ holds it,
            sock : {0} \cup Ids,                   \* m_server_socket
            table : [Clients -> {0} \cup Ids]]     \* m_member_table: peer id to socket

Services ==
  [chan : Members,
   empty : {0} \cup Ids,            \* the server_sockt_ of its empty_channels_ entry
   pending : SUBSET (Clients \X Ids),  \* pending_sockets_ of member_service
   keeper : SUBSET Ids,             \* pending_sockets_ of tracker_service
   posts : Nat]                     \* remove_channel calls posted and not yet run

World == [cl |-> cl, srv |-> srv, trk |-> trk]
Become(w) == cl' = w.cl /\ srv' = w.srv /\ trk' = w.trk

\* The sockets whose last owner is gone.
Reap(w) ==
  [w EXCEPT
     !.cl = [c \in Clients |-> [@[c] EXCEPT !.conns = [k \in Ids |->
               IF /\ @[k].far = "open"
                  /\ <<c, k>> \notin w.trk.pending
                  /\ w.trk.chan.table[c] # k
               THEN CloseFar(@[k]) ELSE @[k]]]],
     !.srv.conns = [k \in Ids |->
               IF /\ @[k].far = "open"
                  /\ k \notin w.trk.keeper \cup {w.trk.chan.sock, w.trk.empty}
               THEN CloseFar(@[k]) ELSE @[k]]]

\* get_channel: an empty channel is restored.
GetChannel(t) ==
  IF t.chan.on \/ t.empty = 0 THEN t
  ELSE [t EXCEPT !.chan = NewChannel(t.empty), !.empty = 0]

\* remove_channel.  The handlers the channel registered on the server's
\* connections stay registered when it is destroyed.
RemoveChannel(w) ==
  LET t == GetChannel(w.trk)
      connected == w.srv.conns[t.chan.sock].far = "open"
  IN  IF ~ t.chan.on THEN w
      ELSE Reap([w EXCEPT
             !.trk = [t EXCEPT !.chan = NoChannel,
                               !.empty = IF @ = 0 /\ connected THEN t.chan.sock ELSE @],
             !.srv.conns = [k \in Ids |-> IF @[k].disc = "live"
                THEN [@[k] EXCEPT !.disc = "destroyed"] ELSE @[k]]])

\* member_service::on_accepted.
AcceptPeer(w, c, k) ==
  [w EXCEPT !.trk.pending = @ \cup {<<c, k>>},
            !.cl[c].conns[k] = SendDown([@ EXCEPT !.far = "open"], "challenge")]

\* on_recvd_login.  challenge_failed answers and closes.  A peer that is listed
\* with another connection is listed with this one, and the other is dropped.
OnLogin(w, c, k) ==
  LET t == GetChannel([w.trk EXCEPT !.pending = @ \ {<<c, k>>}])
      v == [w EXCEPT !.trk = t]
  IN  IF t.chan.on
      THEN Reap([v EXCEPT !.trk.chan.table[c] = k,
                          !.cl[c].conns[k] = SendDown(@, "welcome")])
      ELSE Reap([v EXCEPT !.cl[c].conns[k] = SendDown(@, "error")])

\* on_peer_disconnected and channel::erase; a connection that has not logged in
\* has no handler, and its keeper forgets it later.
\* (Mutant: the member is erased by its id, whichever connection was lost.)
OnPeerGoneById(w, c, k) ==
  [w EXCEPT !.cl[c].conns[k] = FarGone(@),
            !.trk.pending = @ \ {<<c, k>>},
            !.trk.chan.table[c] = 0]

\* Mutant: the member stays in the table.
OnPeerGoneStays(w, c, k) ==
  [w EXCEPT !.cl[c].conns[k] = FarGone(@), !.trk.pending = @ \ {<<c, k>>}]

OnPeerGone(w, c, k) ==
  LET listed == w.trk.chan.table[c] = k
      table == [w.trk.chan.table EXCEPT ![c] = IF listed THEN 0 ELSE @]
  IN  [w EXCEPT !.cl[c].conns[k] = FarGone(@),
                !.trk.pending = @ \ {<<c, k>>},
                !.trk.chan.table = table,
                !.trk.posts = IF listed /\ \A d \in Clients : table[d] = 0
                              THEN @ + 1 ELSE @]

\* start_any_channel for on_recvd_create_channel.  Only a channel that exists
\* registers a handler for the loss of the server's connection.
\* (Mutant: a channel that exists keeps its old socket.)
StartChannelOnce(w, k) ==
  IF w.trk.chan.on THEN w ELSE [w EXCEPT !.trk.chan = NewChannel(k)]

StartChannel(w, k) ==
  IF w.trk.chan.sock = k THEN w
  ELSE IF w.trk.chan.on
       THEN Reap([w EXCEPT !.trk.chan.sock = k, !.srv.conns[k].disc = "live"])
       ELSE [w EXCEPT !.trk.chan = NewChannel(k)]

\* The tracker learns that a connection of the server is gone.  What a destroyed
\* channel's handler does is undefined: nothing, or what it once did.
OnServerGone(w, k) ==
  LET v == [w EXCEPT !.srv.conns[k] = FarGone(@), !.trk.keeper = @ \ {k}]
      d == w.srv.conns[k].disc
  IN  (IF d # "live" \/ w.trk.chan.sock # k THEN {v} ELSE {})
        \cup (IF d = "destroyed" \/ (d = "live" /\ w.trk.chan.sock = k)
              THEN {RemoveChannel(v)} ELSE {})

(***************************************************************************)
(* The server: tracker_session has one connection at a time.               *)
(***************************************************************************)
Sessions ==
  [socket : Ids,            \* urdp_socket_
   timer : BOOLEAN,         \* delay_connect_timer_ is running
   conns : [Ids -> Connections]]

\* connect replaces urdp_socket_, and the old one is destroyed.
ServerConnect(w) ==
  LET k == Min({j \in Ids : /\ w.srv.conns[j] = NoConn
                            /\ j \notin {w.trk.chan.sock, w.trk.empty}})
  IN  [w EXCEPT !.srv.socket = k, !.srv.timer = FALSE,
                !.srv.conns[k] = Connecting("udp")]

(***************************************************************************)
(* The actions.  A fault is paid for out of MaxFaults.                     *)
(***************************************************************************)
Pay(n) == faults + n <= MaxFaults /\ faults' = faults + n

\* The kinds of connection that open; each one that does not is a fault.
PayOpens(ok) == ok \in SUBSET Kinds /\ Pay(Cardinality(Kinds \ ok))

Manager(c, m) == cl' = [cl EXCEPT ![c] = m] /\ UNCHANGED <<srv, trk>>

\* on_timer finds the connection lost or failed.
Retry(c) == \E ok \in SUBSET Kinds :
  /\ cl[c].timer
  /\ MustRetry(cl[c])
  /\ PayOpens(ok)
  /\ Manager(c, OnTimerRetry(cl[c], ok))

\* on_timer finds the login unanswered for too long: a fault of the path or of
\* the tracker.
LoginTimeout(c) == \E ok \in SUBSET Kinds :
  /\ cl[c].timer
  /\ cl[c].state = "logining"
  /\ Pay(1 + Cardinality(Kinds \ ok))
  /\ Manager(c, OnTimerLogin(cl[c], ok))

\* async_connect completes.
Connected(c, k) ==
  /\ cl[c].conns[k].near = "connecting"
  /\ Manager(c, OnConnected(cl[c], k))
  /\ UNCHANGED faults

ConnectFails(c, k) == \E ok \in SUBSET Kinds :
  /\ cl[c].conns[k].near = "connecting"
  /\ Pay(1 + Cardinality(Kinds \ ok))
  /\ Manager(c, ConnectFailed(cl[c], k, ok))

ClientReceives(c, k) ==
  /\ cl[c].conns[k].down # <<>>
  /\ Manager(c, OnLetter(cl[c], k))
  /\ UNCHANGED faults

Stop(c) ==
  /\ ~ cl[c].stopped
  /\ Pay(1)
  /\ Manager(c, [Destroyed(cl[c]) EXCEPT !.stopped = TRUE])

Restart(c) == \E ok \in SUBSET Kinds :
  /\ ~ cl[c].stopped
  /\ Pay(1 + Cardinality(Kinds \ ok))
  /\ Manager(c, Start([cl[c] EXCEPT !.told = FALSE], ok))

PeerPathBreaks(c, k) ==
  /\ cl[c].conns[k].near = "open"
  /\ Pay(1)
  /\ Manager(c, [cl[c] EXCEPT !.conns[k] = Broken(@)])

\* The tracker handles what arrives on a client's connection.
TrackerHearsPeer(c, k) ==
  /\ cl[c].conns[k].up # <<>>
  /\ LET w == [World EXCEPT !.cl[c].conns[k].up = Tail(@)]
     IN  CASE Head(cl[c].conns[k].up) = "syn" -> Become(AcceptPeer(w, c, k))
           [] Head(cl[c].conns[k].up) = "login" -> Become(OnLogin(w, c, k))
           [] OTHER -> Become(OnPeerGone(w, c, k))
  /\ UNCHANGED faults

\* A peer that has not logged in within 20 s is dropped.
PendingExpires(c, k) ==
  /\ <<c, k>> \in trk.pending
  /\ Pay(1)
  /\ Become(Reap([World EXCEPT !.trk.pending = @ \ {<<c, k>>}]))

PostedRemoval ==
  /\ trk.posts > 0
  /\ Become(RemoveChannel([World EXCEPT !.trk.posts = @ - 1]))
  /\ UNCHANGED faults

ServerTimer ==
  /\ srv.timer
  /\ Become(ServerConnect(World))
  /\ UNCHANGED faults

ServerConnected(k) ==
  /\ srv.conns[k].near = "connecting"
  /\ srv' = [srv EXCEPT !.timer = FALSE, !.conns[k] = Established(@, <<"create">>)]
  /\ UNCHANGED <<cl, trk, faults>>

ServerConnectFails(k) ==
  /\ srv.conns[k].near = "connecting"
  /\ Pay(1)
  /\ srv' = [srv EXCEPT !.timer = TRUE, !.conns[k] = NoConn]
  /\ UNCHANGED <<cl, trk>>

ServerDisconnected(k) ==
  /\ srv.conns[k].down # <<>>
  /\ srv' = [srv EXCEPT !.timer = TRUE, !.conns[k] = NearGone(@)]
  /\ UNCHANGED <<cl, trk, faults>>

ServerPathBreaks(k) ==
  /\ srv.conns[k].near = "open"
  /\ Pay(1)
  /\ srv' = [srv EXCEPT !.conns[k] = Broken(@)]
  /\ UNCHANGED <<cl, trk>>

TrackerHearsServer(k) ==
  /\ srv.conns[k].up # <<>>
  /\ LET w == [World EXCEPT !.srv.conns[k].up = Tail(@)]
     IN  CASE Head(srv.conns[k].up) = "syn" ->
                Become([w EXCEPT !.srv.conns[k].far = "open", !.trk.keeper = @ \cup {k}])
           [] Head(srv.conns[k].up) = "create" -> Become(StartChannel(w, k))
           [] OTHER -> \E v \in OnServerGone(w, k) : Become(v)
  /\ UNCHANGED faults

\* on_check_pending_sockets_timer drops what tracker_service accepted 10 s ago,
\* a fault where the request to create the channel is still under way.
KeeperExpires(k) ==
  /\ k \in trk.keeper
  /\ Pay(IF srv.conns[k].up = <<"create">> THEN 1 ELSE 0)
  /\ Become(Reap([World EXCEPT !.trk.keeper = @ \ {k}]))

NewManager ==
  Start([state |-> "init", socket |-> 0, map |-> {}, timer |-> FALSE, failed |-> FALSE,
         told |-> FALSE, stopped |-> FALSE, asserts |-> {},
         conns |-> [k \in Ids |-> NoConn]], Kinds)

Init ==
  /\ cl = [c \in Clients |-> NewManager]
  /\ srv = [socket |-> 1, timer |-> FALSE,
            conns |-> [k \in Ids |-> IF k = 1 THEN Connecting("udp") ELSE NoConn]]
  /\ trk = [chan |-> NoChannel, empty |-> 0, pending |-> {}, keeper |-> {}, posts |-> 0]
  /\ faults = 0

Next ==
  \/ \E c \in Clients : Retry(c) \/ LoginTimeout(c) \/ Stop(c) \/ Restart(c)
  \/ \E c \in Clients, k \in Ids :
       \/ Connected(c, k) \/ ConnectFails(c, k) \/ ClientReceives(c, k)
       \/ PeerPathBreaks(c, k) \/ TrackerHearsPeer(c, k) \/ PendingExpires(c, k)
  \/ PostedRemoval
  \/ ServerTimer
  \/ \E k \in Ids :
       \/ ServerConnected(k) \/ ServerConnectFails(k) \/ ServerDisconnected(k)
       \/ ServerPathBreaks(k) \/ TrackerHearsServer(k) \/ KeeperExpires(k)

Spec == Init /\ [][Next]_vars

\* io_service runs every handler that is ready, a connect ends, and a timer that
\* runs fires.  Stopping, restarting and faults are not fair.
Fairness ==
  /\ \A c \in Clients : WF_vars(Retry(c))
  /\ \A c \in Clients, k \in Ids :
       /\ WF_vars(Connected(c, k))
       /\ WF_vars(ClientReceives(c, k))
       /\ WF_vars(TrackerHearsPeer(c, k))
  /\ WF_vars(PostedRemoval)
  /\ WF_vars(ServerTimer)
  /\ \A k \in Ids : /\ WF_vars(ServerConnected(k))
                    /\ WF_vars(ServerDisconnected(k))
                    /\ WF_vars(TrackerHearsServer(k))
                    /\ WF_vars(KeeperExpires(k))

FairSpec == Spec /\ Fairness

\* The members of tracker_manager, tracker_session, member_service and channel have
\* the values their declarations allow.
TypeOK ==
  /\ cl \in [Clients -> Managers]
  /\ srv \in Sessions
  /\ trk \in Services
  /\ faults \in 0 .. MaxFaults

(***************************************************************************)
(* Safety.                                                                 *)
(***************************************************************************)
\* A client is never connected twice.  While socket_ is set no attempt is under
\* way and no other connection of the client is open, so that no login is sent
\* twice and BOOST_ASSERT(socket_map_.empty()) in on_disconnected holds, whatever
\* timer, connect and disconnect handlers ran before (tracker_manager.cpp:263-269,
\* 334).
OneSocket == \A c \in Clients :
  LET m == cl[c]
  IN  /\ m.socket # 0 => /\ m.map = {}
                         /\ \A k \in Ids \ {m.socket} : m.conns[k].near = "closed"
      /\ Cardinality({k \in Ids : m.conns[k].near # "closed"}) <= 1
      /\ m.asserts \cap {91, 334} = {}

\* A client that believes itself logged in, and is not about to be told that its
\* connection is gone, is in the tracker's table under that very connection: a
\* login that replaces an older one, the loss of an older connection reported late
\* and a channel removed or restored meanwhile do not take it out silently
\* (member_table.cpp:76-90, 764-813; member_service.cpp:236-267).
LoginIsListed == \A c \in Clients :
  LET m == cl[c]
      lost == \E i \in DOMAIN m.conns[m.socket].down :
                m.conns[m.socket].down[i] = "fin"
  IN  m.state = "logined" =>
        /\ m.socket # 0
        /\ lost \/ (trk.chan.on /\ trk.chan.table[c] = m.socket)

\* Whom the tracker lists it can reach: every socket in the member table is open at
\* the tracker, so that relays and broadcasts go to live connections, and no table
\* outlives its channel (member_table.cpp:298-302, 1018-1022).
ListedIsOpen == \A c \in Clients :
  LET k == trk.chan.table[c]
  IN  k # 0 => trk.chan.on /\ cl[c].conns[k].far = "open" /\ <<c, k>> \notin trk.pending

\* BOOST_ASSERT(timer_) in on_disconnected: whenever the connection to the tracker
\* is lost, the timer that will connect again is there (tracker_manager.cpp:328).
TimerIsThere == \A c \in Clients : 328 \notin cl[c].asserts

(***************************************************************************)
(* Liveness, under Fairness.                                               *)
(***************************************************************************)
\* Once faults stop, every client whose timer runs ends up logged in and listed
\* for good, unless the application stopped it or was told that the login failed:
\* no order of lost connections, failed attempts, removals of the channel and
\* reconnections of the server leaves it waiting (tracker_manager.cpp:338-385).
Registered(c) ==
  /\ cl[c].state = "logined"
  /\ trk.chan.on /\ trk.chan.table[c] = cl[c].socket

ClientSettles == \A c \in Clients :
  <>[](cl[c].told \/ cl[c].stopped \/ ~ cl[c].timer \/ Registered(c))

\* Once faults stop, the connection of the media server is open at both ends and
\* is the one the tracker keeps for the channel, in use or set aside: a channel
\* that was removed, restored with an old socket or created beside a stale entry
\* gets its server back (member_service.cpp:236-267, 384-451).
Served ==
  LET k == srv.socket
  IN  /\ srv.conns[k].near = "open" /\ srv.conns[k].far = "open"
      /\ k = IF trk.chan.on THEN trk.chan.sock ELSE trk.empty

ServerSettles == <>[]Served
============================================================================
