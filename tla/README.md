# A verification of p2streaming in TLA+

p2streaming distributes live and on-demand video from a media server to many
clients that also pass the stream on to each other.  This directory holds TLA+
models of its hardest concurrent parts, TLC configurations that check them on
small instances, and TLAPS proofs for all instances.  Every definition was
translated from the C++ code under `src/`; `PROJECT.json` maps each one to its
lines, and lists the hazards of the code with the properties that watch them.

## 1. The system and its parts

| part | code | interacts with | model |
|---|---|---|---|
| URDP: a reliable, message-oriented connection over UDP | `lib/p2engine`: `urdp_flow`, `urdp_acceptor`, `urdp_connection` | shared UDP layer, io_service, application | `UrdpFlow`; its promise: `Connection` |
| sequence-number arithmetic | `wrappable_integer.hpp` | URDP, media packets | `UrdpSeq` |
| shared UDP layer: many flows on one socket | `basic_shared_udp_layer`, `local_id_allocator` | URDP flows and acceptors | what it refuses and answers, in `UrdpFlow` |
| TRDP: the same interface over TCP | `trdp_flow`, `basic_shared_tcp_layer` | application | session id in `Overlay`; the connection as used in `Tracker` |
| peer overlay: which peers a client knows, tries and is connected to | `lib/client`: `overlay`, `neighbor_map`, `peer`, `peer_connection` | URDP, TRDP, client service, tracker | `Overlay` |
| stream topology: choking and black list | `client/stream/stream_topology` | overlay, scheduling | `Overlay` |
| client service: peer registry, logins, offline notices | `client_service` | overlay, tracker session | `Overlay` (registry, posts, restarts) |
| tracker session of a client | `tracker_manager` | tracker, client service | `Tracker` |
| tracker: channels and their members | `lib/tracker`: `member_service`, `member_table`, `tracker_service` | clients, servers | `Tracker` (one channel) |
| media server | `lib/server` | tracker, clients | its `tracker_session`, in `Tracker` |
| packet buffer | `common/packet_buffer` | scheduling | `PacketBuffer` |
| stream scheduling, buffer manager, pull strategy | `client/stream` | neighbors, packet buffer, dispatcher | `StreamScheduling` |
| media dispatchers | `client/stream/media_dispatcher` and its subclasses | scheduling, player | `StreamScheduling`; their promise: `Playback` |

The other parts are in section 8.

Everything that belongs to one client runs on one `io_service`, one handler at a
time.  Concurrency comes from the order of handlers: datagrams, timers, posted
operations and calls of the application interleave freely, and the two ends of a
connection are different programs on different machines.  So an action of the
models is one handler run to its end, everything it calls included.

The models stand on each other where the code does.  `UrdpFlow` is shown to
implement `Connection`, in which messages arrive in order, each once, and an end
opens once and ends once; `Overlay` and `Tracker` use connections of that kind.
`StreamScheduling` is built on `PacketBuffer` and is shown to implement
`Playback`, which is all that a player sees of it.

## 2. URDP: `UrdpSeq`, `UrdpFlow`, `Connection`, `MCUrdpFlow`

`UrdpSeq` is the unsigned arithmetic of `wrappable_integer.hpp` modulo `M`
(2^32 in the code): sums and differences wrap, and the comparisons look at the
sign of the difference.

`UrdpFlow` is one connection: the active flow `A`, the passive flow `P`, P's
acceptor and the network.

* `flow[e]` is the `urdp_flow` object; its fields have the names of the code
  (`snd_una`, `snd_nxt`, `slist`, `retrans` for `m_retrans_slist`, `rcv_nxt`,
  `rlist`, `t_rto_base`, ...).  Fields at the end of the record are history: what
  the application was told.
* `net[e]` is the set of datagrams ever sent to e.  Delivery does not remove one,
  so each may arrive never, once or many times, in any order; with `Lossy` one
  may also disappear, which matters for liveness only.
* `acc` is the acceptor: listening, closed or destroyed, accepting or blocked.

Each method is an operator from a flow to a flow (`Queue`, `AttemptSend`,
`OnNewAck`, `OnData`, `CloseFlow`, `AllertReadable`, ...).  The actions are the
handlers: a datagram (`__process`), the clock (`__on_clock`), a posted receive or
writable alert, and the calls of the application (connect, send, close, abort,
keep and block receiving or accepting, close and destroy the acceptor, punch).

Abstractions.  A sequence number counts segments, not bytes: `__queue` starts a
segment for each message, and segments are retransmitted unchanged, so
acknowledging and trimming happen at the same places.  Congestion window and RTT
are left out, since `__attempt_send` always drains the queue: they only move
deadlines, and a deadline may pass at any time.  Counters that are only compared
with a limit saturate there.

| run | instance | checks |
|---|---|---|
| `transfer` | two messages, either end closes, repeats and reordering | `TypeOK`, `SenderBookkeeping`, `SequenceAgreement`, `FinAfterEverything`, `TeardownIsMutual`, `ImplementsConnection` |
| `window` | a receiver that blocks, a window of one segment, a ping among the data | `SequenceAgreement`, `AckedIsHeld` |
| `setup` | a connect that gives up at its deadline or transmission limit, or is answered late; an acceptor that is blocked, closed or destroyed; abort, punching; equal flow numbers | `OneOutcome` |
| `live_data` | a lossy network that does not lose every copy | `MessagesArrive`, `WritableAgain` |
| `live_close` | silence, deadlines that pass, either end closes | `FinAfterEverything`, `SilentAfterClose`, `ConnectEnds`, `CloseEnds` |

What they show: the sender's lists, counters and timer agree in every
interleaving; neither end is ever ahead of what the other sent; an acknowledged
message is not lost when the reader is slow; a FIN never overtakes data; a connect
has one outcome and a close is the end of upcalls.  `ImplementsConnection` is the
refinement: phase, messages sent and messages delivered of the two flows behave as
`Connection` says, so messages are delivered in order, none twice and none left
out, nothing is delivered before an end opens or after it ended, and the passive
end opens only after the active one.  It holds while the numbers do not wrap.  That no
end tears down a connection its other end considers healthy (`TeardownIsMutual`)
holds for connections without punches whose acceptor stays open.

Bounds.  Two messages are the fewest that can be reordered or half acknowledged;
a receive buffer of one or two segments fills; one ping takes a number between
two messages; retry limits of one make every "give up" reachable.  `M` = 32 is far
larger than what is in flight, as 2^32 is.  In `window` a buffer of one segment
keeps the run short; both properties were also checked with `RecvBuf` = 2, once
with two messages and a ping (320,683 states) and once with three messages
(319,119 states).  `GiveUp`, the passing of deadlines of silence, is on in `setup`,
where a failed connect races its answer, and in `live_close`.  It is off in
`transfer` to keep that run short, so that a flow ends there by a close of its own
application or of its peer's; the six properties of `transfer` were also checked
with it on (754,768 states).

Fairness.  `TimerSpec` (for `live_close`): the application connects, what is posted
runs, and each timer that is armed fires at last, the retransmission timer both
when the peer was heard and when it was silent, since the io_service runs every ready
handler and `__on_clock` is rescheduled as long as a timer is armed.  Connect and
close end by timers alone.  `FairSpec` (for `live_data`, with `GiveUp` off) adds
that a datagram sent again and again arrives at last (strong fairness of the
deliveries that change something), the least one must ask of a network.

Statements of comments and assertions that the code does not keep.  They are
defined at the end of `UrdpFlow` (or are properties above), and TLC refutes each
within seconds on the instance given; all other constants are as in `transfer`.

| statement | place | what happens | instance |
|---|---|---|---|
| `EstablishedIsAccepted` | `urdp_flow.cpp:1673` | a message that overtakes the last acknowledgement of the handshake establishes the passive flow, which finds that it has no socket and closes itself; the acceptor never hears of it | one message, calls `send` |
| `RecvHasSocket` | `urdp_flow.cpp:844` | a flow established while its acceptor does not accept reads without a socket | no message, calls `noaccept` |
| `ImplementsConnection` | `urdp_flow.cpp:1499` | old data is recognised with a plain `<`; after the numbers wrap an old duplicate is delivered again | `M` 16, `IssA` 14, `RecvBuf` 4, `SndBuf` 5, calls `send` |
| `TransmitHasSegment` | `urdp_flow.cpp:1413`, `1768` | the end of fast recovery is found with a plain comparison; after a wrap it is never found | the same with `IssA` 13 |
| `ReceiveBufferBound` | `urdp_flow.cpp:1515` | the room for a segment is measured from `m_rcv_nxt`, without counting what the application has not yet read | three messages, calls `send`, `block` |
| `TeardownIsMutual` with punches | `urdp_flow.cpp:444` | a punch packet has the 12 bytes of the basic header, less than the 24 `__process` requires, so it is answered with a reset that ends the connection being set up | no message, calls `punch` |
| `TeardownIsMutual` with a closing acceptor | `basic_shared_udp_layer.cpp:583` | a repeated CONNECT is refused on behalf of the closed acceptor, and the refusal reaches a flow that is established | no message, calls `unlisten` |

## 3. The overlay: `Overlay`, `OverlayProofs`, `MCOverlay`

A client keeps the peers it knows in tables: `members_` (candidates),
`pending_peers_` (being connected to), `unreachable_members_` (failed three
times), `neighbors_conn_` (connected).  `client_service` owns the `peer` objects
and, since it may be called from inside the overlay, posts its changes.

* `node[n]` holds the tables of peer n, the registry of its client service, the
  posted operations and the failure counts of its `peer` objects.  Objects are
  numbered, because after an offline notice a peer gets a new object while an old
  attempt may still hold the former one.
* `conns[c]` is one connection with its active and its passive end, the object
  each end is bound to, and the messages on their way in each direction.  A
  connection is reliable and ordered, which is what `UrdpFlow` shows; its path may
  be lost, and then each end notices by itself.
* `yielded` records which connection an end closed in a conflict, `failed` the
  assertions that did not hold.

Operators are the methods of `overlay.cpp` (`ToNeighbor`, `MemberToPending`,
`PendingToMember`, `NeighborToMember`, `EraseOfflinePeer`, `TryShrink`, ...).
Actions: learning of a peer, an offline notice, a posted operation, success or
failure of a stage of `__async_connect_peer` (direct, NAT punching, TCP, nothing
left), accepting, a handshake or FIN, a lost path, expiry of sockets and timed
entries, the maintainer timer, a badly signed media packet, and the restart that
every login brings.  Which member is tried, which neighbor is choked and whether
the loss rate permits new connections is left open.

| run | instance | checks |
|---|---|---|
| `overlay` | two peers, three connections, two objects each, one of: lost path, restart, offline notice | `TypeOK`, `AssertsHold`, `TablesDisjoint`, `PendingIsConnecting`, `OwnNeighbor`, `UrdpConflictKeepsOne`, `NeighborsAgree` |
| `crowd` | three peers, two of which want the only place of the third; one event | `NeighborsBounded`, `OwnNeighbor`, `NeighborsAgree` |

They show that, whatever is posted meanwhile, a peer is in at most one of members,
unreachable members and neighbors, and no neighbor is pending (no more is
claimed of pending peers); that, at a node that was not restarted, a pending
entry belongs to an attempt under way; that the neighbor table matches the open
connections, so that removing a neighbor by its id on a disconnect is right; that
the limit of neighbors holds; that two peers which connect to each other at once
do not close both connections, if one of them at least is a URDP flow; and that
they agree on the one that is left once nothing is on its way.

Bounds.  Two peers suffice for a conflict, three connections for one conflict and
a retry, or for three failures (unreachable); the third peer of `crowd` is what
choking needs, and a limit of one neighbor makes every place contested.  Session
ids are such that the older connection wins against the second and loses against
the third.  Two peers are interchangeable in `overlay` (symmetry); in `crowd` they
are not, since the tracker names only one.  440,731 and 74,164 states.  Two URDP session ids are random 16-bit
numbers, assumed different; equal ones behave like two TCP connections.

Not claimed:

* `OwnNeighbor` for clients that know more than `MaxPeers` peers (3050 in the code, more
  than there are in the runs): `on_recvd_handshake` then closes a connection that the
  table may still list, until the maintainer timer drops it (`overlay.cpp:283`).
* `ConflictKeepsOne`, the same for all connections (`overlay.cpp:1021`): the
  session id of a TCP connection is the node's own address, equal for both
  connections of a conflict.  The comparison is a tie at both ends, each replaces
  what it has by what it got last, and both connections are closed.  TLC shows it
  with the constants of `overlay`, without symmetry and with `FirstStages` =
  `{"tcp"}`.
* The assertion at `overlay.cpp:1111`, that a peer with fewer than three failures is
  not among the unreachable ones.  It fails if an attempt holding a peer's former
  object outlasts the 50 s of the offline entry: the attempt then counts failures on
  one object while the table holds another.  How long a chain of attempts takes
  depends on how many addresses are tried, and `try_keep` does not renew the entry;
  a model without a clock cannot decide it.
* Liveness: whether a peer is tried again depends on the tracker or a neighbor
  naming it again, which is chosen freely here.

## 4. Tracker and logins: `Tracker`, `MCTracker`

Clients find each other through the tracker: a client connects, answers a
challenge, logs in to a channel and stays listed while its connection lives.  The
media server connects too and creates the channel.  A channel without members, or
without its server, is removed; its server's socket is set aside, and the channel is restored from
it when somebody asks for it again.

* `cl[c]` is the `tracker_manager` of client c: its state, `socket_`,
  `socket_map_` (attempts under way), `timer_`, whether an attempt failed, and its
  connections.  History fields record what the application was told, whether it
  left, and which BOOST_ASSERTs failed.
* `srv` is the server's `tracker_session` with its connections.
* `trk` is the tracker: the channel with its member table and server socket, the
  `empty_channels_` entry, the two tables of connections that have not yet logged
  in or created a channel, and the removals posted and not yet run.
* A connection holds the messages under way in each direction and what each end
  knows of it.  An outage loses what is under way; each end notices at its own time.
  A socket that nobody owns any more is destroyed, which closes it (`Reap`).

Actions: the retry timer and the login timeout of the client, completion or
failure of a connect by one kind of connection and then the other, every message
and disconnect at either end, stop and restart of the client, expiry of pending
connections, the posted removal of a channel, the server's reconnect timer.  The
handler of a channel that was destroyed stays registered on its server's connection;
what it then does is undefined, so it does nothing or what it once did.  Requests for
peers, reports and broadcasts change nothing of this state and are left out, and so
is logout, which no client sends.

| run | instance | checks |
|---|---|---|
| `tracker` | two clients and the server, three connections each at a time, two faults | `TypeOK`, `OneSocket`, `LoginIsListed`, `ListedIsOpen`, `ClientSettles`, `ServerSettles` |
| `v_login` | one client, three faults | `TimerIsThere` is violated |

A fault (an outage, a connect that fails, a kind of connection that does not open, a
login or pending connection that times out, a stop, a restart) is paid for out of
`MaxFaults`.  Two of them make every pair of mishaps happen in every order; two
clients are needed for a channel that empties while another logs in; three
connections let an old one linger at the tracker while a new one is in use and a
third is tried.  227,070 states.

They show that a client never has two connections at a time; that a client which
believes itself logged in is listed under that very connection, or will be told;
that listed connections are open at the tracker.  When the faults end, every client
whose timer runs is logged in and listed for good, unless its application left or was
told that the login failed, and the channel has its server's connection.

Fairness: the io_service runs every handler that is ready, a connect ends, and a
running timer fires.  Stopping, restarting and all faults are not fair.

`v_login` (`tracker_manager.cpp:362`): a login that times out is handled with
`do_stop`, which drops `timer_`, and a new attempt, which starts none.  If that
attempt fails, or its connection is lost later, nothing tries again, and
`BOOST_ASSERT(timer_)` in `on_disconnected` fails.  `ClientSettles` therefore speaks
of clients whose timer runs.

Seen while modelling, beyond what is checked: with `b_tracker_using_rtcp` off the
attempt after a login timeout uses neither kind of connection; the first server
socket of a channel gets no disconnect handler, so the channel outlives its server
until its members leave.

## 5. The stream: `PacketBuffer`, `StreamScheduling`, `Playback`, `MCStreamScheduling`

`PacketBuffer` is the memory of recent pieces: the ring `media_packets_`, the ordered
list that evicts, and the bitmap sent to neighbors, three structures that
`insert` keeps in step by hand.

`StreamScheduling` is what one client fetches and plays, a live stream or a film.

* `care` is the player's next piece, `know` the largest known one.
* `idle` and `asked` are the two lists of absent pieces, `due` those whose time to be
  asked for (again) has come, `must` those whose request failed once.
* `buf` is the packet buffer, `wire` the answers a film may still get.
* `ready`, `started` and `out` are the dispatcher: pieces waiting for the player,
  whether it plays, and the piece it was last given.

Actions: a buffermap of a neighbor or of the server, the timer by which a film lists
its next pieces, a media packet (asked for, late, repeated, pushed, or read from the
disk cache), a confirmation, a "no piece" answer, the pull timer with its check of
timeouts, a request out of time, a lost answer, the start of the player, a piece
played, a live gap closed by error correction, and a reset (a seek, or a server that
started anew).

Abstractions.  Pieces are numbered from 1 and do not wrap.  Which neighbor is asked,
and every score and rate that only orders or delays requests, is left open: any piece
whose time has come may be asked for.  A live stream may be sent any piece at any
time; a film only gets what was asked for.  Time stamps grow with the numbers, so an
age is a number of pieces.  The ring has 2048 slots for a film, for a live stream a
power of two by its bit rate; the ring of request states has 32768 entries, so no two
pieces of interest share one, while two pieces of the window may share a slot of the
packet buffer: the window is one piece longer than the ring.

`Playback` is the promise to the player: pieces in order, each once, a film from
where it was started and without a gap, a live stream never backwards.

| run | instance | checks |
|---|---|---|
| `stream` | film of three and live stream of four pieces, ring of two slots, one reset | `TypeOK`, `AbsentIsAbsent`, `HeldIsListed`, `LiveKnownIsTracked`, `WaitingIsAhead`, `ImplementsPlayback`, `FilmStallsOnlyUnasked` |
| `v_first` | a film | `FilmKnownIsTracked` is violated |
| `v_buffermap` | a film of four pieces | `HeldIsAdvertised` is violated |

Bounds.  A ring of two slots is overrun by three pieces, so eviction, aliasing and
refusal beyond the window all happen; with two starting points a seek goes forward
and back; windows, chunks and back-fetch of one make every limit bind.  117,475
states.  The safety properties were also checked on larger instances: live streams
of five pieces (573,462 states), and both kinds with four pieces (943,785 states).

Fairness (for `FilmStallsOnlyUnasked`): the timers of scheduling and dispatcher come
again and again; the pull timer asks for a piece that stays due, which supposes that
a neighbor is known to own it or that the client may ask the server; a piece asked
for again and again arrives.  Even so a film plays to its end only if there is
always a piece left to ask for: `on_pull_timer` returns before it looks at the
timeouts when no piece waits to be asked for (`heuristic_scheduling_strategy.cpp:723`),
so that lost answers to the last requests of a film are not noticed.  The property
says that a film which stalls, for this reason or for that of `v_first`, is one for
which nothing waits to be asked for: while something does, lost requests and
answers only delay it.

The violations:

* `v_first` (`buffer_manager.cpp:438`): a neighbor's map that ends just before the
  player's next piece raises the largest known piece to that piece without listing
  it, and the timer goes on after it.  The film waits for a piece it never asks for.
  The comment at `buffer_manager.cpp:45` names this danger and means to exclude it.
* `v_buffermap` (`packet_buffer.cpp:112`): the list holds one entry more than the ring
  has slots.  Evicting an entry whose slot was taken over by a newer packet clears the
  slot's bit, and neighbors are not told of the newer packet; the debug assertion
  "bitset=0 but has!" of `get_buffermap` says the contrary.

## 6. What is proved

`UrdpFlowProofs`: `THEOREM SenderBookkeepingHolds == Spec => []SenderBookkeeping`, for
every number space, initial sequence numbers, bounds and set of calls that satisfy
the assumptions of `UrdpSeq` and `UrdpFlow`.  The assumption that matters: all that a
flow numbers in a behaviour (messages, pings and two handshake segments) is less than
half the number space.  The numbers themselves may wrap.

`SenderBookkeeping` is not inductive.  The invariant `Inv` adds, for each flow,
the types of the fields it speaks of; that the list of unacknowledged segments is
no longer than what was ever numbered, hence shorter than half the number space,
without which an acknowledgement "between `m_snd_una` and `m_snd_nxt`" need not be
inside the list; that a closing flow is canceled, so no upcall stops its timer; and
that all datagrams under way are well formed.  Inside a handler the condition on
closing flows is suspended (`Handling`).  One lemma per method shows that it keeps
the invariant of its flow; `NextInv` combines them, one step per action.

`StreamSchedulingProofs`, for every ring, film, window and number of resets that
satisfy `BufferAssumption` and `StreamAssumption` (sizes are positive, a stream may
be joined only where it has pieces):

* `NothingAskedTwice == Spec => []AbsentIsAbsent`;
* `BufferIsBounded == Spec => []HeldIsListed`;
* `LiveForgetsNothing == Spec => []LiveKnownIsTracked`;
* `PlayerIsServed == Spec => ImplementsPlayback`, the refinement.

Their common invariant `Inv` joins the types, `BufferInv` (each packet is in its own
slot and has an entry in the list, which outgrows the ring by one at most),
`AbsentIsAbsent`, `LiveKnownIsTracked`, `WaitingIsAhead`, and two conditions found
for the proof: a packet in memory at or after the player's next waits for the
player (`HeldWaits`), without which a piece that is refused as present could be one
nobody will play, and what a film was last given is just before its next piece
(`FilmFollows`).  Lemmas about `Insert` come first, then one lemma
per action, combined in `StepInv`.  `PlaybackStep` maps each step to a step of
`Playback` or to a stutter.

`OverlayProofs`, for every finite set of peers, every number of connections, objects
and events, all session ids and all limits that satisfy `OverlayAssumption`:

* `TablesAreDisjoint == Spec => []TablesDisjoint`;
* `NeighborsAreBounded == Spec => []NeighborsBounded`;
* `TheAssertsHold == Spec => []AssertsHold`, for the assertions at `overlay.cpp:1003`
  and `1077`.

None of them is inductive.  That `to_neighbor` does not meet the connection it is given
(line 1003) depends on when an end was bound to a peer, so the invariant `Inv` says for
each node (`WInv`): the tables have their shapes and are disjoint; a connection that is
bound at the node is listed as its peer's, if it is listed at all, and a connection
listed or about to be closed was bound and leads to that peer (`OwnAt`); at most
`MaxNeighbors` are listed; no assertion has failed.  While `to_neighbor` runs, one
connection is bound and not yet listed: `WInv` has a parameter for those, empty between
handlers.  A handler of one node also changes the connections it shares with others
(by a message or a FIN); `Frame` says what it leaves alone, and `Foreign` that this is
all the invariant of another node needs.  One lemma per method shows that it
keeps `WInv` and `Frame`, one per action that the action keeps `Inv`; `StepInv`
combines them.  The proof is in five modules, each extending the one before:
`OverlayInvProofs` (the invariant; closing, removing a neighbor),
`OverlayNeighborProofs` (choking, `to_neighbor`), `OverlayMemberProofs` (the other tables,
opening connections), `OverlayActionProofs` (from one node to all; half of the actions),
`OverlayProofs` (the other actions, the theorems).

Only model-checked: the other properties of `Overlay` and of `UrdpFlow`
(`ImplementsConnection` included), those of `Tracker`, and all liveness properties,
which are out of the prover's reach.

## 7. Reading the runs

`tlc -config X.cfg M` checks a run, with the module `PROJECT.json` names for it;
`tlapm M.tla` checks the proofs of a module.  The runs stop where nothing
is left to do (all messages sent, all connections used, a film played), so deadlock
is not an error in any of them.  Operators marked "Mutant" are wrong variants of the
operator after them; `PROJECT.json` says which property each of them violates.

## 8. Not modelled

* Sub-stream subscriptions, the push half of the scheduling.  They have hazards of
  their own: an unsubscribed sub-stream is reset after a delay
  (`stream_scheduling.cpp:2275`), by when it may have been subscribed to again.  In
  `StreamScheduling` a pushed piece may arrive at any time, so the properties there do not depend
  on it.
* What a client sends to others, the choice of neighbors, delay adaptation and the
  smoother: they choose moments and partners, which the models leave open.
* TRDP below the connection it offers: TCP does the reliable part.
* The thread, acceptor table and reuse of flow numbers of the shared UDP layer, and
  the unreliable and partially reliable sends of URDP.
* Hub topology: the overlay without choking, and relayed text messages.
* Tracker: room broadcasts, the choice of peers in a reply and the cache tables.
  Media server: distribution and choice of seeds.  Simple server, shunt, cache
  service, upload monitor: streams of bytes and periodic reports with no handshake.
* Timers, keepers and operation marks have no module; their effect is part of the
  models (a timer armed once at a time, entries that expire, canceled operations).
* Error correction, signatures, parsers: pure functions on byte strings.  Error
  correction appears by its effect, a piece restored.
* HTTP, files, pools, disk cache, downloads, UPnP, STUN, control programs and
  databases: input and output, partly vendored.
* Nothing is persisted by the modelled parts, so there is no crash recovery to model:
  a client or server that crashes is a connection that is lost and a restart.
