------------------------------ MODULE Overlay ------------------------------
(***************************************************************************)
(* The peer-to-peer overlay of the client (client/overlay.cpp): how a node *)
(* moves the peers it knows between its tables (members_, pending_peers_,  *)
(* unreachable_members_, neighbors_conn_), opens connections to members,   *)
(* accepts connections of others, and resolves the conflict when two peers *)
(* connect to each other at the same time.  client_service owns the peer   *)
(* objects and posts table changes to the io_service.                      *)
(*                                                                         *)
(* Each method is an operator from a world to a world.  A world w, seen    *)
(* from node n, holds the tables of n (w.t), all connections (w.conns),    *)
(* the conflicts decided so far (w.yielded) and the assertions that did    *)
(* not hold (w.failed).                                                    *)
(*                                                                         *)
(* A peer object (class peer) is a number: the k-th object that n created  *)
(* for the peer; 0 stands for no object and for no table entry.  The       *)
(* connections are reliable and ordered (module UrdpFlow); a path may be   *)
(* lost, after which both ends notice by themselves.                       *)
(***************************************************************************)
EXTENDS Integers, Sequences, FiniteSets, FiniteSetsExt

CONSTANTS
  Nodes,         \* the peers of one channel
  Named,         \* the peers the tracker names to others; the rest are met as they connect
  MaxConns,      \* bound: connections opened in a behaviour
  MaxObjects,    \* bound: peer objects a node creates for one peer
  MaxEvents,     \* bound: lost paths, restarts and offline notices in a behaviour
  MaxPeers,      \* MAX_PEER_CNT_PER_ROOM + 50
  MaxNeighbors,  \* max_neighbor_cnt_
  ManyMembers,   \* size of members_ above which a choked peer is forgotten
  FirstStages,   \* where __async_connect_peer begins: "direct", "punch", "tcp", "none"
  Interactive,   \* is_interactive_category(type)
  Session        \* Session[c]: session id of the URDP flow of connection c

Conns == 1 .. MaxConns
MaxSession == 65535     \* a URDP session id has 16 bits

ASSUME OverlayAssumption ==
  /\ IsFiniteSet(Nodes)
  /\ MaxConns \in Nat /\ MaxObjects \in Nat \ {0} /\ MaxEvents \in Nat
  /\ MaxPeers \in Nat /\ MaxNeighbors \in Nat \ {0} /\ ManyMembers \in Nat
  /\ Named \subseteq Nodes
  /\ FirstStages \subseteq {"direct", "punch", "tcp", "none"}
  /\ Interactive \in BOOLEAN
  /\ Session \in [Conns -> 0 .. MaxSession]

VARIABLES node, conns, yielded, failed
vars == <<node, conns, yielded, failed>>

Objects == 0 .. MaxObjects
Table == [Nodes -> Objects]

\* The tables of one node: those of the overlay, and client_service's
\* peers_, offline_peers_keeper_ and the operations it posted.
Tables ==
  [members: Table, pending: Table, unreachable: Table,
   neighbors: [Nodes -> 0 .. MaxConns],
   black: SUBSET Nodes,                      \* low_capacity_peer_keeper_
   closing: 0 .. MaxConns,                   \* prepare_closing_connections_
   peers: Table, made: Table, offline: SUBSET Nodes,
   marks: [Nodes -> [Objects -> 0 .. 3]],    \* unreachable_mark_cnt_, 3 for more
   posts: Seq([op: {"known", "erase"}, id: Nodes, obj: Objects]),
   restarts: 0 .. MaxEvents,                 \* new logins at the tracker
   notices: 0 .. MaxEvents]                  \* times the tracker called a peer offline

\* One connection: its active end (at from) and its passive end (at to), the
\* peer object each end is bound to, and the messages on their way.
Connections ==
  [from: Nodes \cup {"nobody"}, to: Nodes \cup {"nobody"}, stage: {"direct", "punch", "tcp"},
   active: {"free", "connecting", "open", "loose", "closed"},
   passive: {"none", "accepted", "bound", "closed"},
   fromObj: Objects, toObj: Objects,
   toActive: Seq({"handshake", "fin"}), toPassive: Seq({"handshake", "fin"}),
   lost: BOOLEAN]

Free == [from |-> "nobody", to |-> "nobody",
         stage |-> "direct", active |-> "free", passive |-> "none",
         fromObj |-> 0, toObj |-> 0, toActive |-> <<>>, toPassive |-> <<>>,
         lost |-> FALSE]

----------------------------------------------------------------------------
(* Connections, as seen from one of their ends *)

Peer(w, n, c) == IF w.conns[c].from = n THEN w.conns[c].to ELSE w.conns[c].from
ObjOf(w, n, c) == IF w.conns[c].from = n THEN w.conns[c].fromObj ELSE w.conns[c].toObj

IsConnected(w, n, c) ==
  IF w.conns[c].from = n THEN w.conns[c].active \in {"open", "loose"}
                         ELSE w.conns[c].passive \in {"accepted", "bound"}

\* Mutant: every flow reports the address of its own end.
SessionIdOfNode(w, c) == MaxSession + 1

\* A TRDP flow reports the IPv4 address of its own end, which exceeds every
\* 16-bit URDP session id and is the same for all flows of the node.
SessionId(w, c) == IF w.conns[c].stage = "tcp" THEN MaxSession + 1 ELSE Session[c]

\* n sends m; a closed end receives nothing.
SendOn(w, n, c, m) ==
  IF w.conns[c].from = n
  THEN IF w.conns[c].passive = "closed" THEN w
       ELSE [w EXCEPT !.conns[c].toPassive = Append(@, m)]
  ELSE IF w.conns[c].active = "closed" THEN w
       ELSE [w EXCEPT !.conns[c].toActive = Append(@, m)]

\* Mutant: the other end is not told.
CloseConnSilently(w, n, c) ==
  IF w.conns[c].from = n
  THEN [w EXCEPT !.conns[c].active = "closed", !.conns[c].toActive = <<>>]
  ELSE [w EXCEPT !.conns[c].passive = "closed", !.conns[c].toPassive = <<>>]

\* close() and the destructor: the end falls silent, the other end is told.
CloseConn(w, n, c) ==
  LET v == SendOn(w, n, c, "fin")
  IN  IF w.conns[c].from = n
      THEN IF w.conns[c].active = "closed" THEN w
           ELSE IF w.conns[c].active = "connecting"
                THEN [w EXCEPT !.conns[c].active = "closed", !.conns[c].passive = "closed"]
                ELSE [v EXCEPT !.conns[c].active = "closed", !.conns[c].toActive = <<>>]
      ELSE IF w.conns[c].passive = "closed" THEN w
           ELSE [v EXCEPT !.conns[c].passive = "closed", !.conns[c].toPassive = <<>>]

\* alive_probability() == 0 is only seen on a lost path.
SeemsDead(w, n, c, dead) == ~ IsConnected(w, n, c) \/ (dead /\ w.conns[c].lost)

----------------------------------------------------------------------------
(* The tables *)

Neighbors(w) == {q \in Nodes : w.t.neighbors[q] # 0}
Members(w) == {q \in Nodes : w.t.members[q] # 0}
Unreachable(w) == {q \in Nodes : w.t.unreachable[q] # 0}
Pending(w) == {q \in Nodes : w.t.pending[q] # 0}

\* Mutant: one neighbor more is let in.
Overfull(w) == Cardinality(Neighbors(w)) > MaxNeighbors

Full(w) == Cardinality(Neighbors(w)) >= MaxNeighbors

\* insert and try_keep leave an entry that is there already as it is.
InsertMember(w, q, obj) ==
  [w EXCEPT !.t.members[q] = IF @ = 0 THEN obj ELSE @]

DropNeighbor(w, n, q) ==
  IF w.t.neighbors[q] = 0 THEN w
  ELSE [CloseConn(w, n, w.t.neighbors[q]) EXCEPT !.t.neighbors[q] = 0]

\* erase_offline_peer and erase_low_capacity_peer do the same
EraseOfflinePeer(w, n, q) ==
  [DropNeighbor(w, n, q) EXCEPT
     !.t.members[q] = 0, !.t.pending[q] = 0, !.t.unreachable[q] = 0]

NeighborToMember(w, n, q, obj) ==
  LET v == [w EXCEPT !.t.marks[q][obj] = 0]
  IN  IF q \in w.t.offline THEN EraseOfflinePeer(v, n, q)
      ELSE InsertMember([DropNeighbor(v, n, q) EXCEPT
                           !.t.unreachable[q] = 0, !.t.pending[q] = 0], q, obj)

\* Mutant: the choked neighbor loses its connection only.
TryShrinkHalf(w, n, k) ==
  IF k = 0 THEN w
  ELSE IF w.t.closing = 0
  THEN IF \E q \in Neighbors(w) : w.t.neighbors[q] = k
       THEN [w EXCEPT !.t.closing = k] ELSE w
  ELSE IF k # w.t.closing THEN w
  ELSE [CloseConn(w, n, k) EXCEPT !.t.closing = 0]

\* stream_topology::try_shrink_neighbors; k names the connection chosen to be
\* closed, or the one whose time to be closed has come, or is 0.
TryShrink(w, n, k) ==
  IF k = 0 THEN w
  ELSE IF w.t.closing = 0
  THEN IF \E q \in Neighbors(w) : w.t.neighbors[q] = k
       THEN [w EXCEPT !.t.closing = k] ELSE w
  ELSE IF k # w.t.closing THEN w
  ELSE IF ~ IsConnected(w, n, k) THEN [w EXCEPT !.t.closing = 0]
  ELSE LET q == Peer(w, n, k)
           v == NeighborToMember(CloseConn(w, n, k), n, q, ObjOf(w, n, k))
           u == IF Cardinality(Members(v)) > ManyMembers
                THEN [EraseOfflinePeer(v, n, q) EXCEPT !.t.black = @ \cup {q}] ELSE v
       IN  [u EXCEPT !.t.closing = 0]

\* A peer that becomes a neighbor leaves the other tables.
Enter(w, q, obj) ==
  [w EXCEPT !.t.marks[q][obj] = 0, !.t.unreachable[q] = 0,
            !.t.members[q] = 0, !.t.pending[q] = 0]

MakeRoom(w, n, k) == IF Full(w) THEN TryShrink(w, n, k) ELSE w

\* Of two connections between the same peers n closes one.
Yield(w, n, shut, kept) ==
  [w EXCEPT !.yielded = @ \cup {[at |-> n, shut |-> shut, kept |-> kept]}]

\* Mutant: the connection that is replaced stays open.
ReplaceOnly(w, n, q, old, c) ==
  [ok |-> TRUE, w |-> [w EXCEPT !.t.neighbors[q] = c]]

\* to_neighbor: the world it leaves and whether c is a neighbor's now
Replace(w, n, q, old, c) ==
  [ok |-> TRUE, w |-> [CloseConn(w, n, old) EXCEPT !.t.neighbors[q] = c]]

ToNeighbor(w, n, c, k, dead) ==
  LET q == Peer(w, n, c)
      obj == ObjOf(w, n, c)
      old == w.t.neighbors[q]
      v == Enter(w, q, obj)
      u == MakeRoom(v, n, k)
  IN  IF old = c THEN [ok |-> FALSE, w |-> [v EXCEPT !.failed = @ \cup {1003}]]
      ELSE IF old # 0
      THEN IF SeemsDead(w, n, old, dead) THEN Replace(v, n, q, old, c)
           ELSE IF SessionId(w, c) < SessionId(w, old)
           THEN [ok |-> FALSE, w |-> Yield(CloseConn(v, n, c), n, c, old)]
           ELSE Replace(Yield(v, n, old, c), n, q, old, c)
      ELSE IF Full(u)
      THEN [ok |-> FALSE, w |-> InsertMember(CloseConn(u, n, c), q, obj)]
      ELSE [ok |-> TRUE, w |-> [u EXCEPT !.t.neighbors[q] = c]]

\* member_to_pending, for the new connection of the attempt
MemberToPending(w, q, obj) ==
  IF w.t.neighbors[q] = 0
  THEN [w EXCEPT !.t.members[q] = 0, !.t.pending[q] = obj]
  ELSE [w EXCEPT !.t.members[q] = 0, !.failed = @ \cup {1077}]

\* client_service::on_known_offline_peer
OnKnownOfflinePeer(w, q) ==
  LET v == [w EXCEPT !.t.posts = Append(@, [op |-> "erase", id |-> q, obj |-> 0])]
  IN  IF w.t.peers[q] = 0 THEN v
      ELSE [v EXCEPT !.t.peers[q] = 0, !.t.offline = @ \cup {q}]

ToUnreachable(w, q, obj) ==
  [w EXCEPT !.t.members[q] = 0, !.t.unreachable[q] = IF @ = 0 THEN obj ELSE @]

\* Mutant: a peer that fails for the third time stays pending.
PendingStays(w, n, q, obj) ==
  LET mark == IF w.t.marks[q][obj] = 3 THEN 3 ELSE w.t.marks[q][obj] + 1
      u == [w EXCEPT !.t.marks[q][obj] = mark]
  IN  IF mark >= 3 THEN [u EXCEPT !.t.unreachable[q] = obj]
      ELSE InsertMember([u EXCEPT !.t.pending[q] = 0], q, obj)

PendingToMember(w, n, q, obj) ==
  LET v == [w EXCEPT !.t.pending[q] = 0]
      mark == IF w.t.marks[q][obj] = 3 THEN 3 ELSE w.t.marks[q][obj] + 1
      u == [v EXCEPT !.t.marks[q][obj] = mark]
  IN  IF q \in w.t.offline THEN EraseOfflinePeer(v, n, q)
      ELSE IF w.t.neighbors[q] # 0
      THEN Enter(v, q, obj)
      ELSE IF mark >= 3
      THEN IF Interactive THEN ToUnreachable(u, q, obj)
           ELSE OnKnownOfflinePeer(ToUnreachable(u, q, obj), q)
      ELSE IF w.t.unreachable[q] = 0 THEN InsertMember(u, q, obj)
      ELSE [u EXCEPT !.failed = @ \cup {1111}]

----------------------------------------------------------------------------
(* Learning of peers and opening connections *)

\* Mutant: a peer that has an object gets another one.
OnKnownPeerAgain(w, q) ==
  IF Cardinality({p \in Nodes : w.t.peers[p] # 0}) > MaxPeers THEN w
  ELSE LET obj == w.t.made[q] + 1
       IN  [w EXCEPT !.t.peers[q] = obj, !.t.made[q] = obj,
                     !.t.posts = Append(@, [op |-> "known", id |-> q, obj |-> obj])]

\* client_service::on_known_new_peer: only a peer it has no object for is new
OnKnownNewPeer(w, q) ==
  IF w.t.peers[q] # 0 \/ Cardinality({p \in Nodes : w.t.peers[p] # 0}) > MaxPeers THEN w
  ELSE LET obj == w.t.made[q] + 1
       IN  [w EXCEPT !.t.peers[q] = obj, !.t.made[q] = obj,
                     !.t.posts = Append(@, [op |-> "known", id |-> q, obj |-> obj])]

\* Bounds the objects made; not a condition of the code.
CanBeKnown(w, q) == w.t.peers[q] # 0 \/ w.t.made[q] < MaxObjects

\* Mutant: a neighbor is not asked for.
KnownNewPeerAlways(w, q, obj) ==
  IF q \in w.t.black \/ w.t.pending[q] # 0 \/ w.t.unreachable[q] # 0
  THEN w ELSE InsertMember(w, q, obj)

\* overlay::known_new_peer
KnownNewPeer(w, q, obj) ==
  IF q \in w.t.black \/ w.t.pending[q] # 0 \/ w.t.unreachable[q] # 0 \/ w.t.neighbors[q] # 0
  THEN w ELSE InsertMember(w, q, obj)

FreeConns(w) == {c \in Conns : w.conns[c].active = "free"}

\* A turn of __async_connect_peer: the next connection of the attempt, or its
\* failure ("none": no endpoint is left to try).
ConnectPeer(w, n, q, obj, stage) ==
  IF stage = "none"
  THEN [PendingToMember(w, n, q, obj) EXCEPT !.t.black = @ \cup {q}]
  ELSE LET c == Min(FreeConns(w))
       IN  [MemberToPending(w, q, obj) EXCEPT
              !.conns[c] = [Free EXCEPT !.from = n, !.to = q, !.stage = stage,
                                        !.active = "connecting", !.fromObj = obj]]

\* The stages that may follow a failed one: another address, NAT punching, TCP.
NextStages(stage) ==
  CASE stage = "direct" -> {"direct", "punch", "tcp", "none"}
    [] stage = "punch"  -> {"tcp", "none"}
    [] OTHER            -> {"none"}

World(n) == [t |-> node[n], conns |-> conns, yielded |-> yielded, failed |-> failed]

Become(n, w) ==
  /\ node' = [node EXCEPT ![n] = w.t]
  /\ conns' = w.conns
  /\ yielded' = w.yielded
  /\ failed' = w.failed

Others(n) == Nodes \ {n}

\* What try_shrink_neighbors may pick, and whether a path may seem dead.
Picks(n) == {0} \cup (IF node[n].closing # 0 THEN {node[n].closing}
                      ELSE {node[n].neighbors[q] : q \in Nodes})
Seems(n, q) == {FALSE} \cup {conns[c].lost : c \in {node[n].neighbors[q]} \ {0}}

\* Bounds the events a run explores; not a condition of the code.
MayHappen ==
  Cardinality({c \in Conns : conns[c].lost})
    + MapThenSumSet(LAMBDA n : node[n].restarts + node[n].notices, Nodes) < MaxEvents

\* The tracker, or a neighbor's table, names q.
Learn(n, q) ==
  /\ q \in Named /\ node[n].peers[q] = 0 /\ CanBeKnown(World(n), q)
  /\ Become(n, OnKnownNewPeer(World(n), q))

\* The tracker's room information lists q as offline (on_recvd_room_info); a
\* notice about an unknown peer is left out.
LearnOffline(n, q) ==
  /\ node[n].peers[q] # 0 /\ MayHappen
  /\ Become(n, [OnKnownOfflinePeer(World(n), q) EXCEPT !.t.notices = @ + 1])

RunPosted(n) ==
  LET p == Head(node[n].posts)
      w == [World(n) EXCEPT !.t.posts = Tail(@)]
  IN  /\ node[n].posts # <<>>
      /\ Become(n, IF p.op = "known" THEN KnownNewPeer(w, p.id, p.obj)
                                     ELSE EraseOfflinePeer(w, n, p.id))

\* Mutant: the attempt goes on although the peer became a neighbor.
ConnectFailsOn(n, c, stage) ==
  LET w == [World(n) EXCEPT !.conns[c].active = "closed", !.conns[c].passive = "closed"]
  IN  /\ conns[c].active = "connecting" /\ conns[c].from = n
      /\ stage \in NextStages(conns[c].stage)
      /\ stage # "none" => FreeConns(w) # {}
      /\ Become(n, ConnectPeer(w, n, Peer(w, n, c), conns[c].fromObj, stage))

\* The connected handler of c, on success: if q became a neighbor meanwhile the
\* attempt just ends and c stays in pending_active_sockets_.
Connected(n, c, k) ==
  LET w == World(n)
      q == Peer(w, n, c)
      r == ToNeighbor([w EXCEPT !.conns[c].active = "open"], n, c, k, FALSE)
  IN  /\ conns[c].active = "connecting" /\ conns[c].from = n
      /\ Become(n, IF w.t.neighbors[q] # 0 THEN [w EXCEPT !.conns[c].active = "loose"]
                   ELSE IF r.ok THEN SendOn(r.w, n, c, "handshake") ELSE r.w)

ConnectFails(n, c, stage) ==
  LET w == [World(n) EXCEPT !.conns[c].active = "closed", !.conns[c].passive = "closed"]
      q == Peer(w, n, c)
  IN  /\ conns[c].active = "connecting" /\ conns[c].from = n
      /\ stage \in NextStages(conns[c].stage)
      /\ stage # "none" => FreeConns(w) # {}
      /\ Become(n, IF w.t.neighbors[q] # 0 THEN w
                   ELSE ConnectPeer(w, n, q, conns[c].fromObj, stage))

----------------------------------------------------------------------------
(* The passive side, messages and disconnection *)

\* on_accepted
Accepted(n, c) ==
  /\ conns[c].to = n /\ conns[c].active \notin {"free", "connecting"}
  /\ conns[c].passive = "none"
  /\ Become(n, [World(n) EXCEPT !.conns[c].passive = "accepted"])

\* The passive flow is never accepted (module UrdpFlow: the acceptor is blocked
\* or closed, or the flow fails before it is established at its end).
NotAccepted(n, c) ==
  /\ conns[c].to = n /\ conns[c].active \notin {"free", "connecting"}
  /\ conns[c].passive = "none"
  /\ Become(n, CloseConn(World(n), n, c))

OnRecvdHandshake(w, n, c, k, dead) ==
  LET q == Peer(w, n, c)
      v == OnKnownNewPeer(w, q)
      r == ToNeighbor([v EXCEPT !.conns[c].passive = "bound", !.conns[c].toObj = v.t.peers[q]],
                      n, c, k, dead)
  IN  IF v.t.peers[q] = 0 THEN CloseConn(v, n, c)
      ELSE IF ObjOf(w, n, c) # 0 THEN v
      ELSE IF r.ok THEN SendOn(r.w, n, c, "handshake") ELSE r.w

\* on_disconnected
OnDisconnected(w, n, c) ==
  IF ObjOf(w, n, c) = 0 \/ (w.conns[c].from = n /\ w.conns[c].active = "loose")
  THEN CloseConn(w, n, c)
  ELSE NeighborToMember(CloseConn(w, n, c), n, Peer(w, n, c), ObjOf(w, n, c))

Deliver(n, c, k) ==
  LET active == conns[c].from = n
      queue == IF active THEN conns[c].toActive ELSE conns[c].toPassive
      w == IF active THEN [World(n) EXCEPT !.conns[c].toActive = Tail(@)]
                     ELSE [World(n) EXCEPT !.conns[c].toPassive = Tail(@)]
  IN  /\ n \in {conns[c].from, conns[c].to} /\ IsConnected(World(n), n, c)
      /\ ~ conns[c].lost /\ queue # <<>>
      /\ Head(queue) = "handshake" => CanBeKnown(w, Peer(w, n, c))
      /\ \E dead \in Seems(n, Peer(w, n, c)) :
           Become(n, IF Head(queue) = "fin" THEN OnDisconnected(w, n, c)
                     ELSE OnRecvdHandshake(w, n, c, k, dead))

LosePath(c) ==
  /\ conns[c].active \notin {"free", "connecting"} /\ ~ conns[c].lost
  /\ MayHappen
  /\ conns' = [conns EXCEPT ![c].lost = TRUE]
  /\ UNCHANGED <<node, yielded, failed>>

\* An end of a lost path gives up, without a word from the other end.
GiveUp(n, c) ==
  /\ n \in {conns[c].from, conns[c].to} /\ conns[c].lost
  /\ IsConnected(World(n), n, c)
  /\ Become(n, OnDisconnected(World(n), n, c))

\* A connection leaves pending_passive_sockets_ after 20 s without a handshake,
\* and pending_active_sockets_ after 60 s; that destroys it.
SocketExpires(n, c) ==
  /\ \/ conns[c].to = n /\ conns[c].passive = "accepted"
     \/ conns[c].from = n /\ conns[c].active = "loose"
  /\ Become(n, CloseConn(World(n), n, c))

----------------------------------------------------------------------------
(* The maintainer timer and the other timers *)

\* One dead neighbor, if any is found, is dropped (dead = 0: none is found).
DropDead(w, n, dead) ==
  IF dead = 0 THEN w
  ELSE NeighborToMember(CloseConn(w, n, dead), n, Peer(w, n, dead), ObjOf(w, n, dead))

DeadNeighbors(w, n) ==
  {c \in {w.t.neighbors[q] : q \in Neighbors(w)} : SeemsDead(w, n, c, TRUE)}

\* With no member left, up to three unreachable peers are released; those in
\* lucky become members again.
Release(w, freed, lucky) ==
  [w EXCEPT
     !.t.members = [q \in Nodes |-> IF q \in lucky THEN w.t.unreachable[q] ELSE @[q]],
     !.t.unreachable = [q \in Nodes |-> IF q \in freed THEN 0 ELSE @[q]]]

Room(w) == MaxNeighbors - (Cardinality(Neighbors(w)) + Cardinality(Pending(w)) \div 4)

\* How many connections one turn may open.
Quota(w) == IF Cardinality(Neighbors(w)) * 4 > MaxNeighbors THEN 1 ELSE Min({2, Room(w)})

\* The members of S are tried in turn; there are two at most.
ConnectAll(w, n, S, stage) ==
  LET first == CHOOSE q \in S : TRUE
      second == CHOOSE q \in S \ {first} : TRUE
      v == ConnectPeer(w, n, first, w.t.members[first], stage)
  IN  IF S = {} THEN w
      ELSE IF S = {first} THEN v
      ELSE ConnectPeer(v, n, second, v.t.members[second], stage)

\* on_neighbor_maintainer_timer.  Which members are tried and where the attempts
\* begin, which peers are released, and whether the measured loss rate is too
\* high depends on the clock, on random numbers and on measurements.
Maintain(n, stage) ==
  /\ \E dead \in {0} \cup DeadNeighbors(World(n), n) :
     LET w == DropDead(World(n), n, dead)
     IN  \/ \* no room, or the loss rate is too high
            /\ Room(w) <= ((MaxNeighbors * 2) \div 3) + 1
            /\ \E k \in Picks(n) :
                 Become(n, IF Full(w) /\ Cardinality(Members(w)) >= MaxNeighbors
                           THEN TryShrink(w, n, k) ELSE w)
         \/ /\ Room(w) > 0
            /\ \E freed \in IF Members(w) # {} THEN {{}}
                          ELSE kSubset(Min({3, Cardinality(Unreachable(w))}), Unreachable(w)) :
               \E lucky \in SUBSET freed :
               LET v == Release(w, freed, lucky)
               IN  \E S \in SUBSET Members(v) :
                     /\ S # {} => Cardinality(S) <= Quota(v)
                     /\ stage # "none" => Cardinality(S) <= Cardinality(FreeConns(v))
                     /\ Become(n, ConnectAll(v, n, S, stage))

\* The connections by which n is trying to reach q.
Attempts(n, q) == {c \in Conns : conns[c].active = "connecting" /\ conns[c].from = n
                                                                 /\ conns[c].to = q}

\* Entries of the timed keepers expire (after 5 to 600 s).  Nothing is assumed of
\* when: an entry may go before an operation posted earlier has run, or during an
\* attempt to connect.
Expire(n, q) ==
  /\ LET w == World(n)
     IN  \/ /\ node[n].unreachable[q] # 0
            /\ Become(n, [w EXCEPT !.t.unreachable[q] = 0])
         \/ /\ node[n].pending[q] # 0
            /\ Become(n, [w EXCEPT !.t.pending[q] = 0])
         \/ /\ q \in node[n].black
            /\ Become(n, [w EXCEPT !.t.black = @ \ {q}])
         \/ /\ q \in node[n].offline
            /\ Become(n, [w EXCEPT !.t.offline = @ \ {q}])

\* stream_scheduling::on_recvd_media_packet: a packet with a wrong signature
RejectMedia(n, q) ==
  /\ node[n].neighbors[q] # 0
  /\ Become(n, EraseOfflinePeer(World(n), n, q))

\* A new login at the tracker starts the overlay again (on_login_finished); start
\* closes every connection first and keeps the other tables.
Held(w, n) == {c \in Conns : \/ IsConnected(w, n, c) /\ n \in {w.conns[c].from, w.conns[c].to}
                             \/ w.conns[c].from = n /\ w.conns[c].active = "connecting"}

CloseAll(w, n) ==
  [w EXCEPT !.conns = [c \in Conns |-> IF c \in Held(w, n) THEN CloseConn(w, n, c).conns[c]
                                                         ELSE @[c]]]

Restart(n) ==
  /\ MayHappen
  /\ Become(n, [CloseAll(World(n), n) EXCEPT !.t.neighbors = [q \in Nodes |-> 0],
                                             !.t.restarts = @ + 1])

NoTables ==
  [members |-> [q \in Nodes |-> 0], pending |-> [q \in Nodes |-> 0],
   unreachable |-> [q \in Nodes |-> 0], neighbors |-> [q \in Nodes |-> 0],
   black |-> {}, closing |-> 0, peers |-> [q \in Nodes |-> 0],
   made |-> [q \in Nodes |-> 0], offline |-> {},
   marks |-> [q \in Nodes |-> [o \in Objects |-> 0]], posts |-> <<>>,
   restarts |-> 0, notices |-> 0]

Init ==
  /\ node = [n \in Nodes |-> NoTables]
  /\ conns = [c \in Conns |-> Free]
  /\ yielded = {}
  /\ failed = {}

Next ==
  \E n \in Nodes :
    \/ \E q \in Others(n) : \/ Learn(n, q) \/ LearnOffline(n, q)
                           \/ Expire(n, q) \/ RejectMedia(n, q)
    \/ RunPosted(n)
    \/ Restart(n)
    \/ \E c \in Conns :
         \/ \E k \in Picks(n) : Connected(n, c, k)
         \/ \E stage \in {"direct", "punch", "tcp", "none"} : ConnectFails(n, c, stage)
         \/ Accepted(n, c)
         \/ NotAccepted(n, c)
         \/ \E k \in Picks(n) : Deliver(n, c, k)
         \/ LosePath(c)
         \/ GiveUp(n, c)
         \/ SocketExpires(n, c)
    \/ \E stage \in FirstStages : Maintain(n, stage)

Spec == Init /\ [][Next]_vars

----------------------------------------------------------------------------
(* Properties *)

\* Every variable keeps its type.
TypeOK ==
  /\ node \in [Nodes -> Tables]
  /\ conns \in [Conns -> Connections]
  /\ yielded \subseteq [at: Nodes, shut: Conns, kept: Conns]
  /\ failed \subseteq {1003, 1077, 1111}

\* Two BOOST_ASSERTs of the table operations never fail: to_neighbor is not given
\* the connection that is the neighbor's already (overlay.cpp:1003), and a peer that
\* is a neighbor is not made pending (1077).  The third, that a peer that failed less
\* than three times is not among the unreachable ones (1111), is recorded but not
\* claimed: it depends on how long an attempt and an offline entry last.
AssertsHold == failed \subseteq {1111}

\* A peer is in at most one of members_, unreachable_members_ and
\* neighbors_conn_, and a neighbor is not pending; the maintainer asserts the
\* first part for members and neighbors (overlay.cpp:415-418, 1040-1041).
TablesDisjoint ==
  \A n \in Nodes : LET w == World(n) IN
    /\ Members(w) \cap Neighbors(w) = {}
    /\ Members(w) \cap Unreachable(w) = {}
    /\ Unreachable(w) \cap Neighbors(w) = {}
    /\ Pending(w) \cap Neighbors(w) = {}

\* A node has at most max_neighbor_cnt_ neighbors, however the handshakes of peers
\* and its own connections interleave (overlay.cpp:1035-1053).
NeighborsBounded ==
  \A n \in Nodes : Cardinality(Neighbors(World(n))) <= MaxNeighbors

\* A pending peer is being connected to, until the overlay is started again: no
\* path through __async_connect_peer leaves an entry behind.
PendingIsConnecting ==
  \A n \in Nodes, q \in Nodes :
    node[n].pending[q] # 0 /\ node[n].restarts = 0 => Attempts(n, q) # {}

\* The table of neighbors and the connections agree: a neighbor's connection is
\* open at this end and leads to that peer, and an open connection bound to a
\* peer is the one of that neighbor.  on_disconnected removes a neighbor by the
\* peer's id alone and relies on it.
OwnNeighbor ==
  \A n \in Nodes, c \in Conns :
    LET bound == \/ conns[c].from = n /\ conns[c].active = "open"
                 \/ conns[c].to = n /\ conns[c].passive = "bound"
    IN  \A q \in Others(n) :
          node[n].neighbors[q] = c <=> bound /\ Peer(World(n), n, c) = q

\* When two peers have connected to each other and each end closes one of the two
\* connections, they do not close both: to_neighbor closes the connection with the
\* smaller session, at both ends the same one (overlay.cpp:1020-1037).  Two TCP
\* connections break it: their session ids are the same.
ConflictKeepsOne ==
  ~ \E x, y \in yielded : x.shut = y.kept /\ x.kept = y.shut

\* The same when at least one of the two connections is a URDP flow, whose session
\* id both ends share.
UrdpConflictKeepsOne ==
  ~ \E x, y \in yielded : /\ x.shut = y.kept /\ x.kept = y.shut
                          /\ {conns[x.shut].stage, conns[x.kept].stage} # {"tcp"}

\* Nothing is on its way between n and q.
Quiet(n, q) ==
  \A c \in Conns : {conns[c].from, conns[c].to} = {n, q} =>
    /\ conns[c].active # "connecting"
    /\ conns[c].active = "open" => conns[c].passive # "none"
    /\ conns[c].active = "closed" \/ conns[c].toActive = <<>>
    /\ conns[c].passive = "closed" \/ conns[c].toPassive = <<>>
    /\ ~ conns[c].lost

\* Once all messages have arrived, two nodes agree whether they are neighbors and
\* over which connection.
NeighborsAgree ==
  \A n \in Nodes : \A q \in Others(n) :
    Quiet(n, q) => node[n].neighbors[q] = node[q].neighbors[n]
=============================================================================
