------------------------- MODULE StreamScheduling -------------------------
(***************************************************************************)
(* How a client fetches a stream and hands it to its player:               *)
(* client/stream/stream_scheduling.cpp with its buffer_manager, its        *)
(* absent_packet_list, the pull strategy and the media dispatchers, over   *)
(* the packet buffer of PacketBuffer.tla.  A stream is live or a film      *)
(* (video on demand); "live" says which, and never changes.                *)
(*                                                                         *)
(* The handlers run on one io_service thread, so each is one step; what    *)
(* interleaves is the order of timers, messages and disk reads.  Pieces    *)
(* are numbered from 1 to Last and do not wrap.  absent_packet_info is     *)
(* kept in a ring of 32768 entries, at least four times the length of the  *)
(* packet buffer, so no two pieces of interest share an entry and an entry *)
(* is found by its seqno.  Which neighbor a piece is asked of, and every   *)
(* score and rate that only orders or delays requests, is left open: any   *)
(* piece that is out of time may be asked for, and any requested piece may *)
(* be given up early (a broken connection, an urgent piece).               *)
(***************************************************************************)
EXTENDS PacketBuffer

CONSTANTS
  FilmLast,    \* max_seqno_: the last piece of a film
  LiveLast,    \* bound on the pieces of a live stream
  Modes,       \* the kinds of stream: a subset of BOOLEAN, TRUE for live
  Starts,      \* the pieces at which a stream may be joined or a film seeked to
  BackFetch,   \* backfetch_cnt_: pieces before the joining point, in a live stream
  Ahead,       \* max_inject_count(): how far ahead of the player a film is asked for
  Chunk,       \* rangeCnt - 1: pieces one timer may add
  Lead,        \* pieces a film buffers before it plays on (512)
  MaxResets    \* bound on seeks and server restarts

ASSUME StreamAssumption ==
  /\ FilmLast \in Nat \ {0} /\ LiveLast \in Nat \ {0} /\ Modes \subseteq BOOLEAN
  /\ Starts \subseteq 1 .. FilmLast
  /\ \A c \in Starts : c + BackFetch <= LiveLast
  /\ BackFetch \in Nat /\ Ahead \in Nat \ {0} /\ Chunk \in Nat \ {0}
  /\ Lead \in Nat /\ MaxResets \in Nat

VARIABLES
  live,      \* is_live()
  care,      \* smallest_seqno_i_care: the next piece for the player
  know,      \* bigest_sqno_i_know_
  buf,       \* memory_packet_cache_
  idle,      \* not_requesting_packets_
  asked,     \* requesting_packets_
  due,       \* listed pieces whose m_pull_outtime is over
  must,      \* listed pieces with m_must_pull: a request for them failed once
  wire,      \* pieces of a film an answer may still bring
  ready,     \* the dispatcher's packets waiting for the player
  started,   \* is_player_started_
  out,       \* the piece last handed to the player since the last reset, or 0
  resets     \* seeks and restarts so far

lists  == <<idle, asked, due, must>>
player == <<ready, started, out>>
vars   == <<live, care, know, buf, lists, wire, player, resets>>

Last == IF live THEN LiveLast ELSE FilmLast
Seqs == 1 .. Last
Absent == idle \union asked

(***************************************************************************)
(* absent_packet_list::just_known takes the pieces of S that are in        *)
(* neither list, at or after the player's next and (which its callers      *)
(* test) not in memory.  A new piece may be asked for at once: its         *)
(* m_pull_outtime is now - 1.                                              *)
(***************************************************************************)
Unlisted(S) == {s \in S \ Absent : s >= care /\ ~Has(buf, s)}

(***************************************************************************)
(* __init_seqno_i_care and buffer_manager::set_bigest_seqno: where a       *)
(* stream that starts with piece c knows pieces to.  A live stream lists   *)
(* the BackFetch pieces from c, a film none.                               *)
(***************************************************************************)
FreshKnow(c) == IF live THEN c - 1 + BackFetch ELSE c - 1

Init ==
  /\ live \in Modes /\ care \in Starts /\ know = FreshKnow(care)
  /\ buf = EmptyBuffer
  /\ idle = care .. know /\ due = idle /\ asked = {} /\ must = {} /\ wire = {}
  /\ ready = {} /\ started = FALSE /\ out = 0 /\ resets = 0

(***************************************************************************)
(* A seek in a film (set_play_seqno), or in a live stream a packet with    *)
(* another session id or the server's answer that it is far ahead:         *)
(* reset_scheduling, then the start at another piece.                      *)
(***************************************************************************)
Reset(c) ==
  /\ resets < MaxResets /\ resets' = resets + 1
  /\ care' = c /\ know' = FreshKnow(c)
  /\ buf' = EmptyBuffer
  /\ idle' = c .. know' /\ due' = idle' /\ asked' = {} /\ must' = {}
  /\ ready' = {} /\ started' = FALSE /\ out' = 0
  /\ UNCHANGED <<live, wire>>

-----------------------------------------------------------------------------
(***************************************************************************)
(* buffer_manager::process_recvd_buffermap with the pieces S of a neighbor *)
(* or of the server ("owner" is FALSE), the largest being "big": every     *)
(* piece from know, itself included, to the top is listed, then those of S.*)
(***************************************************************************)
Top(big) == Min({big, care + Slots, Last})

KnowAfter(big) == Max({know, Top(big), care})

\* Mutant: only the pieces the map names are listed, not those between.
NamedOnly(S, big, owner) == {s \in S : s <= KnowAfter(big)}

Named(S, big, owner) ==
  know .. Top(big) \union {s \in S : owner /\ s <= KnowAfter(big)}

(***************************************************************************)
(* A buffermap (a message of its own, or part of a request or of a         *)
(* handshake) that names piece x and, as the largest its sender knows,     *)
(* "big".  Pieces outside the window that starts at the smallest absent    *)
(* piece are not looked at, and a map left empty changes nothing.  One     *)
(* piece stands for the set: a larger set has the effect of its members    *)
(* one after the other.                                                    *)
(***************************************************************************)
Buffermap(x, big, owner) ==
  LET low == IF Absent = {} THEN know ELSE Min(Absent)
      new == Unlisted(Named({x}, big, owner))
  IN  /\ low <= x /\ x <= low + Slots /\ x <= big
      /\ know' = KnowAfter(big)
      /\ idle' = idle \union new /\ due' = due \union new
      /\ UNCHANGED <<live, care, buf, asked, must, wire, player, resets>>

(***************************************************************************)
(* buffer_manager::inject_absent_seqno, on the timer of                    *)
(* exchange_buffermap_vod: a film lists the next pieces itself, and stops  *)
(* at one that just_known refuses.                                         *)
(***************************************************************************)
\* Mutant: the end of the film is not looked at.
InjectAbsentPastEnd ==
  LET top   == Min({care + Ahead, know + Chunk})
      stops == {s \in know + 1 .. top : ~Has(buf, s) /\ (s \in Absent \/ s < care)}
      last  == IF stops = {} THEN Max({know, top}) ELSE Min(stops) - 1
      new   == Unlisted(know + 1 .. last)
  IN  /\ ~live
      /\ know' = last
      /\ idle' = idle \union new /\ due' = due \union new
      /\ UNCHANGED <<live, care, buf, asked, must, wire, player, resets>>

InjectAbsent ==
  LET top   == Min({care + Ahead, Last, know + Chunk})
      stops == {s \in know + 1 .. top : ~Has(buf, s) /\ (s \in Absent \/ s < care)}
      last  == IF stops = {} THEN Max({know, top}) ELSE Min(stops) - 1
      new   == Unlisted(know + 1 .. last)
  IN  /\ ~live
      /\ know' = last
      /\ idle' = idle \union new /\ due' = due \union new
      /\ UNCHANGED <<live, care, buf, asked, must, wire, player, resets>>

-----------------------------------------------------------------------------
(***************************************************************************)
(* on_recvd_media_packet and process_recvd_media_packet: piece s comes     *)
(* from a neighbor or the server, asked for, late or repeated, and in a    *)
(* live stream also pushed, so that there any piece may come at any time.  *)
(* A live packet also names r, a piece its sender received shortly before. *)
(* A film's piece read from the disk cache takes the same path             *)
(* (read_media_packet_from_nosocket).                                      *)
(***************************************************************************)
Keep(s, playing) ==
  /\ buf' = Insert(buf, s, live, playing)
  /\ ready' = ready \union {s}

\* Mutant: a packet that was not asked for stays in the list of absent pieces.
MediaPacketKeepsIdle(s, r, owner) ==
  LET big == Max({s, r})
      new == IF live THEN Unlisted(Named({s, r}, big, owner)) ELSE {}
  IN  /\ live \/ s \in wire
      /\ care <= s /\ s <= care + Slots
      /\ know' = IF live THEN KnowAfter(big) ELSE know
      /\ IF Has(buf, s)
         THEN /\ idle' = idle \union new /\ due' = due \union new
              /\ UNCHANGED <<buf, ready, asked, must>>
         ELSE /\ Keep(s, know')
              /\ idle' = idle \union new /\ asked' = asked \ {s}
              /\ due' = (due \union new) \ {s} /\ must' = must \ {s}
      /\ UNCHANGED <<live, care, wire, started, out, resets>>

MediaPacket(s, r, owner) ==
  LET big == Max({s, r})
      new == IF live THEN Unlisted(Named({s, r}, big, owner)) ELSE {}
  IN  /\ live \/ s \in wire
      /\ care <= s /\ s <= care + Slots
      /\ know' = IF live THEN KnowAfter(big) ELSE know
      /\ IF Has(buf, s)
         THEN /\ idle' = idle \union new /\ due' = due \union new
              /\ UNCHANGED <<buf, ready, asked, must>>
         ELSE /\ Keep(s, know')
              /\ idle' = (idle \union new) \ {s} /\ asked' = asked \ {s}
              /\ due' = (due \union new) \ {s} /\ must' = must \ {s}
      /\ UNCHANGED <<live, care, wire, started, out, resets>>

(***************************************************************************)
(* absent_packet_list::request_failed: s may be asked for again, later.    *)
(* Its callers let only the first failure of a listed piece count.         *)
(***************************************************************************)
GiveUp(s) ==
  /\ s \notin must /\ must' = must \union {s}
  /\ idle' = idle \union {s} /\ asked' = asked \ {s} /\ due' = due \ {s}
  /\ UNCHANGED <<live, care, know, buf, wire, player, resets>>

(***************************************************************************)
(* on_recvd_media_confirm: a neighbor says it has sent s, which is not     *)
(* here.  A piece in no list is listed; the player's very next is ignored. *)
(***************************************************************************)
MediaConfirm(s) == s > care /\ ~Has(buf, s) /\ GiveUp(s)

(* on_recvd_no_piece: the neighbor that was asked for s does not have it.  *)
NoPiece(s) == s \in asked \ due /\ GiveUp(s)

(***************************************************************************)
(* on_pull_timer, with the strategy's select_candidate_piece.  Nothing     *)
(* happens, not even check_requested, when no listed piece waits to be     *)
(* asked for.  Otherwise, unless it ran shortly before ("checks" FALSE),   *)
(* check_requested drops requested pieces the player has passed and gives  *)
(* up "failed"; passed pieces leave the other list too, and "chosen", any  *)
(* of those whose time has come, is asked for.                             *)
(***************************************************************************)
\* Mutant: a piece whose request failed is not chosen again.
PullTimerOnce(checks, failed, chosen) ==
  LET passed == {s \in Absent : s < care /\ (s \in asked => checks)}
      free   == (idle \union failed) \ passed
  IN  /\ idle # {}
      /\ failed \subseteq {s \in asked : checks /\ s >= care}
      /\ chosen \subseteq {s \in free \ (must \union failed) : s \in due}
      /\ idle' = free \ chosen
      /\ asked' = (asked \ (failed \union passed)) \union chosen
      /\ due' = ((due \union failed) \ passed) \ chosen
      /\ must' = (must \union failed) \ passed
      /\ wire' = IF live THEN wire ELSE wire \union chosen
      /\ UNCHANGED <<live, care, know, buf, player, resets>>

PullTimer(checks, failed, chosen) ==
  LET passed == {s \in Absent : s < care /\ (s \in asked => checks)}
      free   == (idle \union failed) \ passed
  IN  /\ idle # {}
      /\ failed \subseteq {s \in asked : checks /\ s >= care}
      /\ chosen \subseteq {s \in free : s \in due \union failed}
      /\ idle' = free \ chosen
      /\ asked' = (asked \ (failed \union passed)) \union chosen
      /\ due' = ((due \union failed) \ passed) \ chosen
      /\ must' = (must \union failed) \ passed
      /\ wire' = IF live THEN wire ELSE wire \union chosen
      /\ UNCHANGED <<live, care, know, buf, player, resets>>

(* m_pull_outtime goes by, or the piece could not be read from the disk    *)
(* cache, which sets it to a second ago.                                   *)
OutOfTime(s) ==
  /\ s \in Absent \ due /\ due' = due \union {s}
  /\ UNCHANGED <<live, care, know, buf, idle, asked, must, wire, player, resets>>

(* The request, sent semi-reliably, or the answer is lost.                 *)
Lose(s) ==
  /\ s \in wire /\ wire' = wire \ {s}
  /\ UNCHANGED <<live, care, know, buf, lists, player, resets>>

-----------------------------------------------------------------------------
(***************************************************************************)
(* media_dispatcher::on_dispatch_timer, one piece at a time.               *)
(* can_player_start: a live stream starts at the first piece it has.       *)
(***************************************************************************)
StartPlayer ==
  /\ ~started /\ ready # {} /\ started' = TRUE
  /\ care' = IF live THEN Min(ready) ELSE care
  /\ UNCHANGED <<live, know, buf, lists, wire, ready, out, resets>>

(***************************************************************************)
(* be_about_to_play: a live piece's time comes, and the pieces before it   *)
(* are given up; a film waits for the very next piece, with Lead pieces    *)
(* buffered unless its end is near.  The piece goes to the player.         *)
(***************************************************************************)
\* Mutant: a film plays the first piece it has.
AboutToPlaySkips(s) ==
  \/ live
  \/ Cardinality(ready) > Lead \/ Max(ready) + Lead >= Last

AboutToPlay(s) ==
  \/ live
  \/ s = care /\ (Cardinality(ready) > Lead \/ Max(ready) + Lead >= Last)

\* Mutant: the next piece is not moved on when the player skipped a gap.
PlayKeepsGap ==
  /\ started /\ ready # {}
  /\ LET s == Min(ready)
     IN  /\ AboutToPlay(s)
         /\ out' = s /\ care' = care + 1 /\ ready' = ready \ {s}
  /\ UNCHANGED <<live, know, buf, lists, wire, started, resets>>

Play ==
  /\ started /\ ready # {}
  /\ LET s == Min(ready)
     IN  /\ AboutToPlay(s)
         /\ out' = s /\ care' = s + 1 /\ ready' = ready \ {s}
  /\ UNCHANGED <<live, know, buf, lists, wire, started, resets>>

(***************************************************************************)
(* Before a live gap is skipped, fec_decode may restore the missing piece, *)
(* which process_media_packet_from_nonsocket then takes in.                *)
(***************************************************************************)
Recover ==
  /\ live /\ started /\ ready # {} /\ care < Min(ready) /\ ~Has(buf, care)
  /\ Keep(care, care)
  /\ idle' = idle \ {care} /\ asked' = asked \ {care}
  /\ due' = due \ {care} /\ must' = must \ {care}
  /\ UNCHANGED <<live, care, know, wire, started, out, resets>>

Next ==
  \/ \E c \in Starts : Reset(c)
  \/ \E x, big \in Seqs, owner \in BOOLEAN : Buffermap(x, big, owner)
  \/ InjectAbsent
  \/ \E s, r \in Seqs, owner \in BOOLEAN : MediaPacket(s, r, owner)
  \/ \E s \in Seqs : MediaConfirm(s) \/ NoPiece(s) \/ OutOfTime(s) \/ Lose(s)
  \/ \E checks \in BOOLEAN, failed \in SUBSET asked :
        \E chosen \in SUBSET (idle \union failed) : PullTimer(checks, failed, chosen)
  \/ StartPlayer \/ Play \/ Recover

Spec == Init /\ [][Next]_vars

(***************************************************************************)
(* The timers come again and again; the pull timer checks, and chooses any *)
(* piece that stays due; a piece asked for again and again arrives.        *)
(***************************************************************************)
PullOf(s) ==
  \E chosen \in {S \in SUBSET Absent : s \in S} :
     PullTimer(TRUE, {x \in asked \intersect due : x >= care}, chosen)

Answer(s) == s \in asked \intersect wire /\ \E r \in Seqs : MediaPacket(s, r, TRUE)

Fairness ==
  /\ \A s \in 1 .. FilmLast : /\ WF_vars(OutOfTime(s)) /\ WF_vars(PullOf(s))
                              /\ SF_vars(Answer(s))
  /\ WF_vars(PullTimer(TRUE, {x \in asked \intersect due : x >= care}, {}))
  /\ WF_vars(InjectAbsent) /\ WF_vars(StartPlayer) /\ WF_vars(Play)

FairSpec == Spec /\ Fairness

-----------------------------------------------------------------------------
(* The types of the variables; only listed pieces have a time or have      *)
(* failed.                                                                 *)
TypeOK ==
  /\ live \in BOOLEAN /\ started \in BOOLEAN
  /\ care \in 1 .. Last + 1 /\ know \in 0 .. Last + 1
  /\ out \in 0 .. Last /\ resets \in 0 .. MaxResets
  /\ buf.slot \in [0 .. Slots - 1 -> 0 .. Last]
  /\ buf.listed \subseteq Seqs /\ buf.bits \subseteq 0 .. Slots - 1
  /\ idle \subseteq Seqs /\ asked \subseteq Seqs /\ ready \subseteq Seqs
  /\ due \subseteq Absent /\ must \subseteq Absent /\ wire \subseteq Seqs

(* A piece waits to be asked for or is asked for, never both, and neither  *)
(* when it is in memory: what the assertions of just_known and of          *)
(* on_pull_timer ("!get_memory_packet_cache().has(seq, now)") say.         *)
AbsentIsAbsent == idle \intersect asked = {} /\ Absent \intersect Held(buf) = {}

(* Every packet in the ring has its entry in the list that evicts it, so   *)
(* no packet stays in memory for ever, and the list outgrows the ring by   *)
(* one at most.                                                            *)
HeldIsListed == /\ Held(buf) \subseteq buf.listed
                /\ Cardinality(buf.listed) <= Slots + 1

(* In a live stream no piece between the player's next and the largest     *)
(* known one is forgotten: it waits for the player or is listed to be      *)
(* fetched.  on_dispatch_timer asserts it of the piece it skips.           *)
LiveKnownIsTracked == live => care .. know - 1 \subseteq ready \union Absent

(* The same of a film, which just_known and the comment of set_bigest_seqno*)
(* mean to ensure: a film cannot skip a piece.                             *)
FilmKnownIsTracked == ~live => care .. know - 1 \subseteq ready \union Absent

(* What waits for the player comes after all it was given.                 *)
WaitingIsAhead == /\ out < care
                  /\ \A s \in ready : care <= s

(* What the client promises its player, Playback.tla, is kept whatever was *)
(* skipped, restored, repeated or fetched late: pieces are given in order, *)
(* each once, and a film from where it was started, without a gap.         *)
Promise == INSTANCE Playback WITH Pieces <- 1 .. FilmLast + LiveLast,
                                  next <- care, waiting <- ready, last <- out

ImplementsPlayback == Promise!Spec

(* The map sent to neighbors leaves out no piece that is in memory: the    *)
(* debug assertion "bitset=0 but has!" of get_buffermap.                   *)
HeldIsAdvertised == MapRange(buf) \intersect Held(buf) \subseteq Advertised(buf)

(* Once the seeks are over a film plays to its end, unless from some time  *)
(* on no piece waits to be asked for: then no timeout is looked at either. *)
FilmStallsOnlyUnasked == live \/ <>(care > Last) \/ <>[](idle = {})

=============================================================================
