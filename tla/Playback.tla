----------------------------- MODULE Playback -----------------------------
(***************************************************************************)
(* What a client promises the player: pieces in order, each once, a film   *)
(* from the very piece it was started at and without a gap, a live stream  *)
(* with gaps but never backwards.  No list, buffer or message is in it;    *)
(* StreamScheduling.tla is shown to implement it.                          *)
(***************************************************************************)
EXTENDS Naturals

CONSTANT Pieces       \* the numbers of pieces

VARIABLES live,      \* a live stream or a film
          next,      \* the first piece the player may still be given
          waiting,   \* pieces that are here and not yet given
          last       \* the piece last given since the start, or 0

vars == <<live, next, waiting, last>>

Init == live \in BOOLEAN /\ next \in Pieces /\ waiting = {} /\ last = 0

(* A seek, or a server that starts anew.                                   *)
Restart(c) == next' = c /\ waiting' = {} /\ last' = 0 /\ UNCHANGED live

(* A piece that is not too late comes in.                                  *)
Arrive(s) ==
  s >= next /\ waiting' = waiting \union {s} /\ UNCHANGED <<live, next, last>>

First(s) == s \in waiting /\ \A x \in waiting : s <= x

(* A live stream moves on to the first piece that is here.                 *)
Skip(s) == live /\ First(s) /\ next' = s /\ UNCHANGED <<live, waiting, last>>

Give(s) ==
  /\ First(s) /\ s > last /\ (live \/ s = next)
  /\ last' = s /\ next' = s + 1 /\ waiting' = waiting \ {s} /\ UNCHANGED live

Next == \E s \in Pieces : Restart(s) \/ Arrive(s) \/ Skip(s) \/ Give(s)

Spec == Init /\ [][Next]_vars

=============================================================================
