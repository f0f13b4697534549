--------------------------- MODULE PacketBuffer ---------------------------
(***************************************************************************)
(* packet_buffer (common/packet_buffer.cpp): the pieces of the stream that *)
(* a client keeps in memory to play them and to answer its neighbors.      *)
(*                                                                         *)
(* A buffer is a record of three structures the code keeps in step by      *)
(* hand: "slot", the ring media_packets_ (0: the slot is empty); "listed", *)
(* the keys of recent_seq_lst_long_, ordered by seqno; and "bits", the     *)
(* slots whose bit is set in buffermap_cache_, the map sent to neighbors.  *)
(* A piece is its seqno, a positive number that does not wrap; its time    *)
(* stamp grows with the seqno, so an age is a number of pieces.  has()     *)
(* also forgets a live piece after eight times the buffer's duration, which*)
(* the eviction by age precedes; recent_insert_ is left out.               *)
(***************************************************************************)
EXTENDS Integers, FiniteSets, FiniteSetsExt

CONSTANTS
  Slots,     \* media_packets_.size()
  Span       \* buf_time_msec_, in pieces: the age at which a live piece goes

ASSUME BufferAssumption == /\ Slots \in Nat \ {0}
                           /\ Span \in Nat \ {0}

(* The slot of a piece: get_slot takes the seqno modulo the ring's size.   *)
SlotOf(s) == s % Slots

EmptyBuffer == [slot |-> [k \in 0 .. Slots - 1 |-> 0], listed |-> {}, bits |-> {}]

(* packet_buffer::has *)
Has(b, s) == b.slot[SlotOf(s)] = s

Held(b) == {b.slot[k] : k \in 0 .. Slots - 1} \ {0}

(***************************************************************************)
(* The entries that inserting s drops, oldest first: the oldest while the  *)
(* list is longer than the ring, and in a live stream those that are both  *)
(* too old and older than "playing".  Both conditions hold of a prefix of  *)
(* the list, and the first of at most one entry, so the loop is this set.  *)
(***************************************************************************)
Dropped(b, s, live, playing) ==
  LET newest == Max(b.listed \union {s})
  IN  {x \in b.listed : \/ /\ Cardinality(b.listed) > Slots
                           /\ \A y \in b.listed : x <= y
                        \/ live /\ newest - x >= Span /\ x < playing}

(***************************************************************************)
(* packet_buffer::insert.  The slot is taken first, whatever it held; a    *)
(* dropped entry empties its slot only if the slot holds it (which may be  *)
(* the packet just taken, if an older entry for it was still listed), but  *)
(* clears the slot's bit in any case.                                      *)
(***************************************************************************)
\* Mutant: the entry leaves the list and its packet stays in the ring.
InsertKeepsSlot(b, s, live, playing) ==
  LET drop == Dropped(b, s, live, playing)
  IN  IF Has(b, s) THEN b
      ELSE [slot   |-> [b.slot EXCEPT ![SlotOf(s)] = s],
            listed |-> (b.listed \ drop) \union {s},
            bits   |-> (b.bits \ {SlotOf(x) : x \in drop}) \union {SlotOf(s)}]

Insert(b, s, live, playing) ==
  LET drop == Dropped(b, s, live, playing)
  IN  IF Has(b, s) THEN b
      ELSE [slot   |-> [k \in 0 .. Slots - 1 |->
                          LET x == IF k = SlotOf(s) THEN s ELSE b.slot[k]
                          IN  IF x \in drop THEN 0 ELSE x],
            listed |-> (b.listed \ drop) \union {s},
            bits   |-> (b.bits \ {SlotOf(x) : x \in drop}) \union {SlotOf(s)}]

(***************************************************************************)
(* packet_buffer::get_buffermap: the pieces the map sent to a neighbor     *)
(* speaks of, and those it says are here.  This is the widest map: the     *)
(* callers ask for fewer bits or as many, and the first piece is moved up  *)
(* to a multiple of eight, which both only shorten the range from below.   *)
(***************************************************************************)
MapRange(b) ==
  IF b.listed = {} THEN {}
  ELSE LET big   == Max(b.listed)
           count == Min({big - Min(b.listed) + 1, Slots})
       IN  {x \in big - count .. big - 1 : x > 0}

Advertised(b) == {x \in MapRange(b) : SlotOf(x) \in b.bits}

=============================================================================
