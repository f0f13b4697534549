---------------------- MODULE StreamSchedulingProofs ----------------------
(***************************************************************************)
(* Proofs, for every ring length, film and stream length, of the           *)
(* invariants of StreamScheduling and that it implements Playback.  Facts  *)
(* about the packet buffer come first, as lemmas about Insert.             *)
(***************************************************************************)
EXTENDS StreamScheduling, WellFoundedInduction, FiniteSetTheorems, TLAPS

(* Min of a nonempty set of naturals is its least element.                 *)
LEMMA NatMin ==
  ASSUME NEW S, S \subseteq Nat, S # {}
  PROVE  Min(S) \in S /\ \A y \in S : Min(S) <= y
<1> DEFINE R == OpToRel(<, Nat)
<1>1. PICK x \in S : \A y \in S : ~(<<y, x>> \in R)
  BY NatLessThanWellFounded, WFMin
<1>2. \A y \in S : ~(y < x)
  BY <1>1 DEF OpToRel
<1>3. \A y \in S : x <= y
  BY <1>2
<1> QED BY <1>3 DEF Min

(* Max and Min of two and of three numbers.                                *)
LEMMA MaxOfTwo ==
  ASSUME NEW a \in Int, NEW b \in Int
  PROVE  Max({a, b}) = IF a >= b THEN a ELSE b
<1> DEFINE P(x) == \A y \in {a, b} : x >= y
<1>1. \E x \in {a, b} : P(x)
  OBVIOUS
<1>2. P(Max({a, b})) /\ Max({a, b}) \in {a, b}
  BY <1>1 DEF Max
<1> QED BY <1>2

(* The greatest of three numbers is one of them and bounds them.           *)
LEMMA MaxOfThree ==
  ASSUME NEW a \in Int, NEW b \in Int, NEW c \in Int, NEW m, m = Max({a, b, c})
  PROVE  m \in {a, b, c} /\ m >= a /\ m >= b /\ m >= c
<1> DEFINE P(x) == \A y \in {a, b, c} : x >= y
<1>1. CASE P(a)  BY <1>1 DEF Max
<1>2. CASE P(b)  BY <1>2 DEF Max
<1>3. CASE P(c)  BY <1>3 DEF Max
<1> QED BY <1>1, <1>2, <1>3

(* The least of three numbers is one of them and is below them.            *)
LEMMA MinOfThree ==
  ASSUME NEW a \in Int, NEW b \in Int, NEW c \in Int, NEW m, m = Min({a, b, c})
  PROVE  m \in {a, b, c} /\ m <= a /\ m <= b /\ m <= c
<1> DEFINE P(x) == \A y \in {a, b, c} : x =< y
<1>1. CASE P(a)  BY <1>1 DEF Min
<1>2. CASE P(b)  BY <1>2 DEF Min
<1>3. CASE P(c)  BY <1>3 DEF Min
<1> QED BY <1>1, <1>2, <1>3

(* An interval without its last element.                                   *)
LEMMA Shorter ==
  ASSUME NEW a \in Int, NEW b \in Int
  PROVE  (a .. (b - 1)) \subseteq a .. b
OBVIOUS

-----------------------------------------------------------------------------
(* The packet buffer's structures: every packet is in its own slot.        *)
BufferType(b) ==
  /\ b.slot \in [0 .. Slots - 1 -> Nat]
  /\ b.listed \subseteq Nat \ {0} /\ IsFiniteSet(b.listed)
  /\ b.bits \subseteq 0 .. Slots - 1

InPlace(b) == \A k \in 0 .. Slots - 1 : b.slot[k] # 0 => SlotOf(b.slot[k]) = k

BufferInv(b) ==
  /\ BufferType(b) /\ InPlace(b)
  /\ Held(b) \subseteq b.listed /\ Cardinality(b.listed) <= Slots + 1

(* A slot number is within the ring.                                       *)
LEMMA SlotRange ==
  ASSUME NEW s \in Nat
  PROVE  SlotOf(s) \in 0 .. Slots - 1
BY BufferAssumption DEF SlotOf

(* packet_buffer::has answers for exactly the packets in the ring.         *)
LEMMA HasIsHeld ==
  ASSUME NEW b, BufferType(b), InPlace(b), NEW s \in Nat \ {0}
  PROVE  Has(b, s) <=> s \in Held(b)
<1>1. SlotOf(s) \in 0 .. Slots - 1
  BY SlotRange
<1>2. Has(b, s) => s \in Held(b)
  BY <1>1 DEF Held, Has
<1>3. ASSUME s \in Held(b) PROVE Has(b, s)
  <2>1. PICK k \in 0 .. Slots - 1 : s = b.slot[k]
    BY <1>3 DEF Held
  <2> QED BY <2>1 DEF InPlace, Has
<1> QED BY <1>2, <1>3

(* The empty buffer after reset.                                           *)
LEMMA EmptyBufferInv == BufferInv(EmptyBuffer) /\ Held(EmptyBuffer) = {}
<1>1. Held(EmptyBuffer) = {}
  BY DEF EmptyBuffer, Held
<1>2. BufferType(EmptyBuffer) /\ InPlace(EmptyBuffer)
  BY FS_EmptySet, BufferAssumption DEF EmptyBuffer, BufferType, InPlace
<1>3. EmptyBuffer.listed = {}
  BY DEF EmptyBuffer
<1> QED BY <1>1, <1>2, <1>3, FS_EmptySet, BufferAssumption DEF BufferInv

(* What Dropped drops is listed, and is something when the list is longer  *)
(* than the ring.                                                          *)
LEMMA DroppedListed ==
  ASSUME NEW b, BufferInv(b), NEW s \in Nat \ {0}, NEW l \in BOOLEAN, NEW p \in Int
  PROVE  /\ Dropped(b, s, l, p) \subseteq b.listed
         /\ Cardinality(b.listed) > Slots => Dropped(b, s, l, p) # {}
<1>1. Dropped(b, s, l, p) \subseteq b.listed
  BY DEF Dropped
<1>2. ASSUME Cardinality(b.listed) > Slots PROVE Dropped(b, s, l, p) # {}
  <2>1. b.listed # {}
    BY <1>2, FS_EmptySet, BufferAssumption
  <2>2. Min(b.listed) \in b.listed /\ \A y \in b.listed : Min(b.listed) <= y
    BY <2>1, NatMin DEF BufferInv, BufferType
  <2>3. Min(b.listed) \in Dropped(b, s, l, p)
    BY <2>2, <1>2 DEF Dropped
  <2> QED BY <2>3
<1> QED BY <1>1, <1>2

(* packet_buffer::insert keeps the structures in step: the ring gains at   *)
(* most s, every packet in it stays listed, and the list stays bounded.    *)
LEMMA InsertInv ==
  ASSUME NEW b, BufferInv(b), NEW s \in Nat \ {0}, NEW l \in BOOLEAN, NEW p \in Int,
         ~Has(b, s), NEW g, g = Insert(b, s, l, p)
  PROVE  /\ BufferInv(g)
         /\ Held(g) \subseteq Held(b) \union {s}
         /\ g.listed \subseteq b.listed \union {s}
<1> DEFINE drop == Dropped(b, s, l, p)
<1>1. /\ g.slot = [k \in 0 .. Slots - 1 |->
                      LET x == IF k = SlotOf(s) THEN s ELSE b.slot[k]
                      IN  IF x \in drop THEN 0 ELSE x]
      /\ g.listed = (b.listed \ drop) \union {s}
      /\ g.bits = (b.bits \ {SlotOf(x) : x \in drop}) \union {SlotOf(s)}
  BY DEF Insert
<1>2. drop \subseteq b.listed /\ (Cardinality(b.listed) > Slots => drop # {})
  BY DroppedListed
<1> HIDE DEF drop
<1>3. SlotOf(s) \in 0 .. Slots - 1
  BY SlotRange
<1>4. BufferType(b) /\ InPlace(b) /\ Held(b) \subseteq b.listed
  BY DEF BufferInv
<1>5. InPlace(g)
  BY <1>1, <1>3, <1>4 DEF InPlace
<1>6. Held(g) \subseteq Held(b) \union {s}
  BY <1>1, <1>3 DEF Held
<1>7. Held(g) \subseteq g.listed
  BY <1>1, <1>3, <1>4 DEF Held
<1>8. IsFiniteSet(b.listed \ drop)
      /\ Cardinality(b.listed \ drop) <= Slots
  <2>1. IsFiniteSet(b.listed) /\ Cardinality(b.listed) \in Nat
        /\ Cardinality(b.listed) <= Slots + 1
    BY FS_CardinalityType DEF BufferInv, BufferType
  <2>2. /\ IsFiniteSet(b.listed \ drop)
        /\ Cardinality(b.listed \ drop) <= Cardinality(b.listed)
        /\ Cardinality(b.listed) = Cardinality(b.listed \ drop)
             => b.listed = b.listed \ drop
    BY <2>1, FS_Subset
  <2>3. Cardinality(b.listed \ drop) \in Nat
    BY <2>2, FS_CardinalityType
  <2>4. drop # {} => b.listed # b.listed \ drop
    BY <1>2
  <2> QED BY <2>1, <2>2, <2>3, <2>4, <1>2, BufferAssumption
<1>9. IsFiniteSet(g.listed) /\ Cardinality(g.listed) <= Slots + 1
  <2> DEFINE rest == b.listed \ drop
  <2>1. IsFiniteSet(rest) /\ Cardinality(rest) <= Slots /\ Cardinality(rest) \in Nat
    BY <1>8, FS_CardinalityType
  <2>2. g.listed = rest \union {s}
    BY <1>1
  <2> HIDE DEF rest
  <2>3. /\ IsFiniteSet(g.listed)
        /\ Cardinality(g.listed) =
             IF s \in rest THEN Cardinality(rest) ELSE Cardinality(rest) + 1
    BY <2>1, <2>2, FS_AddElement
  <2> QED BY <2>1, <2>3, BufferAssumption
<1>10. BufferType(g)
  <2>1. g.slot \in [0 .. Slots - 1 -> Nat]
    <3>1. \A k \in 0 .. Slots - 1 : b.slot[k] \in Nat
      BY <1>4 DEF BufferType
    <3>2. \A k \in 0 .. Slots - 1 :
            (LET x == IF k = SlotOf(s) THEN s ELSE b.slot[k]
             IN  IF x \in drop THEN 0 ELSE x) \in Nat
      BY <3>1
    <3> QED BY <1>1, <3>2
  <2>2. g.listed \subseteq Nat \ {0}
    BY <1>1, <1>4 DEF BufferType
  <2>3. g.bits \subseteq 0 .. Slots - 1
    BY <1>1, <1>3, <1>4 DEF BufferType
  <2> QED BY <1>9, <2>1, <2>2, <2>3 DEF BufferType
<1>11. g.listed \subseteq b.listed \union {s}
  BY <1>1
<1> QED BY <1>5, <1>6, <1>7, <1>9, <1>10, <1>11 DEF BufferInv

-----------------------------------------------------------------------------
(***************************************************************************)
(* The inductive invariant.  What is in memory and not yet played waits    *)
(* for the player: without it, a piece that a buffermap names could be     *)
(* neither listed (it is in memory) nor waiting.  A film's next piece      *)
(* follows the one played last.                                            *)
(***************************************************************************)
HeldWaits == \A s \in Held(buf) : s >= care => s \in ready
FilmFollows == ~live /\ out # 0 => care = out + 1

Inv == /\ TypeOK /\ BufferInv(buf) /\ AbsentIsAbsent /\ LiveKnownIsTracked
       /\ WaitingIsAhead /\ HeldWaits /\ FilmFollows

(* The pieces a stream has, whatever its kind.                             *)
LEMMA LastType == live \in BOOLEAN => Last \in Nat \ {0}
BY StreamAssumption DEF Last

(* The first pieces of a stream are pieces of it.                          *)
LEMMA FreshType ==
  ASSUME live \in BOOLEAN, NEW c \in Starts
  PROVE  /\ c \in 1 .. Last /\ FreshKnow(c) \in 0 .. Last
         /\ c .. FreshKnow(c) \subseteq Seqs
BY StreamAssumption DEF Last, FreshKnow, Seqs

(* The states in which a stream is joined or a film started.               *)
LEMMA InitInv == Init => Inv
<1> SUFFICES ASSUME Init PROVE Inv
  OBVIOUS
<1>1. live \in BOOLEAN /\ care \in Starts
  BY StreamAssumption DEF Init
<1>2. BufferInv(buf) /\ Held(buf) = {}
  BY EmptyBufferInv DEF Init
<1>3. /\ care \in 1 .. Last /\ know \in 0 .. Last
      /\ idle = care .. know /\ idle \subseteq Seqs
  BY <1>1, FreshType DEF Init
<1>4. TypeOK
  <2>1. buf.slot \in [0 .. Slots - 1 -> 0 .. Last] /\ buf.listed = {} /\ buf.bits = {}
    BY <1>1, LastType DEF Init, EmptyBuffer
  <2>2. care \in 1 .. Last + 1 /\ know \in 0 .. Last + 1 /\ out \in 0 .. Last
    BY <1>1, <1>3, LastType DEF Init
  <2>3. resets \in 0 .. MaxResets
    BY StreamAssumption DEF Init
  <2>4. /\ started \in BOOLEAN /\ ready \subseteq Seqs /\ asked \subseteq Seqs
        /\ wire \subseteq Seqs /\ must \subseteq Absent /\ due \subseteq Absent
    BY DEF Init, Absent
  <2> QED BY <1>1, <1>3, <2>1, <2>2, <2>3, <2>4 DEF TypeOK
<1>5. AbsentIsAbsent
  BY <1>2 DEF Init, AbsentIsAbsent
<1>6. LiveKnownIsTracked
  BY <1>3 DEF LiveKnownIsTracked, Absent, Seqs
<1>7. WaitingIsAhead /\ HeldWaits /\ FilmFollows
  BY <1>2, <1>3, <1>1, LastType DEF Init, WaitingIsAhead, HeldWaits, FilmFollows
<1> QED BY <1>2, <1>4, <1>5, <1>6, <1>7 DEF Inv

(* reset_scheduling and a new start: seeks and server restarts.            *)
LEMMA ResetInv ==
  ASSUME Inv, NEW c \in Starts, Reset(c)
  PROVE  Inv'
<1>1. live \in BOOLEAN /\ live' = live /\ Last' = Last /\ Seqs' = Seqs
  BY DEF Inv, TypeOK, Reset, Last, Seqs
<1>2. BufferInv(buf') /\ Held(buf') = {}
  BY EmptyBufferInv DEF Reset
<1>3. /\ care' \in 1 .. Last /\ know' \in 0 .. Last
      /\ idle' = care' .. know' /\ idle' \subseteq Seqs
  BY <1>1, FreshType DEF Reset
<1>4. TypeOK'
  <2>1. buf'.slot \in [0 .. Slots - 1 -> 0 .. Last] /\ buf'.listed = {} /\ buf'.bits = {}
    BY <1>1, LastType DEF Reset, EmptyBuffer
  <2>2. resets' \in 0 .. MaxResets /\ wire' \subseteq Seqs
    BY StreamAssumption DEF Reset, Inv, TypeOK
  <2>3. care' \in 1 .. Last + 1 /\ know' \in 0 .. Last + 1 /\ out' \in 0 .. Last
    BY <1>1, <1>3, LastType DEF Reset
  <2>4. /\ started' \in BOOLEAN /\ ready' \subseteq Seqs /\ asked' \subseteq Seqs
        /\ must' \subseteq Absent' /\ due' \subseteq Absent'
    BY DEF Reset, Absent
  <2> QED BY <1>1, <1>3, <2>1, <2>2, <2>3, <2>4 DEF TypeOK
<1>5. AbsentIsAbsent'
  BY <1>2 DEF Reset, AbsentIsAbsent
<1>6. LiveKnownIsTracked'
  <2>1. care' \in Int /\ know' \in Int
    BY <1>3, <1>1, LastType
  <2>2. (care' .. (know' - 1)) \subseteq care' .. know'
    BY <2>1, Shorter
  <2> QED BY <2>2, <1>3 DEF LiveKnownIsTracked, Absent
<1>7. WaitingIsAhead' /\ HeldWaits' /\ FilmFollows'
  BY <1>2, <1>3, <1>1, LastType DEF Reset, WaitingIsAhead, HeldWaits, FilmFollows
<1> QED BY <1>2, <1>4, <1>5, <1>6, <1>7 DEF Inv

(* The types, one by one.                                                  *)
LEMMA InvTypes ==
  ASSUME Inv
  PROVE  /\ live \in BOOLEAN /\ Last \in Nat \ {0} /\ care \in Nat \ {0}
         /\ care <= Last + 1 /\ know \in Nat /\ know <= Last + 1
         /\ Absent \subseteq Seqs /\ Seqs \subseteq Nat \ {0}
         /\ BufferType(buf) /\ InPlace(buf)
<1>1. live \in BOOLEAN /\ care \in 1 .. Last + 1 /\ know \in 0 .. Last + 1
  BY DEF Inv, TypeOK
<1>2. Last \in Nat \ {0}
  BY <1>1, LastType
<1>3. Absent \subseteq Seqs
  BY DEF Inv, TypeOK, Absent
<1>4. Seqs \subseteq Nat \ {0}
  BY <1>2 DEF Seqs
<1>5. BufferType(buf) /\ InPlace(buf)
  BY DEF Inv, BufferInv
<1> QED BY <1>1, <1>2, <1>3, <1>4, <1>5

(* LiveKnownIsTracked as a statement about numbers.                        *)
Tracked(c, k, W) == \A s \in Int : c <= s /\ s < k => s \in W

(* Tracked pieces, with the interval's ends as parameters.                 *)
LEMMA TrackedInterval ==
  ASSUME NEW c \in Int, NEW k \in Int, NEW W
  PROVE  Tracked(c, k, W) <=> (c .. (k - 1)) \subseteq W
BY DEF Tracked

(* What Unlisted returns: pieces of the stream, in no list and not in      *)
(* memory, and every piece of S that is still missing is listed then.      *)
LEMMA UnlistedFacts ==
  ASSUME Inv, NEW S, \A s \in S : s \in Int /\ s <= Last
  PROVE  /\ Unlisted(S) \subseteq Seqs
         /\ Unlisted(S) \intersect Absent = {}
         /\ Unlisted(S) \intersect Held(buf) = {}
         /\ \A s \in S : s >= care => s \in ready \union Absent \union Unlisted(S)
<1>1. \A s \in S : s >= care => s \in Nat \ {0} /\ s \in Seqs
  BY InvTypes DEF Seqs
<1>2. \A s \in Nat \ {0} : Has(buf, s) <=> s \in Held(buf)
  BY HasIsHeld, InvTypes
<1>3. Unlisted(S) \subseteq Seqs /\ Unlisted(S) \intersect Absent = {}
  BY <1>1 DEF Unlisted
<1>4. Unlisted(S) \intersect Held(buf) = {}
  BY <1>1, <1>2 DEF Unlisted
<1>5. ASSUME NEW s \in S, s >= care
      PROVE  s \in ready \union Absent \union Unlisted(S)
  <2>1. CASE Has(buf, s)
    BY <2>1, <1>1, <1>2, <1>5 DEF Inv, HeldWaits
  <2>2. CASE ~Has(buf, s)
    BY <2>2, <1>5 DEF Unlisted
  <2> QED BY <2>1, <2>2
<1> QED BY <1>3, <1>4, <1>5

(* process_recvd_buffermap: the known pieces only grow, and what becomes   *)
(* known is named, the largest known piece itself included.                *)
LEMMA LearnFacts ==
  ASSUME Inv, NEW S, S \subseteq Seqs, NEW big \in Seqs, NEW owner \in BOOLEAN,
         NEW N, N = Named(S, big, owner), NEW k, k = KnowAfter(big)
  PROVE  /\ \A s \in N : s \in Int /\ s <= Last
         /\ k \in Nat /\ k <= Last + 1 /\ know <= k
         /\ \A s \in Int : care <= s /\ s < k /\ know <= s => s \in N
<1> DEFINE top == Top(big)
<1>1. /\ Last \in Nat \ {0} /\ care \in Nat \ {0} /\ care <= Last + 1
      /\ know \in Nat /\ know <= Last + 1 /\ Slots \in Nat \ {0}
  BY InvTypes, BufferAssumption
<1>2. big \in Int /\ S \subseteq Int /\ (\A s \in S : s <= Last)
  BY <1>1 DEF Seqs
<1>3. top \in Int /\ top <= Last
  <2> DEFINE far == care + Slots
  <2>1. top = Min({big, far, Last})
    BY DEF Top
  <2>2. far \in Int /\ Last \in Int
    BY <1>1
  <2> HIDE DEF top, far
  <2>3. top \in {big, far, Last} /\ top <= Last
    BY <1>2, <2>1, <2>2, MinOfThree
  <2> QED BY <1>2, <2>2, <2>3
<1>4. k \in {know, top, care} /\ k >= know /\ k >= top /\ k >= care
  <2>1. k = Max({know, top, care})
    BY DEF KnowAfter
  <2>2. know \in Int /\ care \in Int
    BY <1>1
  <2> HIDE DEF top
  <2> QED BY <1>3, <2>1, <2>2, MaxOfThree
<1>5. N = (know .. top) \union {s \in S : owner /\ s <= k}
  BY DEF Named
<1> HIDE DEF top
<1>6. \A s \in N : s \in Int /\ s <= Last
  BY <1>1, <1>2, <1>3, <1>5
<1>7. \A s \in Int : care <= s /\ s < k /\ know <= s => s \in N
  BY <1>1, <1>3, <1>4, <1>5
<1> QED BY <1>1, <1>3, <1>4, <1>6, <1>7

(* With the named pieces listed, no known piece is forgotten.              *)
LEMMA LearnTracks ==
  ASSUME Inv, live, NEW S, S \subseteq Seqs, NEW big \in Seqs, NEW owner \in BOOLEAN
  PROVE  Tracked(care, KnowAfter(big),
                 ready \union Absent \union Unlisted(Named(S, big, owner)))
<1> DEFINE N == Named(S, big, owner)
<1> DEFINE k == KnowAfter(big)
<1>1. /\ \A s \in N : s \in Int /\ s <= Last
      /\ \A s \in Int : care <= s /\ s < k /\ know <= s => s \in N
  BY LearnFacts
<1> HIDE DEF N, k
<1>2. \A s \in N : s >= care => s \in ready \union Absent \union Unlisted(N)
  BY <1>1, UnlistedFacts
<1>3. Tracked(care, know, ready \union Absent)
  BY InvTypes, TrackedInterval DEF Inv, LiveKnownIsTracked
<1>4. Tracked(care, k, ready \union Absent \union Unlisted(N))
  BY <1>1, <1>2, <1>3, InvTypes DEF Tracked
<1> QED BY <1>4 DEF N, k

-----------------------------------------------------------------------------
(* Steps that only list pieces: the pieces "new" join those waiting to be  *)
(* asked for, and the known pieces go up to k.                             *)
LEMMA ListingInv ==
  ASSUME Inv, NEW new, NEW k \in Nat,
         new \subseteq Seqs, new \intersect Absent = {}, new \intersect Held(buf) = {},
         k <= Last + 1,
         live => Tracked(care, k, ready \union Absent \union new),
         know' = k, idle' = idle \union new, due' = due \union new,
         UNCHANGED <<live, care, buf, asked, must, wire, player, resets>>
  PROVE  Inv'
<1>1. /\ live' = live /\ care' = care /\ buf' = buf /\ asked' = asked /\ must' = must
      /\ wire' = wire /\ ready' = ready /\ started' = started /\ out' = out
      /\ resets' = resets /\ Last' = Last /\ Seqs' = Seqs
  BY DEF player, Last, Seqs
<1>2. Absent' = Absent \union new
  BY <1>1 DEF Absent
<1>3. TypeOK'
  <2>1. know' \in 0 .. Last + 1
    BY InvTypes
  <2> QED BY <1>1, <1>2, <2>1 DEF Inv, TypeOK
<1>4. AbsentIsAbsent'
  BY <1>1, <1>2 DEF Inv, AbsentIsAbsent, Absent
<1>5. LiveKnownIsTracked'
  <2>1. live => (care .. (k - 1)) \subseteq ready \union Absent \union new
    BY InvTypes, TrackedInterval
  <2> QED BY <1>1, <1>2, <2>1 DEF LiveKnownIsTracked
<1>6. BufferInv(buf)' /\ WaitingIsAhead' /\ HeldWaits' /\ FilmFollows'
  BY <1>1 DEF Inv, WaitingIsAhead, HeldWaits, FilmFollows
<1> QED BY <1>3, <1>4, <1>5, <1>6 DEF Inv

(* process_recvd_buffermap keeps the invariant.                            *)
LEMMA BuffermapInv ==
  ASSUME Inv, NEW x \in Seqs, NEW big \in Seqs, NEW owner \in BOOLEAN,
         Buffermap(x, big, owner)
  PROVE  Inv'
<1> DEFINE N == Named({x}, big, owner)
<1> DEFINE k == KnowAfter(big)
<1>1. (\A s \in N : s \in Int /\ s <= Last) /\ k \in Nat /\ k <= Last + 1
  BY LearnFacts
<1>2. live => Tracked(care, k, ready \union Absent \union Unlisted(N))
  BY LearnTracks
<1>3. /\ know' = k /\ idle' = idle \union Unlisted(N) /\ due' = due \union Unlisted(N)
      /\ UNCHANGED <<live, care, buf, asked, must, wire, player, resets>>
  BY DEF Buffermap
<1> HIDE DEF N, k
<1>4. /\ Unlisted(N) \subseteq Seqs /\ Unlisted(N) \intersect Absent = {}
      /\ Unlisted(N) \intersect Held(buf) = {}
  BY <1>1, UnlistedFacts
<1> QED BY <1>1, <1>2, <1>3, <1>4, ListingInv

(* inject_absent_seqno keeps the invariant.                                *)
LEMMA InjectAbsentInv ==
  ASSUME Inv, InjectAbsent
  PROVE  Inv'
<1> DEFINE top == Min({care + Ahead, Last, know + Chunk})
<1> DEFINE stops == {s \in know + 1 .. top : ~Has(buf, s) /\ (s \in Absent \/ s < care)}
<1> DEFINE last == IF stops = {} THEN Max({know, top}) ELSE Min(stops) - 1
<1> DEFINE N == know + 1 .. last
<1>1. /\ know' = last /\ ~live
      /\ idle' = idle \union Unlisted(N) /\ due' = due \union Unlisted(N)
      /\ UNCHANGED <<live, care, buf, asked, must, wire, player, resets>>
  BY DEF InjectAbsent
<1>2. top \in Int /\ top <= Last
  <2> DEFINE a == care + Ahead
  <2> DEFINE b == know + Chunk
  <2>1. a \in Int /\ b \in Int /\ Last \in Int
    BY InvTypes, StreamAssumption
  <2>2. top = Min({a, Last, b})
    OBVIOUS
  <2> HIDE DEF a, b, top
  <2>3. top \in {a, Last, b} /\ top <= Last
    BY <2>1, <2>2, MinOfThree
  <2> QED BY <2>1, <2>3
<1> HIDE DEF top
<1>3. know \in Nat /\ know <= Last + 1 /\ Last \in Nat
  BY InvTypes
<1>4. last \in Nat /\ last <= Last + 1 /\ (last <= Last \/ last = know)
  <2>1. CASE stops = {}
    <3>1. Max({know, top}) = IF know >= top THEN know ELSE top
      BY <1>2, <1>3, MaxOfTwo
    <3> QED BY <2>1, <3>1, <1>2, <1>3
  <2>2. CASE stops # {}
    <3>1. stops \subseteq Nat /\ stops \subseteq know + 1 .. top
      BY <1>2, <1>3
    <3>2. Min(stops) \in stops
      BY <2>2, <3>1, NatMin
    <3>3. Min(stops) \in know + 1 .. top
      BY <3>1, <3>2
    <3> HIDE DEF stops
    <3> QED BY <2>2, <3>3, <1>2, <1>3
  <2> QED BY <2>1, <2>2
<1> HIDE DEF last
<1>5. \A s \in N : s \in Int /\ s <= Last
  BY <1>3, <1>4
<1> HIDE DEF N
<1>6. /\ Unlisted(N) \subseteq Seqs /\ Unlisted(N) \intersect Absent = {}
      /\ Unlisted(N) \intersect Held(buf) = {}
  BY <1>5, UnlistedFacts
<1> QED BY <1>1, <1>4, <1>6, ListingInv

(* Steps that take a piece in: s goes to the ring and to the player's      *)
(* queue and leaves the lists, after "new" was listed.                     *)
LEMMA TakingInv ==
  ASSUME Inv, NEW s \in Seqs, s >= care, ~Has(buf, s), NEW p \in Int,
         NEW new, NEW k \in Nat,
         new \subseteq Seqs, new \intersect Absent = {}, new \intersect Held(buf) = {},
         k <= Last + 1,
         live => Tracked(care, k, ready \union Absent \union new),
         know' = k, buf' = Insert(buf, s, live, p), ready' = ready \union {s},
         idle' = (idle \union new) \ {s}, asked' = asked \ {s},
         due' = (due \union new) \ {s}, must' = must \ {s},
         UNCHANGED <<live, care, wire, started, out, resets>>
  PROVE  Inv'
<1>1. /\ live' = live /\ care' = care /\ wire' = wire /\ started' = started
      /\ out' = out /\ resets' = resets /\ Last' = Last /\ Seqs' = Seqs
  BY DEF Last, Seqs
<1>2. Absent' = (Absent \union new) \ {s}
  BY DEF Absent
<1>3. s \in Nat \ {0} /\ live \in BOOLEAN /\ Last \in Nat \ {0} /\ BufferInv(buf)
  BY InvTypes DEF Inv
<1>4. /\ BufferInv(buf') /\ Held(buf') \subseteq Held(buf) \union {s}
      /\ buf'.listed \subseteq buf.listed \union {s}
  BY <1>3, InsertInv
<1>5. TypeOK'
  <2>1. know' \in 0 .. Last + 1
    BY InvTypes
  <2>2. buf'.slot \in [0 .. Slots - 1 -> 0 .. Last]
    <3>1. \A h \in Held(buf') : h \in 0 .. Last
      <4>1. \A h \in Held(buf) : h \in 0 .. Last
        BY DEF Inv, TypeOK, Held
      <4>2. s \in 0 .. Last
        BY <1>3 DEF Seqs
      <4> QED BY <1>4, <4>1, <4>2
    <3>2. buf'.slot \in [0 .. Slots - 1 -> Nat]
      BY <1>4 DEF BufferInv, BufferType
    <3>3. \A j \in 0 .. Slots - 1 : buf'.slot[j] \in 0 .. Last
      BY <3>1, <3>2, <1>3 DEF Held
    <3> QED BY <3>2, <3>3
  <2>3. buf'.listed \subseteq Seqs /\ buf'.bits \subseteq 0 .. Slots - 1
    BY <1>4 DEF Inv, TypeOK, BufferInv, BufferType
  <2>4. /\ idle' \subseteq Seqs /\ asked' \subseteq Seqs /\ ready' \subseteq Seqs
        /\ due' \subseteq Absent' /\ must' \subseteq Absent'
    BY <1>2 DEF Inv, TypeOK
  <2> QED BY <1>1, <2>1, <2>2, <2>3, <2>4 DEF Inv, TypeOK
<1>6. AbsentIsAbsent'
  <2>1. idle' \intersect asked' = {}
    BY DEF Inv, AbsentIsAbsent, Absent
  <2>2. Absent' \intersect Held(buf') = {}
    BY <1>2, <1>4 DEF Inv, AbsentIsAbsent
  <2> QED BY <2>1, <2>2 DEF AbsentIsAbsent
<1>7. LiveKnownIsTracked'
  <2>1. live => (care .. (k - 1)) \subseteq ready \union Absent \union new
    BY InvTypes, TrackedInterval
  <2> QED BY <1>1, <1>2, <2>1 DEF LiveKnownIsTracked
<1>8. WaitingIsAhead' /\ HeldWaits' /\ FilmFollows'
  BY <1>1, <1>4 DEF Inv, WaitingIsAhead, HeldWaits, FilmFollows
<1> QED BY <1>4, <1>5, <1>6, <1>7, <1>8 DEF Inv

(* process_recvd_media_packet keeps the invariant.                         *)
LEMMA MediaPacketInv ==
  ASSUME Inv, NEW s \in Seqs, NEW r \in Seqs, NEW owner \in BOOLEAN,
         MediaPacket(s, r, owner)
  PROVE  Inv'
<1> DEFINE big == Max({s, r})
<1> DEFINE N == Named({s, r}, big, owner)
<1> DEFINE new == IF live THEN Unlisted(N) ELSE {}
<1> DEFINE k == IF live THEN KnowAfter(big) ELSE know
<1>1. big \in Seqs
  <2>1. s \in Int /\ r \in Int
    BY InvTypes
  <2> QED BY <2>1, MaxOfTwo
<1>2. s >= care /\ know' = k /\ UNCHANGED <<live, care, wire, started, out, resets>>
  BY DEF MediaPacket
<1>3. Has(buf, s) => /\ idle' = idle \union new /\ due' = due \union new
                     /\ UNCHANGED <<buf, ready, asked, must>>
  BY DEF MediaPacket
<1>4. ~Has(buf, s) => /\ buf' = Insert(buf, s, live, know') /\ ready' = ready \union {s}
                      /\ idle' = (idle \union new) \ {s} /\ asked' = asked \ {s}
                      /\ due' = (due \union new) \ {s} /\ must' = must \ {s}
  BY DEF MediaPacket, Keep
<1> HIDE DEF big
<1>5. (\A n \in N : n \in Int /\ n <= Last)
      /\ KnowAfter(big) \in Nat /\ KnowAfter(big) <= Last + 1
  BY <1>1, LearnFacts
<1>6. live => Tracked(care, KnowAfter(big), ready \union Absent \union Unlisted(N))
  BY <1>1, LearnTracks
<1> HIDE DEF N
<1>7. /\ Unlisted(N) \subseteq Seqs /\ Unlisted(N) \intersect Absent = {}
      /\ Unlisted(N) \intersect Held(buf) = {}
  BY <1>5, UnlistedFacts
<1>8. /\ new \subseteq Seqs /\ new \intersect Absent = {} /\ new \intersect Held(buf) = {}
      /\ k \in Nat /\ k <= Last + 1
      /\ live => Tracked(care, k, ready \union Absent \union new)
  BY <1>5, <1>6, <1>7, InvTypes
<1> HIDE DEF new, k
<1>9. CASE Has(buf, s)
  <2>1. /\ know' = k /\ idle' = idle \union new /\ due' = due \union new
        /\ UNCHANGED <<live, care, buf, asked, must, wire, player, resets>>
    BY <1>2, <1>3, <1>9 DEF player
  <2> QED BY <1>8, <2>1, ListingInv
<1>10. CASE ~Has(buf, s)
  <2>1. know' = k /\ k \in Int
    BY <1>2, <1>8
  <2>2. buf' = Insert(buf, s, live, k)
    BY <1>4, <1>10, <2>1
  <2> QED BY <1>2, <1>4, <1>8, <1>10, <2>1, <2>2, TakingInv
<1> QED BY <1>9, <1>10

(* A piece restored by fec_decode is taken in.                             *)
LEMMA RecoverInv ==
  ASSUME Inv, Recover
  PROVE  Inv'
<1>1. care \in Seqs
  <2>1. ready \subseteq Nat /\ ready \subseteq 1 .. Last
    BY InvTypes DEF Inv, TypeOK, Seqs
  <2>2. Min(ready) \in ready
    BY <2>1, NatMin DEF Recover
  <2>3. care < Min(ready)
    BY DEF Recover
  <2>4. Min(ready) \in 1 .. Last
    BY <2>1, <2>2
  <2>5. care \in Nat \ {0} /\ Last \in Nat
    BY InvTypes
  <2> QED BY <2>3, <2>4, <2>5 DEF Seqs
<1>2. live => Tracked(care, know, ready \union Absent \union {})
  BY InvTypes, TrackedInterval DEF Inv, LiveKnownIsTracked
<1> PICK s \in Seqs : s = care
  BY <1>1
<1> PICK k \in Nat : k = know
  BY InvTypes
<1> PICK new : new = {}
  OBVIOUS
<1>3. /\ ~Has(buf, s) /\ know' = k /\ buf' = Insert(buf, s, live, s)
      /\ ready' = ready \union {s} /\ idle' = (idle \union new) \ {s}
      /\ asked' = asked \ {s} /\ due' = (due \union new) \ {s}
      /\ must' = must \ {s}
      /\ UNCHANGED <<live, care, wire, started, out, resets>>
  BY DEF Recover, Keep
<1>4. s >= care /\ s \in Int /\ k <= Last + 1
  BY InvTypes
<1>5. live => Tracked(care, k, ready \union Absent \union new)
  BY <1>2
<1>6. /\ new \subseteq Seqs /\ new \intersect Absent = {}
      /\ new \intersect Held(buf) = {}
  OBVIOUS
<1> QED BY <1>3, <1>4, <1>5, <1>6, TakingInv

-----------------------------------------------------------------------------
(* Steps that only move pieces between the lists, drop passed ones, or     *)
(* change what the network may bring.                                      *)
LEMMA ListsInv ==
  ASSUME Inv, idle' \intersect asked' = {},
         Absent' \subseteq Seqs, Absent' \intersect Held(buf) = {},
         \A s \in Absent : s >= care => s \in Absent',
         due' \subseteq Absent', must' \subseteq Absent', wire' \subseteq Seqs,
         UNCHANGED <<live, care, know, buf, player, resets>>
  PROVE  Inv'
<1>1. /\ live' = live /\ care' = care /\ know' = know /\ buf' = buf
      /\ ready' = ready /\ started' = started /\ out' = out
      /\ resets' = resets /\ Last' = Last /\ Seqs' = Seqs
  BY DEF player, Last, Seqs
<1>2. TypeOK'
  <2>1. idle' \subseteq Seqs /\ asked' \subseteq Seqs
    BY DEF Absent
  <2> QED BY <1>1, <2>1 DEF Inv, TypeOK
<1>3. AbsentIsAbsent'
  BY <1>1 DEF AbsentIsAbsent
<1>4. LiveKnownIsTracked'
  <2>1. live => Tracked(care, know, ready \union Absent)
    BY InvTypes, TrackedInterval DEF Inv, LiveKnownIsTracked
  <2>2. live => Tracked(care, know, ready \union Absent')
    BY <2>1 DEF Tracked
  <2>3. live => (care .. (know - 1)) \subseteq ready \union Absent'
    BY <2>2, InvTypes, TrackedInterval
  <2> QED BY <1>1, <2>3 DEF LiveKnownIsTracked
<1>5. BufferInv(buf)' /\ WaitingIsAhead' /\ HeldWaits' /\ FilmFollows'
  BY <1>1 DEF Inv, WaitingIsAhead, HeldWaits, FilmFollows
<1> QED BY <1>2, <1>3, <1>4, <1>5 DEF Inv

(* request_failed moves a piece between the lists.                         *)
LEMMA GiveUpInv ==
  ASSUME Inv, NEW s \in Seqs, s \notin Held(buf), GiveUp(s)
  PROVE  Inv'
<1>1. /\ idle' = idle \union {s} /\ asked' = asked \ {s} /\ due' = due \ {s}
      /\ must' = must \union {s} /\ wire' = wire
      /\ UNCHANGED <<live, care, know, buf, player, resets>>
  BY DEF GiveUp
<1>2. Absent' = Absent \union {s}
  BY <1>1 DEF Absent
<1>3. idle' \intersect asked' = {}
  BY <1>1 DEF Inv, AbsentIsAbsent
<1>4. Absent' \subseteq Seqs /\ Absent' \intersect Held(buf) = {}
  BY <1>2, InvTypes DEF Inv, AbsentIsAbsent
<1>5. due' \subseteq Absent' /\ must' \subseteq Absent' /\ wire' \subseteq Seqs
  BY <1>1, <1>2 DEF Inv, TypeOK
<1> QED BY <1>1, <1>2, <1>3, <1>4, <1>5, ListsInv

(* on_recvd_media_confirm and on_recvd_no_piece.                           *)
LEMMA AnsweredInv ==
  ASSUME Inv, NEW s \in Seqs, MediaConfirm(s) \/ NoPiece(s)
  PROVE  Inv'
<1>1. GiveUp(s)
  BY DEF MediaConfirm, NoPiece
<1>2. s \notin Held(buf)
  <2>1. CASE MediaConfirm(s)
    BY <2>1, InvTypes, HasIsHeld DEF MediaConfirm
  <2>2. CASE NoPiece(s)
    BY <2>2 DEF NoPiece, Inv, AbsentIsAbsent, Absent
  <2> QED BY <2>1, <2>2
<1> QED BY <1>1, <1>2, GiveUpInv

(* on_pull_timer, which drops, gives up and asks for pieces.               *)
LEMMA PullTimerInv ==
  ASSUME Inv, NEW checks \in BOOLEAN, NEW failed, NEW chosen,
         PullTimer(checks, failed, chosen)
  PROVE  Inv'
<1> DEFINE passed == {s \in Absent : s < care /\ (s \in asked => checks)}
<1> DEFINE free == (idle \union failed) \ passed
<1>1. /\ failed \subseteq asked /\ chosen \subseteq free
      /\ idle' = free \ chosen
      /\ asked' = (asked \ (failed \union passed)) \union chosen
      /\ due' = ((due \union failed) \ passed) \ chosen
      /\ must' = (must \union failed) \ passed
      /\ wire' = IF live THEN wire ELSE wire \union chosen
      /\ UNCHANGED <<live, care, know, buf, player, resets>>
  BY DEF PullTimer
<1>2. passed \subseteq Absent /\ \A s \in passed : s < care
  OBVIOUS
<1> HIDE DEF passed
<1>3. idle \intersect asked = {} /\ Absent = idle \union asked
  BY DEF Inv, AbsentIsAbsent, Absent
<1>4. idle' \intersect asked' = {}
  BY <1>1, <1>3
<1>5. Absent' = Absent \ passed
  BY <1>1, <1>3 DEF Absent
<1>6. Absent' \subseteq Seqs /\ Absent' \intersect Held(buf) = {}
  BY <1>5, InvTypes DEF Inv, AbsentIsAbsent
<1>7. \A s \in Absent : s >= care => s \in Absent'
  BY <1>2, <1>5, InvTypes
<1>8. due' \subseteq Absent' /\ must' \subseteq Absent'
  BY <1>1, <1>3, <1>5 DEF Inv, TypeOK
<1>9. wire' \subseteq Seqs
  BY <1>1, <1>3, InvTypes DEF Inv, TypeOK
<1> QED BY <1>1, <1>4, <1>6, <1>7, <1>8, <1>9, ListsInv

(* A time that passes and an answer that is lost.                          *)
LEMMA NetworkInv ==
  ASSUME Inv, NEW s \in Seqs, OutOfTime(s) \/ Lose(s)
  PROVE  Inv'
<1>1. /\ idle' = idle /\ asked' = asked /\ must' = must
      /\ due' \subseteq due \union Absent /\ wire' \subseteq wire
      /\ UNCHANGED <<live, care, know, buf, player, resets>>
  BY DEF OutOfTime, Lose, lists
<1>2. Absent' = Absent
  BY <1>1 DEF Absent
<1>3. /\ idle' \intersect asked' = {} /\ Absent' \subseteq Seqs
      /\ Absent' \intersect Held(buf) = {}
  BY <1>1, <1>2, InvTypes DEF Inv, AbsentIsAbsent
<1>4. due' \subseteq Absent' /\ must' \subseteq Absent' /\ wire' \subseteq Seqs
  BY <1>1, <1>2 DEF Inv, TypeOK
<1> QED BY <1>1, <1>2, <1>3, <1>4, ListsInv

-----------------------------------------------------------------------------
(* The next piece for the player is the first of those that wait.          *)
LEMMA FirstReady ==
  ASSUME Inv, ready # {}
  PROVE  /\ Min(ready) \in ready /\ Min(ready) \in 1 .. Last
         /\ care <= Min(ready) /\ out < Min(ready)
         /\ \A s \in ready : Min(ready) <= s
<1>1. ready \subseteq Nat /\ ready \subseteq 1 .. Last
  BY InvTypes DEF Inv, TypeOK, Seqs
<1>2. Min(ready) \in ready /\ \A s \in ready : Min(ready) <= s
  BY <1>1, NatMin
<1>3. out \in Nat /\ care \in Nat
  BY InvTypes DEF Inv, TypeOK
<1>4. care <= Min(ready) /\ out < care
  BY <1>2 DEF Inv, WaitingIsAhead
<1>5. Min(ready) \in 1 .. Last
  BY <1>1, <1>2
<1>6. Min(ready) \in Nat
  BY <1>1, <1>2
<1> HIDE DEF Min
<1>7. out < Min(ready)
  BY <1>3, <1>4, <1>6
<1> QED BY <1>2, <1>4, <1>5, <1>7

(* Steps that move the player on to piece c, past all it was given, with   *)
(* the pieces from c on still waiting.                                     *)
LEMMA PlayingInv ==
  ASSUME Inv, NEW c \in 1 .. Last + 1, c >= care, care' = c,
         ready' \subseteq ready, \A s \in ready : s >= c => s \in ready',
         \A s \in ready' : c <= s,
         out' \in 0 .. Last, out' < c, ~live /\ out' # 0 => c = out' + 1,
         started' \in BOOLEAN,
         UNCHANGED <<live, know, buf, lists, wire, resets>>
  PROVE  Inv'
<1>1. /\ live' = live /\ know' = know /\ buf' = buf /\ wire' = wire
      /\ idle' = idle /\ asked' = asked /\ due' = due /\ must' = must
      /\ resets' = resets /\ Last' = Last /\ Seqs' = Seqs /\ Absent' = Absent
  BY DEF lists, Last, Seqs, Absent
<1>2. care \in Nat /\ c \in Nat /\ Last \in Nat /\ know \in Nat
  BY InvTypes
<1>3. TypeOK'
  BY <1>1 DEF Inv, TypeOK
<1>4. AbsentIsAbsent' /\ BufferInv(buf)'
  BY <1>1 DEF Inv, AbsentIsAbsent
<1>5. LiveKnownIsTracked'
  <2>1. live => Tracked(care, know, ready \union Absent)
    BY InvTypes, TrackedInterval DEF Inv, LiveKnownIsTracked
  <2>2. live => Tracked(c, know, ready' \union Absent)
    BY <2>1, <1>2 DEF Tracked
  <2>3. live => (c .. (know - 1)) \subseteq ready' \union Absent
    BY <2>2, <1>2, TrackedInterval
  <2> QED BY <1>1, <2>3 DEF LiveKnownIsTracked
<1>6. WaitingIsAhead' /\ FilmFollows'
  <2>1. WaitingIsAhead'
    BY DEF WaitingIsAhead
  <2>2. FilmFollows'
    BY <1>1 DEF FilmFollows
  <2> QED BY <2>1, <2>2
<1>7. HeldWaits'
  <2>1. Held(buf) \subseteq Nat
    BY InvTypes DEF BufferType, Held
  <2> QED BY <1>1, <1>2, <2>1 DEF Inv, HeldWaits
<1> QED BY <1>3, <1>4, <1>5, <1>6, <1>7 DEF Inv

(* can_player_start moves a live stream to its first piece.                *)
LEMMA StartPlayerInv ==
  ASSUME Inv, StartPlayer
  PROVE  Inv'
<1>1. /\ Min(ready) \in 1 .. Last /\ care <= Min(ready) /\ out < Min(ready)
      /\ \A s \in ready : Min(ready) <= s
  BY FirstReady DEF StartPlayer
<1>2. /\ live \in BOOLEAN /\ care \in 1 .. Last + 1 /\ Last \in Nat /\ out \in 0 .. Last
      /\ out < care /\ (\A s \in ready : care <= s) /\ (~live /\ out # 0 => care = out + 1)
  BY InvTypes DEF Inv, TypeOK, WaitingIsAhead, FilmFollows
<1>3. /\ care' = (IF live THEN Min(ready) ELSE care) /\ ready' = ready /\ out' = out
      /\ started' = TRUE /\ UNCHANGED <<live, know, buf, lists, wire, resets>>
  BY DEF StartPlayer
<1> PICK c : c = IF live THEN Min(ready) ELSE care
  OBVIOUS
<1>4. /\ c \in 1 .. Last + 1 /\ c >= care /\ out < c /\ (\A s \in ready : c <= s)
      /\ (~live /\ out # 0 => c = out + 1)
  <2>1. CASE live       BY <2>1, <1>1, <1>2
  <2>2. CASE ~live      BY <2>2, <1>2
  <2> QED BY <2>1, <2>2
<1> QED BY <1>2, <1>3, <1>4, PlayingInv

(* on_dispatch_timer gives the first waiting piece.                        *)
LEMMA PlayInv ==
  ASSUME Inv, Play
  PROVE  Inv'
<1> PICK m : m = Min(ready)
  OBVIOUS
<1>1. /\ m \in ready /\ m \in 1 .. Last /\ care <= m /\ out < m
      /\ \A s \in ready : m <= s
  BY FirstReady DEF Play
<1>2. /\ out' = m /\ care' = m + 1 /\ ready' = ready \ {m} /\ started' = started
      /\ (live \/ m = care)
      /\ UNCHANGED <<live, know, buf, lists, wire, resets>>
  BY DEF Play, AboutToPlay
<1>3. /\ care \in Nat /\ Last \in Nat /\ started \in BOOLEAN /\ out \in Nat
      /\ ready \subseteq Nat /\ (~live /\ out # 0 => care = out + 1)
  BY InvTypes DEF Inv, TypeOK, FilmFollows
<1> PICK c : c = m + 1
  OBVIOUS
<1>4. /\ c \in 1 .. Last + 1 /\ c >= care /\ m < c /\ m \in 0 .. Last
      /\ \A s \in ready : s >= c => s \in ready \ {m}
      /\ \A s \in ready \ {m} : c <= s
  BY <1>1, <1>3
<1> QED BY <1>2, <1>3, <1>4, PlayingInv

-----------------------------------------------------------------------------
(* Every step keeps the invariant.                                         *)
LEMMA StepInv == Inv /\ [Next]_vars => Inv'
<1> SUFFICES ASSUME Inv, [Next]_vars PROVE Inv'
  OBVIOUS
<1>1. CASE \E c \in Starts : Reset(c)
  BY <1>1, ResetInv
<1>2. CASE \E x, big \in Seqs, owner \in BOOLEAN : Buffermap(x, big, owner)
  BY <1>2, BuffermapInv
<1>3. CASE InjectAbsent
  BY <1>3, InjectAbsentInv
<1>4. CASE \E s, r \in Seqs, owner \in BOOLEAN : MediaPacket(s, r, owner)
  BY <1>4, MediaPacketInv
<1>5. CASE \E s \in Seqs : MediaConfirm(s) \/ NoPiece(s) \/ OutOfTime(s) \/ Lose(s)
  BY <1>5, AnsweredInv, NetworkInv
<1>6. CASE \E checks \in BOOLEAN, failed \in SUBSET asked :
             \E chosen \in SUBSET (idle \union failed) : PullTimer(checks, failed, chosen)
  BY <1>6, PullTimerInv
<1>7. CASE StartPlayer \/ Play \/ Recover
  BY <1>7, StartPlayerInv, PlayInv, RecoverInv
<1>8. CASE UNCHANGED vars
  <2>1. /\ idle' = idle /\ asked' = asked /\ due' = due /\ must' = must /\ wire' = wire
        /\ UNCHANGED <<live, care, know, buf, player, resets>> /\ Absent' = Absent
    BY <1>8 DEF vars, lists, Absent
  <2>2. /\ idle \intersect asked = {} /\ Absent \subseteq Seqs
        /\ Absent \intersect Held(buf) = {}
        /\ due \subseteq Absent /\ must \subseteq Absent /\ wire \subseteq Seqs
    BY InvTypes DEF Inv, AbsentIsAbsent, TypeOK
  <2> QED BY <2>1, <2>2, ListsInv
<1> QED BY <1>1, <1>2, <1>3, <1>4, <1>5, <1>6, <1>7, <1>8 DEF Next

(* The invariant holds throughout.                                         *)
LEMMA StreamInv == Spec => []Inv
BY InitInv, StepInv, PTL DEF Spec

(* No piece is asked for that is in memory, or listed twice: the           *)
(* assertions of absent_packet_list::just_known and of on_pull_timer.      *)
THEOREM NothingAskedTwice == Spec => []AbsentIsAbsent
<1>1. Inv => AbsentIsAbsent  BY DEF Inv
<1> QED BY <1>1, StreamInv, PTL

(* packet_buffer: what is in the ring is in the list that evicts it, and   *)
(* the list is bounded, for every ring length and buffer duration.         *)
THEOREM BufferIsBounded == Spec => []HeldIsListed
<1>1. Inv => HeldIsListed  BY DEF Inv, BufferInv, HeldIsListed
<1> QED BY <1>1, StreamInv, PTL

(* In a live stream every known piece from the player's next on waits or   *)
(* is listed, so the assertion of on_dispatch_timer holds.                 *)
THEOREM LiveForgetsNothing == Spec => []LiveKnownIsTracked
<1>1. Inv => LiveKnownIsTracked  BY DEF Inv
<1> QED BY <1>1, StreamInv, PTL

-----------------------------------------------------------------------------
(* The first of the waiting pieces is the Playback module's First.         *)
LEMMA FirstIsFirst ==
  ASSUME Inv, ready # {}
  PROVE  /\ Promise!First(Min(ready)) /\ Min(ready) > out /\ Min(ready) >= care
         /\ Min(ready) \in 1 .. FilmLast + LiveLast
<1>1. /\ Min(ready) \in ready /\ Min(ready) \in 1 .. Last
      /\ care <= Min(ready) /\ out < Min(ready)
      /\ \A s \in ready : Min(ready) <= s
  BY FirstReady
<1> PICK m : m = Min(ready)
  OBVIOUS
<1>2. m \in 1 .. Last /\ care <= m /\ out < m /\ care \in Nat /\ out \in Nat
  BY <1>1, InvTypes DEF Inv, TypeOK
<1>3. m > out /\ m >= care
  BY <1>2, InvTypes
<1>4. m \in 1 .. FilmLast + LiveLast
  BY <1>2, StreamAssumption DEF Last
<1> QED BY <1>1, <1>3, <1>4 DEF Promise!First

(* A step that leaves the dispatcher alone, or brings it one piece that is *)
(* not too late, is a step of Playback.                                    *)
LEMMA ArriveStep ==
  ASSUME Inv, NEW s \in Seqs, s >= care, ready' = ready \union {s},
         UNCHANGED <<live, care, out>>
  PROVE  [Promise!Next]_Promise!vars
<1>1. s \in 1 .. FilmLast + LiveLast
  BY StreamAssumption DEF Seqs, Last
<1>2. Promise!Arrive(s)
  BY DEF Promise!Arrive
<1> QED BY <1>1, <1>2 DEF Promise!Next

(* Every step of the client is a step of Playback or changes none of its   *)
(* variables.                                                              *)
LEMMA PlaybackStep == Inv /\ [Next]_vars => [Promise!Next]_Promise!vars
<1> SUFFICES ASSUME Inv, [Next]_vars PROVE [Promise!Next]_Promise!vars
  OBVIOUS
<1> USE DEF Promise!vars
<1>1. ASSUME NEW c \in Starts, Reset(c) PROVE Promise!Next
  <2>1. c \in 1 .. FilmLast + LiveLast
    BY StreamAssumption
  <2> QED BY <1>1, <2>1 DEF Reset, Promise!Next, Promise!Restart
<1>2. ASSUME NEW s \in Seqs, NEW r \in Seqs, NEW owner \in BOOLEAN, MediaPacket(s, r, owner)
      PROVE  [Promise!Next]_Promise!vars
  <2>1. CASE Has(buf, s)
    BY <1>2, <2>1 DEF MediaPacket
  <2>2. CASE ~Has(buf, s)
    <3>1. s >= care
      BY <1>2, InvTypes DEF MediaPacket
    <3> QED BY <1>2, <2>2, <3>1, ArriveStep DEF MediaPacket, Keep
  <2> QED BY <2>1, <2>2
<1>3. ASSUME Recover PROVE [Promise!Next]_Promise!vars
  <2>1. care < Min(ready) /\ Min(ready) \in 1 .. Last /\ care \in Nat \ {0} /\ Last \in Nat
    BY <1>3, FirstReady, InvTypes DEF Recover
  <2> PICK c \in Seqs : c = care
    <3> HIDE DEF Min
    <3> QED BY <2>1 DEF Seqs
  <2>2. c >= care
    BY <2>1
  <2> QED BY <1>3, <2>2, ArriveStep DEF Recover, Keep
<1>4. ASSUME StartPlayer PROVE [Promise!Next]_Promise!vars
  <2>1. Promise!First(Min(ready)) /\ Min(ready) \in 1 .. FilmLast + LiveLast
    BY <1>4, FirstIsFirst DEF StartPlayer
  <2>2. CASE live
    BY <1>4, <2>1, <2>2 DEF StartPlayer, Promise!Next, Promise!Skip
  <2>3. CASE ~live
    BY <1>4, <2>3 DEF StartPlayer
  <2> QED BY <2>2, <2>3
<1>5. ASSUME Play PROVE Promise!Next
  <2>1. /\ Promise!First(Min(ready)) /\ Min(ready) > out
        /\ Min(ready) \in 1 .. FilmLast + LiveLast
    BY <1>5, FirstIsFirst DEF Play
  <2> PICK m : m = Min(ready)
    OBVIOUS
  <2>2. Promise!Give(m)
    BY <1>5, <2>1 DEF Play, AboutToPlay, Promise!Give
  <2> QED BY <2>1, <2>2 DEF Promise!Next
<1>6. CASE UNCHANGED <<live, care, ready, out>>
  BY <1>6
<1>7. ASSUME \/ \E x, big \in Seqs, owner \in BOOLEAN : Buffermap(x, big, owner)
             \/ InjectAbsent
             \/ \E s \in Seqs : MediaConfirm(s) \/ NoPiece(s) \/ OutOfTime(s) \/ Lose(s)
             \/ \E checks \in BOOLEAN, failed \in SUBSET asked :
                   \E chosen \in SUBSET (idle \union failed) : PullTimer(checks, failed, chosen)
             \/ UNCHANGED vars
      PROVE  UNCHANGED <<live, care, ready, out>>
  BY <1>7 DEF Buffermap, InjectAbsent, MediaConfirm, NoPiece, GiveUp, OutOfTime, Lose,
              PullTimer, player, vars
<1> QED BY <1>1, <1>2, <1>3, <1>4, <1>5, <1>6, <1>7 DEF Next

(* The player is given pieces in order, each once, a film from where it    *)
(* was started and without a gap: on_dispatch_timer with everything that   *)
(* feeds it implements Playback.                                           *)
THEOREM PlayerIsServed == Spec => ImplementsPlayback
<1>1. Init => Promise!Init
  BY StreamAssumption DEF Init, Promise!Init
<1> QED BY <1>1, StreamInv, PlaybackStep, PTL DEF Spec, ImplementsPlayback, Promise!Spec

=============================================================================
