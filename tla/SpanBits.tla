-------------------------------- MODULE SpanBits --------------------------------
(******************************************************************************)
(* The allocation bits of one span (memory_span.rs): next_free_index finds    *)
(* the next free object by way of alloc_cache, a word of complemented         *)
(* allocation bits, and sweep turns mark bits into allocation bits.           *)
(*                                                                            *)
(* A bitmap is the set of the positions of its 1 bits.  Bits from             *)
(* number_of_elements on are undefined.  The span is borrowed mutably for     *)
(* each call, so calls do not overlap.                                        *)
(******************************************************************************)
EXTENDS Integers, FiniteSets, FiniteSetsExt

CONSTANTS
  number_of_elements,  (* objects in the span                                 *)
  WordBits,            (* bits of alloc_cache, 64                             *)
  ByteBits,            (* 8                                                   *)
  CountMod,            (* 2^16: a count of objects is a u16                   *)
  ShiftChecks          (* a debug build: a shift by WordBits panics?          *)

ASSUME SpanAssumption ==
  /\ number_of_elements \in Nat \ {0}
  /\ WordBits \in Nat \ {0, 1} /\ ByteBits \in Nat \ {0} /\ WordBits % ByteBits = 0
  /\ ShiftChecks \in BOOLEAN

(* Objects have 8 bytes or more: a span of at most 32 KiB has 2^12 of them.   *)
ASSUME CountAssumption == CountMod \in Nat /\ number_of_elements < CountMod

VARIABLES
  free_index, alloc_cache, alloc_bits, gc_mark_bits, allocations_count,
  taken,      (* objects handed out since the span was swept                  *)
  pc, caller, (* next_free_index and who called it                            *)
  scan,       (* its local span_free_index                                    *)
  result      (* what the last call returned                                  *)

spanVars == <<free_index, alloc_cache, alloc_bits, gc_mark_bits, allocations_count>>
vars == <<spanVars, taken, pc, caller, scan, result>>

Objects == 0 .. number_of_elements - 1
Word == 0 .. WordBits - 1

(* The bitmaps are whole words.                                               *)
Positions == 0 .. ((number_of_elements + WordBits - 1) \div WordBits) * WordBits - 1

InUse == {n \in Objects : n \in alloc_bits} \cup taken

(* refill_allocations_cache: a word of bits from which_byte on, complemented. *)
Refill(bits, which_byte) == {b \in Word : which_byte * ByteBits + b \notin bits}

(* External: new_mark_bits returns a bitmap in which no object is marked,     *)
(* which is what sweep expects of it.                                         *)
FreshBits == SUBSET (Positions \ Objects)

(* count_allocations: byte by byte, the last one masked.                      *)
OnesInByte(bits, i) == Cardinality({b \in 0 .. ByteBits - 1 : i * ByteBits + b \in bits})

(* A faulty variant of count_allocations: the last byte is not masked.        *)
FaultyCount ==
  MapThenSumSet(LAMBDA i : OnesInByte(gc_mark_bits, i),
                0 .. (number_of_elements - 1) \div ByteBits)
count_allocations ==
  LET max_index == number_of_elements \div ByteBits
      bits_in_last_byte == number_of_elements % ByteBits
  IN  MapThenSumSet(LAMBDA i : OnesInByte(gc_mark_bits, i), 0 .. max_index - 1)
      + IF bits_in_last_byte # 0
        THEN Cardinality({b \in 0 .. bits_in_last_byte - 1 :
                            max_index * ByteBits + b \in gc_mark_bits})
        ELSE 0

(* External: a span is set up with free_index 0 and its cache filled.         *)
Init ==
  /\ free_index = 0
  /\ alloc_bits \in SUBSET Positions
  /\ alloc_cache = Refill(alloc_bits, 0)
  /\ gc_mark_bits \in FreshBits
  /\ allocations_count = Cardinality(alloc_bits \cap Objects)
  /\ taken = {}
  /\ pc = "idle" /\ caller = "none" /\ scan = 0 /\ result = 0

(* External: the mark phase finds an object in use alive.                     *)
Mark(n) ==
  /\ pc = "idle"
  /\ n \in InUse
  /\ gc_mark_bits' = gc_mark_bits \cup {n}
  /\ UNCHANGED <<free_index, alloc_cache, alloc_bits, allocations_count, taken,
                 pc, caller, scan, result>>

-------------------------------------------------------------------------------
(* next_free_index                                                            *)

(* It returns r: an allocation takes the object and counts it, sweep only     *)
(* wants to know whether there is one.                                        *)
Return(r) ==
  /\ result' = r
  /\ caller' = "none"
  /\ scan' = 0
  /\ IF caller = "allocate"
     THEN /\ pc' = "idle"
          /\ taken' = taken \cup ({r} \cap Objects)
          /\ allocations_count' =
               allocations_count + IF r \in Objects THEN 1 ELSE 0
     ELSE /\ pc' = "reset"
          /\ UNCHANGED <<taken, allocations_count>>

(* External: an object is allocated.                                          *)
Allocate ==
  /\ pc = "idle"
  /\ pc' = "enter" /\ caller' = "allocate"
  /\ UNCHANGED <<spanVars, taken, scan, result>>

Enter ==
  /\ pc = "enter"
  /\ IF free_index = number_of_elements
     THEN Return(free_index)
     ELSE /\ pc' = IF free_index > number_of_elements THEN "panicked" ELSE "scan"
          /\ scan' = free_index
          /\ UNCHANGED <<allocations_count, taken, caller, result>>
  /\ UNCHANGED <<free_index, alloc_cache, alloc_bits, gc_mark_bits>>

(* Faulty variants of NextWord: not rounded down, or the same word again.     *)
FaultyUnrounded == scan + WordBits
FaultySameWord == (scan \div WordBits) * WordBits

(* `span_free_index + 64 & !(64 - 1)'                                         *)
NextWord == ((scan + WordBits) \div WordBits) * WordBits

(* The cached word is used up: go to the next word, if there is one.          *)
SkipWord ==
  /\ pc = "scan"
  /\ alloc_cache = {}
  /\ \/ /\ NextWord >= number_of_elements
        /\ free_index' = number_of_elements
        /\ Return(number_of_elements)
        /\ UNCHANGED alloc_cache
     \/ /\ NextWord < number_of_elements
        /\ scan' = NextWord
        /\ alloc_cache' = Refill(alloc_bits, NextWord \div ByteBits)
        /\ UNCHANGED <<free_index, allocations_count, taken, pc, caller, result>>
  /\ UNCHANGED <<alloc_bits, gc_mark_bits>>

(* A faulty variant of FoundBeyond: free_index is not held to the span.       *)
FaultyBeyond ==
  /\ pc = "scan"
  /\ alloc_cache # {}
  /\ scan + Min(alloc_cache) >= number_of_elements
  /\ free_index' = scan + Min(alloc_cache) + 1
  /\ Return(number_of_elements)
  /\ UNCHANGED <<alloc_cache, alloc_bits, gc_mark_bits>>

(* The first free object, scan + trailing_zeros, is beyond the span.          *)
FoundBeyond ==
  /\ pc = "scan"
  /\ alloc_cache # {}
  /\ scan + Min(alloc_cache) >= number_of_elements
  /\ free_index' = number_of_elements
  /\ Return(number_of_elements)
  /\ UNCHANGED <<alloc_cache, alloc_bits, gc_mark_bits>>

(* A faulty variant of FoundObject: no new word at the end of one.            *)
FaultyNoRefill ==
  /\ pc = "scan"
  /\ alloc_cache # {}
  /\ scan + Min(alloc_cache) < number_of_elements
  /\ free_index' = scan + Min(alloc_cache) + 1
  /\ alloc_cache' = {b \in Word : b + Min(alloc_cache) + 1 \in alloc_cache}
  /\ Return(scan + Min(alloc_cache))
  /\ UNCHANGED <<alloc_bits, gc_mark_bits>>

(* It is in the span: shift it out of the cache, with a new word if the next  *)
(* object begins one.  A shift by WordBits panics, or does nothing.           *)
FoundObject ==
  /\ pc = "scan"
  /\ alloc_cache # {}
  /\ LET bit_index == Min(alloc_cache)
         object == scan + bit_index
         next == object + 1
         shifted == IF bit_index + 1 = WordBits THEN alloc_cache
                    ELSE {b \in Word : b + bit_index + 1 \in alloc_cache}
     IN  /\ object < number_of_elements
         /\ \/ /\ ShiftChecks /\ bit_index + 1 = WordBits
               /\ pc' = "panicked"
               /\ UNCHANGED <<free_index, alloc_cache, allocations_count, taken,
                              caller, scan, result>>
            \/ /\ ShiftChecks => bit_index + 1 < WordBits
               /\ free_index' = next
               /\ alloc_cache' = IF next % WordBits = 0 /\ next # number_of_elements
                                 THEN Refill(alloc_bits, next \div ByteBits)
                                 ELSE shifted
               /\ Return(object)
  /\ UNCHANGED <<alloc_bits, gc_mark_bits>>

-------------------------------------------------------------------------------
(* The part of sweep that is about the bits.                                  *)

(* `self.count_allocations() as u16'                                          *)
Counted16 == count_allocations % CountMod
SweepCount ==
  /\ pc = "idle"
  /\ IF Counted16 > allocations_count
     THEN pc' = "panicked" /\ UNCHANGED <<allocations_count, caller>>
     ELSE /\ pc' = "enter" /\ caller' = "sweep"
          /\ allocations_count' = Counted16
  /\ UNCHANGED <<free_index, alloc_cache, alloc_bits, gc_mark_bits, taken, scan, result>>

(* A faulty variant of SweepReset: the search does not start over.            *)
FaultyReset ==
  /\ pc = "reset"
  /\ pc' = "idle"
  /\ alloc_bits' = gc_mark_bits
  /\ gc_mark_bits' \in FreshBits
  /\ alloc_cache' = Refill(gc_mark_bits, 0)
  /\ taken' = {}
  /\ UNCHANGED <<free_index, allocations_count, caller, scan, result>>

SweepReset ==
  /\ pc = "reset"
  /\ pc' = "idle"
  /\ free_index' = 0
  /\ alloc_bits' = gc_mark_bits
  /\ gc_mark_bits' \in FreshBits
  /\ alloc_cache' = Refill(gc_mark_bits, 0)
  /\ taken' = {}
  /\ UNCHANGED <<allocations_count, caller, scan, result>>

Next ==
  \/ \E n \in Objects : Mark(n)
  \/ Allocate \/ Enter \/ SkipWord \/ FoundBeyond \/ FoundObject
  \/ SweepCount \/ SweepReset

Spec == Init /\ [][Next]_vars
FairSpec == Spec /\ WF_vars(Enter \/ SkipWord \/ FoundBeyond \/ FoundObject)

-------------------------------------------------------------------------------
(* Properties.                                                                *)

(* The variables stay within their types.                                     *)
TypeOK ==
  /\ free_index \in 0 .. number_of_elements
  /\ alloc_cache \subseteq Word
  /\ alloc_bits \subseteq Positions /\ gc_mark_bits \subseteq Positions
  /\ allocations_count \in 0 .. number_of_elements
  /\ taken \subseteq Objects
  /\ pc \in {"idle", "enter", "scan", "reset", "panicked"}
  /\ caller \in {"none", "allocate", "sweep"}
  /\ scan \in Nat /\ result \in 0 .. number_of_elements

(* The cache shows position i of the bitmaps in bit 0: the rest of i's word,  *)
(* complemented and shifted down.                                             *)
CacheShows(i) ==
  alloc_cache = {b \in Word : (i % WordBits) + b < WordBits /\ i + b \notin alloc_bits}

(* "the lowest bit [of allocCache] corresponds to the bit freeindex", as long *)
(* as there is anything left to find: through shifts, refills and sweeps.     *)
CacheCoherent ==
  free_index < number_of_elements /\ pc \in {"idle", "enter"} => CacheShows(free_index)

(* What is in use is what lies before free_index or has its bit set, and all  *)
(* of it is counted: no object is handed out twice or forgotten, and sweep's  *)
(* "sweep increased allocation count" cannot happen.                          *)
InUseCounted ==
  pc = "idle" => /\ InUse = {n \in Objects : n < free_index \/ n \in alloc_bits}
                 /\ taken \cap alloc_bits = {}
                 /\ allocations_count = Cardinality(InUse)

(* count_allocations counts the marked objects and no undefined bits.         *)
CountExact == count_allocations = Cardinality(gc_mark_bits \cap Objects)

(* The loop of next_free_index ends.                                          *)
SearchEnds == pc = "enter" ~> pc \notin {"enter", "scan"}

(* next_free_index returns the first free object there is at or after         *)
(* free_index, however the words of the bitmaps lie.                          *)
Free == INSTANCE FreeObjects WITH
  Size <- number_of_elements, bits <- alloc_bits \cap Objects,
  index <- free_index, found <- result

FindsFirstFree == Free!FreeSpec
===============================================================================
