--------------------------------- MODULE Arenas ---------------------------------
(******************************************************************************)
(* Addresses, pages and arenas: the constants of memory_allocator.rs, the     *)
(* index functions of memory_heap.rs, and the bounds of a span in physical    *)
(* pages of memory_span.rs.                                                   *)
(*                                                                            *)
(* An address is a number below AddressMod, 2^64.  A shift to the left is a   *)
(* product, to the right a quotient.                                          *)
(******************************************************************************)
EXTENDS Integers

CONSTANTS
  AddressMod,              (* 2^64, or less                                    *)
  PAGE_SHIFT,              (* 13                                               *)
  HEAP_ADDRESS_BITS,       (* 48                                               *)
  LOG_HEAP_ARENA_BYTES,    (* 26                                               *)
  ARENA_LEVEL_1_BITS,      (* 0; the platforms with more do not compile        *)
  PhysicalPageSize         (* page_size::get()                                 *)

PAGE_SIZE == 2 ^ PAGE_SHIFT
HEAP_ARENA_BYTES == 2 ^ LOG_HEAP_ARENA_BYTES
PAGES_PER_ARENA == HEAP_ARENA_BYTES \div PAGE_SIZE
ARENA_LEVEL_2_BITS == HEAP_ADDRESS_BITS - LOG_HEAP_ARENA_BYTES - ARENA_LEVEL_1_BITS
ARENA_LEVEL_1_SHIFT == ARENA_LEVEL_2_BITS
ARENA_BASE_OFFSET == 2 ^ (HEAP_ADDRESS_BITS - 1)

(* Sizes are powers of two, a larger one a multiple of a smaller one; the     *)
(* offset is one of whole arenas, and the first level of the map may be void. *)
ASSUME GeometryAssumption ==
  /\ PAGE_SIZE \in Nat \ {0} /\ PAGES_PER_ARENA \in Nat \ {0}
  /\ HEAP_ARENA_BYTES \in Nat \ {0}
  /\ HEAP_ARENA_BYTES = PAGES_PER_ARENA * PAGE_SIZE
  /\ ARENA_BASE_OFFSET \in Nat /\ ARENA_BASE_OFFSET % HEAP_ARENA_BYTES = 0
  /\ AddressMod \in Nat \ {0} /\ ARENA_BASE_OFFSET < AddressMod
  /\ ARENA_LEVEL_1_BITS \in Nat /\ ARENA_LEVEL_2_BITS \in Nat \ {0}
  /\ PhysicalPageSize \in Nat \ {0}

(* The addresses that arena_index takes without a wrap: the half of the       *)
(* address space in which a process has its heap.                             *)
HeapAddresses == {p \in 0 .. AddressMod - 1 : p + ARENA_BASE_OFFSET < AddressMod}

-------------------------------------------------------------------------------
(* The arena of an address, and its place in the two levels of the map.       *)
arena_index(p) == ((p + ARENA_BASE_OFFSET) % AddressMod) \div HEAP_ARENA_BYTES

arena_level_1(i) ==
  IF ARENA_LEVEL_1_BITS = 0 THEN 0 ELSE i \div 2 ^ ARENA_LEVEL_1_SHIFT

(* `1 << ARENA_LEVEL_2_BITS - 1' is a single bit, not a mask of the lower     *)
(* ones: `-' binds more tightly than `<<'.                                    *)
Level2Bit == 2 ^ (ARENA_LEVEL_2_BITS - 1)
arena_level_2(i) ==
  IF ARENA_LEVEL_1_BITS = 0 THEN i ELSE Level2Bit * ((i \div Level2Bit) % 2)

(* Where set_span stores the span of an address.  Its only call is in merge,  *)
(* the closure of coalesce that is not called yet.                            *)
Entry(p) == <<arena_level_1(arena_index(p)), arena_level_2(arena_index(p))>>
SpanIndex(p) == (p \div PAGE_SIZE) % PAGES_PER_ARENA

-------------------------------------------------------------------------------
(* The bounds of a span in whole physical pages.  `start + number_of_pages << *)
(* PAGE_SHIFT' shifts the sum.                                                *)
RoundDown(x) == x - (x % PhysicalPageSize)
RoundUp(x) == RoundDown((x + PhysicalPageSize - 1) % AddressMod)

physical_page_bounds(start, number_of_pages) ==
  LET end == ((start + number_of_pages) * PAGE_SIZE) % AddressMod IN
    IF PhysicalPageSize > PAGE_SIZE THEN <<RoundUp(start), RoundDown(end)>>
    ELSE <<start, end>>

released(start, number_of_pages, scavenged) ==
  LET bounds == physical_page_bounds(start, number_of_pages) IN
    IF scavenged THEN (bounds[2] - bounds[1]) % AddressMod ELSE 0
===============================================================================
