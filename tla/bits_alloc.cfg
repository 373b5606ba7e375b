CONSTANTS
  AddressMod = 128
  PAGE_SHIFT = 1
  HEAP_ADDRESS_BITS = 6
  LOG_HEAP_ARENA_BYTES = 3
  ARENA_LEVEL_1_BITS = 0
  PhysicalPageSize = 1
  number_of_elements = 5
  WordBits = 4
  ByteBits = 2
  CountMod = 8
  ShiftChecks = FALSE
SPECIFICATION FairSpec
INVARIANTS IInv CacheCoherent InUseCounted CountExact
PROPERTIES FindsFirstFree SearchEnds
