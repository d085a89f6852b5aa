CONSTANTS
  KERNEL_START <- Start
  KERNEL_END <- KEnd
  MaxAddress = 255
  MemoryMaps <- Maps
  Requests <- Sizes
SPECIFICATION CopyFairSpec
INVARIANTS TypeOK Tiling ListSorted Coalesced ExhaustionIsReal Restored CopyMatches
PROPERTIES KeepsPromise CallsReturn
CHECK_DEADLOCK FALSE
