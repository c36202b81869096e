CONSTANTS
  Grain = 2
  Header = 4
  Page = 16
  heap_start = 16
  InitPages = 2
  Sizes <- SmallSizes
  MaxPages = 4
  MaxLive = 3
  MaxLength = 64
  MaxStale = 3
SPECIFICATION Spec
INVARIANTS
  TilesUntilMerge
  
PROPERTIES
  FirstFitElseGrow
  FreeCoalesces
  MallocReturnsUntilMerge
CHECK_DEADLOCK FALSE
