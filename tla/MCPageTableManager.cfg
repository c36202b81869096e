CONSTANTS
  BitsPerByte = 1
  PageBytes = 8
  BiosFrames = 1
  IntFrames = 64
  CounterMod = 32
  MemMaps <- SmallMaps
  LockRanges <- NoRanges
  MaxRun = 1
  Levels = 3
  Fan = 2
  VirtPages <- SmallVirtPages
  PhysFrames <- SmallPhysFrames
SPECIFICATION PtmSpec
INVARIANTS
  TablesAreATree
PROPERTIES
  SpaceSpec
CHECK_DEADLOCK FALSE
