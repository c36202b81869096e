CONSTANTS
  BitsPerByte = 2
  PageBytes = 4
  BiosFrames = 1
  IntFrames = 64
  CounterMod = 32
  MemMaps <- SmallMaps
  LockRanges <- SmallRanges
  MaxRun = 2
SPECIFICATION Spec
INVARIANTS
  HintSound
  HeldFramesAreMarked
  HeldFramesAreUsable
  CountersMatchBitmap
PROPERTIES
  RequestFindsAFrame
  PoolSpec
