CONSTANTS
  BitsPerByte = 1
  PageBytes = 16
  BiosFrames = 1
  IntFrames = 64
  CounterMod = 64
  MemMaps <- None
  LockRanges <- None
  MaxRun = 1
  Levels = 2
  Fan = 8
  VirtPages <- None
  PhysFrames <- None
  Machines <- SmallMachines
  Segments <- SmallSegments
  MaxFailures = 1
  MaxEvents = 1
  MaxPool = 2
  InfoFrame = 22
  BufferBase = 28
  BufferPages = 2
  HeapBase = 32
  HeapPages = 2
  DevicesPerBus = 2
  FunctionsPerDevice = 2
SPECIFICATION BootSpec
INVARIANTS
  MapIsCurrent
  OneUsePerFrame
  FaultsOnlyWithHoles
  ListsFunctions
PROPERTIES
  BootEnds
CHECK_DEADLOCK FALSE
