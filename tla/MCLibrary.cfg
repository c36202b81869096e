CONSTANTS
  Handles = {h1, h2}
  Protocols = {"p", "q"}
  Lists <- SmallLists
  NotifyLevels = {1, 2}
  LockTpl = 2
  MaxCalls = 3
  MaxTicks = 1
  MaxRefusals = 1
  NoHandle = none
  Elements = {"a", "b", "c", "d", "x"}
  Objects <- SmallObjects
  NoObject = none
  Guess = 2
  BootOption = "x"
  MaxPoolRefusals = 1
  MaxChanges = 2
  FilePaths <- SmallFilePaths
  SourceSizes = {0, 2}
  MaxUintn = 3
  MaxFileRefusals = 1
  MaxReads = 1
  Nothing = none
  Prints <- SmallPrints
  Sinks <- SmallSinks
  PRINT_STRING_LEN = 4
  MaxLength = 255
  MaxGrowRefusals = 1
  Subjects <- AllSubjects
  Patterns <- SmallPatterns
  UintnBits = 24
  Numbers <- SmallNumbers
  Floats <- SmallFloats
  Hours = {0, 1, 11, 12, 13, 23}
  Decimals = {0, 9, 10, 59, 99}
  Copies <- SmallCopies
  MemorySize = 7
  CommandLines <- SmallCommandLines
  MAX_CMDLINE_ARGC = 3
  Memories <- SmallMemories
  Lengths = {0, 1, 2, 3}
  Unused = 7
  W = 8
  Operands <- SmallOperands
  Multipliers <- SmallMultipliers
  WordBits = 24
  Dividends <- SmallDividends
  ArgumentLists <- SmallArgumentLists
  JumpValues = {0, 1, 3, 256, 259}
  Half = 256
  Statuses = {0, 1, 2}
  MaxSteps = 40
  LinkedSizes <- SmallLinks
  Paths <- SmallPaths
  Names <- SmallNames
  MinAlignment = 4
  MaxPathCalls = 3
  Machines = {"ia32", "arm", "x86_64", "aarch64", "riscv64", "mips64el", "ia64"}
  MAX_FUNCTION_DESCRIPTORS = 1
  ImageWords = 4
  LoadBases = {0, 6}
  RelocTables <- SmallTables
  GotSizes = {0, 2}
  WordSize = 8
  Layouts <- SmallLayouts
  IntBits = 16
  Ints <- SmallInts
  Uints = {0, 99, 65535}
  Doubles <- SmallDoubles
  Precisions = {3, 25}
  Words <- SmallWords
  Garbage = {0, 255}
  MaxConversions = 2
  Partitions <- SmallPartitions
  MAX_MBR_PARTITIONS = 3
  Lbas = 16
  LastBlocks = {3, 8, 20}
  MIN_MBR_DEVICE_SIZE = 6
  MBR_ERRATA_PAD = 2
  UiStrings <- SmallUiStrings
  SmbiosRecords <- SmallRecords
  MaxRecords = 2
  TYPE1_LENGTH = 5
  Flips <- SmallFlips
  TableSizes = {0, 18, 24}
  Registers <- SmallRegisters
  Uninitialised = 999
  Keys = {"a", "b"}
  LineSizes = {0, 1, 3}
  MaxKeys = 4
  DumpSizes = {0, 5}
  DumpBytes = 2
  ScreenRows = {1, 2, 4}
  Timeouts = {0, 1}
  Drivers <- SmallDrivers
  Languages <- SmallLanguages
  ISO_639_2_ENTRY_SIZE = 2
  MaxInits = 2
  ListLengths = {1, 3}
  Images = {h1, h2, h3}
  MaxCommands = 5
  MaxDriverRefusals = 2
  VendorIds = {0, 4130, 4318, 4660, 32902}
  DeviceIds = {0, 4130, 10520, 10530, 10544, 10688, 65534}
  ClassCodes = {0, 1, 3, 11, 12, 13, 19, 20, 64, 255}
  SubclassCodes = {0, 1, 2, 3, 4, 5, 6, 7, 8, 9, 128}
  ProgIfs = {0, 1, 2, 16, 32, 48, 128, 254, 255}
  ListEntries = {h1, h2, h3}
  ListHead = h4
  BAD_POINTER = none
  SalTables <- SmallSalTables
  PalIndexes = {0, 1, 254, 256, 511, 512, 767, 768, 1023, 1024}
  PageNumbers = {0, 1, 2, 3, 4, 6, 7}
  MAX_NUM_PAGES = 2
  MAX_ADDR = 4
  IntnMax = 3
  Displays <- SmallDisplays
  BoxSize = 2
  PciBuses <- SmallBuses
  VariableFetches <- SmallFetches
  PauseLimit = 3
  NameLists <- SmallNameLists
  NameSize = 4
SPECIFICATION Spec
INVARIANTS LocksExclude NoHalfInstalled BuffersAreReturned BootOrderIsKept 
  ReadsStayInside   CallsReach SessionKept ListIsLinked
  RelocatedOnce
PROPERTIES NothingMissed 
CHECK_DEADLOCK FALSE
