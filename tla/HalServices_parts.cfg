SPECIFICATION ServicesSpec
CONSTANTS
  Alarms = {a1, a2, a3}
  ListHead = ListHead
  None = None
  WordMod = 4
  Delays = {0, 1, 2}
  Periods = {0, 1, 3}
  StopsNext = FALSE
  US = 6
  TickRates = {2, 3, 4}
  SetTimes <- MCSetTimes
  CpuFreq = 60
  LoopCycles = 3
  IntMax = 7
  Sleeps = {0, 1, 2, 3, 5}
  NIrq = 2
  Routines = {1}
  Withdrawable = {1}
  MaxCalls = 3
  MaxDepth = 4
  Word = 2
  HeapStart = 0
  HeapLimit = 8
  Increments = {1, 2}
  Slab = 4
  RecordSize = 2
  Histogram = 2
  StackPointers = {4}
  ExceptionStack = TRUE
  Arcs <- MCArcs
  LineSize = 2
  DLines = 2
  ILines = 1
  MemLines = 3
  Regions <- MCRegions
  Sections = {0, 1}
  Characters <- MCCharacters
  HexDigits = 2
  Room = 1
  EchoLen = 3
  BufSize = 4
  Interval = 1
  Levels <- MCLevels
  Messages <- MCMessages
  Writes <- MCWrites
  Backlogs <- MCBacklogs
  MaxPrints = 1
  MaxInterrupts = 2
INVARIANT AlarmInv
INVARIANT TimeInv
INVARIANT IrqInv
INVARIANT HeapInv
INVARIANT CacheInv
INVARIANT ConsoleInv
PROPERTY OnTime
PROPERTY TickEnds
PROPERTY RoutinesWanted
PROPERTY HighestServed
CHECK_DEADLOCK FALSE
