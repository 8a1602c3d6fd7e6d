SPECIFICATION FairSpec
CONSTANTS
  Bytes = {0}
  BufLen = 2
  FifoDepth = 1
  WriteThreshold = 0
  IntMax = 4
  DefaultTimeout = 2
  HasClock = TRUE
  WriteSizes = {2}
  ReadSizes = {1}
  Timeouts = {}
  Modes = {FALSE}
PROPERTY IsrEnds
PROPERTY ReaderWakes
PROPERTY BlockedCallEnds
PROPERTY ActiveHostGetsAll
