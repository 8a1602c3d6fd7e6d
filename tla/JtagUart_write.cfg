SPECIFICATION Spec
CONSTANTS
  Bytes = {0, 1}
  BufLen = 3
  FifoDepth = 1
  WriteThreshold = 0
  IntMax = 4
  DefaultTimeout = 2
  HasClock = TRUE
  WriteSizes = {0, 3}
  ReadSizes = {}
  Timeouts = {1, 2}
  Modes = {FALSE, TRUE}
INVARIANT JtagInv
PROPERTY OutputIsStream
