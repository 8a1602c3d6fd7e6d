SPECIFICATION Spec
CONSTANTS
  Bytes = {0, 1}
  BufLen = 3
  FifoDepth = 2
  WriteThreshold = 0
  IntMax = 4
  DefaultTimeout = 2
  HasClock = FALSE
  WriteSizes = {}
  ReadSizes = {0, 1, 3}
  Timeouts = {1, 2}
  Modes = {FALSE, TRUE}
INVARIANT JtagInv
PROPERTY InputIsStream
