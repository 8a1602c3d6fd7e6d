SPECIFICATION CallsSpec
CONSTANTS
  d1 = d1
  d2 = d2
  fs = fs
  Devices = {d1, d2}
  FileSystems = {fs}
  Null = null
  Refusers = {d2, fs}
  MaxFd = 5
  StdDevices = {d1, d2}
  Requests = {{}, {"ALT_FD_EXCL", "O_RDWR"}}
  tx = tx
  rx = rx
  flash = flash
  Channels <- MCChannels
  ListOf <- MCListOf
  FlashOpens = {flash}
  Name <- MCName
  Provides <- MCProvides
  Kinds <- MCKinds
  Paths <- MCPaths
  Ctors = 1
INVARIANT FdInv
INVARIANT CallsInv
PROPERTY LockKeepsOut
CHECK_DEADLOCK FALSE
