SPECIFICATION Spec
CONSTANTS
  Devices = {d1}
  FileSystems = {fs}
  Null = null
  Refusers = {}
  MaxFd = 6
  StdDevices = {d1}
  Requests = {{}}
INVARIANT LockIsExclusive
