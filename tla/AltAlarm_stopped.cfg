SPECIFICATION Spec
CONSTANTS
  Alarms = {a1, a2}
  ListHead = ListHead
  None = None
  WordMod = 4
  Delays = {0, 1, 2}
  Periods = {0, 1, 3}
  StopsNext = TRUE
PROPERTY StoppedIsQuiet
