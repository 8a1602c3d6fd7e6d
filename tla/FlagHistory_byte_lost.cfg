CONSTANTS
  DataBits = 2
  WordMod = 4
  Bytes = {}
  Divisors = {1}
  PowerUp = {2}
  Addresses = {0, 2, 4, 5}
SPECIFICATION PolledSpec
INVARIANTS UnreadIsFlagged
