CONSTANTS
  DataBits = 2
  WordMod = 8
  Bytes = {}
  Divisors = {}
  PowerUp = {3}
  Addresses = {2, 4}
  MaxSkew = 1
  MaxAway = 1
  Backlog = 3
SPECIFICATION LinkSpec
INVARIANTS LinkInv NothingLost
PROPERTIES Fidelity ReadsNext Delivered
