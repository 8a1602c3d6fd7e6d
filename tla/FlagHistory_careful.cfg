CONSTANTS
  DataBits = 2
  WordMod = 4
  Bytes <- MCBytes
  Divisors = {0, 1}
  PowerUp = {2}
  Addresses = {0, 1, 2, 5}
SPECIFICATION CarefulSpec
INVARIANTS UnreadIsFlagged UnackedIsFlagged CarefulInv
PROPERTIES ReadFlagFalls
