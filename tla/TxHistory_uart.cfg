CONSTANTS
  DataBits = 2
  WordMod = 3
  Bytes <- MCBytes
  Divisors = {0, 1}
  PowerUp = {1}
  Addresses = {0, 1, 5}
SPECIFICATION FairSpec
INVARIANTS TypeOK TxInv
PROPERTIES TxImplementsLine TxCompletes RxReturns ClearTakesEffect
