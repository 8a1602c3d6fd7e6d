SPECIFICATION Spec
CONSTANTS
  Keys = {43, 13, 10, 57}
  MaxKeys = 6
  WordMod = 16
  Noise = {FALSE, TRUE}
INVARIANT AnswerIsSum
PROPERTY CarefulReader
PROPERTY Answered
PROPERTY ErrorPasses
