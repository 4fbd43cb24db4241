SPECIFICATION Spec
CONSTANTS
  h1 = h1
  h2 = h2
  Handlers = {h1, h2}
  Default <- MCDefault
  Overrides <- MCOverrides
  ValueLengths = {0, 2, 3}
  AnswerLengths = {0, 2}
  AnswerBound = 2
  MaxValueBytes = 2
  MaxBuckets = 1
  MaxClock = 3
SYMMETRY Symmetry
INVARIANTS
  TypeOK
  NoFreeTokens
  DebtBound
  OneConfig
