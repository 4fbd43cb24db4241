SPECIFICATION Spec
CONSTANTS
  h1 = h1
  h2 = h2
  Handlers = {h1, h2}
  Default <- MainDefault
  Overrides = {}
  ValueLengths = {1, 51200}
  AnswerLengths = {1}
  AnswerBound = 51200
  MaxValueBytes <- MainMaxValue
  MaxBuckets = 1
  MaxClock = 3
INVARIANT LargeValuesFit
