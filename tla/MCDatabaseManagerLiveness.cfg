SPECIFICATION FairSpec
CONSTANTS
  k1 = k1
  f1 = f1
  h1 = h1
  h2 = h2
  h3 = h3
  ApiKeys = {k1, f1}
  Handlers = {h1, h2, h3}
  None = None
  Fragments = {f1}
  RepeatDraws = TRUE
INVARIANTS
  OneOwner
  NoCircularWait
PROPERTY EveryRequestAnswered
