SPECIFICATION Spec
CONSTANTS
  h1 = h1
  h2 = h2
  k1 = k1
  k2 = k2
  small = small
  large = large
  huge = huge
  Handlers = {h1, h2}
  Keys = {k1, k2}
  Values = {small, large, huge}
  Length <- MCLength
  Sizes = {0, 2, 3}
  MaxValueBytes = 2
  MaxStorageBytes = 2
  Missing = Missing
  None = None
  NoReply = NoReply
  Refused = Refused
  Failed = Failed
  Undefined = Undefined
INVARIANTS
  TypeOK
  OverrunBound
PROPERTY LinearizableStore
