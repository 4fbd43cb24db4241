SPECIFICATION Spec
CONSTANTS
  k1 = k1
  k2 = k2
  f1 = f1
  h1 = h1
  h2 = h2
  h3 = h3
  ApiKeys = {k1, k2, f1}
  Handlers = {h1, h2, h3}
  None = None
  Fragments = {f1}
  RepeatDraws = FALSE
SYMMETRY Symmetry
INVARIANTS
  TypeOK
  KeysSurvive
  RevokedForever
  SingleHandle
  AckedOnDisk
  NoDirBeforeWrite
PROPERTY KeyService
