SPECIFICATION Spec
CONSTANTS
  k1 = k1
  k2 = k2
  h1 = h1
  h2 = h2
  ApiKeys = {k1, k2}
  Handlers = {h1, h2}
  None = None
  Fragments = {}
  RepeatDraws = FALSE
SYMMETRY Symmetry
INVARIANT TornDown
