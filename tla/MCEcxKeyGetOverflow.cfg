CONSTANTS
  KeyIds = {k1, k2}
  GenIds = {g1}
  Secrets = {s1, s2}
  None = None
  Curves <- MCCurves
  InLens <- MCInLens
  BufSizes <- MCBufSizes
SPECIFICATION Spec
INVARIANT GetWritesWithinBuffer
