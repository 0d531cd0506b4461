CONSTANTS
  Secrets = {s1}
  MaxDecodes = 3
  None = None
  Curves <- MCCurves
SPECIFICATION Spec
INVARIANT NoLeak
