SPECIFICATION Spec
CONSTANTS
  None = None
  d1 = d1
  d2 = d2
  Domain = {d1}
  MaxWriteFaults = 1
  MaxReadFaults = 0
INVARIANT NoDowngrade
