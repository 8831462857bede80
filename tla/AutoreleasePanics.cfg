SPECIFICATION Spec
CONSTANTS
  o1 = o1 o2 = o2
  Obj = {o1, o2}
  MaxPools = 3
  MaxPooled = 3
  MaxCount = 2
INVARIANT NeverPanics
