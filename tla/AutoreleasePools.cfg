SPECIFICATION FairSpec
CONSTANTS
  o1 = o1 o2 = o2
  Obj = {o1, o2}
  MaxPools = 3
  MaxPooled = 4
  MaxCount = 3
\* An abort ends the process.
CHECK_DEADLOCK FALSE
INVARIANTS AInv CountsAddUp TokensFit
PROPERTIES PopRestores ImplementsScopes PopEnds
