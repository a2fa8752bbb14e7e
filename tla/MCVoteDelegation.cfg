CONSTANTS
  Accounts = {a1, a2, a3, a4}
  Delegators = {a1, a2}
  None = None
  Whole = 3
  MinFraction = 1
  MaxDelegations = 2
  MaxTime = 2
SYMMETRY Symmetry
CHECK_DEADLOCK FALSE
SPECIFICATION Spec
INVARIANTS
  StoresInv
  MirroredWithinWhole
PROPERTIES
  OthersInForceKept
