SPECIFICATION Spec
CONSTANTS
  BlockCount <- MCBlockCount
  Requests <- MCRequests
INVARIANT ChainTiles
INVARIANT NoTwoFreeInARow
INVARIANT AllocationsDisjoint
INVARIANT AllFreedRestores
