SPECIFICATION Spec
CONSTANTS
  Vectors <- MCVectors
  Values <- MCValues
  MaxSize = 3
  Habits <- KernelHabits
INVARIANT HoldsItsElements
INVARIANT EveryObjectEndsOnce
