SPECIFICATION Spec
CONSTANTS
  Nodes <- MCNodes
  Lists <- MCLists
  Habits <- KernelHabits
  NULL = NULL
  n1 = n1
  n2 = n2
  n3 = n3
  n4 = n4
  n5 = n5
  l1 = l1
  l2 = l2
SYMMETRY MCSymmetry
INVARIANT Shape
INVARIANT Ownership
INVARIANT IteratorStays
