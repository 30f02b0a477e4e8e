SPECIFICATION SpecScheduler
CONSTANTS
  PageSize = 8
  PageCount = 10
  KernelDir = 2
  TempSlot = 1
  VgaSlot = 2
  KernelStart = 3
  WritableStart = 4
  HeapEnd = 5
  Files <- MCFiles
  MaxProcesses = 2
  MaxKernelPages = 2
  tick_slices = 2
  Calls <- FewCalls
INVARIANT PagesHaveOneOwner
INVARIANT ReachesOwnPagesOnly
INVARIANT ImageIsLoaded
INVARIANT RunsForCurrent
PROPERTY LoadedStaysLoaded
PROPERTY TicksLeaveThread
PROPERTY TicksEnd
