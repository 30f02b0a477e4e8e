SPECIFICATION SpecScheduler
CONSTANTS
  PageSize = 8
  PageCount = 6
  KernelDir = 2
  TempSlot = 1
  VgaSlot = 2
  KernelStart = 3
  WritableStart = 4
  HeapEnd = 5
  Files <- MCFiles
  MaxProcesses = 1
  MaxKernelPages = 0
  tick_slices = 2
  Calls <- MCCalls
INVARIANT SyscallSeesArguments
