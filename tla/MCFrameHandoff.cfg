\* Every map, with the kernel ending at several places in and behind its region.
CONSTANTS
  FrameSize = 2
  LargeSize = 8
  MaxRegions = 9
  MemoryMaps <- MCMaps
  LastAddresses <- MCLast
  MaxEarly = 5
  MaxLate = 4
  MaxKernel = 5
SPECIFICATION Spec
CHECK_DEADLOCK FALSE
INVARIANTS TypeOK LoaderFramesUnusedInRegion FreeIsUnusedInRegion NothingForgotten WindowCoversMemory KernelFramesDistinct
