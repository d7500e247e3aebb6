\* A map in the shape of the one QEMU reports.
CONSTANTS
  FrameSize = 2
  LargeSize = 8
  MaxRegions = 9
  MemoryMaps <- QemuMaps
  LastAddresses <- MCLast
  MaxEarly = 5
  MaxLate = 4
  MaxKernel = 5
SPECIFICATION Spec
CHECK_DEADLOCK FALSE
INVARIANT KernelFramesUnused
