\* Pages of four bytes, pointers of two.
CONSTANTS
  PageSize = 4
  PointerSize = 2
  virtual_base = 64
  KernelStart = 8
  FirstFree = 5
  FreeFrames = 4
  Kernels <- MCKernels
SPECIFICATION Spec
CHECK_DEADLOCK FALSE
INVARIANTS ImageIntact BytesApart PermissionsKept LoadsGoodKernels
