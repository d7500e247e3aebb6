CONSTANTS
  Frames <- MCFrames
  Root = 20
  TableFrames <- MCTableFrames
  DataFrames <- MCDataFrames
  Index <- MCIndex
  Pages <- MCPages
  CallerFlags <- MCFlags
  PageSize = 2
  KernelPages <- MCKernelPages
  ContextSwitches <- MCSwitches
  StackTop = 416
  StackSize = 2
  PhysicalOffset = 256
  MaxPhysicalAddress = 98
  HeapStart = 134
  HeapSize = 4
  FreePages <- MCFreePages
SPECIFICATION Stage4Spec
CHECK_DEADLOCK FALSE
INVARIANTS
  TablesFormTree
  CpuAgrees
  ExpectsHold
  SwitchSurvives
  WindowShowsMemory
PROPERTY ImplementsAddressSpace
