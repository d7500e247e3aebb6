\* The kernel's heap in small: three chunks of different classes (100 KiB is
\* 64 + 32 + 4 KiB), the whole heap below ClassSize[MAX_ORDER].
CONSTANTS
  MAX_ORDER = 4
  ClassSize <- MCClassSize
  MIN_SIZE = 2
  HeapStart = 16
  HeapSize = 14
  Layouts <- MCLayouts
SPECIFICATION PointerSpec
INVARIANTS
  TypeOK
  FreeChunksApart
  BlocksApart
  NothingLost
  HeadersFit
  Coalesced
  FailsOnlyWhenFull
  ListsRepresent
PROPERTY ImplementsContract
