\* A heap of three chunks of the largest class, two of them buddies.
CONSTANTS
  MAX_ORDER = 3
  ClassSize <- MCClassSize
  MIN_SIZE = 2
  HeapStart = 16
  HeapSize = 12
  Layouts <- MCLayouts
SPECIFICATION Spec
PROPERTY ImplementsContract
