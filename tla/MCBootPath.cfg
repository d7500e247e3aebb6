\* Sectors of eight bytes, directory slots of two, a buffer of two sectors;
\* two sectors per call in the MBR, paragraphs of two bytes, offsets of five bits.
CONSTANTS
  SectorSize = 8
  DirEntrySize = 2
  BufferSectors = 2
  Fat12Clusters = 8
  Fat16Clusters = 12
  Names <- MCNames
  Dst <- MCDst
  MemorySectors = 10
  MaxFileSectors = 12
  Volumes <- MCVolumes
  ChunkSectors = 2
  SecondStageStart = 16
  Paragraph = 2
  OffsetSpace = 32
  Wanted <- MCWanted
  Infinity = 1000
  FilePage <- MCFilePage
  LastFrame = 2621439
  TssAddress <- MCTssAddress
  ModesOf <- MCModesOf
SPECIFICATION BootSpec
CHECK_DEADLOCK FALSE
INVARIANTS FilesIntact LoadsGoodFiles StageTwoWhole CpuNeverFaults ClosestMode
PROPERTY BootEnds
