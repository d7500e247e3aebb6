----------------------------- MODULE FatLoader ------------------------------
(***************************************************************************)
(* Stage 2 loads stage 3, stage 4 and the kernel from the FAT partition.   *)
(*                                                                         *)
(* A disk is a sequence of sectors.  A sector of a FAT is a sequence of    *)
(* bytes, one of the root directory a sequence of slots, and one of a file *)
(* a single item that tells it from all others.  Memory is counted in      *)
(* sectors from STAGE3_DST.                                                *)
(***************************************************************************)
EXTENDS Integers, Sequences, SequencesExt, FiniteSetsExt

CONSTANTS
  SectorSize,     \* DEFAULT_SECTOR_SIZE
  DirEntrySize,   \* ROOT_DIR_ENTRY_SIZE
  BufferSectors,  \* sectors in try_load_file's buffer, 8 in the code
  Fat12Clusters,  \* volumes with fewer clusters are FAT12, 4085 in the code
  Fat16Clusters,  \* and FAT16, 65525 in the code
  Names,          \* the files in the order of loading
  Dst,            \* and where they go
  MemorySectors,  \* bound: the memory that is looked at
  MaxFileSectors, \* bound: the count of sectors read stops here, above every file and MemorySectors
  Volumes         \* the partitions, with what is stored in them

VARIABLES
  volume,             \* the partition
  pc,                 \* what stage 2 does next
  file,               \* which file it loads
  size,               \* the size in its directory entry
  current_entry,      \* FileIter.current_entry: [kind, cluster]
  offset,             \* where the disk stands for the file's sectors, in bytes
  sectors_left,       \* of the cluster
  total_sectors_read, \* of the file
  slots,              \* the root directory while it is searched
  memory              \* sector of memory |-> sector of the disk

vars == <<volume, pc, file, slots, size, current_entry, offset, sectors_left, total_sectors_read, memory>>
loop == <<slots, size, current_entry, offset, sectors_left, total_sectors_read>>

(* What a sector of a file holds. *)
DataSector(cluster, k) == <<100 * cluster + k>>

Cluster(n) == [kind |-> "Cluster", cluster |-> n]
Special(kind) == [kind |-> kind, cluster |-> 0]

Init ==
  /\ volume \in Volumes
  /\ pc = "mount" /\ file = 1
  /\ size = 0 /\ offset = 0 /\ sectors_left = 0 /\ total_sectors_read = 0
  /\ current_entry = Special("EndOfFile")
  /\ slots = << >>
  /\ memory = [m \in 0 .. MemorySectors - 1 |-> << >>]

-----------------------------------------------------------------------------
(* DiskAccess.  Both offsets are in bytes. *)

base_offset == volume.logical_block_address * SectorSize
start_lba(at) == (base_offset + at) \div SectorSize

(* The sectors a read at an offset asks the firmware for. *)
Readable(at, n) == start_lba(at) + n <= Len(volume.sectors)
read_sectors(at, n) == SubSeq(volume.sectors, start_lba(at) + 1, start_lba(at) + n)

(* Two sectors are read, and bytes of them returned. *)
read_bytes(at, n) == SubSeq(FlattenSeq(read_sectors(at, 2)),
                            (at % SectorSize) + 1, (at % SectorSize) + n)

-----------------------------------------------------------------------------
(* BiosParameterBlock: where things are in the partition.  One of the two  *)
(* counts of sectors is zero.  With the 32-bit one the number at byte 36   *)
(* is taken for the size of a table; only FAT32 has a size there, FAT12    *)
(* and FAT16 the number of the drive and a part of the serial number.      *)

total_sectors ==
  IF volume.total_sectors_16 # 0 THEN volume.total_sectors_16 ELSE volume.total_sectors_32
fat32_size == IF volume.total_sectors_16 # 0 THEN 0 ELSE volume.at36
fat_size == IF volume.fat16_size # 0 /\ fat32_size = 0 THEN volume.fat16_size ELSE fat32_size

root_dir_size == volume.root_entry_count * DirEntrySize
root_dir_sectors == (root_dir_size + SectorSize - 1) \div SectorSize
first_fat_sector == volume.reserved_sector_count
first_data_sector ==
  volume.reserved_sector_count + volume.fat_count * fat_size + root_dir_sectors
first_root_dir_sector == first_data_sector - root_dir_sectors
first_cluster_sector(n) == (n - 2) * volume.sectors_per_cluster + first_data_sector
count_of_clusters == (total_sectors - first_data_sector) \div volume.sectors_per_cluster
fat_type ==
  IF count_of_clusters < Fat12Clusters THEN "Fat12"
  ELSE IF count_of_clusters < Fat16Clusters THEN "Fat16" ELSE "Fat32"

-----------------------------------------------------------------------------
(* The root directory.  A slot is [first, long, name, dir, cluster, size]: *)
(* first is what its first byte says, long its attribute.                  *)

(* The entry that begins at slot s.  A long name is put together from all  *)
(* slots with the attribute; the slot behind them has the rest.            *)
EntryEnd(s) == SelectInSubSeq(slots, s, Len(slots), LAMBDA x : ~ x.long)

NameOf(s, e) ==
  IF s = e THEN <<slots[s].name>> ELSE [k \in 1 .. e - s |-> slots[s + k - 1].name]

Found(slot) == [result |-> "found", cluster |-> slot.cluster, size |-> slot.size]
NotFound(result) == [result |-> result, cluster |-> 0, size |-> 0]

(* The slot with the data of the first entry that has the name, 0 at an    *)
(* end mark.  Without either the slices run past the buffer: -1, a panic.  *)
RootDirIter_find(name) ==
  LET find[s \in 1 .. Len(slots) + 1] ==
        IF s > Len(slots) THEN -1
        ELSE IF slots[s].first = "end" THEN 0
        ELSE IF slots[s].first = "unused" THEN find[s + 1]
        ELSE LET e == EntryEnd(s)
             IN  IF e = 0 THEN -1 ELSE IF NameOf(s, e) = name THEN e ELSE find[e + 1]
  IN  find[1]

find_file_in_root_dir(name) ==
  LET e == RootDirIter_find(name)
  IN  IF e = -1 THEN NotFound("panic")
      ELSE IF e = 0 THEN NotFound("missing")
      ELSE IF slots[e].dir THEN NotFound("missing") ELSE Found(slots[e])

-----------------------------------------------------------------------------
(* The file allocation table. *)

threshold == IF fat_type = "Fat12" THEN 4087 ELSE 65527 \* 0xFF7, 0xFFF7

FatEntry_parse(val) ==
  IF val \in {0, 1} THEN Special("ReservedCluster")
  ELSE IF val > threshold THEN Special("EndOfFile")
  ELSE IF val = threshold THEN Special("BadCluster")
  ELSE Cluster(val)

from_le_bytes(bytes) == bytes[1] + 256 * bytes[2]

(* An entry of FAT12 is one and a half bytes and may lie in two sectors. *)
fat_value(n) ==
  LET at == first_fat_sector * SectorSize
      fat12 == from_le_bytes(read_bytes(at + n + (n \div 2), 2))
  IN  IF fat_type = "Fat16" THEN from_le_bytes(read_bytes(at + n * 2, 2))
      ELSE IF n % 2 = 1 THEN fat12 \div 16 ELSE fat12 % 4096

get_entry(n) == FatEntry_parse(fat_value(n))

-----------------------------------------------------------------------------
(* The steps of start. *)

stop(how) == pc' = how /\ UNCHANGED <<volume, file, memory, loop>>

(* The partition must be of type 0xc and have sectors of 512 bytes and one *)
(* count of sectors that is not zero.                                      *)
mount ==
  /\ pc = "mount"
  /\ IF /\ volume.partition_type = 12 /\ volume.bytes_per_sector = SectorSize
        /\ (volume.total_sectors_16 # 0) # (volume.total_sectors_32 # 0)
     THEN pc' = "find" /\ UNCHANGED <<volume, file, memory, loop>>
     ELSE stop("panic")

(* The subtraction in count_of_clusters may underflow: overflow checks are *)
(* on in stage 2.                                                          *)
read_root_dir ==
  /\ pc = "find"
  /\ IF \/ root_dir_size # SectorSize * DirEntrySize
        \/ total_sectors < first_data_sector \/ fat_type = "Fat32"
     THEN stop("panic")
     ELSE /\ slots' = FlattenSeq(read_sectors(first_root_dir_sector * SectorSize, root_dir_sectors))
          /\ pc' = "search"
          /\ UNCHANGED <<volume, file, size, current_entry, offset, sectors_left,
                         total_sectors_read, memory>>

find_file ==
  LET entry == find_file_in_root_dir(<<Names[file]>>)
  IN  /\ pc = "search"
      /\ CASE entry.result = "panic" -> stop("panic")
           [] entry.result = "missing" -> stop("failed")
           [] entry.result = "found" ->
                /\ slots' = << >>
                /\ size' = entry.size
                /\ current_entry' = Cluster(entry.cluster)
                /\ total_sectors_read' = 0
                /\ pc' = "cluster"
                /\ UNCHANGED <<volume, file, memory, offset, sectors_left>>

(* FileIter yields the cluster and already looks up the one behind it.     *)
(* Numbers below 2 underflow.                                              *)
next_cluster ==
  LET n == current_entry.cluster
  IN  /\ pc = "cluster"
      /\ CASE current_entry.kind \in {"BadCluster", "ReservedCluster"} -> stop("failed")
           [] current_entry.kind = "EndOfFile" -> stop("check")
           [] current_entry.kind = "Cluster" /\ n < 2 -> stop("panic")
           [] current_entry.kind = "Cluster" /\ n >= 2 ->
                /\ current_entry' = get_entry(n)
                /\ offset' = first_cluster_sector(n) * SectorSize
                /\ sectors_left' = volume.sectors_per_cluster
                /\ pc' = "read"
                /\ UNCHANGED <<volume, file, slots, size, total_sectors_read, memory>>

sectors_to_read(left) == IF left < BufferSectors THEN left ELSE BufferSectors

(* Mutant: every buffer goes to the start of the file. *)
dest_start == Dst[file]
dest == Dst[file] + total_sectors_read

(* A buffer of the cluster.  read_sectors leaves an offset that counts the *)
(* start of the partition as well.  Behind the disk the firmware reports   *)
(* an error, and stage 2 halts.                                            *)
read_cluster ==
  LET n == sectors_to_read(sectors_left)
      buffer == read_sectors(offset, n)
  IN  /\ pc = "read"
      /\ IF sectors_left = 0 THEN stop("cluster")
         ELSE IF ~ Readable(offset, n) THEN stop("halted")
         ELSE /\ memory' = [m \in DOMAIN memory |->
                             IF m \in dest .. dest + n - 1 THEN buffer[m - dest + 1]
                             ELSE memory[m]]
              /\ offset' = base_offset + offset + n * SectorSize
              /\ total_sectors_read' = Min({total_sectors_read + n, MaxFileSectors})
              /\ sectors_left' = sectors_left - n
              /\ UNCHANGED <<volume, pc, file, slots, size, current_entry>>

size_in_sectors(bytes) == (bytes + SectorSize - 1) \div SectorSize

(* Mutant: the end of the chain is the end of the file. *)
check_chain ==
  /\ pc = "check"
  /\ pc' = IF file < Len(Names) THEN "find" ELSE "done"
  /\ file' = file + 1
  /\ UNCHANGED <<volume, memory, loop>>

(* Mutant: a file that is too short is loaded again. *)
check_retry ==
  /\ pc = "check"
  /\ IF total_sectors_read < size_in_sectors(size) THEN stop("find")
     ELSE /\ pc' = IF file < Len(Names) THEN "find" ELSE "done"
          /\ file' = file + 1
          /\ UNCHANGED <<volume, memory, loop>>

(* Too few sectors are an error; too many are not. *)
check ==
  /\ pc = "check"
  /\ IF total_sectors_read < size_in_sectors(size) THEN stop("failed")
     ELSE /\ pc' = IF file < Len(Names) THEN "find" ELSE "done"
          /\ file' = file + 1
          /\ UNCHANGED <<volume, memory, loop>>

(* The firmware cannot read a sector: the carry flag is set, and stage 2   *)
(* prints and halts.                                                       *)
fail == pc \in {"mount", "find", "cluster", "read"} /\ stop("halted")

Next == mount \/ read_root_dir \/ find_file \/ next_cluster \/ read_cluster \/ check \/ fail

-----------------------------------------------------------------------------
(* Properties. *)

Loaded == 1 .. file - 1

(* What was stored: volume.stored[k] is [chain, size, good, cyclic], a     *)
(* file's clusters, its size, whether its entry and its chain are whole,   *)
(* and whether its chain leads back into itself.                           *)
Fits(k) ==
  k = Len(Names) \/ size_in_sectors(volume.stored[k].size) <= Dst[k + 1] - Dst[k]

(* A loaded file is in memory, sector by sector in the order of its        *)
(* chain, and stays there while the next ones are loaded, although a file  *)
(* is written in whole clusters: as long as it is not larger than its      *)
(* place.  Clusters fit the buffer here; a second read of a cluster uses   *)
(* an offset that is wrong.                                                *)
FilesIntact ==
  volume.sectors_per_cluster <= BufferSectors =>
    \A k \in Loaded : Fits(k) =>
      \A m \in 0 .. size_in_sectors(volume.stored[k].size) - 1 :
        LET chain == volume.stored[k].chain
            spc == volume.sectors_per_cluster
        IN  memory[Dst[k] + m] = DataSector(chain[(m \div spc) + 1], m % spc)

(* try_load_file answers Ok only for a file that is there and whole.  It   *)
(* answers with an error, or panics, only if the partition is not what     *)
(* stage 2 expects, has a 32-bit count of sectors, which for the code      *)
(* means FAT32, or the file is not there, empty or broken.                 *)
LoadsGoodFiles ==
  /\ \A k \in Loaded : volume.stored[k].good
  /\ pc \in {"failed", "panic"} =>
       \/ ~ volume.supported \/ volume.total_sectors_32 # 0
       \/ ~ volume.stored[file].good \/ volume.stored[file].size = 0
=============================================================================
