---------------------------- MODULE MCBootPath -----------------------------
(* Disks and displays for BootPath.  Partitions with sectors of eight      *)
(* bytes, laid out as a formatter does: boot sector, tables, root          *)
(* directory, clusters.  Files of one, two and two clusters anywhere in    *)
(* the partition.                                                          *)
EXTENDS BootPath, FiniteSets

Zeros(n) == [k \in 1 .. n |-> 0]

(* The bytes of a table, from the values of its entries 0, 1, 2, ... *)
Fat12Bytes(values) ==
  FlattenSeq([p \in 1 .. Len(values) \div 2 |->
                LET even == values[2 * p - 1]
                    odd == values[2 * p]
                IN  <<even % 256, (even \div 256) + 16 * (odd % 16), odd \div 16>>])
Fat16Bytes(values) ==
  FlattenSeq([k \in 1 .. Len(values) |-> <<values[k] % 256, values[k] \div 256>>])

InSectors(items, n, perSector, fill) ==
  [s \in 1 .. n |-> [k \in 1 .. perSector |->
     LET j == (s - 1) * perSector + k IN IF j <= Len(items) THEN items[j] ELSE fill]]

Slot(first, long, name, dir, cluster, bytes) ==
  [first |-> first, long |-> long, name |-> name, dir |-> dir, cluster |-> cluster, size |-> bytes]
EndSlot == Slot("end", FALSE, "", FALSE, 0, 0)
Unused == Slot("unused", FALSE, "x", FALSE, 0, 0)
Long(name) == Slot("used", TRUE, name, FALSE, 0, 0)
Short(name, dir, cluster, bytes) == Slot("used", FALSE, name, dir, cluster, bytes)

(* Clusters in the order of p: the first file has one, the others two. *)
ChainsOf(p) == <<<<p[1]>>, <<p[2], p[3]>>, <<p[4], p[5]>>>>

(* The value of a cluster's entry: its successor, or the end of its chain. *)
Value(chains, ends, c) ==
  LET f == {k \in 1 .. 3 : c \in ToSet(chains[k])}
  IN  IF f = {} THEN 0
      ELSE LET k == CHOOSE k \in f : TRUE
               j == CHOOSE j \in 1 .. Len(chains[k]) : chains[k][j] = c
           IN  IF j < Len(chains[k]) THEN chains[k][j + 1] ELSE ends[k]

(* g: geometry [fat16, spc, fats, clusters, odd]; slack: bytes the last    *)
(* cluster of a file has free (below zero: the chain is too short).        *)
Volume(g, p, ends, slack, dir(_, _), good) ==
  LET chains == ChainsOf(p)
      sizes == [k \in 1 .. 3 |-> Len(chains[k]) * g.spc * SectorSize - slack]
      values == [c \in 1 .. g.clusters + 2 |->
                   IF c <= 2 THEN (IF g.fat16 THEN 65535 ELSE 4095) ELSE Value(chains, ends, c - 1)]
      fatSize == IF g.fat16 THEN 3 ELSE 2
      table == InSectors(IF g.fat16 THEN Fat16Bytes(values) ELSE Fat12Bytes(values),
                         fatSize, SectorSize, 0)
      tables == IF g.fats = 1 THEN table ELSE table \o table
      root == InSectors(dir(chains, sizes), DirEntrySize,
                        SectorSize \div DirEntrySize, EndSlot)
      data == FlattenSeq([c \in 1 .. g.clusters |-> [k \in 1 .. g.spc |-> DataSector(c + 1, k - 1)]])
      partition == <<Zeros(SectorSize)>> \o tables \o root \o data
  IN  [partition_type |-> 12, bytes_per_sector |-> SectorSize,
       second_stage |-> 0, logical_block_address |-> 0, reserved_sector_count |-> 1, fat_count |-> g.fats,
       fat16_size |-> fatSize, at36 |-> 1000, root_entry_count |-> SectorSize, sectors_per_cluster |-> g.spc,
       total_sectors_16 |-> Len(partition), total_sectors_32 |-> 0, sectors |-> partition,
       stored |-> [k \in 1 .. 3 |-> [chain |-> chains[k], size |-> sizes[k], good |-> good[k],
                                    cyclic |-> ends[k] \in ToSet(chains[k])]],
       supported |-> TRUE]

Alias == <<"STAGE3", "STAGE4", "KERNEL">>
Entry(k, dir, cluster, bytes) == <<Long(Names[k]), Short(Alias[k], dir, cluster, bytes)>>
Files(ks, chains, sizes) ==
  FlattenSeq([j \in 1 .. Len(ks) |-> Entry(ks[j], FALSE, chains[ks[j]][1], sizes[ks[j]])])

Plain(chains, sizes) == <<Unused>> \o Files(<<3, 1, 2>>, chains, sizes)
Full(chains, sizes) ==
  Files(<<1, 2>>, chains, sizes) \o <<Unused, Short("NOTES", FALSE, 2, 1)>> \o Files(<<3>>, chains, sizes)
NoKernel(chains, sizes) == Files(<<1, 2>>, chains, sizes)
FullNoKernel(chains, sizes) ==
  <<Long("notes"), Long("my "), Short("MYNOTES", FALSE, 2, 1)>> \o Files(<<1, 2>>, chains, sizes)
    \o <<Unused>>
Orphan(chains, sizes) == Files(<<1, 2>>, chains, sizes) \o [k \in 1 .. 4 |-> Long("kernel")]
KernelDir(chains, sizes) == Files(<<1, 2>>, chains, sizes) \o Entry(3, TRUE, chains[3][1], 0)
KernelEmpty(chains, sizes) == Files(<<1, 2>>, chains, sizes) \o Entry(3, FALSE, 0, 0)

Geometry(fat16, spc, fats) ==
  [fat16 |-> fat16, spc |-> spc, fats |-> fats, clusters |-> IF fat16 THEN 9 ELSE 6]

Orders == {p \in [1 .. 5 -> 2 .. 7] : p[1] = 5 /\ p[2] < p[4] /\ Cardinality(ToSet(p)) = 5}
Scattered == <<5, 7, 2, 4, 3>>

EofOf(fat16) == IF fat16 THEN 65528 ELSE 4088
Ends(fat16) == [k \in 1 .. 3 |-> IF k = 2 THEN EofOf(fat16) ELSE EofOf(fat16) + 7]
All == [k \in 1 .. 3 |-> TRUE]
But(k) == [All EXCEPT ![k] = FALSE]

Good ==
  {Volume(Geometry(fat16, spc, fats), p, Ends(fat16), slack, Plain, All) :
     fat16 \in BOOLEAN, spc \in 1 .. 3, fats \in 1 .. 2, p \in Orders, slack \in {0, 5}}
  \cup {Volume(Geometry(fat16, 2, 1), p, Ends(fat16), 9, Full, All) :
     fat16 \in BOOLEAN, p \in Orders}

(* A chain that ends in a bad, free or reserved entry, or too early. *)
Broken ==
  {Volume(Geometry(fat16, 1, 1), Scattered, [Ends(fat16) EXCEPT ![k] = end], 0, Plain, But(k)) :
     fat16 \in {FALSE}, k \in 1 .. 3, end \in {4087, 0, 1}}
  \cup {Volume(Geometry(TRUE, 2, 1), Scattered, [Ends(TRUE) EXCEPT ![2] = 65527], 0, Plain, But(2))}
  \cup {Volume(Geometry(fat16, 2, 1), Scattered, Ends(fat16), -1, Plain, [k \in 1 .. 3 |-> FALSE]) :
           fat16 \in BOOLEAN}

(* A chain whose last cluster is followed by its first or by itself. *)
Cyclic ==
  {Volume(Geometry(fat16, 1, 1), Scattered,
          [Ends(fat16) EXCEPT ![k] = ChainsOf(Scattered)[k][j]], 0, Plain, But(k)) :
     fat16 \in BOOLEAN, k \in 2 .. 3, j \in 1 .. 2}

(* A good partition as formatters write it when its sectors do not fit     *)
(* into 16 bits.                                                           *)
ManySectors ==
  LET V(fat16) == Volume(Geometry(fat16, 1, 1), Scattered, Ends(fat16), 0, Plain, All)
  IN  {[V(fat16) EXCEPT !.total_sectors_32 = V(fat16).total_sectors_16, !.total_sectors_16 = 0] :
         fat16 \in BOOLEAN}

(* The kernel is not there, or it is nothing to load. *)
Incomplete ==
  LET g == Geometry(FALSE, 1, 2)
      V(dir(_, _), good) == Volume(g, Scattered, Ends(FALSE), 0, dir, good)
  IN  {V(NoKernel, But(3)), V(FullNoKernel, But(3)), V(Orphan, But(3)), V(KernelDir, But(3)),
       [V(KernelEmpty, All) EXCEPT !.stored[3].size = 0]}

(* Partitions stage 2 refuses. *)
Unsupported ==
  LET v == [Volume(Geometry(FALSE, 1, 1), Scattered, Ends(FALSE), 0, Plain, All)
              EXCEPT !.supported = FALSE]
  IN  {[v EXCEPT !.partition_type = 6], [v EXCEPT !.bytes_per_sector = 2 * SectorSize],
       [v EXCEPT !.total_sectors_32 = v.total_sectors_16], [v EXCEPT !.total_sectors_16 = 0],
       [v EXCEPT !.root_entry_count = SectorSize \div 2],
       [v EXCEPT !.total_sectors_16 = @ + 20],
       [v EXCEPT !.total_sectors_16 = 0, !.total_sectors_32 = v.total_sectors_16 + 20,
                 !.fat16_size = 0, !.at36 = v.fat16_size]}

-----------------------------------------------------------------------------
(* Every partition behind a stage 2 of two sectors, and one partition      *)
(* behind one that is empty, ends with a sector or before it, needs one,   *)
(* two or three calls, or is too large for a 16-bit segment.               *)
Partitions == Good \cup Broken \cup Cyclic \cup ManySectors \cup Incomplete \cup Unsupported
OnePartition == Volume(Geometry(FALSE, 1, 1), Scattered, Ends(FALSE), 0, Plain, All)
OneDisk == create_mbr_disk(OnePartition, 16)
MCVolumes ==
  {create_mbr_disk(p, 13) : p \in Partitions}
    \cup {create_mbr_disk(OnePartition, len) : len \in {0, 1, 16, 17, 40, 48, 49}}

(* Modes for a wanted screen of 4 x 3: the right one, one of the same area *)
(* and one of a larger, other depths with rows that are padded or not, a   *)
(* pixel of half a byte, and three modes that cannot be used.              *)
Mode(width, height, depth, scanline) ==
  [answers |-> TRUE, linear |-> TRUE, memory_model |-> 6,
   width |-> width, height |-> height, depth |-> depth, scanline |-> scanline]
Right == Mode(4, 3, 24, 12)
Modes ==
  {Right, Mode(3, 4, 24, 9), Mode(5, 3, 24, 16), Mode(4, 3, 32, 16), Mode(4, 3, 16, 8),
   [Mode(4, 3, 4, 2) EXCEPT !.memory_model = 4],
   [Right EXCEPT !.answers = FALSE], [Right EXCEPT !.linear = FALSE],
   [Right EXCEPT !.memory_model = 3]}
MCModesOf(v) ==
  IF v = OneDisk THEN UNION {[1 .. n -> Modes] : n \in 0 .. 3} ELSE {<<Right>>}

MCWanted == [width |-> 4, height |-> 3, depth |-> 24]
MCFilePage == <<256, 288, 512>>
(* 0xffffffff80123450 *)
MCTssAddress == (31 .. 63) \cup {20, 17, 13, 12, 10, 6, 4}
MCNames == <<"stage3", "stage4", "kernel">>
MCDst == <<0, 1, 4>>
=============================================================================
