------------------------------ MODULE MbrStage ------------------------------
(***************************************************************************)
(* The disk image (bootloader/src/lib.rs) and the code in its first sector *)
(* (bios/mbr), which loads stage 2 behind itself.  Low memory is looked at *)
(* in sectors: low[a] is the sector of the disk at address a.              *)
(***************************************************************************)
EXTENDS FatLoader

CONSTANTS
  ChunkSectors,      \* sectors per call of the firmware, 0x20 in the code
  SecondStageStart,  \* _second_stage_start, 0x7e00
  Paragraph,         \* bytes per step of a segment, 16
  OffsetSpace        \* values of a 16-bit offset and a 16-bit segment

VARIABLES
  sector_count,    \* first_stage: sectors still to load
  read_lba,        \* start_lba
  buffer_address,
  low

mbrVars == <<sector_count, read_lba, buffer_address, low>>

(* What a sector of stage 2 holds. *)
StageSector(k) == <<-1 - k>>

(* create_mbr_disk: the MBR, stage 2 in whole sectors, then the partition, *)
(* and an entry for each in the partition table.                           *)
create_mbr_disk(partition, second_stage_len) ==
  LET second_stage_sectors == size_in_sectors(second_stage_len)
      boot_partition_start == 1 + second_stage_sectors
      mbr == << <<0>> >>
  IN  [partition EXCEPT
         !.second_stage = [logical_block_address |-> 1, sector_count |-> second_stage_sectors],
         !.logical_block_address = boot_partition_start,
         !.sectors = mbr \o [k \in 1 .. second_stage_sectors |-> StageSector(k - 1)] \o @]

MbrInit ==
  /\ sector_count = volume.second_stage.sector_count
  /\ read_lba = volume.second_stage.logical_block_address
  /\ buffer_address = SecondStageStart
  /\ low = [a \in {} |-> << >>]

(* Mutant: the address as the offset of segment 0. *)
DiskAddressPacket_flat(address) == [segment |-> 0, offset |-> address % OffsetSpace]

DiskAddressPacket_new(address) ==
  [segment |-> address \div Paragraph, offset |-> address % Paragraph]

(* Where the firmware puts the k-th sector of a packet: the offset wraps. *)
Target(packet, k) ==
  packet.segment * Paragraph + ((packet.offset + k * SectorSize) % OffsetSpace)

(* One round of the loop; ok says whether it got through. *)
first_stage_round(ok) ==
  LET sectors == IF sector_count < ChunkSectors THEN sector_count ELSE ChunkSectors
      packet == DiskAddressPacket_new(buffer_address)
      targets == {Target(packet, k) : k \in 0 .. sectors - 1}
      SectorAt(a) == CHOOSE k \in 0 .. sectors - 1 : Target(packet, k) = a
  IN  /\ sector_count > 0
      /\ ok = (packet.segment < OffsetSpace)
      /\ IF ok
         THEN /\ low' = [a \in DOMAIN low \cup targets |->
                           IF a \in targets THEN volume.sectors[read_lba + SectorAt(a) + 1]
                           ELSE low[a]]
              /\ sector_count' = sector_count - sectors
              /\ read_lba' = read_lba + sectors
              /\ buffer_address' = buffer_address + sectors * SectorSize
         ELSE UNCHANGED mbrVars

-----------------------------------------------------------------------------
(* Properties. *)

(* Stage 2 is in memory at the address it was linked for, as it is in the  *)
(* image, without a gap or a repetition where two calls of the firmware    *)
(* meet.                                                                   *)
StageTwoLoaded ==
  \A k \in 0 .. volume.second_stage.sector_count - 1 :
    LET a == SecondStageStart + k * SectorSize
    IN  a \in DOMAIN low /\ low[a] = StageSector(k)
=============================================================================
