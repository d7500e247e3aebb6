---------------------------- MODULE FrameHandoff ----------------------------
(***************************************************************************)
(* Physical memory on its way from the firmware to the kernel: stage 2     *)
(* reads the firmware's map, stage 4 takes frames from it with a bump      *)
(* allocator, describes what is left in the boot information, takes more   *)
(* frames for page tables, and enters the kernel, whose own bump allocator *)
(* hands out what the boot information calls free.                         *)
(*                                                                         *)
(* A frame is named by its address.  A region is [start, size, typ].       *)
(***************************************************************************)
EXTENDS Naturals, Sequences, Functions, FiniteSetsExt, Memory

CONSTANTS
  FrameSize,      \* Size4KiB::SIZE
  LargeSize,      \* Size2MiB::SIZE
  MaxRegions,     \* length of the arrays that hold a memory map
  MemoryMaps,     \* the firmware's possible maps
  LastAddresses,  \* possible ends of the kernel's file in memory
  MaxEarly,       \* bound: frames taken before the boot information
  MaxLate,        \* bound: frames taken after it
  MaxKernel       \* bound: frames the kernel takes

E820Types == {"Normal", "Reserved", "AcpiReclaimable"}

(* The firmware's map is sorted and without overlaps and begins with low   *)
(* memory; memory above that comes in whole frames.  The kernel's file is  *)
(* loaded above low memory (KERNEL_DST).                                   *)
ASSUME MapsAssumption ==
  /\ FrameSize \in Nat \ {0}
  /\ LargeSize \in Nat \ {0} /\ LargeSize % FrameSize = 0
  /\ MaxRegions \in Nat \ {0}
  /\ LastAddresses \subseteq Nat
  /\ \A m \in MemoryMaps :
       /\ m \in Seq([start : Nat, size : Nat, typ : E820Types])
       /\ m # << >> /\ m[1].start = 0 /\ m[1].size > 0
       /\ \A address \in LastAddresses : End(m[1]) <= address
       /\ \A i \in 2 .. Len(m) :
            /\ End(m[i-1]) <= m[i].start
            /\ m[i].typ = "Normal" => m[i].start % FrameSize = 0 /\ m[i].size % FrameSize = 0

VARIABLES
  pc,         \* how far the boot has come
  firmware,   \* the map the firmware reports, entry by entry
  e820,       \* the map stage 2 passes on
  last,       \* BiosInfo.last_physical_address
  loader,     \* stage 4's allocator: [memory_map, next]
  taken,      \* the frames it handed out, in order
  regions,    \* BootInfo.memory_regions
  boot_info,  \* how many frames were taken when regions was built
  kernel,     \* the kernel's allocator: [memory_map, next]
  given       \* the frames it handed out, in order

vars == <<pc, firmware, e820, last, loader, taken, regions, boot_info, kernel, given>>

-----------------------------------------------------------------------------
(* Regions and the bump allocator. *)

(* From<E820MemoryRegion> for PhysicalMemoryRegion. *)
into(r) == [r EXCEPT !.typ = IF @ = "Normal" THEN "Free" ELSE "Reserved"]

next_free_frame == plus(containing_address(last, FrameSize), 1, FrameSize)

(* The iterator's position in map: the first region that contains frame. *)
StartIndex(frame, map) ==
  LET I == {i \in 1 .. Len(map) : contains(map[i], frame)}
  IN  IF I = {} THEN 0 ELSE Min(I)

(* The region's start moves, its size stays. *)
new_starting_at(frame, map) ==
  LET i == StartIndex(frame, map)
  IN  [memory_map |-> IF i = 0 THEN << >>
                      ELSE [SubSeq(map, i, Len(map)) EXCEPT ![1].start = frame],
       next |-> 0]

new(map) == [memory_map |-> map, next |-> 0]

(* The frames of one region: every FrameSize bytes from its start. *)
RegionFrames(r) ==
  [k \in 1 .. (r.size + FrameSize - 1) \div FrameSize |->
     containing_address(r.start + (k - 1) * FrameSize, FrameSize)]

(* Mutant: the regions are not filtered. *)
usable_frames_all(map) ==
  LET frames[i \in 0 .. Len(map)] ==
        IF i = 0 THEN << >> ELSE frames[i - 1] \o RegionFrames(map[i])
  IN  frames[Len(map)]

usable_frames(map) ==
  LET frames[i \in 0 .. Len(map)] ==
        IF i = 0 THEN << >>
        ELSE frames[i - 1] \o (IF is_usable(map[i]) THEN RegionFrames(map[i]) ELSE << >>)
  IN  frames[Len(map)]

(* Mutant: the start of the highest region is taken. *)
max_physical_address_start(a) == Max({a.memory_map[i].start : i \in 1 .. Len(a.memory_map)})

max_physical_address(a) == Max({End(a.memory_map[i]) : i \in 1 .. Len(a.memory_map)})

frame_left(a) == a.next < Len(usable_frames(a.memory_map))
frame_of(a) == usable_frames(a.memory_map)[a.next + 1]

(* Mutant: next stays where it is. *)
advance_none(a) == a

(* allocate_frame advances whether or not a frame was left. *)
advance(a) == [a EXCEPT !.next = @ + 1]

-----------------------------------------------------------------------------
(* build_memory_map.  The array is filled up to idx; a region that is      *)
(* written without advancing idx is overwritten by the one after it.       *)

write(acc, r) == [acc EXCEPT !.array = Append(SubSeq(@, 1, acc.idx), r)]
push(acc, r) == [write(acc, r) EXCEPT !.idx = @ + 1]

Piece(from, to, typ) == [start |-> from, size |-> to - from, typ |-> typ]

(* Mutant: the frame of the boot information stays free. *)
split_region_start(acc, r, frame) ==
  push(push(acc, Piece(r.start, frame, "Reserved")), Piece(frame, End(r), "Free"))

(* The region that holds the last frame taken: its used part, and the rest. *)
split_region(acc, r, frame) ==
  LET used == push(acc, Piece(r.start, frame + FrameSize, "Reserved"))
  IN  IF frame + FrameSize = End(r) THEN used
      ELSE push(used, Piece(frame + FrameSize, End(r), "Free"))

(* Mutant: usable regions that were not touched are left out. *)
add_region_touched(acc, r, frame) ==
  CASE ~ is_usable(r) -> push(acc, into(r))
    [] is_usable(r) /\ r.start = 0 -> write(acc, [into(r) EXCEPT !.typ = "Reserved"])
    [] is_usable(r) /\ r.start # 0 /\ contains(r, frame) -> split_region(acc, r, frame)
    [] OTHER -> acc

add_region(acc, r, frame) ==
  CASE ~ is_usable(r) -> push(acc, into(r))
    [] is_usable(r) /\ r.start = 0 -> write(acc, [into(r) EXCEPT !.typ = "Reserved"])
    [] is_usable(r) /\ r.start # 0 /\ contains(r, frame) -> split_region(acc, r, frame)
    [] OTHER -> push(acc, into(r))

build_memory_map(map, frame) ==
  LET build[i \in 0 .. Len(map)] ==
        IF i = 0 THEN [array |-> << >>, idx |-> 0]
        ELSE add_region(build[i - 1], map[i], frame)
  IN  build[Len(map)]

(* region.end() - last_frame.end() is below zero: overflow checks are on   *)
(* in stage 4, the subtraction panics.                                     *)
Underflows(map, frame) ==
  \E i \in 1 .. Len(map) :
    /\ is_usable(map[i]) /\ map[i].start # 0
    /\ contains(map[i], frame)
    /\ End(map[i]) < frame + FrameSize

(* Mutant: the assertion on the length is missing. *)
Fits_unchecked(map, frame) == ~ Underflows(map, frame)

(* assert!(idx < new_regions.len()). *)
Fits(map, frame) ==
  ~ Underflows(map, frame) /\ build_memory_map(map, frame).idx < MaxRegions

-----------------------------------------------------------------------------
Init ==
  /\ pc = "stage2"
  /\ firmware \in MemoryMaps
  /\ e820 = << >>
  /\ last \in LastAddresses
  /\ loader = new(<< >>)
  /\ taken = << >>
  /\ regions = << >>
  /\ boot_info = 0
  /\ kernel = new(<< >>)
  /\ given = << >>

panic == pc' = "panic" /\ UNCHANGED <<firmware, e820, last, loader, taken, regions, boot_info, kernel, given>>

(* One call of the firmware in the loop of MemoryMap::get.  The loop ends  *)
(* at the entry returned with a continuation of zero, the last one, before *)
(* it is counted.  One entry more than the array holds is an index out of  *)
(* range, and stage 2 expects that no call fails.  A call asks for the 24  *)
(* bytes of an entry: none is answered with more than 32, which the loop   *)
(* would read again.                                                       *)
get ==
  /\ pc = "stage2"
  /\ \/ panic
     \/ /\ Len(e820) < MaxRegions
        /\ IF Len(e820) + 1 = Len(firmware)
           THEN pc' = "stage4" /\ UNCHANGED e820
           ELSE e820' = Append(e820, firmware[Len(e820) + 1]) /\ UNCHANGED pc
        /\ UNCHANGED <<firmware, last, loader, taken, regions, boot_info, kernel, given>>

(* The start of stage 4: the allocator begins behind the kernel's file. *)
start ==
  /\ pc = "stage4"
  /\ LET i == StartIndex(next_free_frame, e820)
     IN  \/ i # 0 /\ ~ is_usable(e820[i]) /\ panic
         \/ /\ i = 0 \/ is_usable(e820[i])
            /\ pc' = "loading"
            /\ loader' = new_starting_at(next_free_frame, e820)
            /\ UNCHANGED <<firmware, e820, last, taken, regions, boot_info, kernel, given>>

(* A frame for the page table, the kernel's segments, its stack, the GDT,  *)
(* or for a page table on the way.  Every caller panics without a frame.   *)
allocate_early ==
  /\ pc = "loading"
  /\ Len(taken) < MaxEarly
  /\ \/ ~ frame_left(loader) /\ panic
     \/ /\ frame_left(loader)
        /\ taken' = Append(taken, frame_of(loader))
        /\ loader' = advance(loader)
        /\ UNCHANGED <<pc, firmware, e820, last, regions, boot_info, kernel, given>>

(* allocate_and_map_boot_info up to its call of map_to. *)
allocate_boot_info ==
  /\ pc = "loading"
  /\ taken # << >>
  /\ \/ ~ frame_left(loader) /\ panic
     \/ frame_left(loader) /\ ~ Fits(e820, frame_of(loader)) /\ panic
     \/ /\ frame_left(loader)
        /\ Fits(e820, frame_of(loader))
        /\ pc' = "mapping"
        /\ taken' = Append(taken, frame_of(loader))
        /\ loader' = advance(loader)
        /\ regions' = build_memory_map(e820, frame_of(loader)).array
        /\ boot_info' = Len(taken')
        /\ UNCHANGED <<firmware, e820, last, kernel, given>>

(* A page table for the page of the boot information, or for the mapping   *)
(* of all physical memory.                                                 *)
allocate_late ==
  /\ pc = "mapping"
  /\ Len(taken) < boot_info + MaxLate
  /\ \/ ~ frame_left(loader) /\ panic
     \/ /\ frame_left(loader)
        /\ taken' = Append(taken, frame_of(loader))
        /\ loader' = advance(loader)
        /\ UNCHANGED <<pc, firmware, e820, last, regions, boot_info, kernel, given>>

(* The mapping at PHYSICAL_MEMORY_OFFSET is the first in its level-4 slot  *)
(* and needs a table of level 3 and one of level 2 at least.               *)
PhysicalMappingTables == 2

(* map_complete_physical_memory_space_into_kernel maps every large frame   *)
(* up to the one that holds max_physical_address.                          *)
WindowEnd == plus(containing_address(max_physical_address(loader), LargeSize), 1, LargeSize)

(* context_switch, and kernel_init up to its BumpFrameAllocator::new. *)
context_switch ==
  /\ pc = "mapping"
  /\ Len(taken) >= boot_info + PhysicalMappingTables
  /\ pc' = "kernel"
  /\ kernel' = new(regions)
  /\ UNCHANGED <<firmware, e820, last, loader, taken, regions, boot_info, given>>

(* init_heap: a frame for a page of the heap, for the guard page or for a  *)
(* page table.                                                             *)
init_heap ==
  /\ pc = "kernel"
  /\ Len(given) < MaxKernel
  /\ \/ ~ frame_left(kernel) /\ panic
     \/ /\ frame_left(kernel)
        /\ given' = Append(given, frame_of(kernel))
        /\ kernel' = advance(kernel)
        /\ UNCHANGED <<pc, firmware, e820, last, loader, taken, regions, boot_info>>

Next ==
  get \/ start \/ allocate_early \/ allocate_boot_info \/ allocate_late
    \/ context_switch \/ init_heap

Spec == Init /\ [][Next]_vars

-----------------------------------------------------------------------------
(* Properties. *)

Allocators == [memory_map : Seq([start : Nat, size : Nat, typ : E820Types \cup {"Free"}]),
               next : Nat]

(* The memory map of the boot information leaves a free entry in its array. *)
TypeOK ==
  /\ pc \in {"stage2", "stage4", "loading", "mapping", "kernel", "panic"}
  /\ firmware \in MemoryMaps /\ e820 = SubSeq(firmware, 1, Len(e820))
  /\ last \in Nat /\ boot_info \in 0 .. Len(taken)
  /\ loader \in Allocators /\ kernel \in Allocators
  /\ taken \in Seq(Nat) /\ given \in Seq(Nat)
  /\ regions \in Seq([start : Nat, size : Nat, typ : {"Free", "Reserved"}])
  /\ Len(regions) < MaxRegions

Overlap(a, n, r) == a < End(r) /\ r.start < a + n
InUsable(f) ==
  \E i \in 1 .. Len(e820) :
    is_usable(e820[i]) /\ e820[i].start <= f /\ f + FrameSize <= End(e820[i])

(* All frames come from the region that holds the kernel's file. *)
OneRegion ==
  \A f \in Range(taken) :
    f + FrameSize <= End(e820[StartIndex(next_free_frame, e820)])

(* The FrameAllocator contract in stage 4: its frames are distinct, usable *)
(* memory of the firmware's map, and behind everything that was loaded.    *)
LoaderFramesUnused ==
  /\ IsInjective(taken)
  /\ \A f \in Range(taken) : InUsable(f) /\ last < f

(* The same, as long as the kernel's region is not used up. *)
LoaderFramesUnusedInRegion == OneRegion => LoaderFramesUnused

(* The memory map the kernel gets calls no byte free that stage 4 had in   *)
(* use when it built the map: neither a frame it had taken nor the region  *)
(* up to the end of the kernel's file.                                     *)
FreeIsUnused ==
  \A i \in 1 .. Len(regions) :
    regions[i].typ = "Free" =>
      /\ \A k \in 1 .. boot_info : ~ Overlap(taken[k], FrameSize, regions[i])
      /\ LET home == e820[StartIndex(next_free_frame, e820)]
         IN  ~ Overlap(home.start, next_free_frame - home.start, regions[i])

(* The same, as long as the kernel's region is not used up. *)
FreeIsUnusedInRegion == OneRegion => FreeIsUnused

(* Every usable frame the firmware reports behind the boot information is  *)
(* offered to the kernel, the frames of the firmware's last entry excepted *)
(* (MemoryMap::get drops that entry).                                      *)
NothingForgotten ==
  boot_info # 0 =>
    \A f \in Range(usable_frames(SubSeq(firmware, 1, Len(firmware) - 1))) :
      f > taken[boot_info] => f \in Range(usable_frames(regions))

(* The kernel reaches every frame it may get, and every page table, at     *)
(* PHYSICAL_MEMORY_OFFSET: all of them lie below the end of that mapping.  *)
WindowCoversMemory ==
  pc = "kernel" =>
    \A f \in Range(taken) \cup Range(given) \cup Range(usable_frames(regions)) :
      f + FrameSize <= WindowEnd

(* The FrameAllocator contract in the kernel, taken alone: its frames are  *)
(* distinct and usable memory of the firmware's map.                       *)
KernelFramesDistinct == IsInjective(given) /\ \A f \in Range(given) : InUsable(f)

(* No frame that stage 4 took, for the kernel's page tables among others,  *)
(* is handed out again by the kernel's allocator.                          *)
KernelFramesUnused == Range(taken) \cap Range(given) = {}
=============================================================================
