----------------------------- MODULE ElfLoader ------------------------------
(***************************************************************************)
(* KernelLoader: stage 4 maps the kernel's file, which stage 2 left in     *)
(* memory, where its program headers say, gives the zeroed part of a       *)
(* segment memory of its own, and writes the relocated pointers.           *)
(*                                                                         *)
(* Memory is a function from physical addresses to bytes.  A byte is known *)
(* by where it comes from: its offset in the file, a relocated pointer, or *)
(* nowhere.  Page tables are a module of their own; here they are a        *)
(* function from mapped pages to frames and flags.                         *)
(***************************************************************************)
EXTENDS Integers, Sequences, FiniteSets, TLC, Memory

CONSTANTS
  PageSize,    \* Size4KiB::SIZE
  PointerSize, \* bytes of a relocated pointer, 8 in the code
  virtual_base,\* where the kernel's address 0 goes
  KernelStart, \* BiosInfo.kernel.start
  FirstFree,   \* the first frame behind the file
  FreeFrames,  \* bound: frames the allocator has
  Kernels      \* the kernel files: [headers, relocations, size]

(* A program header's address and offset agree below the page size, as     *)
(* ELF demands; its file bytes are in the file.                            *)
ASSUME KernelsAssumption ==
  /\ PageSize \in Nat \ {0} /\ PointerSize \in 1 .. PageSize
  /\ virtual_base % PageSize = 0 /\ KernelStart % PageSize = 0
  /\ \A k \in Kernels :
       /\ KernelStart + k.size <= FirstFree * PageSize
       /\ \A i \in 1 .. Len(k.headers) :
            LET h == k.headers[i]
            IN  /\ h.virtual_addr % PageSize = h.offset % PageSize
                /\ h.offset + h.file_size <= k.size
                /\ h.file_size <= h.mem_size /\ h.mem_size > 0

VARIABLES
  kernel,      \* the file
  pc,          \* what the loader does next
  i,           \* to which header or relocation
  page_table,  \* mapped page |-> [frame, flags]
  memory,      \* physical address |-> byte
  next_frame   \* the frame allocator's next frame

vars == <<kernel, pc, i, page_table, memory, next_frame>>

FileByte(k) == <<"file", k>>
PointerByte(offset, k) == <<"pointer", offset, k>>
Zero == <<"zero">>
Junk == <<"junk">>

LastFrame == FirstFree + FreeFrames - 1
FrameBytes(f) == f * PageSize .. (f + 1) * PageSize - 1

Init ==
  /\ kernel \in Kernels
  /\ pc = "map" /\ i = 1
  /\ page_table = << >>
  /\ memory = [a \in KernelStart .. (LastFrame + 1) * PageSize - 1 |->
                 IF a - KernelStart < kernel.size THEN FileByte(a - KernelStart) ELSE Junk]
  /\ next_frame = FirstFree

panic == pc' = "panic" /\ UNCHANGED <<kernel, i, page_table, memory, next_frame>>

-----------------------------------------------------------------------------
(* allocate: one header after the other. *)

containing(a) == a \div PageSize

VirtualStart(h) == virtual_base + h.virtual_addr
PhysicalStart(h) == KernelStart + h.offset

Flags(h) == (IF h.execute THEN {} ELSE {"NO_EXECUTE"}) \cup (IF h.write THEN {"WRITABLE"} ELSE {})

next_header ==
  IF i < Len(kernel.headers) THEN pc' = "map" /\ i' = i + 1 ELSE pc' = "relocate" /\ i' = 1

(* Frames of the file go to pages in the same order. *)
map_section ==
  LET h == kernel.headers[i]
      start_frame == containing(PhysicalStart(h))
      end_frame == containing(PhysicalStart(h) + h.file_size - 1)
      start_page == containing(VirtualStart(h))
      section == [p \in start_page .. start_page + end_frame - start_frame |->
                    [frame |-> start_frame + p - start_page, flags |-> Flags(h)]]
  IN  /\ pc = "map"
      /\ IF DOMAIN section \cap DOMAIN page_table # {} THEN panic
         ELSE /\ page_table' = section @@ page_table
              /\ IF h.mem_size > h.file_size THEN pc' = "zero_tail" /\ UNCHANGED i
                                             ELSE next_header
              /\ UNCHANGED <<kernel, memory, next_frame>>

(* Mutant: the frame of the file is taken for a private copy. *)
make_mutable_shared(entry) ==
  [frame |-> entry.frame, flags |-> entry.flags \cup {"COPIED"}]

(* Mutant: the new mapping has the flag of a copy only. *)
make_mutable_flags(entry) ==
  IF "COPIED" \in entry.flags THEN entry ELSE [frame |-> next_frame, flags |-> {"COPIED"}]

(* The entry through which a page may be written without changing another. *)
make_mutable(entry) ==
  IF "COPIED" \in entry.flags THEN entry
  ELSE [frame |-> next_frame, flags |-> entry.flags \cup {"COPIED"}]

(* Mutant: the last byte of data is zeroed too. *)
tail_byte_early(b, data_bytes_before_zero, frame) ==
  IF b % PageSize >= data_bytes_before_zero - 1 THEN Zero
  ELSE memory[frame * PageSize + (b % PageSize)]

(* What the copy of a frame has after the bytes behind the data are zeroed. *)
tail_byte(b, data_bytes_before_zero, frame) ==
  IF b % PageSize >= data_bytes_before_zero THEN Zero
  ELSE memory[frame * PageSize + (b % PageSize)]

(* The segment's last page is data and then zeros. *)
zero_tail ==
  LET h == kernel.headers[i]
      data_bytes_before_zero == (VirtualStart(h) + h.file_size) % PageSize
      last_page == containing(VirtualStart(h) + h.file_size - 1)
      old == page_table[last_page]
      new == make_mutable(old)
      taken == IF new.frame = old.frame THEN 0 ELSE 1
      copied == [b \in FrameBytes(new.frame) |-> tail_byte(b, data_bytes_before_zero, old.frame)]
  IN  /\ pc = "zero_tail"
      /\ IF data_bytes_before_zero = 0
         THEN pc' = "map_bss" /\ UNCHANGED <<kernel, i, page_table, memory, next_frame>>
         ELSE IF last_page \notin DOMAIN page_table THEN panic
         ELSE IF next_frame + taken > LastFrame + 1 THEN panic
         ELSE /\ page_table' = [page_table EXCEPT ![last_page] = new]
              /\ memory' = copied @@ memory
              /\ next_frame' = next_frame + taken
              /\ pc' = "map_bss"
              /\ UNCHANGED <<kernel, i>>

(* Mutant: the page with the end of the data is mapped again. *)
BssPages_down(h) ==
  containing(VirtualStart(h) + h.file_size) .. containing(VirtualStart(h) + h.mem_size - 1)

(* The pages that hold zeros and nothing else. *)
BssPages(h) ==
  containing(align_up(VirtualStart(h) + h.file_size, PageSize))
    .. containing(VirtualStart(h) + h.mem_size - 1)

(* A frame for each of them. *)
BssFrame(h, p) == next_frame + p - containing(align_up(VirtualStart(h) + h.file_size, PageSize))

Left(n) == next_frame + n <= LastFrame + 1

map_bss ==
  LET h == kernel.headers[i]
      bss == [p \in BssPages(h) |-> [frame |-> BssFrame(h, p), flags |-> Flags(h)]]
      zeroed == UNION {FrameBytes(bss[p].frame) : p \in DOMAIN bss}
  IN  /\ pc = "map_bss"
      /\ IF ~ Left(Cardinality(DOMAIN bss)) \/ DOMAIN bss \cap DOMAIN page_table # {} THEN panic
         ELSE /\ page_table' = bss @@ page_table
              /\ memory' = [a \in DOMAIN memory |-> IF a \in zeroed THEN Zero ELSE memory[a]]
              /\ next_frame' = next_frame + Cardinality(DOMAIN bss)
              /\ next_header
              /\ UNCHANGED kernel

-----------------------------------------------------------------------------
(* relocate: one entry after the other.  An entry is the offset of its     *)
(* pointer if it is R_AMD64_RELATIVE; on any other the code panics.  The   *)
(* page behind the pointer's last byte is looked up even if the pointer    *)
(* ends right before it.                                                   *)
OtherType == -1

handle_relative_relocation ==
  LET entry == kernel.relocations[i]
      address == virtual_base + entry
      start_page == containing(address)
      end_page == containing(address + PointerSize)
      on_first == IF address + PointerSize > (start_page + 1) * PageSize
                    THEN (start_page + 1) * PageSize - address ELSE PointerSize
      target(k) == IF k < on_first
                     THEN page_table[start_page].frame * PageSize + (address % PageSize) + k
                     ELSE page_table[end_page].frame * PageSize + k - on_first
  IN  /\ pc = "relocate" /\ i <= Len(kernel.relocations)
      /\ IF entry # OtherType /\ {start_page, end_page} \subseteq DOMAIN page_table
         THEN /\ memory' = [a \in {target(k) : k \in 0 .. PointerSize - 1} |->
                              PointerByte(entry, CHOOSE k \in 0 .. PointerSize - 1 : target(k) = a)]
                           @@ memory
              /\ i' = i + 1
              /\ UNCHANGED <<kernel, pc, page_table, next_frame>>
         ELSE panic

finish ==
  /\ pc = "relocate" /\ i > Len(kernel.relocations)
  /\ pc' = "done"
  /\ UNCHANGED <<kernel, i, page_table, memory, next_frame>>

Next == map_section \/ zero_tail \/ map_bss \/ handle_relative_relocation \/ finish

Spec == Init /\ [][Next]_vars

-----------------------------------------------------------------------------
(* Properties. *)

(* The headers whose segment is complete, and the pointers that are        *)
(* written.                                                                *)
Complete == IF pc \in {"relocate", "done"} THEN 1 .. Len(kernel.headers) ELSE 1 .. i - 1
Written ==
  {kernel.relocations[k] : k \in IF pc = "relocate" THEN 1 .. i - 1
                                 ELSE IF pc = "done" THEN DOMAIN kernel.relocations ELSE {}}

SegmentBytes(h) == h.virtual_addr .. h.virtual_addr + h.mem_size - 1
PhysicalAddress(v) ==
  page_table[containing(virtual_base + v)].frame * PageSize + (v % PageSize)

(* The byte a linker wants to see at an address. *)
Wanted(h, v) ==
  IF \E r \in Written : v \in r .. r + PointerSize - 1
    THEN LET r == CHOOSE r \in Written : v \in r .. r + PointerSize - 1 IN PointerByte(r, v - r)
  ELSE IF v < h.virtual_addr + h.file_size THEN FileByte(h.offset + v - h.virtual_addr)
  ELSE Zero

(* Every address of a complete segment shows its byte of the file, its     *)
(* relocated pointer or zero, whatever was done for other segments: the    *)
(* zeros behind one segment's data never reach the data of the next one,   *)
(* which the file has in the same frame.                                   *)
ImageIntact ==
  pc # "panic" =>
    \A k \in Complete : \A v \in SegmentBytes(kernel.headers[k]) :
      /\ containing(virtual_base + v) \in DOMAIN page_table
      /\ memory[PhysicalAddress(v)] = Wanted(kernel.headers[k], v)

(* No two addresses of the kernel share a byte of memory, so that a write  *)
(* by the running kernel changes one address only.                         *)
BytesApart ==
  pc # "panic" =>
    \A k, l \in Complete :
      \A v \in SegmentBytes(kernel.headers[k]), w \in SegmentBytes(kernel.headers[l]) :
        PhysicalAddress(v) = PhysicalAddress(w) => v = w

(* Every page of a segment has the permissions of its header, copied       *)
(* pages included.                                                         *)
PermissionsKept ==
  pc # "panic" =>
    \A k \in Complete : \A v \in SegmentBytes(kernel.headers[k]) :
      page_table[containing(virtual_base + v)].flags \ {"COPIED"} = Flags(kernel.headers[k])

(* A file the loader can take: no page belongs to two segments, there is   *)
(* memory for the copies and the zeros, and behind every relocated pointer *)
(* there is another byte in a mapped page.                                 *)
SegmentPages(h) == {containing(virtual_base + v) : v \in SegmentBytes(h)}
Loadable ==
  /\ \A k, l \in 1 .. Len(kernel.headers) :
       k # l => SegmentPages(kernel.headers[k]) \cap SegmentPages(kernel.headers[l]) = {}
  /\ FreeFrames >= Cardinality(UNION {SegmentPages(kernel.headers[k]) : k \in 1 .. Len(kernel.headers)})
  /\ \A r \in DOMAIN kernel.relocations : \E k \in 1 .. Len(kernel.headers) :
       /\ kernel.relocations[r] \in SegmentBytes(kernel.headers[k])
       /\ kernel.relocations[r] + PointerSize \in SegmentBytes(kernel.headers[k])

(* The loader never panics on such a file. *)
LoadsGoodKernels == Loadable => pc # "panic"
=============================================================================
