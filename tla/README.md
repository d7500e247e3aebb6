# A TLA+ verification project for MiniatureOs

MiniatureOs is a small x86_64 operating system in Rust: a BIOS boot loader of
five stages, a kernel, and the support crate `x86_64` that both use.  This
directory models the parts whose state can go wrong in ways a test hardly
reaches, model-checks them with TLC, and proves with TLAPS that the heap, the interrupts, the
page tables and the intrusive list are correct.
Paths below are relative to `src/`.

## The system

| part | code | state | operations |
| --- | --- | --- | --- |
| MBR | `bootloader/x86_64/bios/mbr` | position on the disk and in memory | read stage 2 piece by piece, jump |
| stage 2 | `.../stage2` | disk position, FAT iterators, memory map, best display mode, CPU mode | find and load three files, read the E820 map, VESA mode, unreal and protected mode |
| stage 3 | `.../stage3` | static page tables, CPU mode | identity-map 10 GiB, long mode |
| descriptors | `x86_64/src/{gdt,tss,register}.rs` | descriptor tables, segment and control registers | build and load them |
| stage 4 | `.../stage4` | frame allocator, the kernel's page tables, boot information | load and relocate the kernel, map stack, GDT, boot information and physical memory, enter the kernel |
| frame allocator | `x86_64/src/paging/bump_frame_allocator.rs` | memory map, counter | `new`, `new_starting_at`, `allocate_frame` |
| page tables | `x86_64/src/paging` | tables in physical frames | `map_to`, `unmap`, `translate` |
| kernel start | `kernel/src/lib.rs`, `main.rs` | - | GDT, IDT, PIC, heap, self tests, `hlt` loop |
| interrupts | `kernel/src/interrupts`, `x86_64/src/{idt,interrupts,mutex,print,uart}.rs` | IF, spin locks, PIC, saved registers | handlers, `lock`, `println`, EOI |
| heap | `kernel/src/allocator/buddy_allocator.rs` | a free list per size class | `init`, `alloc`, `dealloc` |
| intrusive list | `util/intrusive_linked_list` | head, tail, length, pointers in nodes | push and pop at both ends |
| host tools | `bootloader/src`, `build.rs`, `tests` | files | build the disk image |

Each stage runs once and hands over data in memory: stage 2 passes
`BiosInfo` (where the files and the memory map are) to stages 3 and 4, stage 4
passes `BootInfo` (what memory is free, where physical memory is mapped) to the
kernel, and the kernel's frame allocator starts from that.  Everything is
sequential until `interrupts::init` executes `sti`; from then on an interrupt
of a device can come between any two instructions.

What is hard here, and what the properties are about:

- interrupts at any point of the kernel against spin locks, message output, the
  PIC's protocol and the registers of the interrupted code;
- two bump allocators, one after the other, over the same memory with only a
  snapshot of a map between them;
- long sequences of `alloc`/`dealloc`, `map_to`/`unmap`, push/pop;
- boundaries: a page's end, a region's end, the last size class, a FAT12 entry
  in two sectors, a 16-bit offset;
- the order in which the CPU is led through five modes and four descriptor
  tables, and through a change of page tables under the running code;
- data structures whose pointers lie in the memory they manage;
- steps that fail half way: no frame for the next table, a chain that breaks.

`PROJECT.json` lists each of them with its source line (`hazards`).

## Modules

| module | models |
| --- | --- |
| `HeapContract` | what `GlobalAlloc` promises (abstract) |
| `BuddyAllocator` | the heap; implements `HeapContract` |
| `BuddyPointers` | its free lists as heads and headers in the free chunks, taken together with each step of `BuddyAllocator` |
| `BuddyAllocatorProofs`, `BuddyFragmentationProofs` | theorems about `BuddyAllocator` |
| `BuddyPointersProofs` | theorems about the headers in the free chunks: `HeadersFit` and `BuddyPointers` |
| `KernelInterrupts` | main, handlers, locks, IDT, scratch registers, PIC on one CPU |
| `KernelInterruptsProofs` | its theorems |
| `Memory` | arithmetic of addresses, frames, pages, table indices and regions; used by the next modules and by `ElfLoader` |
| `FrameHandoff` | stage 2's memory map, stage 4's allocator and boot information, the kernel's allocator: the components composed |
| `FrameHandoffProofs` | its theorems |
| `AddressSpace` | what a page table promises (abstract) |
| `PageTables` | `MappedPageTable` and its walker; implements `AddressSpace` |
| `Stage4` | the callers of `PageTables` in stage 4 and the kernel, CR0, EFER, CR3 and the TLB: the kernel's address space from the first mapping to the heap |
| `PageTablesProofs`, `Stage4Proofs` | lemmas about `PageTables`, and the theorems about `Stage4` that rest on them |
| `ElfLoader` | `KernelLoader` of stage 4, on memory byte by byte |
| `FatLoader` | the FAT file system, disk access and the loading loop of stage 2 |
| `MbrStage` | the disk image, and the MBR's loop that loads stage 2 |
| `Vesa` | the choice of the display mode and the framebuffer information |
| `Cpu` | descriptors, tables, segment and control registers, what instructions do with them |
| `BootPath` | `MbrStage`, `FatLoader`, `Vesa` and `Cpu` composed: from the first sector to the kernel's `sti` |
| `Deque` | a double-ended queue (abstract) |
| `IntrusiveList` | the intrusive list; implements `Deque` up to the deviation below |
| `IntrusiveListProofs` | its theorems |
| `MC*` | instances for TLC |

Operators keep the names of the functions they translate; `map` in
`PROJECT.json` has the lines.  A definition commented "Mutant" is used by no
specification: it is a plausible bug in the definition after it, which the
property named with it in `PROJECT.json` must detect.

### BuddyAllocator

`buddies[k]` is the free list of the chunks of `2^k` bytes, head first;
`allocated` is the set of blocks callers hold.  The three loops of the code run
one iteration per step: `add_region`/`init_done`, `alloc`/`split`/`alloc_return`
(or `alloc_none`, `alloc_too_large`), `dealloc`/`merge`/`merge_done`/`merge_past_end`;
`pc`, `class`, `level` and `region` are their local variables.  Only one call runs at a
time, because the allocator is behind a lock and no handler allocates.
`panic` stutters: the panic handler loops.

### BuddyPointers

`mem` has a head pointer per class and a header per address.  `push_node`,
`pop_front`, `remove` and `new_at_address` do to them what the code's `LinkedList` and
`Chunk` do; nothing in this part reads the sequences of `BuddyAllocator`.  A caller owns
the bytes it asked for and may write at once, so a header there turns into `Garbage`.
`ListsRepresent` says that a walk from a head meets exactly the sequence: what is proved of
the sequences then holds of the pointers.

### KernelInterrupts

A stack of contexts on one CPU, `main` at the bottom.  A context is the sequence
of operations it still has to do; one step executes one operation or delivers
an interrupt.  The programs (`start`, `init`, `print`, the handlers) list, in the code's
order, everything that touches shared state.  A message is its first and its
last byte.  `enter` is an interrupt gate followed by the scratch-register
wrapper, `iretq` its end.  Both PICs are there, with requests, lines in service
and priorities, the slave on input 2 of the master; the mask is what the BIOS left, here
with all lines open.  `eoi` tells the slave too: the handlers pass a vector, 32 or more, where
`notify_end_of_interrupt` compares with the line 8.  `EoiMatchesHandler` says that this ends
nothing: no line of the slave is in service while the handlers of lines 0 and 1 run.
Line 4 is the UART, whose receive interrupt `SerialPort::init` enables: it has
no gate, so its handler is that of the missing segment; neither have the lines of the slave.

### FrameHandoff

A frame is its address.  `get` is `MemoryMap::get` of stage 2, `start` the beginning
of stage 4, `allocate_early` any frame taken before the boot information,
`allocate_boot_info` builds the kernel's map, `allocate_late` the page tables after it,
`context_switch` enters the kernel and `init_heap` takes frames there.  Running out
of frames, an index past an array, a failed assertion and an underflow
(checked in these builds) are `panic`.  `get` never repeats an entry because it is longer than
32 bytes (`memory_map.rs:50`): it asks the firmware for 24.

### PageTables

Physical memory maps frames to tables.  A page is its sequence of indices, four
for 4 KiB and three for 2 MiB.  Each call of `Mapper` is one step, with all it
changes: `map_to` that runs out of frames leaves the tables it has made.  A new
table's frame may hold anything before.  `unmap` of a page without tables
unwraps `None` (`unmap_panic`).

### Stage4

`Calls` is the sequence of all calls of `map_to` and `unmap` that `start` of stage 4 and
`init_heap` make, each function with its own part (`load_kernel`, `allocate_and_map_stack`,
...), computed from the addresses as the code computes them.  `expect_map_to`,
`expect_unmap` and `expect_frame` make one call, with the frame it allocates first, and panic
where the code's `expect` does.  `context_switch` is the write to CR3.  After the boot the
kernel calls `map_to` and `unmap` at will (`later_call`) while the CPU fills its TLB
(`translate_access`).  `Valid`, `MayWrite` and `MayExecute` are what the CPU grants, with the two
bits that stage 4 sets first.  One allocator serves both; `FrameHandoff` is about the two
there really are.

### ElfLoader

A byte is known by its origin (offset in the file, byte of a relocated pointer,
zero, junk), so that "the right byte at the right place" can be said.
`map_section`, `zero_tail`, `map_bss` follow `allocate` for one program header;
`handle_relative_relocation` is one relocation, a panic if its type is another one.  Page tables are a function
here; `PageTables` shows that they are one.

### FatLoader

The disk is a sequence of sectors; the FAT's are bytes, so that the packing of
FAT12 entries and reads across two sectors are done as in the code.  `mount`
checks the partition, `read_root_dir` and `find_file` search the directory,
`next_cluster` is `FileIter`, `read_cluster` one buffer, `check` the size test, and
`fail` an error of the firmware.  The parameter block has both counts of sectors and both
sizes of a table, and the code's choice between them.  The count of sectors read stops at
`MaxFileSectors`, above every file and all memory that is looked at, so that a chain
with a cycle is read without end; `BootEnds` excepts such disks.

### MbrStage, Vesa, Cpu, BootPath

`create_mbr_disk` puts the MBR, stage 2 and the partition into one disk, which
`first_stage_round` and `FatLoader` then read.  A packet's address is a segment and an
offset, and the firmware's offset wraps.  `get_best_mode` is one round of the search.

A descriptor in `Cpu` is the set of its bits, built by the code's `set_bits`.  A CPU is a record
of CR0, CR3, CR4, EFER, IF, the table, the cached segments, the task register and the fault
it raised.  `BootPath` runs the instructions of `enter_unreal_mode`,
`enter_protected_mode_and_jump_to_stage3`, `enable_paging`, `jump_to_stage4`, of stage 4 and of
the kernel's `interrupts::init` one per step; each carries the width it was compiled for.  Calls of
the firmware and accesses to memory, those of the loader included, go through the same CPU:
the firmware needs real mode, an access must lie in the segment and, with paging, in the
mapping that `create_mappings` made.  The behaviour of instructions is the CPU manual's, marked
external in `map`.

### IntrusiveList

The pointers of all nodes, also of nodes outside the list, which keep theirs.
A pop of a list with one end only unwraps `None` and panics.  The refinement mapping reads
the list backwards from the tail, and `call` and `popped` are what the caller sees: `Deque` ties
each call to its end.  `pop_front` clears the `next` of its new head; `cut` has the nodes it did
that to, and `lost` becomes true when a later `pop_front` takes such a node off a longer
list.  From then on the list is no queue (run `list_pop_front`); up to and with that call
`DequeUnlessLost` says that it is one.

## Runs

| run | result | shows |
| --- | --- | --- |
| `buddy_kernel_heap` | pass | a heap of three chunks: no overlap, nothing lost, everything merged, failure only when every aligned range is in use, pointers that are the lists whatever callers write into their blocks, the contract |
| `buddy_large_heap` | pass | two buddies of the largest class, which `dealloc` loses: the contract holds all the same |
| `kernel_interrupts` | pass | no interrupt before GDT, IDT and PIC are ready; one EOI per interrupt and for the right line of both PICs; whole messages; handlers that find the serial port free return; the kernel's start reaches `hlt_loop` or stops in one of two known ways |
| `serial_deadlock` | violation | an interrupt inside `println` waits for ever for the lock of the code it interrupted |
| `scratch_registers` | violation | the scratch registers come back in the wrong order |
| `frame_handoff` | pass | within the kernel's region stage 4 takes unused frames only and describes them correctly; nothing behind is forgotten but the firmware's last entry; nothing of the firmware's is given away; the kernel's frames are distinct and lie in the window onto physical memory |
| `frames_late_tables` | violation | page tables made after the boot information are free memory for the kernel |
| `page_tables` | pass | the tables stay a tree; the CPU and its TLB agree with `translate`; no expected call fails but for frames; the CPU survives the switch of CR3; the window shows each frame at its place; a call changes its own page only |
| `elf_loader` | pass | the image is right, no two addresses share memory, permissions are kept, no loadable file is refused |
| `fat_loader` | pass | the whole way from the first sector to the kernel: stage 2 and the files are in memory as on the disk, exactly whole files are accepted, the closest display mode is set, no instruction raises an exception and no interrupt finds no handler, every boot ends unless a chain is a cycle |
| `intrusive_list` | pass | a double-ended queue, each call at its own end, until `pop_front` takes off a node whose successor it cleared before |
| `list_pop_front` | violation | two calls of `pop_front` on three nodes lose the third |

### Bounds, and why they are enough

- *Heap*: four size classes, a header of 2 bytes, 14 bytes of heap at 16, which
  is 8 + 4 + 2: three chunks of different classes, like the kernel's 100 KiB
  (64 + 32 + 4 KiB), and below `ClassSize[MAX_ORDER]`.  The layouts include a
  size below the header, one that is rounded up, an alignment above the size,
  and one that no class can serve.  The theorems remove the bounds.  The
  large heap is 12 bytes with three classes: three chunks of the largest.  It is
  checked without pointers; its losing merge is out of reach in the 14 bytes.
- *Interrupts*: four lines (timer, keyboard, UART, and the clock on the slave), each raised up to twice.  Handlers run with
  interrupts off, so the stack has at most two contexts, and two requests of a
  line are enough for one that comes while the other is in service.
- *Frames*: frames of 2 bytes, so that a region can end inside one; eight maps
  in the shape of QEMU's (low memory ending inside a frame, holes, one or two
  banks, adjoining banks, a full array, one entry too many); the kernel ends at
  four places.  Up to 5 early, 4 late and 5 kernel frames use up the small
  regions.  The two page tables `context_switch` waits for are the least that
  mapping all physical memory takes.
- *Page tables*: four entries per table, pages of 2 bytes, 38 frames, of which
  the kernel's file may have used any number: the boot runs dry at each of its
  calls.  The level-4 slots are used as in the code (identity, heap, physical
  memory, stack and kernel), and the stack's top is, as there, a multiple of
  what a level-3 entry covers.  `context_switch` lies in one frame or across two.
  Later calls have three pages, one of them large, that share tables with the
  heap or with nothing.
- *ELF*: pages of 4 bytes, pointers of 2, two segments; data and zeros of every
  alignment that matters, up to two pointers or one and an entry of another type, four free frames (too few for some).
- *FAT*: sectors of 8 bytes, buffers of 2 sectors, clusters of 1 to 3 sectors,
  FAT12 and FAT16, one or two tables, the clusters of the files in many orders; 16-bit and 32-bit
  counts of sectors, chains that lead back to their first or last cluster.
- *Boot path*: stages 2 of 0 to 7 sectors, read two at a time, with paragraphs of
  2 bytes and 32 offsets, so that offsets would wrap and the largest stage does
  not fit a segment; all lists of up to three out of nine display modes on one disk.
  The CPU has the real sizes: descriptors of 64 bits, segments in pages of 4 KiB,
  512 entries per table, the files at their addresses, the last page of the 10 GiB.
- *List*: four nodes, any calls: three are enough for `pop_front` to lose one, and a
  fourth comes back with the pointers it left with.

### Fairness

`KernelInterrupts` has `WF_vars(Instruction)`: the CPU goes on executing.  Nothing
is assumed about devices.  `BootPath` has `WF_bootVars(BootNext)`: one program runs, and the
firmware answers.  The other specifications state safety only.  `CHECK_DEADLOCK FALSE` is
used where the modelled code ends: a loader that is done or has panicked, the
bounds of `FrameHandoff`, a page-table or list call that panicked, and a boot that has ended.

## Proofs

The theorems hold for every value of the constants that meets the modules' assumptions; TLC evaluates
the assumptions on every run.  Where a theorem has a hypothesis of its own it is in the table.

| theorem | statement |
| --- | --- |
| `TypeCorrect` | `Spec => []TypeOK` of `BuddyAllocator` |
| `FreeListsDisjoint` | `Spec => []FreeChunksApart` |
| `NoOverlap` | `Spec => []BlocksApart` |
| `Refinement` | `Spec => ImplementsContract` |
| `NoByteLost` | if `HeapSize < ClassSize[MAX_ORDER]`, `Spec => []NothingLost` |
| `HeadersHaveRoom` | if `HeapStart > 0` and some class is `Grained`, `Spec => []HeadersFit` |
| `AllMerged` | if `HeapStart > 0`, `Spec => []Coalesced` |
| `NoFragmentation` | if `HeapStart > 0` and `HeapSize < ClassSize[MAX_ORDER]`, `Spec => []FailsOnlyWhenFull` |
| `PointersAreLists` | if some class is `Grained`, `PointerSpec => []ListsRepresent` |
| `HandlersDoNotNest` | `Spec => []TypeOK` of `KernelInterrupts` |
| `InterruptsFindHandlers` | `Spec => []InterruptsReady` |
| `EoiEndsOwnLine` | `Spec => []EoiMatchesHandler` |
| `MessagesStayWhole` | `Spec => []MessagesWhole` |
| `HandoffInvariant` | `Spec => []HandoffInv` of `FrameHandoff`, the inductive invariant |
| `HandoffTypes` | `Spec => []TypeOK` |
| `LoaderFramesAreUnused` | `Spec => []LoaderFramesUnusedInRegion` |
| `FreeMeansUnused` | `Spec => []FreeIsUnusedInRegion` |
| `AllMemoryOffered` | `Spec => []NothingForgotten` |
| `WindowCoversAll` | `Spec => []WindowCoversMemory` |
| `KernelFramesAreDistinct` | `Spec => []KernelFramesDistinct` |
| `TablesAreTree` | `Stage4Spec => []TablesFormTree` |
| `TablesAreSpace` | `Stage4Spec => ImplementsAddressSpace` |
| `CpuSeesTables` | `Stage4Spec => []CpuAgrees` |
| `LinksAlwaysAgree` | `Spec => []LinksAgree` of `IntrusiveList` |
| `ListIsDeque` | `Spec => DequeUnlessLost` |

### Heap

The assumptions are those of `BuddyAllocator`: the class sizes double from 1, and
alignments divide the sizes at least as large, as powers of two do.

`BlocksApart` is not inductive.  Splitting keeps chunks apart only if the lists
hold disjoint chunks to begin with; merging needs that the chunk in hand is
apart from all lists and blocks, and that chunks are aligned to their size:
otherwise toggling one address bit would name a stranger.  `SafetyInv` adds these
facts: `ListsDistinct`, `ChunksPlaced` (in the heap and aligned), and what each
loop holds in its hands (`AddingRegion`, `Splitting`, `Merging`).  Every action has a
lemma of its own.  What a push, a pop and a removal do to the set of a list's
entries, and the arithmetic of halves and buddies, are lemmas about
operators.  `Refinement` follows step by step: only `alloc_return` and `dealloc`
change `allocated`.

`CoverInv` says where each byte is, chunks in hand included; with `SafetyInv` it is
inductive if no merge reaches past the last class, and a heap smaller than
that size has no room for two such buddies.  The kernel's heap (100 KiB
against 1 MiB) meets the bound.

`CoalescedInv` adds what the loops know of buddies: only the two halves of a split that goes on are
both free, `alloc` splits into lists that are empty, and `add_region` cuts the largest chunk that
fits, so that the upper buddy of a chunk never fits behind it.  `NoFragmentation` joins it with
`CoverInv`: in an aligned range without a byte in use every byte is in a free chunk; the smallest
chunk of the range has its buddy in the range too, so the buddy is free or overlaps a free chunk.
`HeadersHaveRoom` needs a class of at least a header's size that divides the heap's start and size
(`Grained`): the kernel's heap is whole pages of 4 KiB.  The address 0 is no heap (`HeapStart > 0`):
the code's pointers could not name it.

`PointersInv` ties the memory to the sequences of `BuddyAllocator`: the header at the i-th chunk of a
list points to the next chunk, the head to the first, the last to none.  Headers of blocks and of
chunks in hand are free to be anything.  That every header lies apart from blocks and from other
headers comes from `SafetyInv` and `HeadersHaveRoom`; the walk `Chain` is then shown to be the
sequence.  Theorems about `Spec` of `BuddyAllocator` hold for `PointerSpec` too: every step there is
one of its steps with a variable more.

### Interrupts

`KernelInv` describes what is left of the programs rather than a list of program counters: the
operations still to do follow the rules of a whole program (a lock is followed by what it
protects and by its unlock, an EOI stands inside the lock of the PICs), and
the first of them says which locks are held, whether a message is being sent and whether an EOI is
owed (`Structured`, `MainProgram`, `HandlerProgram`, `Holds`).  Every operation then has a lemma: it
removes the first operation and leaves the rest well-formed.  That a handler never runs above
another one follows from the interrupt gate, which clears IF, and from `sti` being in `start` only.
A line of the slave has no gate, so its handler never returns and never sends an EOI: while a
handler that does is running, no slave line is in service.  The theorems are for every set of lines of
both PICs and any number of requests.

### Frames

None of the properties of `FrameHandoff` is inductive: each speaks of the frames handed out so far, and
what the next one is depends on the allocator's place in its map.  `HandoffInv` has that place: the map of
stage 2 is the part of the firmware's that was read; each allocator has handed out the first `next` of its
`usable_frames` (`HandedOut`); stage 4's map begins in the usable region of the kernel's file, with the frame
behind it (`Started`); the kernel's regions are what `build_memory_map` made of the frame of the boot
information (`InfoBuilt`).  `HandoffInv` says little of single frames; the properties follow from it by two
descriptions of operators, which hold for maps of any length:

- `UsableFrames`: `usable_frames` lists the frames that begin in the usable regions, all of them and no
  others, in increasing order if the map is sorted, and those of the first region without a gap;
- `Builds` and the `Built...` lemmas: what of each region `build_memory_map` calls free is the whole region,
  or its part behind the last frame taken, or nothing (`FreePart`, `BootMap`).

So a frame of the kernel lies in the free part of one of the firmware's regions, and if the boot information
is in the same region, behind it.  `MapsAssumption` is about the firmware: its map is sorted and without overlaps,
begins with low memory at address 0, and has memory above it in whole frames.  The kernel's file is loaded
above low memory (`KERNEL_DST` is 2 MiB, `stage2/src/main.rs:36`).  `OneRegion` is a hypothesis inside the
two properties that need it (see the deviations below); the other theorems do without it, and do not say
that stage 4's frames and the kernel's are apart: the run `frames_late_tables` shows that they are not.

### Page tables

The inductive invariant gives every table a name, the indices that lead to it: `Tree(mem, n, tab)`
says that `tab` maps a prefix-closed set of names injectively to the frames handed out so far, that
every entry of a table leads to the table of the longer name, is unused, or is a large page, and that no
entry of a lowest table is a large page.  `allocate_table` adds one name; a write to a page's own
entry changes no name; so a walk that stops half way leaves a tree (`Grows`, `Writes`, `WalkedAll`).
What the tree says of a page is what `translate` finds and what the CPU's walk grants
(`TranslateIs`, `CpuSees`).  `BootInv` adds the order of the boot (the registers are set before the
first call, the TLB is empty until the boot is over) and `Fresh` that cached translations are current.

`PagesAssumption` and `CallsAssumption` say which pages the calls are about and that none of them
lies inside a large page that is mapped too.  The code does not check it: its constants keep the
large pages in a level-4 slot of their own.  TLC evaluates both on the run, for the addresses that
stage 4 and `init_heap` compute.

### Intrusive list

`ListInv` has the list as a sequence, with `next` and `prev` along it and nothing said of nodes outside
it, which come back with old pointers.  It holds until `lost`: a node in `cut` has no successor, but its
neighbour still knows its predecessor, so the list can be read backwards, pushes and `pop_back` are right on
it, and a node leaves `cut` when a push gives it a successor.  Only `pop_front` on a cut head of a longer
list fails, and that call still returns the right node and leaves the right list behind it.  The theorems have no
hypothesis: they are for every set of nodes.

### How induction is done

From the library's theorem that every set of numbers has a minimal element the proofs derive
induction over a set (`LeastNumber`, `SetInduction`).  A statement about a recursive function (`Chain` of `BuddyPointers`, `Follow` of
`IntrusiveList`, the folds over regions of `usable_frames` and `build_memory_map`) is proved by the set of the numbers for which it holds.

### Only model-checked

Liveness (`HandlersReturn`, `BootCompletes`, `BootEnds`), which the proof system cannot do; what the
sequence of calls as a whole leaves behind (`ExpectsHold`, `SwitchSurvives`, `WindowShowsMemory`),
which needs the addresses of all calls at once; and the invariants of `ElfLoader`, `FatLoader`, `Vesa`
and `BootPath`: they relate memory to the bytes of a file over whole loops of copying, and an inductive
invariant for those loops is still to be found.

## Where the code deviates

Four runs show a disagreement between the code and what it says of itself; the
`findings` of `PROJECT.json` quote both sides.  Besides them, the
models contain the following behaviour of the code, and the properties are stated so
that they hold beside it:

- `dealloc` that merges two chunks of the largest class pushes nothing: their
  memory is lost (`buddy_allocator.rs:350`; not in a heap of the kernel's size).
- `new_starting_at` moves a region's start but not its end: behind the region the
  allocator hands out frames that are not in the map
  (`bump_frame_allocator.rs:48`; hence `...InRegion`).
- If stage 4 continues in a second region, the first one, used up, is copied to
  the kernel's map as free (`stage4/src/main.rs:219`; hence `...InRegion`).
- The entry for low memory is overwritten by the next one (`stage4/src/main.rs:192`).
- `MemoryMap::get` drops the firmware's last entry (`stage2/src/memory_map.rs:54`).
- `unmap` returns frame 0, because it clears the entry first
  (`mapped_page_table.rs:176`).
- A relocated pointer that ends with the last mapped page is refused
  (`elf.rs:74`; hence the last condition of `Loadable`).
- The second buffer of a cluster larger than the buffer is read from the wrong place
  (`disk.rs:170`; hence the condition of `FilesIntact`).
- A cyclic cluster chain is read for ever, over all memory (`fat.rs:486`; hence the condition of
  `BootEnds`), and an empty file makes stage 2 panic (`fat.rs:175`).
- A 32-bit count of sectors means FAT32 for `BiosParameterBlock::parse`: a good FAT12 or FAT16
  partition that has one is not loaded, because bytes of its boot sector are taken for the size
  of a table and the count of clusters underflows, a panic (`fat.rs:96`, `fat.rs:129`; hence the exception in
  `LoadsGoodFiles`).
- `notify_end_of_interrupt` is called with a vector and compares it with a line, so that every EOI
  goes to the slave as well (`kernel/src/interrupts/mod.rs:243`, `pic8259.rs:150`); no harm as long as no handler of a slave line returns.
- `context_switch` is mapped by its first byte; if the linker puts it across two
  frames, the second is not mapped (`stage4/src/main.rs:131`; hence the first
  condition of `SwitchSurvives`).
- Stage 3 maps 10 GiB and stage 4 writes to the frames it takes at their physical
  addresses: memory above is out of its reach (`stage3/src/paging.rs:21`; `LastFrame`).
- A large page and a small one in the same slot would be taken for each other
  (`mapped_page_table.rs:66`; `PagesAssumption` and `CallsAssumption` keep them apart, as the code's constants do).
- The stride of the framebuffer counts pixels: a row padded by less than one cannot be
  expressed, a mode of 15 bits has pixels of one byte, and one of less than
  8 bits makes stage 2 panic (`stage2/src/vesa.rs:273`, `:279`).
- `VbeModeInfo::get` splits a flat address into its upper and lower 16 bits as if it
  were segment and offset, right for a stack below 64 KiB (`stage2/src/vesa.rs:248`).
- `Cr3::write_raw` writes CR0 and `SS::read` reads `cs` (`x86_64/src/register.rs:296`,
  `:374`); neither has a caller.

## Not modelled

Exception handlers of stage 4 (they print and loop; `BootPath` shows that no exception is
raised), ports and single instructions, text output, build scripts and tests: pure input and
output, or code without state.  Of the disk image builder the layout is modelled, the
partition's contents are made by the crate `fatfs`.  The crate `elfloader`, which parses the
kernel's file, the firmware and the CPU are outside; the models have what the code
sees of them.  fs and gs are never used and left out, as are the A20 gate and the pixel
format.  `components` in `PROJECT.json` gives the reason for each part.

Composition stops where TLC does: `Stage4` takes its frames from one sequence and not from
`FrameHandoff`'s two allocators, and `ElfLoader` has its page table as a function, which
`ImplementsAddressSpace` justifies.

## Plan

More proofs, in this order: `WindowShowsMemory` and `ExpectsHold` from `CpuSeesTables` and the
history of calls; `BytesApart` and `PermissionsKept` of `ElfLoader`; `ClosestMode`.
