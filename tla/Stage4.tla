------------------------------- MODULE Stage4 -------------------------------
(***************************************************************************)
(* The kernel's address space, from the first mapping stage 4 makes to the *)
(* kernel's own: stage 4 maps the kernel's file, a stack, the code that    *)
(* switches the tables, the GDT, the boot information and all of physical  *)
(* memory, loads CR3 and jumps; the kernel maps its heap and goes on with  *)
(* the tables it finds.  PageTables has the calls of the trait Mapper;     *)
(* here are their callers, which expect every call to succeed, and the CPU *)
(* that uses the tables, with its TLB.                                     *)
(*                                                                         *)
(* One allocator serves stage 4 and the kernel.  In the kernel that is the *)
(* contract of the trait FrameAllocator, not a fact: FrameHandoff is about *)
(* where the code breaks it.                                               *)
(***************************************************************************)
EXTENDS PageTables, Memory, FiniteSets

CONSTANTS
  PageSize,           \* Size4KiB::SIZE
  KernelPages,        \* the loader's calls: [at, new, frame, flags, unmap]
  ContextSwitches,    \* where the linker may put context_switch: [first, last] byte
  StackTop,           \* KERNEL_STACK_TOP
  StackSize,          \* KERNEL_STACK_SIZE
  PhysicalOffset,     \* PHYSICAL_MEMORY_OFFSET
  MaxPhysicalAddress, \* BumpFrameAllocator::max_physical_address
  HeapStart,          \* HEAP_START
  HeapSize,           \* HEAP_SIZE
  FreePages           \* bound: pages of calls the kernel makes later

VARIABLES
  switch,  \* where context_switch is
  control, \* bits that are set in CR0, CR4 and EFER
  used,    \* the frames of the calls made so far
  tables,  \* whose tables CR3 points to
  tlb      \* translations the CPU has cached: <<page, entry>>

(* PHYSICAL_MEMORY_OFFSET is a multiple of the large size, as stage 4      *)
(* asserts.                                                                *)
ASSUME SpaceAssumption ==
  is_aligned(PhysicalOffset, PageSize * Cardinality(Index)) /\ FreePages \subseteq Pages

allVars == <<memory, next, halted, switch, control, used, tables, tlb>>

Entry == Cardinality(Index)
LargeSize == PageSize * Entry

(* The page of an address: its indices, for either size. *)
small(a) == <<l4_index(a, PageSize, Entry), l3_index(a, PageSize, Entry),
              l2_index(a, PageSize, Entry), l1_index(a, PageSize, Entry)>>
large(a) == SubSeq(small(a), 1, 3)

-----------------------------------------------------------------------------
(* The calls of map_to, in the order they are made.  A call has a page, a  *)
(* frame and flags; of New calls the frame is allocated first, the page    *)
(* Identity is the one with the frame's address.  One call is of unmap: it *)
(* comes after the allocation for the New call behind it.                  *)

Identity == << >>
Call(frame, page, flags) ==
  [new |-> FALSE, frame |-> frame, page |-> page, flags |-> flags, unmap |-> FALSE]
New(page, flags) == [Call(0, page, flags) EXCEPT !.new = TRUE]

Writable == {"PRESENT", "WRITABLE", "NO_EXECUTE"}

(* KernelLoader: the frames of the file, then private copies of the pages  *)
(* it writes to and memory behind the file's bytes.                        *)
load_kernel ==
  [k \in 1 .. Len(KernelPages) |->
     [new |-> KernelPages[k].new, frame |-> KernelPages[k].frame,
      page |-> small(KernelPages[k].at), flags |-> KernelPages[k].flags \cup {"PRESENT"},
      unmap |-> KernelPages[k].unmap]]

StackStart == containing_address(StackTop - StackSize, PageSize)

(* Mutant: the guard page is the last page of the stack. *)
StackGuard_inside == StackStart

StackGuard == containing_address(StackStart - PageSize, PageSize)

(* Mutant: the guard page is mapped like the stack. *)
allocate_and_map_stack_unguarded ==
  LET pages == range_inclusive(StackGuard, containing_address(StackTop, PageSize), PageSize)
  IN  [k \in 1 .. Len(pages) |-> New(small(pages[k]), Writable)]

(* The page at the top is mapped too; the guard page gets a frame and no   *)
(* flags.                                                                  *)
allocate_and_map_stack ==
  LET pages == range_inclusive(StackStart, containing_address(StackTop, PageSize), PageSize)
  IN  [k \in 1 .. Len(pages) |-> New(small(pages[k]), Writable)]
        \o <<New(small(StackGuard), {})>>

identity_map_context_switch_function(s) ==
  <<Call(containing_address(s.first, PageSize), Identity, {"PRESENT"})>>

initialize_and_map_gdt == <<New(Identity, {"PRESENT"})>>

allocate_and_map_boot_info == <<New(Identity, {"PRESENT"})>>

(* Mutant: the large frame that holds the highest address is left out. *)
map_complete_physical_memory_space_into_kernel_short ==
  LET frames == range_inclusive(0, containing_address(MaxPhysicalAddress, LargeSize) - LargeSize,
                                LargeSize)
  IN  [k \in 1 .. Len(frames) |-> Call(frames[k], large(PhysicalOffset + frames[k]), Writable)]

map_complete_physical_memory_space_into_kernel ==
  LET frames == range_inclusive(0, containing_address(MaxPhysicalAddress, LargeSize), LargeSize)
  IN  [k \in 1 .. Len(frames) |-> Call(frames[k], large(PhysicalOffset + frames[k]), Writable)]

Stage4Calls ==
  load_kernel \o allocate_and_map_stack \o identity_map_context_switch_function(switch)
    \o initialize_and_map_gdt \o allocate_and_map_boot_info
    \o map_complete_physical_memory_space_into_kernel

HeapGuard == containing_address(HeapStart + HeapSize, PageSize)

(* The heap's pages, and a guard page behind them. *)
init_heap ==
  LET pages == range_inclusive(containing_address(HeapStart, PageSize),
                               containing_address(HeapStart + HeapSize - 1, PageSize), PageSize)
  IN  [k \in 1 .. Len(pages) |-> New(small(pages[k]), Writable)]
        \o <<New(small(HeapGuard), {})>>

Calls == Stage4Calls \o init_heap

(* The pages a call may be about. *)
PagesOf(c) ==
  IF c.page # Identity THEN {c.page}
  ELSE IF c.new THEN {small(TableFrames[i]) : i \in 1 .. Len(TableFrames)} ELSE {small(c.frame)}

(* The calls are about watched pages, and none asks for a large page by    *)
(* its flag.                                                               *)
CallSet == [new : BOOLEAN, frame : Frames, page : Pages \cup {Identity},
            flags : SUBSET (Flags \ {"HUGE_PAGE"}), unmap : BOOLEAN]
Suits(calls) ==
  calls \in Seq(CallSet) /\ \A k \in 1 .. Len(calls) : PagesOf(calls[k]) \subseteq Pages

ASSUME CallsAssumption ==
  /\ Suits(load_kernel) /\ Suits(allocate_and_map_stack)
  /\ \A s \in ContextSwitches : Suits(identity_map_context_switch_function(s))
  /\ Suits(initialize_and_map_gdt) /\ Suits(allocate_and_map_boot_info)
  /\ Suits(map_complete_physical_memory_space_into_kernel) /\ Suits(init_heap)

-----------------------------------------------------------------------------
(* The registers.  Efer::update and Cr0::update read, change and write     *)
(* back.                                                                   *)

LongMode == {"PROTECTED_MODE_ENABLE", "PAGING", "PAE", "LONG_MODE_ENABLE"}

Stage4Init ==
  /\ Init
  /\ switch \in ContextSwitches
  /\ control = LongMode
  /\ used = << >>
  /\ tables = "stage3"
  /\ tlb = {}

enable_nxe_bit(bits) == bits \cup {"NO_EXECUTE_ENABLE"}

enable_write_protect_bit(bits) == bits \cup {"WRITE_PROTECT"}

(* The start of stage 4, before its first mapping. *)
start ==
  /\ ~ halted
  /\ control = LongMode
  /\ control' = enable_write_protect_bit(enable_nxe_bit(control))
  /\ UNCHANGED <<memory, next, halted, switch, used, tables, tlb>>

-----------------------------------------------------------------------------
(* One call. *)

(* Mutant: the translation is not flushed. *)
flush_ignored(page) == tlb

(* TlbFlusher::flush.  Stage 4 ignores its flushers: its calls change      *)
(* tables that CR3 does not point to, and the TLB holds nothing of them.   *)
flush(page) == {t \in tlb : t[1] # page}

Frame(c) == IF c.new THEN TableFrames[next + 1] ELSE c.frame
Missing(c) == c.new /\ next = Len(TableFrames)
PageOf(c) == IF c.page = Identity THEN small(Frame(c)) ELSE c.page

NextCall == Calls[Len(used) + 1]
Calling ==
  /\ ~ halted
  /\ control # LongMode
  /\ Len(used) < IF tables = "kernel" THEN Len(Calls) ELSE Len(Stage4Calls)

(* allocate_frame without a frame. *)
expect_frame ==
  /\ Calling
  /\ Missing(NextCall)
  /\ halted' = TRUE
  /\ UNCHANGED <<memory, next, switch, control, used, tables, tlb>>

(* map_to, after allocate_frame where the frame is new. *)
expect_map_to ==
  LET c == NextCall
      w == mapping(memory, PageOf(c), IF c.new THEN next + 1 ELSE next, Frame(c), c.flags)
  IN  /\ Calling
      /\ ~ Missing(c) /\ ~ c.unmap
      /\ memory' = w.memory
      /\ next' = w.next
      /\ halted' = ~ w.ok
      /\ used' = IF w.ok THEN Append(used, Frame(c)) ELSE used
      /\ tlb' = flush(PageOf(c))
      /\ UNCHANGED <<switch, control, tables>>

(* make_mutable unmaps the page it has copied. *)
expect_unmap ==
  LET c == NextCall
  IN  /\ Calling
      /\ ~ Missing(c) /\ c.unmap
      /\ unmap(PageOf(c))
      /\ used' = Append(used, Frame(c))
      /\ UNCHANGED <<switch, control, tables, tlb>>

(* context_switch up to its jump: the write to CR3 empties the TLB. *)
context_switch ==
  /\ ~ halted
  /\ tables = "stage3"
  /\ Len(used) = Len(Stage4Calls)
  /\ tables' = "kernel"
  /\ tlb' = {}
  /\ UNCHANGED <<memory, next, halted, switch, control, used>>

Booted == Len(used) = Len(Calls)

(* Later calls of the kernel, through the tables it got; it flushes.  A    *)
(* caller may handle the error of map_to.                                  *)
later_call ==
  /\ Booted
  /\ \E page \in FreePages : MapperCall(page) /\ tlb' = flush(page)
  /\ UNCHANGED <<switch, control, used, tables>>

(* The CPU walks the tables and keeps what it finds. *)
translate_access ==
  /\ Booted
  /\ \E page \in FreePages :
       /\ Grants(page, "PRESENT")
       /\ tlb' = tlb \cup {<<page, translate(page)>>}
  /\ UNCHANGED <<memory, next, halted, switch, control, used, tables>>

Stage4Next == start \/ expect_frame \/ expect_map_to \/ expect_unmap \/ context_switch \/ later_call \/ translate_access

Stage4Spec == Stage4Init /\ [][Stage4Next]_allVars

-----------------------------------------------------------------------------
(* Properties. *)

(* What the CPU lets code in ring 0 do with a page through the kernel's    *)
(* tables: a large page ends the walk; without NO_EXECUTE_ENABLE the bit   *)
(* of NO_EXECUTE is reserved; without WRITE_PROTECT ring 0 writes to every *)
(* page.                                                                   *)
Valid(page) ==
  /\ Grants(page, "PRESENT")
  /\ Forbids(page, "NO_EXECUTE") \/ "NO_EXECUTE_ENABLE" \in control
  /\ Len(page) = 4 => Forbids(page, "HUGE_PAGE")
MayWrite(page) == Valid(page) /\ (Grants(page, "WRITABLE") \/ "WRITE_PROTECT" \notin control)
MayExecute(page) == Valid(page) /\ Forbids(page, "NO_EXECUTE")

(* The CPU sees what the code believes: it reaches exactly the pages that  *)
(* translate finds, may write exactly those mapped with WRITABLE, and      *)
(* holds no cached translation that a call has changed since.              *)
CpuAgrees ==
  tables = "kernel" =>
    /\ \A page \in Pages :
         /\ Valid(page) <=> translates(page)
         /\ translates(page) => (MayWrite(page) <=> "WRITABLE" \in translate(page).flags)
    /\ \A t \in tlb : translates(t[1]) /\ translate(t[1]) = t[2]

(* The calls that stage 4 and init_heap expect to succeed do: none meets a *)
(* page that is mapped already.  What stops the boot is a missing frame.   *)
ExpectsHold == halted /\ ~ Booted => next = Len(TableFrames)

(* With the kernel's tables in CR3 the CPU goes on: the rest of the        *)
(* context switch can be executed if the function lies in one frame, the   *)
(* push finds a stack, the jump finds code, the GDT and the boot           *)
(* information are where they were, and no page lies under the stack.      *)
GdtCall == Len(load_kernel) + Len(allocate_and_map_stack) + 2
SwitchSurvives ==
  tables = "kernel" /\ ~ Booted =>
    /\ containing_address(switch.first, PageSize) = containing_address(switch.last, PageSize)
         => MayExecute(small(switch.last)) /\ translate(small(switch.last)).address
                                                = containing_address(switch.last, PageSize)
    /\ MayWrite(small(StackTop - 1)) /\ MayWrite(small(StackStart))
    /\ ~ Valid(small(StackGuard))
    /\ MayExecute(small(KernelPages[1].at))
    /\ \A k \in {GdtCall, GdtCall + 1} :
         Valid(small(used[k])) /\ translate(small(used[k])).address = used[k]

(* The kernel finds every frame at PHYSICAL_MEMORY_OFFSET: OffsetPageTable *)
(* reads and writes the table in any frame up to the highest, and no large *)
(* page shows a frame at another place.                                    *)
WindowShowsMemory ==
  tables = "kernel" =>
    \A f \in {x \in Frames : x < MaxPhysicalAddress} :
      LET page == large(PhysicalOffset + f)
      IN  /\ MayWrite(page)
          /\ "HUGE_PAGE" \in translate(page).flags
          /\ translate(page).address + (f % LargeSize) = f
=============================================================================
