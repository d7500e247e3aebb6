----------------------------- MODULE PageTables -----------------------------
(***************************************************************************)
(* The four-level page tables of stage 4 and the kernel: MappedPageTable   *)
(* with its walker, for pages of 4 KiB and of 2 MiB.                       *)
(*                                                                         *)
(* Physical memory is a function from frames to tables; a frame that is no *)
(* table holds whatever it holds.  A page is the sequence of its indices,  *)
(* from the level-4 table down: four of them, or three for a large page.   *)
(* Every call of the trait Mapper is one step: nothing else runs while a   *)
(* table is changed.                                                       *)
(***************************************************************************)
EXTENDS Naturals, Sequences

CONSTANTS
  Frames,      \* the physical frames, 0 among them
  Root,        \* the frame of the level-4 table
  TableFrames, \* the frames the allocator hands out, in order
  DataFrames,  \* frames callers map
  Index,       \* the indices of a table
  Pages,       \* the pages whose mapping is watched, of both sizes
  CallerFlags  \* the sets of flags they map them with

Flags == {"PRESENT", "WRITABLE", "USER_ACCESSIBLE", "HUGE_PAGE", "NO_EXECUTE"}
Tables == {Root} \cup {TableFrames[i] : i \in 1 .. Len(TableFrames)}

(* No watched page lies inside another one: the code keeps large pages in  *)
(* slots of their own.                                                     *)
ASSUME PagesAssumption ==
  /\ Frames \subseteq Nat /\ 0 \in Frames /\ DataFrames \subseteq Frames
  /\ Root \in Frames \ {0} /\ TableFrames \in Seq(Frames \ {0, Root})
  /\ \A i, j \in 1 .. Len(TableFrames) : TableFrames[i] = TableFrames[j] => i = j
  /\ Pages \subseteq (Index \X Index \X Index) \cup (Index \X Index \X Index \X Index)
  /\ \A p, q \in Pages : Len(p) = 3 /\ Len(q) = 4 => p # <<q[1], q[2], q[3]>>
  /\ CallerFlags \subseteq SUBSET (Flags \ {"HUGE_PAGE"})

VARIABLES
  memory,     \* what the frames hold, read as tables
  next,       \* how many frames are gone: taken by the kernel's file or handed out
  halted      \* a call has panicked

vars == <<memory, next, halted>>

-----------------------------------------------------------------------------
(* PageTableEntry and PageTable. *)

Entries == [address : Frames, flags : SUBSET Flags]
Unused == [address |-> 0, flags |-> {}]
is_unused(e) == e = Unused
is_present(e) == "PRESENT" \in e.flags
empty == [i \in Index |-> Unused]

parent_flags == {"PRESENT", "WRITABLE", "USER_ACCESSIBLE"}

-----------------------------------------------------------------------------
(* PageTableWalker.  A walk is [memory, next, table, ok]: the memory it    *)
(* leaves, the table it has reached, and whether a frame was missing.      *)

Walk(mem, n) == [memory |-> mem, next |-> n, table |-> Root, ok |-> TRUE]

(* Mutant: the new table keeps what its frame held before. *)
allocate_table_dirty(w, i) ==
  LET frame == TableFrames[w.next + 1]
  IN  [w EXCEPT !.memory[w.table][i] = [address |-> frame, flags |-> parent_flags],
                !.next = @ + 1,
                !.table = frame]

(* A new table: its entry, and the table itself cleared. *)
allocate_table(w, i) ==
  LET frame == TableFrames[w.next + 1]
  IN  [memory |-> [w.memory EXCEPT ![w.table][i] = [address |-> frame, flags |-> parent_flags],
                                   ![frame] = empty],
       next |-> w.next + 1, table |-> frame, ok |-> TRUE]

get_or_allocate_pagetable(w, i) ==
  LET entry == w.memory[w.table][i]
  IN  IF ~ w.ok THEN w
      ELSE IF ~ is_unused(entry)
      THEN [w EXCEPT !.memory[w.table][i].flags = @ \cup parent_flags,
                     !.table = entry.address]
      ELSE IF w.next = Len(TableFrames) THEN [w EXCEPT !.ok = FALSE]
      ELSE allocate_table(w, i)

(* The walk to the table that holds the entry of page, making the tables   *)
(* that are missing, from the memory mem and the allocator's n-th frame.   *)
WalkAllocating(mem, page, n) ==
  LET l3 == get_or_allocate_pagetable(Walk(mem, n), page[1])
      l2 == get_or_allocate_pagetable(l3, page[2])
  IN  IF Len(page) = 3 THEN l2 ELSE get_or_allocate_pagetable(l2, page[3])

(* The entries of page, from the level-4 table down. *)
Path(page) ==
  LET e4 == memory[Root][page[1]]
      e3 == memory[e4.address][page[2]]
      e2 == memory[e3.address][page[3]]
  IN  IF Len(page) = 3 THEN <<e4, e3, e2>> ELSE <<e4, e3, e2, memory[e2.address][page[4]]>>

(* get_pagetable succeeds on the way to page: only an entry that is zero   *)
(* stops the walk.                                                         *)
Reaches(page) ==
  LET path == Path(page) IN \A i \in 1 .. Len(page) - 1 : ~ is_unused(path[i])

(* The table that holds the entry of page. *)
LeafTable(page) == Path(page)[Len(page) - 1].address

LeafIndex(page) == page[Len(page)]

-----------------------------------------------------------------------------
(* Mapper and Translator. *)

(* The root is empty, other frames hold anything; the kernel's file may    *)
(* reach up to any frame of the allocator.                                 *)
Init ==
  /\ memory \in {[f \in Frames |-> IF f = Root THEN empty ELSE content] :
                   content \in {empty, [i \in Index |-> [address |-> 0, flags |-> {"PRESENT"}]]}}
  /\ next \in 0 .. Len(TableFrames)
  /\ halted = FALSE

(* Mutant: a page that is mapped already is mapped again. *)
mapping_again(mem, page, n, frame, flags) ==
  LET w == WalkAllocating(mem, page, n)
      size == IF Len(page) = 3 THEN {"HUGE_PAGE"} ELSE {}
  IN  IF w.ok THEN [w EXCEPT !.memory[w.table][LeafIndex(page)] =
                               [address |-> frame, flags |-> flags \cup size]]
              ELSE w

(* What Mapper::map_to leaves behind, and whether it succeeds.  Without a  *)
(* frame for a table it stops half way, and the tables it has made stay.   *)
(* A page that is present stays as it is.                                  *)
mapping(mem, page, n, frame, flags) ==
  LET w == WalkAllocating(mem, page, n)
      size == IF Len(page) = 3 THEN {"HUGE_PAGE"} ELSE {}
  IN  IF w.ok /\ ~ is_present(w.memory[w.table][LeafIndex(page)])
      THEN [w EXCEPT !.memory[w.table][LeafIndex(page)] =
                       [address |-> frame, flags |-> flags \cup size]]
      ELSE [w EXCEPT !.ok = FALSE]

(* Mapper::map_to, by a caller that handles its error. *)
map_to(page, frame, flags) ==
  LET w == mapping(memory, page, next, frame, flags)
  IN  /\ ~ halted
      /\ memory' = w.memory
      /\ next' = w.next
      /\ UNCHANGED halted

(* Translator::translate: the entry of a page that is mapped, or Unused    *)
(* for the error NotMapped.                                                *)
translate(page) ==
  LET path == Path(page)
  IN  IF Reaches(page) /\ is_present(path[Len(page)]) THEN path[Len(page)] ELSE Unused
translates(page) == translate(page) # Unused

(* Mapper::unmap of a page without tables unwraps None. *)
unmap_panic(page) ==
  /\ ~ halted
  /\ ~ Reaches(page)
  /\ halted' = TRUE
  /\ UNCHANGED <<memory, next>>

(* Mapper::unmap.  A page that is not present is an error, no change. *)
unmap(page) ==
  /\ ~ halted
  /\ translates(page)
  /\ memory' = [memory EXCEPT ![LeafTable(page)][LeafIndex(page)] = Unused]
  /\ UNCHANGED <<next, halted>>

(* Any call of the two traits' operations that change something. *)
MapperCall(page) ==
  \/ unmap(page) \/ unmap_panic(page)
  \/ \E frame \in DataFrames, flags \in CallerFlags : map_to(page, frame, flags)

-----------------------------------------------------------------------------
(* Properties. *)

(* The entries of a set of tables that lead to a table, and those tables. *)
Links(tables) ==
  {x \in tables \X Index : /\ ~ is_unused(memory[x[1]][x[2]])
                           /\ "HUGE_PAGE" \notin memory[x[1]][x[2]].flags}
Children(tables) == {memory[x[1]][x[2]].address : x \in Links(tables)}
Level3 == Children({Root})
Level2 == Children(Level3)
Level1 == Children(Level2)

(* The tables form a tree: every table has one level and one entry that    *)
(* leads to it, and no walk leaves the frames of the allocator.            *)
TablesFormTree ==
  /\ Level3 \cup Level2 \cup Level1 \subseteq Tables \ {Root}
  /\ Level3 \cap Level2 = {} /\ Level3 \cap Level1 = {} /\ Level2 \cap Level1 = {}
  /\ \A x, y \in Links({Root} \cup Level3 \cup Level2) :
       memory[x[1]][x[2]].address = memory[y[1]][y[2]].address => x = y

(* The CPU's walk grants what every entry on the way grants. *)
Grants(page, flag) ==
  LET path == Path(page) IN \A i \in 1 .. Len(page) : flag \in path[i].flags
Forbids(page, flag) ==
  LET path == Path(page) IN \A i \in 1 .. Len(page) : flag \notin path[i].flags

(* The tables implement an address space: a call changes the mapping of    *)
(* its page and of no other, whatever tables it has to make, and a call    *)
(* that fails changes none.                                                *)
mappings == [page \in Pages |-> translate(page)]
Space == INSTANCE AddressSpace WITH Mappings <- Entries, None <- Unused, mapped <- mappings
ImplementsAddressSpace == Space!Spec
=============================================================================
