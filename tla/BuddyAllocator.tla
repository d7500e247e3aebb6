--------------------------- MODULE BuddyAllocator ---------------------------
(***************************************************************************)
(* The kernel heap: kernel/src/allocator/buddy_allocator.rs, used through  *)
(* the GlobalAlloc implementation of Locked<BuddyAllocator>.               *)
(*                                                                         *)
(* buddies[k] is the intrusive free list of the chunks of 2^k bytes, head  *)
(* first.  The three loops of the code (add_region, the splitting loop of  *)
(* alloc, the merging loop of dealloc) run one iteration per step, inside  *)
(* the lock: pc, class, level and region are their local variables.        *)
(***************************************************************************)
EXTENDS Integers, Sequences, Functions

CONSTANTS
  MAX_ORDER,   \* number of size classes
  ClassSize,   \* ClassSize[k] is 1 << k
  MIN_SIZE,    \* size_of::<Chunk>(), the header kept in a free chunk
  HeapStart,   \* the region given to BuddyAllocator::init
  HeapSize,
  Layouts      \* the layouts callers ask for: [size |-> , align |-> ]

Classes == 0 .. MAX_ORDER - 1

ASSUME OrderAssumption == MAX_ORDER \in Nat \ {0}

ASSUME SizeAssumption ==
  /\ ClassSize \in [0 .. MAX_ORDER -> Nat \ {0}]
  /\ ClassSize[0] = 1
  /\ \A k \in Classes : ClassSize[k + 1] = 2 * ClassSize[k]
  /\ MIN_SIZE \in Nat

ASSUME HeapAssumption == HeapStart \in Nat /\ HeapSize \in Nat

(* core::alloc::Layout: the alignment is a power of two. *)
ASSUME LayoutAssumption ==
  \A l \in Layouts :
    /\ l = [size |-> l.size, align |-> l.align]
    /\ l.size \in Nat
    /\ l.align \in Nat \ {0}
    /\ \A k \in 0 .. MAX_ORDER : l.align <= ClassSize[k] => ClassSize[k] % l.align = 0

VARIABLES
  buddies,     \* free list of each size class
  allocated,   \* blocks in the hands of callers
  pc,          \* which loop the lock holder is in
  class,       \* alloc: the class wanted
  level,       \* alloc: j; dealloc: current_class
  region,      \* add_region: current_start; dealloc: region.start()
  layout       \* alloc: the layout asked for

vars == <<buddies, allocated, pc, class, level, region, layout>>

HeapEnd == HeapStart + HeapSize
NoLayout == [size |-> 0, align |-> 1]
Apart(a, n, b, m) == a + n <= b \/ b + m <= a

-----------------------------------------------------------------------------
(* The free lists. *)

push_front(list, start) == <<start>> \o list

(* The list without its entry at index i. *)
WithoutIndex(list, i) == SubSeq(list, 1, i - 1) \o SubSeq(list, i + 1, Len(list))

(* remove(start) walks the list and unlinks the first chunk at start. *)
IsFirstAt(list, start, i) ==
  list[i] = start /\ \A j \in 1 .. i - 1 : list[j] # start

(* Mutant: every chunk is taken for the lower one of its pair. *)
BuddyOf_upward(start, k) == start + ClassSize[k]

(* start ^ (1 << k): the address with bit k toggled. *)
BuddyOf(start, k) ==
  IF (start \div ClassSize[k]) % 2 = 0 THEN start + ClassSize[k]
                                       ELSE start - ClassSize[k]

(* Mutants: the header, or the alignment, is left out of the maximum. *)
Fits_no_header(l, k) == ClassSize[k] >= l.size /\ ClassSize[k] >= l.align
Fits_no_align(l, k) == ClassSize[k] >= l.size /\ ClassSize[k] >= MIN_SIZE

(* align_layout_size: 1 << k holds the layout's size, its alignment and a  *)
(* chunk header, and no smaller power of two does.                         *)
Fits(l, k) ==
  ClassSize[k] >= l.size /\ ClassSize[k] >= l.align /\ ClassSize[k] >= MIN_SIZE

IsSizeClass(l, k) == Fits(l, k) /\ \A j \in 0 .. k - 1 : ~Fits(l, j)

(* min(min(lowbit, previous_power_of_two(end - cur)), 1 << (MAX_ORDER - 1)) *)
(* is 1 << k; the code takes 64 for the lowest set bit of address 0.        *)
ChunkFits(cur, k) ==
  /\ cur % ClassSize[k] = 0
  /\ ClassSize[k] <= HeapEnd - cur
  /\ cur = 0 => ClassSize[k] <= 64

IsChunkClass(cur, k) ==
  ChunkFits(cur, k) /\ \A j \in k + 1 .. MAX_ORDER - 1 : ~ChunkFits(cur, j)

-----------------------------------------------------------------------------
Init ==
  /\ buddies = [k \in Classes |-> << >>]
  /\ allocated = {}
  /\ pc = "add_region"
  /\ class = 0
  /\ level = 0
  /\ region = HeapStart
  /\ layout = NoLayout

(* One iteration of the loop of add_region. *)
add_region ==
  /\ pc = "add_region"
  /\ region < HeapEnd
  /\ \E k \in Classes :
       /\ IsChunkClass(region, k)
       /\ buddies' = [buddies EXCEPT ![k] = push_front(@, region)]
       /\ region' = region + ClassSize[k]
  /\ UNCHANGED <<allocated, pc, class, level, layout>>

(* The region is used up: init returns and the lock is released. *)
init_done ==
  /\ pc = "add_region"
  /\ region >= HeapEnd
  /\ pc' = "idle"
  /\ UNCHANGED <<buddies, allocated, class, level, region, layout>>

(* alloc finds the first non-empty class that is large enough. *)
alloc(l) ==
  /\ pc = "idle"
  /\ \E k \in Classes :
       /\ IsSizeClass(l, k)
       /\ \E i \in k .. MAX_ORDER - 1 :
            /\ buddies[i] # << >>
            /\ \A m \in k .. i - 1 : buddies[m] = << >>
            /\ class' = k
            /\ level' = i
  /\ pc' = "split"
  /\ layout' = l
  /\ UNCHANGED <<buddies, allocated, region>>

(* Mutant: the loop variable, past its end, is taken for the class. *)
alloc_none_counter(l) ==
  /\ pc = "idle"
  /\ \E k \in Classes :
       /\ IsSizeClass(l, k)
       /\ \A i \in k .. MAX_ORDER - 1 : buddies[i] = << >>
  /\ class' = MAX_ORDER
  /\ pc' = "out_of_memory"
  /\ layout' = l
  /\ UNCHANGED <<buddies, allocated, level, region>>

(* Mutant: only the list of the class itself is looked at. *)
alloc_none_one_list(l) ==
  /\ pc = "idle"
  /\ \E k \in Classes : IsSizeClass(l, k) /\ buddies[k] = << >> /\ class' = k
  /\ pc' = "out_of_memory"
  /\ layout' = l
  /\ UNCHANGED <<buddies, allocated, level, region>>

(* alloc returns None: "Allocator ran out of memory". *)
alloc_none(l) ==
  /\ pc = "idle"
  /\ \E k \in Classes :
       /\ IsSizeClass(l, k)
       /\ \A i \in k .. MAX_ORDER - 1 : buddies[i] = << >>
       /\ class' = k
  /\ pc' = "out_of_memory"
  /\ layout' = l
  /\ UNCHANGED <<buddies, allocated, level, region>>

(* buddies[class] with a class past the end of the array panics. *)
alloc_too_large(l) ==
  /\ pc = "idle"
  /\ \A k \in Classes : ~Fits(l, k)
  /\ pc' = "index_out_of_bounds"
  /\ layout' = l
  /\ UNCHANGED <<buddies, allocated, class, level, region>>

(* Mutant: the second half is put 1 << j, not 1 << (j - 1), further up. *)
split_far_half ==
  /\ pc = "split"
  /\ level > class
  /\ LET start == Head(buddies[level])
         low   == level - 1
     IN  buddies' = [buddies EXCEPT
           ![level] = Tail(@),
           ![low]   = push_front(push_front(@, start), start + ClassSize[level])]
  /\ level' = level - 1
  /\ UNCHANGED <<allocated, pc, class, region, layout>>

(* One iteration of the splitting loop: the first chunk of class j becomes *)
(* two chunks of class j - 1, the upper half pushed last.                  *)
split ==
  /\ pc = "split"
  /\ level > class
  /\ LET start == Head(buddies[level])
         low   == level - 1
     IN  buddies' = [buddies EXCEPT
           ![level] = Tail(@),
           ![low]   = push_front(push_front(@, start), start + ClassSize[low])]
  /\ level' = level - 1
  /\ UNCHANGED <<allocated, pc, class, region, layout>>

(* Mutant: front() instead of pop_front(). *)
alloc_return_front ==
  /\ pc = "split"
  /\ level = class
  /\ allocated' = allocated \cup {[start |-> Head(buddies[class]), layout |-> layout]}
  /\ pc' = "idle"
  /\ layout' = NoLayout
  /\ UNCHANGED <<buddies, class, level, region>>

(* No class left to split: alloc returns the first chunk of its class. *)
alloc_return ==
  /\ pc = "split"
  /\ level = class
  /\ allocated' = allocated \cup {[start |-> Head(buddies[class]), layout |-> layout]}
  /\ buddies' = [buddies EXCEPT ![class] = Tail(@)]
  /\ pc' = "idle"
  /\ layout' = NoLayout
  /\ UNCHANGED <<class, level, region>>

(* GlobalAlloc::dealloc rewrites the header from the layout it is given. *)
dealloc(block) ==
  /\ pc = "idle"
  /\ \E k \in Classes : IsSizeClass(block.layout, k) /\ level' = k
  /\ allocated' = allocated \ {block}
  /\ region' = block.start
  /\ pc' = "merge"
  /\ UNCHANGED <<buddies, class, layout>>

(* Mutant: the merged region keeps its start, without the min. *)
merge_keep_start ==
  /\ pc = "merge"
  /\ level < MAX_ORDER
  /\ \E i \in 1 .. Len(buddies[level]) :
       /\ IsFirstAt(buddies[level], BuddyOf(region, level), i)
       /\ buddies' = [buddies EXCEPT ![level] = WithoutIndex(@, i)]
  /\ level' = level + 1
  /\ UNCHANGED <<allocated, region, pc, class, layout>>

(* The buddy is free: take it off its list and go one class up. *)
merge ==
  /\ pc = "merge"
  /\ level < MAX_ORDER
  /\ LET buddy == BuddyOf(region, level)
     IN  /\ \E i \in 1 .. Len(buddies[level]) :
              /\ IsFirstAt(buddies[level], buddy, i)
              /\ buddies' = [buddies EXCEPT ![level] = WithoutIndex(@, i)]
         /\ region' = IF buddy < region THEN buddy ELSE region
  /\ level' = level + 1
  /\ UNCHANGED <<allocated, pc, class, layout>>

(* Mutant: the chunk is pushed without looking for its buddy. *)
merge_done_unchecked ==
  /\ pc = "merge"
  /\ level < MAX_ORDER
  /\ buddies' = [buddies EXCEPT ![level] = push_front(@, region)]
  /\ pc' = "idle"
  /\ UNCHANGED <<allocated, class, level, region, layout>>

(* The buddy is in use, or split: the chunk joins the list of its class. *)
merge_done ==
  /\ pc = "merge"
  /\ level < MAX_ORDER
  /\ \A i \in 1 .. Len(buddies[level]) : buddies[level][i] # BuddyOf(region, level)
  /\ buddies' = [buddies EXCEPT ![level] = push_front(@, region)]
  /\ pc' = "idle"
  /\ UNCHANGED <<allocated, class, level, region, layout>>

(* current_class reached buddies.len(): the loop ends and nothing is pushed. *)
merge_past_end ==
  /\ pc = "merge"
  /\ level = MAX_ORDER
  /\ pc' = "idle"
  /\ UNCHANGED <<buddies, allocated, class, level, region, layout>>

(* The panic handler prints and loops forever. *)
panic ==
  /\ pc \in {"out_of_memory", "index_out_of_bounds"}
  /\ UNCHANGED vars

Next ==
  \/ add_region
  \/ init_done
  \/ \E l \in Layouts : alloc(l) \/ alloc_none(l) \/ alloc_too_large(l)
  \/ split
  \/ alloc_return
  \/ \E block \in allocated : dealloc(block)
  \/ merge
  \/ merge_done
  \/ merge_past_end
  \/ panic

Spec == Init /\ [][Next]_vars

-----------------------------------------------------------------------------
(* Properties. *)

PanicStates == {"out_of_memory", "index_out_of_bounds"}

(* The loops of alloc and dealloc never use a class past the array of      *)
(* lists: buddies.len() is where the merging loop ends.                    *)
TypeOK ==
  /\ buddies \in [Classes -> Seq(Nat)]
  /\ allocated \subseteq [start : Nat, layout : Layouts]
  /\ pc \in {"add_region", "idle", "split", "merge"} \cup PanicStates
  /\ class \in Classes
  /\ level \in 0 .. MAX_ORDER
  /\ region \in Nat
  /\ layout \in Layouts \cup {NoLayout}

Free(k) == Range(buddies[k])

(* The bytes a block occupies: its whole chunk, not just the layout's size. *)
HasClass(block, k) == k \in Classes /\ IsSizeClass(block.layout, k)

(* No two chunks on the free lists overlap: splitting and merging, in any  *)
(* order of alloc and dealloc calls, never put the same byte on two lists. *)
FreeChunksApart ==
  \A k, m \in Classes : \A a \in Free(k), b \in Free(m) :
    <<a, k>> # <<b, m>> => Apart(a, ClassSize[k], b, ClassSize[m])

ApartFromFree(a, n) ==
  \A m \in Classes : \A b \in Free(m) : Apart(a, n, b, ClassSize[m])

ApartFromBlocks(a, n, blocks) ==
  \A y \in blocks : \A m \in Classes :
    HasClass(y, m) => Apart(a, n, y.start, ClassSize[m])

(* No block in use overlaps a free chunk, into which alloc and dealloc     *)
(* write headers, or another block in use.                                 *)
BlocksApart ==
  \A x \in allocated : \A k \in Classes :
    HasClass(x, k) =>
      /\ ApartFromFree(x.start, ClassSize[k])
      /\ ApartFromBlocks(x.start, ClassSize[k], allocated \ {x})

Within(x, a, n) == a <= x /\ x < a + n

InFreeChunk(x) == \E k \in Classes : \E a \in Free(k) : Within(x, a, ClassSize[k])

InBlock(x) ==
  \E b \in allocated : \E k \in Classes :
    HasClass(b, k) /\ Within(x, b.start, ClassSize[k])

(* Between calls every byte of the heap is in a free chunk or in a block   *)
(* in use: no sequence of alloc and dealloc calls loses memory.            *)
NothingLost ==
  pc = "idle" => \A x \in HeapStart .. HeapEnd - 1 : InFreeChunk(x) \/ InBlock(x)

(* The header that add_region, split and dealloc write into a free chunk   *)
(* fits into the chunk.                                                    *)
HeadersFit == \A k \in Classes : Free(k) # {} => ClassSize[k] >= MIN_SIZE

(* Between calls no free chunk has a free buddy of its own class: dealloc  *)
(* has merged all that can be merged, below the largest class.             *)
Coalesced ==
  pc = "idle" =>
    \A k \in 0 .. MAX_ORDER - 2 : \A a \in Free(k) : BuddyOf(a, k) \notin Free(k)

(* "Allocator ran out of memory" only when every aligned range of the size *)
(* wanted overlaps a block in use: fragmentation by itself never makes an  *)
(* allocation fail.                                                        *)
FailsOnlyWhenFull ==
  pc = "out_of_memory" =>
    \A a \in HeapStart .. HeapEnd - ClassSize[class] :
      a % ClassSize[class] = 0 =>
        \E b \in allocated : \E k \in Classes :
          HasClass(b, k) /\ ~Apart(a, ClassSize[class], b.start, ClassSize[k])

Contract == INSTANCE HeapContract

(* The allocator implements the contract of GlobalAlloc: every block it    *)
(* returns is aligned, in the heap, and apart from all blocks in use.      *)
ImplementsContract == Contract!Spec

-----------------------------------------------------------------------------
(* The inductive invariant.  Besides the two properties it keeps apart, it *)
(* says where the chunks are and what the running loop holds in its hands. *)

ListsDistinct == \A k \in Classes : IsInjective(buddies[k])

Placed(a, k) ==
  HeapStart <= a /\ a + ClassSize[k] <= HeapEnd /\ a % ClassSize[k] = 0

ChunksPlaced ==
  /\ \A k \in Classes : \A a \in Free(k) : Placed(a, k)
  /\ \A x \in allocated : \E k \in Classes : HasClass(x, k) /\ Placed(x.start, k)

AddingRegion ==
  pc = "add_region" =>
    /\ allocated = {}
    /\ HeapStart <= region /\ region <= HeapEnd
    /\ \A k \in Classes : \A a \in Free(k) : a + ClassSize[k] <= region

Splitting ==
  pc = "split" =>
    /\ layout \in Layouts /\ IsSizeClass(layout, class)
    /\ class <= level /\ level < MAX_ORDER
    /\ buddies[level] # << >>

Merging ==
  pc = "merge" =>
    /\ Placed(region, level)
    /\ ApartFromFree(region, ClassSize[level])
    /\ ApartFromBlocks(region, ClassSize[level], allocated)

SafetyInv ==
  /\ TypeOK /\ ListsDistinct
  /\ FreeChunksApart /\ BlocksApart /\ ChunksPlaced
  /\ AddingRegion /\ Splitting /\ Merging

(* Where a byte can be while the loops of add_region and dealloc run. *)
InHand(x) ==
  \/ pc = "add_region" /\ region <= x
  \/ pc = "merge" /\ Within(x, region, ClassSize[level])

CoverInv ==
  \A x \in HeapStart .. HeapEnd - 1 : InFreeChunk(x) \/ InBlock(x) \/ InHand(x)

(* The lists of the classes that merge hold no chunk with its buddy, the   *)
(* two halves of a split that goes on excepted: the first of them is split *)
(* or handed out next, and alloc found the lists below empty.              *)
Unpaired(S, k) == \A a \in S : BuddyOf(a, k) \notin S

PairedOnlyInSplit ==
  \A k \in 0 .. MAX_ORDER - 2 :
    Unpaired(IF pc = "split" /\ k = level THEN Free(k) \ {Head(buddies[k])} ELSE Free(k), k)

SplitsIntoEmpty == pc = "split" => \A k \in class .. level - 1 : Free(k) = {}

(* add_region leaves no room for the upper buddy of a chunk it makes. *)
AddsLargest ==
  pc = "add_region" =>
    \A k \in 0 .. MAX_ORDER - 2 : \A a \in Free(k) :
      a % ClassSize[k + 1] = 0 => HeapEnd < a + ClassSize[k + 1]

NoneLeft == pc = "out_of_memory" => \A k \in class .. MAX_ORDER - 1 : Free(k) = {}

CoalescedInv == PairedOnlyInSplit /\ SplitsIntoEmpty /\ AddsLargest /\ NoneLeft

(* The heap consists of chunks of class g, into which a header fits. *)
Grained(g) ==
  /\ ClassSize[g] >= MIN_SIZE
  /\ HeapStart % ClassSize[g] = 0 /\ HeapSize % ClassSize[g] = 0

HeaderInv(g) ==
  /\ HeadersFit
  /\ pc = "merge" => ClassSize[level] >= MIN_SIZE
  /\ pc = "add_region" => region % ClassSize[g] = 0

=============================================================================
