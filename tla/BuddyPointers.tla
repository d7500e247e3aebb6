--------------------------- MODULE BuddyPointers ----------------------------
(***************************************************************************)
(* The free lists of the buddy allocator as the code keeps them: a head    *)
(* pointer per size class, and in the first bytes of every free chunk a    *)
(* header with the pointer to the next one.  A step of BuddyAllocator is   *)
(* taken together with what the code does to heads and headers; nothing in *)
(* the second part looks at the lists of the first.                        *)
(*                                                                         *)
(* The caller of alloc owns the bytes it asked for and may write there at  *)
(* once: what was a header in them is Garbage from then on.                *)
(***************************************************************************)
EXTENDS BuddyAllocator

VARIABLE mem   \* [heads : class |-> address or Null, headers : address |-> header]

pointerVars == <<vars, mem>>

Null == 0
Addresses == HeapStart .. HeapEnd - 1

(* A NonNull pointer to the heap's first chunk. *)
ASSUME PointerAssumption == HeapStart > 0

Header(next, size) == [next |-> next, size |-> size]
Garbage == Header(Null, 0)

(* Writing n bytes at a, of which none belongs to a header. *)
Overwrite(headers, a, n) ==
  [x \in Addresses |-> IF x < a + n /\ a < x + MIN_SIZE THEN Garbage ELSE headers[x]]

-----------------------------------------------------------------------------
(* Chunk and LinkedList.  Each operator takes mem and returns what is left. *)

new_at_address(m, a, size) ==
  [m EXCEPT !.headers = [Overwrite(@, a, MIN_SIZE) EXCEPT ![a] = Header(Null, size)]]

push_node(m, k, a) ==
  [heads |-> [m.heads EXCEPT ![k] = a], headers |-> [m.headers EXCEPT ![a].next = m.heads[k]]]

pop_front(m, k) ==
  [heads   |-> [m.heads EXCEPT ![k] = m.headers[m.heads[k]].next],
   headers |-> [m.headers EXCEPT ![m.heads[k]].next = Null]]

(* The chunks a walk along the next pointers meets, at most n of them. *)
Chain(m, k) ==
  LET walk[n \in 0 .. HeapSize] ==
        IF n = 0 THEN << >>
        ELSE LET met  == walk[n - 1]
                 next == IF met = << >> THEN m.heads[k] ELSE m.headers[met[Len(met)]].next
             IN  IF Len(met) < n - 1 \/ next = Null THEN met ELSE Append(met, next)
  IN  walk[HeapSize]

(* Mutant: a chunk that is not the first is unlinked from the head. *)
remove_head(m, k, start) ==
  IF \E i \in 1 .. Len(Chain(m, k)) : Chain(m, k)[i] = start
  THEN [m EXCEPT !.heads[k] = m.headers[start].next]
  ELSE m

(* The chunk at start leaves the list: the one before it, or the head,     *)
(* gets its next pointer.  The header of the chunk itself stays.           *)
remove(m, k, start) ==
  LET chain == Chain(m, k)
      found == {i \in 1 .. Len(chain) : IsFirstAt(chain, start, i)}
  IN  CASE found = {} -> m
        [] found = {1} -> [m EXCEPT !.heads[k] = m.headers[start].next]
        [] OTHER -> [m EXCEPT !.headers[chain[(CHOOSE i \in found : TRUE) - 1]].next =
                                m.headers[start].next]

-----------------------------------------------------------------------------
PointerInit ==
  /\ Init
  /\ mem = [heads |-> [k \in Classes |-> Null], headers |-> [a \in Addresses |-> Garbage]]

add_region_chunk ==
  /\ add_region
  /\ \E k \in Classes :
       /\ IsChunkClass(region, k)
       /\ mem' = push_node(new_at_address(mem, region, ClassSize[k]), k, region)

(* pop_front, then new_at_address and push_front for either half. *)
split_chunk ==
  /\ split
  /\ LET chunk == mem.heads[level]
         size  == ClassSize[level - 1]
         low(m, a) == push_node(new_at_address(m, a, size), level - 1, a)
     IN  mem' = low(low(pop_front(mem, level), chunk), chunk + size)

(* The chunk is the caller's now. *)
alloc_return_chunk ==
  /\ alloc_return
  /\ mem' = [pop_front(mem, class) EXCEPT !.headers = Overwrite(@, mem.heads[class], layout.size)]

(* GlobalAlloc::dealloc makes a chunk of the block. *)
dealloc_chunk(block) ==
  /\ dealloc(block)
  /\ mem' = new_at_address(mem, block.start, ClassSize[level'])

merge_chunk == merge /\ mem' = remove(mem, level, BuddyOf(region, level))

merge_done_chunk ==
  /\ merge_done
  /\ mem' = push_node(new_at_address(mem, region, ClassSize[level]), level, region)

PointerNext ==
  \/ add_region_chunk \/ split_chunk \/ alloc_return_chunk \/ merge_chunk \/ merge_done_chunk
  \/ \E block \in allocated : dealloc_chunk(block)
  \/ /\ init_done \/ merge_past_end \/ panic
        \/ \E l \in Layouts : alloc(l) \/ alloc_none(l) \/ alloc_too_large(l)
     /\ UNCHANGED mem

PointerSpec == PointerInit /\ [][PointerNext]_pointerVars

-----------------------------------------------------------------------------
(* Properties. *)

(* The pointers are the lists: from every head a walk along the headers    *)
(* meets the chunks of its class, in order and none twice, and finds their *)
(* size in them, whatever callers write into their blocks.                 *)
ListsRepresent ==
  \A k \in Classes :
    /\ Chain(mem, k) = buddies[k]
    /\ \A a \in Free(k) : mem.headers[a].size = ClassSize[k]

-----------------------------------------------------------------------------
(* The inductive invariant, without the walk. *)

NextOf(list, i) == IF i < Len(list) THEN list[i + 1] ELSE Null

Linked(m, k, list) ==
  /\ m.heads[k] = NextOf(list, 0)
  /\ \A i \in 1 .. Len(list) : m.headers[list[i]] = Header(NextOf(list, i), ClassSize[k])

Memories == [heads : [Classes -> Nat], headers : [Addresses -> [next : Nat, size : Nat]]]

Represents(m, lists) == m \in Memories /\ \A k \in Classes : Linked(m, k, lists[k])

PointersInv == Represents(mem, buddies)

(* The entries of the lists are headers away from the n bytes at a. *)
ClearOf(lists, a, n) ==
  \A k \in Classes : \A i \in 1 .. Len(lists[k]) :
    /\ lists[k][i] \in Addresses \ {a}
    /\ lists[k][i] + MIN_SIZE <= a \/ a + n <= lists[k][i]
=============================================================================
