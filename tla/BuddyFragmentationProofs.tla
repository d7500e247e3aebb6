---------------------- MODULE BuddyFragmentationProofs ----------------------
(***************************************************************************)
(* What merging achieves: no memory is lost, between calls no free chunk   *)
(* has a free buddy, and an allocation fails only when every range it      *)
(* could get is in use.                                                    *)
(***************************************************************************)
EXTENDS BuddyAllocatorProofs

-----------------------------------------------------------------------------
(* No memory is lost: when the heap is smaller than ClassSize[MAX_ORDER],  *)
(* as the kernel's is (100 KiB against 1 MiB), every byte stays in a free  *)
(* chunk or in a block.  The bound is needed: merging two chunks of the    *)
(* largest class ends the loop of dealloc without a push.                  *)

(* A chunk of twice the size is its two halves. *)
LEMMA WithinHalves ==
  ASSUME NEW x \in Nat, NEW a \in Nat, NEW c \in Nat
  PROVE  Within(x, a, 2 * c) <=> Within(x, a, c) \/ Within(x, a + c, c)
BY DEF Within

(* In the empty allocator every byte is still ahead of add_region. *)
LEMMA InitCover == Init => CoverInv
BY HeapAssumption DEF Init, CoverInv, InHand, HeapEnd

(* Bytes stay covered when no chunk moves and none is in hand. *)
LEMMA QuietStepsCover ==
  ASSUME SafetyInv, CoverInv, HeapSize < ClassSize[MAX_ORDER],
         \/ init_done \/ merge_past_end \/ panic \/ UNCHANGED vars
         \/ \E l \in Layouts : alloc(l) \/ alloc_none(l) \/ alloc_too_large(l)
  PROVE  CoverInv'
<1>1. UNCHANGED <<buddies, allocated>>
  BY DEF init_done, merge_past_end, panic, vars, alloc, alloc_none, alloc_too_large
<1>2. \A x : (InFreeChunk(x)' <=> InFreeChunk(x)) /\ (InBlock(x)' <=> InBlock(x))
  BY <1>1 DEF InFreeChunk, InBlock, Free
<1>3. ~merge_past_end
  <2> SUFFICES ASSUME merge_past_end PROVE FALSE
    OBVIOUS
  <2>1. Placed(region, MAX_ORDER) /\ region \in Nat
    BY DEF merge_past_end, SafetyInv, Merging, TypeOK
  <2>2. PICK c \in Nat : c = ClassSize[MAX_ORDER]
    BY Sizes, OrderAssumption
  <2> QED BY <2>1, <2>2, HeapAssumption DEF Placed, HeapEnd
<1>4. \A x \in HeapStart .. HeapEnd - 1 : InHand(x) => InHand(x)'
  <2>1. CASE init_done
    BY <2>1, HeapAssumption DEF init_done, InHand, HeapEnd, SafetyInv, TypeOK
  <2>2. CASE panic \/ UNCHANGED vars
    BY <2>2 DEF panic, vars, InHand
  <2>3. CASE \E l \in Layouts : alloc(l) \/ alloc_none(l) \/ alloc_too_large(l)
    BY <2>3 DEF alloc, alloc_none, alloc_too_large, InHand
  <2> QED BY <1>3, <2>1, <2>2, <2>3
<1> QED BY <1>2, <1>4 DEF CoverInv

(* The bytes add_region passes are in the chunk it pushes. *)
LEMMA AddRegionCover ==
  ASSUME SafetyInv, CoverInv, add_region
  PROVE  CoverInv'
<1>1. PICK k \in Classes, a \in Nat :
        /\ a = region /\ region' = a + ClassSize[k]
        /\ buddies' = [buddies EXCEPT ![k] = push_front(@, a)]
  BY Zenon DEF add_region, SafetyInv, TypeOK
<1>2. /\ pc = "add_region" /\ pc' = "add_region" /\ allocated' = allocated
      /\ \A m \in Classes : \A b \in Free(m) : b + ClassSize[m] <= a
  BY <1>1 DEF add_region, SafetyInv, AddingRegion
<1>3. \A m \in Classes : Free(m) \subseteq Nat /\ ClassSize[m] \in Nat \ {0}
  BY Sizes, RangeOfSeq, SMTT(30) DEF SafetyInv, TypeOK, Free
<1>4. a \notin Free(k)
  BY <1>2, <1>3
<1>5. a \in Free(k)' /\ \A m \in Classes : Free(m) \subseteq Free(m)'
  <2>1. /\ Free(k)' = Free(k) \cup {a}
        /\ \A m \in Classes \ {k} : Free(m)' = Free(m)
    BY <1>1, <1>4, PushedLists, Zenon
  <2> QED BY <2>1
<1>6. \A x : /\ InFreeChunk(x) => InFreeChunk(x)'
             /\ Within(x, a, ClassSize[k]) => InFreeChunk(x)'
             /\ InBlock(x)' <=> InBlock(x)
  BY <1>2, <1>5, Zenon DEF InFreeChunk, InBlock
<1>7. ASSUME NEW x \in HeapStart .. HeapEnd - 1, InHand(x)
      PROVE  Within(x, a, ClassSize[k]) \/ InHand(x)'
  <2>1. x \in Nat /\ a <= x
    BY <1>1, <1>2, <1>7, HeapAssumption DEF InHand, HeapEnd
  <2> QED BY <1>1, <1>2, <1>3, <2>1 DEF InHand, Within
<1> QED BY <1>6, <1>7 DEF CoverInv

(* The bytes of a chunk that split takes are in its two halves. *)
LEMMA SplitCover ==
  ASSUME SafetyInv, CoverInv, split
  PROVE  CoverInv'
<1>1. PICK hi \in Classes, low \in Classes, a \in Nat, c \in Nat \ {0} :
           /\ hi = level /\ low + 1 = hi /\ level' = low /\ class <= low
           /\ c = ClassSize[low] /\ ClassSize[hi] = 2 * c
           /\ a = Head(buddies[hi]) /\ a \in Free(hi)
           /\ a \notin Free(low) /\ a + c \notin Free(low)
           /\ buddies' \in [Classes -> Seq(Nat)]
           /\ buddies'[low] # << >> /\ Head(buddies'[low]) = a + c
           /\ Free(hi)' = Free(hi) \ {a}
           /\ Free(low)' = Free(low) \cup {a, a + c}
           /\ \A m \in Classes \ {low, hi} : Free(m)' = Free(m)
           /\ ListsDistinct'
  BY SplitChunks, Zenon
<1>2. /\ c = ClassSize[low] /\ ClassSize[hi] = 2 * c
      /\ a \in Free(low)' /\ a + c \in Free(low)'
      /\ Free(hi) = Free(hi)' \cup {a} /\ Free(low) \subseteq Free(low)'
      /\ \A m \in Classes \ {low, hi} : Free(m)' = Free(m)
  BY <1>1, SMTT(30)
<1>3. ASSUME NEW x \in Nat, InFreeChunk(x) PROVE InFreeChunk(x)'
  <2>1. PICK m \in Classes : \E b \in Free(m) : Within(x, b, ClassSize[m])
    BY <1>3 DEF InFreeChunk
  <2>2. PICK b \in Free(m) : Within(x, b, ClassSize[m])
    BY <2>1
  <2>3. CASE m = hi /\ b = a
    BY <1>2, <2>2, <2>3, WithinHalves DEF InFreeChunk
  <2>4. CASE ~(m = hi /\ b = a)
    <3>1. b \in Free(m)'
      BY <1>2, <2>2, <2>4
    <3> QED BY <2>2, <3>1 DEF InFreeChunk
  <2> QED BY <2>3, <2>4
<1>4. \A x : (InBlock(x)' <=> InBlock(x)) /\ ~InHand(x)
  BY DEF split, InBlock, InHand
<1>5. \A x \in HeapStart .. HeapEnd - 1 : x \in Nat
  BY HeapAssumption DEF HeapEnd
<1> QED BY <1>3, <1>4, <1>5 DEF CoverInv

(* The bytes of the chunk alloc returns are in the new block. *)
LEMMA AllocReturnCover ==
  ASSUME SafetyInv, CoverInv, alloc_return
  PROVE  CoverInv'
<1>1. PICK k \in Classes, a \in Nat :
           /\ k = class /\ IsSizeClass(layout, k) /\ layout \in Layouts
           /\ a \in Free(k) /\ Placed(a, k)
           /\ allocated' = allocated \cup {[start |-> a, layout |-> layout]}
           /\ buddies' \in [Classes -> Seq(Nat)]
           /\ Free(k)' = Free(k) \ {a}
           /\ \A m \in Classes \ {k} : Free(m)' = Free(m)
           /\ ListsDistinct'
  BY ReturnedChunk
<1>2. PICK new : new = [start |-> a, layout |-> layout]
  BY Zenon
<1>3. new \in allocated' /\ new.start = a /\ HasClass(new, k)
  BY <1>1, <1>2 DEF HasClass
<1>4. /\ allocated \subseteq allocated'
      /\ \A m \in Classes : \A b \in Free(m) : b \in Free(m)' \/ (m = k /\ b = a)
  BY <1>1
<1>5. \A x : /\ InBlock(x) => InBlock(x)'
             /\ InFreeChunk(x) => InFreeChunk(x)' \/ InBlock(x)'
             /\ ~InHand(x)
  BY <1>3, <1>4 DEF alloc_return, InFreeChunk, InBlock, InHand
<1> QED BY <1>5 DEF CoverInv

(* The bytes of a block given back are the chunk in hand. *)
LEMMA DeallocCover ==
  ASSUME SafetyInv, CoverInv, NEW block \in allocated, dealloc(block)
  PROVE  CoverInv'
<1>1. PICK k \in Classes : IsSizeClass(block.layout, k) /\ level' = k
  BY DEF dealloc
<1>2. \A m \in Classes : HasClass(block, m) => m = k
  BY <1>1, SizeClassUnique, SMTT(30) DEF HasClass
<1>3. \A x : InFreeChunk(x)' <=> InFreeChunk(x)
  BY DEF dealloc, InFreeChunk, Free
<1>4. \A x : InBlock(x) => InBlock(x)' \/ InHand(x)'
  BY <1>1, <1>2 DEF dealloc, InBlock, InHand
<1>5. \A x : ~InHand(x)
  BY DEF dealloc, InHand
<1> QED BY <1>3, <1>4, <1>5 DEF CoverInv

(* Merging takes the bytes of the buddy in hand. *)
LEMMA MergeCover ==
  ASSUME SafetyInv, CoverInv, merge
  PROVE  CoverInv'
<1>1. PICK k \in Classes, a \in Nat, b \in Nat :
           /\ k = level /\ a = region /\ b = BuddyOf(a, k)
           /\ level' = k + 1 /\ region' = IF b < a THEN b ELSE a
           /\ b \in Free(k)
           /\ buddies' \in [Classes -> Seq(Nat)]
           /\ Free(k)' = Free(k) \ {b}
           /\ \A m \in Classes \ {k} : Free(m)' = Free(m)
           /\ ListsDistinct'
  BY MergedChunk
<1>2. PICK m \in Nat :
        /\ m = IF b < a THEN b ELSE a
        /\ Placed(m, k + 1)
        /\ (a = m /\ b = m + ClassSize[k]) \/ (b = m /\ a = m + ClassSize[k])
  <2>1. Placed(b, k) /\ Placed(a, k)
    BY <1>1 DEF SafetyInv, ChunksPlaced, Merging, merge
  <2> QED BY <1>1, <2>1, BuddiesAreHalves
<1>3. PICK c \in Nat \ {0} : c = ClassSize[k] /\ ClassSize[k + 1] = 2 * c
  BY Sizes
<1>4. pc = "merge" /\ pc' = "merge" /\ allocated' = allocated
  BY DEF merge
<1>5. region' = m /\ ClassSize[level'] = 2 * c /\ region = a /\ ClassSize[level] = c
  BY <1>1, <1>2, <1>3
<1>6. \A x \in Nat : Within(x, a, c) \/ Within(x, b, c) => InHand(x)'
  BY <1>2, <1>3, <1>4, <1>5, WithinHalves, SMTT(30) DEF InHand
<1>7. \A x \in Nat : InHand(x) => InHand(x)'
  BY <1>4, <1>5, <1>6 DEF InHand
<1>8. \A n \in Classes : \A y \in Free(n) : y \in Free(n)' \/ (n = k /\ y = b)
  BY <1>1
<1>9. \A x \in Nat : InFreeChunk(x) => InFreeChunk(x)' \/ InHand(x)'
  BY <1>3, <1>6, <1>8 DEF InFreeChunk
<1>10. \A x : InBlock(x)' <=> InBlock(x)
  BY <1>4 DEF InBlock
<1>11. \A x \in HeapStart .. HeapEnd - 1 : x \in Nat
  BY HeapAssumption DEF HeapEnd
<1> QED BY <1>7, <1>9, <1>10, <1>11 DEF CoverInv

(* The bytes in hand are in the chunk merge_done pushes. *)
LEMMA MergeDoneCover ==
  ASSUME SafetyInv, CoverInv, merge_done
  PROVE  CoverInv'
<1>1. PICK k \in Classes, a \in Nat : k = level /\ a = region
  BY OrderAssumption DEF merge_done, SafetyInv, TypeOK, Classes
<1>2. ApartFromFree(a, ClassSize[k]) /\ allocated' = allocated /\ pc = "merge"
  BY <1>1 DEF merge_done, SafetyInv, Merging
<1>3. \A m \in Classes : Free(m) \subseteq Nat /\ ClassSize[m] \in Nat \ {0}
  BY Sizes, RangeOfSeq DEF SafetyInv, TypeOK, Free
<1>4. a \notin Free(k)
  BY <1>2, <1>3 DEF ApartFromFree, Apart
<1>5. a \in Free(k)' /\ \A m \in Classes : Free(m) \subseteq Free(m)'
  <2>1. buddies' = [buddies EXCEPT ![k] = push_front(@, a)]
    BY <1>1 DEF merge_done
  <2>2. /\ Free(k)' = Free(k) \cup {a}
        /\ \A m \in Classes \ {k} : Free(m)' = Free(m)
    BY <1>4, <2>1, PushedLists, Zenon
  <2> QED BY <2>2
<1>6. \A x : /\ InFreeChunk(x) => InFreeChunk(x)'
             /\ Within(x, a, ClassSize[k]) => InFreeChunk(x)'
             /\ InBlock(x)' <=> InBlock(x)
  BY <1>2, <1>5, Zenon DEF InFreeChunk, InBlock
<1>7. \A x : InHand(x) => Within(x, a, ClassSize[k])
  BY <1>1, <1>2 DEF InHand
<1> QED BY <1>6, <1>7 DEF CoverInv

(* Every byte of a heap smaller than ClassSize[MAX_ORDER] is at all times  *)
(* in a free chunk, in a block, or in the hands of a running loop.         *)
LEMMA BytesTracked == HeapSize < ClassSize[MAX_ORDER] /\ Spec => []CoverInv
<1> SUFFICES ASSUME HeapSize < ClassSize[MAX_ORDER] PROVE Spec => []CoverInv
  OBVIOUS
<1>1. SafetyInv /\ CoverInv /\ [Next]_vars => CoverInv'
  <2> SUFFICES ASSUME SafetyInv, CoverInv, [Next]_vars PROVE CoverInv'
    OBVIOUS
  <2>1. CASE add_region
    BY <2>1, AddRegionCover
  <2>2. CASE split
    BY <2>2, SplitCover
  <2>3. CASE alloc_return
    BY <2>3, AllocReturnCover
  <2>4. ASSUME NEW block \in allocated, dealloc(block) PROVE CoverInv'
    BY <2>4, DeallocCover
  <2>5. CASE merge
    BY <2>5, MergeCover
  <2>6. CASE merge_done
    BY <2>6, MergeDoneCover
  <2>7. CASE \/ init_done \/ merge_past_end \/ panic \/ UNCHANGED vars
             \/ \E l \in Layouts : alloc(l) \/ alloc_none(l) \/ alloc_too_large(l)
    BY <2>7, QuietStepsCover
  <2> QED BY <2>1, <2>2, <2>3, <2>4, <2>5, <2>6, <2>7 DEF Next
<1> QED BY <1>1, InitCover, Safety, PTL DEF Spec

(* In a heap smaller than ClassSize[MAX_ORDER], which the kernel's is, no  *)
(* sequence of alloc and dealloc calls loses a byte.                       *)
THEOREM NoByteLost == HeapSize < ClassSize[MAX_ORDER] /\ Spec => []NothingLost
<1>1. CoverInv => NothingLost
  BY DEF CoverInv, NothingLost, InHand
<1> QED BY <1>1, BytesTracked, PTL

-----------------------------------------------------------------------------
(* Sizes and alignment. *)

(* An aligned range that meets another one, which consists of such ranges, *)
(* lies in it.                                                             *)
LEMMA NestedRange ==
  ASSUME NEW a \in Nat, NEW n \in Nat, NEW m \in Nat, NEW d \in Nat \ {0}, NEW x \in Nat,
         a % d = 0, n % d = 0, m % d = 0, Within(x, a, n), Within(x, m, d)
  PROVE  a <= m /\ m + d <= a + n
<1>1. a <= x /\ x < a + n /\ m <= x /\ x < m + d
  BY DEF Within
<1>2. a <= m
  <2> SUFFICES ASSUME m < a PROVE FALSE
    OBVIOUS
  <2>1. m = a
    BY <1>1, SameMultiple
  <2> QED BY <2>1
<1>3. m + d <= a + n
  <2> SUFFICES ASSUME a + n < m + d PROVE FALSE
    OBVIOUS
  <2>1. PICK e \in Nat : e = a + n /\ e % d = 0
    BY SumMultiple
  <2>2. m <= e /\ e < m + d
    BY <1>1, <2>1
  <2>3. m = e
    BY <2>1, <2>2, SameMultiple, Zenon
  <2> QED BY <1>1, <2>1, <2>3
<1> QED BY <1>2, <1>3

(* Division undoes multiplication. *)
LEMMA QuotientOfMultiple ==
  ASSUME NEW q \in Nat, NEW c \in Nat \ {0}
  PROVE  (q * c) \div c = q
<1>1. PICK p \in Nat : p = (q * c) \div c /\ q * c = p * c
  BY Multiple, Quotient
<1>2. (p - q) * c = 0
  BY <1>1
<1> QED BY <1>1, <1>2

(* The buddy of a chunk's buddy is the chunk. *)
LEMMA BuddyOfBuddy ==
  ASSUME NEW k \in Classes, NEW a \in Nat, a % ClassSize[k] = 0
  PROVE  /\ BuddyOf(a, k) \in Nat
         /\ BuddyOf(a, k) # a
         /\ BuddyOf(a, k) % ClassSize[k] = 0
         /\ BuddyOf(BuddyOf(a, k), k) = a
<1>1. PICK c \in Nat \ {0} : c = ClassSize[k]
  BY Sizes
<1>2. PICK q \in Nat : q = a \div c /\ a = q * c
  BY <1>1, Quotient, Zenon
<1>3. CASE q % 2 = 0
  <2>1. PICK r \in Nat, e \in Nat : r = q + 1 /\ e = a + c /\ e = r * c
    BY <1>2
  <2>2. BuddyOf(a, k) = e
    BY <1>1, <1>2, <1>3, <2>1 DEF BuddyOf
  <2>3. e % c = 0 /\ e \div c = r
    <3>1. (r * c) % c = 0
      BY Multiple
    <3>2. (r * c) \div c = r
      BY QuotientOfMultiple
    <3> QED BY <2>1, <3>1, <3>2
  <2>4. r % 2 # 0
    BY <1>3, <2>1
  <2>5. BuddyOf(e, k) = e - c
    BY <1>1, <2>3, <2>4, Zenon DEF BuddyOf
  <2>6. e - c = a /\ e # a
    BY <2>1
  <2> QED BY <1>1, <2>2, <2>3, <2>5, <2>6
<1>4. CASE q % 2 # 0
  <2>1. BuddyOf(a, k) = a - c
    BY <1>1, <1>2, <1>4 DEF BuddyOf
  <2>2. PICK p \in Nat : q = p + 1
    <3>1. q - 1 \in Nat /\ q = (q - 1) + 1
      BY <1>4
    <3> QED BY <3>1
  <2>3. a - c = p * c /\ p * c \in Nat
    BY <1>2, <2>2
  <2>4. (a - c) % c = 0 /\ (a - c) \div c = p
    BY <2>3, Multiple, QuotientOfMultiple
  <2>5. p % 2 = 0
    BY <1>4, <2>2
  <2>6. BuddyOf(a - c, k) = a - c + c
    BY <1>1, <2>4, <2>5 DEF BuddyOf
  <2>7. a - c + c = a /\ a - c # a
    OBVIOUS
  <2> QED BY <1>1, <2>1, <2>3, <2>4, <2>6, <2>7
<1> QED BY <1>3, <1>4

-----------------------------------------------------------------------------
(* Merging. *)

(* A smaller set of chunks has no more pairs. *)
LEMMA FewerPairs ==
  ASSUME NEW S, NEW T, S \subseteq T, NEW k, Unpaired(T, k)
  PROVE  Unpaired(S, k)
BY DEF Unpaired

(* A chunk whose buddy is not free makes no pair. *)
LEMMA NoNewPair ==
  ASSUME NEW k \in Classes, NEW S, Unpaired(S, k), NEW a \in Nat, a % ClassSize[k] = 0,
         \A b \in S : b \in Nat /\ b % ClassSize[k] = 0, BuddyOf(a, k) \notin S
  PROVE  Unpaired(S \cup {a}, k)
<1>1. BuddyOf(a, k) # a
  BY BuddyOfBuddy
<1>2. \A b \in S : BuddyOf(BuddyOf(b, k), k) = b
  BY BuddyOfBuddy
<1> QED BY <1>1, <1>2 DEF Unpaired

(* The classes below the largest one. *)
LEMMA MergingClasses ==
  \A k \in 0 .. MAX_ORDER - 2 : k \in Classes /\ k + 1 \in Classes /\ k + 1 <= MAX_ORDER - 1
BY OrderAssumption DEF Classes

(* Free chunks are aligned. *)
LEMMA FreeAligned ==
  ASSUME SafetyInv
  PROVE  \A k \in Classes : \A a \in Free(k) : a \in Nat /\ a % ClassSize[k] = 0 /\ Placed(a, k)
BY RangeOfSeq DEF SafetyInv, TypeOK, Free, ChunksPlaced, Placed

(* The chunk add_region makes is the largest that fits, so the lower half  *)
(* of a pair is never made before the upper one.                           *)
LEMMA AddRegionCoalesced ==
  ASSUME HeapStart > 0, SafetyInv, CoalescedInv, add_region
  PROVE  CoalescedInv'
<1>1. PICK k \in Classes, a \in Nat :
        /\ a = region /\ IsChunkClass(a, k)
        /\ buddies' = [buddies EXCEPT ![k] = push_front(@, a)]
  BY Zenon DEF add_region, SafetyInv, TypeOK
<1>2. /\ pc = "add_region" /\ pc' = "add_region" /\ a # 0
      /\ \A m \in Classes : \A b \in Free(m) : b + ClassSize[m] <= a
  BY <1>1, HeapAssumption DEF add_region, SafetyInv, AddingRegion
<1>3. PICK c \in Nat \ {0} : c = ClassSize[k] /\ ClassSize[k + 1] = 2 * c
  BY Sizes
<1>4. HeapEnd \in Nat /\ a % c = 0 /\ a + c <= HeapEnd
  BY <1>1, <1>3, HeapAssumption DEF HeapEnd, IsChunkClass, ChunkFits
<1>5. a \notin Free(k)
  BY <1>2, <1>3, FreeAligned
<1>6. Free(k)' = Free(k) \cup {a} /\ \A m \in Classes \ {k} : Free(m)' = Free(m)
  BY <1>1, <1>5, PushedLists, Zenon
<1>7. ASSUME k \in 0 .. MAX_ORDER - 2 PROVE BuddyOf(a, k) \notin Free(k)
  <2> SUFFICES ASSUME BuddyOf(a, k) \in Free(k) PROVE FALSE
    OBVIOUS
  <2>1. PICK b \in Nat : b = BuddyOf(a, k) /\ b \in Free(k) /\ b + c <= a
    BY <1>2, <1>3, FreeAligned
  <2>2. b = a - c /\ (a \div c) % 2 # 0
    BY <1>3, <2>1 DEF BuddyOf
  <2>3. b % (2 * c) = 0
    BY <1>4, <2>2, MergedAligned, Zenon
  <2>4. HeapEnd < b + 2 * c
    BY <1>2, <1>3, <1>7, <2>1, <2>3 DEF CoalescedInv, AddsLargest
  <2> QED BY <1>4, <2>2, <2>4
<1>8. PairedOnlyInSplit'
  <2> SUFFICES ASSUME NEW m \in 0 .. MAX_ORDER - 2 PROVE Unpaired(Free(m)', m)
    BY <1>2 DEF PairedOnlyInSplit, Unpaired
  <2>1. m \in Classes /\ Unpaired(Free(m), m)
    BY <1>2, MergingClasses DEF CoalescedInv, PairedOnlyInSplit
  <2>2. CASE m = k
    BY <1>3, <1>4, <1>6, <1>7, <2>1, <2>2, FreeAligned, NoNewPair
  <2> QED BY <1>6, <2>1, <2>2
<1>9. AddsLargest'
  <2> SUFFICES ASSUME NEW m \in 0 .. MAX_ORDER - 2, NEW b \in Free(m)', b % ClassSize[m + 1] = 0
               PROVE  HeapEnd < b + ClassSize[m + 1]
    BY DEF AddsLargest
  <2>1. CASE m = k /\ b = a
    <3>1. k + 1 \in k + 1 .. MAX_ORDER - 1
      BY <2>1, MergingClasses DEF Classes
    <3>2. ~ChunkFits(a, k + 1)
      BY <1>1, <3>1 DEF IsChunkClass
    <3> QED BY <1>2, <1>3, <1>4, <2>1, <3>2 DEF ChunkFits
  <2>2. CASE ~(m = k /\ b = a)
    <3>1. b \in Free(m)
      BY <1>6, <2>2, MergingClasses
    <3> QED BY <1>2, <3>1 DEF CoalescedInv, AddsLargest
  <2> QED BY <2>1, <2>2
<1> QED BY <1>2, <1>8, <1>9 DEF CoalescedInv, SplitsIntoEmpty, NoneLeft

(* Splitting fills an empty list with the two halves of one chunk. *)
LEMMA SplitCoalesced ==
  ASSUME SafetyInv, CoalescedInv, split
  PROVE  CoalescedInv'
<1>1. PICK hi \in Classes, low \in Classes, a \in Nat, c \in Nat \ {0} :
           /\ hi = level /\ low + 1 = hi /\ level' = low /\ class <= low
           /\ c = ClassSize[low] /\ ClassSize[hi] = 2 * c
           /\ a = Head(buddies[hi]) /\ a \in Free(hi)
           /\ a \notin Free(low) /\ a + c \notin Free(low)
           /\ buddies' \in [Classes -> Seq(Nat)]
           /\ buddies'[low] # << >> /\ Head(buddies'[low]) = a + c
           /\ Free(hi)' = Free(hi) \ {a}
           /\ Free(low)' = Free(low) \cup {a, a + c}
           /\ \A m \in Classes \ {low, hi} : Free(m)' = Free(m)
           /\ ListsDistinct'
  BY SplitChunks, Zenon
<1>2. /\ pc = "split" /\ pc' = "split" /\ class' = class /\ class \in Classes
  BY DEF split, SafetyInv, TypeOK
<1>3. low \in class .. hi - 1 /\ Free(low) = {}
  BY <1>1, <1>2 DEF CoalescedInv, SplitsIntoEmpty, Classes
<1>4. PairedOnlyInSplit'
  <2> SUFFICES ASSUME NEW m \in 0 .. MAX_ORDER - 2
               PROVE Unpaired(IF m = low THEN Free(m)' \ {Head(buddies'[m])} ELSE Free(m)', m)
    BY <1>1, <1>2 DEF PairedOnlyInSplit, Unpaired
  <2>1. /\ m \in Classes
        /\ Unpaired(IF m = hi THEN Free(m) \ {Head(buddies[m])} ELSE Free(m), m)
    BY <1>1, <1>2, MergingClasses, Zenon DEF CoalescedInv, PairedOnlyInSplit
  <2>2. CASE m = low
    <3>1. Free(m)' \ {Head(buddies'[m])} = {a}
      <4>1. a + c # a
        OBVIOUS
      <4>2. Free(m)' = {a, a + c} /\ Head(buddies'[m]) = a + c
        BY <1>1, <1>3, <2>2
      <4> QED BY <4>1, <4>2
    <3>2. a % c = 0
      <4>1. a % (2 * c) = 0
        BY <1>1, FreeAligned, SMTT(30)
      <4> QED BY <4>1, HalvesAligned, Zenon
    <3>3. BuddyOf(a, m) # a
      BY <1>1, <2>2, <3>2, BuddyOfBuddy
    <3> QED BY <2>2, <3>1, <3>3 DEF Unpaired
  <2>3. CASE m = hi
    BY <1>1, <2>1, <2>3, Zenon
  <2>4. CASE m # low /\ m # hi
    BY <1>1, <2>1, <2>4
  <2> QED BY <2>2, <2>3, <2>4
<1>5. SplitsIntoEmpty'
  <2> SUFFICES ASSUME NEW m \in class .. low - 1 PROVE Free(m)' = {}
    BY <1>1, <1>2 DEF SplitsIntoEmpty
  <2>1. m \in Classes \ {low, hi} /\ m \in class .. level - 1
    <3>1. /\ class \in Nat /\ low \in Nat /\ MAX_ORDER \in Nat
          /\ level = low + 1 /\ hi = low + 1 /\ low <= MAX_ORDER - 1
      BY <1>1, <1>2, OrderAssumption DEF Classes
    <3> QED BY <3>1 DEF Classes
  <2> QED BY <1>1, <1>2, <2>1 DEF CoalescedInv, SplitsIntoEmpty
<1> QED BY <1>2, <1>4, <1>5 DEF CoalescedInv, AddsLargest, NoneLeft
(* Taking a chunk off a list makes no pair; alloc_return takes the one     *)
(* that split may have paired.                                             *)
LEMMA AllocReturnCoalesced ==
  ASSUME SafetyInv, CoalescedInv, alloc_return
  PROVE  CoalescedInv'
<1>1. PICK k \in Classes, a \in Nat :
           /\ k = class /\ IsSizeClass(layout, k) /\ layout \in Layouts
           /\ a = Head(buddies[k]) /\ a \in Free(k) /\ Placed(a, k)
           /\ allocated' = allocated \cup {[start |-> a, layout |-> layout]}
           /\ buddies' \in [Classes -> Seq(Nat)]
           /\ Free(k)' = Free(k) \ {a}
           /\ \A m \in Classes \ {k} : Free(m)' = Free(m)
           /\ ListsDistinct'
  BY ReturnedChunk
<1>2. pc = "split" /\ pc' = "idle" /\ level = class
  BY DEF alloc_return
<1>3. ASSUME NEW m \in 0 .. MAX_ORDER - 2 PROVE Unpaired(Free(m)', m)
  <2>1. /\ m \in Classes
        /\ Unpaired(IF m = k THEN Free(m) \ {Head(buddies[m])} ELSE Free(m), m)
    BY <1>1, <1>2, MergingClasses, Zenon DEF CoalescedInv, PairedOnlyInSplit
  <2> QED BY <1>1, <2>1, Zenon
<1> QED
  BY <1>2, <1>3 DEF CoalescedInv, PairedOnlyInSplit, Unpaired, SplitsIntoEmpty, AddsLargest, NoneLeft

(* Nor does taking the buddy off its list to merge it. *)
LEMMA MergeCoalesced ==
  ASSUME SafetyInv, CoalescedInv, merge
  PROVE  CoalescedInv'
<1>1. PICK k \in Classes, a \in Nat, b \in Nat :
           /\ k = level /\ a = region /\ b = BuddyOf(a, k)
           /\ level' = k + 1 /\ region' = IF b < a THEN b ELSE a
           /\ b \in Free(k)
           /\ buddies' \in [Classes -> Seq(Nat)]
           /\ Free(k)' = Free(k) \ {b}
           /\ \A m \in Classes \ {k} : Free(m)' = Free(m)
           /\ ListsDistinct'
  BY MergedChunk
<1>2. pc = "merge" /\ pc' = "merge"
  BY DEF merge
<1>3. ASSUME NEW m \in 0 .. MAX_ORDER - 2 PROVE Unpaired(Free(m)', m)
  <2>1. m \in Classes /\ Unpaired(Free(m), m)
    BY <1>2, MergingClasses DEF CoalescedInv, PairedOnlyInSplit
  <2>2. Free(m)' \subseteq Free(m)
    BY <1>1, <2>1, SMTT(30)
  <2> QED BY <2>1, <2>2, FewerPairs
<1> QED
  BY <1>2, <1>3 DEF CoalescedInv, PairedOnlyInSplit, Unpaired, SplitsIntoEmpty, AddsLargest, NoneLeft

(* dealloc pushes a chunk only when its buddy is not on the list. *)
LEMMA MergeDoneCoalesced ==
  ASSUME SafetyInv, CoalescedInv, merge_done
  PROVE  CoalescedInv'
<1>1. PICK k \in Classes, a \in Nat : k = level /\ a = region
  BY OrderAssumption DEF merge_done, SafetyInv, TypeOK, Classes
<1>2. /\ pc = "merge" /\ pc' = "idle"
      /\ Placed(a, k) /\ ApartFromFree(a, ClassSize[k])
      /\ buddies' = [buddies EXCEPT ![k] = push_front(@, a)]
      /\ \A i \in 1 .. Len(buddies[k]) : buddies[k][i] # BuddyOf(a, k)
  BY <1>1 DEF merge_done, SafetyInv, Merging
<1>3. BuddyOf(a, k) \notin Free(k)
  <2>1. buddies[k] \in Seq(Nat)
    BY DEF SafetyInv, TypeOK
  <2>2. Free(k) = {buddies[k][i] : i \in 1 .. Len(buddies[k])}
    BY <2>1, RangeEquality DEF Free
  <2> QED BY <1>2, <2>2
<1>4. a \notin Free(k)
  BY <1>2, Sizes, FreeAligned DEF ApartFromFree, Apart
<1>5. Free(k)' = Free(k) \cup {a} /\ \A m \in Classes \ {k} : Free(m)' = Free(m)
  BY <1>2, <1>4, PushedLists, Zenon
<1>6. ASSUME NEW m \in 0 .. MAX_ORDER - 2 PROVE Unpaired(Free(m)', m)
  <2>1. m \in Classes /\ Unpaired(Free(m), m)
    BY <1>2, MergingClasses DEF CoalescedInv, PairedOnlyInSplit
  <2>2. CASE m = k
    <3>1. a % ClassSize[k] = 0
      BY <1>2 DEF Placed
    <3>2. Unpaired(Free(k) \cup {a}, k)
      BY <1>3, <2>1, <2>2, <3>1, FreeAligned, NoNewPair
    <3> QED BY <1>5, <2>2, <3>2
  <2> QED BY <1>5, <2>1, <2>2
<1> QED
  BY <1>2, <1>6 DEF CoalescedInv, PairedOnlyInSplit, Unpaired, SplitsIntoEmpty, AddsLargest, NoneLeft

(* The actions that leave the lists alone: alloc starts to split at the    *)
(* first list that is not empty, and gives up when none is left.           *)
LEMMA QuietStepsCoalesced ==
  ASSUME SafetyInv, CoalescedInv,
         \/ init_done \/ merge_past_end \/ panic \/ UNCHANGED vars
         \/ \E l \in Layouts : alloc(l) \/ alloc_none(l) \/ alloc_too_large(l)
         \/ \E block \in allocated : dealloc(block)
  PROVE  CoalescedInv'
<1>1. buddies' = buddies /\ \A m : Free(m)' = Free(m)
  BY DEF init_done, merge_past_end, panic, vars, alloc, alloc_none, alloc_too_large, dealloc, Free
<1>2. \A m \in Classes : buddies[m] = << >> => Free(m) = {}
  BY DEF Free, Range
<1>3. CASE panic \/ UNCHANGED vars
  <2>1. UNCHANGED vars
    BY <1>3 DEF panic
  <2> QED
    BY <1>1, <2>1, Zenon
    DEF vars, CoalescedInv, PairedOnlyInSplit, SplitsIntoEmpty, AddsLargest, NoneLeft
<1>4. ASSUME pc # "split", pc' # "add_region" PROVE PairedOnlyInSplit' /\ AddsLargest'
  <2>1. \A m \in 0 .. MAX_ORDER - 2 : Unpaired(Free(m), m)
    BY <1>4 DEF CoalescedInv, PairedOnlyInSplit
  <2>2. \A m \in 0 .. MAX_ORDER - 2 : Unpaired(Free(m) \ {Head(buddies[m])}, m)
    BY <2>1, FewerPairs
  <2> QED BY <1>1, <1>4, <2>1, <2>2 DEF PairedOnlyInSplit, AddsLargest
<1>5. CASE init_done \/ merge_past_end \/ \E block \in allocated : dealloc(block)
  <2>1. pc # "split" /\ pc' \in {"idle", "merge"}
    BY <1>5 DEF init_done, merge_past_end, dealloc
  <2> QED BY <1>4, <2>1 DEF CoalescedInv, SplitsIntoEmpty, NoneLeft
<1>6. ASSUME NEW l \in Layouts, alloc(l) PROVE CoalescedInv'
  <2>1. PICK k \in Classes, i \in Classes :
          class' = k /\ level' = i /\ \A m \in k .. i - 1 : buddies[m] = << >>
    BY <1>6, OrderAssumption DEF alloc, Classes
  <2>2. pc # "split" /\ pc' = "split"
    BY <1>6 DEF alloc
  <2>3. \A m \in k .. i - 1 : m \in Classes
    BY OrderAssumption DEF Classes
  <2>4. SplitsIntoEmpty'
    BY <1>1, <1>2, <2>1, <2>3 DEF SplitsIntoEmpty
  <2> QED BY <1>4, <2>2, <2>4 DEF CoalescedInv, NoneLeft
<1>7. ASSUME NEW l \in Layouts, alloc_none(l) \/ alloc_too_large(l) PROVE CoalescedInv'
  <2>1. /\ pc # "split" /\ pc' \in PanicStates
        /\ pc' = "out_of_memory" =>
             class' \in Classes /\ \A m \in class' .. MAX_ORDER - 1 : buddies[m] = << >>
    BY <1>7 DEF alloc_none, alloc_too_large, PanicStates
  <2>2. class' \in Classes => \A m \in class' .. MAX_ORDER - 1 : m \in Classes
    BY OrderAssumption DEF Classes
  <2>3. NoneLeft'
    BY <1>1, <1>2, <2>1, <2>2 DEF NoneLeft
  <2> QED BY <1>4, <2>1, <2>3, SMTT(30) DEF CoalescedInv, SplitsIntoEmpty, PanicStates
<1> QED BY <1>3, <1>5, <1>6, <1>7, SMTT(30)

(* The chunks the running loops leave on the lists. *)
LEMMA ListsCoalesced == HeapStart > 0 /\ Spec => []CoalescedInv
<1> SUFFICES ASSUME HeapStart > 0 PROVE Spec => []CoalescedInv
  OBVIOUS
<1>1. Init => CoalescedInv
  <2> SUFFICES ASSUME Init PROVE CoalescedInv
    OBVIOUS
  <2>1. \A k \in Classes : Free(k) = {}
    BY DEF Init, Free, Range
  <2>2. \A k \in 0 .. MAX_ORDER - 2 : Free(k) = {}
    BY <2>1, MergingClasses
  <2> QED
    BY <2>2
    DEF Init, CoalescedInv, PairedOnlyInSplit, Unpaired, SplitsIntoEmpty, AddsLargest, NoneLeft
<1>2. SafetyInv /\ CoalescedInv /\ [Next]_vars => CoalescedInv'
  BY AddRegionCoalesced, SplitCoalesced, AllocReturnCoalesced, MergeCoalesced,
     MergeDoneCoalesced, QuietStepsCoalesced DEF Next
<1> QED BY <1>1, <1>2, Safety, PTL DEF Spec

(* Between calls no free chunk below the largest class has a free buddy,   *)
(* whatever the calls were: dealloc has merged all that can be merged.     *)
THEOREM AllMerged == HeapStart > 0 /\ Spec => []Coalesced
<1>1. CoalescedInv => Coalesced
  BY DEF CoalescedInv, PairedOnlyInSplit, Unpaired, Coalesced
<1> QED BY <1>1, ListsCoalesced, PTL

-----------------------------------------------------------------------------
(* Fragmentation. *)

(* A chunk and its buddy are the two halves of an aligned range. *)
LEMMA PairOfChunk ==
  ASSUME NEW a \in Nat, NEW k \in Classes, a % ClassSize[k] = 0
  PROVE  \E m \in Nat, b \in Nat :
           /\ b = BuddyOf(a, k) /\ b % ClassSize[k] = 0 /\ m % ClassSize[k + 1] = 0
           /\ (a = m /\ b = m + ClassSize[k]) \/ (b = m /\ a = m + ClassSize[k])
<1>1. PICK c \in Nat \ {0} : c = ClassSize[k] /\ ClassSize[k + 1] = 2 * c
  BY Sizes
<1>2. PICK b \in Nat : b = BuddyOf(a, k) /\ b % c = 0
  BY <1>1, BuddyOfBuddy
<1>3. CASE (a \div c) % 2 = 0
  <2>1. a % (2 * c) = 0 /\ b = a + c
    BY <1>1, <1>2, <1>3, MergedAligned DEF BuddyOf
  <2> QED BY <1>1, <1>2, <2>1
<1>4. CASE (a \div c) % 2 # 0
  <2>1. b = a - c /\ (a - c) % (2 * c) = 0
    BY <1>1, <1>2, <1>4, MergedAligned DEF BuddyOf
  <2>2. b % (2 * c) = 0 /\ a = b + c
    BY <2>1
  <2> QED BY <1>1, <1>2, <2>2
<1> QED BY <1>3, <1>4

(* A range that is aligned to the size of a class is aligned to the sizes  *)
(* of the smaller ones.                                                    *)
LEMMA AlignedToSmaller ==
  ASSUME NEW a \in Nat, NEW k \in 0 .. MAX_ORDER, NEW n \in 0 .. MAX_ORDER, k <= n,
         a % ClassSize[n] = 0
  PROVE  a % ClassSize[k] = 0
<1>1. ClassSize[n] % ClassSize[k] = 0
  BY SizesDivide
<1>2. ClassSize[n] \in Nat \ {0} /\ ClassSize[k] \in Nat \ {0}
  BY Sizes
<1> QED BY <1>1, <1>2, AlignedTo

(* Free chunks of smaller classes cannot fill an aligned range: the buddy  *)
(* of the smallest one would lie in the range, in a free chunk, and that   *)
(* chunk would be the buddy, or overlap the pair.                          *)
LEMMA FreeRangeIsFree ==
  ASSUME SafetyInv, CoalescedInv, pc # "split",
         NEW n \in Classes, NEW a \in Nat, a % ClassSize[n] = 0,
         \A k \in Classes : k >= n => Free(k) = {}
  PROVE  \E x \in Nat : Within(x, a, ClassSize[n]) /\ ~InFreeChunk(x)
<1> SUFFICES ASSUME \A x \in Nat : Within(x, a, ClassSize[n]) => InFreeChunk(x) PROVE FALSE
  OBVIOUS
<1>1. PICK s \in Nat \ {0} : s = ClassSize[n]
  BY Sizes
<1>2. \A k \in Classes : k \in Nat /\ k \in 0 .. MAX_ORDER /\ ClassSize[k] \in Nat \ {0}
  BY Sizes
<1>3. ASSUME NEW k \in Classes, NEW y \in Free(k)
      PROVE  k + 1 <= n /\ k + 1 \in 0 .. MAX_ORDER /\ y \in Nat /\ y % ClassSize[k] = 0
  BY <1>2, <1>3, Sizes, FreeAligned
<1>4. ASSUME NEW x \in Nat, Within(x, a, s)
      PROVE  \E k \in Classes, y \in Nat :
               y \in Free(k) /\ Within(x, y, ClassSize[k]) /\ a <= y /\ y < a + s
  <2>0. PICK k \in Classes : \E y \in Free(k) : Within(x, y, ClassSize[k])
    BY <1>1, <1>4 DEF InFreeChunk
  <2>1. PICK y : y \in Free(k) /\ Within(x, y, ClassSize[k])
    BY <2>0
  <2>2. PICK c \in Nat \ {0} : c = ClassSize[k]
    BY <1>2
  <2>3. y \in Nat /\ y % c = 0 /\ k <= n
    BY <1>2, <1>3, <2>1, <2>2
  <2>4. a % c = 0 /\ s % c = 0
    BY <1>1, <1>2, <2>2, <2>3, AlignedToSmaller, SizesDivide, SMTT(30)
  <2>5. a <= y /\ y + c <= a + s
    BY <1>4, <2>1, <2>2, <2>3, <2>4, NestedRange, SMTT(30)
  <2> QED BY <2>1, <2>3, <2>5
<1> DEFINE T == {k \in Nat : k \in Classes /\ \E y \in Free(k) : a <= y /\ y < a + s}
<1>5. T # {}
  <2>1. Within(a, a, s)
    BY <1>1 DEF Within
  <2> QED BY <1>2, <1>4, <2>1
<1>6. PICK k \in T : \A j \in T : k <= j
  <2>1. T \subseteq Nat
    OBVIOUS
  <2> HIDE DEF T
  <2> QED BY <1>5, <2>1, LeastNumber, Zenon
<1> HIDE DEF T
<1>7. PICK y : k \in Classes /\ y \in Free(k) /\ a <= y /\ y < a + s
  BY DEF T
<1>8. PICK c \in Nat \ {0} : c = ClassSize[k] /\ ClassSize[k + 1] = 2 * c
  BY <1>7, Sizes
<1>9. k + 1 <= n /\ k + 1 \in 0 .. MAX_ORDER /\ y \in Nat /\ y % c = 0
  BY <1>3, <1>7, <1>8
<1>10. PICK m \in Nat, b \in Nat :
         /\ b = BuddyOf(y, k) /\ b % c = 0 /\ m % ClassSize[k + 1] = 0
         /\ (y = m /\ b = m + c) \/ (b = m /\ y = m + c)
  BY <1>7, <1>8, <1>9, PairOfChunk
<1>11. PICK d \in Nat \ {0} :
         d = 2 * c /\ d = ClassSize[k + 1] /\ a % d = 0 /\ s % d = 0 /\ m % d = 0
  BY <1>1, <1>2, <1>8, <1>9, <1>10, AlignedToSmaller, SizesDivide
<1>12. Within(b, a, s)
  <2>1. Within(y, a, s) /\ Within(y, m, d)
    BY <1>7, <1>9, <1>10, <1>11 DEF Within
  <2>2. a <= m /\ m + d <= a + s
    BY <1>1, <1>9, <1>11, <2>1, NestedRange
  <2> QED BY <1>1, <1>10, <1>11, <2>2 DEF Within
<1>13. PICK j \in Classes, z \in Nat :
         z \in Free(j) /\ Within(b, z, ClassSize[j]) /\ a <= z /\ z < a + s
  BY <1>4, <1>12
<1>14. PICK e \in Nat \ {0} : e = ClassSize[j] /\ z % e = 0 /\ j \in Nat /\ k <= j
  <2>1. j \in T
    BY <1>2, <1>13 DEF T
  <2> QED BY <1>2, <1>3, <1>6, <1>13, <2>1
<1>15. CASE j = k
  <2>1. z = b
    BY <1>8, <1>10, <1>13, <1>14, <1>15, SameMultiple DEF Within
  <2>2. k \in 0 .. MAX_ORDER - 2
    BY <1>7, <1>9, OrderAssumption DEF Classes
  <2>3. BuddyOf(y, k) \notin Free(k)
    BY <1>7, <2>2 DEF CoalescedInv, PairedOnlyInSplit, Unpaired
  <2> QED BY <1>10, <1>13, <1>15, <2>1, <2>3
<1>16. CASE j # k
  <2>1. k + 1 <= j /\ j \in 0 .. MAX_ORDER
    BY <1>2, <1>7, <1>14, <1>16
  <2>2. z % d = 0 /\ e % d = 0
    BY <1>9, <1>11, <1>14, <2>1, AlignedToSmaller, SizesDivide, SMTT(30)
  <2>3. Within(b, z, e) /\ Within(b, m, d)
    BY <1>10, <1>11, <1>13, <1>14 DEF Within
  <2>4. z <= m /\ m + d <= z + e
    BY <1>10, <1>11, <2>2, <2>3, NestedRange, SMTT(30)
  <2>5. Apart(y, c, z, e)
    BY <1>7, <1>8, <1>13, <1>14, <1>16 DEF SafetyInv, FreeChunksApart
  <2> QED BY <1>9, <1>10, <1>11, <2>4, <2>5, SMTT(30) DEF Apart
<1> QED BY <1>15, <1>16

(* In a heap smaller than ClassSize[MAX_ORDER] alloc returns None only     *)
(* when every aligned range of the size it needs overlaps a block in use:  *)
(* no history of calls fragments the heap into failing.                    *)
THEOREM NoFragmentation ==
  HeapStart > 0 /\ HeapSize < ClassSize[MAX_ORDER] /\ Spec => []FailsOnlyWhenFull
<1>1. ASSUME SafetyInv, CoverInv, CoalescedInv PROVE FailsOnlyWhenFull
  <2> SUFFICES ASSUME pc = "out_of_memory",
                      NEW a \in HeapStart .. HeapEnd - ClassSize[class],
                      a % ClassSize[class] = 0,
                      \A b \in allocated : \A k \in Classes :
                        HasClass(b, k) => Apart(a, ClassSize[class], b.start, ClassSize[k])
               PROVE  FALSE
    BY DEF FailsOnlyWhenFull
  <2>1. PICK n \in Classes, s \in Nat \ {0} : n = class /\ s = ClassSize[n]
    BY <1>1, Sizes DEF SafetyInv, TypeOK
  <2>2. a \in Nat /\ HeapStart \in Nat /\ HeapEnd \in Nat /\ HeapStart <= a /\ a + s <= HeapEnd
    BY <2>1, HeapAssumption DEF HeapEnd
  <2>3. \A k \in Classes : k >= n => Free(k) = {}
    <3>1. \A k \in Classes : k >= n => k \in n .. MAX_ORDER - 1
      BY OrderAssumption DEF Classes
    <3> QED BY <1>1, <2>1, <3>1 DEF CoalescedInv, NoneLeft
  <2>4. PICK x \in Nat : Within(x, a, s) /\ ~InFreeChunk(x)
    BY <1>1, <2>1, <2>2, <2>3, FreeRangeIsFree
  <2>5. InBlock(x)
    <3>1. x \in HeapStart .. HeapEnd - 1
      BY <2>1, <2>2, <2>4 DEF Within
    <3> QED BY <1>1, <2>4, <3>1 DEF CoverInv, InHand
  <2>6. PICK b \in allocated, k \in Classes : HasClass(b, k) /\ Within(x, b.start, ClassSize[k])
    BY <2>5 DEF InBlock
  <2>7. Apart(a, s, b.start, ClassSize[k]) /\ b.start \in Nat /\ ClassSize[k] \in Nat
    BY <1>1, <2>1, <2>6, Sizes, SMTT(30) DEF SafetyInv, TypeOK
  <2> QED BY <2>1, <2>2, <2>4, <2>6, <2>7 DEF Apart, Within
<1> QED BY <1>1, Safety, BytesTracked, ListsCoalesced, PTL
=============================================================================
