------------------------ MODULE BuddyPointersProofs -------------------------
(***************************************************************************)
(* The heads and the headers are the free lists: BuddyPointers keeps       *)
(* ListsRepresent for every heap of whole chunks that can hold a header.   *)
(***************************************************************************)
EXTENDS BuddyPointers, BuddyAllocatorProofs

-----------------------------------------------------------------------------
(* Headers. *)

(* In a heap of whole chunks of class g add_region makes none smaller. *)
LEMMA AddsGrains ==
  ASSUME NEW g \in Classes, Grained(g), HeapStart > 0, SafetyInv, HeaderInv(g),
         pc = "add_region", region < HeapEnd, NEW k \in Classes, IsChunkClass(region, k)
  PROVE  g <= k
<1> SUFFICES ASSUME k < g PROVE FALSE
  BY Sizes
<1>1. PICK c \in Nat \ {0}, a \in Nat :
        /\ c = ClassSize[g] /\ a = region /\ a % c = 0 /\ a > 0 /\ HeapStart <= a
        /\ HeapEnd \in Nat
  <2>1. ClassSize[g] \in Nat \ {0}
    BY Sizes
  <2>2. region \in Nat /\ HeapStart <= region
    BY DEF SafetyInv, TypeOK, AddingRegion
  <2>3. region % ClassSize[g] = 0
    BY DEF HeaderInv
  <2> QED BY <2>1, <2>2, <2>3, HeapAssumption DEF HeapEnd
<1>2. HeapEnd % c = 0
  BY <1>1, HeapAssumption, SumMultiple DEF Grained, HeapEnd
<1>3. c <= HeapEnd - a
  <2> SUFFICES ASSUME HeapEnd < a + c PROVE FALSE
    BY <1>1
  <2>1. a = HeapEnd
    BY <1>1, <1>2, SameMultiple
  <2> QED BY <1>1, <2>1
<1>4. ChunkFits(region, g)
  BY <1>1, <1>3 DEF ChunkFits
<1>5. g \in k + 1 .. MAX_ORDER - 1
  BY OrderAssumption DEF Classes
<1> QED BY <1>4, <1>5 DEF IsChunkClass

(* Every chunk that is put on a list can hold a header. *)
LEMMA NextHeaders ==
  ASSUME NEW g \in Classes, Grained(g), HeapStart > 0, SafetyInv, HeaderInv(g), [Next]_vars
  PROVE  HeaderInv(g)'
<1>1. /\ MIN_SIZE \in Nat
      /\ \A k \in Classes : ClassSize[k] \in Nat \ {0} /\ ClassSize[k + 1] = 2 * ClassSize[k]
  BY Sizes, SizeAssumption
<1>2. \A k, m \in Classes : k <= m => ClassSize[k] <= ClassSize[m]
  BY Sizes, SizesGrow
<1>3. HeadersFit
  BY DEF HeaderInv
<1>4. CASE add_region
  <2>1. PICK k \in Classes, a \in Nat :
          /\ a = region /\ region' = a + ClassSize[k] /\ IsChunkClass(region, k)
          /\ buddies' = [buddies EXCEPT ![k] = push_front(@, a)]
    BY <1>4, Zenon DEF add_region, SafetyInv, TypeOK
  <2>2. /\ pc = "add_region" /\ pc' = "add_region" /\ region < HeapEnd
        /\ \A m \in Classes : \A b \in Free(m) : b + ClassSize[m] <= a
    BY <1>4, <2>1 DEF add_region, SafetyInv, AddingRegion
  <2>3. g <= k
    BY <2>1, <2>2, AddsGrains
  <2>4. ClassSize[k] >= MIN_SIZE
    BY <1>1, <1>2, <2>3 DEF Grained
  <2>5. a \notin Free(k)
    <3>1. Free(k) \subseteq Nat
      BY RangeOfSeq DEF SafetyInv, TypeOK, Free
    <3> QED BY <1>1, <2>2, <3>1
  <2>6. \A m \in Classes \ {k} : Free(m)' = Free(m)
    BY <2>1, <2>5, PushedLists, Zenon
  <2>7. HeadersFit'
    BY <1>3, <2>4, <2>6 DEF HeadersFit
  <2>8. region' % ClassSize[g] = 0
    <3>1. ClassSize[k] % ClassSize[g] = 0
      BY <2>3, Sizes, SizesDivide
    <3>2. a % ClassSize[g] = 0
      BY <2>1, <2>2 DEF HeaderInv
    <3> QED BY <1>1, <2>1, <3>1, <3>2, SumMultiple, Zenon
  <2> QED BY <2>2, <2>7, <2>8 DEF HeaderInv
<1>5. CASE split
  <2>1. PICK hi \in Classes, low \in Classes :
          /\ hi = level /\ class <= low /\ low + 1 = hi
          /\ Free(hi)' \subseteq Free(hi)
          /\ \A m \in Classes \ {low, hi} : Free(m)' = Free(m)
    BY <1>5, SplitChunks, SMTT(30)
  <2>2. class \in Classes /\ ClassSize[class] >= MIN_SIZE
    BY <1>5 DEF split, SafetyInv, TypeOK, Splitting, IsSizeClass, Fits
  <2>3. ClassSize[low] >= MIN_SIZE
    BY <1>1, <1>2, <2>1, <2>2
  <2>4. HeadersFit'
    BY <1>3, <2>1, <2>3 DEF HeadersFit
  <2> QED BY <1>5, <2>4 DEF split, HeaderInv
<1>6. CASE alloc_return
  <2>1. \A m \in Classes : Free(m)' \subseteq Free(m)
    <3>1. PICK k \in Classes : /\ Free(k)' \subseteq Free(k)
                               /\ \A m \in Classes \ {k} : Free(m)' = Free(m)
      BY <1>6, ReturnedChunk
    <3> QED BY <3>1
  <2>2. HeadersFit'
    BY <1>3, <2>1 DEF HeadersFit
  <2> QED BY <1>6, <2>2 DEF alloc_return, HeaderInv
<1>7. ASSUME NEW block \in allocated, dealloc(block) PROVE HeaderInv(g)'
  <2>1. ClassSize[level'] >= MIN_SIZE
    BY <1>7 DEF dealloc, IsSizeClass, Fits
  <2>2. HeadersFit'
    BY <1>3, <1>7 DEF dealloc, HeadersFit, Free
  <2> QED BY <1>7, <2>1, <2>2 DEF dealloc, HeaderInv
<1>8. CASE merge
  <2>1. PICK k \in Classes :
          /\ k = level /\ level' = k + 1
          /\ Free(k)' \subseteq Free(k)
          /\ \A m \in Classes \ {k} : Free(m)' = Free(m)
    BY <1>8, MergedChunk
  <2>2. HeadersFit'
    BY <1>3, <2>1 DEF HeadersFit
  <2>3. ClassSize[level'] >= MIN_SIZE
    <3>1. ClassSize[k] >= MIN_SIZE
      BY <1>8, <2>1 DEF merge, HeaderInv
    <3> QED BY <1>1, <2>1, <3>1
  <2> QED BY <1>8, <2>2, <2>3 DEF merge, HeaderInv
<1>9. CASE merge_done
  <2>1. PICK k \in Classes : k = level /\ ClassSize[k] >= MIN_SIZE
    BY <1>9, OrderAssumption DEF merge_done, SafetyInv, TypeOK, Classes, HeaderInv
  <2>2. buddies' = [buddies EXCEPT ![k] = push_front(@, region)]
    BY <1>9, <2>1 DEF merge_done
  <2>3. \A m \in Classes \ {k} : Free(m)' = Free(m)
    BY <2>2 DEF Free, SafetyInv, TypeOK
  <2>4. HeadersFit'
    BY <1>3, <2>1, <2>3 DEF HeadersFit
  <2> QED BY <1>9, <2>4 DEF merge_done, HeaderInv
<1>10. CASE \/ init_done \/ merge_past_end \/ panic \/ UNCHANGED vars
            \/ \E l \in Layouts : alloc(l) \/ alloc_none(l) \/ alloc_too_large(l)
  <2>1. UNCHANGED buddies /\ (pc' \notin {"merge", "add_region"} \/ UNCHANGED vars)
    BY <1>10 DEF init_done, merge_past_end, panic, vars, alloc, alloc_none, alloc_too_large
  <2>2. HeadersFit'
    BY <1>3, <2>1 DEF HeadersFit, Free
  <2> QED BY <2>1, <2>2 DEF HeaderInv, vars
<1> QED BY <1>4, <1>5, <1>6, <1>7, <1>8, <1>9, <1>10 DEF Next

(* In a heap that consists of chunks of a class that can hold a header, as *)
(* the kernel's does (whole pages), every free chunk has room for the      *)
(* header that add_region, split and dealloc write into it.                *)
THEOREM HeadersHaveRoom ==
  HeapStart > 0 /\ (\E g \in Classes : Grained(g)) /\ Spec => []HeadersFit
<1> SUFFICES ASSUME HeapStart > 0, NEW g \in Classes, Grained(g) PROVE Spec => []HeadersFit
  OBVIOUS
<1>1. Init => HeaderInv(g)
  BY DEF Init, HeaderInv, HeadersFit, Free, Range, Grained
<1>2. SafetyInv /\ HeaderInv(g) /\ [Next]_vars => HeaderInv(g)'
  BY NextHeaders
<1>3. HeaderInv(g) => HeadersFit
  BY DEF HeaderInv
<1> QED BY <1>1, <1>2, <1>3, Safety, PTL DEF Spec

-----------------------------------------------------------------------------
(* Sequences by index. *)

(* push_front moves every entry up by one. *)
LEMMA PushFrontAt ==
  ASSUME NEW s \in Seq(Nat), NEW a \in Nat
  PROVE  /\ push_front(s, a) \in Seq(Nat)
         /\ Len(push_front(s, a)) = Len(s) + 1
         /\ push_front(s, a)[1] = a
         /\ \A i \in 1 .. Len(s) : push_front(s, a)[i + 1] = s[i]
<1>1. <<a>> \in Seq(Nat) /\ Len(<<a>>) = 1 /\ <<a>>[1] = a /\ Len(s) \in Nat
  BY LenProperties
<1>2. /\ push_front(s, a) \in Seq(Nat)
      /\ Len(push_front(s, a)) = 1 + Len(s)
      /\ \A i \in 1 .. 1 + Len(s) : push_front(s, a)[i] = IF i <= 1 THEN <<a>>[i] ELSE s[i - 1]
  BY <1>1, ConcatProperties DEF push_front
<1> QED BY <1>1, <1>2

(* WithoutIndex moves the entries after the one it drops down by one. *)
LEMMA WithoutIndexAt ==
  ASSUME NEW s \in Seq(Nat), NEW i \in 1 .. Len(s)
  PROVE  /\ WithoutIndex(s, i) \in Seq(Nat)
         /\ Len(WithoutIndex(s, i)) = Len(s) - 1
         /\ \A j \in 1 .. Len(s) - 1 : WithoutIndex(s, i)[j] = IF j < i THEN s[j] ELSE s[j + 1]
<1> DEFINE p == SubSeq(s, 1, i - 1)
           q == SubSeq(s, i + 1, Len(s))
<1>1. Len(s) \in Nat /\ \A j \in 1 .. Len(s) : s[j] \in Nat
  BY LenProperties, ElementOfSeq
<1>2. /\ p \in Seq(Nat) /\ Len(p) = i - 1
      /\ \A j \in 1 .. i - 1 : p[j] = s[j]
  BY <1>1, SubSeqProperties
<1>3. /\ q \in Seq(Nat) /\ Len(q) = Len(s) - i
      /\ \A j \in 1 .. Len(s) - i : q[j] = s[i + j]
  BY <1>1, SubSeqProperties
<1> HIDE DEF p, q
<1>4. PICK t : t = p \o q
  BY Zenon
<1>5. /\ t \in Seq(Nat)
      /\ Len(t) = Len(p) + Len(q)
      /\ \A j \in 1 .. Len(p) + Len(q) : t[j] = IF j <= Len(p) THEN p[j] ELSE q[j - Len(p)]
  BY <1>2, <1>3, <1>4, ConcatProperties, ZenonT(40)
<1>6. WithoutIndex(s, i) = t
  BY <1>4 DEF WithoutIndex, p, q
<1>7. Len(t) = Len(s) - 1
  BY <1>1, <1>2, <1>3, <1>5
<1>8. ASSUME NEW j \in 1 .. Len(s) - 1 PROVE t[j] = IF j < i THEN s[j] ELSE s[j + 1]
  <2>1. j \in 1 .. Len(p) + Len(q)
    BY <1>1, <1>2, <1>3
  <2>2. CASE j < i
    BY <1>1, <1>2, <1>5, <2>1, <2>2
  <2>3. CASE ~(j < i)
    <3>1. j - Len(p) \in 1 .. Len(s) - i /\ i + (j - Len(p)) = j + 1 /\ ~(j <= Len(p))
      BY <1>1, <1>2, <2>3
    <3>2. t[j] = q[j - Len(p)]
      BY <1>5, <2>1, <3>1
    <3> QED BY <1>3, <2>3, <3>1, <3>2, Zenon
  <2> QED BY <2>2, <2>3
<1> QED BY <1>5, <1>6, <1>7, <1>8, Zenon

-----------------------------------------------------------------------------
(* The walk. *)

(* A walk along the pointers of a list that is not longer than the heap    *)
(* meets its chunks in order.                                              *)
LEMMA ChainIsList ==
  ASSUME NEW m, NEW k, NEW s \in Seq(Nat), Len(s) <= HeapSize,
         \A i \in 1 .. Len(s) : s[i] # Null, Linked(m, k, s)
  PROVE  Chain(m, k) = s
<1>1. Len(s) \in Nat /\ HeapSize \in Nat /\ \A i \in 1 .. Len(s) : s[i] \in Nat
  BY LenProperties, ElementOfSeq, HeapAssumption
<1>2. /\ m.heads[k] = NextOf(s, 0)
      /\ \A i \in 1 .. Len(s) : m.headers[s[i]].next = NextOf(s, i)
  <2>1. \A x, y : Header(x, y).next = x
    BY DEF Header
  <2> QED BY <2>1 DEF Linked
<1> DEFINE g == [n \in 0 .. HeapSize |-> SubSeq(s, 1, IF n <= Len(s) THEN n ELSE Len(s))]
<1>3. \A n \in 0 .. HeapSize :
        /\ g[n] \in Seq(Nat)
        /\ Len(g[n]) = IF n <= Len(s) THEN n ELSE Len(s)
        /\ \A i \in 1 .. Len(g[n]) : g[n][i] = s[i]
  <2> SUFFICES ASSUME NEW n \in 0 .. HeapSize
               PROVE  /\ g[n] \in Seq(Nat)
                      /\ Len(g[n]) = IF n <= Len(s) THEN n ELSE Len(s)
                      /\ \A i \in 1 .. Len(g[n]) : g[n][i] = s[i]
    OBVIOUS
  <2>1. PICK h \in 0 .. Len(s) : h = IF n <= Len(s) THEN n ELSE Len(s)
    BY <1>1
  <2>2. /\ SubSeq(s, 1, h) \in Seq(Nat)
        /\ Len(SubSeq(s, 1, h)) = h
        /\ \A i \in 1 .. h : SubSeq(s, 1, h)[i] = s[i]
    BY <1>1, SubSeqProperties
  <2>3. g[n] = SubSeq(s, 1, h)
    BY <2>1
  <2> QED BY <2>1, <2>2, <2>3
<1>4. g = [n \in 0 .. HeapSize |-> g[n]]
  OBVIOUS
<1> HIDE DEF g
<1>5. g[0] = << >> /\ g[HeapSize] = s
  <2>1. 0 \in 0 .. HeapSize /\ HeapSize \in 0 .. HeapSize
    BY <1>1
  <2>2. g[0] \in Seq(Nat) /\ Len(g[0]) = 0
    BY <1>1, <1>3, <2>1
  <2>3. PICK t \in Seq(Nat) : t = g[HeapSize] /\ Len(t) = Len(s) /\ \A i \in 1 .. Len(s) : t[i] = s[i]
    BY <1>1, <1>3, <2>1
  <2>4. t = s
    BY <2>3, SeqEqual, SMTT(30)
  <2> QED BY <2>2, <2>3, <2>4, EmptySeq
<1> DEFINE after(met) == IF met = << >> THEN m.heads[k] ELSE m.headers[met[Len(met)]].next
           step(met, n) ==
             IF Len(met) < n - 1 \/ after(met) = Null THEN met ELSE Append(met, after(met))
<1>6. ASSUME NEW n \in 0 .. HeapSize, n # 0 PROVE step(g[n - 1], n) = g[n]
  <2>1. PICK r \in 0 .. HeapSize : r = n - 1
    BY <1>1, <1>6
  <2>2. PICK met \in Seq(Nat), t \in Seq(Nat) :
          /\ met = g[r] /\ t = g[n]
          /\ Len(met) = IF r <= Len(s) THEN r ELSE Len(s)
          /\ Len(t) = IF n <= Len(s) THEN n ELSE Len(s)
          /\ \A i \in 1 .. Len(met) : met[i] = s[i]
          /\ \A i \in 1 .. Len(t) : t[i] = s[i]
    BY <1>3, SMTT(30)
  <2>3. CASE r <= Len(s)
    <3>1. after(met) = NextOf(s, r)
      <4>1. CASE r = 0
        <5>1. met = << >>
          BY <2>2, <2>3, <4>1, EmptySeq
        <5> QED BY <1>2, <4>1, <5>1
      <4>2. CASE r # 0
        <5>1. r \in 1 .. Len(s) /\ Len(met) = r
          BY <1>1, <2>2, <2>3, <4>2
        <5>2. met # << >> /\ met[r] = s[r]
          BY <2>2, <5>1, EmptySeq
        <5> QED BY <1>2, <5>1, <5>2
      <4> QED BY <4>1, <4>2
    <3> HIDE DEF after
    <3>2. CASE r < Len(s)
      <4>1. PICK x \in Nat : x = after(met) /\ x = s[n] /\ x # Null /\ n \in 1 .. Len(s)
        BY <1>1, <2>1, <3>1, <3>2, SMTT(30) DEF NextOf
      <4>2. Len(met) = r /\ Len(t) = n
        BY <1>1, <2>1, <2>2, <3>2
      <4>3. step(met, n) = Append(met, x)
        BY <2>1, <4>1, <4>2
      <4>4. PICK u \in Seq(Nat) :
              /\ u = Append(met, x) /\ Len(u) = r + 1
              /\ \A i \in 1 .. r : u[i] = met[i]
              /\ u[r + 1] = x
        BY <4>2, AppendProperties, ZenonT(40)
      <4>5. Len(u) = Len(t) /\ \A i \in 1 .. Len(u) : u[i] = t[i]
        BY <2>1, <2>2, <4>1, <4>2, <4>4, SMTT(30)
      <4>6. u = t
        BY <4>5, SeqEqual, SMTT(30)
      <4> QED BY <2>1, <2>2, <4>3, <4>4, <4>6, SMTT(30)
    <3>3. CASE r = Len(s)
      <4>1. after(met) = Null
        BY <3>1, <3>3 DEF NextOf
      <4>2. Len(met) = Len(t) /\ \A i \in 1 .. Len(met) : met[i] = t[i]
        BY <1>1, <2>1, <2>2, <3>3
      <4>3. met = t
        BY <4>2, SeqEqual
      <4> QED BY <2>1, <2>2, <4>1, <4>3
    <3> QED BY <1>1, <2>3, <3>2, <3>3
  <2>4. CASE ~(r <= Len(s))
    <3> HIDE DEF after
    <3>1. Len(met) = Len(t) /\ \A i \in 1 .. Len(met) : met[i] = t[i]
      BY <1>1, <2>1, <2>2, <2>4, SMTT(30)
    <3>2. met = t
      BY <3>1, SeqEqual
    <3>3. Len(met) < n - 1
      BY <1>1, <2>1, <2>2, <2>4
    <3> QED BY <2>1, <2>2, <3>2, <3>3, SMTT(30)
  <2> QED BY <2>3, <2>4
<1> DEFINE body(w, n) == IF n = 0 THEN << >> ELSE step(w[n - 1], n)
           walk == CHOOSE w : w = [n \in 0 .. HeapSize |-> body(w, n)]
<1>7. Chain(m, k) = walk[HeapSize]
  BY DEF Chain
<1> HIDE DEF step, after
<1>8. g = [n \in 0 .. HeapSize |-> body(g, n)]
  BY <1>4, <1>5, <1>6
<1>9. walk = [n \in 0 .. HeapSize |-> body(walk, n)]
  <2> HIDE DEF body
  <2> QED BY <1>8, Zenon
<1> HIDE DEF walk
<1>10. \A n \in 0 .. HeapSize : walk[n] = IF n = 0 THEN << >> ELSE step(walk[n - 1], n)
  BY <1>9, Zenon
<1> HIDE DEF body
<1> DEFINE S == {n \in Nat : n <= HeapSize => walk[n] = g[n]}
<1>11. 0 \in S
  BY <1>1, <1>5, <1>10
<1>12. ASSUME NEW n \in Nat, n \in S PROVE n + 1 \in S
  <2> SUFFICES ASSUME n + 1 <= HeapSize PROVE walk[n + 1] = g[n + 1]
    OBVIOUS
  <2>1. PICK r \in 0 .. HeapSize : r = n + 1 /\ r # 0 /\ r - 1 = n
    BY <1>1
  <2>2. walk[r] = step(walk[r - 1], r)
    BY <1>10, <2>1
  <2>3. walk[r - 1] = g[r - 1]
    BY <1>1, <1>12, <2>1
  <2> QED BY <1>6, <2>1, <2>2, <2>3
<1> HIDE DEF S
<1>13. \A n \in Nat : n \in S
  BY <1>11, <1>12, SetInduction, SMTT(30)
<1> QED BY <1>1, <1>5, <1>7, <1>13 DEF S

-----------------------------------------------------------------------------
(* What the operations do to heads and headers. *)

(* Addresses are numbers, none of them Null. *)
LEMMA AddressFacts ==
  /\ HeapStart \in Nat /\ HeapEnd \in Nat /\ MIN_SIZE \in Nat
  /\ \A a \in Addresses : a \in Nat /\ a # Null /\ HeapStart <= a /\ a < HeapEnd
  /\ \A k \in Classes : ClassSize[k] \in Nat
BY HeapAssumption, PointerAssumption, SizeAssumption, Sizes DEF Addresses, HeapEnd, Null

(* Writing over bytes leaves the headers that have none of them. *)
LEMMA OverwriteFacts ==
  ASSUME NEW h \in [Addresses -> [next : Nat, size : Nat]], NEW a, NEW n
  PROVE  /\ Overwrite(h, a, n) \in [Addresses -> [next : Nat, size : Nat]]
         /\ \A x \in Addresses : ~(x < a + n /\ a < x + MIN_SIZE) => Overwrite(h, a, n)[x] = h[x]
<1>1. Garbage \in [next : Nat, size : Nat]
  BY DEF Garbage, Header, Null
<1> QED BY <1>1 DEF Overwrite

(* new_at_address writes the header at a. *)
LEMMA NewFacts ==
  ASSUME NEW m \in Memories, NEW a \in Addresses, NEW n \in Nat
  PROVE  LET p == new_at_address(m, a, n)
         IN  /\ p \in Memories
             /\ p.heads = m.heads
             /\ p.headers[a] = Header(Null, n)
             /\ \A x \in Addresses \ {a} :
                  x + MIN_SIZE <= a \/ a + MIN_SIZE <= x => p.headers[x] = m.headers[x]
<1> DEFINE p == new_at_address(m, a, n)
           h == Overwrite(m.headers, a, MIN_SIZE)
<1>1. /\ m.heads \in [Classes -> Nat]
      /\ m.headers \in [Addresses -> [next : Nat, size : Nat]]
      /\ m = [heads |-> m.heads, headers |-> m.headers]
  BY DEF Memories
<1>2. /\ h \in [Addresses -> [next : Nat, size : Nat]]
      /\ \A x \in Addresses : ~(x < a + MIN_SIZE /\ a < x + MIN_SIZE) => h[x] = m.headers[x]
  BY <1>1, OverwriteFacts
<1>3. Header(Null, n) \in [next : Nat, size : Nat]
  BY DEF Header, Null
<1>4. p = [heads |-> m.heads, headers |-> [h EXCEPT ![a] = Header(Null, n)]]
  BY <1>1 DEF new_at_address
<1> HIDE DEF p, h
<1>5. [h EXCEPT ![a] = Header(Null, n)] \in [Addresses -> [next : Nat, size : Nat]]
  BY <1>2, <1>3
<1>6. p \in Memories
  BY <1>1, <1>4, <1>5, SMTT(30) DEF Memories
<1>7. /\ p.heads = m.heads
      /\ p.headers[a] = Header(Null, n)
      /\ \A x \in Addresses \ {a} : p.headers[x] = h[x]
  BY <1>2, <1>4
<1>8. ASSUME NEW x \in Addresses \ {a}, x + MIN_SIZE <= a \/ a + MIN_SIZE <= x
      PROVE  p.headers[x] = m.headers[x]
  <2>1. ~(x < a + MIN_SIZE /\ a < x + MIN_SIZE)
    BY <1>8, AddressFacts
  <2> QED BY <1>2, <1>7, <2>1
<1>9. p = new_at_address(m, a, n)
  BY DEF p
<1> QED BY <1>6, <1>7, <1>8, <1>9

(* push_node makes a the head of list k. *)
LEMMA PushFacts ==
  ASSUME NEW m \in Memories, NEW k \in Classes, NEW a \in Addresses
  PROVE  LET p == push_node(m, k, a)
         IN  /\ p \in Memories
             /\ p.heads[k] = a
             /\ \A j \in Classes \ {k} : p.heads[j] = m.heads[j]
             /\ p.headers[a] = Header(m.heads[k], m.headers[a].size)
             /\ \A x \in Addresses \ {a} : p.headers[x] = m.headers[x]
<1> DEFINE p == push_node(m, k, a)
<1>1. /\ m.heads \in [Classes -> Nat]
      /\ m.headers \in [Addresses -> [next : Nat, size : Nat]]
      /\ m = [heads |-> m.heads, headers |-> m.headers]
  BY DEF Memories
<1>2. PICK r \in [next : Nat, size : Nat] : r = m.headers[a]
  BY <1>1
<1>3. [r EXCEPT !.next = m.heads[k]] = Header(m.heads[k], r.size)
  BY DEF Header
<1>4. /\ Header(m.heads[k], r.size) \in [next : Nat, size : Nat]
      /\ a \in Nat
  BY <1>1, AddressFacts DEF Header
<1>5. p = [heads |-> [m.heads EXCEPT ![k] = a],
           headers |-> [m.headers EXCEPT ![a] = Header(m.heads[k], r.size)]]
  BY <1>1, <1>2, <1>3, SMTT(30) DEF push_node
<1> HIDE DEF p
<1>6. /\ [m.heads EXCEPT ![k] = a] \in [Classes -> Nat]
      /\ [m.headers EXCEPT ![a] = Header(m.heads[k], r.size)]
           \in [Addresses -> [next : Nat, size : Nat]]
  BY <1>1, <1>4
<1>7. p \in Memories
  BY <1>5, <1>6 DEF Memories
<1>8. /\ p.heads[k] = a
      /\ \A j \in Classes \ {k} : p.heads[j] = m.heads[j]
      /\ p.headers[a] = Header(m.heads[k], m.headers[a].size)
      /\ \A x \in Addresses \ {a} : p.headers[x] = m.headers[x]
  BY <1>1, <1>2, <1>5, SMTT(30)
<1>9. p = push_node(m, k, a)
  BY DEF p
<1> QED BY <1>7, <1>8, <1>9

(* pop_front makes the second chunk of list k its head. *)
LEMMA PopFacts ==
  ASSUME NEW m \in Memories, NEW k \in Classes, m.heads[k] \in Addresses
  PROVE  LET p == pop_front(m, k)
         IN  /\ p \in Memories
             /\ p.heads[k] = m.headers[m.heads[k]].next
             /\ \A j \in Classes \ {k} : p.heads[j] = m.heads[j]
             /\ \A x \in Addresses \ {m.heads[k]} : p.headers[x] = m.headers[x]
<1> DEFINE p == pop_front(m, k)
<1>1. /\ m.heads \in [Classes -> Nat]
      /\ m.headers \in [Addresses -> [next : Nat, size : Nat]]
      /\ m = [heads |-> m.heads, headers |-> m.headers]
  BY DEF Memories
<1>2. PICK a \in Addresses : a = m.heads[k]
  OBVIOUS
<1>3. PICK r \in [next : Nat, size : Nat] : r = m.headers[a]
  BY <1>1
<1>4. PICK e \in [next : Nat, size : Nat] : e = [r EXCEPT !.next = Null]
  BY Zenon DEF Null
<1>5. p = [heads |-> [m.heads EXCEPT ![k] = r.next], headers |-> [m.headers EXCEPT ![a] = e]]
  BY <1>1, <1>2, <1>3, <1>4 DEF pop_front
<1> HIDE DEF p
<1>6. /\ [m.heads EXCEPT ![k] = r.next] \in [Classes -> Nat]
      /\ [m.headers EXCEPT ![a] = e] \in [Addresses -> [next : Nat, size : Nat]]
  BY <1>1
<1>7. p \in Memories
  BY <1>5, <1>6 DEF Memories
<1>8. /\ p.heads[k] = m.headers[m.heads[k]].next
      /\ \A j \in Classes \ {k} : p.heads[j] = m.heads[j]
      /\ \A x \in Addresses \ {m.heads[k]} : p.headers[x] = m.headers[x]
  BY <1>1, <1>2, <1>3, <1>5
<1>9. p = pop_front(m, k)
  BY DEF p
<1> QED BY <1>7, <1>8, <1>9

(* p is m with the entry at i of the list s unlinked from the one before   *)
(* it, or from the head.                                                   *)
Unlinks(m, p, k, s, i) ==
  /\ p \in Memories
  /\ p.heads[k] = IF i = 1 THEN m.headers[s[i]].next ELSE m.heads[k]
  /\ \A j \in Classes \ {k} : p.heads[j] = m.heads[j]
  /\ i # 1 => p.headers[s[i - 1]] = Header(m.headers[s[i]].next, m.headers[s[i - 1]].size)
  /\ \A x \in Addresses : (i = 1 \/ x # s[i - 1]) => p.headers[x] = m.headers[x]

(* remove unlinks the chunk it finds. *)
LEMMA RemoveFacts ==
  ASSUME NEW m \in Memories, NEW k \in Classes, NEW s \in Seq(Nat), IsInjective(s),
         \A j \in 1 .. Len(s) : s[j] \in Addresses, Chain(m, k) = s, NEW i \in 1 .. Len(s),
         NEW p, p = remove(m, k, s[i])
  PROVE  Unlinks(m, p, k, s, i)
<1> DEFINE found == {j \in 1 .. Len(s) : IsFirstAt(s, s[i], j)}
<1>1. /\ m.heads \in [Classes -> Nat]
      /\ m.headers \in [Addresses -> [next : Nat, size : Nat]]
      /\ m = [heads |-> m.heads, headers |-> m.headers]
  BY DEF Memories
<1>2. Len(s) \in Nat /\ DOMAIN s = 1 .. Len(s) /\ s[i] \in Addresses
  BY LenProperties
<1>3. \A j \in 1 .. Len(s) : s[j] = s[i] => j = i
  BY <1>2 DEF IsInjective
<1>4. found = {i}
  <2>1. i \in found
    BY <1>2, <1>3 DEF IsFirstAt
  <2>2. \A j \in found : j = i
    BY <1>3 DEF IsFirstAt
  <2> QED BY <2>1, <2>2
<1>5. PICK v \in Nat : v = m.headers[s[i]].next
  BY <1>1, <1>2, SMTT(30)
<1>6. p = CASE found = {} -> m
            [] found = {1} -> [m EXCEPT !.heads[k] = v]
            [] OTHER -> [m EXCEPT !.headers[s[(CHOOSE j \in found : TRUE) - 1]].next = v]
  BY <1>5 DEF remove
<1> HIDE DEF found
<1>8. CASE i = 1
  <2>1. p = [m EXCEPT !.heads[k] = v]
    BY <1>4, <1>6, <1>8
  <2>2. p = [heads |-> [m.heads EXCEPT ![k] = v], headers |-> m.headers]
    BY <1>1, <2>1, Zenon
  <2>3. [m.heads EXCEPT ![k] = v] \in [Classes -> Nat]
    BY <1>1
  <2>4. p \in Memories
    BY <1>1, <2>2, <2>3 DEF Memories
  <2> QED BY <1>1, <1>5, <1>8, <2>2, <2>4, SMTT(30) DEF Unlinks
<1>9. CASE i # 1
  <2>1. (CHOOSE j \in found : TRUE) = i
    BY <1>4
  <2>2. found # {} /\ found # {1}
    BY <1>4, <1>9
  <2>3. p = [m EXCEPT !.headers[s[i - 1]].next = v]
    BY <1>6, <2>1, <2>2, Zenon
  <2>4. PICK b \in Addresses, r \in [next : Nat, size : Nat] : b = s[i - 1] /\ r = m.headers[b]
    BY <1>1, <1>2, <1>9, SMTT(30)
  <2>5. [r EXCEPT !.next = v] = Header(v, r.size) /\ Header(v, r.size) \in [next : Nat, size : Nat]
    BY DEF Header
  <2>6. p = [heads |-> m.heads, headers |-> [m.headers EXCEPT ![b] = Header(v, r.size)]]
    <3>1. p = [m EXCEPT !.headers[b].next = v]
      BY <2>3, <2>4
    <3>2. p = [m EXCEPT !.headers = [m.headers EXCEPT ![b] = [r EXCEPT !.next = v]]]
      BY <1>1, <2>4, <3>1
    <3> QED BY <1>1, <2>5, <3>2, Zenon
  <2>7. [m.headers EXCEPT ![b] = Header(v, r.size)] \in [Addresses -> [next : Nat, size : Nat]]
    BY <1>1, <2>5
  <2>8. p \in Memories
    BY <1>1, <2>6, <2>7, SMTT(30) DEF Memories
  <2> QED BY <1>1, <1>5, <1>9, <2>4, <2>6, <2>8, SMTT(30) DEF Unlinks
<1> QED BY <1>8, <1>9

-----------------------------------------------------------------------------
(* What the operations do to the lists. *)

(* The pointers of a list that an operation does not touch. *)
LEMMA LinkedStill ==
  ASSUME NEW m, NEW p, NEW k, NEW s, Linked(m, k, s), p.heads[k] = m.heads[k],
         \A i \in 1 .. Len(s) : p.headers[s[i]] = m.headers[s[i]]
  PROVE  Linked(p, k, s)
BY DEF Linked

(* A new head in front of the old one. *)
LEMMA LinkedPush ==
  ASSUME NEW m, NEW p, NEW k, NEW s \in Seq(Nat), NEW a \in Nat, Linked(m, k, s),
         p.heads[k] = a, p.headers[a] = Header(m.heads[k], ClassSize[k]),
         \A i \in 1 .. Len(s) : p.headers[s[i]] = m.headers[s[i]]
  PROVE  Linked(p, k, push_front(s, a))
<1>1. PICK t \in Seq(Nat) :
        /\ t = push_front(s, a) /\ Len(t) = Len(s) + 1 /\ t[1] = a
        /\ \A i \in 1 .. Len(s) : t[i + 1] = s[i]
  BY PushFrontAt, ZenonT(40)
<1>2. Len(s) \in Nat
  BY LenProperties
<1>3. NextOf(t, 0) = a /\ NextOf(t, 1) = NextOf(s, 0)
  BY <1>1, <1>2 DEF NextOf
<1>4. ASSUME NEW i \in 1 .. Len(s) PROVE NextOf(t, i + 1) = NextOf(s, i)
  <2>1. CASE i < Len(s)
    <3>1. PICK j \in 1 .. Len(s) : j = i + 1
      BY <1>2, <2>1
    <3>2. j < Len(t) /\ t[j + 1] = s[j]
      BY <1>1, <1>2
    <3> QED BY <2>1, <3>1, <3>2 DEF NextOf
  <2>2. CASE ~(i < Len(s))
    <3>1. ~(i + 1 < Len(t))
      BY <1>1, <1>2, <2>2
    <3> QED BY <2>2, <3>1 DEF NextOf
  <2> QED BY <2>1, <2>2
<1>5. \A i \in 1 .. Len(s) : p.headers[t[i + 1]] = Header(NextOf(t, i + 1), ClassSize[k])
  BY <1>1, <1>4, ZenonT(40) DEF Linked
<1>6. \A i \in 1 .. Len(t) : i = 1 \/ \E j \in 1 .. Len(s) : i = j + 1
  <2> SUFFICES ASSUME NEW i \in 1 .. Len(t), i # 1 PROVE i - 1 \in 1 .. Len(s) /\ i = (i - 1) + 1
    OBVIOUS
  <2> QED BY <1>1, <1>2
<1>7. \A i \in 1 .. Len(t) : p.headers[t[i]] = Header(NextOf(t, i), ClassSize[k])
  BY <1>1, <1>3, <1>5, <1>6, ZenonT(40) DEF Linked
<1> QED BY <1>1, <1>3, <1>7, SMTT(30) DEF Linked

(* The head gone. *)
LEMMA LinkedPop ==
  ASSUME NEW m, NEW p, NEW k, NEW s \in Seq(Nat), s # << >>, Linked(m, k, s),
         p.heads[k] = m.headers[m.heads[k]].next,
         \A i \in 2 .. Len(s) : p.headers[s[i]] = m.headers[s[i]]
  PROVE  Linked(p, k, Tail(s))
<1>1. PICK t \in Seq(Nat) :
        t = Tail(s) /\ Len(t) = Len(s) - 1 /\ \A i \in 1 .. Len(t) : t[i] = s[i + 1]
  <2>1. /\ Tail(s) \in Seq(Nat) /\ Len(Tail(s)) = Len(s) - 1
        /\ \A i \in 1 .. Len(Tail(s)) : Tail(s)[i] = s[i + 1]
    BY HeadTailProperties
  <2>2. PICK t : t = Tail(s)
    BY Zenon
  <2> QED BY <2>1, <2>2, Zenon
<1>2. Len(s) \in Nat \ {0}
  BY EmptySeq
<1>3. NextOf(t, 0) = NextOf(s, 1) /\ NextOf(s, 0) = s[1]
  BY <1>1, <1>2 DEF NextOf
<1>4. \A i \in 1 .. Len(t) : NextOf(t, i) = NextOf(s, i + 1) /\ i + 1 \in 2 .. Len(s) /\ i + 1 \in 1 .. Len(s)
  BY <1>1, <1>2 DEF NextOf
<1>5. p.heads[k] = NextOf(t, 0)
  <2>1. m.headers[s[1]] = Header(NextOf(s, 1), ClassSize[k]) /\ m.heads[k] = s[1]
    BY <1>2, <1>3 DEF Linked
  <2> QED BY <1>3, <2>1 DEF Header
<1>6. ASSUME NEW i \in 1 .. Len(t) PROVE p.headers[t[i]] = Header(NextOf(t, i), ClassSize[k])
  <2>1. PICK j \in 2 .. Len(s) : j = i + 1 /\ j \in 1 .. Len(s) /\ NextOf(t, i) = NextOf(s, j)
    BY <1>4
  <2>2. t[i] = s[j]
    BY <1>1, <2>1
  <2>3. m.headers[s[j]] = Header(NextOf(s, j), ClassSize[k])
    BY <2>1, SMTT(30) DEF Linked
  <2> QED BY <2>1, <2>2, <2>3
<1> QED BY <1>1, <1>5, <1>6, SMTT(30) DEF Linked

(* The entry at i gone, the one before it (or the head) linked past it. *)
LEMMA LinkedRemove ==
  ASSUME NEW m, NEW p, NEW k, NEW s \in Seq(Nat), NEW i \in 1 .. Len(s), Linked(m, k, s),
         p.heads[k] = (IF i = 1 THEN m.headers[s[i]].next ELSE m.heads[k]),
         i # 1 => p.headers[s[i - 1]] = Header(m.headers[s[i]].next, m.headers[s[i - 1]].size),
         \A j \in 1 .. Len(s) : j # i /\ j # i - 1 => p.headers[s[j]] = m.headers[s[j]]
  PROVE  Linked(p, k, WithoutIndex(s, i))
<1>1. PICK t \in Seq(Nat) :
        /\ t = WithoutIndex(s, i) /\ Len(t) = Len(s) - 1
        /\ \A j \in 1 .. Len(s) - 1 : t[j] = IF j < i THEN s[j] ELSE s[j + 1]
  BY WithoutIndexAt
<1>2. Len(s) \in Nat
  BY LenProperties, SMTT(30)
<1>3. \A j \in 1 .. Len(s) : /\ m.headers[s[j]].next = NextOf(s, j)
                              /\ m.headers[s[j]].size = ClassSize[k]
                              /\ m.headers[s[j]] = Header(NextOf(s, j), ClassSize[k])
  BY DEF Linked, Header
<1>4. m.heads[k] = NextOf(s, 0)
  BY DEF Linked
<1>5. ASSUME NEW j \in 0 .. Len(s) - 1
      PROVE  NextOf(t, j) = IF j < i - 1 THEN NextOf(s, j) ELSE NextOf(s, j + 1)
  <2>1. CASE j < Len(s) - 1
    <3>1. PICK h \in 1 .. Len(s) - 1 : h = j + 1
      BY <1>2, <2>1, SMTT(30)
    <3>2. NextOf(t, j) = t[h]
      BY <1>1, <2>1, <3>1, SMTT(30) DEF NextOf
    <3>3. t[h] = IF h < i THEN s[h] ELSE s[h + 1]
      BY <1>1, Zenon
    <3>4. j < Len(s) /\ j + 1 < Len(s) /\ (h < i <=> j < i - 1)
      BY <1>2, <2>1, <3>1, SMTT(30)
    <3> QED BY <3>1, <3>2, <3>3, <3>4, SMTT(30) DEF NextOf
  <2>2. CASE ~(j < Len(s) - 1)
    <3>1. ~(j < i - 1) /\ ~(j < Len(t)) /\ ~(j + 1 < Len(s))
      BY <1>1, <1>2, <2>2, SMTT(30)
    <3> QED BY <3>1 DEF NextOf
  <2> QED BY <2>1, <2>2, SMTT(30)
<1>6. p.heads[k] = NextOf(t, 0)
  <2>1. 0 \in 0 .. Len(s) - 1
    BY <1>2
  <2>2. NextOf(t, 0) = IF 0 < i - 1 THEN NextOf(s, 0) ELSE NextOf(s, 1)
    BY <1>5, <2>1, SMTT(30)
  <2>3. CASE i = 1
    BY <1>3, <2>2, <2>3
  <2>4. CASE i # 1
    <3>1. 0 < i - 1
      BY <2>4
    <3> QED BY <1>4, <2>2, <2>4, <3>1, SMTT(30)
  <2> QED BY <2>3, <2>4
<1>7. ASSUME NEW j \in 1 .. Len(t) PROVE p.headers[t[j]] = Header(NextOf(t, j), ClassSize[k])
  <2>1. /\ j \in 1 .. Len(s) - 1 /\ j \in 0 .. Len(s) - 1 /\ j \in 1 .. Len(s)
        /\ j + 1 \in 1 .. Len(s) /\ j \in Nat /\ i \in Nat
    <3>1. PICK h \in Nat : h = Len(s)
      BY <1>2
    <3>2. Len(t) = h - 1
      BY <1>1, <3>1
    <3>3. j \in 1 .. h - 1 /\ i \in 1 .. h
      BY <3>1, <3>2
    <3> QED BY <3>1, <3>3
  <2>2. NextOf(t, j) = IF j < i - 1 THEN NextOf(s, j) ELSE NextOf(s, j + 1)
    BY <1>5, <2>1
  <2>3. t[j] = IF j < i THEN s[j] ELSE s[j + 1]
    BY <1>1, <2>1, Zenon
  <2>4. CASE j < i - 1
    <3>1. j < i /\ j # i /\ j # i - 1
      BY <2>1, <2>4, SMTT(30)
    <3> QED BY <1>3, <2>1, <2>2, <2>3, <2>4, <3>1
  <2>5. CASE j = i - 1
    <3>1. i # 1 /\ j < i /\ ~(j < i - 1) /\ j + 1 = i
      BY <2>1, <2>5, SMTT(30)
    <3>2. p.headers[s[j]] = Header(NextOf(s, i), ClassSize[k])
      BY <1>3, <2>1, <2>5, <3>1, Zenon
    <3> QED BY <2>2, <2>3, <3>1, <3>2, SMTT(30)
  <2>6. CASE j >= i
    <3>1. PICK h \in 1 .. Len(s) : h = j + 1 /\ h # i /\ h # i - 1 /\ ~(j < i) /\ ~(j < i - 1)
      BY <2>1, <2>6, SMTT(30)
    <3>2. p.headers[s[h]] = Header(NextOf(s, h), ClassSize[k])
      BY <1>3, <3>1, SMTT(30)
    <3> QED BY <2>2, <2>3, <3>1, <3>2
  <2> QED BY <2>1, <2>4, <2>5, <2>6, SMTT(30)
<1> QED BY <1>1, <1>6, <1>7, SMTT(30) DEF Linked

-----------------------------------------------------------------------------
(* What the operations do to all lists. *)

(* A chunk made at a, away from the listed chunks. *)
LEMMA NewRepresents ==
  ASSUME NEW m, NEW L \in [Classes -> Seq(Nat)], Represents(m, L),
         NEW a \in Addresses, NEW n \in Nat, ClearOf(L, a, MIN_SIZE)
  PROVE  /\ Represents(new_at_address(m, a, n), L)
         /\ new_at_address(m, a, n).headers[a] = Header(Null, n)
<1>1. m \in Memories
  BY DEF Represents
<1>2. PICK p : p = new_at_address(m, a, n)
  OBVIOUS
<1>3. /\ p \in Memories
      /\ p.heads = m.heads
      /\ p.headers[a] = Header(Null, n)
      /\ \A x \in Addresses \ {a} :
           x + MIN_SIZE <= a \/ a + MIN_SIZE <= x => p.headers[x] = m.headers[x]
  BY <1>1, <1>2, NewFacts, SMTT(30)
<1>4. ASSUME NEW j \in Classes PROVE Linked(p, j, L[j])
  <2>1. Linked(m, j, L[j])
    BY DEF Represents
  <2>2. \A i \in 1 .. Len(L[j]) : p.headers[L[j][i]] = m.headers[L[j][i]]
    BY <1>3 DEF ClearOf
  <2> QED BY <1>3, <2>1, <2>2, LinkedStill, SMTT(30)
<1> QED BY <1>2, <1>3, <1>4, SMTT(30) DEF Represents

(* A chunk made at a, away from the listed chunks, and pushed. *)
LEMMA PushRepresents ==
  ASSUME NEW m, NEW L \in [Classes -> Seq(Nat)], Represents(m, L), NEW k \in Classes,
         NEW a \in Addresses, ClearOf(L, a, MIN_SIZE)
  PROVE  Represents(push_node(new_at_address(m, a, ClassSize[k]), k, a),
                    [L EXCEPT ![k] = push_front(@, a)])
<1>1. ClassSize[k] \in Nat /\ a \in Nat
  BY AddressFacts
<1>2. PICK n : n = new_at_address(m, a, ClassSize[k])
  OBVIOUS
<1>3. Represents(n, L) /\ n.headers[a] = Header(Null, ClassSize[k])
  BY <1>1, <1>2, NewRepresents, Zenon
<1>4. n \in Memories /\ n.headers[a].size = ClassSize[k]
  BY <1>3 DEF Represents, Header
<1>5. PICK p : p = push_node(n, k, a)
  OBVIOUS
<1>6. /\ p \in Memories
      /\ p.heads[k] = a
      /\ \A j \in Classes \ {k} : p.heads[j] = n.heads[j]
      /\ p.headers[a] = Header(n.heads[k], ClassSize[k])
      /\ \A x \in Addresses \ {a} : p.headers[x] = n.headers[x]
  BY <1>4, <1>5, PushFacts, SMTT(30)
<1>7. ASSUME NEW j \in Classes
      PROVE  Linked(n, j, L[j]) /\ \A i \in 1 .. Len(L[j]) : p.headers[L[j][i]] = n.headers[L[j][i]]
  BY <1>3, <1>6 DEF Represents, ClearOf
<1>8. PICK M : M = [L EXCEPT ![k] = push_front(@, a)]
  BY Zenon
<1>9. M[k] = push_front(L[k], a) /\ \A j \in Classes \ {k} : M[j] = L[j]
  BY <1>8
<1>10. Linked(p, k, M[k])
  <2>1. PICK s \in Seq(Nat) : s = L[k]
    OBVIOUS
  <2>2. Linked(n, k, s) /\ \A i \in 1 .. Len(s) : p.headers[s[i]] = n.headers[s[i]]
    BY <1>7, <2>1
  <2>3. p.heads[k] = a /\ p.headers[a] = Header(n.heads[k], ClassSize[k])
    BY <1>6
  <2>4. Linked(p, k, push_front(s, a))
    BY <1>1, <2>2, <2>3, LinkedPush, Zenon
  <2> QED BY <1>9, <2>1, <2>4
<1>11. \A j \in Classes \ {k} : Linked(p, j, M[j])
  BY <1>6, <1>7, <1>9, LinkedStill
<1>12. Represents(p, M)
  BY <1>6, <1>10, <1>11 DEF Represents
<1> QED BY <1>2, <1>5, <1>8, <1>12, SMTT(30)

(* The head points to the first chunk. *)
LEMMA HeadIsFirst ==
  ASSUME NEW m, NEW L \in [Classes -> Seq(Nat)], Represents(m, L), NEW k \in Classes, L[k] # << >>
  PROVE  m.heads[k] = Head(L[k])
<1>1. PICK s \in Seq(Nat) : s = L[k] /\ s # << >>
  OBVIOUS
<1>2. Len(s) \in Nat \ {0} /\ Head(s) = s[1]
  BY <1>1, EmptySeq, LenProperties, SMTT(30)
<1>3. m.heads[k] = NextOf(s, 0)
  BY <1>1 DEF Represents, Linked
<1> QED BY <1>1, <1>2, <1>3 DEF NextOf

(* The first chunk of list k popped, which is on no other list. *)
LEMMA PopRepresents ==
  ASSUME NEW m, NEW L \in [Classes -> Seq(Nat)], Represents(m, L), NEW k \in Classes,
         L[k] # << >>, IsInjective(L[k]), NEW a, a = Head(L[k]),
         \A j \in Classes : \A i \in 1 .. Len(L[j]) : L[j][i] \in Addresses,
         \A j \in Classes \ {k} : \A i \in 1 .. Len(L[j]) : L[j][i] # a
  PROVE  Represents(pop_front(m, k), [L EXCEPT ![k] = Tail(@)])
<1>1. m \in Memories /\ \A j \in Classes : Linked(m, j, L[j])
  BY DEF Represents
<1>2. PICK s \in Seq(Nat) : s = L[k]
  OBVIOUS
<1>3. Len(s) \in Nat \ {0} /\ DOMAIN s = 1 .. Len(s)
  BY <1>2, EmptySeq, LenProperties, SMTT(30)
<1>4. a = s[1]
  BY <1>2, <1>3
<1>5. m.heads[k] = a /\ a \in Addresses
  <2>1. m.heads[k] = NextOf(s, 0)
    BY <1>1, <1>2 DEF Linked
  <2> QED BY <1>2, <1>3, <1>4, <2>1, SMTT(30) DEF NextOf
<1>6. PICK p : p = pop_front(m, k)
  OBVIOUS
<1>7. /\ p \in Memories
      /\ p.heads[k] = m.headers[m.heads[k]].next
      /\ \A j \in Classes \ {k} : p.heads[j] = m.heads[j]
      /\ \A x \in Addresses \ {a} : p.headers[x] = m.headers[x]
  BY <1>1, <1>5, <1>6, PopFacts, SMTT(30)
<1>8. PICK M : M = [L EXCEPT ![k] = Tail(@)]
  BY ZenonT(40)
<1>9. M[k] = Tail(s) /\ \A j \in Classes \ {k} : M[j] = L[j]
  BY <1>2, <1>8
<1>10. Linked(p, k, M[k])
  <2>1. \A i \in 2 .. Len(s) : s[i] # a /\ s[i] \in Addresses
    BY <1>2, <1>3, <1>4, SMTT(30) DEF IsInjective
  <2>2. \A i \in 2 .. Len(s) : p.headers[s[i]] = m.headers[s[i]]
    BY <1>7, <2>1, SMTT(30)
  <2>3. s # << >> /\ Linked(m, k, s)
    BY <1>1, <1>2, SMTT(30)
  <2> QED BY <1>7, <1>9, <2>2, <2>3, LinkedPop
<1>11. ASSUME NEW j \in Classes \ {k} PROVE Linked(p, j, M[j])
  <2>1. \A i \in 1 .. Len(L[j]) : p.headers[L[j][i]] = m.headers[L[j][i]]
    BY <1>7, SMTT(30)
  <2> QED BY <1>1, <1>7, <1>9, <2>1, LinkedStill, SMTT(30)
<1>12. Represents(p, M)
  BY <1>7, <1>10, <1>11, SMTT(30) DEF Represents
<1> QED BY <1>5, <1>6, <1>8, <1>12, SMTT(30)

(* n bytes at a written, away from the listed chunks. *)
LEMMA OverwriteRepresents ==
  ASSUME NEW m, NEW L \in [Classes -> Seq(Nat)], Represents(m, L),
         NEW a \in Addresses, NEW n \in Nat, ClearOf(L, a, n)
  PROVE  Represents([m EXCEPT !.headers = Overwrite(@, a, n)], L)
<1>1. /\ m \in Memories
      /\ m.heads \in [Classes -> Nat]
      /\ m.headers \in [Addresses -> [next : Nat, size : Nat]]
      /\ m = [heads |-> m.heads, headers |-> m.headers]
  BY DEF Represents, Memories
<1>2. PICK h : h = Overwrite(m.headers, a, n)
  OBVIOUS
<1>3. /\ h \in [Addresses -> [next : Nat, size : Nat]]
      /\ \A x \in Addresses : ~(x < a + n /\ a < x + MIN_SIZE) => h[x] = m.headers[x]
  BY <1>1, <1>2, OverwriteFacts, SMTT(30)
<1>4. PICK p : p = [heads |-> m.heads, headers |-> h]
  BY Zenon
<1>5. [m EXCEPT !.headers = Overwrite(@, a, n)] = p
  BY <1>1, <1>2, <1>4
<1>6. p \in Memories /\ p.heads = m.heads /\ p.headers = h
  BY <1>1, <1>3, <1>4, SMTT(30) DEF Memories
<1>7. ASSUME NEW j \in Classes PROVE Linked(p, j, L[j])
  <2>1. ASSUME NEW i \in 1 .. Len(L[j]) PROVE p.headers[L[j][i]] = m.headers[L[j][i]]
    <3>1. PICK x \in Addresses : x = L[j][i] /\ (x + MIN_SIZE <= a \/ a + n <= x)
      BY DEF ClearOf
    <3>2. ~(x < a + n /\ a < x + MIN_SIZE)
      BY <3>1, AddressFacts, SMTT(30)
    <3> QED BY <1>3, <1>6, <3>1, <3>2, SMTT(30)
  <2>2. Linked(m, j, L[j])
    BY DEF Represents
  <2> QED BY <1>6, <2>1, <2>2, LinkedStill, SMTT(30)
<1> QED BY <1>5, <1>6, <1>7, Zenon DEF Represents

(* The entry at i of list k unlinked, which is on no other list. *)
LEMMA RemoveRepresents ==
  ASSUME NEW m, NEW L \in [Classes -> Seq(Nat)], Represents(m, L), NEW k \in Classes,
         IsInjective(L[k]), Len(L[k]) <= HeapSize, NEW i \in 1 .. Len(L[k]),
         \A j \in Classes : \A h \in 1 .. Len(L[j]) : L[j][h] \in Addresses,
         \A j \in Classes \ {k} : \A h \in 1 .. Len(L[j]), g \in 1 .. Len(L[k]) : L[j][h] # L[k][g]
  PROVE  Represents(remove(m, k, L[k][i]), [L EXCEPT ![k] = WithoutIndex(@, i)])
<1>1. m \in Memories /\ \A j \in Classes : Linked(m, j, L[j])
  BY DEF Represents
<1>2. PICK s \in Seq(Nat) : s = L[k]
  OBVIOUS
<1>3. Len(s) \in Nat /\ DOMAIN s = 1 .. Len(s) /\ IsInjective(s)
  BY <1>2, LenProperties
<1>4. \A h \in 1 .. Len(s) : s[h] \in Addresses /\ s[h] # Null
  BY <1>2, AddressFacts
<1>5. Chain(m, k) = s
  BY <1>1, <1>2, <1>4, ChainIsList, SMTT(30)
<1>index. PICK e \in 1 .. Len(s) : e = i
  BY <1>2
<1>6. PICK p : p = remove(m, k, s[e])
  OBVIOUS
<1>7. Unlinks(m, p, k, s, e)
  <2>1. m \in Memories /\ IsInjective(s) /\ \A j \in 1 .. Len(s) : s[j] \in Addresses
    BY <1>1, <1>3, <1>4
  <2> QED BY <1>5, <1>6, <2>1, RemoveFacts, SMTT(30)
<1>8. PICK M : M = [L EXCEPT ![k] = WithoutIndex(@, i)]
  BY Zenon
<1>9. M[k] = WithoutIndex(s, e) /\ \A j \in Classes \ {k} : M[j] = L[j]
  BY <1>2, <1>index, <1>8
<1>10. Linked(p, k, M[k])
  <2>1. ASSUME NEW h \in 1 .. Len(s), h # e, h # e - 1 PROVE p.headers[s[h]] = m.headers[s[h]]
    <3>1. ASSUME e # 1 PROVE s[h] # s[e - 1]
      <4>1. PICK d \in DOMAIN s : d = e - 1 /\ d # h
        BY <1>3, <2>1, <3>1
      <4> QED BY <1>3, <4>1, Zenon DEF IsInjective
    <3> QED BY <1>4, <1>7, <3>1, SMTT(30) DEF Unlinks
  <2>2. Linked(m, k, s)
    BY <1>1, <1>2, SMTT(30)
  <2>3. Linked(p, k, WithoutIndex(s, e))
    BY <1>7, <2>1, <2>2, LinkedRemove, Zenon DEF Unlinks
  <2> QED BY <1>9, <2>3
<1>11. ASSUME NEW j \in Classes \ {k} PROVE Linked(p, j, M[j])
  <2>1. ASSUME NEW h \in 1 .. Len(L[j]) PROVE p.headers[L[j][h]] = m.headers[L[j][h]]
    <3>1. e # 1 => L[j][h] # s[e - 1]
      BY <1>2, <1>3, SMTT(30)
    <3> QED BY <1>7, <3>1, Zenon DEF Unlinks
  <2> QED BY <1>1, <1>7, <1>9, <2>1, LinkedStill, SMTT(30) DEF Unlinks
<1>12. Represents(p, M)
  BY <1>7, <1>10, <1>11, SMTT(30) DEF Represents, Unlinks
<1> QED BY <1>2, <1>6, <1>8, <1>12, <1>index, SMTT(30)

-----------------------------------------------------------------------------
(* Where the chunks of the lists are. *)

(* An entry of a list is a placed chunk of its class. *)
LEMMA Entries ==
  ASSUME SafetyInv
  PROVE  /\ buddies \in [Classes -> Seq(Nat)]
         /\ \A k \in Classes : \A i \in 1 .. Len(buddies[k]) :
              buddies[k][i] \in Free(k) /\ buddies[k][i] \in Addresses
         /\ \A k \in Classes : \A a \in Free(k) : a \in Addresses /\ Placed(a, k)
<1>1. buddies \in [Classes -> Seq(Nat)]
  BY DEF SafetyInv, TypeOK
<1>2. ASSUME NEW k \in Classes, NEW a \in Free(k) PROVE a \in Addresses /\ Placed(a, k)
  <2>1. Placed(a, k)
    BY DEF SafetyInv, ChunksPlaced
  <2>2. a \in Nat /\ ClassSize[k] \in Nat \ {0}
    BY <1>1, RangeOfSeq, Sizes, SMTT(30) DEF Free
  <2> QED BY <2>1, <2>2, AddressFacts, SMTT(30) DEF Placed, Addresses
<1>3. ASSUME NEW k \in Classes, NEW i \in 1 .. Len(buddies[k]) PROVE buddies[k][i] \in Free(k)
  BY <1>1, RangeEquality, SMTT(30) DEF Free
<1> QED BY <1>1, <1>2, <1>3, SMTT(30)

(* f maps the numbers up to n to different ones of the d numbers from a. *)
Packs(f, n, a, d) ==
  /\ f \in [1 .. n -> Nat]
  /\ \A i \in 1 .. n : a <= f[i] /\ f[i] < a + d
  /\ \A i, j \in 1 .. n : f[i] = f[j] => i = j

(* Without the last of them, the ones above it can move down by one. *)
LEMMA PackTighter ==
  ASSUME NEW n \in Nat, NEW a \in Nat, NEW d \in Nat, NEW f, Packs(f, n + 1, a, d)
  PROVE  \E c \in Nat : d = c + 1 /\ \E g : Packs(g, n, a, c)
<1>1. n + 1 \in 1 .. n + 1 /\ \A i \in 1 .. n : i \in 1 .. n + 1 /\ i # n + 1
  OBVIOUS
<1>2. PICK v \in Nat : v = f[n + 1] /\ a <= v /\ v < a + d
  BY <1>1, Zenon DEF Packs
<1>3. d - 1 \in Nat /\ d = (d - 1) + 1
  BY <1>2
<1>4. PICK c \in Nat : d = c + 1
  BY <1>3
<1>5. PICK g : g = [i \in 1 .. n |-> IF f[i] > v THEN f[i] - 1 ELSE f[i]]
  BY Zenon
<1>6. ASSUME NEW i \in 1 .. n
      PROVE  /\ f[i] \in Nat /\ a <= f[i] /\ f[i] < a + d /\ f[i] # v
             /\ g[i] = IF f[i] > v THEN f[i] - 1 ELSE f[i]
  <2>1. f[i] \in Nat /\ a <= f[i] /\ f[i] < a + d /\ f[i] # v
    BY <1>1, <1>2, Zenon DEF Packs
  <2>2. g[i] = IF f[i] > v THEN f[i] - 1 ELSE f[i]
    BY <1>5, Zenon
  <2> QED BY <2>1, <2>2
<1>7. ASSUME NEW i \in 1 .. n PROVE g[i] \in Nat /\ a <= g[i] /\ g[i] < a + c
  BY <1>2, <1>4, <1>6
<1>8. ASSUME NEW i \in 1 .. n, NEW j \in 1 .. n, g[i] = g[j] PROVE i = j
  <2>1. f[i] = f[j]
    BY <1>2, <1>6, <1>8
  <2> QED BY <1>1, <2>1, Zenon DEF Packs
<1>9. g \in [1 .. n -> Nat]
  BY <1>5, <1>7
<1>10. Packs(g, n, a, c)
  BY <1>7, <1>8, <1>9, Zenon DEF Packs
<1> QED BY <1>4, <1>10

(* There are no more different numbers between two bounds than fit there. *)
LEMMA Pigeonhole ==
  ASSUME NEW n \in Nat, NEW a \in Nat, NEW d \in Nat, NEW f, Packs(f, n, a, d)
  PROVE  n <= d
<1> DEFINE S == {m \in Nat : \A e \in Nat : \A g : Packs(g, m, a, e) => m <= e}
<1>1. 0 \in S
  OBVIOUS
<1>2. ASSUME NEW m \in Nat, m \in S PROVE m + 1 \in S
  <2>1. ASSUME NEW e \in Nat, NEW g, Packs(g, m + 1, a, e) PROVE m + 1 <= e
    <3>1. PICK c \in Nat : e = c + 1 /\ \E h : Packs(h, m, a, c)
      BY <2>1, PackTighter, Zenon
    <3>2. m <= c
      BY <1>2, <3>1, Zenon
    <3> QED BY <3>1, <3>2
  <2>2. m + 1 \in Nat
    OBVIOUS
  <2> QED BY <2>1, <2>2, Zenon
<1>3. n \in S
  <2> HIDE DEF S
  <2> QED BY <1>1, <1>2, SetInduction, Zenon
<1> QED BY <1>3, Zenon

(* A list has at most one chunk for every byte of the heap. *)
LEMMA ListsShort ==
  ASSUME SafetyInv, NEW k \in Classes
  PROVE  Len(buddies[k]) <= HeapSize
<1>1. PICK s \in Seq(Nat) : s = buddies[k]
  BY Entries
<1>2. IsInjective(s) /\ \A i \in 1 .. Len(s) : s[i] \in Addresses
  BY <1>1, Entries DEF SafetyInv, ListsDistinct
<1>3. PICK n \in Nat : n = Len(s)
  BY LenProperties
<1>4. HeapStart \in Nat /\ HeapSize \in Nat /\ Addresses = HeapStart .. HeapStart + HeapSize - 1
  BY HeapAssumption, SMTT(30) DEF Addresses, HeapEnd
<1>5. s \in [1 .. n -> Nat] /\ \A i \in 1 .. n : HeapStart <= s[i] /\ s[i] < HeapStart + HeapSize
  BY <1>2, <1>3, <1>4, LenProperties, SMTT(30)
<1>6. Packs(s, n, HeapStart, HeapSize)
  BY <1>2, <1>5, SMTT(30) DEF IsInjective, Packs
<1>7. n <= HeapSize
  BY <1>4, <1>6, Pigeonhole, Zenon
<1> QED BY <1>1, <1>3, <1>7, Zenon

(* No address is on two lists. *)
LEMMA OnOneList ==
  ASSUME SafetyInv, NEW j \in Classes, NEW k \in Classes, j # k,
         NEW a \in Free(j), NEW b \in Free(k)
  PROVE  a # b
<1>1. <<a, j>> # <<b, k>>
  OBVIOUS
<1>2. Apart(a, ClassSize[j], b, ClassSize[k])
  BY <1>1 DEF SafetyInv, FreeChunksApart
<1>3. a \in Nat /\ b \in Nat
  BY Entries, AddressFacts, SMTT(30)
<1> QED BY <1>2, <1>3, Sizes, SMTT(30) DEF Apart

(* Bytes of a chunk apart from the free ones are clear of their headers. *)
LEMMA ApartIsClear ==
  ASSUME SafetyInv, HeadersFit, NEW a \in Nat, NEW c \in Nat \ {0}, ApartFromFree(a, c),
         NEW n \in Nat, n <= c
  PROVE  ClearOf(buddies, a, n)
<1> SUFFICES ASSUME NEW k \in Classes, NEW x \in Free(k), x \in Addresses
             PROVE  x # a /\ (x + MIN_SIZE <= a \/ a + n <= x)
  BY Entries DEF ClearOf
<1>1. ClassSize[k] >= MIN_SIZE
  BY DEF HeadersFit
<1>2. Apart(a, c, x, ClassSize[k])
  BY DEF ApartFromFree
<1> QED BY <1>1, <1>2, AddressFacts, Sizes, SMTT(30) DEF Apart

(* With the first chunk of a list popped, its bytes are clear of headers. *)
LEMMA PoppedIsClear ==
  ASSUME SafetyInv, HeadersFit, NEW k \in Classes, buddies[k] # << >>, NEW a \in Nat,
         a = Head(buddies[k]), NEW b \in Nat, NEW n \in Nat,
         a <= b, b < a + ClassSize[k], b + n <= a + ClassSize[k]
  PROVE  ClearOf([buddies EXCEPT ![k] = Tail(@)], b, n)
<1>1. buddies \in [Classes -> Seq(Nat)] /\ IsInjective(buddies[k])
  BY Entries DEF SafetyInv, ListsDistinct
<1>2. PICK L : L = [buddies EXCEPT ![k] = Tail(@)]
  BY Zenon
<1>3. a \in Free(k) /\ L[k] \in Seq(Nat) /\ Range(L[k]) = Free(k) \ {a}
  BY <1>1, <1>2, PopFront DEF Free
<1>4. \A j \in Classes \ {k} : L[j] = buddies[j]
  BY <1>1, <1>2
<1>5. ASSUME NEW j \in Classes, NEW i \in 1 .. Len(L[j])
      PROVE  L[j][i] \in Free(j) /\ <<L[j][i], j>> # <<a, k>>
  <2>1. CASE j = k
    BY <1>3, <2>1, RangeEquality, SMTT(30)
  <2>2. CASE j # k
    BY <1>4, <2>2, Entries, SMTT(30)
  <2> QED BY <2>1, <2>2, SMTT(30)
<1>6. ASSUME NEW j \in Classes, NEW x \in Free(j), <<x, j>> # <<a, k>>
      PROVE  x \in Addresses /\ x # b /\ (x + MIN_SIZE <= b \/ b + n <= x)
  <2>1. Apart(x, ClassSize[j], a, ClassSize[k])
    BY <1>3, <1>6, SMTT(30) DEF SafetyInv, FreeChunksApart
  <2>2. ClassSize[j] >= MIN_SIZE
    BY DEF HeadersFit
  <2>3. x \in Addresses /\ x \in Nat /\ MIN_SIZE \in Nat
    BY Entries, AddressFacts, SMTT(30)
  <2>4. PICK c \in Nat \ {0}, d \in Nat \ {0} : c = ClassSize[j] /\ d = ClassSize[k]
    BY Sizes, Zenon
  <2>5. x + c <= a \/ a + d <= x
    BY <2>1, <2>4 DEF Apart
  <2>6. c >= MIN_SIZE /\ a <= b /\ b < a + d /\ b + n <= a + d
    BY <2>2, <2>4
  <2> QED BY <2>3, <2>5, <2>6, SMTT(30)
<1> QED BY <1>2, <1>5, <1>6, Zenon DEF ClearOf

(* A chunk pushed below b leaves the bytes at b clear. *)
LEMMA PushedIsClear ==
  ASSUME NEW L \in [Classes -> Seq(Nat)], NEW k \in Classes, NEW a \in Addresses, NEW b \in Nat,
         NEW n, ClearOf(L, b, n), a < b, a + MIN_SIZE <= b
  PROVE  ClearOf([L EXCEPT ![k] = push_front(@, a)], b, n)
<1>1. PICK M : M = [L EXCEPT ![k] = push_front(@, a)]
  BY Zenon
<1>2. PICK s \in Seq(Nat) : s = L[k]
  OBVIOUS
<1>3. M[k] = push_front(s, a) /\ \A j \in Classes \ {k} : M[j] = L[j]
  BY <1>1, <1>2
<1>4. a \in Nat /\ Len(s) \in Nat
  BY AddressFacts, LenProperties
<1>5. ASSUME NEW i \in 1 .. Len(M[k]) PROVE M[k][i] = a \/ \E h \in 1 .. Len(s) : M[k][i] = s[h]
  <2>1. Len(M[k]) = Len(s) + 1 /\ M[k][1] = a /\ \A h \in 1 .. Len(s) : M[k][h + 1] = s[h]
    <3>1. PICK t : t = push_front(s, a)
      OBVIOUS
    <3>2. Len(t) = Len(s) + 1 /\ t[1] = a /\ \A h \in 1 .. Len(s) : t[h + 1] = s[h]
      BY <1>4, <3>1, PushFrontAt, Zenon
    <3> QED BY <1>3, <3>1, <3>2, SMTT(30)
  <2>2. CASE i # 1
    <3>1. i - 1 \in 1 .. Len(s) /\ (i - 1) + 1 = i
      BY <1>4, <2>1, <2>2
    <3> QED BY <2>1, <3>1, Zenon
  <2> QED BY <2>1, <2>2, SMTT(30)
<1>6. ASSUME NEW j \in Classes, NEW i \in 1 .. Len(M[j])
      PROVE  M[j][i] \in Addresses \ {b} /\ (M[j][i] + MIN_SIZE <= b \/ b + n <= M[j][i])
  <2>1. CASE j = k
    <3>1. \A h \in 1 .. Len(s) : s[h] \in Addresses \ {b} /\ (s[h] + MIN_SIZE <= b \/ b + n <= s[h])
      BY <1>2 DEF ClearOf
    <3>2. CASE M[j][i] = a
      BY <1>4, <3>2
    <3> QED BY <1>5, <2>1, <3>1, <3>2, Zenon
  <2>2. CASE j # k
    BY <1>3, <2>2, SMTT(30) DEF ClearOf
  <2> QED BY <2>1, <2>2, SMTT(30)
<1> QED BY <1>1, <1>6 DEF ClearOf

-----------------------------------------------------------------------------
(* One lemma per action that changes the pointers. *)

(* The chunk add_region makes has one class. *)
LEMMA ChunkClassUnique ==
  ASSUME NEW x, NEW k \in Classes, NEW j \in Classes, IsChunkClass(x, k), IsChunkClass(x, j)
  PROVE  k = j
<1>1. ~(k < j) /\ ~(j < k)
  BY OrderAssumption DEF IsChunkClass, Classes
<1> QED BY <1>1, Sizes

(* The heap without free chunks. *)
LEMMA PointerInitHolds == PointerInit => PointersInv
<1> SUFFICES ASSUME PointerInit PROVE PointersInv
  OBVIOUS
<1>1. mem \in Memories
  BY DEF PointerInit, Memories, Garbage, Header, Null
<1>2. \A k \in Classes : mem.heads[k] = Null /\ buddies[k] = << >>
  BY DEF PointerInit, Init
<1>3. \A k \in Classes : Linked(mem, k, buddies[k])
  BY <1>2, SMTT(30) DEF Linked, NextOf
<1> QED BY <1>1, <1>3 DEF PointersInv, Represents

(* add_region: the chunk made at current_start is above all others. *)
LEMMA AddPointers ==
  ASSUME SafetyInv, HeadersFit, PointersInv, add_region_chunk
  PROVE  PointersInv'
<1>1. PICK k \in Classes :
        /\ IsChunkClass(region, k)
        /\ buddies' = [buddies EXCEPT ![k] = push_front(@, region)]
  BY Zenon DEF add_region_chunk, add_region
<1>2. PICK j \in Classes :
        /\ IsChunkClass(region, j)
        /\ mem' = push_node(new_at_address(mem, region, ClassSize[j]), j, region)
  BY DEF add_region_chunk
<1>3. mem' = push_node(new_at_address(mem, region, ClassSize[k]), k, region)
  BY <1>1, <1>2, ChunkClassUnique
<1>4. /\ region \in Addresses
      /\ \A m \in Classes : \A a \in Free(m) : a + ClassSize[m] <= region
  BY HeapAssumption DEF add_region_chunk, add_region, SafetyInv, AddingRegion, TypeOK, Addresses, HeapEnd
<1>5. ASSUME NEW m \in Classes, NEW a \in Free(m), a \in Addresses
      PROVE  a # region /\ a + MIN_SIZE <= region
  <2>1. ClassSize[m] >= MIN_SIZE /\ a + ClassSize[m] <= region
    BY <1>4 DEF HeadersFit
  <2> QED BY <1>4, <1>5, <2>1, AddressFacts, Sizes, SMTT(30)
<1>6. ClearOf(buddies, region, MIN_SIZE)
  BY <1>5, Entries, SMTT(30) DEF ClearOf
<1>7. buddies \in [Classes -> Seq(Nat)] /\ Represents(mem, buddies)
  BY Entries, SMTT(30) DEF PointersInv
<1>8. Represents(mem', buddies')
  BY <1>1, <1>3, <1>4, <1>6, <1>7, PushRepresents, Zenon
<1> QED BY <1>8 DEF PointersInv, Represents, Memories, Linked

(* split: one chunk popped, its halves made and pushed on the list below. *)
LEMMA SplitPointers ==
  ASSUME SafetyInv, HeadersFit, HeadersFit', PointersInv, split_chunk
  PROVE  PointersInv'
<1>1. split
  BY DEF split_chunk
<1>2. PICK hi \in Classes, low \in Classes, a \in Nat, c \in Nat \ {0} :
        /\ hi = level /\ low + 1 = hi
        /\ c = ClassSize[low] /\ ClassSize[hi] = 2 * c
        /\ a = Head(buddies[hi]) /\ a \in Free(hi)
        /\ Free(low)' = Free(low) \cup {a, a + c}
  BY <1>1, SplitChunks, SMTT(30)
<1>3. low = level - 1 /\ low # hi /\ buddies[hi] # << >>
  BY <1>1, <1>2, Sizes, SMTT(30) DEF split, SafetyInv, Splitting
<1>4. PICK b \in Nat : b = a + c
  OBVIOUS
<1>5. a \in Addresses /\ b \in Addresses /\ c >= MIN_SIZE
  <2>1. a \in Addresses /\ Placed(a, hi)
    BY <1>2, Entries
  <2>2. c >= MIN_SIZE
    BY <1>2 DEF HeadersFit
  <2> QED BY <1>2, <1>4, <2>1, <2>2, AddressFacts, SMTT(30) DEF Placed, Addresses
<1>6. /\ buddies \in [Classes -> Seq(Nat)] /\ IsInjective(buddies[hi])
      /\ Represents(mem, buddies)
  BY Entries DEF SafetyInv, ListsDistinct, PointersInv
<1>7. \A j \in Classes : \A i \in 1 .. Len(buddies[j]) : buddies[j][i] \in Addresses
  BY Entries
<1>others. \A j \in Classes \ {hi} : \A i \in 1 .. Len(buddies[j]) : buddies[j][i] # a
  BY <1>2, Entries, OnOneList, SMTT(30)
<1>8. PICK L1 : L1 = [buddies EXCEPT ![hi] = Tail(@)]
  BY ZenonT(40)
<1>9. PICK m1 : m1 = pop_front(mem, hi)
  OBVIOUS
<1>10. mem.heads[hi] = a /\ Represents(m1, L1)
  <2>1. a = Head(buddies[hi]) /\ buddies[hi] # << >>
    BY <1>2, <1>3, SMTT(30)
  <2>2. mem.heads[hi] = a
    BY <1>6, <2>1, HeadIsFirst, SMTT(30)
  <2>3. Represents(pop_front(mem, hi), [buddies EXCEPT ![hi] = Tail(@)])
    BY <1>6, <1>7, <1>others, <2>1, PopRepresents, ZenonT(40)
  <2> QED BY <1>8, <1>9, <2>2, <2>3
<1>11. L1 \in [Classes -> Seq(Nat)] /\ ClearOf(L1, a, MIN_SIZE) /\ ClearOf(L1, b, MIN_SIZE)
  <2>1. Tail(buddies[hi]) \in Seq(Nat)
    BY <1>3, <1>6, PopFront
  <2>2. L1 \in [Classes -> Seq(Nat)]
    BY <1>6, <1>8, <2>1, SMTT(30)
  <2>3. MIN_SIZE \in Nat /\ a + MIN_SIZE <= a + ClassSize[hi] /\ a < a + ClassSize[hi] /\ a <= a
    BY <1>2, <1>5, AddressFacts, SMTT(30)
  <2>4. a <= b /\ b + MIN_SIZE <= a + ClassSize[hi] /\ b < a + ClassSize[hi]
    BY <1>2, <1>4, <1>5, AddressFacts, SMTT(30)
  <2>5. ClearOf(L1, a, MIN_SIZE)
    BY <1>2, <1>3, <1>8, <2>3, PoppedIsClear, Zenon
  <2>6. ClearOf(L1, b, MIN_SIZE)
    BY <1>2, <1>3, <1>8, <2>3, <2>4, PoppedIsClear, Zenon
  <2> QED BY <2>2, <2>5, <2>6
<1>12. PICK L2 : L2 = [L1 EXCEPT ![low] = push_front(@, a)]
  BY Zenon
<1>13. PICK m2 : m2 = push_node(new_at_address(m1, a, ClassSize[low]), low, a)
  OBVIOUS
<1>14. Represents(m2, L2)
  BY <1>5, <1>10, <1>11, <1>12, <1>13, PushRepresents, Zenon
<1>15. L2 \in [Classes -> Seq(Nat)] /\ ClearOf(L2, b, MIN_SIZE)
  <2>1. L2 \in [Classes -> Seq(Nat)]
    <3>1. push_front(L1[low], a) \in Seq(Nat)
      BY <1>11, PushFrontAt, SMTT(30)
    <3> QED BY <1>11, <1>12, <3>1
  <2>2. a < b /\ a + MIN_SIZE <= b
    BY <1>4, <1>5, AddressFacts, SMTT(30)
  <2> QED BY <1>5, <1>11, <1>12, <2>1, <2>2, PushedIsClear, ZenonT(40)
<1>16. PICK L3 : L3 = [L2 EXCEPT ![low] = push_front(@, b)]
  BY Zenon
<1>17. PICK m3 : m3 = push_node(new_at_address(m2, b, ClassSize[low]), low, b)
  OBVIOUS
<1>18. Represents(m3, L3)
  BY <1>5, <1>14, <1>15, <1>16, <1>17, PushRepresents, ZenonT(40)
<1>19. buddies' = L3
  <2>1. buddies' = [buddies EXCEPT ![hi] = Tail(@), ![low] = push_front(push_front(@, a), b)]
    BY <1>1, <1>2, <1>3, <1>4, ZenonT(40) DEF split
  <2> QED BY <1>3, <1>6, <1>8, <1>12, <1>16, <2>1, Zenon
<1>20. mem' = m3
  BY <1>2, <1>3, <1>4, <1>9, <1>10, <1>13, <1>17 DEF split_chunk
<1> QED BY <1>18, <1>19, <1>20, SMTT(30) DEF PointersInv, Represents, Memories, Linked

(* alloc: the chunk leaves its list, and its owner writes no header but    *)
(* the one it had.                                                         *)
LEMMA ReturnPointers ==
  ASSUME SafetyInv, HeadersFit, PointersInv, alloc_return_chunk
  PROVE  PointersInv'
<1>1. alloc_return
  BY DEF alloc_return_chunk
<1>2. PICK k \in Classes, a \in Nat :
        /\ k = class /\ IsSizeClass(layout, k) /\ layout \in Layouts
        /\ a = Head(buddies[k]) /\ a \in Free(k) /\ Placed(a, k)
  BY <1>1, ReturnedChunk
<1>3. buddies[k] # << >>
  BY <1>1, <1>2, SMTT(30) DEF alloc_return, SafetyInv, Splitting
<1>4. PICK n \in Nat : n = layout.size /\ n <= ClassSize[k]
  BY <1>2, LayoutFacts, Sizes, SMTT(30) DEF IsSizeClass, Fits
<1>5. /\ buddies \in [Classes -> Seq(Nat)] /\ IsInjective(buddies[k])
      /\ Represents(mem, buddies) /\ a \in Addresses
  BY <1>2, Entries, SMTT(30) DEF SafetyInv, ListsDistinct, PointersInv
<1>6. \A j \in Classes : \A i \in 1 .. Len(buddies[j]) : buddies[j][i] \in Addresses
  BY Entries, SMTT(30)
<1>others. \A j \in Classes \ {k} : \A i \in 1 .. Len(buddies[j]) : buddies[j][i] # a
  BY <1>2, Entries, OnOneList, SMTT(30)
<1>7. PICK L : L = [buddies EXCEPT ![k] = Tail(@)]
  BY Zenon
<1>8. PICK m : m = pop_front(mem, k)
  OBVIOUS
<1>9. mem.heads[k] = a /\ Represents(m, L)
  <2>1. a = Head(buddies[k])
    BY <1>2, SMTT(30)
  <2>2. mem.heads[k] = a
    BY <1>3, <1>5, <2>1, HeadIsFirst, SMTT(30)
  <2>3. Represents(pop_front(mem, k), [buddies EXCEPT ![k] = Tail(@)])
    BY <1>3, <1>5, <1>6, <1>others, <2>1, PopRepresents, ZenonT(40)
  <2> QED BY <1>7, <1>8, <2>2, <2>3
<1>10. L \in [Classes -> Seq(Nat)] /\ ClearOf(L, a, n)
  <2>1. Tail(buddies[k]) \in Seq(Nat)
    BY <1>3, <1>5, PopFront
  <2>2. L \in [Classes -> Seq(Nat)]
    BY <1>5, <1>7, <2>1, SMTT(30)
  <2>3. a <= a /\ a < a + ClassSize[k] /\ a + n <= a + ClassSize[k]
    BY <1>4, Sizes, SMTT(30)
  <2>4. ClearOf(L, a, n)
    BY <1>2, <1>3, <1>7, <2>3, PoppedIsClear, Zenon
  <2> QED BY <2>2, <2>4
<1>11. Represents([m EXCEPT !.headers = Overwrite(@, a, n)], L)
  BY <1>5, <1>9, <1>10, OverwriteRepresents
<1>12. buddies' = L
  BY <1>1, <1>2, <1>7, SMTT(30) DEF alloc_return
<1>13. mem' = [m EXCEPT !.headers = Overwrite(@, a, n)]
  BY <1>2, <1>4, <1>8, <1>9, SMTT(30) DEF alloc_return_chunk
<1> QED BY <1>11, <1>12, <1>13, ZenonT(40) DEF PointersInv, Represents, Memories, Linked

(* dealloc: the header is written into the block that comes back. *)
LEMMA DeallocPointers ==
  ASSUME SafetyInv, HeadersFit, PointersInv, NEW block \in allocated, dealloc_chunk(block)
  PROVE  PointersInv'
<1>1. PICK k \in Classes : IsSizeClass(block.layout, k) /\ level' = k
  BY DEF dealloc_chunk, dealloc
<1>2. HasClass(block, k) /\ block.start \in Nat
  BY <1>1, SMTT(30) DEF HasClass, SafetyInv, TypeOK
<1>3. PICK a \in Nat, c \in Nat \ {0} : a = block.start /\ c = ClassSize[k]
  BY <1>2, Sizes, SMTT(30)
<1>4. ApartFromFree(a, c) /\ MIN_SIZE <= c
  BY <1>1, <1>2, <1>3, ZenonT(40) DEF SafetyInv, BlocksApart, IsSizeClass, Fits
<1>5. a \in Addresses
  <2>1. PICK j \in Classes : HasClass(block, j) /\ Placed(block.start, j)
    BY DEF SafetyInv, ChunksPlaced
  <2>2. j = k
    BY <1>1, <2>1, SizeClassUnique, SMTT(30) DEF HasClass
  <2> QED BY <1>3, <2>1, <2>2, AddressFacts DEF Placed, Addresses
<1>6. ClearOf(buddies, a, MIN_SIZE)
  BY <1>4, AddressFacts, ApartIsClear, SMTT(30)
<1>7. buddies \in [Classes -> Seq(Nat)] /\ Represents(mem, buddies)
  BY Entries, SMTT(30) DEF PointersInv
<1>8. Represents(new_at_address(mem, a, c), buddies)
  BY <1>5, <1>6, <1>7, NewRepresents, ZenonT(40)
<1>9. mem' = new_at_address(mem, a, c) /\ buddies' = buddies
  BY <1>1, <1>3, SMTT(30) DEF dealloc_chunk, dealloc
<1> QED BY <1>8, <1>9, SMTT(30) DEF PointersInv, Represents, Memories, Linked

(* dealloc: the buddy is unlinked from the list of its class. *)
LEMMA MergePointers ==
  ASSUME SafetyInv, PointersInv, merge_chunk
  PROVE  PointersInv'
<1>1. PICK k \in Classes : k = level
  BY OrderAssumption, SMTT(30) DEF merge_chunk, merge, SafetyInv, TypeOK, Classes
<1>2. PICK i \in 1 .. Len(buddies[k]) :
        /\ buddies[k][i] = BuddyOf(region, k)
        /\ buddies' = [buddies EXCEPT ![k] = WithoutIndex(@, i)]
  BY <1>1, Zenon DEF merge_chunk, merge, IsFirstAt
<1>3. /\ buddies \in [Classes -> Seq(Nat)] /\ IsInjective(buddies[k])
      /\ Represents(mem, buddies) /\ Len(buddies[k]) <= HeapSize
  BY Entries, ListsShort DEF SafetyInv, ListsDistinct, PointersInv
<1>4. \A j \in Classes : \A h \in 1 .. Len(buddies[j]) : buddies[j][h] \in Addresses
  BY Entries
<1>5. \A j \in Classes \ {k} : \A h \in 1 .. Len(buddies[j]), g \in 1 .. Len(buddies[k]) :
        buddies[j][h] # buddies[k][g]
  BY Entries, OnOneList, SMTT(30)
<1>6. Represents(remove(mem, k, buddies[k][i]), [buddies EXCEPT ![k] = WithoutIndex(@, i)])
  BY <1>3, <1>4, <1>5, RemoveRepresents, ZenonT(40)
<1>7. mem' = remove(mem, k, buddies[k][i])
  BY <1>1, <1>2 DEF merge_chunk
<1> QED BY <1>2, <1>6, <1>7, SMTT(30) DEF PointersInv, Represents, Memories, Linked

(* dealloc: the merged chunk is made and pushed. *)
LEMMA MergeDonePointers ==
  ASSUME SafetyInv, HeadersFit, HeadersFit', PointersInv, merge_done_chunk
  PROVE  PointersInv'
<1>1. PICK k \in Classes, a \in Nat, c \in Nat \ {0} : k = level /\ a = region /\ c = ClassSize[k]
  <2>1. level \in Classes /\ region \in Nat
    BY OrderAssumption, SMTT(30) DEF merge_done_chunk, merge_done, SafetyInv, TypeOK, Classes
  <2> QED BY <2>1, Sizes, SMTT(30)
<1>2. Placed(a, k) /\ ApartFromFree(a, c)
  BY <1>1, SMTT(30) DEF merge_done_chunk, merge_done, SafetyInv, Merging
<1>3. buddies \in [Classes -> Seq(Nat)] /\ Represents(mem, buddies)
  BY Entries, SMTT(30) DEF PointersInv
<1>4. buddies' = [buddies EXCEPT ![k] = push_front(@, a)]
  BY <1>1, SMTT(30) DEF merge_done_chunk, merge_done
<1>5. a \in Free(k)'
  <2>1. buddies'[k] = push_front(buddies[k], a)
    BY <1>3, <1>4, SMTT(30)
  <2> QED BY <1>3, <2>1, PushFront, SMTT(30) DEF Free
<1>6. MIN_SIZE <= c
  BY <1>1, <1>5, SMTT(30) DEF HeadersFit
<1>7. ClearOf(buddies, a, MIN_SIZE)
  BY <1>2, <1>6, AddressFacts, ApartIsClear, SMTT(30)
<1>8. a \in Addresses
  BY <1>1, <1>2, AddressFacts, SMTT(30) DEF Placed, Addresses
<1>9. mem' = push_node(new_at_address(mem, a, ClassSize[k]), k, a)
  BY <1>1, SMTT(30) DEF merge_done_chunk
<1>10. Represents(mem', buddies')
  BY <1>3, <1>4, <1>7, <1>8, <1>9, PushRepresents, ZenonT(40)
<1> QED BY <1>10, SMTT(30) DEF PointersInv, Represents, Memories, Linked

(* Every step keeps the pointers equal to the lists. *)
LEMMA NextPointers ==
  SafetyInv /\ HeadersFit /\ HeadersFit' /\ PointersInv /\ [PointerNext]_pointerVars => PointersInv'
<1> SUFFICES ASSUME SafetyInv, HeadersFit, HeadersFit', PointersInv, [PointerNext]_pointerVars
             PROVE  PointersInv'
  OBVIOUS
<1>1. CASE add_region_chunk
  BY <1>1, AddPointers
<1>2. CASE split_chunk
  BY <1>2, SplitPointers, SMTT(30)
<1>3. CASE alloc_return_chunk
  BY <1>3, ReturnPointers
<1>4. CASE merge_chunk
  BY <1>4, MergePointers, SMTT(30)
<1>5. CASE merge_done_chunk
  BY <1>5, MergeDonePointers
<1>6. CASE \E block \in allocated : dealloc_chunk(block)
  BY <1>6, DeallocPointers, SMTT(30)
<1>7. CASE UNCHANGED <<buddies, mem>>
  BY <1>7, SMTT(30) DEF PointersInv, Represents, Memories, Linked
<1>8. CASE /\ init_done \/ merge_past_end \/ panic
              \/ \E l \in Layouts : alloc(l) \/ alloc_none(l) \/ alloc_too_large(l)
           /\ UNCHANGED mem
  BY <1>7, <1>8 DEF init_done, merge_past_end, panic, vars, alloc, alloc_none, alloc_too_large
<1>9. CASE UNCHANGED pointerVars
  BY <1>7, <1>9 DEF pointerVars, vars
<1> QED BY <1>1, <1>2, <1>3, <1>4, <1>5, <1>6, <1>8, <1>9 DEF PointerNext

(* A step with its pointers is a step of the allocator. *)
LEMMA PointerStep == [PointerNext]_pointerVars => [Next]_vars
BY DEF PointerNext, pointerVars, Next, add_region_chunk, split_chunk, alloc_return_chunk,
       merge_chunk, merge_done_chunk, dealloc_chunk

(* The walk along the headers meets the chunks of the list. *)
LEMMA WalkMeetsList == SafetyInv /\ PointersInv => ListsRepresent
<1> SUFFICES ASSUME SafetyInv, PointersInv, NEW k \in Classes
             PROVE  /\ Chain(mem, k) = buddies[k]
                    /\ \A a \in Free(k) : mem.headers[a].size = ClassSize[k]
  BY DEF ListsRepresent
<1>1. PICK s \in Seq(Nat) : s = buddies[k]
  BY Entries
<1>2. Linked(mem, k, s) /\ Len(s) <= HeapSize
  BY <1>1, ListsShort, SMTT(30) DEF PointersInv, Represents
<1>3. \A i \in 1 .. Len(s) : s[i] # Null
  BY <1>1, Entries, AddressFacts, SMTT(30)
<1>4. Chain(mem, k) = s
  BY <1>2, <1>3, ChainIsList, SMTT(30)
<1>5. ASSUME NEW i \in 1 .. Len(s) PROVE mem.headers[s[i]].size = ClassSize[k]
  <2>1. PICK n : mem.headers[s[i]] = Header(n, ClassSize[k])
    BY <1>2 DEF Linked
  <2> QED BY <2>1, SMTT(30) DEF Header
<1>6. Free(k) = {s[i] : i \in 1 .. Len(s)}
  BY <1>1, RangeEquality, SMTT(30) DEF Free
<1> QED BY <1>1, <1>4, <1>5, <1>6, SMTT(30)

(* From every head a walk along the headers meets the chunks of the class, *)
(* whatever callers write into their blocks: alloc and dealloc keep their  *)
(* pointers in the memory they hand out, for every heap that consists of   *)
(* chunks a header fits into (the kernel's is whole pages).                *)
THEOREM PointersAreLists ==
  (\E g \in Classes : Grained(g)) /\ PointerSpec => []ListsRepresent
<1> SUFFICES ASSUME \E g \in Classes : Grained(g) PROVE PointerSpec => []ListsRepresent
  OBVIOUS
<1>1. PointerSpec => Spec
  BY PointerStep, PTL DEF PointerSpec, PointerInit, Spec
<1>2. Spec => []HeadersFit
  BY HeadersHaveRoom, PointerAssumption, SMTT(30)
<1>3. PointerSpec => []PointersInv
  BY <1>1, <1>2, Safety, PointerInitHolds, NextPointers, PTL DEF PointerSpec
<1> QED BY <1>1, <1>3, Safety, WalkMeetsList, PTL
=============================================================================
