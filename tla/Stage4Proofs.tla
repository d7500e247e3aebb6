---------------------------- MODULE Stage4Proofs ----------------------------
(***************************************************************************)
(* Proofs about Stage4: every call leaves the tables a tree, the tree      *)
(* implements an address space, and the CPU sees that address space.       *)
(***************************************************************************)
EXTENDS Stage4, PageTablesProofs

-----------------------------------------------------------------------------
(* Calls, seen from outside: there is a tree, and translate answers.       *)

HasTree(mem, n) == \E tab : Tree(mem, n, tab)

(* A call on page changes the answer for page only, by mapping a page that *)
(* is not mapped or by unmapping one that is.                              *)
SpaceStep(mem, mem2, page) ==
  /\ \A q \in Pages : q # page => TranslateIn(mem2, q) = TranslateIn(mem, q)
  /\ \/ TranslateIn(mem2, page) = TranslateIn(mem, page)
     \/ TranslateIn(mem, page) = Unused /\ TranslateIn(mem2, page) \in Entries
     \/ TranslateIn(mem, page) # Unused /\ TranslateIn(mem2, page) = Unused

(* What the tree keeps of a page translate keeps. *)
LEMMA KeepsTranslate ==
  ASSUME NEW mem, NEW n, NEW tab, Tree(mem, n, tab), NEW mem2, NEW n2, NEW tab2, Tree(mem2, n2, tab2),
         NEW but, Keeps(mem, tab, mem2, tab2, but), NEW q \in Pages, q \notin but
  PROVE  TranslateIn(mem2, q) = TranslateIn(mem, q)
<1>1. PICK p \in Seq(Index), i \in Index : p = NameOf(q) /\ i = LeafIndex(q) /\ Append(p, i) = q
  BY PageName
<1>2. Lookup(mem2, tab2, p, i) = Lookup(mem, tab, p, i)
  BY <1>1, Zenon DEF Keeps
<1>3. Mapped(mem2, tab2, q) = Mapped(mem, tab, q)
  BY <1>1, <1>2 DEF Mapped
<1>4. TranslateIn(mem2, q) = Mapped(mem2, tab2, q) /\ TranslateIn(mem, q) = Mapped(mem, tab, q)
  BY TranslateIs
<1> QED BY <1>3, <1>4

(* An allocation by somebody else leaves the tree as it is. *)
LEMMA Later ==
  ASSUME NEW mem, NEW n, HasTree(mem, n), n < Len(TableFrames), NEW m, m = n + 1
  PROVE  HasTree(mem, m)
<1>1. PICK tab : Tree(mem, n, tab)
  BY SMTT(30) DEF HasTree
<1>2. n \in Nat /\ n <= Len(TableFrames) /\ Len(TableFrames) \in Nat /\ m \in 0 .. Len(TableFrames)
  BY <1>1, PagesAssumption, LenProperties, SMTT(60) DEF Tree
<1>3. \A p \in DOMAIN tab : InUse(tab[p], m)
  <2> SUFFICES ASSUME NEW p \in DOMAIN tab PROVE InUse(tab[p], m)
    OBVIOUS
  <2>1. InUse(tab[p], n)
    BY <1>1 DEF Tree
  <2> QED BY <1>2, <2>1, FrameFacts
<1> QED BY <1>1, <1>2, <1>3, Zenon DEF HasTree, Tree

(* map_to. *)
LEMMA MapStep ==
  ASSUME NEW mem, NEW n, HasTree(mem, n), NEW page \in Pages, NEW frame \in Frames,
         NEW flags, flags \subseteq Flags \ {"HUGE_PAGE"},
         NEW w, w = mapping(mem, page, n, frame, flags)
  PROVE  w.ok \in BOOLEAN /\ HasTree(w.memory, w.next) /\ SpaceStep(mem, w.memory, page)
<1>1. PICK tab : Tree(mem, n, tab)
  BY DEF HasTree
<1>2. w.ok \in BOOLEAN /\ MapsTo(mem, tab, page, frame, flags, w)
  BY <1>1, Maps
<1>3. PICK mem2, n2, ok : mem2 = w.memory /\ n2 = w.next /\ ok = w.ok
  OBVIOUS
<1>4. PICK t, but, e :
        /\ but = (IF ok THEN {page} ELSE {})
        /\ e = IF "PRESENT" \in flags
               THEN [address |-> frame, flags |-> flags \cup SizeFlag(page)] ELSE Unused
        /\ Tree(mem2, n2, t) /\ Keeps(mem, tab, mem2, t, but)
        /\ ok => Mapped(mem, tab, page) = Unused /\ Mapped(mem2, t, page) = e
  BY <1>2, <1>3 DEF MapsTo
<1>5. e \in Entries
  <2>1. flags \cup SizeFlag(page) \in SUBSET Flags
    BY DEF SizeFlag, Flags
  <2>2. [address |-> frame, flags |-> flags \cup SizeFlag(page)] \in Entries
    BY <2>1 DEF Entries
  <2> QED BY <1>4, <2>2, EntryFacts
<1>6. \A q \in Pages : q \notin but => TranslateIn(mem2, q) = TranslateIn(mem, q)
  BY <1>1, <1>4, KeepsTranslate
<1>7. TranslateIn(mem, page) = Mapped(mem, tab, page) /\ TranslateIn(mem2, page) = Mapped(mem2, t, page)
  BY <1>1, <1>4, TranslateIs
<1>8. SpaceStep(mem, mem2, page)
  <2>1. CASE ok
    BY <1>4, <1>5, <1>6, <1>7, <2>1, SMTT(30) DEF SpaceStep
  <2>2. CASE ~ ok
    BY <1>4, <1>6, <2>2, SMTT(30) DEF SpaceStep
  <2> QED BY <2>1, <2>2, SMTT(30)
<1>9. HasTree(mem2, n2)
  BY <1>4, SMTT(30) DEF HasTree
<1> QED BY <1>2, <1>3, <1>8, <1>9

(* A page's entry is cleared. *)
LEMMA Clears ==
  ASSUME NEW mem, NEW n, NEW tab, Tree(mem, n, tab), NEW p \in DOMAIN tab, NEW i \in Index,
         NEW page, page = Append(p, i), page \in Pages,
         NEW mem2, Wrote(mem, tab[p], i, Unused, mem2)
  PROVE  /\ Tree(mem2, n, tab) /\ Keeps(mem, tab, mem2, tab, {page})
         /\ Lookup(mem2, tab, p, i) = Unused
<1>1. /\ Unused \in Entries /\ ~ is_present(Unused)
      /\ Len(p) < 3 => Unused = Unused \/ "HUGE_PAGE" \in Unused.flags
      /\ Len(p) = 3 => "HUGE_PAGE" \notin Unused.flags
  BY EntryFacts, Zenon
<1>2. Rewrites(mem, n, tab, page, p, i, Unused, mem2)
  BY <1>1, Writes, ZenonT(40)
<1> QED BY <1>1, <1>2, Zenon DEF Rewrites

(* The table and the index of a page. *)
Names(page, p, i) == p = NameOf(page) /\ i = LeafIndex(page) /\ i \in Index /\ page = Append(p, i)

(* Such a write unmaps the page. *)
LEMMA Unmaps ==
  ASSUME NEW mem, NEW n, NEW tab, Tree(mem, n, tab), NEW page \in Pages,
         TranslateIn(mem, page) # Unused, NEW p \in DOMAIN tab, NEW i, Names(page, p, i),
         NEW mem2, Wrote(mem, tab[p], i, Unused, mem2)
  PROVE  HasTree(mem2, n) /\ SpaceStep(mem, mem2, page)
<1>1. i \in Index /\ page = Append(p, i)
  BY DEF Names
<1>2. /\ Tree(mem2, n, tab) /\ Keeps(mem, tab, mem2, tab, {page})
      /\ Lookup(mem2, tab, p, i) = Unused
  BY <1>1, Clears, Zenon
<1>3. TranslateIn(mem2, page) = Unused
  BY <1>2, TranslateIs DEF Mapped, Names
<1>4. \A q \in Pages : q # page => TranslateIn(mem2, q) = TranslateIn(mem, q)
  BY <1>2, KeepsTranslate
<1> QED BY <1>2, <1>3, <1>4 DEF HasTree, SpaceStep

(* unmap of a page that is mapped. *)
LEMMA UnmapStep ==
  ASSUME NEW mem, NEW n, HasTree(mem, n), NEW page \in Pages, TranslateIn(mem, page) # Unused,
         NEW t, t = PathIn(mem, page)[Len(page) - 1].address, NEW i, i = LeafIndex(page),
         NEW mem2, mem2 = [mem EXCEPT ![t][i] = Unused]
  PROVE  HasTree(mem2, n) /\ SpaceStep(mem, mem2, page)
<1>1. PICK tab : Tree(mem, n, tab)
  BY DEF HasTree
<1>2. PICK p \in Seq(Index) : p = NameOf(page) /\ Names(page, p, i) /\ i \in Index
  BY PageName DEF Names
<1>3. TranslateIn(mem, page) = Mapped(mem, tab, page)
  BY <1>1, TranslateIs, SMTT(30)
<1>4. p \in DOMAIN tab
  BY <1>2, <1>3, SMTT(30) DEF Lookup, Mapped, Names
<1>5. PathIn(mem, page)[Len(page) - 1] = Inner(tab[p])
  <2>1. PathTo(mem, tab, page)
    BY <1>1, Paths
  <2> QED BY <1>2, <1>4, <2>1 DEF PathTo
<1>6. t = tab[p] /\ t \in Frames
  BY <1>1, <1>4, <1>5, TreeFacts DEF Inner
<1>7. Unused \in Entries /\ ~ is_present(Unused) /\ "HUGE_PAGE" \notin Unused.flags
  BY EntryFacts, SMTT(30)
<1>8. Wrote(mem, t, i, Unused, mem2)
  <2>1. mem \in [Frames -> [Index -> Entries]]
    BY <1>1, Zenon DEF Tree
  <2> QED BY <1>2, <1>6, <1>7, <2>1, WriteEntry, ZenonT(40)
<1>9. Wrote(mem, tab[p], i, Unused, mem2)
  BY <1>6, <1>8, SMTT(30)
<1> QED BY <1>1, <1>2, <1>4, <1>9, Unmaps, SMTT(30)

-----------------------------------------------------------------------------
(* The calls of stage 4 and of the kernel. *)

LEMMA SuitsBoth ==
  ASSUME NEW a, Suits(a), NEW b, Suits(b)
  PROVE  Suits(a \o b) /\ Len(a \o b) = Len(a) + Len(b) /\ Len(a) \in Nat /\ Len(b) \in Nat
<1>1. a \in Seq(CallSet) /\ b \in Seq(CallSet)
  BY DEF Suits
<1>2. PICK c : c = a \o b
  BY Zenon
<1>3. PICK m \in Nat, k \in Nat : m = Len(a) /\ k = Len(b)
  BY <1>1, LenProperties
<1>4. /\ c \in Seq(CallSet) /\ Len(c) = m + k
      /\ \A j \in 1 .. m + k : c[j] = IF j <= m THEN a[j] ELSE b[j - m]
  BY <1>1, <1>2, <1>3, ConcatProperties
<1>5. ASSUME NEW j \in 1 .. m + k PROVE PagesOf(c[j]) \subseteq Pages
  <2>1. CASE j <= m
    <3>1. j \in 1 .. Len(a) /\ c[j] = a[j]
      BY <1>3, <1>4, <2>1, SMTT(30)
    <3> QED BY <3>1 DEF Suits
  <2>2. CASE ~ j <= m
    <3>1. PICK i : i = j - m
      OBVIOUS
    <3>2. i \in 1 .. Len(b) /\ c[j] = b[i]
      BY <1>3, <1>4, <2>2, <3>1
    <3> QED BY <3>2 DEF Suits
  <2> QED BY <2>1, <2>2
<1> QED BY <1>2, <1>3, <1>4, <1>5, SMTT(30) DEF Suits

(* The calls suit, and stage 4 makes some of them. *)
LEMMA CallsSuit ==
  ASSUME switch \in ContextSwitches
  PROVE  /\ Suits(Calls) /\ Len(Calls) \in Nat /\ Len(Stage4Calls) \in Nat
         /\ 0 < Len(Stage4Calls) /\ Len(Stage4Calls) <= Len(Calls)
<1>1. PICK a, b, c, d, e, f, g :
        /\ a = load_kernel /\ b = allocate_and_map_stack
        /\ c = identity_map_context_switch_function(switch)
        /\ d = initialize_and_map_gdt /\ e = allocate_and_map_boot_info
        /\ f = map_complete_physical_memory_space_into_kernel /\ g = init_heap
  OBVIOUS
<1>2. Suits(a) /\ Suits(b) /\ Suits(c) /\ Suits(d) /\ Suits(e) /\ Suits(f) /\ Suits(g)
  BY <1>1, CallsAssumption
<1>3. Len(d) = 1
  BY <1>1 DEF initialize_and_map_gdt
<1>4. PICK ab, abc, abcd, abcde, all, both :
        /\ ab = a \o b /\ abc = ab \o c /\ abcd = abc \o d /\ abcde = abcd \o e
        /\ all = abcde \o f /\ both = all \o g
  BY Zenon
<1>5. Stage4Calls = all /\ Calls = both
  BY <1>1, <1>4 DEF Stage4Calls, Calls
<1>6. Suits(abc)
  BY <1>2, <1>4, SuitsBoth, SMTT(30)
<1>7. Suits(abcd) /\ Len(abcd) = Len(abc) + Len(d) /\ Len(abc) \in Nat
  BY <1>2, <1>4, <1>6, SuitsBoth, SMTT(30)
<1>8. Suits(abcde) /\ Len(abcde) = Len(abcd) + Len(e) /\ Len(e) \in Nat
  BY <1>2, <1>4, <1>7, SuitsBoth, SMTT(30)
<1>9. Suits(all) /\ Len(all) = Len(abcde) + Len(f) /\ Len(f) \in Nat
  BY <1>2, <1>4, <1>8, SuitsBoth, SMTT(30)
<1>10. Suits(both) /\ Len(both) = Len(all) + Len(g) /\ Len(g) \in Nat
  BY <1>2, <1>4, <1>9, SuitsBoth
<1> QED BY <1>3, <1>5, <1>7, <1>8, <1>9, <1>10, SMTT(30)

(* The call that is next. *)
LEMMA NextSuits ==
  ASSUME switch \in ContextSwitches, used \in Seq(Frames), Calling
  PROVE  NextCall \in CallSet /\ PagesOf(NextCall) \subseteq Pages /\ ~ Booted
<1>1. PICK m \in Nat, k \in Nat, h \in Nat :
        m = Len(used) /\ k = Len(Stage4Calls) /\ h = Len(Calls) /\ k <= h
  BY CallsSuit, LenProperties
<1>2. m < h
  BY <1>1 DEF Calling
<1>3. m + 1 \in 1 .. Len(Calls) /\ NextCall = Calls[m + 1]
  BY <1>1, <1>2 DEF NextCall
<1>4. Calls \in Seq(CallSet) /\ PagesOf(Calls[m + 1]) \subseteq Pages
  BY <1>3, CallsSuit DEF Suits
<1>5. NextCall \in CallSet
  BY <1>3, <1>4, ElementOfSeq, SMTT(30)
<1> QED BY <1>1, <1>2, <1>3, <1>4, <1>5 DEF Booted

(* What a call asks for. *)
LEMMA CallFacts ==
  ASSUME NEW c \in CallSet, PagesOf(c) \subseteq Pages, next \in 0 .. Len(TableFrames), ~ Missing(c)
  PROVE  /\ PageOf(c) \in Pages /\ Frame(c) \in Frames /\ c.new \in BOOLEAN
         /\ c.flags \subseteq Flags \ {"HUGE_PAGE"}
         /\ c.new => next < Len(TableFrames)
<1>1. c.new \in BOOLEAN /\ c.frame \in Frames /\ c.flags \subseteq Flags \ {"HUGE_PAGE"}
  BY DEF CallSet
<1>2. PICK m \in Nat : m = Len(TableFrames) /\ next \in Nat /\ next <= m
  BY PagesAssumption, LenProperties
<1>3. c.new => next < m /\ next + 1 \in 1 .. Len(TableFrames)
  BY <1>1, <1>2, SMTT(30) DEF Missing
<1>4. c.new => TableFrames[next + 1] \in Frames
  BY <1>3, PagesAssumption, ElementOfSeq, SMTT(30)
<1>5. PageOf(c) \in PagesOf(c)
  BY <1>1, <1>3, SMTT(30) DEF PageOf, PagesOf, Frame
<1> QED BY <1>1, <1>2, <1>3, <1>4, <1>5, SMTT(30) DEF Frame

-----------------------------------------------------------------------------
(* The inductive invariant: a tree, registers that are set before the      *)
(* first call, and a TLB that holds nothing before the boot is over and    *)
(* what the tables say after it.                                           *)
Enabled == LongMode \cup {"NO_EXECUTE_ENABLE", "WRITE_PROTECT"}

Fresh(cached, mem) ==
  \A t \in cached : /\ t[1] \in Pages /\ TranslateIn(mem, t[1]) # Unused
                    /\ TranslateIn(mem, t[1]) = t[2]

BootInv ==
  /\ switch \in ContextSwitches /\ used \in Seq(Frames)
  /\ control \in {LongMode, Enabled}
  /\ used # << >> \/ tables = "kernel" => control # LongMode
  /\ tlb # {} => Booted

Stage4Inv == HasTree(memory, next) /\ BootInv /\ Fresh(tlb, memory)

(* The mappings change by a call on one page, whose translation the TLB    *)
(* does not hold afterwards, or not at all.                                *)
Touches(page) == SpaceStep(memory, memory', page) /\ tlb' \subseteq flush(page)

LEMMA NextNumber ==
  ASSUME NEW n, NEW tab, NEW mem, Tree(mem, n, tab)
  PROVE  n \in 0 .. Len(TableFrames)
BY DEF Tree

LEMMA MapToTouches ==
  ASSUME HasTree(memory, next), BootInv, expect_map_to
  PROVE  HasTree(memory', next') /\ \E page \in Pages : Touches(page)
<1>1. PICK c : c = NextCall
  BY SMTT(30)
<1>2. Calling /\ ~ Missing(c) /\ next \in 0 .. Len(TableFrames)
  BY <1>1, NextNumber, SMTT(30) DEF expect_map_to, HasTree
<1>3. c \in CallSet /\ PagesOf(c) \subseteq Pages
  BY <1>1, <1>2, NextSuits, SMTT(30) DEF BootInv
<1>4. PICK page \in Pages, frame \in Frames, flags \in SUBSET Flags :
        /\ page = PageOf(c) /\ frame = Frame(c) /\ flags = c.flags
        /\ flags \subseteq Flags \ {"HUGE_PAGE"}
        /\ c.new \in BOOLEAN /\ (c.new => next < Len(TableFrames))
  BY <1>2, <1>3, CallFacts
<1>5. PICK n : n = IF c.new THEN next + 1 ELSE next
  OBVIOUS
<1>6. HasTree(memory, n)
  <2>1. CASE c.new
    BY <1>4, <1>5, <2>1, Later
  <2>2. CASE ~ c.new
    BY <1>5, <2>2
  <2> QED BY <2>1, <2>2, SMTT(30)
<1>7. PICK w : w = mapping(memory, page, n, frame, flags)
  BY SMTT(30)
<1>8. memory' = w.memory /\ next' = w.next /\ tlb' = flush(page)
  BY <1>1, <1>4, <1>5, <1>7, ZenonT(40) DEF expect_map_to
<1>9. HasTree(w.memory, w.next) /\ SpaceStep(memory, w.memory, page)
  BY <1>4, <1>6, <1>7, MapStep, ZenonT(40)
<1> QED BY <1>8, <1>9 DEF Touches

(* unmap, by either caller. *)
LEMMA UnmapTouches ==
  ASSUME HasTree(memory, next), NEW page \in Pages, unmap(page)
  PROVE  HasTree(memory', next') /\ SpaceStep(memory, memory', page)
<1>1. PICK t, i : t = PathIn(memory, page)[Len(page) - 1].address /\ i = LeafIndex(page)
  OBVIOUS
<1>2. t = LeafTable(page)
  BY <1>1, Zenon DEF LeafTable, Path, PathIn
<1>3. memory' = [memory EXCEPT ![t][i] = Unused] /\ next' = next
  BY <1>1, <1>2 DEF unmap
<1>4. TranslateIn(memory, page) # Unused
  BY TranslateReads DEF unmap, translates
<1> QED BY <1>1, <1>3, <1>4, UnmapStep, Zenon

LEMMA ExpectUnmapTouches ==
  ASSUME HasTree(memory, next), BootInv, expect_unmap
  PROVE  HasTree(memory', next') /\ \E page \in Pages : Touches(page)
<1>1. PICK c : c = NextCall
  OBVIOUS
<1>2. Calling /\ ~ Missing(c) /\ next \in 0 .. Len(TableFrames) /\ unmap(PageOf(c)) /\ tlb' = tlb
  BY <1>1, NextNumber DEF expect_unmap, HasTree
<1>3. c \in CallSet /\ PagesOf(c) \subseteq Pages /\ ~ Booted
  BY <1>1, <1>2, NextSuits, SMTT(30) DEF BootInv
<1>4. PICK page \in Pages : page = PageOf(c)
  BY <1>2, <1>3, CallFacts, SMTT(30)
<1>5. HasTree(memory', next') /\ SpaceStep(memory, memory', page)
  BY <1>2, <1>4, UnmapTouches
<1>6. tlb' \subseteq flush(page)
  BY <1>2, <1>3, SMTT(30) DEF BootInv
<1> QED BY <1>5, <1>6, SMTT(30) DEF Touches

LEMMA LaterTouches ==
  ASSUME HasTree(memory, next), later_call
  PROVE  /\ HasTree(memory', next')
         /\ \/ memory' = memory /\ tlb' \subseteq tlb
            \/ \E page \in Pages : Touches(page)
<1>1. PICK page \in FreePages : MapperCall(page) /\ tlb' = flush(page)
  BY DEF later_call
<1>2. page \in Pages /\ flush(page) \subseteq tlb
  BY SpaceAssumption DEF flush
<1>3. CASE unmap(page)
  BY <1>1, <1>2, <1>3, UnmapTouches DEF Touches
<1>4. CASE unmap_panic(page)
  <2>1. memory' = memory /\ next' = next
    BY <1>4 DEF unmap_panic
  <2> QED BY <1>1, <1>2, <2>1
<1>5. ASSUME NEW frame \in DataFrames, NEW flags \in CallerFlags, map_to(page, frame, flags)
      PROVE  HasTree(memory', next') /\ Touches(page)
  <2>1. frame \in Frames /\ flags \subseteq Flags \ {"HUGE_PAGE"}
    BY PagesAssumption
  <2>2. PICK w : w = mapping(memory, page, next, frame, flags)
    OBVIOUS
  <2>3. memory' = w.memory /\ next' = w.next
    BY <1>5, <2>2, SMTT(30) DEF map_to
  <2>4. HasTree(w.memory, w.next) /\ SpaceStep(memory, w.memory, page)
    BY <1>2, <2>1, <2>2, MapStep, SMTT(30)
  <2> QED BY <1>1, <2>3, <2>4, SMTT(30) DEF Touches
<1> QED BY <1>1, <1>2, <1>3, <1>4, <1>5, SMTT(30) DEF MapperCall

(* Every step. *)
LEMMA StepTouches ==
  ASSUME Stage4Inv, Stage4Next
  PROVE  /\ HasTree(memory', next')
         /\ memory' = memory \/ \E page \in Pages : Touches(page)
<1> USE DEF Stage4Inv
<1>1. CASE start \/ expect_frame \/ context_switch \/ translate_access
  <2>1. memory' = memory /\ next' = next
    BY <1>1 DEF start, expect_frame, context_switch, translate_access
  <2> QED BY <2>1, SMTT(30)
<1>2. CASE expect_map_to
  BY <1>2, MapToTouches
<1>3. CASE expect_unmap
  BY <1>3, ExpectUnmapTouches
<1>4. CASE later_call
  BY <1>4, LaterTouches, SMTT(30)
<1> QED BY <1>1, <1>2, <1>3, <1>4 DEF Stage4Next

LEMMA BootSteps ==
  ASSUME Stage4Inv, Stage4Next
  PROVE  BootInv'
<1> USE DEF Stage4Inv, BootInv
<1>1. switch' = switch
  BY DEF Stage4Next, start, expect_frame, expect_map_to, expect_unmap, context_switch, later_call,
         translate_access
<1>2. Calls' = Calls
  BY <1>1 DEF Calls, Stage4Calls
<1>3. LongMode # Enabled
  BY DEF LongMode, Enabled
<1>4. CASE start
  <2>1. control' = Enabled /\ UNCHANGED <<used, tables, tlb>>
    BY <1>4 DEF start, enable_nxe_bit, enable_write_protect_bit, Enabled
  <2> QED BY <1>1, <1>2, <1>3, <2>1, SMTT(30) DEF Booted
<1>5. CASE expect_frame
  BY <1>1, <1>2, <1>5 DEF expect_frame, Booted
<1>6. CASE expect_map_to \/ expect_unmap
  <2>1. PICK c : c = NextCall
    BY SMTT(30)
  <2>2. /\ Calling /\ ~ Missing(c) /\ next \in 0 .. Len(TableFrames)
        /\ control' = control /\ tables' = tables /\ tlb' \subseteq tlb
        /\ used' = used \/ used' = Append(used, Frame(c))
    BY <1>6, <2>1, NextNumber, SMTT(30) DEF expect_map_to, expect_unmap, HasTree, flush
  <2>3. c \in CallSet /\ PagesOf(c) \subseteq Pages /\ ~ Booted
    BY <2>1, <2>2, NextSuits, SMTT(30)
  <2>4. Frame(c) \in Frames
    BY <2>2, <2>3, CallFacts, ZenonT(40)
  <2>5. used' \in Seq(Frames)
    <3>1. PICK f \in Frames : f = Frame(c)
      BY <2>4
    <3>2. used' = used \/ used' = Append(used, f)
      BY <2>2, <3>1
    <3>3. used \in Seq(Frames)
      OBVIOUS
    <3>4. Append(used, f) \in Seq(Frames)
      BY <3>3, AppendProperties
    <3> QED BY <3>2, <3>3, <3>4
  <2>6. tlb' = {} /\ control # LongMode
    BY <2>2, <2>3, SMTT(30) DEF Calling
  <2> QED BY <1>1, <2>2, <2>5, <2>6
<1>7. CASE context_switch
  <2>1. /\ UNCHANGED <<control, used>> /\ tlb' = {} /\ Len(used) = Len(Stage4Calls)
    BY <1>7 DEF context_switch
  <2>2. used # << >>
    BY <2>1, CallsSuit, EmptySeq
  <2> QED BY <1>1, <2>1, <2>2, SMTT(30)
<1>8. CASE later_call \/ translate_access
  <2>1. UNCHANGED <<control, used, tables>> /\ Booted
    BY <1>8, SMTT(30) DEF later_call, translate_access
  <2> QED BY <1>1, <1>2, <2>1, SMTT(30) DEF Booted
<1> QED BY <1>4, <1>5, <1>6, <1>7, <1>8, SMTT(30) DEF Stage4Next

(* The TLB holds no translation that has changed. *)
LEMMA TlbFresh ==
  ASSUME Fresh(tlb, memory), NEW page \in Pages, Touches(page)
  PROVE  Fresh(tlb', memory')
<1> SUFFICES ASSUME NEW t \in tlb'
             PROVE  /\ t[1] \in Pages /\ TranslateIn(memory', t[1]) # Unused
                    /\ TranslateIn(memory', t[1]) = t[2]
  BY DEF Fresh
<1>1. t \in tlb /\ t[1] # page
  BY DEF Touches, flush
<1> QED BY <1>1, SMTT(30) DEF Touches, SpaceStep, Fresh

LEMMA TlbSteps ==
  ASSUME Stage4Inv, Stage4Next
  PROVE  Fresh(tlb', memory')
<1> USE DEF Stage4Inv
<1>1. CASE \E page \in Pages : Touches(page)
  BY <1>1, TlbFresh
<1>2. CASE memory' = memory /\ tlb' \subseteq tlb
  BY <1>2, SMTT(30) DEF Fresh
<1>3. CASE translate_access
  <2>1. PICK page \in FreePages : /\ Grants(page, "PRESENT") /\ memory' = memory
                                 /\ tlb' = tlb \cup {<<page, translate(page)>>}
    BY <1>3 DEF translate_access
  <2>2. page \in Pages
    BY SpaceAssumption
  <2>3. PICK tab : Tree(memory, next, tab)
    BY DEF HasTree
  <2>4. PICK e : e = Mapped(memory, tab, page)
    OBVIOUS
  <2>5. TranslateIn(memory, page) = e /\ translate(page) = e
    BY <2>2, <2>3, <2>4, TranslateIs, TranslateReads, SMTT(30)
  <2>6. GrantsIn(memory, page, "PRESENT")
    BY <2>1, <2>2, CpuReads, SMTT(30)
  <2>7. e # Unused
    BY <2>2, <2>3, <2>4, <2>6, CpuSees, Zenon
  <2>8. PICK t : t = <<page, e>>
    BY Zenon
  <2>9. tlb' = tlb \cup {t} /\ t[1] = page /\ t[2] = e
    BY <2>1, <2>5, <2>8
  <2> QED BY <2>1, <2>2, <2>5, <2>7, <2>9, SMTT(30) DEF Fresh
<1>4. CASE start \/ expect_frame \/ context_switch
  <2>1. memory' = memory /\ tlb' \subseteq tlb
    BY <1>4 DEF start, expect_frame, context_switch
  <2> QED BY <1>2, <2>1
<1>5. CASE expect_map_to
  BY <1>1, <1>5, MapToTouches
<1>6. CASE expect_unmap
  BY <1>1, <1>6, ExpectUnmapTouches
<1>7. CASE later_call
  BY <1>1, <1>2, <1>7, LaterTouches
<1> QED BY <1>3, <1>4, <1>5, <1>6, <1>7 DEF Stage4Next

-----------------------------------------------------------------------------
(* The first state: one table, and nothing is mapped. *)
LEMMA InitTree ==
  ASSUME Init
  PROVE  /\ HasTree(memory, next)
         /\ \A page \in Pages : TranslateIn(memory, page) = Unused
<1>1. PICK tab : tab = [p \in {<< >>} |-> Root]
  BY ZenonT(40)
<1>2. DOMAIN tab = {<< >>} /\ tab[<< >>] = Root
  BY <1>1
<1>3. /\ memory \in [Frames -> [Index -> Entries]] /\ next \in 0 .. Len(TableFrames)
      /\ \A i \in Index : memory[Root][i] = Unused
  <2>1. PICK content \in {empty, [i \in Index |-> [address |-> 0, flags |-> {"PRESENT"}]]} :
          memory = [f \in Frames |-> IF f = Root THEN empty ELSE content]
    BY SMTT(30) DEF Init
  <2>2. content \in [Index -> Entries]
    <3>1. [address |-> 0, flags |-> {"PRESENT"}] \in Entries
      BY PagesAssumption DEF Entries, Flags
    <3>2. [i \in Index |-> [address |-> 0, flags |-> {"PRESENT"}]] \in [Index -> Entries]
      BY <3>1
    <3> QED BY <2>1, <3>2, EntryFacts, ZenonT(40)
  <2>3. memory \in [Frames -> [Index -> Entries]]
    BY <2>1, <2>2, EntryFacts
  <2>4. memory[Root] = empty
    BY <2>1, PagesAssumption
  <2> QED BY <2>3, <2>4, EntryFacts DEF Init
<1>4. << >> \in Seq(Index) /\ Len(<< >>) = 0
  BY EmptySeq
<1>5. << >> \notin Pages
  <2>1. \A page \in Pages : Len(page) # 0
    BY PageCases
  <2> QED BY <1>4, <2>1
<1>6. \A p \in Seq(Index), i \in Index : Append(p, i) # << >>
  BY Named, SMTT(30)
<1>7. Tree(memory, next, tab)
  <2>1. \A i \in Index : Slot(memory, tab, << >>, i)
    BY <1>2, <1>3, <1>4, <1>6 DEF Slot
  <2>2. InUse(Root, next)
    BY DEF InUse
  <2> QED BY <1>2, <1>3, <1>4, <1>5, <1>6, <2>1, <2>2, SMTT(60) DEF Tree
<1>8. ASSUME NEW page \in Pages PROVE TranslateIn(memory, page) = Unused
  <2>1. NameOf(page) # << >>
    BY <1>4, PageName, SMTT(30)
  <2>2. Mapped(memory, tab, page) = Unused
    BY <1>2, <2>1 DEF Mapped, Lookup
  <2> QED BY <1>7, <2>2, TranslateIs
<1> QED BY <1>7, <1>8 DEF HasTree

(* The invariant holds. *)
THEOREM Stage4Correct == Stage4Spec => []Stage4Inv
<1>1. Stage4Init => Stage4Inv
  <2> SUFFICES ASSUME Stage4Init PROVE Stage4Inv
    OBVIOUS
  <2>1. HasTree(memory, next)
    BY InitTree DEF Stage4Init
  <2>2. used \in Seq(Frames)
    BY EmptySeq DEF Stage4Init
  <2> QED BY <2>1, <2>2 DEF Stage4Init, Stage4Inv, BootInv, Fresh
<1>2. Stage4Inv /\ [Stage4Next]_allVars => Stage4Inv'
  <2> SUFFICES ASSUME Stage4Inv, [Stage4Next]_allVars PROVE Stage4Inv'
    OBVIOUS
  <2>1. CASE Stage4Next
    BY <2>1, StepTouches, BootSteps, TlbSteps, SMTT(30) DEF Stage4Inv
  <2>2. CASE UNCHANGED allVars
    <3>1. Calls' = Calls
      BY <2>2 DEF allVars, Calls, Stage4Calls
    <3> QED BY <2>2, <3>1 DEF allVars, Stage4Inv, BootInv, Fresh, Booted
  <2> QED BY <2>1, <2>2
<1> QED BY <1>1, <1>2, PTL DEF Stage4Spec

(* The tables of stage 4 and of the kernel are a tree after every call of  *)
(* map_to and unmap, also one that fails half way.                         *)
THEOREM TablesAreTree == Stage4Spec => []TablesFormTree
<1>1. Stage4Inv => TablesFormTree
  BY TreeFormsTree, SMTT(30) DEF Stage4Inv, HasTree
<1> QED BY <1>1, Stage4Correct, PTL

(* What the CPU does with a page. *)
LEMMA CpuAgreesOn ==
  ASSUME Stage4Inv, tables = "kernel", NEW page \in Pages
  PROVE  /\ Valid(page) <=> translates(page)
         /\ translates(page) => (MayWrite(page) <=> "WRITABLE" \in translate(page).flags)
<1>1. PICK tab : Tree(memory, next, tab)
  BY DEF Stage4Inv, HasTree
<1>2. PICK e : e = Mapped(memory, tab, page)
  OBVIOUS
<1>3. translate(page) = e
  BY <1>1, <1>2, TranslateIs, TranslateReads, SMTT(30)
<1>4. /\ GrantsIn(memory, page, "PRESENT") <=> e # Unused
      /\ e # Unused => /\ GrantsIn(memory, page, "WRITABLE") <=> "WRITABLE" \in e.flags
                       /\ Len(page) = 4 => ForbidsIn(memory, page, "HUGE_PAGE")
  BY <1>1, <1>2, CpuSees, ZenonT(40)
<1>5. /\ Grants(page, "PRESENT") <=> e # Unused
      /\ e # Unused => /\ Grants(page, "WRITABLE") <=> "WRITABLE" \in e.flags
                       /\ Len(page) = 4 => Forbids(page, "HUGE_PAGE")
  BY <1>4, CpuReads
<1>6. "NO_EXECUTE_ENABLE" \in control /\ "WRITE_PROTECT" \in control
  BY DEF Stage4Inv, BootInv, Enabled
<1> QED BY <1>3, <1>5, <1>6, Zenon DEF Valid, MayWrite, translates

(* With the kernel's tables in CR3 the CPU reaches exactly the pages that  *)
(* translate finds, writes exactly those mapped WRITABLE, and its TLB      *)
(* holds no translation that a call of map_to or unmap has changed.        *)
THEOREM CpuSeesTables == Stage4Spec => []CpuAgrees
<1>1. Stage4Inv => CpuAgrees
  <2> SUFFICES ASSUME Stage4Inv, tables = "kernel"
               PROVE  /\ \A page \in Pages :
                           /\ Valid(page) <=> translates(page)
                           /\ translates(page) =>
                                (MayWrite(page) <=> "WRITABLE" \in translate(page).flags)
                      /\ \A t \in tlb : translates(t[1]) /\ translate(t[1]) = t[2]
    BY DEF CpuAgrees
  <2>1. ASSUME NEW t \in tlb PROVE translates(t[1]) /\ translate(t[1]) = t[2]
    <3>1. PICK page \in Pages : /\ page = t[1] /\ TranslateIn(memory, page) # Unused
                               /\ TranslateIn(memory, page) = t[2]
      BY DEF Stage4Inv, Fresh
    <3> QED BY <3>1, TranslateReads DEF translates
  <2> QED BY <2>1, CpuAgreesOn, SMTT(30)
<1> QED BY <1>1, Stage4Correct, PTL

-----------------------------------------------------------------------------
(* The refinement. *)

(* A call is a step of the address space. *)
LEMMA TouchIsStep ==
  ASSUME NEW page \in Pages, SpaceStep(memory, memory', page)
  PROVE  [Space!Next]_mappings
<1>1. PICK old, new : old = mappings /\ new = mappings'
  OBVIOUS
<1>2. /\ DOMAIN old = Pages /\ \A q \in Pages : old[q] = TranslateIn(memory, q)
      /\ old = [q \in Pages |-> old[q]]
  BY <1>1, TranslateReads DEF mappings
<1>3. /\ DOMAIN new = Pages /\ \A q \in Pages : new[q] = TranslateIn(memory', q)
      /\ new = [q \in Pages |-> new[q]]
  BY <1>1, TranslateReadsNext, SMTT(30) DEF mappings
<1>4. \A q \in Pages : q # page => new[q] = old[q]
  BY <1>2, <1>3, SMTT(30) DEF SpaceStep
<1>5. new = [old EXCEPT ![page] = new[page]]
  BY <1>2, <1>3, <1>4, SMTT(30)
<1>6. \/ new[page] = old[page]
      \/ old[page] = Unused /\ new[page] \in Entries
      \/ old[page] # Unused /\ new[page] = Unused
  BY <1>2, <1>3, SMTT(30) DEF SpaceStep
<1>7. new = old \/ Space!Map(old, new, page) \/ Space!Unmap(old, new, page)
  BY <1>2, <1>3, <1>4, <1>5, <1>6, SMTT(30) DEF Space!Map, Space!Unmap
<1> QED BY <1>1, <1>7 DEF Space!Next

(* The tables implement an address space: a call of map_to or unmap maps   *)
(* or unmaps its own page and leaves every other page as it was, whatever  *)
(* tables it has to make, and a call that fails changes no page.           *)
THEOREM TablesAreSpace == Stage4Spec => ImplementsAddressSpace
<1>1. Stage4Init => Space!Init
  <2> SUFFICES ASSUME Stage4Init PROVE mappings = [page \in Pages |-> Unused]
    BY DEF Space!Init
  <2>1. \A page \in Pages : translate(page) = Unused
    BY InitTree, TranslateReads DEF Stage4Init
  <2> QED BY <2>1 DEF mappings
<1>2. Stage4Inv /\ [Stage4Next]_allVars => [Space!Next]_mappings
  <2> SUFFICES ASSUME Stage4Inv, [Stage4Next]_allVars
               PROVE  [Space!Next]_mappings
    OBVIOUS
  <2>1. CASE memory' = memory
    <3>1. \A q \in Pages : translate(q)' = translate(q)
      BY <2>1, TranslateReads, TranslateReadsNext
    <3> QED BY <3>1 DEF mappings
  <2>2. CASE \E page \in Pages : Touches(page)
    BY <2>2, TouchIsStep DEF Touches
  <2> QED BY <2>1, <2>2, StepTouches DEF allVars
<1> QED BY <1>1, <1>2, Stage4Correct, PTL DEF Stage4Spec, ImplementsAddressSpace, Space!Spec
=============================================================================
