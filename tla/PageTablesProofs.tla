-------------------------- MODULE PageTablesProofs --------------------------
(***************************************************************************)
(* Facts about the page tables: the tables are a tree, map_to and unmap    *)
(* keep it, and translate and the CPU read the same entries from it.       *)
(*                                                                         *)
(* Every table has a name, the sequence of indices that leads to it: tab   *)
(* maps the names in use to their frames.                                  *)
(***************************************************************************)
EXTENDS PageTables, TLAPS

(* A frame that is a table's when n frames of the allocator are gone. *)
InUse(f, n) == f = Root \/ \E i \in 1 .. n : f = TableFrames[i]

Inner(f) == [address |-> f, flags |-> parent_flags]

(* Entry i of the table p: a table, nothing, or a large page. *)
Slot(mem, tab, p, i) ==
  \/ Append(p, i) \in DOMAIN tab /\ mem[tab[p]][i] = Inner(tab[Append(p, i)])
  \/ Append(p, i) \notin DOMAIN tab /\ mem[tab[p]][i] = Unused
  \/ /\ Append(p, i) \notin DOMAIN tab /\ Append(p, i) \in Pages
     /\ "HUGE_PAGE" \in mem[tab[p]][i].flags

Tree(mem, n, tab) ==
  /\ mem \in [Frames -> [Index -> Entries]]
  /\ n \in 0 .. Len(TableFrames)
  /\ << >> \in DOMAIN tab /\ tab[<< >>] = Root
  /\ \A p \in DOMAIN tab :
       p \in Seq(Index) /\ Len(p) <= 3 /\ p \notin Pages /\ InUse(tab[p], n)
  /\ \A p, q \in DOMAIN tab : tab[p] = tab[q] => p = q
  /\ \A p \in Seq(Index), i \in Index : Append(p, i) \in DOMAIN tab => p \in DOMAIN tab
  /\ \A p \in DOMAIN tab, i \in Index : Len(p) < 3 => Slot(mem, tab, p, i)
  /\ \A p \in DOMAIN tab, i \in Index : Len(p) = 3 => "HUGE_PAGE" \notin mem[tab[p]][i].flags

-----------------------------------------------------------------------------
(* Sequences. *)

(* A sequence is a function on the numbers up to its length. *)
LEMMA LenProperties ==
  ASSUME NEW S, NEW s \in Seq(S)
  PROVE  Len(s) \in Nat /\ DOMAIN s = 1 .. Len(s) /\ s \in [1 .. Len(s) -> S]
OBVIOUS

(* The elements of a sequence. *)
LEMMA ElementOfSeq ==
  ASSUME NEW S, NEW s \in Seq(S), NEW i \in 1 .. Len(s)
  PROVE  s[i] \in S
OBVIOUS

(* The empty sequence, and the others. *)
LEMMA EmptySeq ==
  ASSUME NEW S
  PROVE  /\ << >> \in Seq(S) /\ Len(<< >>) = 0
         /\ \A s \in Seq(S) : s # << >> => Len(s) \in Nat \ {0}
OBVIOUS

(* Sequences of one length with the same elements are equal. *)
LEMMA SeqEqual ==
  ASSUME NEW S, NEW s \in Seq(S), NEW t \in Seq(S),
         Len(s) = Len(t), \A i \in 1 .. Len(s) : s[i] = t[i]
  PROVE  s = t
OBVIOUS

(* One element more. *)
LEMMA AppendProperties ==
  ASSUME NEW S, NEW s \in Seq(S), NEW x \in S
  PROVE  /\ Append(s, x) \in Seq(S) /\ Append(s, x) # << >>
         /\ Len(Append(s, x)) = Len(s) + 1
         /\ \A i \in 1 .. Len(s) : Append(s, x)[i] = s[i]
         /\ Append(s, x)[Len(s) + 1] = x
OBVIOUS

(* Append forgets nothing. *)
LEMMA AppendInjective ==
  ASSUME NEW S, NEW s \in Seq(S), NEW x \in S, NEW t \in Seq(S), NEW y \in S,
         Append(s, x) = Append(t, y)
  PROVE  s = t /\ x = y
OBVIOUS

(* One sequence behind another. *)
LEMMA ConcatProperties ==
  ASSUME NEW S, NEW s \in Seq(S), NEW t \in Seq(S)
  PROVE  /\ s \o t \in Seq(S) /\ Len(s \o t) = Len(s) + Len(t)
         /\ \A i \in 1 .. Len(s) + Len(t) :
              (s \o t)[i] = IF i <= Len(s) THEN s[i] ELSE t[i - Len(s)]
OBVIOUS

-----------------------------------------------------------------------------
(* Names, frames and entries. *)

(* A name and an index make one longer name. *)
LEMMA Named ==
  ASSUME NEW p \in Seq(Index), NEW i \in Index
  PROVE  /\ Append(p, i) \in Seq(Index) /\ Len(Append(p, i)) = Len(p) + 1
         /\ Append(p, i) # p /\ Append(p, i) # << >> /\ Len(p) \in Nat
<1>1. Append(p, i) \in Seq(Index) /\ Len(Append(p, i)) = Len(p) + 1 /\ Len(p) \in Nat
  BY AppendProperties, LenProperties
<1> QED BY <1>1, EmptySeq

(* No other ones do. *)
LEMMA NamedOnce ==
  ASSUME NEW p \in Seq(Index), NEW i \in Index, NEW q \in Seq(Index), NEW j \in Index,
         Append(p, i) = Append(q, j)
  PROVE  p = q /\ i = j
BY AppendInjective

(* The frames of tables. *)
LEMMA FrameFacts ==
  ASSUME NEW n \in Nat, n <= Len(TableFrames), NEW f, InUse(f, n)
  PROVE  /\ f \in Frames /\ f # 0
         /\ n < Len(TableFrames) =>
              f # TableFrames[n + 1] /\ InUse(f, n + 1) /\ InUse(TableFrames[n + 1], n + 1)
<1>1. /\ Len(TableFrames) \in Nat /\ Root \in Frames \ {0}
      /\ \A i \in 1 .. Len(TableFrames) : TableFrames[i] \in Frames \ {0, Root}
      /\ \A i, j \in 1 .. Len(TableFrames) : TableFrames[i] = TableFrames[j] => i = j
  BY PagesAssumption, LenProperties, ElementOfSeq
<1>2. f \in Frames /\ f # 0
  BY <1>1 DEF InUse
<1>3. ASSUME n < Len(TableFrames) PROVE f # TableFrames[n + 1] /\ InUse(f, n + 1) /\ InUse(TableFrames[n + 1], n + 1)
  <2>1. n + 1 \in 1 .. Len(TableFrames) /\ n + 1 \in 1 .. n + 1
    BY <1>1, <1>3
  <2>2. \A i \in 1 .. n : i \in 1 .. Len(TableFrames) /\ i \in 1 .. n + 1 /\ i # n + 1
    BY <1>1, <1>3
  <2> QED BY <1>1, <2>1, <2>2 DEF InUse
<1> QED BY <1>2, <1>3

(* What an entry is made of. *)
LEMMA EntryFacts ==
  /\ Unused \in Entries /\ ~ is_present(Unused) /\ "HUGE_PAGE" \notin Unused.flags
  /\ \A f \in Frames : /\ Inner(f) \in Entries /\ "HUGE_PAGE" \notin Inner(f).flags
                       /\ Inner(f) # Unused
  /\ empty \in [Index -> Entries] /\ \A i \in Index : empty[i] = Unused
BY PagesAssumption, Zenon DEF Unused, Entries, Inner, Flags, parent_flags, empty, is_present

(* Entry i of the table t is written; the table t becomes s; both, for a   *)
(* new table in the frame f.                                               *)
Wrote(mem, t, i, e, mem2) ==
  /\ mem2 \in [Frames -> [Index -> Entries]] /\ mem2[t][i] = e
  /\ \A u \in Frames, j \in Index : u # t \/ j # i => mem2[u][j] = mem[u][j]
Cleared(mem, t, s, mem2) ==
  /\ mem2 \in [Frames -> [Index -> Entries]] /\ mem2[t] = s
  /\ \A u \in Frames : u # t => mem2[u] = mem[u]
Allocated(mem, t, i, f, mem2) ==
  /\ mem2 \in [Frames -> [Index -> Entries]] /\ mem2[t][i] = Inner(f) /\ mem2[f] = empty
  /\ \A u \in Frames, j \in Index :
       u # f /\ (u # t \/ j # i) => mem2[u][j] = mem[u][j]

(* The code's assignments do that. *)
LEMMA WriteEntry ==
  ASSUME NEW mem \in [Frames -> [Index -> Entries]], NEW t \in Frames, NEW i \in Index,
         NEW e \in Entries, NEW mem2, mem2 = [mem EXCEPT ![t][i] = e]
  PROVE  Wrote(mem, t, i, e, mem2)
<1>1. PICK s \in [Index -> Entries] : s = [mem[t] EXCEPT ![i] = e]
  OBVIOUS
<1>2. mem2 = [mem EXCEPT ![t] = s]
  BY <1>1
<1>3. mem2 \in [Frames -> [Index -> Entries]]
  BY <1>2
<1>4. mem2[t] = s /\ \A u \in Frames : u # t => mem2[u] = mem[u]
  BY <1>2
<1>5. s[i] = e /\ \A j \in Index : j # i => s[j] = mem[t][j]
  BY <1>1
<1> QED BY <1>3, <1>4, <1>5 DEF Wrote

LEMMA ClearTable ==
  ASSUME NEW mem \in [Frames -> [Index -> Entries]], NEW t \in Frames,
         NEW s \in [Index -> Entries], NEW mem2, mem2 = [mem EXCEPT ![t] = s]
  PROVE  Cleared(mem, t, s, mem2)
BY DEF Cleared

LEMMA WriteAndClear ==
  ASSUME NEW mem, NEW t \in Frames, NEW i \in Index, NEW f \in Frames, f # t,
         NEW mid, Wrote(mem, t, i, Inner(f), mid), NEW mem2, Cleared(mid, f, empty, mem2)
  PROVE  Allocated(mem, t, i, f, mem2)
BY DEF Wrote, Cleared, Allocated

LEMMA AllocateTable ==
  ASSUME NEW mem \in [Frames -> [Index -> Entries]], NEW t \in Frames, NEW i \in Index,
         NEW f \in Frames, f # t, NEW mem2,
         mem2 = [mem EXCEPT ![t][i] = Inner(f), ![f] = empty]
  PROVE  Allocated(mem, t, i, f, mem2)
<1>1. Inner(f) \in Entries /\ empty \in [Index -> Entries]
  BY EntryFacts
<1>2. PICK mid : mid = [mem EXCEPT ![t][i] = Inner(f)]
  BY Zenon
<1>3. Wrote(mem, t, i, Inner(f), mid)
  BY <1>1, <1>2, WriteEntry, Zenon
<1>4. mid \in [Frames -> [Index -> Entries]]
  BY <1>3, Zenon DEF Wrote
<1>5. mem2 = [mid EXCEPT ![f] = empty]
  BY <1>2
<1>6. Cleared(mid, f, empty, mem2)
  BY <1>1, <1>4, <1>5, ClearTable, Zenon
<1> QED BY <1>3, <1>6, WriteAndClear

(* A table's frame, and its entries. *)
LEMMA TreeFacts ==
  ASSUME NEW mem, NEW n, NEW tab, Tree(mem, n, tab), NEW p \in DOMAIN tab
  PROVE  /\ p \in Seq(Index) /\ tab[p] \in Frames /\ n \in Nat /\ n <= Len(TableFrames)
         /\ InUse(tab[p], n)
         /\ mem[tab[p]] \in [Index -> Entries]
<1>1. n \in Nat /\ n <= Len(TableFrames) /\ InUse(tab[p], n) /\ p \in Seq(Index)
  BY PagesAssumption, LenProperties DEF Tree
<1>2. tab[p] \in Frames
  BY <1>1, FrameFacts
<1> QED BY <1>1, <1>2 DEF Tree

-----------------------------------------------------------------------------
(* The tree grows. *)

(* The table c has the frame f. *)
Extended(tab, c, f, tab2) ==
  /\ DOMAIN tab2 = DOMAIN tab \cup {c} /\ tab2[c] = f
  /\ \A d \in DOMAIN tab : tab2[d] = tab[d]

(* allocate_table adds one table. *)
LEMMA Grows ==
  ASSUME NEW mem, NEW n, NEW tab, Tree(mem, n, tab), n < Len(TableFrames),
         NEW p \in DOMAIN tab, Len(p) < 3, NEW i \in Index,
         NEW c, c = Append(p, i), c \notin Pages, c \notin DOMAIN tab,
         NEW f, f = TableFrames[n + 1],
         NEW mem2, Allocated(mem, tab[p], i, f, mem2),
         NEW tab2, Extended(tab, c, f, tab2)
  PROVE  Tree(mem2, n + 1, tab2)
<1>1. /\ f \in Frames /\ n \in Nat /\ n + 1 \in 0 .. Len(TableFrames) /\ InUse(f, n + 1)
      /\ \A d \in DOMAIN tab : tab[d] # f /\ InUse(tab[d], n + 1) /\ tab[d] \in Frames
  <2>1. n \in Nat /\ Len(TableFrames) \in Nat
    BY PagesAssumption, LenProperties DEF Tree
  <2>2. InUse(Root, n)
    BY DEF InUse
  <2>3. \A d \in DOMAIN tab : InUse(tab[d], n)
    BY DEF Tree
  <2>4. n + 1 \in 1 .. Len(TableFrames)
    BY <2>1
  <2>5. f \in Frames
    BY <2>4, PagesAssumption, ElementOfSeq
  <2> QED BY <2>1, <2>2, <2>3, <2>4, <2>5, FrameFacts
<1>2. /\ mem2 \in [Frames -> [Index -> Entries]]
      /\ mem2[f] = empty
      /\ mem2[tab[p]][i] = Inner(f)
      /\ \A d \in DOMAIN tab, j \in Index :
           d # p \/ j # i => mem2[tab[d]][j] = mem[tab[d]][j]
  <2>1. ASSUME NEW d \in DOMAIN tab, NEW j \in Index, d # p \/ j # i
        PROVE  mem2[tab[d]][j] = mem[tab[d]][j]
    <3>1. PICK u \in Frames : u = tab[d] /\ u # f /\ (u # tab[p] \/ j # i)
      BY <1>1, <2>1 DEF Tree
    <3> QED BY <3>1 DEF Allocated
  <2> QED BY <2>1 DEF Allocated
<1>3. c \in Seq(Index) /\ Len(c) = Len(p) + 1 /\ c # << >> /\ Len(p) \in Nat /\ p \in Seq(Index)
  BY Named, SMTT(30) DEF Tree
<1>4. /\ DOMAIN tab2 = DOMAIN tab \cup {c} /\ tab2[c] = f
      /\ \A d \in DOMAIN tab : tab2[d] = tab[d]
  BY DEF Extended
<1>5. ASSUME NEW d \in DOMAIN tab2, NEW j \in Index, Len(d) < 3 PROVE Slot(mem2, tab2, d, j)
  <2>1. CASE d = c
    <3>1. Append(c, j) \notin DOMAIN tab2
      <4>1. Append(c, j) # c
        BY <1>3, Named
      <4> QED BY <1>3, <1>4, <4>1, Zenon DEF Tree
    <3> QED BY <1>2, <1>4, <2>1, <3>1, EntryFacts DEF Slot
  <2>2. CASE d = p /\ j = i
    BY <1>2, <1>4, <2>2 DEF Slot
  <2>3. CASE d \in DOMAIN tab /\ (d # p \/ j # i)
    <3>1. Slot(mem, tab, d, j) /\ d \in Seq(Index)
      BY <1>5, <2>3 DEF Tree
    <3>2. Append(d, j) # c
      BY <1>3, <2>3, <3>1, NamedOnce
    <3>3. mem2[tab[d]][j] = mem[tab[d]][j] /\ tab2[d] = tab[d]
      BY <1>2, <1>4, <2>3
    <3> QED BY <1>4, <3>1, <3>2, <3>3, SMTT(30) DEF Slot
  <2> QED BY <1>4, <2>1, <2>2, <2>3
<1>6. ASSUME NEW d \in DOMAIN tab2, NEW j \in Index, Len(d) = 3
      PROVE  "HUGE_PAGE" \notin mem2[tab2[d]][j].flags
  <2>1. CASE d = c
    BY <1>2, <1>4, <2>1, EntryFacts
  <2>2. CASE d \in DOMAIN tab
    <3>1. d # p
      BY <1>3, <1>6
    <3>2. mem2[tab[d]][j] = mem[tab[d]][j] /\ tab2[d] = tab[d]
      BY <1>2, <1>4, <2>2, <3>1
    <3>3. "HUGE_PAGE" \notin mem[tab[d]][j].flags
      BY <1>6, <2>2 DEF Tree
    <3> QED BY <3>2, <3>3
  <2> QED BY <1>4, <2>1, <2>2, Zenon
<1>7. << >> \in DOMAIN tab2 /\ tab2[<< >>] = Root
  BY <1>4 DEF Tree
<1>8. \A d \in DOMAIN tab2 : d \in Seq(Index) /\ Len(d) <= 3 /\ d \notin Pages /\ InUse(tab2[d], n + 1)
  <2>1. Len(c) <= 3
    BY <1>3
  <2>2. \A d \in DOMAIN tab : d \in Seq(Index) /\ Len(d) <= 3 /\ d \notin Pages
    BY DEF Tree
  <2> QED BY <1>1, <1>3, <1>4, <2>1, <2>2, Zenon
<1>9. \A d, e \in DOMAIN tab2 : tab2[d] = tab2[e] => d = e
  BY <1>1, <1>4, Zenon DEF Tree
<1>10. ASSUME NEW d \in Seq(Index), NEW j \in Index, Append(d, j) \in DOMAIN tab2
       PROVE  d \in DOMAIN tab2
  <2>1. CASE Append(d, j) = c
    <3>1. d = p
      BY <1>3, <2>1, NamedOnce
    <3> QED BY <1>4, <3>1
  <2>2. CASE Append(d, j) \in DOMAIN tab
    BY <1>4, <2>2 DEF Tree
  <2> QED BY <1>4, <1>10, <2>1, <2>2
<1> QED BY <1>1, <1>2, <1>5, <1>6, <1>7, <1>8, <1>9, <1>10 DEF Tree

(* What the tables say of a page with the name p and the index i, and that *)
(* a change of the tables leaves that alone for all pages but one.         *)
Lookup(mem, tab, p, i) ==
  IF p \in DOMAIN tab /\ is_present(mem[tab[p]][i]) THEN mem[tab[p]][i] ELSE Unused
Keeps(mem, tab, mem2, tab2, but) ==
  \A p \in Seq(Index), i \in Index :
    Append(p, i) \in Pages \ but => Lookup(mem2, tab2, p, i) = Lookup(mem, tab, p, i)

(* A new table maps no page. *)
LEMMA GrowsKeeps ==
  ASSUME NEW mem, NEW n, NEW tab, Tree(mem, n, tab), n < Len(TableFrames),
         NEW p \in DOMAIN tab, NEW i \in Index,
         NEW c, c = Append(p, i), c \notin Pages, c \notin DOMAIN tab,
         NEW f, f = TableFrames[n + 1],
         NEW mem2, Allocated(mem, tab[p], i, f, mem2),
         NEW tab2, Extended(tab, c, f, tab2)
  PROVE  Keeps(mem, tab, mem2, tab2, {})
<1> SUFFICES ASSUME NEW q \in Seq(Index), NEW j \in Index, Append(q, j) \in Pages
             PROVE  Lookup(mem2, tab2, q, j) = Lookup(mem, tab, q, j)
  BY DEF Keeps
<1>1. DOMAIN tab2 = DOMAIN tab \cup {c} /\ tab2[c] = f /\ \A d \in DOMAIN tab : tab2[d] = tab[d]
  BY DEF Extended
<1>2. CASE q = c
  <2>1. mem2[f][j] = Unused /\ ~ is_present(Unused)
    BY EntryFacts DEF Allocated
  <2> QED BY <1>1, <1>2, <2>1 DEF Lookup
<1>3. CASE q \in DOMAIN tab
  <2>1. q # p \/ j # i
    OBVIOUS
  <2>2. tab[q] # f /\ tab[q] \in Frames /\ (tab[q] # tab[p] \/ j # i)
    <3>1. n \in Nat /\ n <= Len(TableFrames) /\ InUse(tab[q], n) /\ tab[q] \in Frames
      BY <1>3, TreeFacts
    <3>2. tab[q] # f
      BY <3>1, FrameFacts
    <3> QED BY <1>3, <2>1, <3>1, <3>2 DEF Tree
  <2>3. mem2[tab[q]][j] = mem[tab[q]][j]
    BY <2>2 DEF Allocated
  <2> QED BY <1>1, <1>3, <2>3 DEF Lookup
<1>4. CASE q \notin DOMAIN tab /\ q # c
  BY <1>1, <1>4 DEF Lookup
<1> QED BY <1>2, <1>3, <1>4

(* A page's own entry may change: nothing is said of other pages. *)
Rewrites(mem, n, tab, c, p, i, e, mem2) ==
  /\ Tree(mem2, n, tab) /\ Keeps(mem, tab, mem2, tab, {c})
  /\ is_present(e) => Lookup(mem2, tab, p, i) = e
  /\ ~ is_present(e) => Lookup(mem2, tab, p, i) = Unused

(* A write to the page's slot does no more than that. *)
LEMMA Writes ==
  ASSUME NEW mem, NEW n, NEW tab, Tree(mem, n, tab), NEW p \in DOMAIN tab, NEW i \in Index,
         NEW c, c = Append(p, i), c \in Pages, NEW e \in Entries,
         Len(p) < 3 => e = Unused \/ "HUGE_PAGE" \in e.flags,
         Len(p) = 3 => "HUGE_PAGE" \notin e.flags,
         NEW mem2, Wrote(mem, tab[p], i, e, mem2)
  PROVE  Rewrites(mem, n, tab, c, p, i, e, mem2)
<1>1. ASSUME NEW d \in DOMAIN tab, NEW j \in Index, d # p \/ j # i
      PROVE  mem2[tab[d]][j] = mem[tab[d]][j]
  <2>1. tab[d] \in Frames /\ (tab[d] # tab[p] \/ j # i)
    BY <1>1, TreeFacts, Zenon DEF Tree
  <2> QED BY <2>1 DEF Wrote
<1>2. mem2[tab[p]][i] = e /\ mem2 \in [Frames -> [Index -> Entries]]
  BY DEF Wrote
<1>3. c \notin DOMAIN tab /\ p \in Seq(Index)
  BY DEF Tree
<1>4. ASSUME NEW d \in DOMAIN tab, NEW j \in Index, Len(d) < 3 PROVE Slot(mem2, tab, d, j)
  <2>1. CASE d = p /\ j = i
    BY <1>2, <1>3, <1>4, <2>1 DEF Slot
  <2>2. CASE d # p \/ j # i
    <3>1. Slot(mem, tab, d, j)
      BY <1>4 DEF Tree
    <3>2. mem2[tab[d]][j] = mem[tab[d]][j]
      BY <1>1, <2>2
    <3> QED BY <3>1, <3>2 DEF Slot
  <2> QED BY <2>1, <2>2
<1>5. ASSUME NEW d \in DOMAIN tab, NEW j \in Index, Len(d) = 3
      PROVE  "HUGE_PAGE" \notin mem2[tab[d]][j].flags
  <2>1. CASE d = p /\ j = i
    BY <1>2, <1>5, <2>1
  <2>2. CASE d # p \/ j # i
    <3>1. "HUGE_PAGE" \notin mem[tab[d]][j].flags
      BY <1>5 DEF Tree
    <3>2. mem2[tab[d]][j] = mem[tab[d]][j]
      BY <1>1, <2>2
    <3> QED BY <3>1, <3>2
  <2> QED BY <2>1, <2>2
<1>6. Tree(mem2, n, tab)
  BY <1>2, <1>4, <1>5 DEF Tree
<1>7. ASSUME NEW q \in Seq(Index), NEW j \in Index, Append(q, j) # c
      PROVE  Lookup(mem2, tab, q, j) = Lookup(mem, tab, q, j)
  BY <1>1, <1>7 DEF Lookup
<1> QED BY <1>2, <1>6, <1>7 DEF Keeps, Lookup, Rewrites

-----------------------------------------------------------------------------
(* The walk that makes tables. *)

IsWalk(w) ==
  /\ w = [memory |-> w.memory, next |-> w.next, table |-> w.table, ok |-> w.ok]
  /\ w.ok \in BOOLEAN

(* A walk that has come to the table p, or has failed, in tables that say  *)
(* the same of every page as mem did.                                      *)
Walked(w, p, mem, tab) ==
  /\ IsWalk(w)
  /\ \E t : /\ Tree(w.memory, w.next, t) /\ Keeps(mem, tab, w.memory, t, {})
            /\ w.ok => p \in DOMAIN t /\ w.table = t[p]

(* The flags of an entry that leads to a table are set already. *)
LEMMA FlagsSet ==
  ASSUME NEW mem \in [Frames -> [Index -> Entries]], NEW t \in Frames, NEW i \in Index,
         NEW f \in Frames, mem[t][i] = Inner(f)
  PROVE  [mem EXCEPT ![t][i].flags = @ \cup parent_flags] = mem
<1>1. PICK s \in [Index -> Entries] : s = mem[t]
  OBVIOUS
<1>2. [Inner(f) EXCEPT !.flags = @ \cup parent_flags] = Inner(f)
  <2>1. Inner(f).flags \cup parent_flags = parent_flags
    BY DEF Inner
  <2>2. [Inner(f) EXCEPT !.flags = parent_flags] = Inner(f)
    BY DEF Inner
  <2> QED BY <2>1, <2>2
<1>3. [s EXCEPT ![i] = Inner(f)] = s
  BY <1>1
<1>4. [s EXCEPT ![i].flags = @ \cup parent_flags] = s
  BY <1>1, <1>2, <1>3
<1>5. [mem EXCEPT ![t] = s] = mem
  BY <1>1
<1> QED BY <1>1, <1>4, <1>5

(* One step down. *)
LEMMA StepWalked ==
  ASSUME NEW w, NEW p \in Seq(Index), Len(p) < 3, NEW mem, NEW tab, Walked(w, p, mem, tab),
         NEW i \in Index, NEW c, c = Append(p, i), c \notin Pages
  PROVE  Walked(get_or_allocate_pagetable(w, i), c, mem, tab)
<1>1. CASE ~ w.ok
  <2>1. get_or_allocate_pagetable(w, i) = w
    BY <1>1 DEF get_or_allocate_pagetable
  <2> QED BY <1>1, <2>1 DEF Walked
<1>2. CASE w.ok
  <2>1. PICK mem1, n, f : mem1 = w.memory /\ n = w.next /\ f = w.table
    OBVIOUS
  <2>2. w = [memory |-> mem1, next |-> n, table |-> f, ok |-> TRUE]
    BY <1>2, <2>1 DEF Walked, IsWalk
  <2>3. PICK t : Tree(mem1, n, t) /\ Keeps(mem, tab, mem1, t, {}) /\ p \in DOMAIN t /\ f = t[p]
    BY <1>2, <2>1, SMTT(30) DEF Walked
  <2>4. f \in Frames /\ mem1 \in [Frames -> [Index -> Entries]] /\ Slot(mem1, t, p, i)
    BY <2>3, TreeFacts, Zenon DEF Tree
  <2>5. CASE c \in DOMAIN t
    <3>1. PICK g \in Frames : g = t[c] /\ mem1[f][i] = Inner(g)
      BY <2>3, <2>4, <2>5, TreeFacts DEF Slot
    <3>2. ~ is_unused(Inner(g)) /\ Inner(g).address = g
      BY EntryFacts DEF is_unused, Inner
    <3>3. get_or_allocate_pagetable(w, i) = [memory |-> mem1, next |-> n, table |-> g, ok |-> TRUE]
      <4>1. [mem1 EXCEPT ![f][i].flags = @ \cup parent_flags] = mem1
        BY <2>4, <3>1, FlagsSet
      <4>2. get_or_allocate_pagetable(w, i)
              = [w EXCEPT !.memory[w.table][i].flags = @ \cup parent_flags, !.table = g]
        BY <1>2, <2>1, <3>1, <3>2 DEF get_or_allocate_pagetable
      <4>3. get_or_allocate_pagetable(w, i)
              = [memory |-> [mem1 EXCEPT ![f][i].flags = @ \cup parent_flags],
                 next |-> n, table |-> g, ok |-> TRUE]
        BY <2>2, <4>2, Zenon
      <4> QED BY <4>1, <4>3, Zenon
    <3> QED BY <2>3, <2>5, <3>1, <3>3 DEF Walked, IsWalk
  <2>6. CASE c \notin DOMAIN t /\ n = Len(TableFrames)
    <3>1. is_unused(mem1[f][i])
      BY <2>3, <2>4, <2>6 DEF Slot, is_unused
    <3>2. get_or_allocate_pagetable(w, i) = [w EXCEPT !.ok = FALSE]
      BY <1>2, <2>1, <2>6, <3>1 DEF get_or_allocate_pagetable
    <3>3. get_or_allocate_pagetable(w, i) = [memory |-> mem1, next |-> n, table |-> f, ok |-> FALSE]
      BY <2>2, <3>2, Zenon
    <3> QED BY <2>3, <3>3 DEF Walked, IsWalk
  <2>7. CASE c \notin DOMAIN t /\ n # Len(TableFrames)
    <3>1. is_unused(mem1[f][i])
      BY <2>3, <2>4, <2>7 DEF Slot, is_unused
    <3>2. PICK g : g = TableFrames[n + 1]
      OBVIOUS
    <3>3. /\ n < Len(TableFrames) /\ n \in Nat /\ g \in Frames /\ g # f
      <4>1. n \in Nat /\ n <= Len(TableFrames) /\ InUse(f, n) /\ Len(TableFrames) \in Nat
        BY <2>3, TreeFacts, PagesAssumption, LenProperties
      <4>2. n < Len(TableFrames)
        BY <2>7, <4>1
      <4>3. n + 1 \in 1 .. Len(TableFrames)
        BY <4>1, <4>2
      <4>4. g \in Frames
        BY <3>2, <4>3, PagesAssumption, ElementOfSeq
      <4> QED BY <3>2, <4>1, <4>2, <4>4, FrameFacts
    <3>4. PICK mem2 : mem2 = [mem1 EXCEPT ![f][i] = Inner(g), ![g] = empty]
      BY Zenon
    <3>5. get_or_allocate_pagetable(w, i) = [memory |-> mem2, next |-> n + 1, table |-> g, ok |-> TRUE]
      BY <2>2, <2>7, <3>1, <3>2, <3>4 DEF get_or_allocate_pagetable, allocate_table, Inner
    <3>6. Allocated(mem1, t[p], i, g, mem2)
      BY <2>3, <2>4, <3>3, <3>4, AllocateTable, Zenon
    <3>7. PICK t2 : Extended(t, c, g, t2)
      <4>1. PICK t2 : t2 = [d \in DOMAIN t \cup {c} |-> IF d = c THEN g ELSE t[d]]
        BY Zenon
      <4>2. DOMAIN t2 = DOMAIN t \cup {c}
        BY <4>1
      <4>3. t2[c] = g /\ \A d \in DOMAIN t : t2[d] = t[d]
        BY <2>7, <4>1, Zenon
      <4>4. Extended(t, c, g, t2)
        BY <4>2, <4>3 DEF Extended
      <4> QED BY <4>4
    <3>8. Tree(mem2, n + 1, t2)
      BY <2>3, <2>7, <3>2, <3>3, <3>6, <3>7, Grows, Zenon
    <3>9. Keeps(mem1, t, mem2, t2, {})
      BY <2>3, <2>7, <3>2, <3>3, <3>6, <3>7, GrowsKeeps, Zenon
    <3>10. Keeps(mem, tab, mem2, t2, {}) /\ c \in DOMAIN t2 /\ t2[c] = g
      BY <2>3, <3>7, <3>9 DEF Keeps, Extended
    <3> QED BY <3>5, <3>8, <3>10 DEF Walked, IsWalk
  <2> QED BY <2>5, <2>6, <2>7
<1> QED BY <1>1, <1>2 DEF Walked, IsWalk

-----------------------------------------------------------------------------
(* Pages. *)

(* The table that holds the entry of page, by its name. *)
NameOf(page) ==
  IF Len(page) = 3 THEN <<page[1], page[2]>> ELSE <<page[1], page[2], page[3]>>

(* A page has three or four indices. *)
LEMMA PageCases ==
  ASSUME NEW page \in Pages
  PROVE  \E a, b, c \in Index :
           \/ page = <<a, b, c>> /\ NameOf(page) = <<a, b>> /\ LeafIndex(page) = c /\ Len(page) = 3
           \/ \E d \in Index : /\ page = <<a, b, c, d>> /\ NameOf(page) = <<a, b, c>>
                               /\ LeafIndex(page) = d /\ Len(page) = 4
<1>1. CASE page \in Index \X Index \X Index
  <2>1. PICK a, b, c \in Index : page = <<a, b, c>>
    BY <1>1
  <2>2. Len(page) = 3 /\ page[1] = a /\ page[2] = b /\ page[3] = c
    BY <2>1
  <2> QED BY <2>1, <2>2 DEF NameOf, LeafIndex
<1>2. CASE page \in Index \X Index \X Index \X Index
  <2>1. PICK a, b, c, d \in Index : page = <<a, b, c, d>>
    BY <1>2
  <2>2. Len(page) = 4 /\ page[1] = a /\ page[2] = b /\ page[3] = c /\ page[4] = d
    BY <2>1
  <2> QED BY <2>1, <2>2 DEF NameOf, LeafIndex
<1> QED BY <1>1, <1>2, PagesAssumption

(* Names are short sequences, and an index is added at the end. *)
LEMMA Tuples ==
  ASSUME NEW a \in Index, NEW b \in Index, NEW c \in Index, NEW d \in Index
  PROVE  /\ << >> \in Seq(Index) /\ Len(<< >>) = 0
         /\ <<a>> \in Seq(Index) /\ Len(<<a>>) = 1
         /\ <<a, b>> \in Seq(Index) /\ Len(<<a, b>>) = 2
         /\ <<a, b, c>> \in Seq(Index) /\ Len(<<a, b, c>>) = 3
         /\ <<a, b, c, d>> \in Seq(Index) /\ Len(<<a, b, c, d>>) = 4
OBVIOUS

LEMMA Appended1 ==
  ASSUME NEW a \in Index
  PROVE  Append(<< >>, a) = <<a>>
OBVIOUS

LEMMA Appended2 ==
  ASSUME NEW a \in Index, NEW b \in Index
  PROVE  Append(<<a>>, b) = <<a, b>>
<1>1. PICK s, v : s = <<a>> /\ v = <<a, b>>
  BY Zenon
<1>2. s \in Seq(Index) /\ Len(s) = 1 /\ s[1] = a
  BY <1>1
<1>3. v \in Seq(Index) /\ Len(v) = 2 /\ v[1] = a /\ v[2] = b
  BY <1>1
<1>4. PICK u : u = Append(s, b)
  BY Zenon
<1>5. u \in Seq(Index) /\ Len(u) = 2 /\ u[1] = a /\ u[2] = b
  <2>0. s \in Seq(Index)
    BY <1>2
  <2>1. /\ u \in Seq(Index) /\ Len(u) = Len(s) + 1 /\ u[Len(s) + 1] = b
        /\ \A i \in 1 .. Len(s) : u[i] = s[i]
    BY <1>4, <2>0, AppendProperties
  <2>2. 1 + 1 = 2 /\ 1 \in 1 .. 1
    OBVIOUS
  <2> QED BY <1>2, <2>1, <2>2
<1>6. \A i \in 1 .. 2 : u[i] = v[i]
  <2>1. \A i \in 1 .. 2 : i = 1 \/ i = 2
    OBVIOUS
  <2> QED BY <1>3, <1>5, <2>1
<1>7. u = v
  BY <1>3, <1>5, <1>6, SeqEqual
<1> QED BY <1>1, <1>4, <1>7, Zenon

LEMMA Appended3 ==
  ASSUME NEW a \in Index, NEW b \in Index, NEW c \in Index
  PROVE  Append(<<a, b>>, c) = <<a, b, c>>
<1>1. PICK s, v : s = <<a, b>> /\ v = <<a, b, c>>
  BY Zenon
<1>2. s \in Seq(Index) /\ Len(s) = 2 /\ s[1] = a /\ s[2] = b
  BY <1>1
<1>3. v \in Seq(Index) /\ Len(v) = 3 /\ v[1] = a /\ v[2] = b /\ v[3] = c
  BY <1>1
<1>4. PICK u : u = Append(s, c)
  BY Zenon
<1>5. u \in Seq(Index) /\ Len(u) = 3 /\ u[1] = a /\ u[2] = b /\ u[3] = c
  <2>0. s \in Seq(Index)
    BY <1>2
  <2>1. /\ u \in Seq(Index) /\ Len(u) = Len(s) + 1 /\ u[Len(s) + 1] = c
        /\ \A i \in 1 .. Len(s) : u[i] = s[i]
    BY <1>4, <2>0, AppendProperties
  <2>2. 2 + 1 = 3 /\ 1 \in 1 .. 2 /\ 2 \in 1 .. 2
    OBVIOUS
  <2> QED BY <1>2, <2>1, <2>2
<1>6. \A i \in 1 .. 3 : u[i] = v[i]
  <2>1. \A i \in 1 .. 3 : i = 1 \/ i = 2 \/ i = 3
    OBVIOUS
  <2> QED BY <1>3, <1>5, <2>1
<1>7. u = v
  BY <1>3, <1>5, <1>6, SeqEqual
<1> QED BY <1>1, <1>4, <1>7, Zenon

LEMMA Appended4 ==
  ASSUME NEW a \in Index, NEW b \in Index, NEW c \in Index, NEW d \in Index
  PROVE  Append(<<a, b, c>>, d) = <<a, b, c, d>>
<1>1. PICK s, v : s = <<a, b, c>> /\ v = <<a, b, c, d>>
  BY Zenon
<1>2. s \in Seq(Index) /\ Len(s) = 3 /\ s[1] = a /\ s[2] = b /\ s[3] = c
  BY <1>1
<1>3. v \in Seq(Index) /\ Len(v) = 4 /\ v[1] = a /\ v[2] = b /\ v[3] = c /\ v[4] = d
  BY <1>1
<1>4. PICK u : u = Append(s, d)
  BY Zenon
<1>5. u \in Seq(Index) /\ Len(u) = 4 /\ u[1] = a /\ u[2] = b /\ u[3] = c /\ u[4] = d
  <2>0. s \in Seq(Index)
    BY <1>2
  <2>1. /\ u \in Seq(Index) /\ Len(u) = Len(s) + 1 /\ u[Len(s) + 1] = d
        /\ \A i \in 1 .. Len(s) : u[i] = s[i]
    BY <1>4, <2>0, AppendProperties
  <2>2. 3 + 1 = 4 /\ 1 \in 1 .. 3 /\ 2 \in 1 .. 3 /\ 3 \in 1 .. 3
    OBVIOUS
  <2> QED BY <1>2, <2>1, <2>2
<1>6. \A i \in 1 .. 4 : u[i] = v[i]
  <2>1. \A i \in 1 .. 4 : i = 1 \/ i = 2 \/ i = 3 \/ i = 4
    OBVIOUS
  <2> QED BY <1>3, <1>5, <2>1
<1>7. u = v
  BY <1>3, <1>5, <1>6, SeqEqual
<1> QED BY <1>1, <1>4, <1>7, Zenon

(* The names on the way to a page are no pages. *)
LEMMA ShortNames ==
  ASSUME NEW a \in Index, NEW b \in Index
  PROVE  <<a>> \notin Pages /\ <<a, b>> \notin Pages
<1>1. \A page \in Pages : Len(page) = 3 \/ Len(page) = 4
  BY PageCases
<1>2. Len(<<a>>) = 1 /\ Len(<<a, b>>) = 2
  OBVIOUS
<1> QED BY <1>1, <1>2

(* No table of a small page is a large page. *)
LEMMA Apart ==
  ASSUME NEW a, NEW b, NEW c, NEW d, <<a, b, c, d>> \in Pages
  PROVE  <<a, b, c>> \notin Pages
<1>1. PICK q : q = <<a, b, c, d>>
  OBVIOUS
<1>2. Len(q) = 4 /\ q[1] = a /\ q[2] = b /\ q[3] = c /\ q \in Pages
  BY <1>1
<1>3. \A p \in Pages : Len(p) = 3 => p # <<a, b, c>>
  BY <1>2, PagesAssumption
<1> QED BY <1>3

(* A page is its table's name and its index. *)
LEMMA PageName ==
  ASSUME NEW page \in Pages
  PROVE  /\ NameOf(page) \in Seq(Index) /\ LeafIndex(page) \in Index
         /\ Append(NameOf(page), LeafIndex(page)) = page
         /\ Len(page) = 3 => Len(NameOf(page)) = 2
         /\ Len(page) # 3 => Len(NameOf(page)) = 3
<1>1. PICK a, b, c \in Index :
        \/ page = <<a, b, c>> /\ NameOf(page) = <<a, b>> /\ LeafIndex(page) = c /\ Len(page) = 3
        \/ \E d \in Index : /\ page = <<a, b, c, d>> /\ NameOf(page) = <<a, b, c>>
                            /\ LeafIndex(page) = d /\ Len(page) = 4
  BY PageCases
<1>2. CASE page = <<a, b, c>> /\ NameOf(page) = <<a, b>> /\ LeafIndex(page) = c /\ Len(page) = 3
  <2>1. <<a, b>> \in Seq(Index) /\ Len(<<a, b>>) = 2 /\ Append(<<a, b>>, c) = <<a, b, c>>
    BY Tuples, Appended3
  <2> QED BY <1>2, <2>1, Zenon
<1>3. CASE \E d \in Index : /\ page = <<a, b, c, d>> /\ NameOf(page) = <<a, b, c>>
                            /\ LeafIndex(page) = d /\ Len(page) = 4
  <2>1. PICK d \in Index : /\ page = <<a, b, c, d>> /\ NameOf(page) = <<a, b, c>>
                           /\ LeafIndex(page) = d /\ Len(page) = 4
    BY <1>3
  <2>2. /\ <<a, b, c>> \in Seq(Index) /\ Len(<<a, b, c>>) = 3
        /\ Append(<<a, b, c>>, d) = <<a, b, c, d>>
    BY Tuples, Appended4
  <2>3. NameOf(page) \in Seq(Index) /\ LeafIndex(page) \in Index /\ Len(NameOf(page)) = 3
    BY <2>1, <2>2, Zenon
  <2>4. Append(NameOf(page), LeafIndex(page)) = page
    BY <2>1, <2>2, Zenon
  <2> QED BY <2>1, <2>3, <2>4, SMTT(30)
<1> QED BY <1>1, <1>2, <1>3

(* The walk to a page's table. *)
LEMMA WalkedAll ==
  ASSUME NEW mem, NEW n, NEW tab, Tree(mem, n, tab), NEW page \in Pages
  PROVE  Walked(WalkAllocating(mem, page, n), NameOf(page), mem, tab)
<1>1. PICK a, b, c \in Index :
        \/ page = <<a, b, c>> /\ NameOf(page) = <<a, b>> /\ Len(page) = 3
        \/ \E d \in Index : page = <<a, b, c, d>> /\ NameOf(page) = <<a, b, c>> /\ Len(page) = 4
  BY PageCases
<1>2. page[1] = a /\ page[2] = b /\ page[3] = c
  BY <1>1
<1>3. Walked(Walk(mem, n), << >>, mem, tab)
  <2>1. Walk(mem, n) = [memory |-> mem, next |-> n, table |-> Root, ok |-> TRUE]
    BY DEF Walk
  <2>2. Keeps(mem, tab, mem, tab, {}) /\ << >> \in DOMAIN tab /\ tab[<< >>] = Root
    BY DEF Keeps, Tree
  <2> QED BY <2>1, <2>2 DEF Walked, IsWalk
<1>4. PICK w3, w2, w1 : /\ w3 = get_or_allocate_pagetable(Walk(mem, n), a)
                        /\ w2 = get_or_allocate_pagetable(w3, b)
                        /\ w1 = get_or_allocate_pagetable(w2, c)
  OBVIOUS
<1>5. Walked(w3, <<a>>, mem, tab)
  <2>1. PICK p, q : p = << >> /\ q = <<a>>
    BY Zenon
  <2>2. p \in Seq(Index) /\ Len(p) < 3 /\ q = Append(p, a) /\ q \notin Pages
    <3>1. << >> \in Seq(Index) /\ Len(<< >>) = 0
      BY Tuples
    <3>2. Append(<< >>, a) = <<a>> /\ <<a>> \notin Pages
      BY Appended1, ShortNames, Zenon
    <3> QED BY <2>1, <3>1, <3>2
  <2> QED BY <1>3, <1>4, <2>1, <2>2, StepWalked, Zenon
<1>6. Walked(w2, <<a, b>>, mem, tab)
  <2>1. PICK p, q : p = <<a>> /\ q = <<a, b>>
    BY Zenon
  <2>2. p \in Seq(Index) /\ Len(p) < 3 /\ q = Append(p, b) /\ q \notin Pages
    BY <2>1, Tuples, Appended2, ShortNames
  <2> QED BY <1>4, <1>5, <2>1, <2>2, StepWalked, Zenon
<1>7. CASE Len(page) = 3
  BY <1>1, <1>2, <1>4, <1>6, <1>7 DEF WalkAllocating
<1>8. CASE Len(page) = 4
  <2>1. <<a, b, c>> \notin Pages
    BY <1>1, <1>8, Apart
  <2>2. Walked(w1, <<a, b, c>>, mem, tab)
    <3>1. PICK p, q : p = <<a, b>> /\ q = <<a, b, c>>
      BY Zenon
    <3>2. p \in Seq(Index) /\ Len(p) < 3 /\ q = Append(p, c) /\ q \notin Pages
      BY <2>1, <3>1, Tuples, Appended3
    <3> QED BY <1>4, <1>6, <3>1, <3>2, StepWalked, Zenon
  <2> QED BY <1>1, <1>2, <1>4, <1>8, <2>2 DEF WalkAllocating
<1> QED BY <1>1, <1>7, <1>8

-----------------------------------------------------------------------------
(* What a call does to the tables and to the pages. *)

(* What the tables say of a page. *)
Mapped(mem, tab, page) == Lookup(mem, tab, NameOf(page), LeafIndex(page))

SizeFlag(page) == IF Len(page) = 3 THEN {"HUGE_PAGE"} ELSE {}

(* The tables after map_to: they say nothing new of other pages, and of    *)
(* page only when the call succeeds, which needs a page that is not mapped. *)
MapsTo(mem, tab, page, frame, flags, w) ==
  \E t : /\ Tree(w.memory, w.next, t)
         /\ Keeps(mem, tab, w.memory, t, IF w.ok THEN {page} ELSE {})
         /\ w.ok => /\ Mapped(mem, tab, page) = Unused
                    /\ Mapped(w.memory, t, page)
                         = IF "PRESENT" \in flags
                           THEN [address |-> frame, flags |-> flags \cup SizeFlag(page)]
                           ELSE Unused

LEMMA Maps ==
  ASSUME NEW mem, NEW n, NEW tab, Tree(mem, n, tab), NEW page \in Pages, NEW frame \in Frames,
         NEW flags, flags \subseteq Flags \ {"HUGE_PAGE"},
         NEW w, w = mapping(mem, page, n, frame, flags)
  PROVE  w.ok \in BOOLEAN /\ MapsTo(mem, tab, page, frame, flags, w)
<1>1. PICK v : v = WalkAllocating(mem, page, n)
  OBVIOUS
<1>2. Walked(v, NameOf(page), mem, tab)
  BY <1>1, WalkedAll
<1>3. PICK mem1, m, f, ok : v = [memory |-> mem1, next |-> m, table |-> f, ok |-> ok] /\ ok \in BOOLEAN
  BY <1>2 DEF Walked, IsWalk
<1>4. PICK t : /\ Tree(mem1, m, t) /\ Keeps(mem, tab, mem1, t, {})
               /\ ok => NameOf(page) \in DOMAIN t /\ f = t[NameOf(page)]
  BY <1>2, <1>3 DEF Walked
<1>5. PICK p \in Seq(Index), i \in Index :
        /\ p = NameOf(page) /\ i = LeafIndex(page) /\ Append(p, i) = page
        /\ Len(page) = 3 => Len(p) = 2
        /\ Len(page) # 3 => Len(p) = 3
  BY PageName
<1>6. CASE ok /\ ~ is_present(mem1[f][i])
  <2>1. PICK e : e = [address |-> frame, flags |-> flags \cup SizeFlag(page)]
    BY Zenon
  <2>2. /\ e \in Entries
        /\ Len(p) < 3 => e = Unused \/ "HUGE_PAGE" \in e.flags
        /\ Len(p) = 3 => "HUGE_PAGE" \notin e.flags
        /\ is_present(e) <=> "PRESENT" \in flags
    BY <1>5, <2>1 DEF Entries, SizeFlag, Flags, is_present
  <2>3. p \in DOMAIN t /\ f = t[p] /\ f \in Frames
    BY <1>4, <1>5, <1>6, TreeFacts
  <2>4. PICK mem2 : mem2 = [mem1 EXCEPT ![f][i] = e]
    BY Zenon
  <2>5. Wrote(mem1, t[p], i, e, mem2)
    BY <1>4, <2>2, <2>3, <2>4, WriteEntry, ZenonT(40) DEF Tree
  <2>6. Rewrites(mem1, m, t, page, p, i, e, mem2)
    BY <1>4, <1>5, <2>2, <2>3, <2>5, Writes, Zenon
  <2>7. w = [memory |-> mem2, next |-> m, table |-> f, ok |-> TRUE]
    <3>1. w = [v EXCEPT !.memory[v.table][LeafIndex(page)] =
                          [address |-> frame, flags |-> flags \cup SizeFlag(page)]]
      BY <1>1, <1>3, <1>5, <1>6 DEF mapping, SizeFlag
    <3> QED BY <1>3, <1>5, <1>6, <2>1, <2>4, <3>1, Zenon
  <2>8. Keeps(mem, tab, mem2, t, {page})
    BY <1>4, <2>6, Zenon DEF Keeps, Rewrites
  <2>9. Lookup(mem, tab, p, i) = Unused
    <3>1. Lookup(mem1, t, p, i) = Unused
      BY <1>6, <2>3 DEF Lookup
    <3> QED BY <1>4, <1>5, <3>1, Zenon DEF Keeps
  <2>10. Tree(mem2, m, t) /\ Lookup(mem2, t, p, i) = IF "PRESENT" \in flags THEN e ELSE Unused
    BY <2>2, <2>6, Zenon DEF Rewrites
  <2> QED BY <1>5, <2>1, <2>7, <2>8, <2>9, <2>10 DEF MapsTo, Mapped
<1>7. CASE ~ (ok /\ ~ is_present(mem1[f][i]))
  <2>1. w = [v EXCEPT !.ok = FALSE]
    BY <1>1, <1>3, <1>5, <1>7 DEF mapping
  <2>2. w = [memory |-> mem1, next |-> m, table |-> f, ok |-> FALSE]
    BY <1>3, <2>1, Zenon
  <2> QED BY <1>4, <2>2 DEF MapsTo
<1> QED BY <1>6, <1>7

-----------------------------------------------------------------------------
(* translate and the CPU's walk read the tree. *)

PathIn(mem, page) ==
  LET e4 == mem[Root][page[1]]
      e3 == mem[e4.address][page[2]]
      e2 == mem[e3.address][page[3]]
  IN  IF Len(page) = 3 THEN <<e4, e3, e2>> ELSE <<e4, e3, e2, mem[e2.address][page[4]]>>

(* The entries on the way to a page: those of tables and the page's own,   *)
(* or one that is unused.                                                  *)
PathTo(mem, tab, page) ==
  \/ /\ NameOf(page) \in DOMAIN tab
     /\ \A i \in 1 .. Len(page) - 1 : \E f \in Frames : PathIn(mem, page)[i] = Inner(f)
     /\ PathIn(mem, page)[Len(page) - 1] = Inner(tab[NameOf(page)])
     /\ PathIn(mem, page)[Len(page)] = mem[tab[NameOf(page)]][LeafIndex(page)]
  \/ /\ NameOf(page) \notin DOMAIN tab
     /\ \E i \in 1 .. Len(page) - 1 : PathIn(mem, page)[i] = Unused

(* One step of the way. *)
Leads(mem, tab, p, i, c) ==
  \/ c \in DOMAIN tab /\ tab[c] \in Frames /\ mem[tab[p]][i] = Inner(tab[c])
  \/ c \notin DOMAIN tab /\ mem[tab[p]][i] = Unused

LEMMA StepPath ==
  ASSUME NEW mem, NEW n, NEW tab, Tree(mem, n, tab), NEW p \in DOMAIN tab, Len(p) < 3,
         NEW i \in Index, NEW c, c = Append(p, i), c \notin Pages
  PROVE  Leads(mem, tab, p, i, c)
<1>1. Slot(mem, tab, p, i)
  BY DEF Tree
<1> QED BY <1>1, TreeFacts DEF Slot, Leads

(* The names on the way to a page. *)
Chain(p, q, a, b) ==
  /\ p \in Seq(Index) /\ Len(p) < 3 /\ p = Append(<< >>, a) /\ p \notin Pages
  /\ q \in Seq(Index) /\ Len(q) < 3 /\ q = Append(p, b) /\ q \notin Pages

LEMMA Chains ==
  ASSUME NEW page \in Pages
  PROVE  \E a, b, c \in Index, p, q \in Seq(Index) :
           /\ page[1] = a /\ page[2] = b /\ page[3] = c /\ Chain(p, q, a, b)
           /\ \/ NameOf(page) = q /\ LeafIndex(page) = c /\ Len(page) = 3
              \/ /\ Len(page) = 4 /\ LeafIndex(page) \in Index /\ LeafIndex(page) = page[4]
                 /\ NameOf(page) = Append(q, c) /\ NameOf(page) \notin Pages
<1>1. PICK a, b, c \in Index :
        \/ page = <<a, b, c>> /\ NameOf(page) = <<a, b>> /\ LeafIndex(page) = c /\ Len(page) = 3
        \/ \E d \in Index : /\ page = <<a, b, c, d>> /\ NameOf(page) = <<a, b, c>>
                            /\ LeafIndex(page) = d /\ Len(page) = 4
  BY PageCases
<1>2. page[1] = a /\ page[2] = b /\ page[3] = c
  BY <1>1
<1>3. Chain(<<a>>, <<a, b>>, a, b)
  <2>1. /\ <<a>> \in Seq(Index) /\ Len(<<a>>) = 1
        /\ <<a, b>> \in Seq(Index) /\ Len(<<a, b>>) = 2
    BY Tuples
  <2>2. Append(<< >>, a) = <<a>> /\ Append(<<a>>, b) = <<a, b>>
    BY Appended1, Appended2
  <2>3. <<a>> \notin Pages /\ <<a, b>> \notin Pages
    BY ShortNames
  <2> QED BY <2>1, <2>2, <2>3 DEF Chain
<1>4. CASE page = <<a, b, c>> /\ NameOf(page) = <<a, b>> /\ LeafIndex(page) = c /\ Len(page) = 3
  <2>1. PICK p, q \in Seq(Index) : Chain(p, q, a, b) /\ q = <<a, b>>
    BY <1>3, Zenon DEF Chain
  <2>2. NameOf(page) = q /\ LeafIndex(page) = c /\ Len(page) = 3
    BY <1>4, <2>1
  <2> QED BY <1>2, <2>1, <2>2, Zenon
<1>5. CASE \E d \in Index : /\ page = <<a, b, c, d>> /\ NameOf(page) = <<a, b, c>>
                            /\ LeafIndex(page) = d /\ Len(page) = 4
  <2>1. PICK d \in Index : /\ page = <<a, b, c, d>> /\ NameOf(page) = <<a, b, c>>
                           /\ LeafIndex(page) = d /\ Len(page) = 4
    BY <1>5
  <2>2. page[4] = d
    BY <2>1
  <2>3. <<a, b, c>> \notin Pages
    BY <2>1, Apart
  <2>4. Append(<<a, b>>, c) = <<a, b, c>>
    BY Appended3
  <2>5. /\ LeafIndex(page) \in Index /\ LeafIndex(page) = page[4] /\ Len(page) = 4
        /\ NameOf(page) = Append(<<a, b>>, c) /\ NameOf(page) \notin Pages
    BY <2>1, <2>2, <2>3, <2>4, SMTT(30)
  <2>6. PICK p, q \in Seq(Index) : Chain(p, q, a, b) /\ q = <<a, b>>
    BY <1>3, Zenon DEF Chain
  <2>7. NameOf(page) = Append(q, c)
    BY <2>5, <2>6
  <2> QED BY <1>2, <2>5, <2>6, <2>7, Zenon
<1> QED BY <1>1, <1>4, <1>5

(* The entries of the first two steps. *)
TwoEntries(tab, q, e4, e3) ==
  \/ /\ q \in DOMAIN tab /\ (\E f \in Frames : e4 = Inner(f))
     /\ tab[q] \in Frames /\ e3 = Inner(tab[q])
  \/ q \notin DOMAIN tab /\ (e4 = Unused \/ e3 = Unused)

(* These steps are alike for both sizes. *)
LEMMA TwoSteps ==
  ASSUME NEW mem, NEW n, NEW tab, Tree(mem, n, tab), NEW a \in Index, NEW b \in Index,
         NEW p, NEW q, Chain(p, q, a, b),
         NEW e4, e4 = mem[Root][a], NEW e3, e3 = mem[e4.address][b]
  PROVE  TwoEntries(tab, q, e4, e3)
<1>1. PICK o : o = << >>
  BY Zenon
<1>2. o \in DOMAIN tab /\ tab[o] = Root /\ Len(o) < 3 /\ p = Append(o, a) /\ p \notin Pages
  BY <1>1, SMTT(30) DEF Tree, Chain
<1>3. Leads(mem, tab, o, a, p)
  BY <1>2, StepPath, Zenon
<1>4. CASE p \notin DOMAIN tab
  <2>1. q \notin DOMAIN tab
    BY <1>4, Zenon DEF Tree, Chain
  <2> QED BY <1>2, <1>3, <1>4, <2>1, Zenon DEF Leads, TwoEntries
<1>5. CASE p \in DOMAIN tab
  <2>1. e4 = Inner(tab[p]) /\ tab[p] \in Frames
    BY <1>2, <1>3, <1>5 DEF Leads
  <2>2. e3 = mem[tab[p]][b]
    BY <2>1 DEF Inner
  <2>3. Leads(mem, tab, p, b, q)
    BY <1>5, StepPath, Zenon DEF Chain
  <2> QED BY <2>1, <2>2, <2>3 DEF Leads, TwoEntries
<1> QED BY <1>4, <1>5, Zenon

(* The whole way. *)
LEMMA Paths ==
  ASSUME NEW mem, NEW n, NEW tab, Tree(mem, n, tab), NEW page \in Pages
  PROVE  PathTo(mem, tab, page)
<1>1. PICK a, b, c \in Index, p, q \in Seq(Index) :
        /\ page[1] = a /\ page[2] = b /\ page[3] = c /\ Chain(p, q, a, b)
        /\ \/ NameOf(page) = q /\ LeafIndex(page) = c /\ Len(page) = 3
           \/ /\ Len(page) = 4 /\ LeafIndex(page) \in Index /\ LeafIndex(page) = page[4]
              /\ NameOf(page) = Append(q, c) /\ NameOf(page) \notin Pages
  BY Chains
<1>3. PICK e4, e3, e2 : e4 = mem[Root][a] /\ e3 = mem[e4.address][b] /\ e2 = mem[e3.address][c]
  BY Zenon
<1>4. TwoEntries(tab, q, e4, e3)
  <2>1. Chain(p, q, a, b)
    BY <1>1, Zenon
  <2> QED BY <1>3, <2>1, TwoSteps, Zenon
<1>5. q \in DOMAIN tab => e2 = mem[tab[q]][c]
  <2>1. ASSUME e3 = Inner(tab[q]) PROVE e3.address = tab[q]
    BY <2>1 DEF Inner
  <2>2. q \in DOMAIN tab => e3 = Inner(tab[q])
    BY <1>4, Zenon DEF TwoEntries
  <2> QED BY <1>3, <2>1, <2>2, Zenon
<1>6. CASE Len(page) = 3
  <2>1. PICK s : s = PathIn(mem, page)
    BY Zenon
  <2>2. s = <<e4, e3, e2>>
    BY <1>1, <1>3, <1>6, <2>1, Zenon DEF PathIn
  <2>3. s[1] = e4 /\ s[2] = e3 /\ s[3] = e2
    BY <2>2
  <2>4. NameOf(page) = q /\ LeafIndex(page) = c
    BY <1>1, <1>6
  <2>5. 3 - 1 = 2 /\ \A i \in 1 .. 2 : i = 1 \/ i = 2
    OBVIOUS
  <2> QED BY <1>4, <1>5, <1>6, <2>1, <2>3, <2>4, <2>5 DEF PathTo, TwoEntries
<1>7. CASE Len(page) = 4
  <2>1. PICK d \in Index : d = LeafIndex(page) /\ d = page[4]
    BY <1>1, <1>7
  <2>2. PICK s, e1, r : s = PathIn(mem, page) /\ e1 = mem[e2.address][d] /\ r = NameOf(page)
    BY Zenon
  <2>3. s = <<e4, e3, e2, e1>>
    <3>1. PathIn(mem, page)
            = <<mem[Root][page[1]], mem[mem[Root][page[1]].address][page[2]],
                mem[mem[mem[Root][page[1]].address][page[2]].address][page[3]],
                mem[mem[mem[mem[Root][page[1]].address][page[2]].address][page[3]].address][page[4]]>>
      BY <1>7 DEF PathIn
    <3> QED BY <1>1, <1>3, <2>1, <2>2, <3>1, ZenonT(40)
  <2>4. s[1] = e4 /\ s[2] = e3 /\ s[3] = e2 /\ s[4] = e1
    BY <2>3, SMTT(30)
  <2>5. r \notin Pages /\ r = Append(q, c)
    BY <1>1, <1>7, <2>2
  <2>6. 4 - 1 = 3 /\ \A i \in 1 .. 3 : i = 1 \/ i = 2 \/ i = 3
    BY SMTT(30)
  <2>7. CASE q \notin DOMAIN tab
    <3>1. r \notin DOMAIN tab
      BY <1>1, <2>5, <2>7, Zenon DEF Tree, Chain
    <3> QED BY <1>4, <1>7, <2>1, <2>2, <2>4, <2>6, <2>7, <3>1, SMTT(30) DEF PathTo, TwoEntries
  <2>8. CASE q \in DOMAIN tab
    <3>1. Leads(mem, tab, q, c, r)
      BY <1>1, <2>5, <2>8, StepPath, ZenonT(40) DEF Chain
    <3>2. \/ r \in DOMAIN tab /\ tab[r] \in Frames /\ e2 = Inner(tab[r])
          \/ r \notin DOMAIN tab /\ e2 = Unused
      BY <1>5, <2>8, <3>1 DEF Leads
    <3>3. r \in DOMAIN tab => e1 = mem[tab[r]][d]
      BY <2>2, <3>2 DEF Inner
    <3> QED BY <1>4, <1>7, <2>1, <2>2, <2>4, <2>6, <2>8, <3>2, <3>3, SMTT(60) DEF PathTo, TwoEntries
  <2> QED BY <2>7, <2>8
<1> QED BY <1>1, <1>6, <1>7

(* translate in the memory mem. *)
TranslateIn(mem, page) ==
  IF /\ \A i \in 1 .. Len(page) - 1 : ~ is_unused(PathIn(mem, page)[i])
     /\ is_present(PathIn(mem, page)[Len(page)])
  THEN PathIn(mem, page)[Len(page)] ELSE Unused

LEMMA TranslateReads ==
  ASSUME NEW page \in Pages
  PROVE  translate(page) = TranslateIn(memory, page)
BY ZenonT(40) DEF translate, Reaches, Path, TranslateIn, PathIn

LEMMA TranslateReadsNext ==
  ASSUME NEW page \in Pages
  PROVE  translate(page)' = TranslateIn(memory', page)
BY Zenon DEF translate, Reaches, Path, TranslateIn, PathIn

(* The walk finds what the tree says. *)
LEMMA TranslateIs ==
  ASSUME NEW mem, NEW n, NEW tab, Tree(mem, n, tab), NEW page \in Pages
  PROVE  TranslateIn(mem, page) = Mapped(mem, tab, page)
<1>1. PathTo(mem, tab, page)
  BY Paths, SMTT(30)
<1>2. CASE NameOf(page) \in DOMAIN tab
  <2>1. \A i \in 1 .. Len(page) - 1 : ~ is_unused(PathIn(mem, page)[i])
    BY <1>1, <1>2, EntryFacts, SMTT(30) DEF PathTo, is_unused
  <2>2. PathIn(mem, page)[Len(page)] = mem[tab[NameOf(page)]][LeafIndex(page)]
    BY <1>1, <1>2, SMTT(30) DEF PathTo
  <2> QED BY <1>2, <2>1, <2>2, SMTT(30) DEF TranslateIn, Mapped, Lookup
<1>3. CASE NameOf(page) \notin DOMAIN tab
  <2>1. \E i \in 1 .. Len(page) - 1 : is_unused(PathIn(mem, page)[i])
    BY <1>1, <1>3, SMTT(30) DEF PathTo, is_unused
  <2> QED BY <1>3, <2>1, SMTT(30) DEF TranslateIn, Mapped, Lookup
<1> QED BY <1>2, <1>3

(* What the entries on the way grant. *)
GrantsIn(mem, page, flag) == \A i \in 1 .. Len(page) : flag \in PathIn(mem, page)[i].flags
ForbidsIn(mem, page, flag) == \A i \in 1 .. Len(page) : flag \notin PathIn(mem, page)[i].flags

LEMMA CpuReads ==
  ASSUME NEW page \in Pages, NEW flag
  PROVE  /\ Grants(page, flag) <=> GrantsIn(memory, page, flag)
         /\ Forbids(page, flag) <=> ForbidsIn(memory, page, flag)
BY ZenonT(40) DEF Grants, Forbids, GrantsIn, ForbidsIn, Path, PathIn

(* The CPU reaches the pages that are mapped, and the way to a page that   *)
(* is mapped grants and forbids what the page's own entry does.            *)
LEMMA CpuSees ==
  ASSUME NEW mem, NEW n, NEW tab, Tree(mem, n, tab), NEW page \in Pages,
         NEW e, e = Mapped(mem, tab, page)
  PROVE  /\ GrantsIn(mem, page, "PRESENT") <=> e # Unused
         /\ e # Unused =>
              /\ GrantsIn(mem, page, "WRITABLE") <=> "WRITABLE" \in e.flags
              /\ Len(page) = 4 => ForbidsIn(mem, page, "HUGE_PAGE")
<1>1. PathTo(mem, tab, page)
  BY Paths
<1>2. PICK m \in Nat : m = Len(page) /\ m > 0 /\ (m # 3 => Len(NameOf(page)) = 3)
  BY PageCases, PageName, SMTT(30)
<1>3. CASE NameOf(page) \in DOMAIN tab
  <2>1. PICK x : x = PathIn(mem, page)[m] /\ x = mem[tab[NameOf(page)]][LeafIndex(page)]
    BY <1>1, <1>2, <1>3, SMTT(30) DEF PathTo
  <2>2. ASSUME NEW i \in 1 .. m, i # m
        PROVE  /\ "PRESENT" \in PathIn(mem, page)[i].flags
               /\ "WRITABLE" \in PathIn(mem, page)[i].flags
               /\ "HUGE_PAGE" \notin PathIn(mem, page)[i].flags
    <3>1. i \in 1 .. m - 1
      BY <2>2, SMTT(30)
    <3>2. PICK f \in Frames : PathIn(mem, page)[i] = Inner(f)
      BY <1>1, <1>2, <1>3, <3>1 DEF PathTo
    <3> QED BY <3>2 DEF Inner, parent_flags
  <2>3. m \in 1 .. m
    BY <1>2, SMTT(30)
  <2>4. GrantsIn(mem, page, "PRESENT") <=> is_present(x)
    BY <1>2, <2>1, <2>2, <2>3, Zenon DEF GrantsIn, is_present
  <2>5. GrantsIn(mem, page, "WRITABLE") <=> "WRITABLE" \in x.flags
    BY <1>2, <2>1, <2>2, <2>3, Zenon DEF GrantsIn
  <2>6. m = 4 => ForbidsIn(mem, page, "HUGE_PAGE")
    <3>1. m = 4 => "HUGE_PAGE" \notin x.flags
      BY <1>2, <1>3, <2>1, PageName, SMTT(60) DEF Tree
    <3> QED BY <1>2, <2>1, <2>2, <3>1, Zenon DEF ForbidsIn
  <2>7. e = IF is_present(x) THEN x ELSE Unused
    BY <1>3, <2>1, Zenon DEF Mapped, Lookup
  <2>8. ~ is_present(Unused)
    BY EntryFacts
  <2> QED BY <1>2, <2>4, <2>5, <2>6, <2>7, <2>8, SMTT(30)
<1>4. CASE NameOf(page) \notin DOMAIN tab
  <2>1. e = Unused
    BY <1>4, SMTT(30) DEF Mapped, Lookup
  <2>2. PICK i \in 1 .. m - 1 : PathIn(mem, page)[i] = Unused
    BY <1>1, <1>2, <1>4 DEF PathTo
  <2>3. i \in 1 .. m /\ "PRESENT" \notin Unused.flags
    BY <1>2, SMTT(30) DEF Unused
  <2> QED BY <1>2, <2>1, <2>2, <2>3, SMTT(30) DEF GrantsIn
<1> QED BY <1>3, <1>4, Zenon

-----------------------------------------------------------------------------
(* The tree. *)

(* The tables below those with the names N, and the frames of names. *)
Below(tab, N) == {c \in DOMAIN tab : \E p \in N, i \in Index : c = Append(p, i)}
FramesOf(tab, N) == {tab[p] : p \in N}

(* The entries that lead on are those of tables. *)
LEMMA LinkIs ==
  ASSUME NEW tab, Tree(memory, next, tab), NEW N \in SUBSET DOMAIN tab, \A p \in N : Len(p) < 3,
         NEW x \in Links(FramesOf(tab, N))
  PROVE  \E p \in N, i \in Index :
           /\ x = <<tab[p], i>> /\ Append(p, i) \in DOMAIN tab
           /\ memory[x[1]][x[2]].address = tab[Append(p, i)]
<1>1. PICK p \in N, i \in Index : x = <<tab[p], i>>
  BY DEF Links, FramesOf
<1>2. x[1] = tab[p] /\ x[2] = i
  BY <1>1
<1>3. ~ is_unused(memory[tab[p]][i]) /\ "HUGE_PAGE" \notin memory[tab[p]][i].flags
  BY <1>2, SMTT(30) DEF Links
<1>4. Slot(memory, tab, p, i)
  BY SMTT(30) DEF Tree
<1>5. Append(p, i) \in DOMAIN tab /\ memory[tab[p]][i] = Inner(tab[Append(p, i)])
  BY <1>3, <1>4 DEF Slot, is_unused
<1> QED BY <1>1, <1>2, <1>5, SMTT(30) DEF Inner

(* The children of tables are the tables below. *)
LEMMA ChildrenAre ==
  ASSUME NEW tab, Tree(memory, next, tab), NEW N \in SUBSET DOMAIN tab, \A p \in N : Len(p) < 3
  PROVE  Children(FramesOf(tab, N)) = FramesOf(tab, Below(tab, N))
<1>1. ASSUME NEW f \in Children(FramesOf(tab, N)) PROVE f \in FramesOf(tab, Below(tab, N))
  <2>1. PICK x \in Links(FramesOf(tab, N)) : f = memory[x[1]][x[2]].address
    BY DEF Children
  <2>2. PICK p \in N, i \in Index :
          Append(p, i) \in DOMAIN tab /\ memory[x[1]][x[2]].address = tab[Append(p, i)]
    BY LinkIs
  <2> QED BY <2>1, <2>2, ZenonT(40) DEF FramesOf, Below
<1>2. ASSUME NEW f \in FramesOf(tab, Below(tab, N)) PROVE f \in Children(FramesOf(tab, N))
  <2>1. PICK p \in N, i \in Index : Append(p, i) \in DOMAIN tab /\ f = tab[Append(p, i)]
    BY Zenon DEF FramesOf, Below
  <2>2. Slot(memory, tab, p, i) /\ f \in Frames
    BY <2>1, TreeFacts, ZenonT(40) DEF Tree
  <2>3. memory[tab[p]][i] = Inner(f)
    BY <2>1, <2>2 DEF Slot
  <2>4. PICK x : x = <<tab[p], i>>
    BY ZenonT(40)
  <2>5. x[1] = tab[p] /\ x[2] = i /\ x \in FramesOf(tab, N) \X Index
    BY <2>4 DEF FramesOf
  <2>6. x \in Links(FramesOf(tab, N))
    BY <2>2, <2>3, <2>5, EntryFacts DEF Links, is_unused
  <2>7. memory[x[1]][x[2]].address = f
    BY <2>3, <2>5 DEF Inner
  <2> QED BY <2>6, <2>7, SMTT(30) DEF Children
<1> QED BY <1>1, <1>2, Zenon

(* Names below are longer by one. *)
Long(N, k) == \A p \in N : Len(p) = k

LEMMA BelowLonger ==
  ASSUME NEW mem, NEW n, NEW tab, Tree(mem, n, tab), NEW N \in SUBSET DOMAIN tab,
         NEW k \in Nat, Long(N, k), NEW m \in Nat, m = k + 1
  PROVE  Long(Below(tab, N), m)
<1> SUFFICES ASSUME NEW c \in Below(tab, N) PROVE Len(c) = m
  BY DEF Long
<1>1. PICK p \in N, i \in Index : c = Append(p, i)
  BY SMTT(30) DEF Below
<1>2. p \in Seq(Index) /\ Len(p) = k
  BY SMTT(30) DEF Tree, Long
<1> QED BY <1>1, <1>2, Named

(* All of it together. *)
LEMMA TreeFormsTree ==
  ASSUME NEW tab, Tree(memory, next, tab)
  PROVE  TablesFormTree
<1>1. PICK N4, N3, N2, N1 : /\ N4 = {<< >>} /\ N3 = Below(tab, N4)
                            /\ N2 = Below(tab, N3) /\ N1 = Below(tab, N2)
  BY Zenon
<1>2. /\ N4 \in SUBSET DOMAIN tab /\ N3 \in SUBSET DOMAIN tab
      /\ N2 \in SUBSET DOMAIN tab /\ N1 \in SUBSET DOMAIN tab
  BY <1>1 DEF Below, Tree
<1>3. Long(N4, 0) /\ Long(N3, 1) /\ Long(N2, 2) /\ Long(N1, 3)
  <2>1. Long(N4, 0)
    BY <1>1 DEF Long
  <2>2. 1 = 0 + 1 /\ 2 = 1 + 1 /\ 3 = 2 + 1
    OBVIOUS
  <2>3. Long(N3, 1)
    BY <1>1, <1>2, <2>1, <2>2, BelowLonger, SMTT(30)
  <2>4. Long(N2, 2)
    BY <1>1, <1>2, <2>2, <2>3, BelowLonger, SMTT(30)
  <2>5. Long(N1, 3)
    BY <1>1, <1>2, <2>2, <2>4, BelowLonger
  <2> QED BY <2>1, <2>3, <2>4, <2>5
<1>4. /\ \A p \in N4 : Len(p) < 3
      /\ \A p \in N3 : Len(p) < 3 /\ Len(p) # 0
      /\ \A p \in N2 : Len(p) < 3 /\ Len(p) # 0
      /\ \A p \in N1 : Len(p) # 0
  <2>1. \A p \in N4 : Len(p) = 0
    BY <1>3 DEF Long
  <2>2. \A p \in N3 : Len(p) = 1
    BY <1>3 DEF Long
  <2>3. \A p \in N2 : Len(p) = 2
    BY <1>3 DEF Long
  <2>4. \A p \in N1 : Len(p) = 3
    BY <1>3 DEF Long
  <2>5. \A p \in N4 : Len(p) < 3
    BY <2>1
  <2>6. \A p \in N3 : Len(p) < 3 /\ Len(p) # 0
    BY <2>2
  <2>7. \A p \in N2 : Len(p) < 3 /\ Len(p) # 0
    <3> SUFFICES ASSUME NEW p \in N2 PROVE Len(p) < 3 /\ Len(p) # 0
      OBVIOUS
    <3>1. Len(p) = 2
      BY <2>3
    <3> QED BY <3>1
  <2>8. \A p \in N1 : Len(p) # 0
    BY <2>4, SMTT(30)
  <2> QED BY <2>5, <2>6, <2>7, <2>8
<1>5. {Root} = FramesOf(tab, N4)
  BY <1>1, <1>2 DEF FramesOf, Tree
<1>6. Level3 = FramesOf(tab, N3)
  <2>2. Children(FramesOf(tab, N4)) = FramesOf(tab, Below(tab, N4))
    BY <1>2, <1>4, ChildrenAre
  <2> QED BY <1>1, <1>5, <2>2, Zenon DEF Level3
<1>7. Level2 = FramesOf(tab, N2)
  <2>2. Children(FramesOf(tab, N3)) = FramesOf(tab, Below(tab, N3))
    BY <1>2, <1>4, ChildrenAre
  <2> QED BY <1>1, <1>6, <2>2 DEF Level2
<1>8. Level1 = FramesOf(tab, N1)
  <2>2. Children(FramesOf(tab, N2)) = FramesOf(tab, Below(tab, N2))
    BY <1>2, <1>4, ChildrenAre, SMTT(30)
  <2> QED BY <1>1, <1>7, <2>2 DEF Level1
<1>9. ASSUME NEW p \in DOMAIN tab, Len(p) # 0 PROVE tab[p] \in Tables \ {Root}
  <2>1. tab[p] # Root
    <3>1. << >> \in DOMAIN tab /\ tab[<< >>] = Root /\ Len(<< >>) = 0
      BY SMTT(30) DEF Tree
    <3> QED BY <1>9, <3>1, SMTT(30) DEF Tree
  <2>2. InUse(tab[p], next) /\ next \in Nat /\ next <= Len(TableFrames) /\ Len(TableFrames) \in Nat
    BY TreeFacts, PagesAssumption, LenProperties, SMTT(30)
  <2> QED BY <2>1, <2>2, SMTT(30) DEF InUse, Tables
<1>10. Level3 \cup Level2 \cup Level1 \subseteq Tables \ {Root}
  BY <1>2, <1>4, <1>6, <1>7, <1>8, <1>9, SMTT(30) DEF FramesOf
<1>11. \A p, q \in DOMAIN tab : tab[p] = tab[q] => p = q
  BY DEF Tree
<1>12. Level3 \cap Level2 = {} /\ Level3 \cap Level1 = {} /\ Level2 \cap Level1 = {}
  <2>1. N3 \cap N2 = {} /\ N3 \cap N1 = {} /\ N2 \cap N1 = {}
    BY <1>3, SMTT(30) DEF Long
  <2> QED BY <1>2, <1>6, <1>7, <1>8, <1>11, <2>1 DEF FramesOf
<1>13. ASSUME NEW x \in Links({Root} \cup Level3 \cup Level2),
              NEW y \in Links({Root} \cup Level3 \cup Level2),
              memory[x[1]][x[2]].address = memory[y[1]][y[2]].address
       PROVE  x = y
  <2>1. PICK N : N = N4 \cup N3 \cup N2
    BY ZenonT(40)
  <2>2. N \in SUBSET DOMAIN tab /\ \A p \in N : Len(p) < 3
    BY <1>2, <1>4, <2>1
  <2>3. {Root} \cup Level3 \cup Level2 = FramesOf(tab, N)
    BY <1>5, <1>6, <1>7, <2>1 DEF FramesOf
  <2>9. x \in Links(FramesOf(tab, N)) /\ y \in Links(FramesOf(tab, N))
    BY <2>3
  <2>4. PICK p \in N, i \in Index :
          /\ x = <<tab[p], i>> /\ Append(p, i) \in DOMAIN tab
          /\ memory[x[1]][x[2]].address = tab[Append(p, i)]
    BY <2>2, <2>9, LinkIs, SMTT(30)
  <2>5. PICK q \in N, j \in Index :
          /\ y = <<tab[q], j>> /\ Append(q, j) \in DOMAIN tab
          /\ memory[y[1]][y[2]].address = tab[Append(q, j)]
    BY <2>2, <2>9, LinkIs, SMTT(30)
  <2>6. Append(p, i) = Append(q, j)
    BY <1>11, <1>13, <2>4, <2>5, ZenonT(40)
  <2>7. p \in Seq(Index) /\ q \in Seq(Index)
    BY <2>2 DEF Tree
  <2>8. p = q /\ i = j
    BY <2>6, <2>7, NamedOnce
  <2> QED BY <2>4, <2>5, <2>8
<1> QED BY <1>10, <1>12, <1>13, Zenon DEF TablesFormTree

=============================================================================
