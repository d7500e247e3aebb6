------------------------- MODULE FrameHandoffProofs -------------------------
(***************************************************************************)
(* Proofs about FrameHandoff, for every frame size and every firmware map: *)
(* what the allocators of stage 4 and of the kernel hand out, and what the *)
(* memory map of the boot information says.                                *)
(***************************************************************************)
EXTENDS FrameHandoff, WellFoundedInduction, TLAPS

-----------------------------------------------------------------------------
(* Induction over the natural numbers, about sets of numbers, which stand  *)
(* for the predicates.                                                     *)

Less == {pair \in Nat \X Nat : pair[1] < pair[2]}

(* Every set of natural numbers has a least element. *)
LEMMA LeastNumber ==
  ASSUME NEW T, T \subseteq Nat, T # {}
  PROVE  \E x \in T : \A y \in T : x <= y
<1>1. IsWellFoundedOn(Less, Nat)
  BY NatLessThanWellFounded DEF OpToRel, Less
<1>2. PICK x \in T : \A y \in T : <<y, x>> \notin Less
  BY <1>1, WFMin, Zenon
<1>3. \A y \in T : ~(y < x)
  BY <1>2, Zenon DEF Less
<1> QED BY <1>3

(* A set with 0 in it and the successor of each of its numbers has all. *)
LEMMA SetInduction ==
  ASSUME NEW S, 0 \in S, \A n \in Nat : n \in S => n + 1 \in S
  PROVE  \A n \in Nat : n \in S
<1> SUFFICES ASSUME {n \in Nat : n \notin S} # {} PROVE FALSE
  OBVIOUS
<1>1. PICK x \in {n \in Nat : n \notin S} : \A y \in {n \in Nat : n \notin S} : x <= y
  BY LeastNumber, Zenon
<1>2. x # 0 /\ x - 1 \in Nat
  BY <1>1
<1>3. x - 1 \in S
  BY <1>1, <1>2
<1>4. x - 1 + 1 = x
  BY <1>1
<1> QED BY <1>1, <1>2, <1>3, <1>4

-----------------------------------------------------------------------------
(* Sequences. *)

(* A sequence is a function on the numbers up to its length. *)
LEMMA LenProperties ==
  ASSUME NEW S, NEW s \in Seq(S)
  PROVE  Len(s) \in Nat /\ DOMAIN s = 1 .. Len(s) /\ s \in [1 .. Len(s) -> S]
OBVIOUS

(* The elements of a sequence. *)
LEMMA ElementOfSeq ==
  ASSUME NEW S, NEW s \in Seq(S), NEW i \in 1 .. Len(s)
  PROVE  s[i] \in S
OBVIOUS

(* The empty sequence, and the others. *)
LEMMA EmptySeq ==
  ASSUME NEW S
  PROVE  /\ << >> \in Seq(S) /\ Len(<< >>) = 0
         /\ \A s \in Seq(S) : s # << >> => Len(s) \in Nat \ {0}
OBVIOUS

(* Sequences of one length with the same elements are equal. *)
LEMMA SeqEqual ==
  ASSUME NEW S, NEW s \in Seq(S), NEW t \in Seq(S),
         Len(s) = Len(t), \A i \in 1 .. Len(s) : s[i] = t[i]
  PROVE  s = t
OBVIOUS

(* One element more. *)
LEMMA AppendProperties ==
  ASSUME NEW S, NEW s \in Seq(S), NEW x \in S
  PROVE  /\ Append(s, x) \in Seq(S) /\ Append(s, x) # << >>
         /\ Len(Append(s, x)) = Len(s) + 1
         /\ \A i \in 1 .. Len(s) : Append(s, x)[i] = s[i]
         /\ Append(s, x)[Len(s) + 1] = x
OBVIOUS

(* One sequence behind another. *)
LEMMA ConcatProperties ==
  ASSUME NEW S, NEW s \in Seq(S), NEW t \in Seq(S)
  PROVE  /\ s \o t \in Seq(S) /\ Len(s \o t) = Len(s) + Len(t)
         /\ \A i \in 1 .. Len(s) + Len(t) :
              (s \o t)[i] = IF i <= Len(s) THEN s[i] ELSE t[i - Len(s)]
OBVIOUS

(* A part of a sequence. *)
LEMMA SubSeqProperties ==
  ASSUME NEW S, NEW s, NEW m \in Int, NEW n \in Int, \A i \in m .. n : s[i] \in S
  PROVE  /\ SubSeq(s, m, n) \in Seq(S)
         /\ Len(SubSeq(s, m, n)) = IF m <= n THEN n - m + 1 ELSE 0
         /\ \A i \in 1 .. n - m + 1 : SubSeq(s, m, n)[i] = s[m + i - 1]
OBVIOUS

-----------------------------------------------------------------------------
(* Frames. *)

(* At most, and less, through a number between. *)
LEMMA AtMost ==
  ASSUME NEW a \in Nat, NEW b \in Nat, NEW c \in Nat, a <= b, b <= c
  PROVE  a <= c
OBVIOUS

(* Strictly. *)
LEMMA Below ==
  ASSUME NEW a \in Nat, NEW b \in Nat, NEW c \in Nat, a < b, b <= c
  PROVE  a < c
OBVIOUS

(* A region ends behind its start. *)
LEMMA RegionNumbers ==
  ASSUME NEW T, NEW r \in [start : Nat, size : Nat, typ : T]
  PROVE  /\ r.start \in Nat /\ r.size \in Nat /\ r.typ \in T
         /\ End(r) \in Nat /\ r.start <= End(r) /\ (r.size > 0 => End(r) > 0)
<1>1. r.start \in Nat /\ r.size \in Nat /\ r.typ \in T /\ End(r) = r.start + r.size
  BY DEF End
<1> QED BY <1>1

(* A multiple of c is c times its quotient. *)
LEMMA Quotient ==
  ASSUME NEW a \in Nat, NEW c \in Nat \ {0}, a % c = 0
  PROVE  \E q \in Nat : a = q * c
<1>1. a \div c \in Nat
  OBVIOUS
<1>2. a = c * (a \div c)
  OBVIOUS
<1>3. c * (a \div c) = (a \div c) * c
  BY <1>1
<1> QED BY <1>1, <1>2, <1>3

(* Every product is a multiple of its factors. *)
LEMMA Multiple ==
  ASSUME NEW q \in Nat, NEW c \in Nat \ {0}
  PROVE  (q * c) % c = 0
OBVIOUS

(* Sums of multiples are multiples. *)
LEMMA SumMultiple ==
  ASSUME NEW a \in Nat, NEW b \in Nat, NEW c \in Nat \ {0}, a % c = 0, b % c = 0
  PROVE  (a + b) % c = 0
<1>1. PICK p \in Nat, q \in Nat : a = p * c /\ b = q * c
  BY Quotient, Zenon
<1>2. a + b = (p + q) * c /\ p + q \in Nat
  BY <1>1
<1> QED BY <1>2, Multiple, Zenon

(* The next multiple is c further on. *)
LEMMA NextMultiple ==
  ASSUME NEW a \in Nat, NEW b \in Nat, NEW c \in Nat \ {0}, a % c = 0, b % c = 0, a < b
  PROVE  a + c <= b
<1>1. PICK p \in Nat, q \in Nat : a = p * c /\ b = q * c
  BY Quotient, Zenon
<1>2. ASSUME q <= p PROVE FALSE
  <2>1. PICK d \in Nat : p = q + d
    <3>1. p - q \in Nat /\ p = q + (p - q)
      BY <1>2
    <3> QED BY <3>1
  <2>2. p * c = q * c + d * c /\ d * c \in Nat /\ q * c \in Nat
    BY <2>1
  <2> QED BY <1>1, <2>2
<1>3. PICK d \in Nat : q = p + 1 + d
  <2>1. q - p - 1 \in Nat /\ q = p + 1 + (q - p - 1)
    BY <1>2
  <2> QED BY <2>1
<1>4. q * c = p * c + c + d * c /\ d * c \in Nat /\ p * c \in Nat
  BY <1>3
<1> QED BY <1>1, <1>4

(* A multiple of a multiple. *)
LEMMA MultipleOfMultiple ==
  ASSUME NEW a \in Nat, NEW b \in Nat \ {0}, NEW c \in Nat \ {0}, a % b = 0, b % c = 0
  PROVE  a % c = 0
<1>1. PICK p \in Nat, q \in Nat : a = p * b /\ b = q * c
  <2>1. \E p \in Nat : a = p * b
    BY Quotient, Zenon
  <2>2. \E q \in Nat : b = q * c
    BY Quotient, Zenon
  <2> QED BY <2>1, <2>2, Zenon
<1>2. a = (p * q) * c /\ p * q \in Nat
  BY <1>1
<1> QED BY <1>2, Multiple, Zenon

(* The frame that holds an address. *)
LEMMA ContainingFrame ==
  ASSUME NEW a \in Nat, NEW c \in Nat \ {0}
  PROVE  /\ containing_address(a, c) \in Nat /\ containing_address(a, c) % c = 0
         /\ containing_address(a, c) <= a /\ a < containing_address(a, c) + c
         /\ a % c = 0 => containing_address(a, c) = a
<1>1. PICK q \in Nat, d \in Nat : q = a \div c /\ d = a % c /\ d < c /\ a = c * q + d
  OBVIOUS
<1>2. a - d = q * c /\ q * c \in Nat
  BY <1>1
<1>3. containing_address(a, c) = q * c
  BY <1>1, <1>2 DEF containing_address, align_down
<1>4. (q * c) % c = 0
  BY Multiple
<1>5. q * c <= a /\ a < q * c + c /\ (d = 0 => q * c = a)
  BY <1>1, <1>2
<1> QED BY <1>1, <1>2, <1>3, <1>4, <1>5

(* The frame behind a frame. *)
LEMMA NextFrame ==
  ASSUME NEW a \in Nat, NEW c \in Nat \ {0}, a % c = 0
  PROVE  plus(a, 1, c) = a + c /\ (a + c) % c = 0
<1>1. 1 * c = c /\ a + c \in Nat /\ c = 1 * c /\ 1 \in Nat
  OBVIOUS
<1>2. c % c = 0
  BY <1>1, Multiple
<1>3. (a + c) % c = 0
  BY <1>2, SumMultiple, Zenon
<1>4. containing_address(a + c, c) = a + c
  BY <1>1, <1>3, ContainingFrame, Zenon
<1> QED BY <1>1, <1>3, <1>4 DEF plus

(* How many frames begin in a region. *)
LEMMA FrameCount ==
  ASSUME NEW size \in Nat, NEW c \in Nat \ {0}
  PROVE  \E n \in Nat :
           /\ n = (size + c - 1) \div c
           /\ \A j \in Nat : j + 1 <= n => j * c < size
           /\ \A j \in Nat : j * c < size => j + 1 <= n
<1>1. PICK x \in Nat : x = size + c - 1
  OBVIOUS
<1>2. PICK n \in Nat, d \in Nat : n = x \div c /\ d < c /\ x = c * n + d
  OBVIOUS
<1>3. c * n = n * c /\ n * c \in Nat
  BY <1>2
<1>4. ASSUME NEW j \in Nat, j + 1 <= n PROVE j * c < size
  <2>1. PICK e \in Nat : n = j + 1 + e
    <3>1. n - j - 1 \in Nat /\ n = j + 1 + (n - j - 1)
      BY <1>4
    <3> QED BY <3>1
  <2>2. n * c = j * c + c + e * c /\ e * c \in Nat /\ j * c \in Nat
    BY <2>1
  <2> QED BY <1>1, <1>2, <1>3, <2>2
<1>5. ASSUME NEW j \in Nat, j * c < size PROVE j + 1 <= n
  <2> SUFFICES ASSUME n <= j PROVE FALSE
    BY <1>2
  <2>1. PICK e \in Nat : j = n + e
    <3>1. j - n \in Nat /\ j = n + (j - n)
      OBVIOUS
    <3> QED BY <3>1
  <2>2. j * c = n * c + e * c /\ e * c \in Nat
    BY <2>1
  <2> QED BY <1>1, <1>2, <1>3, <1>5, <2>2
<1> QED BY <1>1, <1>2, <1>4, <1>5

(* s lists the frames that begin in r. *)
AnyRegion == [start : Nat, size : Nat, typ : E820Types \cup {"Free"}]
IsFrame(f) == f \in Nat /\ f % FrameSize = 0
BeginsIn(f, r) == r.start <= f /\ f < End(r)
FramesIn(s, r) ==
  /\ s \in Seq(Nat)
  /\ \A k \in 1 .. Len(s) :
       s[k] = r.start + (k - 1) * FrameSize /\ IsFrame(s[k]) /\ BeginsIn(s[k], r)
  /\ \A f : IsFrame(f) /\ BeginsIn(f, r) => \E k \in 1 .. Len(s) : s[k] = f
  /\ \A j, k \in 1 .. Len(s) : j < k => s[j] < s[k]

(* The frames of a region that begins with one. *)
LEMMA RegionFramesIn ==
  ASSUME NEW r \in AnyRegion, r.start % FrameSize = 0
  PROVE  FramesIn(RegionFrames(r), r)
<1>1. PICK c \in Nat \ {0}, a \in Nat, z \in Nat :
        c = FrameSize /\ a = r.start /\ z = r.size /\ a % c = 0 /\ End(r) = a + z
  BY MapsAssumption DEF AnyRegion, End
<1>2. PICK n \in Nat : /\ n = (z + c - 1) \div c
                       /\ \A j \in Nat : j + 1 <= n => j * c < z
                       /\ \A j \in Nat : j * c < z => j + 1 <= n
  BY FrameCount, Zenon
<1>3. PICK s : s = [k \in 1 .. n |-> containing_address(a + (k - 1) * c, c)]
  BY Zenon
<1>4. RegionFrames(r) = s
  BY <1>1, <1>2, <1>3, Zenon DEF RegionFrames
<1>5. ASSUME NEW k \in 1 .. n
      PROVE  \E j \in Nat : /\ k = j + 1 /\ s[k] = a + j * c /\ k - 1 = j
                            /\ s[k] \in Nat /\ s[k] % c = 0 /\ j * c < z /\ j * c \in Nat
  <2>1. PICK j \in Nat : k = j + 1 /\ k - 1 = j /\ j + 1 <= n
    <3>1. k - 1 \in Nat /\ k = (k - 1) + 1 /\ (k - 1) + 1 <= n
      OBVIOUS
    <3> QED BY <3>1, Zenon
  <2>2. PICK p \in Nat : p = j * c
    OBVIOUS
  <2>3. p % c = 0 /\ p < z
    BY <1>2, <2>1, <2>2, Multiple, Zenon
  <2>4. a + p \in Nat /\ (a + p) % c = 0
    <3>1. a + p \in Nat
      OBVIOUS
    <3>2. (a + p) % c = 0
      BY <1>1, <2>3, SumMultiple, Zenon
    <3> QED BY <3>1, <3>2, Zenon
  <2>5. containing_address(a + p, c) = a + p
    BY <2>4, ContainingFrame, Zenon
  <2>6. s[k] = containing_address(a + j * c, c)
    BY <1>3, <2>1, Zenon
  <2>7. s[k] = a + p
    BY <2>2, <2>5, <2>6, Zenon
  <2> QED BY <2>1, <2>2, <2>3, <2>4, <2>7
<1>6. s \in Seq(Nat) /\ Len(s) = n
  <2>1. \A k \in 1 .. n : s[k] \in Nat
    BY <1>5, Zenon
  <2>2. s \in [1 .. n -> Nat]
    BY <1>3, <2>1, Zenon
  <2> QED BY <2>2
<1>7. ASSUME NEW k \in 1 .. n
      PROVE  s[k] = r.start + (k - 1) * FrameSize /\ IsFrame(s[k]) /\ BeginsIn(s[k], r)
  <2>1. PICK j \in Nat : /\ k - 1 = j /\ s[k] = a + j * c
                         /\ s[k] \in Nat /\ s[k] % c = 0 /\ j * c < z /\ j * c \in Nat
    BY <1>5, Zenon
  <2>2. a <= s[k] /\ s[k] < a + z
    BY <2>1
  <2>3. s[k] = r.start + (k - 1) * FrameSize
    BY <1>1, <2>1, Zenon
  <2> QED BY <1>1, <2>1, <2>2, <2>3, Zenon DEF IsFrame, BeginsIn
<1>8. ASSUME NEW f, IsFrame(f), BeginsIn(f, r) PROVE \E k \in 1 .. n : s[k] = f
  <2>1. f \in Nat /\ f % c = 0 /\ a <= f /\ f < a + z
    BY <1>1, <1>8, Zenon DEF IsFrame, BeginsIn
  <2>2. PICK p \in Nat, q \in Nat : a = p * c /\ f = q * c
    <3>1. \E p \in Nat : a = p * c
      BY <1>1, Quotient, Zenon
    <3>2. \E q \in Nat : f = q * c
      BY <1>1, <2>1, Quotient, Zenon
    <3> QED BY <3>1, <3>2, Zenon
  <2>3. PICK j \in Nat : q = p + j
    <3>1. ASSUME q < p PROVE FALSE
      <4>1. PICK e \in Nat : p = q + 1 + e
        <5>1. p - q - 1 \in Nat /\ p = q + 1 + (p - q - 1)
          BY <3>1
        <5> QED BY <5>1
      <4>2. p * c = q * c + c + e * c /\ e * c \in Nat
        BY <4>1
      <4> QED BY <2>1, <2>2, <4>2
    <3>2. q - p \in Nat /\ q = p + (q - p)
      BY <3>1
    <3> QED BY <3>2
  <2>4. f = a + j * c /\ j * c \in Nat
    BY <2>2, <2>3
  <2>5. j * c < z
    BY <2>1, <2>4
  <2>6. j + 1 \in 1 .. n /\ (j + 1) - 1 = j
    <3>1. j + 1 <= n
      BY <1>2, <2>5, Zenon
    <3> QED BY <3>1
  <2>7. PICK i \in Nat : (j + 1) - 1 = i /\ s[j + 1] = a + i * c
    BY <1>5, <2>6, Zenon
  <2> QED BY <2>4, <2>6, <2>7, Zenon
<1>9. ASSUME NEW j \in 1 .. n, NEW k \in 1 .. n, j < k PROVE s[j] < s[k]
  <2>1. PICK d \in Nat, e \in Nat : j = d + 1 /\ k = e + 1 /\ s[j] = a + d * c /\ s[k] = a + e * c
    BY <1>5, Zenon
  <2>2. PICK x \in Nat : e = d + 1 + x
    <3>1. e - d - 1 \in Nat /\ e = d + 1 + (e - d - 1)
      BY <1>9, <2>1
    <3> QED BY <3>1
  <2>3. e * c = d * c + c + x * c /\ x * c \in Nat /\ d * c \in Nat
    BY <2>2
  <2> QED BY <2>1, <2>3
<1> QED BY <1>4, <1>6, <1>7, <1>8, <1>9, Zenon DEF FramesIn

-----------------------------------------------------------------------------
(* The frames of a memory map. *)

AlignedMap(map) ==
  /\ map \in Seq(AnyRegion)
  /\ \A i \in 1 .. Len(map) : is_usable(map[i]) => map[i].start % FrameSize = 0
SortedMap(map) ==
  \A h, i \in 1 .. Len(map) :
    h < i /\ is_usable(map[h]) /\ is_usable(map[i]) => End(map[h]) <= map[i].start

(* u lists the frames that begin in usable ones of the first n regions of  *)
(* map: in increasing order if the map is sorted, those of the first       *)
(* region without a gap.                                                   *)
ListingOf(u, map, n) ==
  /\ u \in Seq(Nat)
  /\ \A k \in 1 .. Len(u) :
       IsFrame(u[k]) /\ \E i \in 1 .. n : is_usable(map[i]) /\ BeginsIn(u[k], map[i])
  /\ \A i \in 1 .. n : \A f :
       is_usable(map[i]) /\ IsFrame(f) /\ BeginsIn(f, map[i]) => \E k \in 1 .. Len(u) : u[k] = f
  /\ SortedMap(map) => \A k, l \in 1 .. Len(u) : k < l => u[k] < u[l]
  /\ is_usable(map[1]) =>
       \A k \in 1 .. Len(u) :
         \/ u[k] = map[1].start + (k - 1) * FrameSize /\ BeginsIn(u[k], map[1])
         \/ \E i \in 2 .. n : is_usable(map[i]) /\ BeginsIn(u[k], map[i])

Listing(u, map) == ListingOf(u, map, Len(map))

(* The frames of one region, if it is usable. *)
Chunk(r) == IF is_usable(r) THEN RegionFrames(r) ELSE << >>

(* They begin in the region. *)
LEMMA ChunkFrames ==
  ASSUME NEW map, AlignedMap(map), NEW i \in 1 .. Len(map)
  PROVE  /\ Chunk(map[i]) \in Seq(Nat)
         /\ is_usable(map[i]) => FramesIn(Chunk(map[i]), map[i])
         /\ \A j \in 1 .. Len(Chunk(map[i])) : is_usable(map[i])
<1>1. CASE is_usable(map[i])
  <2>1. map[i] \in AnyRegion /\ map[i].start % FrameSize = 0
    BY <1>1, ElementOfSeq, Zenon DEF AlignedMap
  <2>2. FramesIn(RegionFrames(map[i]), map[i])
    BY <2>1, RegionFramesIn, Zenon
  <2> QED BY <1>1, <2>2, Zenon DEF FramesIn, Chunk
<1>2. CASE ~ is_usable(map[i])
  <2>1. Chunk(map[i]) = << >>
    BY <1>2, Zenon DEF Chunk
  <2>2. << >> \in Seq(Nat) /\ \A j \in 1 .. Len(<< >>) : FALSE
    OBVIOUS
  <2> QED BY <1>2, <2>1, <2>2, Zenon
<1> QED BY <1>1, <1>2

(* The recursion over the regions. *)
LEMMA FramesAre ==
  ASSUME NEW map, NEW n \in Nat, n = Len(map)
  PROVE  \E b : /\ b[0] = << >>
                /\ \A i \in 0 .. n - 1 : b[i + 1] = b[i] \o Chunk(map[i + 1])
                /\ usable_frames(map) = b[n]
<1> DEFINE body(b, i) == IF i = 0 THEN << >> ELSE b[i - 1] \o Chunk(map[i])
           S == {m \in Nat : \E b : b = [i \in 0 .. m |-> body(b, i)]}
           frames == CHOOSE b : b = [i \in 0 .. n |-> body(b, i)]
<1>1. 0 \in S
  <2>1. PICK g : g = [i \in 0 .. 0 |-> << >>]
    BY Zenon
  <2>2. \A i \in 0 .. 0 : i = 0
    OBVIOUS
  <2>3. \A i \in 0 .. 0 : body(g, i) = << >>
    BY <2>2, Zenon
  <2>4. g = [i \in 0 .. 0 |-> body(g, i)]
    <3> HIDE DEF body
    <3> QED BY <2>1, <2>3, Zenon
  <2>5. 0 \in Nat
    OBVIOUS
  <2> QED BY <2>4, <2>5, Zenon
<1>2. ASSUME NEW m \in Nat, m \in S PROVE m + 1 \in S
  <2>1. PICK b : b = [i \in 0 .. m |-> body(b, i)]
    BY <1>2, Zenon
  <2>2. PICK g : g = [i \in 0 .. m + 1 |-> IF i = m + 1 THEN b[m] \o Chunk(map[i]) ELSE b[i]]
    BY Zenon
  <2>3. ASSUME NEW i \in 0 .. m + 1 PROVE g[i] = body(g, i)
    <3>1. CASE i = m + 1
      <4>1. i # 0 /\ i - 1 = m /\ m \in 0 .. m + 1 /\ m # m + 1
        BY <3>1
      <4>2. g[m] = b[m] /\ g[i] = b[m] \o Chunk(map[i])
        BY <2>2, <3>1, <4>1, Zenon
      <4> QED BY <4>1, <4>2, Zenon
    <3>2. CASE i # m + 1
      <4>1. i \in 0 .. m
        BY <3>2
      <4>2. g[i] = b[i] /\ b[i] = body(b, i)
        BY <2>1, <2>2, <3>2, <4>1, Zenon
      <4>3. CASE i = 0
        BY <4>2, <4>3, Zenon
      <4>4. CASE i # 0
        <5>1. i - 1 \in 0 .. m + 1 /\ i - 1 # m + 1
          BY <4>1, <4>4
        <5>2. g[i - 1] = b[i - 1]
          BY <2>2, <5>1, Zenon
        <5> QED BY <4>2, <4>4, <5>2, Zenon
      <4> QED BY <4>3, <4>4
    <3> QED BY <3>1, <3>2
  <2>4. g = [i \in 0 .. m + 1 |-> body(g, i)]
    <3> HIDE DEF body
    <3> QED BY <2>2, <2>3, Zenon
  <2>5. m + 1 \in Nat
    OBVIOUS
  <2> QED BY <2>4, <2>5, Zenon
<1>3. n \in S
  <2> HIDE DEF S
  <2> QED BY <1>1, <1>2, SetInduction, Zenon
<1>4. \E b : b = [i \in 0 .. n |-> body(b, i)]
  BY <1>3, Zenon
<1>5. frames = [i \in 0 .. n |-> body(frames, i)]
  <2> HIDE DEF body
  <2> QED BY <1>4, Zenon
<1>6. usable_frames(map) = frames[n]
  BY Zenon DEF usable_frames, Chunk
<1> HIDE DEF frames
<1>7. frames[0] = << >>
  <2>1. 0 \in 0 .. n
    OBVIOUS
  <2> QED BY <1>5, <2>1, Zenon
<1>8. ASSUME NEW i \in 0 .. n - 1 PROVE frames[i + 1] = frames[i] \o Chunk(map[i + 1])
  <2>1. i + 1 \in 0 .. n /\ i + 1 # 0 /\ (i + 1) - 1 = i
    OBVIOUS
  <2>2. frames[i + 1] = body(frames, i + 1)
    <3> HIDE DEF body
    <3> QED BY <1>5, <2>1, Zenon
  <2> QED BY <2>1, <2>2, Zenon
<1> QED BY <1>6, <1>7, <1>8, Zenon

(* v is w behind u, element by element. *)
Joined(v, u, w, p, q) ==
  /\ p = Len(u) /\ q = Len(w) /\ v \in Seq(Nat) /\ Len(v) = p + q
  /\ \A k \in 1 .. p : k \in 1 .. p + q /\ v[k] = u[k]
  /\ \A k \in 1 .. p + q : ~(k \in 1 .. p) => k - p \in 1 .. q /\ v[k] = w[k - p]
  /\ \A j \in 1 .. q : p + j \in 1 .. p + q /\ v[p + j] = w[j]

(* Concatenation joins sequences. *)
LEMMA Behind ==
  ASSUME NEW u \in Seq(Nat), NEW w \in Seq(Nat)
  PROVE  \E p \in Nat, q \in Nat : Joined(u \o w, u, w, p, q)
<1>1. PICK p \in Nat, q \in Nat : p = Len(u) /\ q = Len(w)
  BY LenProperties, Zenon
<1>2. PICK v : v = u \o w
  BY Zenon
<1>3. v \in Seq(Nat) /\ Len(v) = p + q /\ \A k \in 1 .. p + q : v[k] = IF k <= p THEN u[k] ELSE w[k - p]
  BY <1>1, <1>2, ConcatProperties, Zenon
<1>4. ASSUME NEW k \in 1 .. p PROVE k \in 1 .. p + q /\ v[k] = u[k]
  <2>1. k \in 1 .. p + q /\ k <= p
    OBVIOUS
  <2> QED BY <1>3, <2>1, Zenon
<1>5. ASSUME NEW k \in 1 .. p + q, ~(k \in 1 .. p) PROVE k - p \in 1 .. q /\ v[k] = w[k - p]
  <2>1. k - p \in 1 .. q /\ ~(k <= p)
    BY <1>5
  <2> QED BY <1>3, <2>1, Zenon
<1>6. ASSUME NEW j \in 1 .. q PROVE p + j \in 1 .. p + q /\ v[p + j] = w[j]
  <2>1. p + j \in 1 .. p + q /\ ~(p + j <= p) /\ (p + j) - p = j
    OBVIOUS
  <2>2. v[p + j] = w[(p + j) - p]
    BY <1>3, <2>1, Zenon
  <2> QED BY <2>1, <2>2
<1>7. Joined(v, u, w, p, q)
  BY <1>1, <1>3, <1>4, <1>5, <1>6, Zenon DEF Joined
<1> QED BY <1>2, <1>7, Zenon

(* One region more. *)
LEMMA ListingNext ==
  ASSUME NEW map, AlignedMap(map), NEW m \in Nat, m + 1 \in 1 .. Len(map),
         NEW u, ListingOf(u, map, m), m = 0 => u = << >>,
         NEW v, v = u \o Chunk(map[m + 1])
  PROVE  ListingOf(v, map, m + 1)
<1>1. PICK r \in AnyRegion, w \in Seq(Nat) : /\ r = map[m + 1] /\ w = Chunk(r)
                                             /\ is_usable(r) => FramesIn(w, r)
                                             /\ \A j \in 1 .. Len(w) : is_usable(r)
  BY ChunkFrames, ElementOfSeq, Zenon DEF AlignedMap
<1>2. u \in Seq(Nat) /\ v = u \o w
  BY <1>1, Zenon DEF ListingOf
<1>3. PICK p \in Nat, q \in Nat : Joined(v, u, w, p, q)
  BY <1>2, Behind, Zenon
<1>4. /\ p = Len(u) /\ q = Len(w) /\ v \in Seq(Nat) /\ Len(v) = p + q
      /\ \A k \in 1 .. p : k \in 1 .. p + q /\ v[k] = u[k]
      /\ \A k \in 1 .. p + q : ~(k \in 1 .. p) => k - p \in 1 .. q /\ v[k] = w[k - p]
      /\ \A j \in 1 .. q : p + j \in 1 .. p + q /\ v[p + j] = w[j]
  BY <1>3, Zenon DEF Joined
<1>5. /\ \A i \in 1 .. m : i \in 1 .. m + 1 /\ i < m + 1
      /\ \A i \in 1 .. m + 1 : i \in 1 .. m \/ i = m + 1
      /\ \A i \in 2 .. m : i \in 2 .. m + 1
      /\ m + 1 \in 1 .. m + 1 /\ (m # 0 => m + 1 \in 2 .. m + 1)
  OBVIOUS
<1>6. ASSUME NEW k \in 1 .. p
      PROVE  /\ v[k] = u[k] /\ IsFrame(u[k])
             /\ \E i \in 1 .. m : is_usable(map[i]) /\ BeginsIn(u[k], map[i])
  BY <1>4, Zenon DEF ListingOf
<1>7. ASSUME NEW k \in 1 .. p + q, ~(k \in 1 .. p)
      PROVE  /\ k - p \in 1 .. q /\ v[k] = w[k - p] /\ is_usable(r)
             /\ IsFrame(v[k]) /\ BeginsIn(v[k], r) /\ v[k] = r.start + (k - p - 1) * FrameSize
  <2>1. k - p \in 1 .. q /\ v[k] = w[k - p]
    BY <1>4, <1>7, Zenon
  <2>2. is_usable(r) /\ FramesIn(w, r)
    BY <1>1, <1>4, <2>1, Zenon
  <2> QED BY <1>4, <2>1, <2>2, Zenon DEF FramesIn
<1>8. ASSUME NEW k \in 1 .. p + q
      PROVE  IsFrame(v[k]) /\ \E i \in 1 .. m + 1 : is_usable(map[i]) /\ BeginsIn(v[k], map[i])
  <2>1. CASE k \in 1 .. p
    BY <1>5, <1>6, <2>1, Zenon
  <2>2. CASE ~(k \in 1 .. p)
    BY <1>1, <1>5, <1>7, <2>2, Zenon
  <2> QED BY <2>1, <2>2, Zenon
<1>9. ASSUME NEW i \in 1 .. m + 1, NEW f, is_usable(map[i]), IsFrame(f), BeginsIn(f, map[i])
      PROVE  \E k \in 1 .. p + q : v[k] = f
  <2>1. CASE i \in 1 .. m
    <3>1. PICK k \in 1 .. p : u[k] = f
      BY <1>4, <1>9, <2>1 DEF ListingOf
    <3> QED BY <1>4, <3>1, Zenon
  <2>2. CASE i = m + 1
    <3>1. PICK j \in 1 .. q : w[j] = f
      BY <1>1, <1>4, <1>9, <2>2, Zenon DEF FramesIn
    <3> QED BY <1>4, <3>1, Zenon
  <2> QED BY <1>5, <2>1, <2>2, Zenon
<1>10. ASSUME SortedMap(map), NEW k \in 1 .. p + q, NEW l \in 1 .. p + q, k < l PROVE v[k] < v[l]
  <2>1. CASE l \in 1 .. p
    <3>1. k \in 1 .. p
      BY <1>10, <2>1
    <3> QED BY <1>4, <1>10, <2>1, <3>1, Zenon DEF ListingOf
  <2>2. CASE ~(l \in 1 .. p) /\ k \in 1 .. p
    <3>1. PICK i \in 1 .. m : is_usable(map[i]) /\ BeginsIn(v[k], map[i])
      BY <1>6, <2>2, Zenon
    <3>2. i \in 1 .. Len(map) /\ i < m + 1
      BY <1>5
    <3>3. is_usable(r) /\ r.start <= v[l] /\ v[k] < End(map[i]) /\ IsFrame(v[k]) /\ IsFrame(v[l])
      BY <1>6, <1>7, <2>2, <3>1, Zenon DEF BeginsIn
    <3>4. End(map[i]) <= r.start
      BY <1>1, <1>10, <3>1, <3>2, <3>3, Zenon DEF SortedMap
    <3>5. map[i] \in AnyRegion
      BY <3>2, ElementOfSeq, Zenon DEF AlignedMap
    <3>6. End(map[i]) \in Nat /\ r.start \in Nat
      BY <1>1, <3>5, RegionNumbers, Zenon DEF AnyRegion
    <3>7. v[k] \in Nat /\ v[l] \in Nat
      BY <3>3, Zenon DEF IsFrame
    <3>8. End(map[i]) <= v[l]
      BY <3>3, <3>4, <3>6, <3>7, AtMost, Zenon
    <3> QED BY <3>3, <3>6, <3>7, <3>8, Below, Zenon
  <2>3. CASE ~(l \in 1 .. p) /\ ~(k \in 1 .. p)
    <3>1. k - p < l - p
      BY <1>10
    <3>2. /\ k - p \in 1 .. Len(w) /\ l - p \in 1 .. Len(w)
          /\ v[k] = w[k - p] /\ v[l] = w[l - p] /\ FramesIn(w, r)
      BY <1>1, <1>4, <1>7, <2>3, Zenon
    <3> QED BY <3>1, <3>2, Zenon DEF FramesIn
  <2> QED BY <2>1, <2>2, <2>3, Zenon
<1>11. ASSUME is_usable(map[1]), NEW k \in 1 .. p + q
       PROVE  \/ v[k] = map[1].start + (k - 1) * FrameSize /\ BeginsIn(v[k], map[1])
              \/ \E i \in 2 .. m + 1 : is_usable(map[i]) /\ BeginsIn(v[k], map[i])
  <2>1. CASE k \in 1 .. p
    <3>1. \/ u[k] = map[1].start + (k - 1) * FrameSize /\ BeginsIn(u[k], map[1])
          \/ \E i \in 2 .. m : is_usable(map[i]) /\ BeginsIn(u[k], map[i])
      BY <1>4, <1>11, <2>1, Zenon DEF ListingOf
    <3>2. v[k] = u[k]
      BY <1>6, <2>1, Zenon
    <3> QED BY <1>5, <3>1, <3>2, Zenon
  <2>2. CASE ~(k \in 1 .. p) /\ m # 0
    BY <1>1, <1>5, <1>7, <2>2, Zenon
  <2>3. CASE ~(k \in 1 .. p) /\ m = 0
    <3>1. p = 0 /\ m + 1 = 1
      BY <1>4, <2>3
    <3>2. v[k] = r.start + (k - p - 1) * FrameSize /\ BeginsIn(v[k], r)
      BY <1>7, <2>3, Zenon
    <3>3. k - p - 1 = k - 1
      BY <3>1
    <3> QED BY <1>1, <3>1, <3>2, <3>3, Zenon
  <2> QED BY <2>1, <2>2, <2>3, Zenon
<1>12. /\ v \in Seq(Nat) /\ p + q = Len(v)
       /\ \A k \in 1 .. p + q :
            IsFrame(v[k]) /\ \E i \in 1 .. m + 1 : is_usable(map[i]) /\ BeginsIn(v[k], map[i])
  BY <1>4, <1>8, Zenon
<1>13. \A i \in 1 .. m + 1 : \A f :
         is_usable(map[i]) /\ IsFrame(f) /\ BeginsIn(f, map[i]) => \E k \in 1 .. p + q : v[k] = f
  BY <1>9, Zenon
<1>14. /\ SortedMap(map) => \A k, l \in 1 .. p + q : k < l => v[k] < v[l]
       /\ is_usable(map[1]) =>
            \A k \in 1 .. p + q :
              \/ v[k] = map[1].start + (k - 1) * FrameSize /\ BeginsIn(v[k], map[1])
              \/ \E i \in 2 .. m + 1 : is_usable(map[i]) /\ BeginsIn(v[k], map[i])
  BY <1>10, <1>11, Zenon
<1> QED BY <1>12, <1>13, <1>14, Zenon DEF ListingOf

(* usable_frames lists the frames of the usable regions. *)
LEMMA UsableFrames ==
  ASSUME NEW map, AlignedMap(map)
  PROVE  Listing(usable_frames(map), map)
<1>1. PICK n \in Nat : n = Len(map)
  BY LenProperties, Zenon DEF AlignedMap
<1>2. PICK b : /\ b[0] = << >>
               /\ \A i \in 0 .. n - 1 : b[i + 1] = b[i] \o Chunk(map[i + 1])
               /\ usable_frames(map) = b[n]
  BY <1>1, FramesAre, Zenon
<1> DEFINE S == {m \in Nat : m <= n => ListingOf(b[m], map, m)}
<1>3. 0 \in S
  <2>1. << >> \in Seq(Nat) /\ 1 .. Len(<< >>) = {} /\ 1 .. 0 = {} /\ 0 \in Nat
    OBVIOUS
  <2>2. ListingOf(<< >>, map, 0)
    BY <2>1, Zenon DEF ListingOf
  <2> QED BY <1>2, <2>1, <2>2, Zenon
<1>4. ASSUME NEW m \in Nat, m \in S PROVE m + 1 \in S
  <2>1. ASSUME m + 1 <= n PROVE ListingOf(b[m + 1], map, m + 1)
    <3>1. m <= n /\ m \in 0 .. n - 1 /\ m + 1 \in 1 .. n
      BY <2>1
    <3>2. ListingOf(b[m], map, m) /\ (m = 0 => b[m] = << >>)
      BY <1>2, <1>4, <3>1, Zenon
    <3>3. b[m + 1] = b[m] \o Chunk(map[m + 1])
      BY <1>2, <3>1, Zenon
    <3> QED BY <1>1, <3>1, <3>2, <3>3, ListingNext, Zenon
  <2>2. m + 1 \in Nat
    OBVIOUS
  <2> QED BY <2>1, <2>2, Zenon
<1>5. n \in S
  <2> HIDE DEF S
  <2> QED BY <1>3, <1>4, SetInduction, Zenon
<1>6. n <= n
  OBVIOUS
<1>7. ListingOf(b[n], map, n)
  BY <1>5, <1>6, Zenon
<1> QED BY <1>1, <1>2, <1>7, Zenon DEF Listing

-----------------------------------------------------------------------------
(* build_memory_map. *)

(* b is the recursion of build_memory_map over the first n regions. *)
Builds(b, map, frame, n) ==
  /\ b[0] = [array |-> << >>, idx |-> 0]
  /\ \A i \in 0 .. n - 1 : b[i + 1] = add_region(b[i], map[i + 1], frame)
  /\ build_memory_map(map, frame) = b[n]

(* The recursion over the regions. *)
LEMMA BuildIs ==
  ASSUME NEW map, NEW n \in Nat, n = Len(map), NEW frame
  PROVE  \E b : Builds(b, map, frame, n)
<1> DEFINE body(b, i) == IF i = 0 THEN [array |-> << >>, idx |-> 0]
                         ELSE add_region(b[i - 1], map[i], frame)
           S == {m \in Nat : \E b : b = [i \in 0 .. m |-> body(b, i)]}
           build == CHOOSE b : b = [i \in 0 .. n |-> body(b, i)]
<1>1. 0 \in S
  <2>1. PICK g : g = [i \in 0 .. 0 |-> [array |-> << >>, idx |-> 0]]
    BY Zenon
  <2>2. \A i \in 0 .. 0 : i = 0
    OBVIOUS
  <2>3. \A i \in 0 .. 0 : body(g, i) = [array |-> << >>, idx |-> 0]
    BY <2>2, Zenon
  <2>4. g = [i \in 0 .. 0 |-> body(g, i)]
    <3> HIDE DEF body
    <3> QED BY <2>1, <2>3, Zenon
  <2>5. 0 \in Nat
    OBVIOUS
  <2> QED BY <2>4, <2>5, Zenon
<1>2. ASSUME NEW m \in Nat, m \in S PROVE m + 1 \in S
  <2>1. PICK b : b = [i \in 0 .. m |-> body(b, i)]
    BY <1>2, Zenon
  <2>2. PICK g : g = [i \in 0 .. m + 1 |->
                        IF i = m + 1 THEN add_region(b[m], map[i], frame) ELSE b[i]]
    BY Zenon
  <2>3. ASSUME NEW i \in 0 .. m + 1 PROVE g[i] = body(g, i)
    <3>1. CASE i = m + 1
      <4>1. i # 0 /\ i - 1 = m /\ m \in 0 .. m + 1 /\ m # m + 1
        BY <3>1
      <4>2. g[m] = b[m] /\ g[i] = add_region(b[m], map[i], frame)
        BY <2>2, <3>1, <4>1, Zenon
      <4> QED BY <4>1, <4>2, Zenon
    <3>2. CASE i # m + 1
      <4>1. i \in 0 .. m
        BY <3>2
      <4>2. g[i] = b[i] /\ b[i] = body(b, i)
        BY <2>1, <2>2, <3>2, <4>1, Zenon
      <4>3. CASE i = 0
        BY <4>2, <4>3, Zenon
      <4>4. CASE i # 0
        <5>1. i - 1 \in 0 .. m + 1 /\ i - 1 # m + 1
          BY <4>1, <4>4
        <5>2. g[i - 1] = b[i - 1]
          BY <2>2, <5>1, Zenon
        <5> QED BY <4>2, <4>4, <5>2, Zenon
      <4> QED BY <4>3, <4>4
    <3> QED BY <3>1, <3>2
  <2>4. g = [i \in 0 .. m + 1 |-> body(g, i)]
    <3> HIDE DEF body
    <3> QED BY <2>2, <2>3, Zenon
  <2>5. m + 1 \in Nat
    OBVIOUS
  <2> QED BY <2>4, <2>5, Zenon
<1>3. n \in S
  <2> HIDE DEF S
  <2> QED BY <1>1, <1>2, SetInduction, Zenon
<1>4. \E b : b = [i \in 0 .. n |-> body(b, i)]
  BY <1>3, Zenon
<1>5. build = [i \in 0 .. n |-> body(build, i)]
  <2> HIDE DEF body
  <2> QED BY <1>4, Zenon
<1>6. build_memory_map(map, frame) = build[n]
  BY Zenon DEF build_memory_map
<1> HIDE DEF build
<1>7. build[0] = [array |-> << >>, idx |-> 0]
  <2>1. 0 \in 0 .. n
    OBVIOUS
  <2> QED BY <1>5, <2>1, Zenon
<1>8. ASSUME NEW i \in 0 .. n - 1 PROVE build[i + 1] = add_region(build[i], map[i + 1], frame)
  <2>1. i + 1 \in 0 .. n /\ i + 1 # 0 /\ (i + 1) - 1 = i
    OBVIOUS
  <2>2. build[i + 1] = body(build, i + 1)
    <3> HIDE DEF body
    <3> QED BY <1>5, <2>1, Zenon
  <2> QED BY <2>1, <2>2, Zenon
<1> QED BY <1>6, <1>7, <1>8, Zenon DEF Builds

(* The regions of the boot information. *)
BootRegion == [start : Nat, size : Nat, typ : {"Free", "Reserved"}]

(* What is free of region r once frame is the last one taken. *)
FreePart(p, r, frame) ==
  /\ p.typ = "Free" /\ is_usable(r) /\ r.start # 0 /\ End(p) = End(r)
  /\ p.start = IF contains(r, frame) THEN frame + FrameSize ELSE r.start

(* The firmware's regions, as far as they matter here. *)
FirmwareMap(map) ==
  /\ map \in Seq([start : Nat, size : Nat, typ : E820Types])
  /\ \A i \in 1 .. Len(map) : map[i].start = 0 <=> i = 1
  /\ \A h, i \in 1 .. Len(map) : h < i => End(map[h]) <= map[i].start

(* acc holds what is free of the first n regions of map, and nothing else  *)
(* that is free, in order.                                                 *)
Built(acc, map, frame, n) ==
  /\ acc \in [array : Seq(BootRegion), idx : Nat] /\ acc.idx <= Len(acc.array)
  /\ \A k \in 1 .. Len(acc.array) :
       acc.array[k].typ = "Free" => \E i \in 1 .. n : FreePart(acc.array[k], map[i], frame)
  /\ \A i \in 1 .. n :
       /\ is_usable(map[i]) /\ map[i].start # 0
       /\ ~(contains(map[i], frame) /\ frame + FrameSize = End(map[i]))
       => \E k \in 1 .. acc.idx : FreePart(acc.array[k], map[i], frame)
  /\ \A k, l \in 1 .. Len(acc.array) :
       k < l /\ acc.array[k].typ = "Free" /\ acc.array[l].typ = "Free" =>
         End(acc.array[k]) <= acc.array[l].start

(* What a region of the firmware becomes. *)
LEMMA IntoRegion ==
  ASSUME NEW r \in [start : Nat, size : Nat, typ : E820Types]
  PROVE  /\ into(r) \in BootRegion /\ into(r).start = r.start /\ End(into(r)) = End(r)
         /\ into(r).typ = IF r.typ = "Normal" THEN "Free" ELSE "Reserved"
         /\ [into(r) EXCEPT !.typ = "Reserved"] \in BootRegion
         /\ [into(r) EXCEPT !.typ = "Reserved"].typ = "Reserved"
<1>1. PICK q : q = IF r.typ = "Normal" THEN "Free" ELSE "Reserved"
  BY Zenon
<1>2. q \in {"Free", "Reserved"}
  BY <1>1, Zenon
<1>3. into(r) = [start |-> r.start, size |-> r.size, typ |-> q]
  BY <1>1 DEF into
<1>4. into(r) \in BootRegion /\ into(r).start = r.start /\ into(r).size = r.size /\ into(r).typ = q
  BY <1>2, <1>3 DEF BootRegion
<1>5. [into(r) EXCEPT !.typ = "Reserved"] = [start |-> r.start, size |-> r.size, typ |-> "Reserved"]
  BY <1>3
<1>6. [into(r) EXCEPT !.typ = "Reserved"] \in BootRegion /\ [into(r) EXCEPT !.typ = "Reserved"].typ = "Reserved"
  BY <1>5 DEF BootRegion
<1> QED BY <1>1, <1>4, <1>6, Zenon DEF End

(* An entry more in the array. *)
LEMMA Pushed ==
  ASSUME NEW acc \in [array : Seq(BootRegion), idx : Nat], acc.idx <= Len(acc.array),
         NEW r \in BootRegion
  PROVE  /\ push(acc, r) \in [array : Seq(BootRegion), idx : Nat]
         /\ push(acc, r).idx = acc.idx + 1
         /\ Len(push(acc, r).array) = acc.idx + 1
         /\ \A k \in 1 .. acc.idx : push(acc, r).array[k] = acc.array[k]
         /\ push(acc, r).array[acc.idx + 1] = r
<1>1. PICK s \in Seq(BootRegion), d \in Nat : s = acc.array /\ d = acc.idx /\ d <= Len(s)
  OBVIOUS
<1>2. PICK t : t = SubSeq(s, 1, d)
  BY Zenon
<1>3. \A i \in 1 .. d : s[i] \in BootRegion
  BY <1>1, LenProperties
<1>4. t \in Seq(BootRegion) /\ Len(t) = d /\ \A i \in 1 .. d : t[i] = s[i]
  <2>1. /\ SubSeq(s, 1, d) \in Seq(BootRegion)
        /\ Len(SubSeq(s, 1, d)) = IF 1 <= d THEN d - 1 + 1 ELSE 0
        /\ \A i \in 1 .. d - 1 + 1 : SubSeq(s, 1, d)[i] = s[1 + i - 1]
    <3>1. 1 \in Int /\ d \in Int
      OBVIOUS
    <3> QED BY <1>3, <3>1, SubSeqProperties
  <2>2. (IF 1 <= d THEN d - 1 + 1 ELSE 0) = d /\ d - 1 + 1 = d
    OBVIOUS
  <2>3. \A i \in 1 .. d : 1 + i - 1 = i
    OBVIOUS
  <2> QED BY <1>2, <2>1, <2>2, <2>3, Zenon
<1>5. PICK u \in Seq(BootRegion) :
        /\ u = Append(t, r) /\ Len(u) = d + 1 /\ u[d + 1] = r
        /\ \A i \in 1 .. d : u[i] = s[i]
  <2>1. /\ Append(t, r) \in Seq(BootRegion) /\ Len(Append(t, r)) = Len(t) + 1
        /\ \A i \in 1 .. Len(t) : Append(t, r)[i] = t[i]
        /\ Append(t, r)[Len(t) + 1] = r
    BY <1>4, AppendProperties
  <2> QED BY <1>4, <2>1, Zenon
<1>6. push(acc, r) = [array |-> u, idx |-> d + 1]
  <2>1. acc = [array |-> s, idx |-> d]
    BY <1>1
  <2>2. \A x : [acc EXCEPT !.array = x] = [array |-> x, idx |-> d]
    BY <2>1
  <2>3. write(acc, r) = [acc EXCEPT !.array = u]
    BY <1>1, <1>2, <1>5, Zenon DEF write
  <2>4. write(acc, r) = [array |-> u, idx |-> d]
    BY <2>2, <2>3, Zenon
  <2> QED BY <2>4 DEF push
<1>7. d + 1 \in Nat
  OBVIOUS
<1> QED BY <1>1, <1>5, <1>6, <1>7

(* A region that gives nothing free. *)
LEMMA BuiltSkip ==
  ASSUME NEW map, NEW frame, NEW n \in Nat, NEW acc, Built(acc, map, frame, n),
         is_usable(map[n + 1]) /\ map[n + 1].start # 0 =>
           contains(map[n + 1], frame) /\ frame + FrameSize = End(map[n + 1])
  PROVE  Built(acc, map, frame, n + 1)
<1>1. \A i \in 1 .. n : i \in 1 .. n + 1
  OBVIOUS
<1>2. \A i \in 1 .. n + 1 : i \in 1 .. n \/ i = n + 1
  OBVIOUS
<1>3. /\ acc \in [array : Seq(BootRegion), idx : Nat] /\ acc.idx <= Len(acc.array)
      /\ \A k, l \in 1 .. Len(acc.array) :
           k < l /\ acc.array[k].typ = "Free" /\ acc.array[l].typ = "Free" =>
             End(acc.array[k]) <= acc.array[l].start
  BY Zenon DEF Built
<1>4. ASSUME NEW k \in 1 .. Len(acc.array), acc.array[k].typ = "Free"
      PROVE  \E i \in 1 .. n + 1 : FreePart(acc.array[k], map[i], frame)
  BY <1>1, <1>4, Zenon DEF Built
<1>5. ASSUME NEW i \in 1 .. n + 1, is_usable(map[i]), map[i].start # 0,
             ~(contains(map[i], frame) /\ frame + FrameSize = End(map[i]))
      PROVE  \E k \in 1 .. acc.idx : FreePart(acc.array[k], map[i], frame)
  <2>1. i \in 1 .. n
    BY <1>2, <1>5, Zenon
  <2> QED BY <1>5, <2>1, Zenon DEF Built
<1> QED BY <1>3, <1>4, <1>5, Zenon DEF Built

(* A reserved region is pushed. *)
LEMMA BuiltReserved ==
  ASSUME NEW map, NEW frame, NEW n \in Nat, NEW acc, Built(acc, map, frame, n),
         NEW r \in BootRegion, r.typ = "Reserved"
  PROVE  Built(push(acc, r), map, frame, n) /\ push(acc, r).idx = Len(push(acc, r).array)
<1>1. acc \in [array : Seq(BootRegion), idx : Nat] /\ acc.idx <= Len(acc.array)
  BY Zenon DEF Built
<1>2. PICK d \in Nat : d = acc.idx
  BY <1>1
<1>3. PICK b \in [array : Seq(BootRegion), idx : Nat] :
        /\ b = push(acc, r) /\ b.idx = d + 1 /\ Len(b.array) = d + 1
        /\ \A k \in 1 .. d : b.array[k] = acc.array[k]
        /\ b.array[d + 1] = r
  <2>1. /\ push(acc, r) \in [array : Seq(BootRegion), idx : Nat]
        /\ push(acc, r).idx = acc.idx + 1
        /\ Len(push(acc, r).array) = acc.idx + 1
        /\ \A k \in 1 .. acc.idx : push(acc, r).array[k] = acc.array[k]
        /\ push(acc, r).array[acc.idx + 1] = r
    BY <1>1, Pushed, Zenon
  <2> QED BY <1>2, <2>1, Zenon
<1>4. /\ \A k \in 1 .. d + 1 : k \in 1 .. d \/ k = d + 1
      /\ \A k \in 1 .. d : k \in 1 .. Len(acc.array) /\ k \in 1 .. d + 1
      /\ d + 1 <= d + 1
  BY <1>1, <1>2, LenProperties
<1>5. \A k \in 1 .. d + 1 : b.array[k].typ = "Free" =>
        k \in 1 .. d /\ k \in 1 .. Len(acc.array) /\ b.array[k] = acc.array[k]
  BY <1>3, <1>4
<1>6. ASSUME NEW k \in 1 .. Len(b.array), b.array[k].typ = "Free"
      PROVE  \E i \in 1 .. n : FreePart(b.array[k], map[i], frame)
  <2>1. k \in 1 .. Len(acc.array) /\ b.array[k] = acc.array[k] /\ acc.array[k].typ = "Free"
    BY <1>3, <1>5, <1>6, Zenon
  <2> QED BY <2>1, Zenon DEF Built
<1>7. ASSUME NEW i \in 1 .. n, is_usable(map[i]), map[i].start # 0,
             ~(contains(map[i], frame) /\ frame + FrameSize = End(map[i]))
      PROVE  \E k \in 1 .. b.idx : FreePart(b.array[k], map[i], frame)
  <2>1. PICK k \in 1 .. d : FreePart(acc.array[k], map[i], frame)
    BY <1>2, <1>7, Zenon DEF Built
  <2> QED BY <1>3, <1>4, <2>1, Zenon
<1>8. ASSUME NEW k \in 1 .. Len(b.array), NEW l \in 1 .. Len(b.array), k < l,
             b.array[k].typ = "Free", b.array[l].typ = "Free"
      PROVE  End(b.array[k]) <= b.array[l].start
  <2>1. /\ k \in 1 .. Len(acc.array) /\ b.array[k] = acc.array[k]
        /\ l \in 1 .. Len(acc.array) /\ b.array[l] = acc.array[l]
    BY <1>3, <1>5, <1>8, Zenon
  <2> QED BY <1>8, <2>1, Zenon DEF Built
<1>9. b.idx <= Len(b.array)
  BY <1>3, <1>4, Zenon
<1> QED BY <1>3, <1>6, <1>7, <1>8, <1>9, Zenon DEF Built

(* The free part of the next region is pushed. *)
LEMMA BuiltFree ==
  ASSUME NEW map, FirmwareMap(map), NEW frame \in Nat, NEW n \in Nat, n + 1 <= Len(map),
         NEW acc, Built(acc, map, frame, n),
         NEW r \in BootRegion, FreePart(r, map[n + 1], frame), map[n + 1].start <= r.start
  PROVE  Built(push(acc, r), map, frame, n + 1) /\ push(acc, r).idx = Len(push(acc, r).array)
<1>1. acc \in [array : Seq(BootRegion), idx : Nat] /\ acc.idx <= Len(acc.array)
  BY Zenon DEF Built
<1>2. PICK d \in Nat : d = acc.idx
  BY <1>1
<1>3. PICK b \in [array : Seq(BootRegion), idx : Nat] :
        /\ b = push(acc, r) /\ b.idx = d + 1 /\ Len(b.array) = d + 1
        /\ \A k \in 1 .. d : b.array[k] = acc.array[k]
        /\ b.array[d + 1] = r
  <2>1. /\ push(acc, r) \in [array : Seq(BootRegion), idx : Nat]
        /\ push(acc, r).idx = acc.idx + 1 /\ Len(push(acc, r).array) = acc.idx + 1
        /\ \A k \in 1 .. acc.idx : push(acc, r).array[k] = acc.array[k]
        /\ push(acc, r).array[acc.idx + 1] = r
    BY <1>1, Pushed, Zenon
  <2> QED BY <1>2, <2>1, Zenon
<1>4. /\ \A k \in 1 .. d + 1 : k \in 1 .. d \/ k = d + 1
      /\ \A k \in 1 .. d : k \in 1 .. Len(acc.array) /\ k \in 1 .. d + 1 /\ ~(d + 1 < k)
      /\ d + 1 <= d + 1 /\ ~(d + 1 < d + 1) /\ d + 1 \in 1 .. d + 1
      /\ \A i \in 1 .. n : i \in 1 .. n + 1 /\ i < n + 1
      /\ \A i \in 1 .. n + 1 : i \in 1 .. n \/ i = n + 1
      /\ n + 1 \in 1 .. n + 1
  <2>1. PICK e \in Nat : e = Len(acc.array) /\ d <= e
    <3>1. acc.array \in Seq(BootRegion)
      BY <1>1
    <3> QED BY <1>1, <1>2, <3>1, LenProperties, Zenon
  <2>2. \A k \in 1 .. d : k \in 1 .. e
    BY <2>1
  <2>3. /\ \A k \in 1 .. d + 1 : k \in 1 .. d \/ k = d + 1
        /\ \A k \in 1 .. d : k \in 1 .. d + 1 /\ ~(d + 1 < k)
        /\ d + 1 <= d + 1 /\ ~(d + 1 < d + 1) /\ d + 1 \in 1 .. d + 1
        /\ \A i \in 1 .. n : i \in 1 .. n + 1 /\ i < n + 1
        /\ \A i \in 1 .. n + 1 : i \in 1 .. n \/ i = n + 1
        /\ n + 1 \in 1 .. n + 1
    OBVIOUS
  <2> QED BY <2>1, <2>2, <2>3, Zenon
<1>5. ASSUME NEW k \in 1 .. d, b.array[k].typ = "Free"
      PROVE  \E i \in 1 .. n : FreePart(b.array[k], map[i], frame)
  BY <1>3, <1>4, <1>5, Zenon DEF Built
<1>6. ASSUME NEW k \in 1 .. Len(b.array), b.array[k].typ = "Free"
      PROVE  \E i \in 1 .. n + 1 : FreePart(b.array[k], map[i], frame)
  <2>1. CASE k \in 1 .. d
    BY <1>4, <1>5, <1>6, <2>1, Zenon
  <2>2. CASE k = d + 1
    BY <1>3, <1>4, <2>2, Zenon
  <2> QED BY <1>3, <1>4, <2>1, <2>2, Zenon
<1>7. ASSUME NEW i \in 1 .. n + 1, is_usable(map[i]), map[i].start # 0,
             ~(contains(map[i], frame) /\ frame + FrameSize = End(map[i]))
      PROVE  \E k \in 1 .. b.idx : FreePart(b.array[k], map[i], frame)
  <2>1. CASE i \in 1 .. n
    <3>1. PICK k \in 1 .. d : FreePart(acc.array[k], map[i], frame)
      BY <1>2, <1>7, <2>1, Zenon DEF Built
    <3> QED BY <1>3, <1>4, <3>1, Zenon
  <2>2. CASE i = n + 1
    BY <1>3, <1>4, <2>2, Zenon
  <2> QED BY <1>4, <2>1, <2>2, Zenon
<1>8. ASSUME NEW k \in 1 .. Len(b.array), NEW l \in 1 .. Len(b.array), k < l,
             b.array[k].typ = "Free", b.array[l].typ = "Free"
      PROVE  End(b.array[k]) <= b.array[l].start
  <2>1. k \in 1 .. d
    BY <1>3, <1>8
  <2>2. CASE l \in 1 .. d
    <3>1. /\ k \in 1 .. Len(acc.array) /\ b.array[k] = acc.array[k]
          /\ l \in 1 .. Len(acc.array) /\ b.array[l] = acc.array[l]
      BY <1>3, <1>4, <2>1, <2>2, Zenon
    <3> QED BY <1>8, <3>1, Zenon DEF Built
  <2>3. CASE l = d + 1
    <3>1. PICK i \in 1 .. n : FreePart(b.array[k], map[i], frame)
      BY <1>5, <1>8, <2>1, Zenon
    <3>2. i \in 1 .. Len(map) /\ n + 1 \in 1 .. Len(map) /\ i < n + 1
      BY LenProperties DEF FirmwareMap
    <3>3. End(b.array[k]) = End(map[i]) /\ End(map[i]) <= map[n + 1].start
      BY <3>1, <3>2, Zenon DEF FreePart, FirmwareMap
    <3>4. End(map[i]) \in Nat /\ map[n + 1].start \in Nat /\ r.start \in Nat
      <4>1. /\ map[i] \in [start : Nat, size : Nat, typ : E820Types]
            /\ map[n + 1] \in [start : Nat, size : Nat, typ : E820Types]
        BY <3>2, ElementOfSeq, Zenon DEF FirmwareMap
      <4> QED BY <4>1, RegionNumbers, Zenon DEF BootRegion
    <3>5. End(map[i]) <= r.start
      BY <3>3, <3>4, AtMost, Zenon
    <3> QED BY <1>3, <2>3, <3>3, <3>5, Zenon
  <2> QED BY <1>3, <1>4, <2>2, <2>3, Zenon
<1>9. b.idx <= Len(b.array)
  BY <1>3, <1>4, Zenon
<1> QED BY <1>3, <1>6, <1>7, <1>8, <1>9, Zenon DEF Built

(* One region more. *)
LEMMA BuiltNext ==
  ASSUME NEW map, FirmwareMap(map), NEW frame \in Nat, ~ Underflows(map, frame),
         NEW n \in Nat, n + 1 <= Len(map), NEW acc, Built(acc, map, frame, n),
         n = 0 => acc = [array |-> << >>, idx |-> 0],
         NEW next, next = add_region(acc, map[n + 1], frame)
  PROVE  Built(next, map, frame, n + 1) /\ (n # 0 => next.idx = Len(next.array))
<1>1. n + 1 \in 1 .. Len(map)
  BY LenProperties DEF FirmwareMap
<1>2. PICK r \in [start : Nat, size : Nat, typ : E820Types] : r = map[n + 1]
  BY <1>1, ElementOfSeq, Zenon DEF FirmwareMap
<1>3. FrameSize \in Nat \ {0} /\ End(r) \in Nat
  BY <1>2, MapsAssumption DEF End
<1>4. r.start = 0 <=> n = 0
  <2>1. n + 1 = 1 <=> n = 0
    OBVIOUS
  <2> QED BY <1>1, <1>2, <2>1, Zenon DEF FirmwareMap
<1>5. is_usable(r) <=> r.typ = "Normal"
  BY <1>2 DEF is_usable, E820Types
<1>6. CASE ~ is_usable(r)
  <2>1. next = push(acc, into(r))
    BY <1>2, <1>6 DEF add_region
  <2>2. into(r) \in BootRegion /\ into(r).typ = "Reserved"
    BY <1>5, <1>6, IntoRegion, Zenon
  <2>3. Built(acc, map, frame, n + 1)
    BY <1>2, <1>6, BuiltSkip, Zenon
  <2>4. n + 1 \in Nat
    OBVIOUS
  <2> QED BY <2>1, <2>2, <2>3, <2>4, BuiltReserved
<1>7. CASE is_usable(r) /\ r.start = 0
  <2>1. n = 0 /\ acc = [array |-> << >>, idx |-> 0]
    BY <1>4, <1>7, Zenon
  <2>2. PICK e : e = [into(r) EXCEPT !.typ = "Reserved"]
    BY Zenon
  <2>3. e \in BootRegion /\ e.typ = "Reserved"
    BY <2>2, IntoRegion, Zenon
  <2>4. next = write(acc, e)
    BY <1>2, <1>7, <2>2 DEF add_region
  <2>5. PICK t, u : t = SubSeq(<< >>, 1, 0) /\ u = Append(t, e)
    BY Zenon
  <2>6. t \in Seq(BootRegion) /\ Len(t) = 0
    <3>1. 1 \in Int /\ 0 \in Int /\ ~(1 <= 0) /\ \A i \in 1 .. 0 : << >>[i] \in BootRegion
      OBVIOUS
    <3> QED BY <2>5, <3>1, SubSeqProperties
  <2>7. u \in Seq(BootRegion) /\ Len(u) = 1 /\ u[1] = e
    BY <2>3, <2>5, <2>6, AppendProperties
  <2>8. next = [array |-> u, idx |-> 0]
    <3>1. write(acc, e) = [acc EXCEPT !.array = u]
      BY <2>1, <2>5, Zenon DEF write
    <3> QED BY <2>1, <2>4, <3>1
  <2>9. /\ next \in [array : Seq(BootRegion), idx : Nat] /\ next.idx = 0 /\ Len(next.array) = 1
        /\ \A k \in 1 .. 1 : next.array[k].typ # "Free"
        /\ 0 <= 1 /\ n + 1 = 1 /\ \A i \in 1 .. 1 : i = n + 1
    BY <2>1, <2>3, <2>7, <2>8
  <2>10. Built(next, map, frame, n + 1)
    BY <1>2, <1>7, <2>9, Zenon DEF Built
  <2> QED BY <2>1, <2>10, Zenon
<1>8. CASE is_usable(r) /\ r.start # 0 /\ contains(r, frame)
  <2>1. next = split_region(acc, r, frame)
    BY <1>2, <1>8 DEF add_region
  <2>2. frame + FrameSize \in Nat /\ frame + FrameSize <= End(r) /\ r.start <= frame
    <3>1. ~(End(r) < frame + FrameSize)
      BY <1>1, <1>2, <1>8, Zenon DEF Underflows
    <3> QED BY <1>3, <1>8, <3>1 DEF contains
  <2>3. PICK u, p : u = Piece(r.start, frame + FrameSize, "Reserved") /\ p = push(acc, u)
    BY Zenon
  <2>4. u \in BootRegion /\ u.typ = "Reserved"
    BY <1>2, <1>3, <2>2, <2>3 DEF Piece, BootRegion
  <2>5. Built(p, map, frame, n) /\ p.idx = Len(p.array)
    BY <2>3, <2>4, BuiltReserved
  <2>6. CASE frame + FrameSize = End(r)
    <3>1. next = p
      BY <2>1, <2>3, <2>6, Zenon DEF split_region
    <3>2. Built(p, map, frame, n + 1)
      BY <1>2, <1>8, <2>5, <2>6, BuiltSkip, Zenon
    <3> QED BY <2>5, <3>1, <3>2, Zenon
  <2>7. CASE frame + FrameSize # End(r)
    <3>1. PICK e : e = Piece(frame + FrameSize, End(r), "Free")
      BY Zenon
    <3>2. next = push(p, e)
      BY <2>1, <2>3, <2>7, <3>1, Zenon DEF split_region
    <3>3. e \in BootRegion /\ e.typ = "Free" /\ e.start = frame + FrameSize /\ End(e) = End(r)
      BY <1>3, <2>2, <3>1 DEF Piece, BootRegion, End
    <3>4. FreePart(e, r, frame)
      BY <1>8, <3>3, Zenon DEF FreePart
    <3>5. r.start <= e.start
      BY <1>2, <1>3, <2>2, <3>3
    <3> QED BY <1>2, <2>5, <3>2, <3>3, <3>4, <3>5, BuiltFree
  <2> QED BY <2>6, <2>7
<1>9. CASE is_usable(r) /\ r.start # 0 /\ ~ contains(r, frame)
  <2>1. next = push(acc, into(r))
    BY <1>2, <1>9 DEF add_region
  <2>2. into(r) \in BootRegion /\ into(r).typ = "Free" /\ into(r).start = r.start /\ End(into(r)) = End(r)
    BY <1>5, <1>9, IntoRegion, Zenon
  <2>3. FreePart(into(r), r, frame)
    BY <1>9, <2>2, Zenon DEF FreePart
  <2>4. r.start <= into(r).start
    <3>1. r.start \in Nat
      BY RegionNumbers, Zenon
    <3>2. r.start <= r.start
      BY <3>1
    <3> QED BY <2>2, <3>2, Zenon
  <2> QED BY <1>2, <2>1, <2>2, <2>3, <2>4, BuiltFree
<1> QED BY <1>6, <1>7, <1>8, <1>9, Zenon

(* build_memory_map offers exactly what is free of every region. *)
LEMMA BuildBuilds ==
  ASSUME NEW map, FirmwareMap(map), NEW frame \in Nat, ~ Underflows(map, frame), 2 <= Len(map)
  PROVE  /\ Built(build_memory_map(map, frame), map, frame, Len(map))
         /\ build_memory_map(map, frame).idx = Len(build_memory_map(map, frame).array)
<1>1. PICK n \in Nat : n = Len(map) /\ 2 <= n
  BY LenProperties DEF FirmwareMap
<1>2. PICK b : Builds(b, map, frame, n)
  BY <1>1, BuildIs, Zenon
<1> DEFINE S == {m \in Nat : m <= n => Built(b[m], map, frame, m)
                                       /\ (2 <= m => b[m].idx = Len(b[m].array))}
<1>3. 0 \in S
  <2>1. PICK e : e = b[0]
    BY Zenon
  <2>2. /\ e \in [array : Seq(BootRegion), idx : Nat] /\ e.idx = 0 /\ Len(e.array) = 0
        /\ 0 <= 0 /\ \A k \in 1 .. 0 : FALSE
    <3>1. e = [array |-> << >>, idx |-> 0]
      BY <1>2, <2>1, Zenon DEF Builds
    <3> QED BY <3>1
  <2>3. Built(e, map, frame, 0)
    BY <2>2, Zenon DEF Built
  <2>4. 0 \in Nat /\ ~(2 <= 0)
    OBVIOUS
  <2> QED BY <2>1, <2>3, <2>4, Zenon
<1>4. ASSUME NEW m \in Nat, m \in S PROVE m + 1 \in S
  <2>1. ASSUME m + 1 <= n
        PROVE  Built(b[m + 1], map, frame, m + 1) /\ (2 <= m + 1 => b[m + 1].idx = Len(b[m + 1].array))
    <3>1. m <= n /\ m \in 0 .. n - 1 /\ (2 <= m + 1 <=> m # 0)
      BY <2>1
    <3>2. Built(b[m], map, frame, m)
      BY <1>4, <3>1, Zenon
    <3>3. b[m + 1] = add_region(b[m], map[m + 1], frame) /\ (m = 0 => b[m] = [array |-> << >>, idx |-> 0])
      BY <1>2, <3>1, Zenon DEF Builds
    <3>4. m + 1 <= Len(map)
      BY <1>1, <2>1, Zenon
    <3> QED BY <3>1, <3>2, <3>3, <3>4, BuiltNext
  <2>2. m + 1 \in Nat
    OBVIOUS
  <2> QED BY <2>1, <2>2, Zenon
<1>5. n \in S
  <2> HIDE DEF S
  <2> QED BY <1>3, <1>4, SetInduction, Zenon
<1>6. n <= n
  OBVIOUS
<1>7. build_memory_map(map, frame) = b[n]
  BY <1>2, Zenon DEF Builds
<1>8. Built(b[n], map, frame, n) /\ b[n].idx = Len(b[n].array)
  BY <1>1, <1>5, <1>6, Zenon
<1> HIDE DEF S
<1> QED BY <1>1, <1>7, <1>8

-----------------------------------------------------------------------------
(* The firmware's map and where stage 4 starts in it. *)

(* Of finitely many numbers one is the largest. *)
LEMMA Highest ==
  ASSUME NEW n \in Nat \ {0}, NEW e \in [1 .. n -> Nat]
  PROVE  \E j \in 1 .. n : \A i \in 1 .. n : e[i] <= e[j]
<1> DEFINE S == {m \in Nat : m + 1 <= n => \E j \in 1 .. m + 1 : \A i \in 1 .. m + 1 : e[i] <= e[j]}
<1>1. 0 \in S
  <2>1. \A i \in 1 .. 0 + 1 : i = 1
    OBVIOUS
  <2>2. 1 \in 1 .. 0 + 1 /\ e[1] \in Nat /\ e[1] <= e[1]
    OBVIOUS
  <2> QED BY <2>1, <2>2
<1>2. ASSUME NEW m \in Nat, m \in S PROVE m + 1 \in S
  <2> SUFFICES ASSUME (m + 1) + 1 <= n
               PROVE  \E j \in 1 .. (m + 1) + 1 : \A i \in 1 .. (m + 1) + 1 : e[i] <= e[j]
    OBVIOUS
  <2>1. PICK j \in 1 .. m + 1 : \A i \in 1 .. m + 1 : e[i] <= e[j]
    BY <1>2
  <2>2. PICK k \in 1 .. n : k = (m + 1) + 1
    OBVIOUS
  <2>3. e[j] \in Nat /\ e[k] \in Nat /\ j \in 1 .. k /\ k \in 1 .. k
    BY <2>2
  <2>4. \A i \in 1 .. k : (i \in 1 .. m + 1 \/ i = k) /\ e[i] \in Nat
    BY <2>2
  <2>5. CASE e[j] <= e[k]
    <3>1. \A i \in 1 .. k : e[i] <= e[k]
      BY <2>1, <2>3, <2>4, <2>5
    <3> QED BY <2>2, <2>3, <3>1, Zenon
  <2>6. CASE e[k] <= e[j]
    <3>1. \A i \in 1 .. k : e[i] <= e[j]
      BY <2>1, <2>3, <2>4, <2>6
    <3> QED BY <2>2, <2>3, <3>1
  <2> QED BY <2>3, <2>5, <2>6
<1>3. n - 1 \in Nat /\ (n - 1) + 1 = n
  OBVIOUS
<1>4. n - 1 \in S
  <2> HIDE DEF S
  <2> QED BY <1>1, <1>2, <1>3, SetInduction, Zenon
<1> QED BY <1>3, <1>4

(* No region ends behind max_physical_address. *)
LEMMA MaxIs ==
  ASSUME NEW a, a.memory_map \in Seq(AnyRegion), a.memory_map # << >>
  PROVE  /\ max_physical_address(a) \in Nat
         /\ \A i \in 1 .. Len(a.memory_map) : End(a.memory_map[i]) <= max_physical_address(a)
<1>1. PICK map \in Seq(AnyRegion), n \in Nat \ {0} : map = a.memory_map /\ n = Len(map)
  BY EmptySeq, Zenon
<1>2. PICK e : e = [i \in 1 .. n |-> End(map[i])]
  BY Zenon
<1>3. ASSUME NEW i \in 1 .. n PROVE End(map[i]) \in Nat
  <2>1. map[i] \in AnyRegion
    BY <1>1, ElementOfSeq, Zenon
  <2> QED BY <2>1, RegionNumbers, Zenon DEF AnyRegion
<1>4. e \in [1 .. n -> Nat]
  BY <1>2, <1>3, Zenon
<1>5. PICK j \in 1 .. n : \A i \in 1 .. n : e[i] <= e[j]
  BY <1>4, Highest, Zenon
<1>6. \A i \in 1 .. n : e[i] \in Nat /\ (e[i] <= e[j] => e[j] >= e[i])
  BY <1>4
<1>7. PICK T : T = {End(map[i]) : i \in 1 .. n}
  BY Zenon
<1>8. \E x \in T : \A y \in T : x >= y
  <2>1. e[j] \in T /\ \A y \in T : e[j] >= y
    BY <1>2, <1>5, <1>6, <1>7
  <2> QED BY <2>1
<1>9. Max(T) \in T /\ \A y \in T : Max(T) >= y
  BY <1>8, Zenon DEF Max
<1>10. max_physical_address(a) = Max(T)
  BY <1>1, <1>7, Zenon DEF max_physical_address
<1>11. \A y \in T : y \in Nat
  BY <1>3, <1>7, Zenon
<1>12. \A i \in 1 .. n : End(map[i]) \in T
  BY <1>7, Zenon
<1>13. \A i \in 1 .. n : End(map[i]) <= Max(T)
  BY <1>9, <1>11, <1>12
<1> QED BY <1>1, <1>9, <1>10, <1>11, <1>13, Zenon

(* The region that new_starting_at finds. *)
LEMMA StartIs ==
  ASSUME NEW frame, NEW map, Len(map) \in Nat, NEW i, i = StartIndex(frame, map), i # 0
  PROVE  i \in 1 .. Len(map) /\ contains(map[i], frame)
<1>1. PICK T : T = {k \in 1 .. Len(map) : contains(map[k], frame)}
  BY Zenon
<1>2. i = IF T = {} THEN 0 ELSE Min(T)
  BY <1>1, Zenon DEF StartIndex
<1>3. T # {} /\ i = Min(T)
  BY <1>2, Zenon
<1>4. T \subseteq Nat
  BY <1>1
<1>5. \E x \in T : \A y \in T : x <= y
  BY <1>3, <1>4, LeastNumber, Zenon
<1>6. Min(T) \in T
  BY <1>5, Zenon DEF Min
<1> QED BY <1>1, <1>3, <1>6, Zenon

(* What stage 2 passes on: the firmware's regions in order, usable ones    *)
(* above low memory in whole frames, low memory below the kernel's file.   *)
StageMap(map) ==
  /\ FirmwareMap(map)
  /\ \A i \in 2 .. Len(map) :
       is_usable(map[i]) => map[i].start % FrameSize = 0 /\ map[i].size % FrameSize = 0
  /\ Len(map) # 0 => \A address \in LastAddresses : End(map[1]) <= address

(* The first entries of a firmware map are such a map. *)
LEMMA FirstEntries ==
  ASSUME NEW m \in MemoryMaps, NEW map \in Seq([start : Nat, size : Nat, typ : E820Types]),
         Len(map) < Len(m), \A i \in 1 .. Len(map) : map[i] = m[i]
  PROVE  StageMap(map)
<1>1. PICK n \in Nat, l \in Nat : n = Len(map) /\ l = Len(m) /\ n < l
  <2>1. m \in Seq([start : Nat, size : Nat, typ : E820Types])
    BY MapsAssumption, Zenon
  <2> QED BY <2>1, LenProperties, Zenon
<1>2. /\ m[1].start = 0 /\ m[1].size > 0
      /\ \A address \in LastAddresses : End(m[1]) <= address
      /\ \A i \in 2 .. l :
           /\ End(m[i-1]) <= m[i].start
           /\ m[i].typ = "Normal" => m[i].start % FrameSize = 0 /\ m[i].size % FrameSize = 0
  BY <1>1, MapsAssumption, Zenon
<1>3. \A i \in 1 .. n : i - 1 \in 1 .. n \/ i = 1
  OBVIOUS
<1>4. ASSUME NEW i \in 1 .. n
      PROVE  /\ map[i].start \in Nat /\ map[i].size \in Nat /\ map[i].typ \in E820Types
             /\ End(map[i]) \in Nat /\ map[i].start <= End(map[i]) /\ (map[i].size > 0 => End(map[i]) > 0)
  <2>1. map[i] \in [start : Nat, size : Nat, typ : E820Types]
    BY <1>1, ElementOfSeq, Zenon
  <2> QED BY <2>1, RegionNumbers, Zenon
<1>5. ASSUME NEW i \in 2 .. n
      PROVE  /\ End(map[i - 1]) <= map[i].start
             /\ map[i].typ = "Normal" => map[i].start % FrameSize = 0 /\ map[i].size % FrameSize = 0
  <2>1. i \in 2 .. l /\ i \in 1 .. n /\ i - 1 \in 1 .. n
    <3>1. n < l
      BY <1>1, Zenon
    <3> QED BY <3>1
  <2>2. map[i] = m[i] /\ map[i - 1] = m[i - 1]
    BY <1>1, <2>1, Zenon
  <2> QED BY <1>2, <2>1, <2>2, Zenon
<1>6. n # 0 => map[1] = m[1] /\ 1 \in 1 .. n
  <2>1. n # 0 => 1 \in 1 .. n
    OBVIOUS
  <2> QED BY <1>1, <2>1, Zenon
<1> DEFINE S == {d \in Nat : \A h \in 1 .. n : h + d + 1 <= n => End(map[h]) <= map[h + d + 1].start}
<1>7. 0 \in S
  <2>1. ASSUME NEW h \in 1 .. n, h + 0 + 1 <= n PROVE End(map[h]) <= map[h + 0 + 1].start
    <3>1. h + 1 \in 2 .. n /\ (h + 1) - 1 = h /\ h + 0 + 1 = h + 1
      BY <2>1
    <3>2. End(map[(h + 1) - 1]) <= map[h + 1].start
      BY <1>5, <3>1, Zenon
    <3> QED BY <3>1, <3>2
  <2> QED BY <2>1
<1>8. ASSUME NEW d \in Nat, d \in S PROVE d + 1 \in S
  <2>1. ASSUME NEW h \in 1 .. n, h + (d + 1) + 1 <= n
        PROVE  End(map[h]) <= map[h + (d + 1) + 1].start
    <3>1. PICK k \in 1 .. n : k = h + d + 1 /\ k + 1 \in 1 .. n /\ k + 1 = h + (d + 1) + 1
      BY <2>1
    <3>2. End(map[h]) <= map[k].start
      <4>1. h + d + 1 <= n
        BY <3>1
      <4> QED BY <1>8, <3>1, <4>1
    <3>3. End(map[k]) <= map[k + 1].start
      <4>1. k + 1 \in 2 .. n /\ (k + 1) - 1 = k
        BY <3>1
      <4>2. End(map[(k + 1) - 1]) <= map[k + 1].start
        BY <1>5, <4>1, Zenon
      <4> QED BY <4>1, <4>2
    <3>4. /\ End(map[h]) \in Nat /\ map[k].start \in Nat /\ End(map[k]) \in Nat
          /\ map[k].start <= End(map[k]) /\ map[k + 1].start \in Nat
      BY <1>4, <3>1, Zenon
    <3>5. End(map[h]) <= map[k + 1].start
      <4> HIDE DEF S
      <4>1. End(map[h]) <= End(map[k])
        BY <3>2, <3>4, AtMost, Zenon
      <4> QED BY <3>3, <3>4, <4>1, AtMost, Zenon
    <3> QED BY <3>1, <3>5, Zenon
  <2> QED BY <2>1
<1>9. \A d \in Nat : d \in S
  <2> HIDE DEF S
  <2> QED BY <1>7, <1>8, SetInduction, Zenon
<1>10. ASSUME NEW h \in 1 .. n, NEW i \in 1 .. n, h < i PROVE End(map[h]) <= map[i].start
  <2>1. PICK d \in Nat : i = h + d + 1
    <3>1. i - h - 1 \in Nat /\ i = h + (i - h - 1) + 1
      BY <1>10
    <3> QED BY <3>1
  <2>2. d \in S /\ h + d + 1 <= n
    <3> HIDE DEF S
    <3> QED BY <1>9, <2>1
  <2>3. End(map[h]) <= map[h + d + 1].start
    BY <2>2, Zenon
  <2> QED BY <2>1, <2>3, Zenon
<1>11. ASSUME NEW i \in 1 .. n PROVE map[i].start = 0 <=> i = 1
  <2>1. n # 0
    OBVIOUS
  <2>2. map[1].start = 0 /\ map[1].size > 0 /\ 1 \in 1 .. n
    BY <1>2, <1>6, <2>1, Zenon
  <2>3. CASE i # 1
    <3>1. End(map[1]) <= map[i].start
      <4>1. 1 < i
        BY <2>3
      <4> QED BY <1>10, <2>2, <4>1, Zenon
    <3>2. End(map[1]) \in Nat /\ End(map[1]) > 0 /\ map[i].start \in Nat
      BY <1>4, <2>2, Zenon
    <3> QED BY <2>3, <3>1, <3>2
  <2> QED BY <2>2, <2>3
<1>12. ASSUME NEW i \in 2 .. n, is_usable(map[i])
       PROVE  map[i].start % FrameSize = 0 /\ map[i].size % FrameSize = 0
  <2>1. i \in 1 .. n
    OBVIOUS
  <2>2. map[i].typ = "Normal"
    <3>1. map[i].typ \in E820Types
      BY <1>4, <2>1, Zenon
    <3> QED BY <1>12, <3>1 DEF is_usable, E820Types
  <2> QED BY <1>5, <2>2, Zenon
<1>13. FirmwareMap(map)
  BY <1>1, <1>10, <1>11, Zenon DEF FirmwareMap
<1> QED BY <1>1, <1>2, <1>6, <1>12, <1>13, Zenon DEF StageMap

-----------------------------------------------------------------------------
(* The frames of stage 4. *)

(* w is the map of an allocator that starts at frame, in region i of map. *)
Loading(w, map, i, frame) ==
  /\ i \in 2 .. Len(map) /\ is_usable(map[i])
  /\ IsFrame(frame) /\ map[i].start <= frame /\ frame <= End(map[i])
  /\ w \in Seq(AnyRegion) /\ Len(w) = Len(map) - i + 1
  /\ w[1] = [map[i] EXCEPT !.start = frame]
  /\ \A k \in 2 .. Len(w) : w[k] = map[i + k - 1]

(* The regions of the firmware are regions. *)
LEMMA Entry ==
  ASSUME NEW map, StageMap(map), NEW i \in 1 .. Len(map)
  PROVE  /\ map[i] \in AnyRegion /\ map[i] \in [start : Nat, size : Nat, typ : E820Types]
         /\ map[i].start \in Nat /\ map[i].size \in Nat /\ End(map[i]) \in Nat
         /\ map[i].start <= End(map[i])
<1>1. map[i] \in [start : Nat, size : Nat, typ : E820Types]
  BY ElementOfSeq, Zenon DEF StageMap, FirmwareMap
<1> QED BY <1>1 DEF AnyRegion, End

(* Usable regions begin with a frame, the first one at 0. *)
LEMMA StageAligned ==
  ASSUME NEW map, StageMap(map)
  PROVE  AlignedMap(map)
<1>1. map \in [1 .. Len(map) -> AnyRegion] /\ Len(map) \in Nat
  <2>1. Len(map) \in Nat /\ map = [i \in 1 .. Len(map) |-> map[i]]
    <3>1. map \in Seq([start : Nat, size : Nat, typ : E820Types])
      BY Zenon DEF StageMap, FirmwareMap
    <3> QED BY <3>1
  <2>2. \A i \in 1 .. Len(map) : map[i] \in AnyRegion
    BY Entry, Zenon
  <2> QED BY <2>1, <2>2, Zenon
<1>2. map \in Seq(AnyRegion)
  BY <1>1
<1>3. ASSUME NEW i \in 1 .. Len(map), is_usable(map[i]) PROVE map[i].start % FrameSize = 0
  <2>1. CASE i = 1
    <3>1. map[i].start = 0
      BY <2>1, Zenon DEF StageMap, FirmwareMap
    <3>2. 0 % FrameSize = 0
      BY MapsAssumption
    <3> QED BY <3>1, <3>2
  <2>2. CASE i # 1
    <3>1. i \in 2 .. Len(map)
      BY <1>1, <2>2
    <3> QED BY <1>3, <3>1, Zenon DEF StageMap
  <2> QED BY <2>1, <2>2
<1> QED BY <1>2, <1>3, Zenon DEF AlignedMap

(* new_starting_at never starts in low memory, which ends below frame. *)
LEMMA StartsLoading ==
  ASSUME NEW map, StageMap(map), NEW frame, IsFrame(frame),
         NEW address \in LastAddresses, address < frame,
         NEW i, i = StartIndex(frame, map), i # 0, is_usable(map[i])
  PROVE  Loading(new_starting_at(frame, map).memory_map, map, i, frame)
<1>1. PICK n \in Nat : n = Len(map)
  BY LenProperties, Zenon DEF StageMap, FirmwareMap
<1>2. i \in 1 .. n /\ map[i].start <= frame /\ frame <= End(map[i])
  BY <1>1, StartIs, Zenon DEF contains
<1>3. i \in 2 .. n
  <2>1. ASSUME i = 1 PROVE FALSE
    <3>1. n # 0 /\ 1 \in 1 .. n
      BY <1>2
    <3>2. frame <= End(map[1]) /\ End(map[1]) <= address
      BY <1>1, <1>2, <2>1, <3>1, Zenon DEF StageMap
    <3>3. End(map[1]) \in Nat /\ frame \in Nat /\ address \in Nat
      BY <1>1, <3>1, Entry, MapsAssumption, Zenon DEF IsFrame
    <3> QED BY <3>2, <3>3
  <2> QED BY <1>2, <2>1
<1>4. PICK t : t = SubSeq(map, i, n)
  BY Zenon
<1>5. /\ t \in Seq(AnyRegion) /\ Len(t) = n - i + 1
      /\ \A k \in 1 .. n - i + 1 : t[k] = map[i + k - 1]
  <2>1. \A k \in i .. n : k \in 1 .. Len(map)
    BY <1>1, <1>2
  <2>2. \A k \in i .. n : map[k] \in AnyRegion
    BY <2>1, Entry, Zenon
  <2>3. i \in Int /\ n \in Int /\ i <= n
    BY <1>2
  <2>4. /\ SubSeq(map, i, n) \in Seq(AnyRegion)
        /\ Len(SubSeq(map, i, n)) = IF i <= n THEN n - i + 1 ELSE 0
        /\ \A k \in 1 .. n - i + 1 : SubSeq(map, i, n)[k] = map[i + k - 1]
    BY <2>2, <2>3, SubSeqProperties
  <2> QED BY <1>4, <2>3, <2>4, Zenon
<1>6. PICK l \in Nat \ {0} : l = n - i + 1
  BY <1>3
<1>7. PICK r : r = [t[1] EXCEPT !.start = frame]
  BY Zenon
<1>8. PICK w : w = [t EXCEPT ![1] = r]
  BY Zenon
<1>9. new_starting_at(frame, map).memory_map = w
  BY <1>1, <1>4, <1>7, <1>8, Zenon DEF new_starting_at
<1>10. t[1] = map[i] /\ t[1] \in AnyRegion
  <2>1. 1 \in 1 .. l /\ i + 1 - 1 = i
    BY <1>3, <1>6
  <2>2. t[1] = map[i + 1 - 1]
    BY <1>5, <1>6, <2>1, Zenon
  <2> QED BY <1>1, <1>2, <2>1, <2>2, Entry
<1>11. r \in AnyRegion
  BY <1>7, <1>10 DEF AnyRegion, IsFrame
<1>12. t \in [1 .. l -> AnyRegion]
  BY <1>5, <1>6, LenProperties, Zenon
<1>13. w \in Seq(AnyRegion) /\ Len(w) = l
  <2>1. w \in [1 .. l -> AnyRegion]
    BY <1>8, <1>11, <1>12, Zenon
  <2> QED BY <2>1
<1>14. w[1] = r /\ \A k \in 2 .. l : w[k] = t[k]
  <2>1. 1 \in 1 .. l /\ \A k \in 2 .. l : k \in 1 .. l /\ k # 1
    BY <1>6
  <2> QED BY <1>8, <1>12, <2>1, Zenon
<1>15. \A k \in 2 .. l : w[k] = map[i + k - 1]
  <2>1. \A k \in 2 .. l : k \in 1 .. l
    OBVIOUS
  <2> QED BY <1>5, <1>6, <1>14, <2>1, Zenon
<1>16. /\ w[1] = [map[i] EXCEPT !.start = frame] /\ Len(w) = Len(map) - i + 1
       /\ \A k \in 2 .. Len(w) : w[k] = map[i + k - 1]
  BY <1>1, <1>6, <1>7, <1>10, <1>13, <1>14, <1>15, Zenon
<1> QED BY <1>1, <1>2, <1>3, <1>9, <1>13, <1>16, Zenon DEF Loading

(* The regions behind the first are those behind region i. *)
LEMMA LaterRegion ==
  ASSUME NEW map, StageMap(map), NEW w, NEW i, NEW frame, Loading(w, map, i, frame),
         NEW k \in 2 .. Len(w)
  PROVE  i + k - 1 \in i + 1 .. Len(map) /\ w[k] = map[i + k - 1] /\ End(map[i]) <= w[k].start
<1>1. PICK n \in Nat : n = Len(map)
  BY LenProperties, Zenon DEF StageMap, FirmwareMap
<1>2. i \in 2 .. n /\ Len(w) = n - i + 1 /\ w[k] = map[i + k - 1]
  BY <1>1, Zenon DEF Loading
<1>3. PICK j \in 1 .. n : j = i + k - 1 /\ i < j /\ j \in i + 1 .. n /\ i \in 1 .. n
  BY <1>2
<1>4. End(map[i]) <= map[j].start
  BY <1>1, <1>3, Zenon DEF StageMap, FirmwareMap
<1> QED BY <1>1, <1>2, <1>3, <1>4, Zenon

(* Its usable regions begin with a frame. *)
LEMMA LoadingAligned ==
  ASSUME NEW map, StageMap(map), NEW w, NEW i, NEW frame, Loading(w, map, i, frame)
  PROVE  /\ AlignedMap(w) /\ Len(w) # 0 /\ is_usable(w[1])
         /\ w[1].start = frame /\ End(map[i]) <= End(w[1])
<1>1. PICK n \in Nat : n = Len(map)
  BY LenProperties, Zenon DEF StageMap, FirmwareMap
<1>2. /\ i \in 2 .. n /\ Len(w) = n - i + 1 /\ w \in Seq(AnyRegion) /\ is_usable(map[i])
      /\ w[1] = [map[i] EXCEPT !.start = frame] /\ IsFrame(frame) /\ map[i].start <= frame
  BY <1>1, Zenon DEF Loading
<1>3. i \in 1 .. Len(map) /\ Len(w) # 0
  BY <1>1, <1>2
<1>4. map[i] \in AnyRegion
  BY <1>3, Entry, Zenon
<1>5. w[1].start = frame /\ is_usable(w[1]) /\ End(map[i]) <= End(w[1])
  <2>1. PICK x \in Nat, y \in Nat, z \in Nat : x = map[i].start /\ y = map[i].size /\ z = frame /\ x <= z
    BY <1>2, <1>4, RegionNumbers, Zenon DEF AnyRegion, IsFrame
  <2>2. w[1].start = frame /\ w[1].size = map[i].size /\ w[1].typ = map[i].typ
    BY <1>2, <1>4 DEF AnyRegion
  <2>3. End(map[i]) = x + y /\ End(w[1]) = z + y
    BY <2>1, <2>2, Zenon DEF End
  <2>4. End(map[i]) <= End(w[1])
    BY <2>1, <2>3
  <2>5. is_usable(w[1])
    BY <1>2, <2>2, Zenon DEF is_usable
  <2> QED BY <2>2, <2>4, <2>5, Zenon
<1>6. ASSUME NEW k \in 1 .. Len(w), is_usable(w[k]) PROVE w[k].start % FrameSize = 0
  <2>1. CASE k = 1
    BY <1>2, <1>5, <2>1, Zenon DEF IsFrame
  <2>2. CASE k # 1
    <3>1. k \in 2 .. Len(w)
      BY <1>2, <2>2
    <3>2. i + k - 1 \in i + 1 .. Len(map) /\ w[k] = map[i + k - 1]
      BY <3>1, LaterRegion
    <3>3. i + k - 1 \in 2 .. Len(map)
      <4>1. \A x : x \in i + 1 .. n => x \in 2 .. n
        <5>1. i \in 2 .. n
          BY <1>2, Zenon
        <5> QED BY <5>1
      <4> QED BY <1>1, <3>2, <4>1, Zenon
    <3> QED BY <1>6, <3>2, <3>3, Zenon DEF StageMap
  <2> QED BY <2>1, <2>2
<1> QED BY <1>2, <1>3, <1>5, <1>6, Zenon DEF AlignedMap

(* What such an allocator hands out: the frames of region i from frame on, *)
(* one by one, and then frames behind the region.                          *)
LoaderFrame(f, k, w, map, i, frame) ==
  /\ IsFrame(f) /\ frame <= f
  /\ \E j \in 1 .. Len(w) : f < End(w[j])
  /\ f = frame + (k - 1) * FrameSize \/ End(map[i]) <= f

(* Every frame of the loader is one of these. *)
LEMMA LoaderFrames ==
  ASSUME NEW map, StageMap(map), NEW w, NEW i, NEW frame, Loading(w, map, i, frame),
         NEW k \in 1 .. Len(usable_frames(w))
  PROVE  LoaderFrame(usable_frames(w)[k], k, w, map, i, frame)
<1>1. PICK u : u = usable_frames(w)
  BY Zenon
<1>2. /\ AlignedMap(w) /\ Len(w) # 0 /\ is_usable(w[1]) /\ w[1].start = frame
      /\ i \in 2 .. Len(map) /\ IsFrame(frame) /\ frame <= End(map[i])
  <2>1. AlignedMap(w) /\ Len(w) # 0 /\ is_usable(w[1]) /\ w[1].start = frame
    BY LoadingAligned
  <2> QED BY <2>1, Zenon DEF Loading
<1>3. Listing(u, w)
  BY <1>1, <1>2, UsableFrames, Zenon
<1>4. IsFrame(u[k])
  BY <1>1, <1>3, Zenon DEF Listing, ListingOf
<1>5. \/ u[k] = w[1].start + (k - 1) * FrameSize /\ BeginsIn(u[k], w[1])
      \/ \E j \in 2 .. Len(w) : is_usable(w[j]) /\ BeginsIn(u[k], w[j])
  BY <1>1, <1>2, <1>3, Zenon DEF Listing, ListingOf
<1>6. 1 \in 1 .. Len(w) /\ \A j \in 2 .. Len(w) : j \in 1 .. Len(w)
  <2>1. Len(w) \in Nat
    BY <1>2, LenProperties, Zenon DEF AlignedMap
  <2> QED BY <1>2, <2>1
<1>7. CASE u[k] = w[1].start + (k - 1) * FrameSize /\ BeginsIn(u[k], w[1])
  BY <1>1, <1>2, <1>4, <1>6, <1>7, Zenon DEF BeginsIn, LoaderFrame
<1>8. ASSUME NEW j \in 2 .. Len(w), BeginsIn(u[k], w[j])
      PROVE  LoaderFrame(u[k], k, w, map, i, frame)
  <2>1. End(map[i]) <= w[j].start /\ w[j].start <= u[k] /\ u[k] < End(w[j])
    BY <1>8, LaterRegion, Zenon DEF BeginsIn
  <2>2. i \in 1 .. Len(map)
    BY <1>2
  <2>3. End(map[i]) \in Nat /\ w[j].start \in Nat /\ frame \in Nat /\ u[k] \in Nat
    <3>1. w[j] \in AnyRegion
      BY <1>2, <1>6, ElementOfSeq, Zenon DEF AlignedMap
    <3>2. w[j].start \in Nat
      BY <3>1, RegionNumbers, Zenon DEF AnyRegion
    <3> QED BY <1>2, <1>4, <2>2, <3>2, Entry, Zenon DEF IsFrame
  <2>4. End(map[i]) <= u[k]
    BY <2>1, <2>3, AtMost, Zenon
  <2>5. frame <= u[k]
    BY <1>2, <2>3, <2>4, AtMost, Zenon
  <2> QED BY <1>4, <1>6, <2>1, <2>4, <2>5, Zenon DEF LoaderFrame
<1> QED BY <1>1, <1>5, <1>7, <1>8, Zenon

-----------------------------------------------------------------------------
(* The memory map of the boot information. *)

(* regs says what is free of map once frame is the last one taken. *)
BootMap(regs, map, frame) ==
  /\ regs \in Seq(BootRegion) /\ AlignedMap(regs) /\ SortedMap(regs)
  /\ \A k \in 1 .. Len(regs) :
       is_usable(regs[k]) => \E i \in 2 .. Len(map) : FreePart(regs[k], map[i], frame)
  /\ \A i \in 2 .. Len(map) :
       is_usable(map[i]) /\ ~(contains(map[i], frame) /\ frame + FrameSize = End(map[i]))
       => \E k \in 1 .. Len(regs) : FreePart(regs[k], map[i], frame)

(* In a region of the boot information usable means free. *)
LEMMA FreeIsUsable ==
  ASSUME NEW r \in BootRegion
  PROVE  r \in AnyRegion /\ (is_usable(r) <=> r.typ = "Free")
BY DEF BootRegion, AnyRegion, is_usable, E820Types

(* build_memory_map builds such a map. *)
LEMMA BootMapIs ==
  ASSUME NEW map, StageMap(map), NEW frame, IsFrame(frame), Fits(map, frame), 2 <= Len(map)
  PROVE  /\ BootMap(build_memory_map(map, frame).array, map, frame)
         /\ Len(build_memory_map(map, frame).array) < MaxRegions
<1>1. PICK n \in Nat : n = Len(map)
  BY LenProperties, Zenon DEF StageMap, FirmwareMap
<1>2. PICK b : b = build_memory_map(map, frame)
  BY Zenon
<1>3. Built(b, map, frame, n) /\ b.idx = Len(b.array)
  BY <1>1, <1>2, BuildBuilds, Zenon DEF Fits, StageMap, IsFrame
<1>4. PICK regs \in Seq(BootRegion) : regs = b.array
  <2>1. b \in [array : Seq(BootRegion), idx : Nat]
    BY <1>3, Zenon DEF Built
  <2> QED BY <2>1
<1>5. ASSUME NEW k \in 1 .. Len(regs)
      PROVE  regs[k] \in AnyRegion /\ (is_usable(regs[k]) <=> regs[k].typ = "Free")
  <2>1. regs[k] \in BootRegion
    BY ElementOfSeq, Zenon
  <2> QED BY <2>1, FreeIsUsable, Zenon
<1>6. ASSUME NEW k \in 1 .. Len(regs), is_usable(regs[k])
      PROVE  \E i \in 2 .. Len(map) : FreePart(regs[k], map[i], frame)
  <2>1. PICK i \in 1 .. n : FreePart(regs[k], map[i], frame)
    BY <1>3, <1>4, <1>5, <1>6, Zenon DEF Built
  <2>2. i # 1
    BY <1>1, <2>1, Zenon DEF FreePart, StageMap, FirmwareMap
  <2>3. i \in 2 .. Len(map)
    BY <1>1, <2>2
  <2> QED BY <2>1, <2>3, Zenon
<1>7. ASSUME NEW i \in 2 .. Len(map), is_usable(map[i]),
             ~(contains(map[i], frame) /\ frame + FrameSize = End(map[i]))
      PROVE  \E k \in 1 .. Len(regs) : FreePart(regs[k], map[i], frame)
  <2>1. i \in 1 .. n /\ i \in 1 .. Len(map) /\ i # 1
    BY <1>1
  <2>2. map[i].start # 0
    BY <2>1, Zenon DEF StageMap, FirmwareMap
  <2> QED BY <1>3, <1>4, <1>7, <2>1, <2>2, Zenon DEF Built
<1>8. ASSUME NEW k \in 1 .. Len(regs), is_usable(regs[k]) PROVE regs[k].start % FrameSize = 0
  <2>1. PICK i \in 2 .. Len(map) : FreePart(regs[k], map[i], frame)
    BY <1>6, <1>8, Zenon
  <2>2. map[i].start % FrameSize = 0
    BY <2>1, Zenon DEF StageMap, FreePart
  <2>3. (frame + FrameSize) % FrameSize = 0
    BY MapsAssumption, NextFrame, Zenon DEF IsFrame
  <2> QED BY <2>1, <2>2, <2>3, Zenon DEF FreePart
<1>9. regs \in Seq(AnyRegion)
  <2>1. regs \in [1 .. Len(regs) -> AnyRegion] /\ Len(regs) \in Nat
    BY <1>5, LenProperties
  <2> QED BY <2>1
<1>10. AlignedMap(regs)
  BY <1>8, <1>9, Zenon DEF AlignedMap
<1>11. SortedMap(regs)
  BY <1>3, <1>4, <1>5, Zenon DEF Built, SortedMap
<1>12. Len(regs) < MaxRegions
  BY <1>2, <1>3, <1>4, Zenon DEF Fits
<1> QED BY <1>2, <1>4, <1>6, <1>7, <1>10, <1>11, <1>12, Zenon DEF BootMap

(* The free part of a region lies in the region. *)
LEMMA FreePartIn ==
  ASSUME NEW map, StageMap(map), NEW frame, IsFrame(frame), NEW i \in 2 .. Len(map),
         NEW r, FreePart(r, map[i], frame)
  PROVE  /\ is_usable(map[i]) /\ map[i].start <= r.start /\ End(r) = End(map[i])
         /\ map[i].start % FrameSize = 0 /\ End(map[i]) % FrameSize = 0
<1>1. i \in 1 .. Len(map) /\ FrameSize \in Nat \ {0} /\ frame \in Nat
  BY MapsAssumption DEF IsFrame
<1>2. map[i].start \in Nat /\ map[i].size \in Nat
  BY <1>1, Entry, Zenon
<1>3. is_usable(map[i]) /\ End(r) = End(map[i])
  BY Zenon DEF FreePart
<1>4. map[i].start % FrameSize = 0 /\ map[i].size % FrameSize = 0
  BY <1>3, Zenon DEF StageMap
<1>5. End(map[i]) % FrameSize = 0
  BY <1>1, <1>2, <1>4, SumMultiple, Zenon DEF End
<1>6. map[i].start <= r.start
  <2>1. CASE contains(map[i], frame)
    <3>1. r.start = frame + FrameSize /\ map[i].start <= frame
      BY <2>1, Zenon DEF FreePart, contains
    <3> QED BY <1>1, <1>2, <3>1
  <2>2. CASE ~ contains(map[i], frame)
    <3>1. r.start = map[i].start
      BY <2>2, Zenon DEF FreePart
    <3> QED BY <1>2, <3>1
  <2> QED BY <2>1, <2>2
<1> QED BY <1>3, <1>4, <1>5, <1>6, Zenon

(* What the kernel's allocator hands out lies in usable regions. *)
LEMMA FreeFrames ==
  ASSUME NEW map, StageMap(map), NEW frame, IsFrame(frame), NEW regs, BootMap(regs, map, frame),
         NEW k \in 1 .. Len(usable_frames(regs))
  PROVE  /\ IsFrame(usable_frames(regs)[k])
         /\ \E i \in 2 .. Len(map) :
              /\ is_usable(map[i]) /\ map[i].start <= usable_frames(regs)[k]
              /\ usable_frames(regs)[k] + FrameSize <= End(map[i])
<1>1. PICK u, f : u = usable_frames(regs) /\ f = u[k]
  BY Zenon
<1>2. Listing(u, regs)
  BY <1>1, UsableFrames, Zenon DEF BootMap
<1>3. IsFrame(f) /\ \E j \in 1 .. Len(regs) : is_usable(regs[j]) /\ BeginsIn(f, regs[j])
  BY <1>1, <1>2, Zenon DEF Listing, ListingOf
<1>4. PICK j \in 1 .. Len(regs) : is_usable(regs[j]) /\ BeginsIn(f, regs[j])
  BY <1>3, Zenon
<1>5. PICK i \in 2 .. Len(map) : FreePart(regs[j], map[i], frame)
  BY <1>4, Zenon DEF BootMap
<1>6. /\ is_usable(map[i]) /\ map[i].start <= regs[j].start /\ End(regs[j]) = End(map[i])
      /\ End(map[i]) % FrameSize = 0
  BY <1>5, FreePartIn, Zenon
<1>7. regs[j].start <= f /\ f < End(map[i])
  BY <1>4, <1>6, Zenon DEF BeginsIn
<1>8. i \in 1 .. Len(map) /\ FrameSize \in Nat \ {0}
  BY MapsAssumption
<1>9. map[i].start \in Nat /\ End(map[i]) \in Nat /\ f \in Nat /\ f % FrameSize = 0
  BY <1>3, <1>8, Entry, Zenon DEF IsFrame
<1>10. regs[j].start \in Nat
  <2>1. regs[j] \in BootRegion
    BY ElementOfSeq, Zenon DEF BootMap
  <2> QED BY <2>1, RegionNumbers, Zenon DEF BootRegion
<1>11. map[i].start <= f
  BY <1>6, <1>7, <1>9, <1>10, AtMost, Zenon
<1>12. f + FrameSize <= End(map[i])
  BY <1>6, <1>7, <1>8, <1>9, NextMultiple, Zenon
<1> QED BY <1>1, <1>3, <1>6, <1>11, <1>12, Zenon

(* It hands out each frame once. *)
LEMMA FreeFramesIncrease ==
  ASSUME NEW map, NEW frame, NEW regs, BootMap(regs, map, frame)
  PROVE  /\ usable_frames(regs) \in Seq(Nat)
         /\ \A k, l \in 1 .. Len(usable_frames(regs)) :
              k < l => usable_frames(regs)[k] < usable_frames(regs)[l]
<1>1. Listing(usable_frames(regs), regs)
  BY UsableFrames, Zenon DEF BootMap
<1> QED BY <1>1, Zenon DEF Listing, ListingOf, BootMap

(* Every frame behind the last one taken is in it. *)
LEMMA Offered ==
  ASSUME NEW map, StageMap(map), AlignedMap(map), NEW frame, IsFrame(frame),
         NEW regs, BootMap(regs, map, frame), NEW address \in LastAddresses, address < frame,
         NEW k \in 1 .. Len(usable_frames(map)), frame < usable_frames(map)[k]
  PROVE  \E l \in 1 .. Len(usable_frames(regs)) : usable_frames(regs)[l] = usable_frames(map)[k]
<1>1. PICK u, v, f : u = usable_frames(map) /\ v = usable_frames(regs) /\ f = u[k]
  BY Zenon
<1>2. Listing(u, map) /\ Listing(v, regs)
  BY <1>1, UsableFrames, Zenon DEF BootMap
<1>3. IsFrame(f) /\ \E i \in 1 .. Len(map) : is_usable(map[i]) /\ BeginsIn(f, map[i])
  BY <1>1, <1>2, Zenon DEF Listing, ListingOf
<1>4. PICK i \in 1 .. Len(map) : is_usable(map[i]) /\ map[i].start <= f /\ f < End(map[i])
  BY <1>3, Zenon DEF BeginsIn
<1>5. /\ FrameSize \in Nat \ {0} /\ frame \in Nat /\ f \in Nat /\ address \in Nat
      /\ frame % FrameSize = 0 /\ f % FrameSize = 0 /\ frame < f
  BY <1>1, <1>3, MapsAssumption, Zenon DEF IsFrame
<1>6. map[i].start \in Nat /\ End(map[i]) \in Nat
  BY Entry, Zenon
<1>7. frame + FrameSize <= f
  BY <1>5, NextMultiple, Zenon
<1>8. i \in 2 .. Len(map)
  <2>1. Len(map) \in Nat
    BY LenProperties, Zenon DEF AlignedMap
  <2>2. Len(map) # 0
    BY <2>1
  <2>3. ASSUME i = 1 PROVE FALSE
    <3>1. End(map[i]) <= address
      BY <2>2, <2>3, Zenon DEF StageMap
    <3> QED BY <1>4, <1>5, <1>6, <3>1
  <2> QED BY <2>1, <2>3
<1>9. frame + FrameSize # End(map[i])
  BY <1>4, <1>5, <1>6, <1>7
<1>10. PICK j \in 1 .. Len(regs) : FreePart(regs[j], map[i], frame)
  BY <1>4, <1>8, <1>9, Zenon DEF BootMap
<1>11. regs[j].start <= f /\ f < End(regs[j])
  BY <1>4, <1>7, <1>10, Zenon DEF FreePart
<1>12. is_usable(regs[j])
  <2>1. regs[j].typ = "Free"
    BY <1>10, Zenon DEF FreePart
  <2> QED BY <2>1 DEF is_usable
<1>13. BeginsIn(f, regs[j])
  BY <1>11, Zenon DEF BeginsIn
<1> QED BY <1>1, <1>2, <1>3, <1>12, <1>13, Zenon DEF Listing, ListingOf

-----------------------------------------------------------------------------
(* The invariant. *)

(* s is what allocator a handed out: the first frames of its map. *)
HandedOut(a, s) ==
  /\ a = [memory_map |-> a.memory_map, next |-> Len(s)]
  /\ s \in Seq(Nat) /\ Len(s) <= Len(usable_frames(a.memory_map))
  /\ \A k \in 1 .. Len(s) : s[k] = usable_frames(a.memory_map)[k]

(* Stage 4's allocator starts behind the kernel's file, in its region. *)
Started ==
  /\ Len(e820) + 1 = Len(firmware)
  /\ StartIndex(next_free_frame, e820) # 0
  /\ is_usable(e820[StartIndex(next_free_frame, e820)])
  /\ loader.memory_map = new_starting_at(next_free_frame, e820).memory_map

(* The boot information was built when its own frame was the last taken. *)
InfoBuilt ==
  /\ boot_info \in 1 .. Len(taken)
  /\ Fits(e820, taken[boot_info])
  /\ regions = build_memory_map(e820, taken[boot_info]).array

(* e820 is the firmware's map as far as it was read.  The two allocators   *)
(* handed out the first frames of their maps: of the map from the kernel's *)
(* file on, and of the regions of the boot information.                    *)
HandoffInv ==
  /\ pc \in {"stage2", "stage4", "loading", "mapping", "kernel", "panic"}
  /\ firmware \in MemoryMaps /\ last \in LastAddresses
  /\ e820 \in Seq([start : Nat, size : Nat, typ : E820Types])
  /\ Len(e820) < Len(firmware) /\ \A i \in 1 .. Len(e820) : e820[i] = firmware[i]
  /\ HandedOut(loader, taken) /\ (loader.memory_map = << >> \/ Started)
  /\ (boot_info = 0 /\ regions = << >>) \/ InfoBuilt
  /\ HandedOut(kernel, given) /\ kernel.memory_map \in {<< >>, regions}
  /\ pc = "stage4" => Len(e820) + 1 = Len(firmware)
  /\ pc \in {"stage2", "stage4"} => loader.memory_map = << >>
  /\ pc \in {"stage2", "stage4", "loading"} => boot_info = 0
  /\ pc \in {"stage2", "stage4", "loading", "mapping"} => kernel.memory_map = << >>

(* The empty map has no frames. *)
LEMMA NoFrames == usable_frames(<< >>) = << >>
<1>1. AlignedMap(<< >>)
  BY DEF AlignedMap
<1>2. Listing(usable_frames(<< >>), << >>)
  BY <1>1, UsableFrames, Zenon
<1>3. PICK u \in Seq(Nat) : u = usable_frames(<< >>)
  BY <1>2, Zenon DEF Listing, ListingOf
<1>4. \A k \in 1 .. Len(u) : \E i \in 1 .. Len(<< >>) : TRUE
  BY <1>2, <1>3, Zenon DEF Listing, ListingOf
<1>5. 1 .. Len(<< >>) = {}
  OBVIOUS
<1>6. Len(u) = 0
  <2>1. Len(u) \in Nat /\ ~(1 \in 1 .. Len(u))
    BY <1>4, <1>5, LenProperties, Zenon
  <2> QED BY <2>1
<1> QED BY <1>3, <1>6, EmptySeq

(* A new allocator has handed out nothing. *)
LEMMA NewHandedOut ==
  ASSUME NEW map, usable_frames(map) \in Seq(Nat)
  PROVE  HandedOut(new(map), << >>) /\ new(map).memory_map = map
<1>1. new(map).memory_map = map /\ new(map) = [memory_map |-> map, next |-> 0]
  BY DEF new
<1>2. Len(usable_frames(map)) \in Nat
  BY LenProperties, Zenon
<1>3. << >> \in Seq(Nat) /\ Len(<< >>) = 0 /\ 0 <= Len(usable_frames(map)) /\ 1 .. 0 = {}
  BY <1>2
<1> QED BY <1>1, <1>3, Zenon DEF HandedOut

(* An allocator without regions has handed out nothing. *)
LEMMA NothingHandedOut ==
  ASSUME NEW a, NEW s, HandedOut(a, s), a.memory_map = << >>
  PROVE  s = << >> /\ Len(s) = 0
<1>1. s \in Seq(Nat) /\ Len(s) <= Len(<< >>)
  BY NoFrames, Zenon DEF HandedOut
<1> QED BY <1>1

(* One frame more. *)
LEMMA HandsOut ==
  ASSUME NEW a, NEW s, HandedOut(a, s), usable_frames(a.memory_map) \in Seq(Nat), frame_left(a)
  PROVE  /\ HandedOut(advance(a), Append(s, frame_of(a)))
         /\ advance(a).memory_map = a.memory_map
         /\ frame_of(a) = usable_frames(a.memory_map)[Len(s) + 1]
         /\ Len(s) + 1 \in 1 .. Len(usable_frames(a.memory_map))
<1> DEFINE map == a.memory_map
<1>1. PICK u \in Seq(Nat), n \in Nat :
        /\ map = a.memory_map /\ u = usable_frames(map) /\ n = Len(s)
        /\ a = [memory_map |-> map, next |-> n]
        /\ s \in Seq(Nat) /\ \A k \in 1 .. n : s[k] = u[k]
  <2>1. /\ a = [memory_map |-> a.memory_map, next |-> Len(s)] /\ s \in Seq(Nat)
        /\ \A k \in 1 .. Len(s) : s[k] = usable_frames(a.memory_map)[k]
    BY Zenon DEF HandedOut
  <2>2. Len(s) \in Nat
    BY <2>1, LenProperties, Zenon
  <2> QED BY <2>1, <2>2, Zenon
<1> HIDE DEF map
<1>2. n < Len(u) /\ frame_of(a) = u[n + 1]
  BY <1>1 DEF frame_left, frame_of
<1>3. n + 1 \in 1 .. Len(u)
  BY <1>2, LenProperties
<1>4. PICK x \in Nat : x = frame_of(a) /\ x = u[n + 1]
  BY <1>2, <1>3, ElementOfSeq, Zenon
<1>5. PICK t \in Seq(Nat) : /\ t = Append(s, x) /\ Len(t) = n + 1
                            /\ t[n + 1] = x /\ \A k \in 1 .. n : t[k] = s[k]
  <2>1. /\ Append(s, x) \in Seq(Nat) /\ Len(Append(s, x)) = Len(s) + 1
        /\ \A k \in 1 .. Len(s) : Append(s, x)[k] = s[k]
        /\ Append(s, x)[Len(s) + 1] = x
    BY <1>1, <1>4, AppendProperties
  <2> QED BY <1>1, <2>1, Zenon
<1>6. ASSUME NEW k \in 1 .. n + 1 PROVE t[k] = u[k]
  <2>1. k \in 1 .. n \/ k = n + 1
    OBVIOUS
  <2> QED BY <1>1, <1>4, <1>5, <2>1, Zenon
<1>7. advance(a) = [memory_map |-> map, next |-> n + 1] /\ advance(a).memory_map = map
  BY <1>1 DEF advance
<1>8. n + 1 <= Len(u)
  BY <1>3
<1>9. HandedOut(advance(a), t)
  BY <1>1, <1>5, <1>6, <1>7, <1>8, Zenon DEF HandedOut
<1> QED BY <1>1, <1>2, <1>3, <1>4, <1>5, <1>7, <1>9, Zenon

(* The first free frame lies behind the kernel's file. *)
LEMMA BehindFile ==
  ASSUME last \in LastAddresses
  PROVE  IsFrame(next_free_frame) /\ last \in Nat /\ last < next_free_frame
<1>1. last \in Nat /\ FrameSize \in Nat \ {0}
  BY MapsAssumption
<1>2. PICK c \in Nat : /\ c = containing_address(last, FrameSize) /\ c % FrameSize = 0
                       /\ last < c + FrameSize
  BY <1>1, ContainingFrame, Zenon
<1>3. next_free_frame = c + FrameSize /\ (c + FrameSize) % FrameSize = 0
  BY <1>1, <1>2, NextFrame, Zenon DEF next_free_frame
<1>4. c + FrameSize \in Nat
  BY <1>1
<1> QED BY <1>1, <1>2, <1>3, <1>4, Zenon DEF IsFrame

(* The state of stage 4's allocator. *)
LEMMA LoaderState ==
  ASSUME HandoffInv
  PROVE  /\ StageMap(e820)
         /\ loader.memory_map # << >> =>
              /\ Len(e820) + 1 = Len(firmware)
              /\ Loading(loader.memory_map, e820, StartIndex(next_free_frame, e820), next_free_frame)
         /\ AlignedMap(loader.memory_map)
<1>1. StageMap(e820)
  BY FirstEntries, Zenon DEF HandoffInv
<1>2. ASSUME loader.memory_map # << >>
      PROVE  /\ Len(e820) + 1 = Len(firmware)
             /\ Loading(loader.memory_map, e820, StartIndex(next_free_frame, e820), next_free_frame)
  <2>1. Started /\ last \in LastAddresses
    BY <1>2, Zenon DEF HandoffInv
  <2>2. IsFrame(next_free_frame) /\ last < next_free_frame
    BY <2>1, BehindFile, Zenon
  <2> QED BY <1>1, <2>1, <2>2, StartsLoading, Zenon DEF Started
<1>3. AlignedMap(loader.memory_map)
  <2>1. CASE loader.memory_map = << >>
    BY <2>1 DEF AlignedMap
  <2>2. CASE loader.memory_map # << >>
    BY <1>1, <1>2, <2>2, LoadingAligned, Zenon
  <2> QED BY <2>1, <2>2
<1> QED BY <1>1, <1>2, <1>3

(* The frames that stage 4 took. *)
LEMMA TakenFrames ==
  ASSUME HandoffInv, NEW k \in 1 .. Len(taken)
  PROVE  /\ loader.memory_map # << >>
         /\ LoaderFrame(taken[k], k, loader.memory_map, e820,
                        StartIndex(next_free_frame, e820), next_free_frame)
<1>1. HandedOut(loader, taken)
  BY Zenon DEF HandoffInv
<1>2. loader.memory_map # << >>
  <2>1. Len(taken) # 0
    <3>1. Len(taken) \in Nat
      BY <1>1, LenProperties, Zenon DEF HandedOut
    <3> QED BY <3>1
  <2> QED BY <1>1, <2>1, NothingHandedOut, Zenon
<1>3. PICK w : w = loader.memory_map
  BY Zenon
<1>4. k \in 1 .. Len(usable_frames(w)) /\ taken[k] = usable_frames(w)[k]
  <2>1. /\ taken \in Seq(Nat) /\ Len(taken) <= Len(usable_frames(w))
        /\ taken[k] = usable_frames(w)[k]
    BY <1>1, <1>3, Zenon DEF HandedOut
  <2>2. usable_frames(w) \in Seq(Nat)
    BY <1>3, LoaderState, UsableFrames, Zenon DEF Listing, ListingOf
  <2>3. Len(taken) \in Nat /\ Len(usable_frames(w)) \in Nat
    BY <2>1, <2>2, LenProperties, Zenon
  <2> QED BY <2>1, <2>3
<1>5. StageMap(e820) /\ Loading(w, e820, StartIndex(next_free_frame, e820), next_free_frame)
  BY <1>2, <1>3, LoaderState, Zenon
<1> QED BY <1>2, <1>3, <1>4, <1>5, LoaderFrames, Zenon

(* The boot information. *)
LEMMA InfoState ==
  ASSUME HandoffInv
  PROVE  /\ boot_info # 0 =>
              /\ boot_info \in 1 .. Len(taken) /\ loader.memory_map # << >>
              /\ IsFrame(taken[boot_info]) /\ next_free_frame <= taken[boot_info]
              /\ last < taken[boot_info]
              /\ BootMap(regions, e820, taken[boot_info])
         /\ boot_info = 0 => regions = << >>
         /\ AlignedMap(regions) /\ Len(regions) < MaxRegions /\ regions \in Seq(BootRegion)
<1>1. boot_info \in 1 .. Len(taken) => boot_info # 0
  OBVIOUS
<1>2. boot_info = 0 => regions = << >>
  BY <1>1, Zenon DEF HandoffInv, InfoBuilt
<1>3. CASE boot_info = 0
  <2>1. regions = << >> /\ MaxRegions \in Nat \ {0}
    BY <1>2, <1>3, MapsAssumption, Zenon
  <2>2. AlignedMap(<< >>) /\ Len(<< >>) < MaxRegions /\ << >> \in Seq(BootRegion)
    BY <2>1 DEF AlignedMap
  <2> QED BY <1>3, <2>1, <2>2, Zenon
<1>4. CASE boot_info # 0
  <2>1. InfoBuilt
    BY <1>4, Zenon DEF HandoffInv
  <2>2. PICK frame : frame = taken[boot_info]
    BY Zenon
  <2>3. /\ loader.memory_map # << >>
        /\ LoaderFrame(frame, boot_info, loader.memory_map, e820,
                       StartIndex(next_free_frame, e820), next_free_frame)
    BY <2>1, <2>2, TakenFrames, Zenon DEF InfoBuilt
  <2>4. IsFrame(frame) /\ next_free_frame <= frame
    BY <2>3, Zenon DEF LoaderFrame
  <2>5. IsFrame(next_free_frame) /\ last \in Nat /\ last < next_free_frame
    BY BehindFile, Zenon DEF HandoffInv
  <2>6. last < frame
    BY <2>4, <2>5 DEF IsFrame
  <2>7. StageMap(e820) /\ StartIndex(next_free_frame, e820) \in 2 .. Len(e820)
    BY <2>3, LoaderState, Zenon DEF Loading
  <2>8. 2 <= Len(e820)
    <3>1. Len(e820) \in Nat
      BY LenProperties, Zenon DEF HandoffInv
    <3> QED BY <2>7, <3>1
  <2>9. BootMap(regions, e820, frame) /\ Len(regions) < MaxRegions
    BY <2>1, <2>2, <2>4, <2>7, <2>8, BootMapIs, Zenon DEF InfoBuilt
  <2> QED BY <1>4, <2>1, <2>2, <2>3, <2>4, <2>6, <2>9, Zenon DEF InfoBuilt, BootMap
<1> QED BY <1>2, <1>3, <1>4

(* The lists of frames that the allocators go through. *)
LEMMA FrameLists ==
  ASSUME HandoffInv
  PROVE  /\ usable_frames(loader.memory_map) \in Seq(Nat)
         /\ usable_frames(kernel.memory_map) \in Seq(Nat)
         /\ usable_frames(regions) \in Seq(Nat)
<1>1. AlignedMap(loader.memory_map) /\ AlignedMap(regions)
  BY LoaderState, InfoState, Zenon
<1>2. usable_frames(loader.memory_map) \in Seq(Nat) /\ usable_frames(regions) \in Seq(Nat)
  BY <1>1, UsableFrames, Zenon DEF Listing, ListingOf
<1>3. usable_frames(<< >>) \in Seq(Nat)
  BY NoFrames, EmptySeq, Zenon
<1> QED BY <1>2, <1>3, Zenon DEF HandoffInv

-----------------------------------------------------------------------------
(* Every step keeps the invariant. *)

(* It holds in the beginning. *)
LEMMA InitInv == Init => HandoffInv
<1> SUFFICES ASSUME Init PROVE HandoffInv
  OBVIOUS
<1>1. HandedOut(new(<< >>), << >>) /\ new(<< >>).memory_map = << >>
  BY NoFrames, NewHandedOut, EmptySeq, Zenon
<1>2. \A m \in MemoryMaps : Len(m) \in Nat \ {0}
  BY MapsAssumption, EmptySeq, Zenon
<1>3. /\ << >> \in Seq([start : Nat, size : Nat, typ : E820Types]) /\ Len(<< >>) < Len(firmware)
      /\ 1 .. Len(<< >>) = {}
  BY <1>2 DEF Init
<1>4. pc = "stage2" /\ pc # "stage4"
  BY DEF Init
<1> QED BY <1>1, <1>3, <1>4, Zenon DEF Init, HandoffInv

(* A panic ends the boot and changes nothing else. *)
LEMMA PanicKeeps ==
  ASSUME HandoffInv, panic
  PROVE  HandoffInv'
<1>1. /\ pc' = "panic"
      /\ firmware' = firmware /\ e820' = e820 /\ last' = last /\ loader' = loader /\ taken' = taken
      /\ regions' = regions /\ boot_info' = boot_info /\ kernel' = kernel /\ given' = given
  BY DEF panic
<1>2. /\ pc' \in {"stage2", "stage4", "loading", "mapping", "kernel", "panic"}
      /\ ~(pc' \in {"stage2", "stage4", "loading", "mapping"})
      /\ ~(pc' \in {"stage2", "stage4", "loading"}) /\ ~(pc' \in {"stage2", "stage4"}) /\ pc' # "stage4"
  BY <1>1
<1>3. Started => Started'
  BY <1>1, Zenon DEF Started, next_free_frame
<1>4. InfoBuilt => InfoBuilt'
  BY <1>1, Zenon DEF InfoBuilt
<1> QED BY <1>1, <1>2, <1>3, <1>4, Zenon DEF HandoffInv

(* Stage 2 reads an entry. *)
LEMMA GetKeeps ==
  ASSUME HandoffInv, get
  PROVE  HandoffInv'
<1>1. CASE panic
  BY <1>1, PanicKeeps, Zenon
<1>2. CASE ~ panic
  <2>1. /\ pc = "stage2"
        /\ IF Len(e820) + 1 = Len(firmware)
           THEN pc' = "stage4" /\ e820' = e820
           ELSE e820' = Append(e820, firmware[Len(e820) + 1]) /\ pc' = pc
        /\ firmware' = firmware /\ last' = last /\ loader' = loader /\ taken' = taken
        /\ regions' = regions /\ boot_info' = boot_info /\ kernel' = kernel /\ given' = given
    BY <1>2 DEF get
  <2>2. /\ pc \in {"stage2", "stage4"} /\ pc \in {"stage2", "stage4", "loading"} /\ pc # "stage4"
        /\ pc \in {"stage2", "stage4", "loading", "mapping"}
        /\ pc \in {"stage2", "stage4", "loading", "mapping", "kernel", "panic"}
    BY <2>1
  <2>3. loader.memory_map = << >> /\ boot_info = 0 /\ kernel.memory_map = << >>
    BY <2>2, Zenon DEF HandoffInv
  <2>4. ~ InfoBuilt
    BY <2>3 DEF InfoBuilt
  <2>5. CASE Len(e820) + 1 = Len(firmware)
    <3>1. pc' = "stage4" /\ e820' = e820
      BY <2>1, <2>5, Zenon
    <3>2. pc' \in {"stage2", "stage4", "loading", "mapping", "kernel", "panic"}
      BY <3>1
    <3> QED BY <2>1, <2>3, <2>4, <2>5, <3>1, <3>2, Zenon DEF HandoffInv
  <2>6. CASE Len(e820) + 1 # Len(firmware)
    <3>1. pc' = pc /\ e820' = Append(e820, firmware[Len(e820) + 1])
      BY <2>1, <2>6, Zenon
    <3> DEFINE Entries == [start : Nat, size : Nat, typ : E820Types]
    <3> HIDE DEF Entries
    <3>2. firmware \in Seq(Entries) /\ e820 \in Seq(Entries)
      BY MapsAssumption, Zenon DEF HandoffInv, Entries
    <3>3. PICK n \in Nat, l \in Nat : n = Len(e820) /\ l = Len(firmware) /\ n < l
      BY <3>2, LenProperties, Zenon DEF HandoffInv
    <3>4. n + 1 \in 1 .. l /\ n + 1 < l
      BY <2>6, <3>3
    <3>5. firmware[n + 1] \in Entries
      BY <3>2, <3>3, <3>4, ElementOfSeq, Zenon
    <3>6. /\ e820' \in Seq(Entries) /\ Len(e820') = n + 1
          /\ \A i \in 1 .. n : e820'[i] = e820[i]
          /\ e820'[n + 1] = firmware[n + 1]
      BY <3>1, <3>2, <3>3, <3>5, AppendProperties
    <3>7. \A i \in 1 .. n + 1 : i \in 1 .. n \/ i = n + 1
      OBVIOUS
    <3>8. \A i \in 1 .. Len(e820') : e820'[i] = firmware[i]
      BY <3>3, <3>6, <3>7, Zenon DEF HandoffInv
    <3>9. Len(e820') < Len(firmware)
      BY <3>3, <3>4, <3>6, Zenon
    <3>10. e820' \in Seq([start : Nat, size : Nat, typ : E820Types])
      BY <3>6 DEF Entries
    <3> QED BY <2>1, <2>2, <2>3, <2>4, <3>1, <3>8, <3>9, <3>10, Zenon DEF HandoffInv
  <2> QED BY <2>5, <2>6
<1> QED BY <1>1, <1>2

(* Stage 4 starts its allocator. *)
LEMMA StartKeeps ==
  ASSUME HandoffInv, start
  PROVE  HandoffInv'
<1>1. CASE panic
  BY <1>1, PanicKeeps, Zenon
<1>2. CASE ~ panic
  <2>1. PICK i : i = StartIndex(next_free_frame, e820)
    BY Zenon
  <2>2. /\ pc = "stage4" /\ (i = 0 \/ is_usable(e820[i])) /\ pc' = "loading"
        /\ loader' = new_starting_at(next_free_frame, e820)
        /\ firmware' = firmware /\ e820' = e820 /\ last' = last /\ taken' = taken
        /\ regions' = regions /\ boot_info' = boot_info /\ kernel' = kernel /\ given' = given
    BY <1>2, <2>1 DEF start
  <2>3. /\ pc \in {"stage2", "stage4"} /\ pc \in {"stage2", "stage4", "loading"}
        /\ pc \in {"stage2", "stage4", "loading", "mapping"}
        /\ pc' \in {"stage2", "stage4", "loading", "mapping", "kernel", "panic"}
        /\ ~(pc' \in {"stage2", "stage4"}) /\ pc' # "stage4"
    BY <2>2
  <2>4. /\ loader.memory_map = << >> /\ boot_info = 0 /\ kernel.memory_map = << >>
        /\ Len(e820) + 1 = Len(firmware)
    BY <2>2, <2>3, Zenon DEF HandoffInv
  <2>5. ~ InfoBuilt
    BY <2>4 DEF InfoBuilt
  <2>6. taken = << >>
    BY <2>4, NothingHandedOut DEF HandoffInv
  <2>7. PICK map : loader' = new(map) /\ loader'.memory_map = map
    <3>1. PICK map : map = IF i = 0 THEN << >>
                           ELSE [SubSeq(e820, i, Len(e820)) EXCEPT ![1].start = next_free_frame]
      BY Zenon
    <3>2. loader' = [memory_map |-> map, next |-> 0]
      BY <2>1, <2>2, <3>1, Zenon DEF new_starting_at
    <3> QED BY <3>2 DEF new
  <2>8. map = << >> \/ Started'
    <3>1. CASE i = 0
      BY <2>1, <2>2, <2>7, <3>1 DEF new_starting_at
    <3>2. CASE i # 0
      BY <2>1, <2>2, <2>4, <3>2, Zenon DEF Started, next_free_frame
    <3> QED BY <3>1, <3>2
  <2>9. usable_frames(map) \in Seq(Nat)
    <3>1. CASE map = << >>
      BY <3>1, NoFrames, EmptySeq, Zenon
    <3>2. CASE map # << >>
      <4>1. i # 0
        BY <2>1, <2>2, <2>7, <3>2 DEF new_starting_at
      <4>2. StageMap(e820) /\ last \in LastAddresses
        BY LoaderState, Zenon DEF HandoffInv
      <4>3. IsFrame(next_free_frame) /\ last < next_free_frame
        BY <4>2, BehindFile, Zenon
      <4>4. Loading(map, e820, i, next_free_frame)
        BY <2>1, <2>2, <2>7, <4>1, <4>2, <4>3, StartsLoading, Zenon
      <4> QED BY <4>2, <4>4, LoadingAligned, UsableFrames, Zenon DEF Listing, ListingOf
    <3> QED BY <3>1, <3>2
  <2>10. HandedOut(loader', taken')
    BY <2>2, <2>6, <2>7, <2>9, NewHandedOut, Zenon
  <2> QED BY <2>2, <2>3, <2>4, <2>5, <2>7, <2>8, <2>10, Zenon DEF HandoffInv
<1> QED BY <1>1, <1>2

(* Stage 4 takes a frame and leaves the boot information alone. *)
LEMMA TakeKeeps ==
  ASSUME HandoffInv, pc \in {"loading", "mapping"}, frame_left(loader),
         taken' = Append(taken, frame_of(loader)), loader' = advance(loader),
         UNCHANGED <<pc, firmware, e820, last, regions, boot_info, kernel, given>>
  PROVE  HandoffInv'
<1>1. /\ pc' = pc /\ firmware' = firmware /\ e820' = e820 /\ last' = last
      /\ regions' = regions /\ boot_info' = boot_info /\ kernel' = kernel /\ given' = given
  OBVIOUS
<1>2. /\ HandedOut(loader', taken') /\ loader'.memory_map = loader.memory_map
      /\ frame_of(loader) \in Nat
  <2>1. HandedOut(loader, taken) /\ usable_frames(loader.memory_map) \in Seq(Nat)
    BY FrameLists, Zenon DEF HandoffInv
  <2>2. /\ HandedOut(loader', taken') /\ loader'.memory_map = loader.memory_map
        /\ frame_of(loader) = usable_frames(loader.memory_map)[Len(taken) + 1]
        /\ Len(taken) + 1 \in 1 .. Len(usable_frames(loader.memory_map))
    BY <2>1, HandsOut, Zenon
  <2> QED BY <2>1, <2>2, ElementOfSeq, Zenon
<1>3. /\ ~(pc' \in {"stage2", "stage4"}) /\ pc' # "stage4"
      /\ pc' \in {"stage2", "stage4", "loading", "mapping", "kernel", "panic"}
  BY <1>1
<1>4. Started => Started'
  BY <1>1, <1>2, Zenon DEF Started, next_free_frame
<1>5. InfoBuilt => InfoBuilt'
  <2> SUFFICES ASSUME InfoBuilt PROVE InfoBuilt'
    OBVIOUS
  <2>1. PICK n \in Nat : /\ n = Len(taken) /\ Len(taken') = n + 1
                         /\ \A k \in 1 .. n : taken'[k] = taken[k]
    <3>1. taken \in Seq(Nat)
      BY Zenon DEF HandoffInv, HandedOut
    <3> QED BY <1>2, <3>1, AppendProperties, LenProperties
  <2>2. \A k \in 1 .. n : k \in 1 .. n + 1
    OBVIOUS
  <2>3. boot_info \in 1 .. n
    BY <2>1, Zenon DEF InfoBuilt
  <2> QED BY <1>1, <2>1, <2>2, <2>3, Zenon DEF InfoBuilt
<1> QED BY <1>1, <1>2, <1>3, <1>4, <1>5, Zenon DEF HandoffInv

(* Frames before the boot information. *)
LEMMA EarlyKeeps ==
  ASSUME HandoffInv, allocate_early
  PROVE  HandoffInv'
<1>1. CASE panic
  BY <1>1, PanicKeeps, Zenon
<1>2. CASE ~ panic
  <2>1. /\ pc = "loading" /\ frame_left(loader)
        /\ taken' = Append(taken, frame_of(loader)) /\ loader' = advance(loader)
        /\ UNCHANGED <<pc, firmware, e820, last, regions, boot_info, kernel, given>>
    BY <1>2, Zenon DEF allocate_early
  <2>2. pc \in {"loading", "mapping"}
    BY <2>1
  <2> QED BY <2>1, <2>2, TakeKeeps, Zenon
<1> QED BY <1>1, <1>2

(* Frames behind the boot information. *)
LEMMA LateKeeps ==
  ASSUME HandoffInv, allocate_late
  PROVE  HandoffInv'
<1>1. CASE panic
  BY <1>1, PanicKeeps, Zenon
<1>2. CASE ~ panic
  <2>1. /\ pc = "mapping" /\ frame_left(loader)
        /\ taken' = Append(taken, frame_of(loader)) /\ loader' = advance(loader)
        /\ UNCHANGED <<pc, firmware, e820, last, regions, boot_info, kernel, given>>
    BY <1>2, Zenon DEF allocate_late
  <2>2. pc \in {"loading", "mapping"}
    BY <2>1
  <2> QED BY <2>1, <2>2, TakeKeeps, Zenon
<1> QED BY <1>1, <1>2

(* The frame of the boot information, and its memory map. *)
LEMMA BootInfoKeeps ==
  ASSUME HandoffInv, allocate_boot_info
  PROVE  HandoffInv'
<1>1. CASE panic
  BY <1>1, PanicKeeps, Zenon
<1>2. CASE ~ panic
  <2>1. /\ pc = "loading" /\ frame_left(loader) /\ Fits(e820, frame_of(loader)) /\ pc' = "mapping"
        /\ taken' = Append(taken, frame_of(loader)) /\ loader' = advance(loader)
        /\ regions' = build_memory_map(e820, frame_of(loader)).array /\ boot_info' = Len(taken')
        /\ firmware' = firmware /\ e820' = e820 /\ last' = last /\ kernel' = kernel /\ given' = given
    BY <1>2 DEF allocate_boot_info
  <2>2. /\ pc \in {"stage2", "stage4", "loading", "mapping"}
        /\ pc' \in {"stage2", "stage4", "loading", "mapping", "kernel", "panic"}
        /\ ~(pc' \in {"stage2", "stage4", "loading"}) /\ ~(pc' \in {"stage2", "stage4"}) /\ pc' # "stage4"
    BY <2>1
  <2>3. kernel.memory_map = << >>
    BY <2>2, Zenon DEF HandoffInv
  <2>4. HandedOut(loader, taken) /\ usable_frames(loader.memory_map) \in Seq(Nat)
    BY FrameLists, Zenon DEF HandoffInv
  <2>5. /\ HandedOut(loader', taken') /\ loader'.memory_map = loader.memory_map
        /\ frame_of(loader) = usable_frames(loader.memory_map)[Len(taken) + 1]
        /\ Len(taken) + 1 \in 1 .. Len(usable_frames(loader.memory_map))
    BY <2>1, <2>4, HandsOut, Zenon
  <2>6. Started => Started'
    BY <2>1, <2>5, Zenon DEF Started, next_free_frame
  <2>7. InfoBuilt'
    <3>1. taken \in Seq(Nat) /\ frame_of(loader) \in Nat
      BY <2>4, <2>5, ElementOfSeq, Zenon DEF HandedOut
    <3>2. PICK n \in Nat : n = Len(taken) /\ Len(taken') = n + 1 /\ taken'[n + 1] = frame_of(loader)
      BY <2>1, <3>1, AppendProperties, LenProperties
    <3>3. n + 1 \in 1 .. n + 1
      OBVIOUS
    <3> QED BY <2>1, <3>2, <3>3, Zenon DEF InfoBuilt
  <2> QED BY <2>1, <2>2, <2>3, <2>5, <2>6, <2>7, Zenon DEF HandoffInv
<1> QED BY <1>1, <1>2

(* The kernel gets the boot information. *)
LEMMA SwitchKeeps ==
  ASSUME HandoffInv, context_switch
  PROVE  HandoffInv'
<1>1. /\ pc = "mapping" /\ pc' = "kernel" /\ kernel' = new(regions)
      /\ firmware' = firmware /\ e820' = e820 /\ last' = last /\ loader' = loader /\ taken' = taken
      /\ regions' = regions /\ boot_info' = boot_info /\ given' = given
  BY DEF context_switch
<1>2. /\ pc' \in {"stage2", "stage4", "loading", "mapping", "kernel", "panic"}
      /\ pc \in {"stage2", "stage4", "loading", "mapping"}
      /\ ~(pc' \in {"stage2", "stage4", "loading", "mapping"})
      /\ ~(pc' \in {"stage2", "stage4", "loading"}) /\ ~(pc' \in {"stage2", "stage4"}) /\ pc' # "stage4"
  BY <1>1
<1>3. given = << >>
  BY <1>2, NothingHandedOut DEF HandoffInv
<1>4. HandedOut(kernel', << >>) /\ kernel'.memory_map = regions
  BY <1>1, FrameLists, NewHandedOut, Zenon
<1>5. Started => Started'
  BY <1>1, Zenon DEF Started, next_free_frame
<1>6. InfoBuilt => InfoBuilt'
  BY <1>1, Zenon DEF InfoBuilt
<1> QED BY <1>1, <1>2, <1>3, <1>4, <1>5, <1>6, Zenon DEF HandoffInv

(* The kernel takes a frame. *)
LEMMA HeapKeeps ==
  ASSUME HandoffInv, init_heap
  PROVE  HandoffInv'
<1>1. CASE panic
  BY <1>1, PanicKeeps, Zenon
<1>2. CASE ~ panic
  <2>1. /\ pc = "kernel" /\ frame_left(kernel)
        /\ given' = Append(given, frame_of(kernel)) /\ kernel' = advance(kernel)
        /\ pc' = pc /\ firmware' = firmware /\ e820' = e820 /\ last' = last /\ loader' = loader
        /\ taken' = taken /\ regions' = regions /\ boot_info' = boot_info
        /\ ~(pc' \in {"stage2", "stage4", "loading", "mapping"})
    BY <1>2 DEF init_heap
  <2>2. HandedOut(kernel, given) /\ usable_frames(kernel.memory_map) \in Seq(Nat)
    BY FrameLists, Zenon DEF HandoffInv
  <2>3. HandedOut(kernel', given') /\ kernel'.memory_map = kernel.memory_map
    BY <2>1, <2>2, HandsOut, Zenon
  <2>4. Started => Started'
    BY <2>1, Zenon DEF Started, next_free_frame
  <2>5. InfoBuilt => InfoBuilt'
    BY <2>1, Zenon DEF InfoBuilt
  <2> QED BY <2>1, <2>3, <2>4, <2>5, Zenon DEF HandoffInv
<1> QED BY <1>1, <1>2

(* The invariant holds in every state. *)
THEOREM HandoffInvariant == Spec => []HandoffInv
<1>1. HandoffInv /\ [Next]_vars => HandoffInv'
  <2> SUFFICES ASSUME HandoffInv, [Next]_vars PROVE HandoffInv'
    OBVIOUS
  <2>1. CASE get
    BY <2>1, GetKeeps, Zenon
  <2>2. CASE start
    BY <2>2, StartKeeps, Zenon
  <2>3. CASE allocate_early
    BY <2>3, EarlyKeeps, Zenon
  <2>4. CASE allocate_boot_info
    BY <2>4, BootInfoKeeps, Zenon
  <2>5. CASE allocate_late
    BY <2>5, LateKeeps, Zenon
  <2>6. CASE context_switch
    BY <2>6, SwitchKeeps, Zenon
  <2>7. CASE init_heap
    BY <2>7, HeapKeeps, Zenon
  <2>8. CASE UNCHANGED vars
    <3>1. /\ pc' = pc /\ firmware' = firmware /\ e820' = e820 /\ last' = last /\ loader' = loader
          /\ taken' = taken /\ regions' = regions /\ boot_info' = boot_info /\ kernel' = kernel
          /\ given' = given
      BY <2>8 DEF vars
    <3>2. Started => Started'
      BY <3>1, Zenon DEF Started, next_free_frame
    <3>3. InfoBuilt => InfoBuilt'
      BY <3>1, Zenon DEF InfoBuilt
    <3> QED BY <3>1, <3>2, <3>3, Zenon DEF HandoffInv
  <2> QED BY <2>1, <2>2, <2>3, <2>4, <2>5, <2>6, <2>7, <2>8, Zenon DEF Next
<1> QED BY <1>1, InitInv, PTL DEF Spec

-----------------------------------------------------------------------------
(* The properties. *)

(* The elements of a sequence have indices. *)
LEMMA InSet ==
  ASSUME NEW S, NEW s \in Seq(S), NEW x \in Range(s)
  PROVE  \E k \in 1 .. Len(s) : s[k] = x
<1>1. DOMAIN s = 1 .. Len(s)
  BY LenProperties, Zenon
<1> QED BY <1>1, Zenon DEF Range

(* All types are right, and an entry of the array of regions stays free. *)
LEMMA TypesRight == HandoffInv => TypeOK
<1> SUFFICES ASSUME HandoffInv PROVE TypeOK
  OBVIOUS
<1> DEFINE Entries == [start : Nat, size : Nat, typ : E820Types]
<1>1. PICK n \in Nat : n = Len(e820) /\ e820 \in Seq(Entries)
  BY LenProperties, Zenon DEF HandoffInv
<1>2. PICK l \in Nat : l = Len(firmware) /\ n < l /\ firmware \in Seq(Entries)
  BY <1>1, MapsAssumption, LenProperties, Zenon DEF HandoffInv
<1>3. \A i \in 1 .. n : e820[i] = firmware[i]
  BY <1>1, Zenon DEF HandoffInv
<1>4. e820 = SubSeq(firmware, 1, Len(e820))
  <2> HIDE DEF Entries
  <2>1. \A i \in 1 .. n : e820[i] \in Entries /\ firmware[i] \in Entries
    BY <1>1, <1>3, ElementOfSeq, Zenon
  <2>2. 1 \in Int /\ n \in Int /\ n <= l
    BY <1>2
  <2>3. PICK t : t = SubSeq(firmware, 1, n)
    BY Zenon
  <2>4. /\ t \in Seq(Entries) /\ Len(t) = (IF 1 <= n THEN n - 1 + 1 ELSE 0)
        /\ \A i \in 1 .. n - 1 + 1 : t[i] = firmware[1 + i - 1]
    BY <2>1, <2>2, <2>3, SubSeqProperties
  <2>5. (IF 1 <= n THEN n - 1 + 1 ELSE 0) = n /\ n - 1 + 1 = n /\ \A i \in 1 .. n : 1 + i - 1 = i
    OBVIOUS
  <2>6. Len(t) = Len(e820) /\ \A i \in 1 .. Len(t) : t[i] = e820[i]
    BY <1>1, <1>3, <2>4, <2>5
  <2>7. t = e820
    BY <1>1, <2>4, <2>6, SeqEqual, Zenon
  <2> QED BY <1>1, <2>3, <2>7, Zenon
<1>5. /\ taken \in Seq(Nat) /\ given \in Seq(Nat)
      /\ loader = [memory_map |-> loader.memory_map, next |-> Len(taken)]
      /\ kernel = [memory_map |-> kernel.memory_map, next |-> Len(given)]
      /\ kernel.memory_map \in {<< >>, regions}
  BY Zenon DEF HandoffInv, HandedOut
<1>6. Len(taken) \in Nat /\ Len(given) \in Nat
  BY <1>5, LenProperties, Zenon
<1>7. /\ loader.memory_map \in Seq(AnyRegion) /\ regions \in Seq(AnyRegion)
      /\ regions \in Seq(BootRegion) /\ Len(regions) < MaxRegions
  BY LoaderState, InfoState, Zenon DEF AlignedMap
<1>8. << >> \in Seq(AnyRegion)
  BY EmptySeq, Zenon
<1>9. kernel.memory_map \in Seq(AnyRegion)
  BY <1>5, <1>7, <1>8, Zenon
<1>10. loader \in Allocators /\ kernel \in Allocators
  <2>1. Allocators = [memory_map : Seq(AnyRegion), next : Nat]
    BY Zenon DEF Allocators, AnyRegion
  <2> QED BY <1>5, <1>6, <1>7, <1>9, <2>1
<1>11. boot_info \in 0 .. Len(taken)
  <2>1. boot_info = 0 \/ boot_info \in 1 .. Len(taken)
    BY InfoState, Zenon
  <2> QED BY <1>6, <2>1
<1>12. last \in Nat
  BY BehindFile, Zenon DEF HandoffInv
<1> QED BY <1>4, <1>5, <1>7, <1>10, <1>11, <1>12, Zenon DEF TypeOK, HandoffInv, BootRegion

(* Equal products of a frame's size have equal factors. *)
LEMMA SameProduct ==
  ASSUME NEW a \in Nat, NEW x \in Nat, NEW y \in Nat, NEW c \in Nat \ {0}, a + x * c = a + y * c
  PROVE  x = y
<1>1. ASSUME NEW u \in Nat, NEW v \in Nat, u < v PROVE u * c < v * c
  <2>1. PICK d \in Nat : v = u + 1 + d
    <3>1. v - u - 1 \in Nat /\ v = u + 1 + (v - u - 1)
      BY <1>1
    <3> QED BY <3>1
  <2>2. v * c = u * c + c + d * c /\ d * c \in Nat /\ u * c \in Nat
    BY <2>1
  <2> QED BY <2>2
<1>2. x * c \in Nat /\ y * c \in Nat
  OBVIOUS
<1>3. x * c = y * c
  BY <1>2
<1>4. ~(x < y) /\ ~(y < x)
  BY <1>1, <1>2, <1>3
<1> QED BY <1>4

(* As long as all frames come from the kernel's region they follow one     *)
(* another from the first free one on.                                     *)
LEMMA TakenInRegion ==
  ASSUME HandoffInv, OneRegion, NEW k \in 1 .. Len(taken),
         NEW i, i = StartIndex(next_free_frame, e820)
  PROVE  /\ taken[k] \in Nat /\ taken[k] = next_free_frame + (k - 1) * FrameSize
         /\ next_free_frame <= taken[k]
         /\ i \in 1 .. Len(e820) /\ is_usable(e820[i]) /\ e820[i].start <= taken[k]
         /\ taken[k] + FrameSize <= End(e820[i])
<1>1. PICK a : a = next_free_frame
  BY Zenon
<1>2. taken \in Seq(Nat) /\ DOMAIN taken = 1 .. Len(taken) /\ FrameSize \in Nat \ {0}
  BY LenProperties, MapsAssumption, Zenon DEF HandoffInv, HandedOut
<1>3. LoaderFrame(taken[k], k, loader.memory_map, e820, i, a) /\ loader.memory_map # << >>
  BY <1>1, TakenFrames, Zenon
<1>4. StageMap(e820) /\ Loading(loader.memory_map, e820, i, a)
  BY <1>1, <1>3, LoaderState, Zenon
<1>5. /\ i \in 2 .. Len(e820) /\ is_usable(e820[i]) /\ e820[i].start <= a
      /\ taken[k] \in Nat /\ a \in Nat /\ a <= taken[k]
      /\ taken[k] = a + (k - 1) * FrameSize \/ End(e820[i]) <= taken[k]
  BY <1>3, <1>4, Zenon DEF Loading, LoaderFrame, IsFrame
<1>6. i \in 1 .. Len(e820)
  BY <1>5
<1>7. e820[i].start \in Nat /\ End(e820[i]) \in Nat
  BY <1>4, <1>6, Entry, Zenon
<1>8. taken[k] + FrameSize <= End(e820[i])
  <2>1. taken[k] \in Range(taken)
    BY <1>2, Zenon DEF Range
  <2> QED BY <1>1, <2>1, Zenon DEF OneRegion
<1>9. ~(End(e820[i]) <= taken[k]) /\ e820[i].start <= taken[k]
  <2>1. taken[k] < taken[k] + FrameSize /\ taken[k] + FrameSize \in Nat
    <3>1. \A t \in Nat, c \in Nat \ {0} : t < t + c /\ t + c \in Nat
      OBVIOUS
    <3> QED BY <1>2, <1>5, <3>1, Zenon
  <2>2. taken[k] < End(e820[i])
    BY <1>5, <1>7, <1>8, <2>1, Below, Zenon
  <2>3. ~(End(e820[i]) <= taken[k])
    BY <1>5, <1>7, <2>2
  <2> QED BY <1>5, <1>7, <2>3, AtMost, Zenon
<1> QED BY <1>1, <1>5, <1>6, <1>8, <1>9, Zenon

(* Stage 4's frames are distinct, usable and behind what was loaded, as    *)
(* long as all of them come from the kernel's region.                      *)
LEMMA LoaderRight == HandoffInv => LoaderFramesUnusedInRegion
<1> SUFFICES ASSUME HandoffInv, OneRegion PROVE LoaderFramesUnused
  BY Zenon DEF LoaderFramesUnusedInRegion
<1>1. PICK i, a : i = StartIndex(next_free_frame, e820) /\ a = next_free_frame
  BY Zenon
<1>2. taken \in Seq(Nat) /\ DOMAIN taken = 1 .. Len(taken)
  BY LenProperties, Zenon DEF HandoffInv, HandedOut
<1>3. IsFrame(a) /\ last \in Nat /\ last < a /\ FrameSize \in Nat \ {0}
  BY <1>1, BehindFile, MapsAssumption, Zenon DEF HandoffInv
<1>4. ASSUME NEW k \in 1 .. Len(taken)
      PROVE  /\ taken[k] \in Nat /\ taken[k] = a + (k - 1) * FrameSize /\ a <= taken[k]
             /\ i \in 1 .. Len(e820) /\ is_usable(e820[i]) /\ e820[i].start <= taken[k]
             /\ taken[k] + FrameSize <= End(e820[i])
  BY <1>1, TakenInRegion, Zenon
<1>5. ASSUME NEW k \in 1 .. Len(taken), NEW l \in 1 .. Len(taken), taken[k] = taken[l] PROVE k = l
  <2>1. PICK x \in Nat, y \in Nat : x = k - 1 /\ y = l - 1
    <3>1. k - 1 \in Nat /\ l - 1 \in Nat
      OBVIOUS
    <3> QED BY <3>1
  <2>2. a \in Nat /\ a + x * FrameSize = a + y * FrameSize
    BY <1>3, <1>4, <1>5, <2>1, Zenon DEF IsFrame
  <2>3. x = y
    BY <1>3, <2>2, SameProduct, Zenon
  <2> QED BY <2>1, <2>3
<1>6. IsInjective(taken)
  BY <1>2, <1>5, Zenon DEF IsInjective
<1>7. ASSUME NEW f \in Range(taken) PROVE InUsable(f) /\ last < f
  <2>1. PICK k \in 1 .. Len(taken) : taken[k] = f
    BY <1>2, InSet, Zenon
  <2>2. /\ f \in Nat /\ a <= f /\ i \in 1 .. Len(e820) /\ is_usable(e820[i])
        /\ e820[i].start <= f /\ f + FrameSize <= End(e820[i])
    BY <1>4, <2>1, Zenon
  <2>3. last < f
    BY <1>3, <2>2 DEF IsFrame
  <2> QED BY <2>2, <2>3, Zenon DEF InUsable
<1> QED BY <1>6, <1>7, Zenon DEF LoaderFramesUnused

(* The memory map calls nothing free that was in use, as long as the       *)
(* frames taken come from the kernel's region.                             *)
LEMMA FreeRight == HandoffInv => FreeIsUnusedInRegion
<1> SUFFICES ASSUME HandoffInv, OneRegion, NEW j \in 1 .. Len(regions), regions[j].typ = "Free"
             PROVE  /\ \A k \in 1 .. boot_info : ~ Overlap(taken[k], FrameSize, regions[j])
                    /\ LET home == e820[StartIndex(next_free_frame, e820)]
                       IN  ~ Overlap(home.start, next_free_frame - home.start, regions[j])
  BY Zenon DEF FreeIsUnusedInRegion, FreeIsUnused
<1>1. PICK i, a, frame, r : /\ i = StartIndex(next_free_frame, e820) /\ a = next_free_frame
                            /\ frame = taken[boot_info] /\ r = regions[j]
  BY Zenon
<1>2. boot_info # 0
  <2>1. regions = << >> => 1 .. Len(regions) = {}
    OBVIOUS
  <2> QED BY <2>1, InfoState, Zenon
<1>3. /\ boot_info \in 1 .. Len(taken) /\ loader.memory_map # << >> /\ IsFrame(frame) /\ a <= frame
      /\ BootMap(regions, e820, frame)
  BY <1>1, <1>2, InfoState, Zenon
<1>4. StageMap(e820) /\ Loading(loader.memory_map, e820, i, a)
  BY <1>1, <1>3, LoaderState, Zenon
<1>5. i \in 2 .. Len(e820) /\ e820[i].start <= a /\ a <= End(e820[i]) /\ IsFrame(a)
  BY <1>4, Zenon DEF Loading
<1>6. taken \in Seq(Nat) /\ Len(taken) \in Nat /\ DOMAIN taken = 1 .. Len(taken)
  BY LenProperties, Zenon DEF HandoffInv, HandedOut
<1>7. ASSUME NEW k \in 1 .. Len(taken)
      PROVE  /\ taken[k] \in Nat /\ taken[k] = a + (k - 1) * FrameSize /\ a <= taken[k]
             /\ taken[k] + FrameSize <= End(e820[i])
  BY <1>1, TakenInRegion, Zenon
<1>8. PICK h \in 2 .. Len(e820) : FreePart(r, e820[h], frame)
  <2>1. r \in BootRegion
    BY <1>1, <1>3, ElementOfSeq, Zenon DEF BootMap
  <2>2. is_usable(r)
    BY <1>1, <2>1, FreeIsUsable, Zenon
  <2> QED BY <1>1, <1>3, <2>2, Zenon DEF BootMap
<1>9. PICK n \in Nat : n = Len(e820)
  BY LenProperties, Zenon DEF HandoffInv
<1>10. i \in 1 .. n /\ h \in 1 .. n
  BY <1>5, <1>9
<1>11. /\ e820[i].start \in Nat /\ End(e820[i]) \in Nat
       /\ e820[h].start \in Nat /\ End(e820[h]) \in Nat /\ e820[h].start <= End(e820[h])
  BY <1>4, <1>9, <1>10, Entry, Zenon
<1>12. a \in Nat /\ frame \in Nat /\ FrameSize \in Nat \ {0} /\ frame + FrameSize <= End(e820[i])
  BY <1>1, <1>3, <1>5, <1>7, MapsAssumption, Zenon DEF IsFrame
<1>13. End(r) = End(e820[h])
       /\ r.start = IF contains(e820[h], frame) THEN frame + FrameSize ELSE e820[h].start
  BY <1>8, Zenon DEF FreePart
<1>14. ASSUME NEW k \in 1 .. boot_info
       PROVE  taken[k] \in Nat /\ a <= taken[k] /\ taken[k] <= frame
  <2>1. k \in 1 .. Len(taken)
    BY <1>3, <1>6
  <2>2. /\ taken[k] \in Nat /\ taken[k] = a + (k - 1) * FrameSize /\ a <= taken[k]
        /\ frame = a + (boot_info - 1) * FrameSize
    BY <1>1, <1>3, <1>7, <2>1, Zenon
  <2>3. PICK x \in Nat, y \in Nat : k - 1 = x /\ boot_info - 1 = x + y
    <3>1. k - 1 \in Nat /\ boot_info - k \in Nat /\ boot_info - 1 = (k - 1) + (boot_info - k)
      BY <1>3
    <3> QED BY <3>1, Zenon
  <2>4. PICK p \in Nat, q \in Nat : x * FrameSize = p /\ (x + y) * FrameSize = p + q
    <3>1. (x + y) * FrameSize = x * FrameSize + y * FrameSize /\ y * FrameSize \in Nat
          /\ x * FrameSize \in Nat
      BY <1>12
    <3> QED BY <3>1, Zenon
  <2>5. taken[k] = a + p /\ frame = a + (p + q)
    BY <2>2, <2>3, <2>4, Zenon
  <2>6. a + p <= a + (p + q)
    BY <1>12
  <2> QED BY <2>2, <2>5, <2>6, Zenon
<1>15. CASE contains(e820[h], frame)
  <2>1. r.start = frame + FrameSize
    BY <1>13, <1>15, Zenon
  <2>2. ASSUME NEW k \in 1 .. boot_info PROVE ~(r.start < taken[k] + FrameSize)
    BY <1>12, <1>14, <2>1
  <2>3. ~(r.start < e820[i].start + (a - e820[i].start))
    BY <1>3, <1>11, <1>12, <2>1, SMTT(30)
  <2> QED BY <1>1, <2>2, <2>3, Zenon DEF Overlap
<1>16. CASE ~ contains(e820[h], frame) /\ h < i
  <2>1. End(r) <= e820[i].start
    BY <1>4, <1>9, <1>10, <1>13, <1>16, Zenon DEF StageMap, FirmwareMap
  <2>2. ASSUME NEW k \in 1 .. boot_info PROVE ~(taken[k] < End(r))
    BY <1>5, <1>11, <1>12, <1>13, <1>14, <2>1
  <2>3. ~(e820[i].start < End(r))
    BY <1>11, <1>13, <2>1
  <2> QED BY <1>1, <2>2, <2>3, Zenon DEF Overlap
<1>17. CASE ~ contains(e820[h], frame) /\ i < h
  <2>1. r.start = e820[h].start /\ End(e820[i]) <= e820[h].start
    BY <1>4, <1>9, <1>10, <1>13, <1>17, Zenon DEF StageMap, FirmwareMap
  <2>2. ASSUME NEW k \in 1 .. boot_info PROVE ~(r.start < taken[k] + FrameSize)
    BY <1>11, <1>12, <1>14, <2>1, SMTT(30)
  <2>3. ~(r.start < e820[i].start + (a - e820[i].start))
    BY <1>5, <1>11, <1>12, <2>1
  <2> QED BY <1>1, <2>2, <2>3, Zenon DEF Overlap
<1>18. CASE h = i
  <2>1. contains(e820[h], frame)
    BY <1>3, <1>5, <1>11, <1>12, <1>18 DEF contains
  <2> QED BY <1>15, <2>1, Zenon
<1>19. h < i \/ i < h \/ h = i
  BY <1>10
<1> QED BY <1>15, <1>16, <1>17, <1>18, <1>19, Zenon

(* Every usable frame behind the boot information is offered. *)
LEMMA ForgetsNothing == HandoffInv => NothingForgotten
<1> SUFFICES ASSUME HandoffInv, boot_info # 0, NEW f \in Range(usable_frames(SubSeq(firmware, 1, Len(firmware) - 1))),
                    f > taken[boot_info]
             PROVE  f \in Range(usable_frames(regions))
  BY Zenon DEF NothingForgotten
<1>1. PICK frame : frame = taken[boot_info]
  BY Zenon
<1>2. /\ loader.memory_map # << >> /\ IsFrame(frame) /\ last < frame
      /\ BootMap(regions, e820, frame) /\ last \in LastAddresses
  BY <1>1, InfoState, Zenon DEF HandoffInv
<1>3. StageMap(e820) /\ Len(e820) + 1 = Len(firmware)
  BY <1>2, LoaderState, Zenon
<1>4. SubSeq(firmware, 1, Len(firmware) - 1) = e820
  <2> DEFINE Entries == [start : Nat, size : Nat, typ : E820Types]
  <2> HIDE DEF Entries
  <2>1. firmware \in Seq(Entries) /\ e820 \in Seq(Entries)
    BY MapsAssumption, Zenon DEF HandoffInv, Entries
  <2>2. PICK n \in Nat : n = Len(e820) /\ Len(firmware) - 1 = n
    <3>1. Len(e820) \in Nat /\ Len(firmware) \in Nat
      BY <2>1, LenProperties, Zenon
    <3> QED BY <1>3, <3>1
  <2>3. \A i \in 1 .. n : e820[i] = firmware[i] /\ firmware[i] \in Entries
    BY <2>1, <2>2, ElementOfSeq, Zenon DEF HandoffInv
  <2>4. PICK s : s = SubSeq(firmware, 1, n)
    BY Zenon
  <2>5. 1 \in Int /\ n \in Int
    OBVIOUS
  <2>6. /\ s \in Seq(Entries) /\ Len(s) = (IF 1 <= n THEN n - 1 + 1 ELSE 0)
        /\ \A i \in 1 .. n - 1 + 1 : s[i] = firmware[1 + i - 1]
    BY <2>3, <2>4, <2>5, SubSeqProperties
  <2>7. (IF 1 <= n THEN n - 1 + 1 ELSE 0) = n /\ n - 1 + 1 = n /\ \A i \in 1 .. n : 1 + i - 1 = i
    OBVIOUS
  <2>8. Len(s) = Len(e820) /\ \A i \in 1 .. Len(s) : s[i] = e820[i]
    BY <2>2, <2>3, <2>6, <2>7
  <2>9. s = e820
    BY <2>1, <2>6, <2>8, SeqEqual, Zenon
  <2> QED BY <2>2, <2>4, <2>9, Zenon
<1>5. AlignedMap(e820)
  BY <1>3, StageAligned, Zenon
<1>6. usable_frames(e820) \in Seq(Nat) /\ usable_frames(regions) \in Seq(Nat)
  BY <1>5, FrameLists, UsableFrames, Zenon DEF Listing, ListingOf
<1>7. PICK k \in 1 .. Len(usable_frames(e820)) : usable_frames(e820)[k] = f
  BY <1>4, <1>6, InSet, Zenon
<1>8. frame < usable_frames(e820)[k]
  <2>1. f \in Nat /\ frame \in Nat
    BY <1>2, <1>6, <1>7, ElementOfSeq, Zenon DEF IsFrame
  <2> QED BY <1>1, <1>7, <2>1
<1>9. PICK l \in 1 .. Len(usable_frames(regions)) : usable_frames(regions)[l] = f
  BY <1>2, <1>3, <1>5, <1>7, <1>8, Offered
<1>10. DOMAIN usable_frames(regions) = 1 .. Len(usable_frames(regions))
  BY <1>6, LenProperties, Zenon
<1> QED BY <1>9, <1>10, Zenon DEF Range

(* An address in a region lies below the window's end, with its frame. *)
LEMMA BelowWindow ==
  ASSUME NEW f, IsFrame(f), NEW top \in Nat, f < top, loader.memory_map \in Seq(AnyRegion),
         NEW j \in 1 .. Len(loader.memory_map), top <= End(loader.memory_map[j])
  PROVE  f + FrameSize <= WindowEnd
<1>1. loader.memory_map # << >>
  OBVIOUS
<1>2. PICK m \in Nat : m = max_physical_address(loader) /\ End(loader.memory_map[j]) <= m
  BY <1>1, MaxIs, Zenon
<1>3. End(loader.memory_map[j]) \in Nat
  <2>1. loader.memory_map[j] \in AnyRegion
    BY ElementOfSeq, Zenon
  <2> QED BY <2>1, RegionNumbers, Zenon DEF AnyRegion
<1>4. FrameSize \in Nat \ {0} /\ LargeSize \in Nat \ {0} /\ LargeSize % FrameSize = 0
  BY MapsAssumption
<1>5. PICK c \in Nat : c = containing_address(m, LargeSize) /\ c % LargeSize = 0 /\ m < c + LargeSize
  BY <1>4, ContainingFrame, Zenon
<1>6. WindowEnd = c + LargeSize /\ (c + LargeSize) % LargeSize = 0
  BY <1>2, <1>4, <1>5, NextFrame, Zenon DEF WindowEnd
<1>7. PICK w \in Nat : w = WindowEnd /\ w % LargeSize = 0 /\ m < w
  <2>1. c + LargeSize \in Nat
    BY <1>4
  <2> QED BY <1>5, <1>6, <2>1, Zenon
<1>8. w % FrameSize = 0
  BY <1>4, <1>7, MultipleOfMultiple, Zenon
<1>9. f \in Nat /\ f % FrameSize = 0
  BY Zenon DEF IsFrame
<1>10. f < w
  BY <1>2, <1>3, <1>7, <1>9
<1> QED BY <1>4, <1>7, <1>8, <1>9, <1>10, NextMultiple, Zenon

(* No region of the firmware ends behind all regions of the loader's map. *)
LEMMA LoaderReaches ==
  ASSUME HandoffInv, loader.memory_map # << >>, NEW h \in 1 .. Len(e820)
  PROVE  \E j \in 1 .. Len(loader.memory_map) : End(e820[h]) <= End(loader.memory_map[j])
<1>1. PICK w, i, a : /\ w = loader.memory_map /\ i = StartIndex(next_free_frame, e820)
                     /\ a = next_free_frame
  BY Zenon
<1>2. StageMap(e820) /\ Loading(w, e820, i, a)
  BY <1>1, LoaderState, Zenon
<1>3. w \in Seq(AnyRegion) /\ Len(w) # 0 /\ End(e820[i]) <= End(w[1])
  BY <1>2, LoadingAligned, Zenon DEF AlignedMap
<1>4. PICK n \in Nat, l \in Nat \ {0} : n = Len(e820) /\ l = Len(w) /\ l = n - i + 1 /\ i \in 2 .. n
  <2>1. Len(e820) \in Nat /\ Len(w) \in Nat
    BY <1>3, LenProperties, Zenon DEF HandoffInv
  <2>2. Len(w) \in Nat \ {0}
    BY <1>3, <2>1
  <2> QED BY <1>2, <2>1, <2>2, Zenon DEF Loading
<1>5. 1 \in 1 .. l /\ i \in 1 .. n /\ h \in 1 .. n
  BY <1>4
<1>6. End(e820[h]) \in Nat /\ End(e820[i]) \in Nat /\ e820[i].start \in Nat /\ e820[i].start <= End(e820[i])
  BY <1>2, <1>4, <1>5, Entry, Zenon
<1>7. End(w[1]) \in Nat
  <2>1. w[1] \in AnyRegion
    BY <1>3, <1>4, <1>5, ElementOfSeq, Zenon
  <2> QED BY <2>1, RegionNumbers, Zenon DEF AnyRegion
<1>8. CASE h < i
  <2>1. End(e820[h]) <= e820[i].start
    BY <1>2, <1>4, <1>5, <1>8, Zenon DEF StageMap, FirmwareMap
  <2>2. End(e820[h]) <= End(w[1])
    BY <1>3, <1>6, <1>7, <2>1
  <2> QED BY <1>1, <1>4, <1>5, <2>2, Zenon
<1>9. CASE h = i
  BY <1>1, <1>3, <1>4, <1>5, <1>9, Zenon
<1>10. CASE i < h
  <2>1. PICK k \in 2 .. l : i + k - 1 = h
    <3>1. h - i + 1 \in 2 .. l /\ i + (h - i + 1) - 1 = h
      BY <1>4, <1>5, <1>10
    <3> QED BY <3>1, Zenon
  <2>2. w[k] = e820[h]
    BY <1>2, <1>4, <2>1, Zenon DEF Loading
  <2>3. k \in 1 .. l /\ End(e820[h]) <= End(e820[h])
    BY <1>6
  <2> QED BY <1>1, <1>4, <2>2, <2>3, Zenon
<1>11. h < i \/ h = i \/ i < h
  BY <1>5
<1> QED BY <1>8, <1>9, <1>10, <1>11

(* What the kernel's allocator hands out is in the list of the regions. *)
LEMMA GivenFrames ==
  ASSUME HandoffInv, NEW k \in 1 .. Len(given)
  PROVE  /\ kernel.memory_map = regions /\ boot_info # 0
         /\ k \in 1 .. Len(usable_frames(regions)) /\ given[k] = usable_frames(regions)[k]
<1>1. HandedOut(kernel, given) /\ kernel.memory_map \in {<< >>, regions}
  BY Zenon DEF HandoffInv
<1>2. given \in Seq(Nat) /\ Len(given) \in Nat
  BY <1>1, LenProperties, Zenon DEF HandedOut
<1>3. Len(given) # 0
  BY <1>2
<1>4. kernel.memory_map # << >>
  BY <1>1, <1>3, NothingHandedOut, Zenon
<1>5. kernel.memory_map = regions
  BY <1>1, <1>4
<1>6. boot_info # 0
  BY <1>4, <1>5, InfoState, Zenon
<1>7. Len(given) <= Len(usable_frames(regions)) /\ given[k] = usable_frames(regions)[k]
  BY <1>1, <1>5, Zenon DEF HandedOut
<1>8. Len(usable_frames(regions)) \in Nat
  BY FrameLists, LenProperties, Zenon
<1>9. k \in 1 .. Len(usable_frames(regions))
  BY <1>2, <1>7, <1>8
<1> QED BY <1>5, <1>6, <1>7, <1>9, Zenon

(* The window covers all frames. *)
LEMMA WindowRight == HandoffInv => WindowCoversMemory
<1> SUFFICES ASSUME HandoffInv, NEW f \in Range(taken) \cup Range(given) \cup Range(usable_frames(regions))
             PROVE  f + FrameSize <= WindowEnd
  BY Zenon DEF WindowCoversMemory
<1>1. loader.memory_map \in Seq(AnyRegion) /\ StageMap(e820)
  BY LoaderState, Zenon DEF AlignedMap
<1>2. CASE f \in Range(taken)
  <2>1. PICK k \in 1 .. Len(taken) : taken[k] = f
    BY <1>2, InSet, Zenon DEF HandoffInv, HandedOut
  <2>2. IsFrame(f) /\ \E j \in 1 .. Len(loader.memory_map) : f < End(loader.memory_map[j])
    BY <2>1, TakenFrames, Zenon DEF LoaderFrame
  <2>3. PICK j \in 1 .. Len(loader.memory_map) : f < End(loader.memory_map[j])
    BY <2>2, Zenon
  <2>4. End(loader.memory_map[j]) \in Nat /\ End(loader.memory_map[j]) <= End(loader.memory_map[j])
    <3>1. loader.memory_map[j] \in AnyRegion
      BY <1>1, ElementOfSeq, Zenon
    <3>2. End(loader.memory_map[j]) \in Nat
      BY <3>1, RegionNumbers, Zenon DEF AnyRegion
    <3> QED BY <3>2
  <2> QED BY <1>1, <2>2, <2>3, <2>4, BelowWindow, Zenon
<1>3. ASSUME NEW k \in 1 .. Len(usable_frames(regions)), usable_frames(regions)[k] = f
      PROVE  f + FrameSize <= WindowEnd
  <2>1. boot_info # 0
    <3>1. regions # << >>
      <4>1. 1 .. Len(<< >>) = {}
        OBVIOUS
      <4> QED BY <4>1, NoFrames, Zenon
    <3> QED BY <3>1, InfoState, Zenon
  <2>2. PICK frame : /\ loader.memory_map # << >> /\ IsFrame(frame) /\ BootMap(regions, e820, frame)
    BY <2>1, InfoState, Zenon
  <2>3. IsFrame(f) /\ \E i \in 2 .. Len(e820) : f + FrameSize <= End(e820[i])
    BY <1>1, <1>3, <2>2, FreeFrames, Zenon
  <2>4. PICK i \in 2 .. Len(e820) : f + FrameSize <= End(e820[i])
    BY <2>3, Zenon
  <2>5. i \in 1 .. Len(e820)
    OBVIOUS
  <2>6. PICK j \in 1 .. Len(loader.memory_map) : End(e820[i]) <= End(loader.memory_map[j])
    BY <2>2, <2>5, LoaderReaches, Zenon
  <2>7. End(e820[i]) \in Nat
    BY <1>1, <2>5, Entry, Zenon
  <2>8. f < End(e820[i])
    BY <2>3, <2>4, <2>7, MapsAssumption DEF IsFrame
  <2> QED BY <1>1, <2>3, <2>6, <2>7, <2>8, BelowWindow, Zenon
<1>4. CASE f \in Range(given)
  <2>1. PICK k \in 1 .. Len(given) : given[k] = f
    BY <1>4, InSet, Zenon DEF HandoffInv, HandedOut
  <2> QED BY <1>3, <2>1, GivenFrames, Zenon
<1>5. CASE f \in Range(usable_frames(regions))
  BY <1>3, <1>5, FrameLists, InSet, Zenon
<1> QED BY <1>2, <1>4, <1>5, Zenon

(* The kernel's frames are distinct and usable. *)
LEMMA KernelRight == HandoffInv => KernelFramesDistinct
<1> SUFFICES ASSUME HandoffInv PROVE KernelFramesDistinct
  OBVIOUS
<1>1. given \in Seq(Nat) /\ DOMAIN given = 1 .. Len(given)
  BY LenProperties, Zenon DEF HandoffInv, HandedOut
<1>2. ASSUME NEW k \in 1 .. Len(given), NEW l \in 1 .. Len(given), k < l PROVE given[k] < given[l]
  <2>1. /\ boot_info # 0
        /\ k \in 1 .. Len(usable_frames(regions)) /\ given[k] = usable_frames(regions)[k]
        /\ l \in 1 .. Len(usable_frames(regions)) /\ given[l] = usable_frames(regions)[l]
    BY GivenFrames, Zenon
  <2>2. PICK frame : BootMap(regions, e820, frame)
    BY <2>1, InfoState, Zenon
  <2> QED BY <1>2, <2>1, <2>2, FreeFramesIncrease, Zenon
<1>3. ASSUME NEW k \in 1 .. Len(given), NEW l \in 1 .. Len(given), given[k] = given[l] PROVE k = l
  <2>1. given[k] \in Nat /\ given[l] \in Nat
    BY <1>1, ElementOfSeq, Zenon
  <2>2. ~(given[k] < given[l]) /\ ~(given[l] < given[k])
    BY <1>3, <2>1
  <2>3. ~(k < l) /\ ~(l < k)
    BY <1>2, <2>2, Zenon
  <2> QED BY <2>3
<1>4. IsInjective(given)
  BY <1>1, <1>3, Zenon DEF IsInjective
<1>5. ASSUME NEW f \in Range(given) PROVE InUsable(f)
  <2>1. PICK k \in 1 .. Len(given) : given[k] = f
    BY <1>1, InSet, Zenon
  <2>2. boot_info # 0 /\ k \in 1 .. Len(usable_frames(regions)) /\ f = usable_frames(regions)[k]
    BY <2>1, GivenFrames, Zenon
  <2>3. PICK frame : IsFrame(frame) /\ BootMap(regions, e820, frame) /\ StageMap(e820)
    BY <2>2, InfoState, LoaderState, Zenon
  <2>4. PICK i \in 2 .. Len(e820) :
          is_usable(e820[i]) /\ e820[i].start <= f /\ f + FrameSize <= End(e820[i])
    BY <2>2, <2>3, FreeFrames, Zenon
  <2>5. i \in 1 .. Len(e820)
    OBVIOUS
  <2> QED BY <2>4, <2>5, Zenon DEF InUsable
<1> QED BY <1>4, <1>5, Zenon DEF KernelFramesDistinct

(* The state of the boot has its types, and the map of the boot            *)
(* information leaves an entry of its array free.                          *)
THEOREM HandoffTypes == Spec => []TypeOK
BY HandoffInvariant, TypesRight, PTL

(* Stage 4's allocator hands out distinct, usable frames behind everything *)
(* that was loaded, as long as the kernel's region is not used up.         *)
THEOREM LoaderFramesAreUnused == Spec => []LoaderFramesUnusedInRegion
BY HandoffInvariant, LoaderRight, PTL

(* build_memory_map calls nothing free that stage 4 had in use, as long as *)
(* the kernel's region is not used up.                                     *)
THEOREM FreeMeansUnused == Spec => []FreeIsUnusedInRegion
BY HandoffInvariant, FreeRight, PTL

(* build_memory_map offers the kernel every usable frame behind the boot   *)
(* information that stage 2 passed on.                                     *)
THEOREM AllMemoryOffered == Spec => []NothingForgotten
BY HandoffInvariant, ForgetsNothing, PTL

(* The mapping of physical memory covers every frame that stage 4 took or  *)
(* that the kernel's allocator hands out.                                  *)
THEOREM WindowCoversAll == Spec => []WindowCoversMemory
BY HandoffInvariant, WindowRight, PTL

(* The kernel's allocator hands out distinct, usable frames. *)
THEOREM KernelFramesAreDistinct == Spec => []KernelFramesDistinct
BY HandoffInvariant, KernelRight, PTL
=============================================================================
