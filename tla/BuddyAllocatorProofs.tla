------------------------ MODULE BuddyAllocatorProofs ------------------------
(***************************************************************************)
(* Proofs about BuddyAllocator, for every number of classes, heap and set  *)
(* of layouts: chunks and blocks are apart, and the allocator implements   *)
(* the contract of a heap.                                                 *)
(***************************************************************************)
EXTENDS BuddyAllocator, WellFoundedInduction, TLAPS

-----------------------------------------------------------------------------
(* Induction over the natural numbers, about sets of numbers, which stand  *)
(* for the predicates.                                                     *)

Less == {pair \in Nat \X Nat : pair[1] < pair[2]}

(* Every set of natural numbers has a least element. *)
LEMMA LeastNumber ==
  ASSUME NEW T, T \subseteq Nat, T # {}
  PROVE  \E x \in T : \A y \in T : x <= y
<1>1. IsWellFoundedOn(Less, Nat)
  BY NatLessThanWellFounded DEF OpToRel, Less
<1>2. PICK x \in T : \A y \in T : <<y, x>> \notin Less
  BY <1>1, WFMin, Zenon
<1>3. \A y \in T : ~(y < x)
  BY <1>2, Zenon DEF Less
<1> QED BY <1>3

(* A set with 0 in it and the successor of each of its numbers has all. *)
LEMMA SetInduction ==
  ASSUME NEW S, 0 \in S, \A n \in Nat : n \in S => n + 1 \in S
  PROVE  \A n \in Nat : n \in S
<1> SUFFICES ASSUME {n \in Nat : n \notin S} # {} PROVE FALSE
  OBVIOUS
<1>1. PICK x \in {n \in Nat : n \notin S} : \A y \in {n \in Nat : n \notin S} : x <= y
  BY LeastNumber, Zenon
<1>2. x # 0 /\ x - 1 \in Nat
  BY <1>1
<1>3. x - 1 \in S
  BY <1>1, <1>2
<1>4. x - 1 + 1 = x
  BY <1>1
<1> QED BY <1>1, <1>2, <1>3, <1>4

-----------------------------------------------------------------------------
(* Sequences. *)

(* A sequence is a function on the numbers up to its length. *)
LEMMA LenProperties ==
  ASSUME NEW S, NEW s \in Seq(S)
  PROVE  Len(s) \in Nat /\ DOMAIN s = 1 .. Len(s) /\ s \in [1 .. Len(s) -> S]
OBVIOUS

(* The elements of a sequence. *)
LEMMA ElementOfSeq ==
  ASSUME NEW S, NEW s \in Seq(S), NEW i \in 1 .. Len(s)
  PROVE  s[i] \in S
OBVIOUS

(* The empty sequence, and the others. *)
LEMMA EmptySeq ==
  ASSUME NEW S
  PROVE  /\ << >> \in Seq(S) /\ Len(<< >>) = 0
         /\ \A s \in Seq(S) : s # << >> => Len(s) \in Nat \ {0}
OBVIOUS

(* Sequences of one length with the same elements are equal. *)
LEMMA SeqEqual ==
  ASSUME NEW S, NEW s \in Seq(S), NEW t \in Seq(S),
         Len(s) = Len(t), \A i \in 1 .. Len(s) : s[i] = t[i]
  PROVE  s = t
OBVIOUS

(* The elements of a sequence as a set. *)
LEMMA RangeEquality ==
  ASSUME NEW S, NEW s \in Seq(S)
  PROVE  Range(s) = {s[i] : i \in 1 .. Len(s)}
BY DEF Range

(* The elements of a sequence as a set. *)
LEMMA RangeOfSeq ==
  ASSUME NEW S, NEW s \in Seq(S)
  PROVE  Range(s) \in SUBSET S
BY DEF Range

(* One element more. *)
LEMMA AppendProperties ==
  ASSUME NEW S, NEW s \in Seq(S), NEW x \in S
  PROVE  /\ Append(s, x) \in Seq(S) /\ Append(s, x) # << >>
         /\ Len(Append(s, x)) = Len(s) + 1
         /\ \A i \in 1 .. Len(s) : Append(s, x)[i] = s[i]
         /\ Append(s, x)[Len(s) + 1] = x
OBVIOUS

(* One sequence behind another. *)
LEMMA ConcatProperties ==
  ASSUME NEW S, NEW s \in Seq(S), NEW t \in Seq(S)
  PROVE  /\ s \o t \in Seq(S) /\ Len(s \o t) = Len(s) + Len(t)
         /\ \A i \in 1 .. Len(s) + Len(t) :
              (s \o t)[i] = IF i <= Len(s) THEN s[i] ELSE t[i - Len(s)]
OBVIOUS

(* A part of a sequence. *)
LEMMA SubSeqProperties ==
  ASSUME NEW S, NEW s, NEW m \in Int, NEW n \in Int, \A i \in m .. n : s[i] \in S
  PROVE  /\ SubSeq(s, m, n) \in Seq(S)
         /\ Len(SubSeq(s, m, n)) = IF m <= n THEN n - m + 1 ELSE 0
         /\ \A i \in 1 .. n - m + 1 : SubSeq(s, m, n)[i] = s[m + i - 1]
OBVIOUS

(* The first element and the others. *)
LEMMA HeadTailProperties ==
  ASSUME NEW S, NEW s \in Seq(S), s # << >>
  PROVE  /\ Head(s) \in S /\ Tail(s) \in Seq(S) /\ Len(Tail(s)) = Len(s) - 1
         /\ \A i \in 1 .. Len(Tail(s)) : Tail(s)[i] = s[i + 1]
OBVIOUS

-----------------------------------------------------------------------------
(* The free lists as sets. *)

(* push_front adds one chunk in front. *)
LEMMA PushFront ==
  ASSUME NEW s \in Seq(Nat), NEW a \in Nat
  PROVE  /\ push_front(s, a) \in Seq(Nat)
         /\ push_front(s, a) # << >>
         /\ Head(push_front(s, a)) = a
         /\ Range(push_front(s, a)) = Range(s) \cup {a}
         /\ IsInjective(s) /\ a \notin Range(s) => IsInjective(push_front(s, a))
<1> DEFINE t == push_front(s, a)
<1>0. Len(s) \in Nat
  BY LenProperties
<1>1. <<a>> \in Seq(Nat) /\ Len(<<a>>) = 1 /\ <<a>>[1] = a
  OBVIOUS
<1>2. /\ t \in Seq(Nat)
      /\ Len(t) = Len(s) + 1
      /\ \A i \in 1 .. Len(s) + 1 : t[i] = IF i = 1 THEN a ELSE s[i - 1]
  BY <1>1, ConcatProperties DEF push_front
<1> HIDE DEF t
<1>3. Range(s) = {s[i] : i \in 1 .. Len(s)} /\ Range(t) = {t[i] : i \in 1 .. Len(t)}
  BY <1>2, RangeEquality
<1>4. Range(t) = Range(s) \cup {a}
  <2>1. ASSUME NEW x \in Range(t) PROVE x \in Range(s) \cup {a}
    <3>1. PICK i \in 1 .. Len(s) + 1 : x = t[i]
      BY <1>2, <1>3
    <3>2. CASE i = 1
      BY <1>2, <3>1, <3>2
    <3>3. CASE i # 1
      <4>1. i - 1 \in 1 .. Len(s) /\ x = s[i - 1]
        BY <1>0, <1>2, <3>1, <3>3
      <4> QED BY <1>3, <4>1
    <3> QED BY <3>2, <3>3
  <2>2. a \in Range(t)
    BY <1>2, <1>3
  <2>3. ASSUME NEW x \in Range(s) PROVE x \in Range(t)
    <3>1. PICK i \in 1 .. Len(s) : x = s[i]
      BY <1>3, <2>3
    <3>2. i + 1 \in 1 .. Len(t) /\ t[i + 1] = x
      BY <1>2, <3>1
    <3> QED BY <1>3, <3>2
  <2> QED BY <2>1, <2>2, <2>3, Zenon
<1>5. t # << >> /\ Head(t) = a
  BY <1>2
<1>6. ASSUME IsInjective(s), a \notin Range(s) PROVE IsInjective(t)
  <2>1. \A i, j \in 1 .. Len(s) : s[i] = s[j] => i = j
    BY <1>6 DEF IsInjective
  <2>2. \A i \in 1 .. Len(s) : s[i] # a
    BY <1>3, <1>6
  <2>3. DOMAIN t = 1 .. Len(s) + 1
    BY <1>2, LenProperties
  <2> SUFFICES ASSUME NEW i \in 1 .. Len(s) + 1, NEW j \in 1 .. Len(s) + 1, t[i] = t[j]
               PROVE  i = j
    BY <2>3 DEF IsInjective
  <2>6. ASSUME NEW n \in 1 .. Len(s) + 1, n # 1
        PROVE  n - 1 \in 1 .. Len(s) /\ t[n] = s[n - 1]
    <3>1. n - 1 \in 1 .. Len(s)
      BY <1>0, <2>6
    <3>2. n - 1 + 1 = n
      BY <1>0
    <3>3. t[n - 1 + 1] = s[n - 1]
      BY <1>2, <3>1
    <3> QED BY <3>1, <3>2, <3>3
  <2>4. CASE i = 1 \/ j = 1
    <3>1. ASSUME NEW n \in 1 .. Len(s) + 1, n # 1 PROVE t[n] # a
      BY <2>2, <2>6, <3>1, Zenon
    <3>2. t[1] = a
      BY <1>0, <1>2
    <3> QED BY <2>4, <3>1, <3>2
  <2>5. CASE i # 1 /\ j # 1
    <3>1. i - 1 \in 1 .. Len(s) /\ j - 1 \in 1 .. Len(s) /\ s[i - 1] = s[j - 1]
      BY <2>5, <2>6
    <3> QED BY <2>1, <3>1
  <2> QED BY <2>4, <2>5
<1> QED BY <1>2, <1>4, <1>5, <1>6 DEF t

(* pop_front takes the first chunk off a list without repetitions. *)
LEMMA PopFront ==
  ASSUME NEW s \in Seq(Nat), s # << >>, IsInjective(s)
  PROVE  /\ Tail(s) \in Seq(Nat)
         /\ Head(s) \in Nat
         /\ Head(s) \in Range(s)
         /\ Range(Tail(s)) = Range(s) \ {Head(s)}
         /\ IsInjective(Tail(s))
<1>1. /\ Tail(s) \in Seq(Nat)
      /\ Len(s) \in Nat \ {0}
      /\ Len(Tail(s)) = Len(s) - 1
      /\ \A i \in 1 .. Len(Tail(s)) : Tail(s)[i] = s[i + 1]
      /\ Head(s) = s[1]
  BY HeadTailProperties, EmptySeq
<1>2. /\ Range(s) = {s[i] : i \in 1 .. Len(s)}
      /\ Range(Tail(s)) = {Tail(s)[i] : i \in 1 .. Len(Tail(s))}
  BY <1>1, RangeEquality, ZenonT(40)
<1>3. \A i, j \in 1 .. Len(s) : s[i] = s[j] => i = j
  BY DEF IsInjective
<1>4. Range(Tail(s)) = Range(s) \ {Head(s)}
  <2>1. ASSUME NEW x \in Range(Tail(s)) PROVE x \in Range(s) \ {Head(s)}
    <3>1. PICK i \in 1 .. Len(s) - 1 : x = s[i + 1]
      BY <1>1, <1>2
    <3> QED BY <1>1, <1>2, <1>3, <3>1
  <2>2. ASSUME NEW x \in Range(s), x # Head(s) PROVE x \in Range(Tail(s))
    <3>1. PICK i \in 1 .. Len(s) : x = s[i] /\ i # 1
      BY <1>1, <1>2, <2>2
    <3>2. i - 1 \in 1 .. Len(Tail(s)) /\ i - 1 + 1 = i
      BY <1>1, <3>1
    <3>3. Tail(s)[i - 1] = s[i - 1 + 1]
      BY <1>1, <3>2
    <3>4. Tail(s)[i - 1] = x
      BY <3>1, <3>2, <3>3
    <3> QED BY <1>2, <3>2, <3>4, Zenon
  <2> QED BY <2>1, <2>2
<1>5. IsInjective(Tail(s))
  <2>1. DOMAIN Tail(s) = 1 .. Len(Tail(s))
    BY <1>1, LenProperties
  <2> SUFFICES ASSUME NEW i \in 1 .. Len(Tail(s)), NEW j \in 1 .. Len(Tail(s)),
                      Tail(s)[i] = Tail(s)[j]
               PROVE  i = j
    BY <2>1, SMTT(30) DEF IsInjective
  <2>2. i + 1 \in 1 .. Len(s) /\ j + 1 \in 1 .. Len(s)
    BY <1>1
  <2>3. s[i + 1] = s[j + 1]
    BY <1>1
  <2>4. i + 1 = j + 1
    BY <1>3, <2>2, <2>3
  <2> QED BY <1>1, <2>4
<1> QED BY <1>1, <1>2, <1>4, <1>5

(* remove unlinks exactly the chunk it found. *)
LEMMA RemoveOne ==
  ASSUME NEW s \in Seq(Nat), IsInjective(s), NEW i \in 1 .. Len(s)
  PROVE  /\ WithoutIndex(s, i) \in Seq(Nat)
         /\ Range(WithoutIndex(s, i)) = Range(s) \ {s[i]}
         /\ IsInjective(WithoutIndex(s, i))
<1> DEFINE p == SubSeq(s, 1, i - 1)
           q == SubSeq(s, i + 1, Len(s))
           t == WithoutIndex(s, i)
<1>1. Len(s) \in Nat /\ \A j \in 1 .. Len(s) : s[j] \in Nat
  BY LenProperties, ElementOfSeq
<1>2. /\ p \in Seq(Nat) /\ Len(p) = i - 1
      /\ \A j \in 1 .. i - 1 : p[j] = s[j]
  BY <1>1, SubSeqProperties
<1>3. /\ q \in Seq(Nat) /\ Len(q) = Len(s) - i
      /\ \A j \in 1 .. Len(s) - i : q[j] = s[i + j]
  BY <1>1, SubSeqProperties
<1>4. /\ t \in Seq(Nat) /\ Len(t) = Len(s) - 1
      /\ \A j \in 1 .. i - 1 : t[j] = s[j]
      /\ \A j \in i .. Len(s) - 1 : t[j] = s[j + 1]
  <2> t = p \o q
    BY DEF WithoutIndex
  <2> HIDE DEF p, q, t
  <2>1. /\ t \in Seq(Nat) /\ Len(t) = Len(p) + Len(q)
        /\ \A j \in 1 .. Len(p) + Len(q) :
             t[j] = IF j <= Len(p) THEN p[j] ELSE q[j - Len(p)]
    BY <1>2, <1>3, ConcatProperties, Zenon
  <2>2. ASSUME NEW j \in 1 .. i - 1 PROVE t[j] = s[j]
    BY <1>1, <1>2, <1>3, <2>1
  <2>3. ASSUME NEW j \in i .. Len(s) - 1 PROVE t[j] = s[j + 1]
    <3>1. j \in 1 .. Len(p) + Len(q) /\ ~(j <= Len(p)) /\ j - Len(p) \in 1 .. Len(s) - i
      BY <1>1, <1>2, <1>3
    <3>2. t[j] = q[j - Len(p)] /\ q[j - Len(p)] = s[i + (j - Len(p))]
      BY <1>3, <2>1, <3>1, Zenon
    <3>3. i + (j - Len(p)) = j + 1
      BY <1>1, <1>2
    <3> QED BY <3>2, <3>3
  <2>4. Len(t) = Len(s) - 1
    BY <1>1, <1>2, <1>3, <2>1
  <2> QED BY <2>1, <2>2, <2>3, <2>4, Zenon
<1> HIDE DEF t
<1>5. /\ Range(s) = {s[j] : j \in 1 .. Len(s)}
      /\ Range(t) = {t[j] : j \in 1 .. Len(t)}
  BY <1>4, RangeEquality
<1>6. \A j, k \in 1 .. Len(s) : s[j] = s[k] => j = k
  BY DEF IsInjective
<1>7. Range(t) = Range(s) \ {s[i]}
  <2>1. ASSUME NEW x \in Range(t) PROVE x \in Range(s) \ {s[i]}
    <3>1. PICK j \in 1 .. Len(s) - 1 : x = t[j]
      BY <1>4, <1>5
    <3>2. PICK k \in 1 .. Len(s) : k # i /\ x = s[k]
      <4>1. CASE j < i
        <5>1. j \in 1 .. Len(s) /\ j # i /\ x = s[j]
          BY <1>1, <1>4, <3>1, <4>1, SMTT(30)
        <5> QED BY <5>1
      <4>2. CASE j >= i
        <5>1. j + 1 \in 1 .. Len(s) /\ j + 1 # i /\ x = s[j + 1]
          BY <1>1, <1>4, <3>1, <4>2
        <5> QED BY <5>1
      <4> QED BY <4>1, <4>2
    <3> QED BY <1>5, <1>6, <3>2
  <2>2. ASSUME NEW x \in Range(s), x # s[i] PROVE x \in Range(t)
    <3>1. PICK j \in 1 .. Len(s) : x = s[j] /\ j # i
      BY <1>5, <2>2
    <3>2. CASE j < i
      <4>1. j \in 1 .. Len(t) /\ t[j] = x
        BY <1>1, <1>4, <3>1, <3>2
      <4> QED BY <1>5, <4>1
    <3>3. CASE j > i
      <4>1. j - 1 \in 1 .. Len(t) /\ t[j - 1] = x
        BY <1>1, <1>4, <3>1, <3>3
      <4> QED BY <1>5, <4>1
    <3> QED BY <3>1, <3>2, <3>3
  <2> QED BY <2>1, <2>2
<1>8. IsInjective(t)
  <2>1. DOMAIN t = 1 .. Len(s) - 1
    BY <1>4, LenProperties
  <2> SUFFICES ASSUME NEW j \in 1 .. Len(s) - 1, NEW k \in 1 .. Len(s) - 1, t[j] = t[k]
               PROVE  j = k
    BY <2>1 DEF IsInjective
  <2>2. /\ j \in 1 .. Len(s) /\ j + 1 \in 1 .. Len(s)
        /\ k \in 1 .. Len(s) /\ k + 1 \in 1 .. Len(s)
    BY <1>1
  <2>7. \A n \in 1 .. Len(s) - 1 : n < i => t[n] = s[n]
    BY <1>1, <1>4
  <2>8. \A n \in 1 .. Len(s) - 1 : n >= i => t[n] = s[n + 1]
    BY <1>1, <1>4
  <2>3. CASE j < i /\ k < i
    <3>1. s[j] = s[k]
      BY <2>7, <2>3
    <3> QED BY <1>6, <2>2, <3>1
  <2>4. CASE j < i /\ k >= i
    <3>1. s[j] = s[k + 1]
      BY <2>7, <2>8, <2>4
    <3>2. j = k + 1
      BY <1>6, <2>2, <3>1
    <3> QED BY <2>4, <3>2
  <2>5. CASE j >= i /\ k < i
    <3>1. s[j + 1] = s[k]
      BY <2>7, <2>8, <2>5
    <3>2. j + 1 = k
      BY <1>6, <2>2, <3>1
    <3> QED BY <2>5, <3>2
  <2>6. CASE j >= i /\ k >= i
    <3>1. s[j + 1] = s[k + 1]
      BY <2>8, <2>6
    <3>2. j + 1 = k + 1
      BY <1>6, <2>2, <3>1
    <3> QED BY <3>2
  <2> QED BY <2>3, <2>4, <2>5, <2>6
<1> QED BY <1>4, <1>7, <1>8 DEF t

-----------------------------------------------------------------------------
(* Alignment. *)

(* A multiple of c is c times its quotient, and every product is a multiple. *)
LEMMA Quotient ==
  ASSUME NEW a \in Nat, NEW c \in Nat \ {0}, a % c = 0
  PROVE  a \div c \in Nat /\ a = (a \div c) * c
<1>1. a \div c \in Nat
  OBVIOUS
<1>2. a = c * (a \div c)
  OBVIOUS
<1>3. c * (a \div c) = (a \div c) * c
  BY <1>1
<1> QED BY <1>1, <1>2, <1>3

(* Every product is a multiple of its factors. *)
LEMMA Multiple ==
  ASSUME NEW q \in Nat, NEW c \in Nat \ {0}
  PROVE  (q * c) % c = 0
OBVIOUS

(* Both halves of an aligned chunk are aligned. *)
LEMMA HalvesAligned ==
  ASSUME NEW a \in Nat, NEW c \in Nat \ {0}, a % (2 * c) = 0
  PROVE  a % c = 0 /\ (a + c) % c = 0
<1>1. PICK q \in Nat : a = q * (2 * c)
  <2> 2 * c \in Nat \ {0}
    OBVIOUS
  <2> QED BY Quotient, Zenon
<1>2. a = (2 * q) * c /\ a + c = (2 * q + 1) * c
  BY <1>1
<1>3. 2 * q \in Nat /\ 2 * q + 1 \in Nat
  OBVIOUS
<1> QED BY <1>2, <1>3, Multiple

(* A chunk and its buddy merge into an aligned chunk of twice the size. *)
LEMMA MergedAligned ==
  ASSUME NEW a \in Nat, NEW c \in Nat \ {0}, a % c = 0
  PROVE  /\ (a \div c) % 2 = 0 => a % (2 * c) = 0
         /\ (a \div c) % 2 # 0 => a >= c /\ (a - c) % (2 * c) = 0
<1> DEFINE q == a \div c
<1>1. q \in Nat /\ a = q * c
  BY Quotient
<1> HIDE DEF q
<1>2. 2 * c \in Nat \ {0}
  OBVIOUS
<1>3. ASSUME q % 2 = 0 PROVE a % (2 * c) = 0
  <2>1. PICK h \in Nat : q = 2 * h
    BY <1>1, <1>3
  <2>2. a = h * (2 * c)
    BY <1>1, <2>1
  <2> QED BY <1>2, <2>2, Multiple, ZenonT(40)
<1>4. ASSUME q % 2 # 0 PROVE a >= c /\ (a - c) % (2 * c) = 0
  <2>1. PICK h \in Nat : q = 2 * h + 1
    BY <1>1, <1>4
  <2>2. a = h * (2 * c) + c /\ h * (2 * c) \in Nat
    BY <1>1, <2>1
  <2>3. a - c = h * (2 * c) /\ a >= c
    BY <2>2
  <2> QED BY <1>2, <2>3, Multiple, ZenonT(40)
<1> QED BY <1>3, <1>4 DEF q

(* Alignment to a multiple of d is alignment to d. *)
LEMMA AlignedTo ==
  ASSUME NEW a \in Nat, NEW c \in Nat \ {0}, NEW d \in Nat \ {0},
         a % c = 0, c % d = 0
  PROVE  a % d = 0
<1>1. PICK q \in Nat : a = q * c
  BY Quotient, Zenon
<1>2. PICK r \in Nat : c = r * d
  BY Quotient, Zenon
<1>3. a = (q * r) * d /\ q * r \in Nat
  BY <1>1, <1>2
<1> QED BY <1>3, Multiple, Zenon

(* Two multiples of c less than c apart are the same. *)
LEMMA SameMultiple ==
  ASSUME NEW a \in Nat, NEW b \in Nat, NEW c \in Nat \ {0},
         a % c = 0, b % c = 0, a <= b, b < a + c
  PROVE  a = b
<1>1. PICK p \in Nat : a = p * c
  BY Quotient, Zenon
<1>2. PICK q \in Nat : b = q * c
  BY Quotient, Zenon
<1>3. q * c < (p + 1) * c
  BY <1>1, <1>2
<1>4. ASSUME q >= p + 1 PROVE FALSE
  <2>1. PICK d \in Nat : q = p + 1 + d
    BY <1>4
  <2>2. q * c = (p + 1) * c + d * c /\ d * c \in Nat /\ (p + 1) * c \in Nat
    BY <2>1
  <2> QED BY <1>3, <2>2
<1>5. ASSUME p >= q + 1 PROVE FALSE
  <2>1. PICK d \in Nat : p = q + 1 + d
    BY <1>5
  <2>2. p * c = q * c + c + d * c /\ d * c \in Nat /\ q * c \in Nat
    BY <2>1
  <2> QED BY <1>1, <1>2, <2>2
<1> QED BY <1>1, <1>2, <1>4, <1>5

(* Sums and differences of multiples are multiples. *)
LEMMA SumMultiple ==
  ASSUME NEW a \in Nat, NEW b \in Nat, NEW c \in Nat \ {0}, a % c = 0, b % c = 0
  PROVE  (a + b) % c = 0
<1>1. PICK p \in Nat : a = p * c
  BY Quotient, Zenon
<1>2. PICK q \in Nat : b = q * c
  BY Quotient, Zenon
<1>3. a + b = (p + q) * c /\ p + q \in Nat
  BY <1>1, <1>2
<1> QED BY <1>3, Multiple, Zenon

-----------------------------------------------------------------------------
(* Size classes. *)

(* Chunk sizes are positive and double from class to class. *)
LEMMA Sizes ==
  /\ \A k \in 0 .. MAX_ORDER : ClassSize[k] \in Nat \ {0}
  /\ \A k \in Classes : k \in 0 .. MAX_ORDER /\ k \in Nat /\ k + 1 \in 0 .. MAX_ORDER
  /\ \A k \in Classes : ClassSize[k + 1] = 2 * ClassSize[k]
BY OrderAssumption, SizeAssumption DEF Classes

(* A layout has at most one size class. *)
LEMMA SizeClassUnique ==
  ASSUME NEW l, NEW k \in Classes, NEW m \in Classes,
         IsSizeClass(l, k), IsSizeClass(l, m)
  PROVE  k = m
<1>1. k \in Nat /\ m \in Nat
  BY Sizes
<1>2. ~(k < m) /\ ~(m < k)
  BY <1>1 DEF IsSizeClass
<1> QED BY <1>1, <1>2

(* Sizes and alignments of layouts are numbers. *)
LEMMA LayoutFacts == \A l \in Layouts : l.size \in Nat /\ l.align \in Nat \ {0}
BY LayoutAssumption

(* Class sizes divide the larger ones. *)
LEMMA SizesDivide ==
  ASSUME NEW k \in 0 .. MAX_ORDER, NEW m \in 0 .. MAX_ORDER, k <= m
  PROVE  ClassSize[m] % ClassSize[k] = 0
<1> DEFINE S == {d \in Nat : k + d <= MAX_ORDER => ClassSize[k + d] % ClassSize[k] = 0}
<1>1. MAX_ORDER \in Nat /\ k \in Nat /\ \A j \in 0 .. MAX_ORDER : ClassSize[j] \in Nat \ {0}
  BY OrderAssumption, Sizes
<1>2. 0 \in S
  <2>1. ClassSize[k + 0] = 1 * ClassSize[k]
    BY <1>1
  <2>2. ClassSize[k + 0] % ClassSize[k] = 0
    BY <1>1, <2>1, Multiple
  <2> QED BY <2>2
<1>3. ASSUME NEW d \in Nat, d \in S PROVE d + 1 \in S
  <2> SUFFICES ASSUME k + (d + 1) <= MAX_ORDER PROVE ClassSize[k + (d + 1)] % ClassSize[k] = 0
    OBVIOUS
  <2>1. k + d \in Classes /\ k + (d + 1) = k + d + 1
    BY <1>1 DEF Classes
  <2>2. ClassSize[k + (d + 1)] = ClassSize[k + d] + ClassSize[k + d]
    BY <1>1, <2>1, Sizes
  <2>3. ClassSize[k + d] % ClassSize[k] = 0
    BY <1>1, <1>3, <2>1
  <2>4. ClassSize[k + d] \in Nat
    BY <2>1, Sizes
  <2> QED BY <1>1, <2>2, <2>3, <2>4, SumMultiple
<1> HIDE DEF S
<1>4. \A d \in Nat : d \in S
  BY <1>2, <1>3, SetInduction
<1>5. m - k \in Nat /\ k + (m - k) = m /\ m <= MAX_ORDER
  BY <1>1
<1> QED BY <1>4, <1>5 DEF S

(* Larger classes have larger chunks. *)
LEMMA SizesGrow ==
  ASSUME NEW k \in 0 .. MAX_ORDER, NEW m \in 0 .. MAX_ORDER, k <= m
  PROVE  ClassSize[k] <= ClassSize[m]
<1>1. PICK c \in Nat \ {0}, d \in Nat \ {0} : c = ClassSize[k] /\ d = ClassSize[m]
  BY Sizes
<1>2. PICK q \in Nat : d = q * c
  BY <1>1, SizesDivide, Quotient, Zenon
<1>3. PICK p \in Nat : q = p + 1
  <2>1. q # 0
    BY <1>1, <1>2
  <2>2. q - 1 \in Nat /\ q = (q - 1) + 1
    BY <2>1
  <2> QED BY <2>2
<1>4. d = p * c + c /\ p * c \in Nat
  BY <1>2, <1>3
<1> QED BY <1>1, <1>4

-----------------------------------------------------------------------------
(* The actions that leave the free lists and the blocks alone. *)

(* The empty allocator satisfies the inductive invariant. *)
LEMMA InitSafety == Init => SafetyInv
<1> SUFFICES ASSUME Init PROVE SafetyInv
  OBVIOUS
<1>1. \A k \in Classes : buddies[k] = << >> /\ Free(k) = {}
  BY DEF Init, Free, Range
<1>2. TypeOK
  BY OrderAssumption, HeapAssumption DEF Init, TypeOK, Classes
<1>3. ListsDistinct
  BY <1>1 DEF ListsDistinct, IsInjective
<1>4. AddingRegion
  BY <1>1, HeapAssumption DEF Init, AddingRegion, HeapEnd
<1> QED
  BY <1>1, <1>2, <1>3, <1>4
  DEF Init, SafetyInv, FreeChunksApart, BlocksApart, ChunksPlaced, Splitting, Merging

(* The chunks and blocks stay where they are; only the loop state changes. *)
LEMMA SameChunks ==
  ASSUME SafetyInv, UNCHANGED <<buddies, allocated>>
  PROVE  /\ \A k \in Classes : Free(k)' = Free(k)
         /\ ListsDistinct' /\ FreeChunksApart' /\ BlocksApart' /\ ChunksPlaced'
<1>1. \A k \in Classes : Free(k)' = Free(k)
  BY DEF Free
<1>2. ListsDistinct'
  BY DEF SafetyInv, ListsDistinct
<1>3. FreeChunksApart'
  BY <1>1 DEF SafetyInv, FreeChunksApart
<1>4. BlocksApart'
  BY <1>1 DEF SafetyInv, BlocksApart, ApartFromFree, ApartFromBlocks
<1>5. ChunksPlaced'
  BY <1>1 DEF SafetyInv, ChunksPlaced
<1> QED BY <1>1, <1>2, <1>3, <1>4, <1>5

(* The steps that only move the program counter keep the invariant. *)
LEMMA QuietStepsSafety ==
  ASSUME SafetyInv,
         \/ init_done \/ merge_past_end \/ panic \/ UNCHANGED vars
         \/ \E l \in Layouts : alloc(l) \/ alloc_none(l) \/ alloc_too_large(l)
  PROVE  SafetyInv'
<1>1. UNCHANGED <<buddies, allocated>>
  BY DEF init_done, merge_past_end, panic, vars, alloc, alloc_none, alloc_too_large
<1>2. /\ \A k \in Classes : Free(k)' = Free(k)
      /\ ListsDistinct' /\ FreeChunksApart' /\ BlocksApart' /\ ChunksPlaced'
  BY <1>1, SameChunks
<1>3. CASE init_done \/ merge_past_end
  BY <1>1, <1>2, <1>3
  DEF init_done, merge_past_end, SafetyInv, TypeOK, AddingRegion, Splitting, Merging
<1>4. CASE panic \/ UNCHANGED vars
  <2>1. UNCHANGED vars
    BY <1>4 DEF panic
  <2> QED
    BY <1>2, <2>1
    DEF vars, SafetyInv, TypeOK, AddingRegion, Splitting, Merging, ApartFromFree,
        ApartFromBlocks
<1>5. ASSUME NEW l \in Layouts, alloc(l) PROVE SafetyInv'
  <2>1. TypeOK'
    BY <1>1, <1>5, OrderAssumption DEF alloc, SafetyInv, TypeOK, Classes
  <2>2. Splitting'
    BY <1>1, <1>5, OrderAssumption DEF alloc, Splitting, Classes
  <2> QED
    BY <1>2, <1>5, <2>1, <2>2 DEF alloc, SafetyInv, AddingRegion, Merging
<1>6. ASSUME NEW l \in Layouts, alloc_none(l) \/ alloc_too_large(l) PROVE SafetyInv'
  <2>1. TypeOK'
    BY <1>1, <1>6 DEF alloc_none, alloc_too_large, SafetyInv, TypeOK, PanicStates
  <2> QED
    BY <1>2, <1>6, <2>1
    DEF alloc_none, alloc_too_large, SafetyInv, AddingRegion, Splitting, Merging
<1> QED BY <1>3, <1>4, <1>5, <1>6

-----------------------------------------------------------------------------
(* The actions that move chunks. *)

(* The lists after chunk (a, k) is pushed, as sets. *)
LEMMA PushedLists ==
  ASSUME SafetyInv, NEW k \in Classes, NEW a \in Nat, a \notin Free(k),
         buddies' = [buddies EXCEPT ![k] = push_front(@, a)]
  PROVE  /\ buddies' \in [Classes -> Seq(Nat)]
         /\ Free(k)' = Free(k) \cup {a}
         /\ \A m \in Classes \ {k} : Free(m)' = Free(m)
         /\ ListsDistinct'
<1>1. buddies \in [Classes -> Seq(Nat)] /\ \A m \in Classes : IsInjective(buddies[m])
  BY DEF SafetyInv, TypeOK, ListsDistinct
<1>2. buddies'[k] = push_front(buddies[k], a) /\ \A m \in Classes \ {k} : buddies'[m] = buddies[m]
  BY <1>1
<1>3. /\ buddies'[k] \in Seq(Nat)
      /\ Range(buddies'[k]) = Range(buddies[k]) \cup {a}
      /\ IsInjective(buddies'[k])
  BY <1>1, <1>2, PushFront, Zenon DEF Free
<1> QED BY <1>1, <1>2, <1>3 DEF Free, ListsDistinct

(* Adding a chunk of the region to its list keeps the invariant. *)
LEMMA AddRegionSafety ==
  ASSUME SafetyInv, add_region
  PROVE  SafetyInv'
<1>1. PICK k \in Classes :
        /\ IsChunkClass(region, k)
        /\ buddies' = [buddies EXCEPT ![k] = push_front(@, region)]
        /\ region' = region + ClassSize[k]
  BY Zenon DEF add_region
<1>2. /\ pc = "add_region" /\ pc' = "add_region" /\ allocated = {} /\ allocated' = {}
      /\ region \in Nat /\ HeapStart \in Nat /\ HeapEnd \in Nat
      /\ HeapStart <= region
      /\ \A m \in Classes : \A b \in Free(m) : b + ClassSize[m] <= region
      /\ ClassSize[k] \in Nat \ {0}
      /\ region % ClassSize[k] = 0 /\ region + ClassSize[k] <= HeapEnd
  <2>1. ClassSize[k] \in Nat \ {0}
    BY Sizes
  <2>2. region \in Nat /\ HeapStart \in Nat /\ HeapEnd \in Nat
    BY HeapAssumption DEF SafetyInv, TypeOK, HeapEnd
  <2>3. region % ClassSize[k] = 0 /\ ClassSize[k] <= HeapEnd - region
    BY <1>1 DEF IsChunkClass, ChunkFits
  <2>4. region + ClassSize[k] <= HeapEnd
    BY <2>1, <2>2, <2>3
  <2> QED BY <2>1, <2>2, <2>3, <2>4 DEF add_region, SafetyInv, AddingRegion
<1>3. \A m \in Classes : Free(m) \subseteq Nat /\ ClassSize[m] \in Nat \ {0}
  BY Sizes, RangeOfSeq, SMTT(30) DEF SafetyInv, TypeOK, Free
<1>4. region \notin Free(k)
  BY <1>2, <1>3
<1>5. /\ buddies' \in [Classes -> Seq(Nat)]
      /\ Free(k)' = Free(k) \cup {region}
      /\ \A m \in Classes \ {k} : Free(m)' = Free(m)
      /\ ListsDistinct'
  BY <1>1, <1>2, <1>4, PushedLists, Zenon
<1>6. TypeOK'
  BY <1>1, <1>2, <1>5 DEF add_region, SafetyInv, TypeOK
<1>7. \A m \in Classes : \A b \in Free(m)' : b \in Free(m) \/ (m = k /\ b = region)
  BY <1>5
<1>8. FreeChunksApart'
  BY <1>2, <1>3, <1>7 DEF SafetyInv, FreeChunksApart, Apart
<1>9. BlocksApart'
  BY <1>2 DEF BlocksApart
<1>10. ChunksPlaced'
  BY <1>2, <1>7 DEF SafetyInv, ChunksPlaced, Placed
<1>11. AddingRegion'
  BY <1>1, <1>2, <1>3, <1>7 DEF AddingRegion
<1> QED
  BY <1>2, <1>5, <1>6, <1>8, <1>9, <1>10, <1>11 DEF SafetyInv, Splitting, Merging

(* What split does to the lists: the first chunk of class hi is replaced by *)
(* its two halves, the upper one first in the list of class low.            *)
LEMMA SplitChunks ==
  ASSUME SafetyInv, split
  PROVE  \E hi \in Classes, low \in Classes, a \in Nat, c \in Nat \ {0} :
           /\ hi = level /\ low + 1 = hi /\ level' = low /\ class <= low
           /\ c = ClassSize[low] /\ ClassSize[hi] = 2 * c
           /\ a = Head(buddies[hi]) /\ a \in Free(hi)
           /\ a \notin Free(low) /\ a + c \notin Free(low)
           /\ buddies' \in [Classes -> Seq(Nat)]
           /\ buddies'[low] # << >> /\ Head(buddies'[low]) = a + c
           /\ Free(hi)' = Free(hi) \ {a}
           /\ Free(low)' = Free(low) \cup {a, a + c}
           /\ \A m \in Classes \ {low, hi} : Free(m)' = Free(m)
           /\ ListsDistinct'
<1>1. PICK hi \in Classes, low \in Classes : hi = level /\ low = level - 1
  BY OrderAssumption DEF split, SafetyInv, TypeOK, Splitting, Classes
<1>2. /\ pc = "split" /\ pc' = "split" /\ UNCHANGED <<allocated, class, region, layout>>
      /\ low # hi /\ low + 1 = hi /\ class <= low /\ level' = low
      /\ buddies[hi] # << >> /\ layout \in Layouts /\ IsSizeClass(layout, class)
  BY <1>1 DEF split, SafetyInv, TypeOK, Splitting, Classes
<1>3. buddies \in [Classes -> Seq(Nat)] /\ \A m \in Classes : IsInjective(buddies[m])
  BY DEF SafetyInv, TypeOK, ListsDistinct
<1>4. PICK a \in Nat :
      /\ a = Head(buddies[hi]) /\ a \in Free(hi)
      /\ Tail(buddies[hi]) \in Seq(Nat)
      /\ Range(Tail(buddies[hi])) = Free(hi) \ {a}
      /\ IsInjective(Tail(buddies[hi]))
  BY <1>2, <1>3, PopFront DEF Free
<1>5. PICK c \in Nat \ {0} : c = ClassSize[low] /\ ClassSize[hi] = 2 * c
  BY <1>2, Sizes
<1>6. \A m \in Classes : Free(m) \subseteq Nat /\ ClassSize[m] \in Nat \ {0}
  BY <1>3, Sizes, RangeOfSeq, SMTT(30) DEF Free
<1>7. \A m \in Classes : \A b \in Free(m) :
        <<b, m>> # <<a, hi>> => Apart(a, 2 * c, b, ClassSize[m])
  BY <1>4, <1>5 DEF SafetyInv, FreeChunksApart
<1>8. a \notin Free(low) /\ a + c \notin Free(low) /\ a # a + c
  BY <1>2, <1>5, <1>6, <1>7 DEF Apart
<1>9. /\ buddies' = [buddies EXCEPT ![hi] = Tail(@),
                                    ![low] = push_front(push_front(@, a), a + c)]
      /\ buddies'[hi] = Tail(buddies[hi])
      /\ buddies'[low] = push_front(push_front(buddies[low], a), a + c)
      /\ \A m \in Classes \ {low, hi} : buddies'[m] = buddies[m]
  BY <1>1, <1>2, <1>3, <1>4, <1>5, SMTT(30) DEF split
<1>10. /\ push_front(buddies[low], a) \in Seq(Nat)
       /\ Range(push_front(buddies[low], a)) = Free(low) \cup {a}
       /\ IsInjective(push_front(buddies[low], a))
  BY <1>3, <1>8, PushFront DEF Free
<1>11. /\ buddies'[low] \in Seq(Nat)
       /\ Range(buddies'[low]) = Free(low) \cup {a, a + c}
       /\ IsInjective(buddies'[low])
       /\ buddies'[low] # << >> /\ Head(buddies'[low]) = a + c
  <2>1. a + c \in Nat /\ a + c \notin Range(push_front(buddies[low], a))
    BY <1>8, <1>10
  <2>2. /\ buddies'[low] \in Seq(Nat)
        /\ Range(buddies'[low]) = Range(push_front(buddies[low], a)) \cup {a + c}
        /\ IsInjective(buddies'[low])
        /\ buddies'[low] # << >> /\ Head(buddies'[low]) = a + c
    BY <1>9, <1>10, <2>1, PushFront, ZenonT(40)
  <2> QED BY <1>10, <2>2
<1>12. /\ Free(hi)' = Free(hi) \ {a}
       /\ Free(low)' = Free(low) \cup {a, a + c}
       /\ \A m \in Classes \ {low, hi} : Free(m)' = Free(m)
  BY <1>4, <1>9, <1>11, Zenon DEF Free
<1>13. buddies' \in [Classes -> Seq(Nat)]
  <2>1. \A m \in Classes : buddies'[m] \in Seq(Nat)
    BY <1>3, <1>4, <1>9, <1>11, Zenon
  <2> QED BY <1>3, <1>9, <2>1, Zenon
<1>14. ListsDistinct'
  BY <1>3, <1>4, <1>9, <1>11, Zenon DEF ListsDistinct
<1> QED BY <1>1, <1>2, <1>4, <1>5, <1>8, <1>11, <1>12, <1>13, <1>14, Zenon

(* split keeps the inductive invariant. *)
LEMMA SplitSafety ==
  ASSUME SafetyInv, split
  PROVE  SafetyInv'
<1>1. PICK hi \in Classes, low \in Classes, a \in Nat, c \in Nat \ {0} :
           /\ hi = level /\ low + 1 = hi /\ level' = low /\ class <= low
           /\ c = ClassSize[low] /\ ClassSize[hi] = 2 * c
           /\ a = Head(buddies[hi]) /\ a \in Free(hi)
           /\ a \notin Free(low) /\ a + c \notin Free(low)
           /\ buddies' \in [Classes -> Seq(Nat)]
           /\ buddies'[low] # << >> /\ Head(buddies'[low]) = a + c
           /\ Free(hi)' = Free(hi) \ {a}
           /\ Free(low)' = Free(low) \cup {a, a + c}
           /\ \A m \in Classes \ {low, hi} : Free(m)' = Free(m)
           /\ ListsDistinct'
  BY SplitChunks, Zenon
<1>2. /\ pc = "split" /\ pc' = "split" /\ UNCHANGED <<allocated, class, region, layout>>
      /\ low # hi /\ layout \in Layouts /\ IsSizeClass(layout, class)
  <2>1. hi = level /\ low + 1 = hi /\ hi \in Nat /\ low \in Nat
    BY <1>1, Sizes
  <2> QED BY <2>1 DEF split, SafetyInv, Splitting
<1>3. /\ c = ClassSize[low] /\ ClassSize[hi] = 2 * c
      /\ a \in Free(hi) /\ a \notin Free(low) /\ a + c \notin Free(low)
  BY <1>1
<1>4. \A m \in Classes : Free(m) \subseteq Nat /\ ClassSize[m] \in Nat \ {0}
  BY Sizes, RangeOfSeq, Zenon DEF SafetyInv, TypeOK, Free
<1>5. \A m \in Classes : \A b \in Free(m) :
        <<b, m>> # <<a, hi>> => Apart(a, 2 * c, b, ClassSize[m])
  BY <1>3 DEF SafetyInv, FreeChunksApart
<1>6. TypeOK'
  <2>1. buddies' \in [Classes -> Seq(Nat)] /\ level' \in 0 .. MAX_ORDER
    BY <1>1, Sizes
  <2> QED BY <1>2, <2>1 DEF SafetyInv, TypeOK
<1>7. \A m \in Classes : \A b \in Free(m)' :
         \/ b \in Free(m) /\ <<b, m>> # <<a, hi>>
         \/ m = low /\ b \in {a, a + c}
  <2>1. /\ Free(hi)' = Free(hi) \ {a}
        /\ Free(low)' = Free(low) \cup {a, a + c}
        /\ \A m \in Classes \ {low, hi} : Free(m)' = Free(m)
    BY <1>1
  <2> QED BY <1>2, <2>1
<1>8. FreeChunksApart'
  <2> SUFFICES ASSUME NEW k \in Classes, NEW m \in Classes,
                      NEW x \in Free(k)', NEW y \in Free(m)', <<x, k>> # <<y, m>>
               PROVE  Apart(x, ClassSize[k], y, ClassSize[m])
    BY DEF FreeChunksApart
  <2>1. CASE x \in Free(k) /\ y \in Free(m)
    BY <2>1 DEF SafetyInv, FreeChunksApart
  <2>2. CASE x \notin Free(k) /\ y \in Free(m)
    BY <1>3, <1>4, <1>5, <1>7, <2>2 DEF Apart
  <2>3. CASE x \in Free(k) /\ y \notin Free(m)
    BY <1>3, <1>4, <1>5, <1>7, <2>3 DEF Apart
  <2>4. CASE x \notin Free(k) /\ y \notin Free(m)
    BY <1>3, <1>7, <2>4 DEF Apart
  <2> QED BY <2>1, <2>2, <2>3, <2>4
<1>9. ASSUME NEW x \in Nat, NEW n \in Nat, ApartFromFree(x, n)
      PROVE  ApartFromFree(x, n)'
  <2>1. \A m \in Classes : \A b \in Free(m) : Apart(x, n, b, ClassSize[m])
    BY <1>9 DEF ApartFromFree
  <2>2. Apart(x, n, a, 2 * c)
    BY <1>3, <2>1
  <2>3. Apart(x, n, a, c) /\ Apart(x, n, a + c, c)
    BY <2>2 DEF Apart
  <2> QED BY <1>3, <1>7, <2>1, <2>3, Zenon DEF ApartFromFree
<1>10. BlocksApart'
  <2> SUFFICES ASSUME NEW x \in allocated, NEW k \in Classes, HasClass(x, k)
               PROVE  /\ ApartFromFree(x.start, ClassSize[k])'
                      /\ ApartFromBlocks(x.start, ClassSize[k], allocated \ {x})
    BY <1>2 DEF BlocksApart, ApartFromBlocks
  <2>1. /\ ApartFromFree(x.start, ClassSize[k])
        /\ ApartFromBlocks(x.start, ClassSize[k], allocated \ {x})
    BY Zenon DEF SafetyInv, BlocksApart
  <2>2. x.start \in Nat /\ ClassSize[k] \in Nat
    BY Sizes, Zenon DEF SafetyInv, TypeOK
  <2> QED BY <1>9, <2>1, <2>2
<1>11. ChunksPlaced'
  <2>1. Placed(a, hi)
    BY <1>3 DEF SafetyInv, ChunksPlaced
  <2>2. a % c = 0 /\ (a + c) % c = 0
    BY <1>3, <2>1, HalvesAligned, Zenon DEF Placed
  <2>3. Placed(a, low) /\ Placed(a + c, low)
    BY <1>3, <2>1, <2>2, HeapAssumption DEF Placed, HeapEnd
  <2> QED BY <1>2, <1>7, <2>3 DEF SafetyInv, ChunksPlaced
<1>12. Splitting'
  BY <1>1, <1>2, OrderAssumption DEF Splitting, Classes
<1> QED
  BY <1>1, <1>2, <1>6, <1>8, <1>10, <1>11, <1>12 DEF SafetyInv, AddingRegion, Merging

(* What alloc_return hands out: the first chunk of the class wanted. *)
LEMMA ReturnedChunk ==
  ASSUME SafetyInv, alloc_return
  PROVE  \E k \in Classes, a \in Nat :
           /\ k = class /\ IsSizeClass(layout, k) /\ layout \in Layouts
           /\ a = Head(buddies[k]) /\ a \in Free(k) /\ Placed(a, k)
           /\ allocated' = allocated \cup {[start |-> a, layout |-> layout]}
           /\ buddies' \in [Classes -> Seq(Nat)]
           /\ Free(k)' = Free(k) \ {a}
           /\ \A m \in Classes \ {k} : Free(m)' = Free(m)
           /\ ListsDistinct'
<1>1. PICK k \in Classes : k = class
  BY DEF SafetyInv, TypeOK
<1>2. /\ IsSizeClass(layout, k) /\ layout \in Layouts /\ buddies[k] # << >>
  BY <1>1 DEF alloc_return, SafetyInv, Splitting
<1>3. buddies \in [Classes -> Seq(Nat)] /\ \A m \in Classes : IsInjective(buddies[m])
  BY DEF SafetyInv, TypeOK, ListsDistinct
<1>4. PICK a \in Nat :
      /\ a = Head(buddies[k]) /\ a \in Free(k)
      /\ Tail(buddies[k]) \in Seq(Nat)
      /\ Range(Tail(buddies[k])) = Free(k) \ {a}
      /\ IsInjective(Tail(buddies[k]))
  BY <1>2, <1>3, PopFront DEF Free
<1>5. /\ buddies' = [buddies EXCEPT ![k] = Tail(@)]
      /\ allocated' = allocated \cup {[start |-> a, layout |-> layout]}
  BY <1>1, <1>4 DEF alloc_return
<1>6. /\ buddies' \in [Classes -> Seq(Nat)]
      /\ buddies'[k] = Tail(buddies[k])
      /\ \A m \in Classes \ {k} : buddies'[m] = buddies[m]
  BY <1>3, <1>4, <1>5
<1>7. /\ Free(k)' = Free(k) \ {a}
      /\ \A m \in Classes \ {k} : Free(m)' = Free(m)
      /\ ListsDistinct'
  BY <1>3, <1>4, <1>6, Zenon DEF Free, ListsDistinct
<1>8. Placed(a, k)
  BY <1>4 DEF SafetyInv, ChunksPlaced
<1> QED BY <1>1, <1>2, <1>4, <1>5, <1>6, <1>7, <1>8

(* Handing out the first chunk keeps the invariant. *)
LEMMA AllocReturnSafety ==
  ASSUME SafetyInv, alloc_return
  PROVE  SafetyInv'
<1>1. PICK k \in Classes, a \in Nat :
           /\ k = class /\ IsSizeClass(layout, k) /\ layout \in Layouts
           /\ a \in Free(k) /\ Placed(a, k)
           /\ allocated' = allocated \cup {[start |-> a, layout |-> layout]}
           /\ buddies' \in [Classes -> Seq(Nat)]
           /\ Free(k)' = Free(k) \ {a}
           /\ \A m \in Classes \ {k} : Free(m)' = Free(m)
           /\ ListsDistinct'
  BY ReturnedChunk
<1>2. PICK new : new = [start |-> a, layout |-> layout]
  BY Zenon
<1>3. /\ new \in [start : Nat, layout : Layouts]
      /\ new.start = a /\ new.layout = layout /\ HasClass(new, k)
      /\ \A m \in Classes : HasClass(new, m) => m = k
  BY <1>1, <1>2, SizeClassUnique DEF HasClass
<1>4. \A m \in Classes : Free(m) \subseteq Nat /\ ClassSize[m] \in Nat \ {0}
  BY Sizes, RangeOfSeq, SMTT(30) DEF SafetyInv, TypeOK, Free
<1>5. \A m \in Classes : \A b \in Free(m)' : b \in Free(m) /\ <<b, m>> # <<a, k>>
  BY <1>1
<1>6. TypeOK'
  BY <1>1, <1>2, <1>3 DEF alloc_return, SafetyInv, TypeOK
<1>7. FreeChunksApart'
  BY <1>5 DEF SafetyInv, FreeChunksApart
<1>8. \A x \in allocated : x.start \in Nat
  BY DEF SafetyInv, TypeOK
<1>9. \A x \in allocated : \A m \in Classes :
        HasClass(x, m) => Apart(x.start, ClassSize[m], a, ClassSize[k])
  BY <1>1, Zenon DEF SafetyInv, BlocksApart, ApartFromFree
<1>10. BlocksApart'
  <2> SUFFICES ASSUME NEW x \in allocated', NEW m \in Classes, HasClass(x, m)
               PROVE  /\ ApartFromFree(x.start, ClassSize[m])'
                      /\ ApartFromBlocks(x.start, ClassSize[m], allocated' \ {x})
    BY DEF BlocksApart, ApartFromBlocks
  <2>1. CASE x \in allocated
    <3>1. /\ ApartFromFree(x.start, ClassSize[m])
          /\ ApartFromBlocks(x.start, ClassSize[m], allocated \ {x})
      BY <2>1, Zenon DEF SafetyInv, BlocksApart
    <3>2. ApartFromFree(x.start, ClassSize[m])'
      BY <1>5, <3>1 DEF ApartFromFree
    <3>3. ApartFromBlocks(x.start, ClassSize[m], allocated' \ {x})
      BY <1>1, <1>2, <1>3, <1>9, <2>1, <3>1 DEF ApartFromBlocks
    <3> QED BY <3>2, <3>3
  <2>2. CASE x \notin allocated
    <3>1. x = new /\ m = k /\ x.start = a
      BY <1>1, <1>2, <1>3, <2>2
    <3>2. ApartFromFree(a, ClassSize[k])'
      BY <1>1, <1>5, Zenon DEF ApartFromFree, SafetyInv, FreeChunksApart
    <3>3. ApartFromBlocks(a, ClassSize[k], allocated' \ {new})
      BY <1>1, <1>2, <1>4, <1>8, <1>9 DEF ApartFromBlocks, Apart
    <3> QED BY <3>1, <3>2, <3>3
  <2> QED BY <2>1, <2>2
<1>11. ChunksPlaced'
  BY <1>1, <1>2, <1>3, <1>5, Zenon DEF SafetyInv, ChunksPlaced
<1> QED
  BY <1>1, <1>6, <1>7, <1>10, <1>11
  DEF SafetyInv, alloc_return, AddingRegion, Splitting, Merging

(* Taking a block back keeps the invariant: it is the chunk in hand. *)
LEMMA DeallocSafety ==
  ASSUME SafetyInv, NEW block \in allocated, dealloc(block)
  PROVE  SafetyInv'
<1>1. PICK k \in Classes : IsSizeClass(block.layout, k) /\ level' = k
  BY DEF dealloc
<1>2. HasClass(block, k) /\ block.start \in Nat
  BY <1>1 DEF HasClass, SafetyInv, TypeOK
<1>3. \A m \in Classes : Free(m)' = Free(m)
  BY DEF dealloc, Free
<1>4. TypeOK'
  BY <1>1, <1>2, OrderAssumption DEF dealloc, SafetyInv, TypeOK, Classes
<1>5. ListsDistinct' /\ FreeChunksApart'
  BY <1>3 DEF dealloc, SafetyInv, ListsDistinct, FreeChunksApart
<1>6. BlocksApart'
  BY <1>3 DEF dealloc, SafetyInv, BlocksApart, ApartFromFree, ApartFromBlocks
<1>7. ChunksPlaced'
  BY <1>3 DEF dealloc, SafetyInv, ChunksPlaced
<1>8. Placed(block.start, k)
  BY <1>2, SizeClassUnique DEF SafetyInv, ChunksPlaced, HasClass
<1>9. /\ ApartFromFree(block.start, ClassSize[k])
      /\ ApartFromBlocks(block.start, ClassSize[k], allocated \ {block})
  BY <1>2 DEF SafetyInv, BlocksApart
<1>10. Merging'
  BY <1>1, <1>3, <1>8, <1>9 DEF dealloc, Merging, ApartFromFree, ApartFromBlocks
<1> QED
  BY <1>4, <1>5, <1>6, <1>7, <1>10 DEF dealloc, SafetyInv, AddingRegion, Splitting

(* Pushing the chunk in hand keeps the invariant. *)
LEMMA MergeDoneSafety ==
  ASSUME SafetyInv, merge_done
  PROVE  SafetyInv'
<1>1. PICK k \in Classes, a \in Nat : k = level /\ a = region
  BY OrderAssumption DEF merge_done, SafetyInv, TypeOK, Classes
<1>2. /\ Placed(a, k)
      /\ ApartFromFree(a, ClassSize[k])
      /\ ApartFromBlocks(a, ClassSize[k], allocated)
      /\ allocated' = allocated
  BY <1>1 DEF merge_done, SafetyInv, Merging
<1>3. \A m \in Classes : Free(m) \subseteq Nat /\ ClassSize[m] \in Nat \ {0}
  BY Sizes, RangeOfSeq DEF SafetyInv, TypeOK, Free
<1>4. a \notin Free(k)
  BY <1>2, <1>3 DEF ApartFromFree, Apart
<1>5. buddies' = [buddies EXCEPT ![k] = push_front(@, a)]
  BY <1>1 DEF merge_done
<1>6. /\ buddies' \in [Classes -> Seq(Nat)]
      /\ Free(k)' = Free(k) \cup {a}
      /\ \A m \in Classes \ {k} : Free(m)' = Free(m)
      /\ ListsDistinct'
  BY <1>4, <1>5, PushedLists, Zenon
<1>7. \A m \in Classes : \A b \in Free(m)' : b \in Free(m) \/ (m = k /\ b = a)
  BY <1>6
<1>8. TypeOK'
  BY <1>6 DEF merge_done, SafetyInv, TypeOK
<1>9. FreeChunksApart'
  BY <1>2, <1>3, <1>7 DEF SafetyInv, FreeChunksApart, ApartFromFree, Apart
<1>10. BlocksApart'
  <2> SUFFICES ASSUME NEW x \in allocated, NEW m \in Classes, HasClass(x, m)
               PROVE  /\ ApartFromFree(x.start, ClassSize[m])'
                      /\ ApartFromBlocks(x.start, ClassSize[m], allocated \ {x})
    BY <1>2 DEF BlocksApart, ApartFromBlocks
  <2>1. /\ ApartFromFree(x.start, ClassSize[m])
        /\ ApartFromBlocks(x.start, ClassSize[m], allocated \ {x})
    BY Zenon DEF SafetyInv, BlocksApart
  <2>2. Apart(x.start, ClassSize[m], a, ClassSize[k])
    <3>1. Apart(a, ClassSize[k], x.start, ClassSize[m])
      BY <1>2 DEF ApartFromBlocks
    <3> QED BY <3>1 DEF Apart
  <2>3. ApartFromFree(x.start, ClassSize[m])'
    BY <1>7, <2>1, <2>2 DEF ApartFromFree
  <2> QED BY <2>1, <2>3
<1>11. ChunksPlaced'
  BY <1>2, <1>7 DEF SafetyInv, ChunksPlaced
<1> QED
  BY <1>6, <1>8, <1>9, <1>10, <1>11
  DEF merge_done, SafetyInv, AddingRegion, Splitting, Merging

(* The chunk in hand and its free buddy are the two halves of one chunk of *)
(* the next class, which is in the heap and aligned.                       *)
LEMMA BuddiesAreHalves ==
  ASSUME NEW k \in Classes, NEW a \in Nat, NEW b \in Nat,
         b = BuddyOf(a, k), Placed(a, k), Placed(b, k)
  PROVE  \E m \in Nat :
           /\ m = IF b < a THEN b ELSE a
           /\ Placed(m, k + 1)
           /\ (a = m /\ b = m + ClassSize[k]) \/ (b = m /\ a = m + ClassSize[k])
<1>1. PICK c \in Nat \ {0} : c = ClassSize[k] /\ ClassSize[k + 1] = 2 * c
  BY Sizes
<1>2. HeapStart \in Nat /\ HeapEnd \in Nat
  BY HeapAssumption DEF HeapEnd
<1>3. CASE (a \div c) % 2 = 0
  <2>1. b = a + c /\ a % (2 * c) = 0
    BY <1>1, <1>3, MergedAligned DEF BuddyOf, Placed
  <2>2. Placed(a, k + 1)
    BY <1>1, <1>2, <2>1 DEF Placed
  <2> QED BY <1>1, <2>1, <2>2
<1>4. CASE (a \div c) % 2 # 0
  <2>1. b = a - c /\ b % (2 * c) = 0
    BY <1>1, <1>4, MergedAligned, Zenon DEF BuddyOf, Placed
  <2>2. Placed(b, k + 1)
    BY <1>1, <1>2, <2>1 DEF Placed
  <2> QED BY <1>1, <2>1, <2>2
<1> QED BY <1>3, <1>4

(* What merge takes off the list of its class. *)
LEMMA MergedChunk ==
  ASSUME SafetyInv, merge
  PROVE  \E k \in Classes, a \in Nat, b \in Nat :
           /\ k = level /\ a = region /\ b = BuddyOf(a, k)
           /\ level' = k + 1 /\ region' = IF b < a THEN b ELSE a
           /\ b \in Free(k)
           /\ buddies' \in [Classes -> Seq(Nat)]
           /\ Free(k)' = Free(k) \ {b}
           /\ \A m \in Classes \ {k} : Free(m)' = Free(m)
           /\ ListsDistinct'
<1>1. PICK k \in Classes, a \in Nat : k = level /\ a = region
  BY OrderAssumption DEF merge, SafetyInv, TypeOK, Classes
<1>2. buddies \in [Classes -> Seq(Nat)] /\ \A m \in Classes : IsInjective(buddies[m])
  BY DEF SafetyInv, TypeOK, ListsDistinct
<1>3. PICK s \in Seq(Nat) : s = buddies[k] /\ IsInjective(s)
  BY <1>2
<1>4. PICK b : b = BuddyOf(a, k)
  OBVIOUS
<1>5. PICK i \in 1 .. Len(s) :
        /\ s[i] = b
        /\ buddies' = [buddies EXCEPT ![k] = WithoutIndex(s, i)]
  BY <1>1, <1>2, <1>3, <1>4, Zenon DEF merge, IsFirstAt
<1>6. level' = k + 1 /\ region' = IF b < a THEN b ELSE a
  BY <1>1, <1>4 DEF merge
<1>7. b \in Nat /\ b \in Free(k)
  <2>1. s[i] \in Nat /\ Range(s) = {s[j] : j \in 1 .. Len(s)}
    BY RangeEquality, ElementOfSeq
  <2> QED BY <1>3, <1>5, <2>1 DEF Free
<1>8. PICK t \in Seq(Nat) :
        /\ t = WithoutIndex(s, i)
        /\ Range(t) = Range(s) \ {b}
        /\ IsInjective(t)
  BY <1>3, <1>5, RemoveOne
<1>9. /\ buddies' \in [Classes -> Seq(Nat)]
      /\ buddies'[k] = t
      /\ \A m \in Classes \ {k} : buddies'[m] = buddies[m]
  BY <1>2, <1>5, <1>8
<1>10. /\ Free(k)' = Free(k) \ {b}
       /\ \A m \in Classes \ {k} : Free(m)' = Free(m)
       /\ ListsDistinct'
  BY <1>2, <1>3, <1>8, <1>9, Zenon DEF Free, ListsDistinct
<1> QED BY <1>1, <1>4, <1>6, <1>7, <1>9, <1>10, Zenon

(* Merging the chunk in hand with its buddy keeps the invariant. *)
LEMMA MergeSafety ==
  ASSUME SafetyInv, merge
  PROVE  SafetyInv'
<1>1. PICK k \in Classes, a \in Nat, b \in Nat :
           /\ k = level /\ a = region /\ b = BuddyOf(a, k)
           /\ level' = k + 1 /\ region' = IF b < a THEN b ELSE a
           /\ b \in Free(k)
           /\ buddies' \in [Classes -> Seq(Nat)]
           /\ Free(k)' = Free(k) \ {b}
           /\ \A m \in Classes \ {k} : Free(m)' = Free(m)
           /\ ListsDistinct'
  BY MergedChunk
<1>2. /\ Placed(a, k)
      /\ ApartFromFree(a, ClassSize[k])
      /\ ApartFromBlocks(a, ClassSize[k], allocated)
      /\ allocated' = allocated
  BY <1>1 DEF merge, SafetyInv, Merging
<1>3. \A m \in Classes : Free(m) \subseteq Nat /\ ClassSize[m] \in Nat \ {0}
  BY Sizes, RangeOfSeq, SMTT(30) DEF SafetyInv, TypeOK, Free
<1>4. \A m \in Classes : \A x \in Free(m)' : x \in Free(m) /\ <<x, m>> # <<b, k>>
  BY <1>1
<1>5. PICK m \in Nat :
        /\ m = IF b < a THEN b ELSE a
        /\ Placed(m, k + 1)
        /\ (a = m /\ b = m + ClassSize[k]) \/ (b = m /\ a = m + ClassSize[k])
  <2>1. Placed(b, k)
    BY <1>1 DEF SafetyInv, ChunksPlaced
  <2> QED BY <1>1, <1>2, <2>1, BuddiesAreHalves
<1>6. PICK c \in Nat \ {0} : c = ClassSize[k] /\ ClassSize[k + 1] = 2 * c
  BY Sizes
<1>7. \A x, n \in Nat :
        Apart(a, c, x, n) /\ Apart(b, c, x, n) /\ n # 0 => Apart(m, 2 * c, x, n)
  BY <1>5, <1>6 DEF Apart
<1>8. TypeOK'
  BY <1>1, <1>2, <1>5, OrderAssumption, SMTT(30) DEF merge, SafetyInv, TypeOK, Classes
<1>9. FreeChunksApart'
  BY <1>4 DEF SafetyInv, FreeChunksApart
<1>10. BlocksApart'
  BY <1>2, <1>4 DEF SafetyInv, BlocksApart, ApartFromFree, ApartFromBlocks
<1>11. ChunksPlaced'
  BY <1>2, <1>4 DEF SafetyInv, ChunksPlaced
<1>12. \A n \in Classes : \A x \in Free(n)' : Apart(m, 2 * c, x, ClassSize[n])
  <2> SUFFICES ASSUME NEW n \in Classes, NEW x \in Free(n), <<x, n>> # <<b, k>>
               PROVE  Apart(m, 2 * c, x, ClassSize[n])
    BY <1>4
  <2>1. Apart(a, c, x, ClassSize[n])
    BY <1>2, <1>6 DEF ApartFromFree
  <2>2. Apart(b, c, x, ClassSize[n])
    BY <1>1, <1>6 DEF SafetyInv, FreeChunksApart
  <2> QED BY <1>3, <1>7, <2>1, <2>2
<1>13. \A y \in allocated : \A n \in Classes :
         HasClass(y, n) => Apart(m, 2 * c, y.start, ClassSize[n])
  <2> SUFFICES ASSUME NEW y \in allocated, NEW n \in Classes, HasClass(y, n)
               PROVE  Apart(m, 2 * c, y.start, ClassSize[n])
    OBVIOUS
  <2>1. y.start \in Nat
    BY DEF SafetyInv, TypeOK
  <2>2. Apart(a, c, y.start, ClassSize[n])
    BY <1>2, <1>6 DEF ApartFromBlocks
  <2>3. Apart(y.start, ClassSize[n], b, c)
    BY <1>1, <1>6, Zenon DEF SafetyInv, BlocksApart, ApartFromFree
  <2>4. Apart(b, c, y.start, ClassSize[n])
    BY <2>3 DEF Apart
  <2> QED BY <1>3, <1>7, <2>1, <2>2, <2>4
<1>14. Merging'
  <2>1. region' = m /\ ClassSize[level'] = 2 * c /\ level' = k + 1
    BY <1>1, <1>5, <1>6
  <2>2. Placed(region, level)'
    BY <1>5, <2>1 DEF Placed
  <2>3. ApartFromFree(region, ClassSize[level])'
    BY <1>12, <2>1 DEF ApartFromFree
  <2>4. ApartFromBlocks(region, ClassSize[level], allocated)'
    BY <1>2, <1>13, <2>1 DEF ApartFromBlocks
  <2> QED BY <2>2, <2>3, <2>4 DEF Merging
<1> QED
  BY <1>1, <1>8, <1>9, <1>10, <1>11, <1>14
  DEF merge, SafetyInv, AddingRegion, Splitting

-----------------------------------------------------------------------------
(* Every step keeps the inductive invariant. *)
LEMMA NextSafety == SafetyInv /\ [Next]_vars => SafetyInv'
<1> SUFFICES ASSUME SafetyInv, [Next]_vars PROVE SafetyInv'
  OBVIOUS
<1>1. CASE add_region
  BY <1>1, AddRegionSafety
<1>2. CASE split
  BY <1>2, SplitSafety
<1>3. CASE alloc_return
  BY <1>3, AllocReturnSafety
<1>4. ASSUME NEW block \in allocated, dealloc(block) PROVE SafetyInv'
  BY <1>4, DeallocSafety
<1>5. CASE merge
  BY <1>5, MergeSafety
<1>6. CASE merge_done
  BY <1>6, MergeDoneSafety
<1>7. CASE \/ init_done \/ merge_past_end \/ panic \/ UNCHANGED vars
           \/ \E l \in Layouts : alloc(l) \/ alloc_none(l) \/ alloc_too_large(l)
  BY <1>7, QuietStepsSafety
<1> QED BY <1>1, <1>2, <1>3, <1>4, <1>5, <1>6, <1>7 DEF Next

(* The inductive invariant holds in every reachable state. *)
THEOREM Safety == Spec => []SafetyInv
BY InitSafety, NextSafety, PTL DEF Spec

(* The free lists, the blocks and the loop variables keep their types: no  *)
(* class index leaves the array of lists in the loops of alloc and dealloc *)
(* and no address wraps below 0.                                           *)
THEOREM TypeCorrect == Spec => []TypeOK
<1>1. SafetyInv => TypeOK
  BY DEF SafetyInv
<1> QED BY <1>1, Safety, PTL

(* No byte of the heap is on two free lists, for every heap and every      *)
(* sequence of alloc and dealloc calls.                                    *)
THEOREM FreeListsDisjoint == Spec => []FreeChunksApart
<1>1. SafetyInv => FreeChunksApart
  BY DEF SafetyInv
<1> QED BY <1>1, Safety, PTL

(* The blocks in use are disjoint from each other and from the free chunks, *)
(* into which the allocator writes its headers.                             *)
THEOREM NoOverlap == Spec => []BlocksApart
<1>1. SafetyInv => BlocksApart
  BY DEF SafetyInv
<1> QED BY <1>1, Safety, PTL

-----------------------------------------------------------------------------
(* The contract of GlobalAlloc. *)

(* A block that alloc returns satisfies its layout and is apart from the   *)
(* bytes of all blocks in use.                                             *)
LEMMA ReturnAllocates ==
  ASSUME SafetyInv, alloc_return
  PROVE  \E l \in Layouts : Contract!Alloc(l)
<1>1. PICK k \in Classes, a \in Nat :
           /\ IsSizeClass(layout, k) /\ layout \in Layouts
           /\ a \in Free(k) /\ Placed(a, k)
           /\ allocated' = allocated \cup {[start |-> a, layout |-> layout]}
  BY ReturnedChunk
<1>2. PICK c \in Nat \ {0} : c = ClassSize[k]
  BY Sizes
<1>3. PICK l \in Layouts : l = layout
  BY <1>1
<1>4. /\ l.size \in Nat /\ l.align \in Nat \ {0}
      /\ l.size <= c /\ l.align <= c /\ c % l.align = 0
  BY <1>1, <1>2, <1>3, LayoutFacts, LayoutAssumption, Sizes DEF IsSizeClass, Fits
<1>5. /\ HeapStart \in Nat /\ HeapSize \in Nat
      /\ HeapStart <= a /\ a + c <= HeapStart + HeapSize /\ a % c = 0
  BY <1>1, <1>2, HeapAssumption DEF Placed, HeapEnd
<1>6. a % l.align = 0
  BY <1>4, <1>5, AlignedTo
<1>7. a \in HeapStart .. HeapStart + HeapSize /\ Contract!Satisfies(a, l)
  BY <1>4, <1>5, <1>6 DEF Contract!Satisfies
<1>8. ASSUME NEW b \in allocated
      PROVE  b.start # a /\ Contract!Apart(b.start, b.layout.size, a, l.size)
  <2>1. PICK m \in Classes : HasClass(b, m)
    BY DEF SafetyInv, ChunksPlaced
  <2>2. b.start \in Nat /\ b.layout \in Layouts
    BY DEF SafetyInv, TypeOK
  <2>3. PICK d \in Nat \ {0} : d = ClassSize[m]
    BY Sizes
  <2>4. b.layout.size \in Nat /\ b.layout.size <= d
    BY <2>1, <2>2, <2>3, LayoutFacts DEF HasClass, IsSizeClass, Fits
  <2>5. Apart(b.start, d, a, c)
    BY <1>1, <1>2, <2>1, <2>3, Zenon DEF SafetyInv, BlocksApart, ApartFromFree
  <2> QED BY <1>4, <2>2, <2>4, <2>5 DEF Apart, Contract!Apart
<1> QED BY <1>1, <1>3, <1>7, <1>8 DEF Contract!Alloc

(* The buddy allocator implements the contract: alloc_return is Alloc, the *)
(* first step of dealloc is Dealloc, and every other step is invisible.    *)
THEOREM Refinement == Spec => ImplementsContract
<1>1. Init => Contract!Init
  BY Zenon DEF Init, Contract!Init
<1>2. SafetyInv /\ [Next]_vars => [Contract!Next]_allocated
  <2> SUFFICES ASSUME SafetyInv, [Next]_vars, allocated' # allocated
               PROVE  Contract!Next
    OBVIOUS
  <2>1. CASE alloc_return
    BY <2>1, ReturnAllocates DEF Contract!Next
  <2>2. ASSUME NEW block \in allocated, dealloc(block) PROVE Contract!Next
    BY <2>2 DEF dealloc, Contract!Next, Contract!Dealloc
  <2> QED
    BY <2>1, <2>2
    DEF Next, vars, add_region, init_done, alloc, alloc_none, alloc_too_large, split,
        merge, merge_done, merge_past_end, panic
<1> QED BY <1>1, <1>2, Safety, PTL DEF Spec, ImplementsContract, Contract!Spec
=============================================================================
