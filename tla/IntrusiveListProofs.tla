------------------------ MODULE IntrusiveListProofs -------------------------
(***************************************************************************)
(* The intrusive list is a double-ended queue, for any set of nodes and    *)
(* lists of any length, up to the call of pop_front that loses the rest of *)
(* the list.                                                               *)
(***************************************************************************)
EXTENDS IntrusiveList, Integers, WellFoundedInduction, TLAPS

-----------------------------------------------------------------------------
(* Induction over the natural numbers, about sets of numbers, which stand  *)
(* for the predicates.                                                     *)

Less == {pair \in Nat \X Nat : pair[1] < pair[2]}

(* Every set of natural numbers has a least element. *)
LEMMA LeastNumber ==
  ASSUME NEW T, T \subseteq Nat, T # {}
  PROVE  \E x \in T : \A y \in T : x <= y
<1>1. IsWellFoundedOn(Less, Nat)
  BY NatLessThanWellFounded DEF OpToRel, Less
<1>2. PICK x \in T : \A y \in T : <<y, x>> \notin Less
  BY <1>1, WFMin, Zenon
<1>3. \A y \in T : ~(y < x)
  BY <1>2, Zenon DEF Less
<1> QED BY <1>3

(* A set with 0 in it and the successor of each of its numbers has all. *)
LEMMA SetInduction ==
  ASSUME NEW S, 0 \in S, \A n \in Nat : n \in S => n + 1 \in S
  PROVE  \A n \in Nat : n \in S
<1> SUFFICES ASSUME {n \in Nat : n \notin S} # {} PROVE FALSE
  OBVIOUS
<1>1. PICK x \in {n \in Nat : n \notin S} : \A y \in {n \in Nat : n \notin S} : x <= y
  BY LeastNumber, Zenon
<1>2. x # 0 /\ x - 1 \in Nat
  BY <1>1
<1>3. x - 1 \in S
  BY <1>1, <1>2
<1>4. x - 1 + 1 = x
  BY <1>1
<1> QED BY <1>1, <1>2, <1>3, <1>4

-----------------------------------------------------------------------------
(* Sequences. *)

(* A sequence is a function on the numbers up to its length. *)
LEMMA SeqDef == \A S : Seq(S) = UNION {[1 .. n -> S] : n \in Nat}
OBVIOUS

(* A sequence is a function on the numbers up to its length. *)
LEMMA LenProperties ==
  ASSUME NEW S, NEW s \in Seq(S)
  PROVE  Len(s) \in Nat /\ DOMAIN s = 1 .. Len(s) /\ s \in [1 .. Len(s) -> S]
OBVIOUS

(* The elements of a sequence. *)
LEMMA ElementOfSeq ==
  ASSUME NEW S, NEW s \in Seq(S), NEW i \in 1 .. Len(s)
  PROVE  s[i] \in S
OBVIOUS

(* The empty sequence, and the others. *)
LEMMA EmptySeq ==
  ASSUME NEW S
  PROVE  /\ << >> \in Seq(S) /\ Len(<< >>) = 0
         /\ \A s \in Seq(S) : s # << >> => Len(s) \in Nat \ {0}
OBVIOUS

(* One element more. *)
LEMMA AppendProperties ==
  ASSUME NEW S, NEW s \in Seq(S), NEW x \in S
  PROVE  /\ Append(s, x) \in Seq(S) /\ Append(s, x) # << >>
         /\ Len(Append(s, x)) = Len(s) + 1
         /\ \A i \in 1 .. Len(s) : Append(s, x)[i] = s[i]
         /\ Append(s, x)[Len(s) + 1] = x
OBVIOUS

(* One sequence behind another. *)
LEMMA ConcatProperties ==
  ASSUME NEW S, NEW s \in Seq(S), NEW t \in Seq(S)
  PROVE  /\ s \o t \in Seq(S) /\ Len(s \o t) = Len(s) + Len(t)
         /\ \A i \in 1 .. Len(s) + Len(t) :
              (s \o t)[i] = IF i <= Len(s) THEN s[i] ELSE t[i - Len(s)]
OBVIOUS

(* A part of a sequence. *)
LEMMA SubSeqProperties ==
  ASSUME NEW S, NEW s, NEW m \in Int, NEW n \in Int, \A i \in m .. n : s[i] \in S
  PROVE  /\ SubSeq(s, m, n) \in Seq(S)
         /\ Len(SubSeq(s, m, n)) = IF m <= n THEN n - m + 1 ELSE 0
         /\ \A i \in 1 .. n - m + 1 : SubSeq(s, m, n)[i] = s[m + i - 1]
OBVIOUS

(* The first element and the others. *)
LEMMA HeadTailProperties ==
  ASSUME NEW S, NEW s \in Seq(S), s # << >>
  PROVE  /\ Head(s) \in S /\ Tail(s) \in Seq(S) /\ Len(Tail(s)) = Len(s) - 1
         /\ \A i \in 1 .. Len(Tail(s)) : Tail(s)[i] = s[i + 1]
OBVIOUS

-----------------------------------------------------------------------------
(* Walks along pointers. *)

(* Pointers that lead through the nodes of g are followed through g. *)
LEMMA FollowIs ==
  ASSUME NEW pointer, NEW first, NEW g \in Seq(Nodes), NEW n \in Nat, n = Len(g),
         n > 0 => first = g[1],
         \A i \in 1 .. n - 1 : pointer[g[i]] = g[i + 1]
  PROVE  Follow(pointer, first, n) = g
<1> DEFINE body(w, i) ==
             IF i = 1 THEN first
             ELSE IF w[i - 1] = NoNode THEN NoNode ELSE pointer[w[i - 1]]
           walk == CHOOSE w : w = [i \in 1 .. n |-> body(w, i)]
<1>1. Follow(pointer, first, n) = walk
  BY DEF Follow
<1>2. g = [i \in 1 .. n |-> g[i]] /\ \A i \in 1 .. n : g[i] \in Nodes
  BY LenProperties, ElementOfSeq
<1>3. ASSUME NEW i \in 1 .. n PROVE g[i] = body(g, i)
  <2>1. CASE i = 1
    BY <2>1
  <2>2. CASE i # 1
    <3>1. PICK j \in 1 .. n - 1 : j = i - 1 /\ j + 1 = i /\ j \in 1 .. n
      <4>1. i - 1 \in 1 .. n - 1 /\ (i - 1) + 1 = i /\ i - 1 \in 1 .. n
        BY <2>2
      <4> QED BY <4>1
    <3>2. g[j] # NoNode /\ pointer[g[j]] = g[i]
      <4>1. g[j] \in Nodes
        BY <1>2, <3>1, Zenon
      <4>2. pointer[g[j]] = g[j + 1]
        BY Zenon
      <4> QED BY <3>1, <4>1, <4>2, NodesAssumption, Zenon
    <3> QED BY <2>2, <3>1, <3>2
  <2> QED BY <2>1, <2>2
<1>4. g = [i \in 1 .. n |-> body(g, i)]
  BY <1>2, <1>3, Zenon
<1>5. walk = [i \in 1 .. n |-> body(walk, i)]
  <2> HIDE DEF body
  <2> QED BY <1>4, Zenon
<1> HIDE DEF walk
<1>6. \A i \in 1 .. n : walk[i] = body(walk, i)
  BY <1>5
<1> DEFINE S == {k \in Nat : k + 1 <= n => walk[k + 1] = g[k + 1]}
<1>7. 0 \in S
  <2> SUFFICES ASSUME 0 + 1 <= n PROVE walk[0 + 1] = g[0 + 1]
    OBVIOUS
  <2>1. 0 + 1 = 1 /\ 1 \in 1 .. n
    OBVIOUS
  <2> QED BY <1>6, <2>1
<1>8. ASSUME NEW k \in Nat, k \in S PROVE k + 1 \in S
  <2> SUFFICES ASSUME (k + 1) + 1 <= n PROVE walk[(k + 1) + 1] = g[(k + 1) + 1]
    OBVIOUS
  <2>1. PICK j \in 1 .. n : j = k + 1 /\ j + 1 \in 1 .. n /\ j + 1 # 1 /\ (j + 1) - 1 = j
    <3>1. k + 1 \in 1 .. n /\ (k + 1) + 1 \in 1 .. n /\ (k + 1) + 1 # 1 /\ ((k + 1) + 1) - 1 = k + 1
      OBVIOUS
    <3> QED BY <3>1
  <2>2. walk[j] = g[j]
    BY <1>8, <2>1
  <2>3. walk[j + 1] = body(walk, j + 1) /\ g[j + 1] = body(g, j + 1)
    BY <1>3, <1>6, <2>1
  <2> QED BY <2>1, <2>2, <2>3
<1> HIDE DEF S
<1>9. \A k \in Nat : k \in S
  BY <1>7, <1>8, SetInduction, SMTT(30)
<1>10. ASSUME NEW i \in 1 .. n PROVE walk[i] = g[i]
  <2>1. i - 1 \in Nat /\ (i - 1) + 1 = i /\ i <= n
    OBVIOUS
  <2> QED BY <1>9, <2>1, Zenon DEF S
<1>11. walk = g
  <2> HIDE DEF body
  <2> QED BY <1>2, <1>5, <1>10, Zenon
<1> QED BY <1>1, <1>11

(* The pointers of q backwards from its last node. *)
Backward(q, prevOf, last) ==
  /\ Len(q) > 0 => last = q[Len(q)]
  /\ \A i \in 1 .. Len(q) - 1 : prevOf[q[i + 1]] = q[i]

(* The list read along them. *)
LEMMA BackwardIs ==
  ASSUME NEW q \in Seq(Nodes), NEW n \in Nat, n = Len(q), NEW prevOf, NEW last,
         Backward(q, prevOf, last)
  PROVE  [k \in 1 .. n |-> Follow(prevOf, last, n)[n + 1 - k]] = q
<1>1. (n > 0 => last = q[n]) /\ \A i \in 1 .. n - 1 : prevOf[q[i + 1]] = q[i]
  BY DEF Backward
<1>3. \A k \in 1 .. n : n + 1 - k \in 1 .. n /\ n + 1 - (n + 1 - k) = k
  OBVIOUS
<1>4. q = [i \in 1 .. n |-> q[i]] /\ \A i \in 1 .. n : q[i] \in Nodes
  BY LenProperties, ElementOfSeq
<1>5. PICK g : g = [k \in 1 .. n |-> q[n + 1 - k]]
  BY Zenon
<1>6. \A k \in 1 .. n : g[k] = q[n + 1 - k]
  BY <1>5
<1>7. g \in [1 .. n -> Nodes]
  BY <1>3, <1>4, <1>5
<1>8. g \in Seq(Nodes) /\ Len(g) = n
  <2>1. g \in Seq(Nodes)
    BY <1>7, SeqDef
  <2>2. PICK m \in Nat : m = Len(g) /\ 1 .. m = 1 .. n
    BY <1>7, <2>1, LenProperties
  <2>3. m = n
    BY <2>2
  <2> QED BY <2>1, <2>2, <2>3
<1>9. n > 0 => last = g[1]
  <2>1. n > 0 => 1 \in 1 .. n /\ n + 1 - 1 = n
    OBVIOUS
  <2> QED BY <1>1, <1>6, <2>1
<1>10. ASSUME NEW i \in 1 .. n - 1 PROVE prevOf[g[i]] = g[i + 1]
  <2>1. PICK j \in 1 .. n - 1 : j = n - i
    <3>1. n - i \in 1 .. n - 1
      OBVIOUS
    <3> QED BY <3>1
  <2>2. /\ i \in 1 .. n /\ i + 1 \in 1 .. n
        /\ n + 1 - i = j + 1 /\ n + 1 - (i + 1) = j
    BY <2>1
  <2>3. g[i] = q[j + 1] /\ g[i + 1] = q[j]
    BY <1>6, <2>2
  <2> QED BY <1>1, <2>1, <2>3
<1>11. Follow(prevOf, last, n) = g
  BY <1>8, <1>9, <1>10, FollowIs
<1>12. \A k \in 1 .. n : g[n + 1 - k] = q[k]
  BY <1>3, <1>6
<1> QED BY <1>4, <1>11, <1>12, Zenon

-----------------------------------------------------------------------------
(* The pointers that the operations write. *)

(* u is n followed by q; q followed by n. *)
Prepends(u, n, q) ==
  Len(u) = Len(q) + 1 /\ u[1] = n /\ \A i \in 1 .. Len(q) : u[i + 1] = q[i]
Appends(u, q, n) ==
  Len(u) = Len(q) + 1 /\ u[Len(q) + 1] = n /\ \A i \in 1 .. Len(q) : u[i] = q[i]

(* The queue's operations in these words. *)
LEMMA Prepended ==
  ASSUME NEW q \in Seq(Nodes), NEW n \in Nodes
  PROVE  \E u \in Seq(Nodes) : u = <<n>> \o q /\ Prepends(u, n, q)
<1>0. PICK m \in Nat : m = Len(q)
  BY LenProperties
<1>1. PICK s \in Seq(Nodes) : s = <<n>> /\ Len(s) = 1 /\ s[1] = n
  <2>1. <<n>> \in Seq(Nodes) /\ Len(<<n>>) = 1 /\ <<n>>[1] = n
    OBVIOUS
  <2> QED BY <2>1, Zenon
<1>2. /\ s \o q \in Seq(Nodes) /\ Len(s \o q) = 1 + m
      /\ \A i \in 1 .. 1 + m : (s \o q)[i] = IF i <= 1 THEN s[i] ELSE q[i - 1]
  BY <1>0, <1>1, ConcatProperties
<1>3. PICK u \in Seq(Nodes) : u = s \o q
  BY <1>2, Zenon
<1>4. Len(u) = m + 1
  BY <1>2, <1>3
<1>5. u[1] = n
  <2>1. 1 \in 1 .. 1 + m
    OBVIOUS
  <2> QED BY <1>1, <1>2, <1>3, <2>1
<1>6. ASSUME NEW i \in 1 .. m PROVE u[i + 1] = q[i]
  <2>1. i + 1 \in 1 .. 1 + m /\ ~(i + 1 <= 1) /\ (i + 1) - 1 = i
    OBVIOUS
  <2> QED BY <1>2, <1>3, <2>1, SMTT(30)
<1> QED BY <1>0, <1>1, <1>3, <1>4, <1>5, <1>6, Zenon DEF Prepends

(* push_front on a list that is not empty. *)
LEMMA PushFrontLinked ==
  ASSUME NEW nextOf \in [Nodes -> Nodes \cup {NoNode}], NEW prevOf \in [Nodes -> Nodes \cup {NoNode}],
         NEW q \in Seq(Nodes), Len(q) # 0, NEW first, NEW last,
         NEW cleared, Linked(q, nextOf, prevOf, first, last, cleared),
         NEW n \in Nodes, \A i \in 1 .. Len(q) : q[i] # n,
         NEW u \in Seq(Nodes), Prepends(u, n, q),
         NEW nx, nx = [nextOf EXCEPT ![n] = first], NEW pv, pv = [prevOf EXCEPT ![first] = n]
  PROVE  Linked(u, nx, pv, n, last, cleared \ {n})
<1>0. PICK m \in Nat :
        /\ m = Len(q) /\ m > 0 /\ Len(u) = m + 1 /\ u[1] = n
        /\ \A i \in 1 .. m : u[i + 1] = q[i] /\ q[i] # n
  BY LenProperties DEF Prepends
<1>1. /\ \A i, j \in 1 .. m : q[i] = q[j] => i = j
      /\ first = q[1] /\ last = q[m]
      /\ \A i \in 1 .. m - 1 : /\ nextOf[q[i]] = IF q[i] \in cleared THEN NoNode ELSE q[i + 1]
                              /\ prevOf[q[i + 1]] = q[i]
      /\ \A i \in 1 .. m : q[i] \in Nodes
  BY <1>0, ElementOfSeq DEF Linked
<1>2. ASSUME NEW k \in 1 .. m + 1, k # 1 PROVE \E i \in 1 .. m : k = i + 1 /\ u[k] = q[i]
  <2>1. k - 1 \in 1 .. m /\ k = (k - 1) + 1
    BY <1>2
  <2> QED BY <1>0, <2>1
<1>3. ASSUME NEW i \in 1 .. m + 1, NEW j \in 1 .. m + 1, u[i] = u[j] PROVE i = j
  <2>1. CASE i = 1 \/ j = 1
    BY <1>0, <1>2, <1>3, <2>1
  <2>2. CASE i # 1 /\ j # 1
    <3>1. PICK a \in 1 .. m : i = a + 1 /\ u[i] = q[a]
      BY <1>2, <2>2
    <3>2. PICK b \in 1 .. m : j = b + 1 /\ u[j] = q[b]
      BY <1>2, <2>2
    <3>3. a = b
      BY <1>1, <1>3, <3>1, <3>2
    <3> QED BY <3>1, <3>2, <3>3
  <2> QED BY <2>1, <2>2
<1>4. u[m + 1] = q[m]
  BY <1>0
<1>6. /\ nx[n] = first /\ \A x \in Nodes : x # n => nx[x] = nextOf[x]
      /\ pv[first] = n /\ \A x \in Nodes : x # first => pv[x] = prevOf[x]
  BY <1>0, <1>1
<1>7. ASSUME NEW k \in 1 .. m
      PROVE  /\ nx[u[k]] = IF u[k] \in cleared \ {n} THEN NoNode ELSE u[k + 1]
             /\ pv[u[k + 1]] = u[k]
  <2>1. CASE k = 1
    BY <1>0, <1>1, <1>6, <2>1
  <2>2. CASE k # 1
    <3>1. PICK i \in 1 .. m : k = i + 1 /\ u[k] = q[i]
      BY <1>2, <2>2
    <3>2. i \in 1 .. m - 1 /\ i + 1 \in 1 .. m /\ i + 1 # 1 /\ 1 \in 1 .. m
      BY <1>0, <3>1
    <3>3. u[k + 1] = q[k] /\ q[k] # first
      BY <1>0, <1>1, <3>1, <3>2
    <3>4. /\ nextOf[q[i]] = IF q[i] \in cleared THEN NoNode ELSE q[k]
          /\ prevOf[q[k]] = q[i] /\ q[i] # n /\ q[i] \in Nodes /\ q[k] \in Nodes
      BY <1>0, <1>1, <3>1, <3>2
    <3> QED BY <1>6, <3>1, <3>3, <3>4
  <2> QED BY <2>1, <2>2
<1> QED BY <1>0, <1>1, <1>3, <1>4, <1>7 DEF Linked

(* push_back on a list that is not empty. *)
LEMMA PushBackLinked ==
  ASSUME NEW nextOf \in [Nodes -> Nodes \cup {NoNode}], NEW prevOf \in [Nodes -> Nodes \cup {NoNode}],
         NEW q \in Seq(Nodes), Len(q) # 0, NEW first, NEW last,
         NEW cleared, Linked(q, nextOf, prevOf, first, last, cleared),
         NEW n \in Nodes, \A i \in 1 .. Len(q) : q[i] # n,
         NEW u \in Seq(Nodes), Appends(u, q, n),
         NEW nx, nx = [nextOf EXCEPT ![last] = n], NEW pv, pv = [prevOf EXCEPT ![n] = last]
  PROVE  Linked(u, nx, pv, first, n, cleared \ {last})
<1>0. PICK m \in Nat :
        /\ m = Len(q) /\ m > 0 /\ Len(u) = m + 1 /\ u[m + 1] = n
        /\ \A i \in 1 .. m : u[i] = q[i] /\ q[i] # n
  BY LenProperties DEF Appends
<1>1. /\ \A i, j \in 1 .. m : q[i] = q[j] => i = j
      /\ first = q[1] /\ last = q[m]
      /\ \A i \in 1 .. m - 1 : /\ nextOf[q[i]] = IF q[i] \in cleared THEN NoNode ELSE q[i + 1]
                              /\ prevOf[q[i + 1]] = q[i]
      /\ \A i \in 1 .. m : q[i] \in Nodes
  BY <1>0, ElementOfSeq DEF Linked
<1>2. ASSUME NEW i \in 1 .. m + 1, NEW j \in 1 .. m + 1, u[i] = u[j] PROVE i = j
  BY <1>0, <1>1, <1>2, SMTT(30)
<1>3. u[1] = q[1]
  BY <1>0
<1>5. /\ nx[last] = n /\ \A x \in Nodes : x # last => nx[x] = nextOf[x]
      /\ pv[n] = last /\ \A x \in Nodes : x # n => pv[x] = prevOf[x]
  BY <1>0, <1>1
<1>6. ASSUME NEW k \in 1 .. m
      PROVE  /\ nx[u[k]] = IF u[k] \in cleared \ {last} THEN NoNode ELSE u[k + 1]
             /\ pv[u[k + 1]] = u[k]
  <2>1. CASE k = m
    BY <1>0, <1>1, <1>5, <2>1
  <2>2. CASE k # m
    <3>1. k \in 1 .. m - 1 /\ k + 1 \in 1 .. m /\ m \in 1 .. m
      BY <2>2
    <3>2. u[k] = q[k] /\ u[k + 1] = q[k + 1] /\ q[k] # last /\ q[k + 1] # n
      BY <1>0, <1>1, <2>2, <3>1
    <3>3. q[k] \in Nodes /\ q[k + 1] \in Nodes
      BY <1>1, <3>1
    <3> QED BY <1>1, <1>5, <3>1, <3>2, <3>3
  <2> QED BY <2>1, <2>2
<1> QED BY <1>0, <1>1, <1>2, <1>3, <1>6 DEF Linked

(* Every list of one node, and the empty one. *)
LEMMA ShortLinked ==
  ASSUME NEW u \in Seq(Nodes), NEW nextOf, NEW prevOf, NEW first, NEW last, NEW cleared,
         \/ Len(u) = 0 /\ first = NoNode /\ last = NoNode
         \/ Len(u) = 1 /\ first = u[1] /\ last = u[1]
  PROVE  Linked(u, nextOf, prevOf, first, last, cleared)
BY DEF Linked

(* pop_back on a list of two or more nodes. *)
LEMMA PopBackLinked ==
  ASSUME NEW nextOf \in [Nodes -> Nodes \cup {NoNode}], NEW prevOf,
         NEW q \in Seq(Nodes), NEW first, NEW last,
         NEW cleared, Linked(q, nextOf, prevOf, first, last, cleared),
         NEW u \in Seq(Nodes), NEW z, Appends(q, u, z), Len(u) # 0,
         NEW x, x = prevOf[last], NEW nx, nx = [nextOf EXCEPT ![x] = NoNode]
  PROVE  Linked(u, nx, prevOf, first, x, cleared)
<1>0. PICK m \in Nat :
        m = Len(u) /\ m > 0 /\ Len(q) = m + 1 /\ \A i \in 1 .. m : u[i] = q[i]
  BY LenProperties DEF Appends
<1>1. /\ \A i, j \in 1 .. m + 1 : q[i] = q[j] => i = j
      /\ first = q[1] /\ last = q[m + 1]
      /\ \A i \in 1 .. m : /\ nextOf[q[i]] = IF q[i] \in cleared THEN NoNode ELSE q[i + 1]
                          /\ prevOf[q[i + 1]] = q[i]
      /\ \A i \in 1 .. m : q[i] \in Nodes
  BY <1>0, ElementOfSeq DEF Linked
<1>2. m \in 1 .. m /\ 1 \in 1 .. m
  BY <1>0
<1>3. x = u[m] /\ first = u[1]
  BY <1>0, <1>1, <1>2
<1>5. \A y \in Nodes : y # x => nx[y] = nextOf[y]
  OBVIOUS
<1>6. \A i, j \in 1 .. m : u[i] = u[j] => i = j
  BY <1>0, <1>1
<1>7. ASSUME NEW i \in 1 .. m - 1
      PROVE  /\ nx[u[i]] = IF u[i] \in cleared THEN NoNode ELSE u[i + 1]
             /\ prevOf[u[i + 1]] = u[i]
  <2>1. i \in 1 .. m /\ i + 1 \in 1 .. m /\ i # m
    OBVIOUS
  <2>2. u[i] # u[m] /\ u[i] \in Nodes
    BY <1>0, <1>1, <1>2, <1>6, <2>1
  <2> QED BY <1>0, <1>1, <1>3, <1>5, <2>1, <2>2
<1> QED BY <1>0, <1>3, <1>6, <1>7 DEF Linked

(* pop_front on a list of two or more nodes whose first one has its        *)
(* successor.                                                              *)
LEMMA PopFrontLinked ==
  ASSUME NEW nextOf \in [Nodes -> Nodes \cup {NoNode}], NEW prevOf,
         NEW q \in Seq(Nodes), NEW first, NEW last,
         NEW cleared, Linked(q, nextOf, prevOf, first, last, cleared),
         NEW u \in Seq(Nodes), NEW z, Prepends(q, z, u), Len(u) # 0, first \notin cleared,
         NEW x, x = nextOf[first], NEW nx, nx = [nextOf EXCEPT ![x] = NoNode]
  PROVE  Linked(u, nx, prevOf, x, last, cleared \cup {x})
<1>0. PICK m \in Nat :
        m = Len(u) /\ m > 0 /\ Len(q) = m + 1 /\ \A i \in 1 .. m : q[i + 1] = u[i]
  BY LenProperties DEF Prepends
<1>1. /\ \A i, j \in 1 .. m + 1 : q[i] = q[j] => i = j
      /\ first = q[1] /\ last = q[m + 1]
      /\ \A i \in 1 .. m : /\ nextOf[q[i]] = IF q[i] \in cleared THEN NoNode ELSE q[i + 1]
                          /\ prevOf[q[i + 1]] = q[i]
      /\ \A i \in 1 .. m : u[i] \in Nodes
  BY <1>0, ElementOfSeq DEF Linked
<1>2. m \in 1 .. m /\ 1 \in 1 .. m
  BY <1>0
<1>3. x = u[1] /\ last = u[m]
  BY <1>0, <1>1, <1>2
<1>4. \A y \in Nodes : y # x => nx[y] = nextOf[y]
  OBVIOUS
<1>5. nx[x] = NoNode
  BY <1>1, <1>2, <1>3
<1>6. ASSUME NEW i \in 1 .. m, NEW j \in 1 .. m, u[i] = u[j] PROVE i = j
  <2>1. i + 1 \in 1 .. m + 1 /\ j + 1 \in 1 .. m + 1
    OBVIOUS
  <2>2. i + 1 = j + 1
    BY <1>0, <1>1, <1>6, <2>1
  <2> QED BY <2>2
<1>7. ASSUME NEW i \in 1 .. m - 1
      PROVE  /\ nx[u[i]] = IF u[i] \in cleared \cup {x} THEN NoNode ELSE u[i + 1]
             /\ prevOf[u[i + 1]] = u[i]
  <2>1. i \in 1 .. m /\ i + 1 \in 1 .. m
    OBVIOUS
  <2>2. /\ nextOf[u[i]] = IF u[i] \in cleared THEN NoNode ELSE u[i + 1]
        /\ prevOf[u[i + 1]] = u[i]
    <3>1. q[i + 1] = u[i] /\ q[(i + 1) + 1] = u[i + 1]
      BY <1>0, <2>1
    <3> QED BY <1>1, <2>1, <3>1
  <2>3. CASE u[i] = x
    BY <1>5, <2>2, <2>3
  <2>4. CASE u[i] # x
    BY <1>1, <1>4, <2>1, <2>2, <2>4
  <2> QED BY <2>3, <2>4
<1> QED BY <1>0, <1>3, <1>6, <1>7 DEF Linked

(* The nodes of a list with one more at an end. *)
LEMMA OneMore ==
  ASSUME NEW q \in Seq(Nodes), NEW u \in Seq(Nodes), NEW n, Prepends(u, n, q) \/ Appends(u, q, n)
  PROVE  Elements(u) = Elements(q) \cup {n}
<1>1. PICK m \in Nat : m = Len(q) /\ Len(u) = m + 1
  BY LenProperties DEF Prepends, Appends
<1>2. CASE Prepends(u, n, q)
  <2>1. u[1] = n /\ \A i \in 1 .. m : u[i + 1] = q[i]
    BY <1>1, <1>2 DEF Prepends
  <2>2. \A k \in 1 .. m + 1 : k = 1 \/ (k - 1 \in 1 .. m /\ (k - 1) + 1 = k)
    OBVIOUS
  <2>3. 1 \in 1 .. m + 1 /\ \A i \in 1 .. m : i + 1 \in 1 .. m + 1
    OBVIOUS
  <2>4. \A k \in 1 .. m + 1 : u[k] = n \/ \E i \in 1 .. m : u[k] = q[i]
    BY <2>1, <2>2
  <2>5. /\ Elements(u) = {u[k] : k \in 1 .. m + 1}
        /\ Elements(q) = {q[i] : i \in 1 .. m}
    BY <1>1 DEF Elements
  <2>6. ASSUME NEW x \in Elements(q) \cup {n} PROVE x \in Elements(u)
    BY <2>1, <2>3, <2>5
  <2> QED BY <2>4, <2>5, <2>6, Zenon
<1>3. CASE Appends(u, q, n)
  <2>1. u[m + 1] = n /\ \A i \in 1 .. m : u[i] = q[i]
    BY <1>1, <1>3 DEF Appends
  <2>2. \A k \in 1 .. m + 1 : k = m + 1 \/ k \in 1 .. m
    OBVIOUS
  <2>3. m + 1 \in 1 .. m + 1 /\ \A i \in 1 .. m : i \in 1 .. m + 1
    OBVIOUS
  <2> QED BY <1>1, <2>1, <2>2, <2>3 DEF Elements
<1> QED BY <1>2, <1>3

-----------------------------------------------------------------------------
(* The steps. *)

(* The list that the invariant speaks of. *)
LEMMA ListFacts ==
  ASSUME Intact
  PROVE  /\ list \in Seq(Nodes) /\ Len(list) = len
         /\ \A i \in 1 .. len : list[i] \in Nodes
         /\ head = NoNode <=> len = 0
         /\ tail = NoNode <=> len = 0
         /\ len > 0 => head = list[1] /\ tail = list[len]
<1>1. PICK q \in Seq(Nodes) : q = list /\ Linked(q, next, prev, head, tail, cut)
  BY DEF Intact
<1>2. PICK n \in Nat : n = len
  BY DEF Intact
<1>3. Len(q) = n
  <2>1. q = [k \in 1 .. n |-> Follow(prev, tail, n)[n + 1 - k]]
    BY <1>1, <1>2 DEF list
  <2>2. DOMAIN q = 1 .. n
    BY <2>1
  <2>3. PICK m \in Nat : m = Len(q) /\ 1 .. m = 1 .. n
    BY <2>2, LenProperties
  <2>4. m = n
    BY <2>3
  <2> QED BY <2>3, <2>4
<1>4. \A i \in 1 .. n : q[i] \in Nodes
  BY <1>3, ElementOfSeq
<1>5. IF n = 0 THEN head = NoNode /\ tail = NoNode ELSE head = q[1] /\ tail = q[n]
  BY <1>1, <1>3 DEF Linked
<1>6. n # 0 => q[1] # NoNode /\ q[n] # NoNode
  BY <1>4, NodesAssumption
<1> QED BY <1>1, <1>2, <1>3, <1>4, <1>5, <1>6

(* A step whose pointers are those of u makes u the list. *)
LEMMA Becomes ==
  ASSUME NEW u \in Seq(Nodes), Linked(u, next', prev', head', tail', cut'), len' = Len(u),
         next' \in [Nodes -> Nodes \cup {NoNode}], prev' \in [Nodes -> Nodes \cup {NoNode}],
         inside' = Elements(u), ~panicked'
  PROVE  Intact' /\ list' = u
<1>1. PICK n \in Nat : n = Len(u)
  BY LenProperties
<1>2. Backward(u, prev', tail')
  BY <1>1 DEF Linked, Backward
<1>3. [k \in 1 .. n |-> Follow(prev', tail', n)[n + 1 - k]] = u
  BY <1>1, <1>2, BackwardIs
<1>4. list' = u
  BY <1>1, <1>3 DEF list, Follow
<1>5. (Elements(list))' = Elements(u)
  BY <1>4 DEF Elements
<1> QED BY <1>1, <1>4, <1>5 DEF Intact

(* What a call promises of the invariant and of the queue. *)
Promise == ListInv' /\ [Queue!Next \/ lost]_<<list, call, popped>>

(* A node that is not in the list. *)
LEMMA Outside ==
  ASSUME NEW q \in Seq(Nodes), NEW n, n \notin Elements(q)
  PROVE  \A i \in 1 .. Len(q) : q[i] # n
BY DEF Elements

(* The caller pushes a node. *)
LEMMA PushStep ==
  ASSUME ListInv, ~lost, NEW n \in Nodes, push_front(n) \/ push_back(n)
  PROVE  Promise
<1>1. Intact
  BY DEF ListInv
<1>2. PICK q \in Seq(Nodes), m \in Nat : q = list /\ m = len /\ m = Len(q)
  BY <1>1, ListFacts DEF Intact
<1>3. /\ next \in [Nodes -> Nodes \cup {NoNode}] /\ prev \in [Nodes -> Nodes \cup {NoNode}]
      /\ Linked(q, next, prev, head, tail, cut) /\ inside = Elements(q)
      /\ (head = NoNode <=> m = 0) /\ (tail = NoNode <=> m = 0)
      /\ m > 0 => head \in Nodes /\ tail \in Nodes
  BY <1>1, <1>2, ListFacts DEF Intact
<1>4. /\ n \notin inside /\ inside' = inside \cup {n} /\ len' = m + 1 /\ popped' = NoNode
      /\ lost' = lost /\ panicked' = panicked /\ ~panicked
  BY <1>2, Zenon DEF push_front, push_back, Pushes
<1>5. \A i \in 1 .. m : q[i] # n
  BY <1>2, <1>3, <1>4, Outside
<1>6. PICK u \in Seq(Nodes) :
        u = <<n>> \o q /\ Prepends(u, n, q) /\ Len(u) = m + 1 /\ inside' = Elements(u)
  <2>1. PICK u \in Seq(Nodes) : u = <<n>> \o q /\ Prepends(u, n, q)
    BY Prepended, Zenon
  <2>2. Elements(u) = Elements(q) \cup {n}
    BY <2>1, OneMore, Zenon
  <2> QED BY <1>2, <1>3, <1>4, <2>1, <2>2, Zenon DEF Prepends
<1>7. PICK v \in Seq(Nodes) :
        v = Append(q, n) /\ Appends(v, q, n) /\ Len(v) = m + 1 /\ inside' = Elements(v)
  <2>1. /\ Append(q, n) \in Seq(Nodes) /\ Len(Append(q, n)) = m + 1
        /\ Append(q, n)[m + 1] = n /\ \A i \in 1 .. m : Append(q, n)[i] = q[i]
    BY <1>2, AppendProperties
  <2>2. PICK v \in Seq(Nodes) : v = Append(q, n) /\ Appends(v, q, n)
    BY <1>2, <2>1, Zenon DEF Appends
  <2>3. Elements(v) = Elements(q) \cup {n}
    BY <2>2, OneMore, Zenon
  <2> QED BY <1>3, <1>4, <2>1, <2>2, <2>3, Zenon
<1>8. Intact' /\ (push_front(n) => list' = u) /\ (push_back(n) => list' = v)
  <2>1. CASE m = 0
    <3>1. head' = n /\ tail' = n /\ next' = next /\ prev' = prev
      BY <1>3, <2>1 DEF push_front, push_back
    <3>2. Len(v) = 1 /\ v[1] = n /\ Len(u) = 1 /\ u[1] = n
      BY <1>2, <1>6, <1>7, <2>1 DEF Appends, Prepends
    <3>3. Linked(v, next', prev', head', tail', cut') /\ Linked(u, next', prev', head', tail', cut')
      BY <3>1, <3>2, ShortLinked, Zenon
    <3>4. Intact' /\ list' = v
      BY <1>3, <1>4, <1>7, <3>1, <3>3, Becomes, Zenon
    <3>5. list' = u
      BY <1>3, <1>4, <1>6, <3>1, <3>3, Becomes, Zenon
    <3> QED BY <3>4, <3>5
  <2>2. ASSUME m > 0, push_front(n) PROVE Intact' /\ list' = u
    <3>1. /\ next' = [next EXCEPT ![n] = head] /\ prev' = [prev EXCEPT ![head] = n]
          /\ head' = n /\ tail' = tail /\ cut' = cut \ {n}
      BY <1>3, <2>2 DEF push_front
    <3>2. Linked(u, next', prev', head', tail', cut')
      <4>1. Len(q) # 0 /\ \A i \in 1 .. Len(q) : q[i] # n
        BY <1>2, <1>5, <2>2
      <4>2. PICK nextOf, prevOf, first, last, cleared :
              nextOf = next /\ prevOf = prev /\ first = head /\ last = tail /\ cleared = cut
        OBVIOUS
      <4>3. PICK nx, pv : nx = next' /\ pv = prev'
        OBVIOUS
      <4>4. /\ nextOf \in [Nodes -> Nodes \cup {NoNode}]
            /\ prevOf \in [Nodes -> Nodes \cup {NoNode}]
            /\ Linked(q, nextOf, prevOf, first, last, cleared)
        BY <1>3, <4>2
      <4>5. nx = [nextOf EXCEPT ![n] = first] /\ pv = [prevOf EXCEPT ![first] = n]
        BY <3>1, <4>2, <4>3
      <4>6. Linked(u, nx, pv, n, last, cleared \ {n})
        BY <1>6, <4>1, <4>4, <4>5, PushFrontLinked, Zenon
      <4> QED BY <3>1, <4>2, <4>3, <4>6
    <3>3. next' \in [Nodes -> Nodes \cup {NoNode}] /\ prev' \in [Nodes -> Nodes \cup {NoNode}]
      BY <1>3, <2>2, <3>1
    <3> QED BY <1>4, <1>6, <3>2, <3>3, Becomes, Zenon
  <2>3. ASSUME m > 0, push_back(n) PROVE Intact' /\ list' = v
    <3>1. /\ next' = [next EXCEPT ![tail] = n] /\ prev' = [prev EXCEPT ![n] = tail]
          /\ head' = head /\ tail' = n /\ cut' = cut \ {tail}
      BY <1>3, <2>3 DEF push_back
    <3>2. Linked(v, next', prev', head', tail', cut')
      <4>1. Len(q) # 0 /\ \A i \in 1 .. Len(q) : q[i] # n
        BY <1>2, <1>5, <2>3
      <4>2. PICK nextOf, prevOf, first, last, cleared :
              nextOf = next /\ prevOf = prev /\ first = head /\ last = tail /\ cleared = cut
        OBVIOUS
      <4>3. PICK nx, pv : nx = next' /\ pv = prev'
        OBVIOUS
      <4>4. /\ nextOf \in [Nodes -> Nodes \cup {NoNode}]
            /\ prevOf \in [Nodes -> Nodes \cup {NoNode}]
            /\ Linked(q, nextOf, prevOf, first, last, cleared)
        BY <1>3, <4>2
      <4>5. nx = [nextOf EXCEPT ![last] = n] /\ pv = [prevOf EXCEPT ![n] = last]
        BY <3>1, <4>2, <4>3
      <4>6. Linked(v, nx, pv, first, n, cleared \ {last})
        BY <1>7, <4>1, <4>4, <4>5, PushBackLinked, Zenon
      <4> QED BY <3>1, <4>2, <4>3, <4>6
    <3>3. next' \in [Nodes -> Nodes \cup {NoNode}] /\ prev' \in [Nodes -> Nodes \cup {NoNode}]
      BY <1>3, <2>3, <3>1
    <3> QED BY <1>4, <1>7, <3>2, <3>3, Becomes, Zenon
  <2>4. push_front(n) /\ push_back(n) => FALSE
    <3>1. ASSUME push_front(n), push_back(n) PROVE FALSE
      <4>1. call' = <<"push_front", n>> /\ call' = <<"push_back", n>>
        BY <3>1 DEF push_front, push_back, Pushes
      <4> QED BY <4>1
    <3> QED BY <3>1
  <2>5. m = 0 \/ m > 0
    OBVIOUS
  <2> QED BY <2>1, <2>2, <2>3, <2>4, <2>5
<1>9. Queue!IsFree(n)
  BY <1>2, <1>5 DEF Queue!IsFree
<1>10. CASE push_front(n)
  <2>1. call' = <<"push_front", n>>
    BY <1>10 DEF push_front, Pushes
  <2>2. Queue!PushFront(n)
    BY <1>2, <1>4, <1>6, <1>8, <1>9, <1>10, <2>1, Zenon DEF Queue!PushFront
  <2> QED BY <1>4, <1>8, <2>2, Zenon DEF Promise, ListInv, Queue!Next
<1>11. CASE push_back(n)
  <2>1. call' = <<"push_back", n>>
    BY <1>11 DEF push_back, Pushes
  <2>2. Queue!PushBack(n)
    BY <1>2, <1>4, <1>7, <1>8, <1>9, <1>11, <2>1, Zenon DEF Queue!PushBack
  <2> QED BY <1>4, <1>8, <2>2, Zenon DEF Promise, ListInv, Queue!Next
<1> QED BY <1>10, <1>11

(* A pop finds the list empty. *)
LEMMA PopNoneStep ==
  ASSUME ListInv, ~lost, len = 0, pop_front \/ pop_back
  PROVE  Promise
<1>1. /\ Intact /\ head = NoNode /\ tail = NoNode /\ list \in Seq(Nodes) /\ Len(list) = 0
      /\ inside = Elements(list)
  BY ListFacts DEF ListInv, Intact
<1>2. /\ next' = next /\ prev' = prev /\ head' = head /\ tail' = tail /\ len' = len
      /\ cut' = cut /\ lost' = lost /\ popped' = NoNode
      /\ call' \in {<<"pop_front", NoNode>>, <<"pop_back", NoNode>>}
  BY <1>1, Zenon DEF pop_front, pop_back, Pops
<1>3. ~panicked'
  BY <1>1, Zenon DEF pop_front, pop_back, Pops
<1>4. list = << >>
  BY <1>1, EmptySeq
<1>5. inside' = inside
  <2>1. inside = {}
    BY <1>1 DEF Elements
  <2>2. inside' = inside \ {popped'}
    BY Zenon DEF pop_front, pop_back, Pops
  <2> QED BY <2>1, <2>2
<1>6. Intact' /\ list' = list
  <2>1. PICK q \in Seq(Nodes) : q = list /\ Len(q) = len
    BY <1>1, ListFacts, Zenon
  <2>2. Linked(q, next', prev', head', tail', cut') /\ inside' = Elements(q)
    BY <1>1, <1>2, <1>5, <2>1, Zenon DEF Intact
  <2>3. /\ next' \in [Nodes -> Nodes \cup {NoNode}] /\ prev' \in [Nodes -> Nodes \cup {NoNode}]
        /\ len' = Len(q)
    BY <1>1, <1>2, <2>1, Zenon DEF Intact
  <2> QED BY <1>3, <2>1, <2>2, <2>3, Becomes, Zenon
<1>7. call' \in {"pop_front", "pop_back"} \X {NoNode}
  BY <1>2
<1>8. Queue!PopNone
  BY <1>2, <1>4, <1>6, <1>7, Zenon DEF Queue!PopNone
<1> QED BY <1>2, <1>6, <1>8, Zenon DEF Promise, ListInv, Queue!Next

(* A pop takes the only node. *)
LEMMA PopLastStep ==
  ASSUME ListInv, ~lost, len = 1, pop_front \/ pop_back
  PROVE  Promise
<1>1. Intact
  BY DEF ListInv
<1>2. PICK q \in Seq(Nodes) : q = list /\ Len(q) = 1 /\ inside = Elements(q)
  BY <1>1, ListFacts, Zenon DEF Intact
<1>3. head = q[1] /\ tail = q[1] /\ head # NoNode
  BY <1>1, <1>2, ListFacts
<1>4. /\ head' = NoNode /\ tail' = NoNode /\ len' = 0 /\ next' = next /\ prev' = prev
      /\ cut' = cut /\ lost' = lost
  BY <1>3 DEF pop_front, pop_back
<1>5. popped' = q[1] /\ inside' = inside \ {q[1]} /\ ~panicked'
  BY <1>3, Zenon DEF pop_front, pop_back, Pops
<1>6. PICK u \in Seq(Nodes) : u = Tail(q) /\ u = SubSeq(q, 1, Len(q) - 1) /\ Len(u) = 0
  <2>1. << >> \in Seq(Nodes) /\ Len(<< >>) = 0
    OBVIOUS
  <2>2. Tail(q) = << >>
    <3>1. q # << >>
      <4>1. Len(q) = 1 /\ Len(<< >>) = 0
        BY <1>2, EmptySeq
      <4>2. q = << >> => Len(q) = Len(<< >>)
        BY Zenon
      <4> QED BY <4>1, <4>2
    <3>2. PICK t : t = Tail(q)
      BY Zenon
    <3>3. t \in Seq(Nodes) /\ Len(t) = 1 - 1
      BY <1>2, <3>1, <3>2, HeadTailProperties
    <3> QED BY <3>2, <3>3, EmptySeq
  <2>3. PICK v : v = SubSeq(q, 1, Len(q) - 1)
    BY Zenon
  <2>4. v \in Seq(Nodes) /\ Len(v) = 0
    <3>1. Len(q) - 1 = 0 /\ \A i \in 1 .. 0 : q[i] \in Nodes
      BY <1>2
    <3> QED BY <2>3, <3>1, SubSeqProperties
  <2>5. v = << >>
    BY <2>4, EmptySeq
  <2> QED BY <2>1, <2>2, <2>3, <2>5, Zenon
<1>7. Linked(u, next', prev', head', tail', cut')
  BY <1>4, <1>6, ShortLinked, Zenon
<1>8. inside' = Elements(u)
  BY <1>2, <1>5, <1>6 DEF Elements
<1>9. Intact' /\ list' = u
  BY <1>1, <1>4, <1>5, <1>6, <1>7, <1>8, Becomes, Zenon DEF Intact
<1>10. q # << >> /\ Head(q) = q[1]
  <2>1. q # << >>
    BY <1>2, EmptySeq
  <2> QED BY <2>1, HeadTailProperties
<1>11. CASE pop_front
  <2>1. call' = <<"pop_front", NoNode>>
    BY <1>11 DEF pop_front, Pops
  <2>2. Queue!PopFront
    BY <1>2, <1>5, <1>6, <1>9, <1>10, <2>1, Zenon DEF Queue!PopFront
  <2> QED BY <1>4, <1>9, <2>2, Zenon DEF Promise, ListInv, Queue!Next
<1>12. CASE pop_back
  <2>1. call' = <<"pop_back", NoNode>>
    BY <1>12 DEF pop_back, Pops
  <2>2. Queue!PopBack
    BY <1>2, <1>5, <1>6, <1>9, <1>10, <2>1, Zenon DEF Queue!PopBack
  <2> QED BY <1>4, <1>9, <2>2, Zenon DEF Promise, ListInv, Queue!Next
<1> QED BY <1>11, <1>12

(* The nodes that stay when a node leaves at an end. *)
LEMMA OneLess ==
  ASSUME NEW q \in Seq(Nodes), NEW u \in Seq(Nodes), NEW n,
         \A i, j \in 1 .. Len(q) : q[i] = q[j] => i = j,
         Prepends(q, n, u) \/ Appends(q, u, n)
  PROVE  Elements(q) \ {n} = Elements(u)
<1>1. Elements(q) = Elements(u) \cup {n}
  BY OneMore, Zenon
<1>2. PICK m \in Nat : m = Len(u) /\ Len(q) = m + 1
  BY LenProperties DEF Prepends, Appends
<1>3. n \notin Elements(u)
  <2>1. SUFFICES ASSUME NEW i \in 1 .. m, u[i] = n PROVE FALSE
    BY <1>2 DEF Elements
  <2>2. i \in 1 .. m + 1 /\ i + 1 \in 1 .. m + 1 /\ 1 \in 1 .. m + 1 /\ m + 1 \in 1 .. m + 1
        /\ i # m + 1 /\ i + 1 # 1
    OBVIOUS
  <2>3. CASE Prepends(q, n, u)
    BY <1>2, <2>1, <2>2, <2>3 DEF Prepends
  <2>4. CASE Appends(q, u, n)
    BY <1>2, <2>1, <2>2, <2>4 DEF Appends
  <2> QED BY <2>3, <2>4
<1> QED BY <1>1, <1>3

(* A list of two or more nodes. *)
LEMMA LongFacts ==
  ASSUME ListInv, ~lost, len > 1
  PROVE  \E q \in Seq(Nodes), m \in Nat :
           /\ q = list /\ Len(q) = m + 1 /\ m > 0 /\ m + 1 = len
           /\ next \in [Nodes -> Nodes \cup {NoNode}] /\ prev \in [Nodes -> Nodes \cup {NoNode}]
           /\ Linked(q, next, prev, head, tail, cut) /\ inside = Elements(q)
           /\ \A i, j \in 1 .. m + 1 : q[i] = q[j] => i = j
           /\ \A i \in 1 .. m + 1 : q[i] \in Nodes /\ q[i] # NoNode
           /\ head = q[1] /\ tail = q[m + 1] /\ head # tail /\ NoNode \notin {head, tail}
<1>1. Intact
  BY DEF ListInv
<1>2. PICK q \in Seq(Nodes), m \in Nat : q = list /\ Len(q) = m + 1 /\ m > 0 /\ m + 1 = len
  <2>1. list \in Seq(Nodes) /\ Len(list) = len /\ len \in Nat
    BY <1>1, ListFacts DEF Intact
  <2>2. PICK m \in Nat : len = m + 1 /\ m > 0
    <3>1. len - 1 \in Nat /\ len = (len - 1) + 1 /\ len - 1 > 0
      BY <2>1
    <3> QED BY <3>1
  <2> QED BY <2>1, <2>2
<1>3. /\ next \in [Nodes -> Nodes \cup {NoNode}] /\ prev \in [Nodes -> Nodes \cup {NoNode}]
      /\ Linked(q, next, prev, head, tail, cut) /\ inside = Elements(q)
  BY <1>1, <1>2, Zenon DEF Intact
<1>4. \A i, j \in 1 .. m + 1 : q[i] = q[j] => i = j
  BY <1>2, <1>3 DEF Linked
<1>5. \A i \in 1 .. m + 1 : q[i] \in Nodes /\ q[i] # NoNode
  BY <1>2, ElementOfSeq, NodesAssumption
<1>6. 1 \in 1 .. m + 1 /\ m + 1 \in 1 .. m + 1 /\ m + 1 # 1 /\ m + 1 > 0
  BY <1>2
<1>7. head = q[1] /\ tail = q[m + 1]
  BY <1>1, <1>2, <1>6, ListFacts
<1>8. head # tail /\ NoNode \notin {head, tail}
  BY <1>4, <1>5, <1>6, <1>7
<1> QED BY <1>2, <1>3, <1>4, <1>5, <1>7, <1>8, Zenon

(* pop_front takes one of several nodes, and with the last pointer to the  *)
(* others it loses them.                                                   *)
LEMMA PopFrontStep ==
  ASSUME ListInv, ~lost, len > 1, pop_front
  PROVE  Promise
<1>1. PICK q \in Seq(Nodes), m \in Nat :
        /\ q = list /\ Len(q) = m + 1 /\ m > 0 /\ m + 1 = len
        /\ next \in [Nodes -> Nodes \cup {NoNode}] /\ prev \in [Nodes -> Nodes \cup {NoNode}]
        /\ Linked(q, next, prev, head, tail, cut) /\ inside = Elements(q)
        /\ \A i, j \in 1 .. m + 1 : q[i] = q[j] => i = j
        /\ \A i \in 1 .. m + 1 : q[i] \in Nodes /\ q[i] # NoNode
        /\ head = q[1] /\ tail = q[m + 1] /\ head # tail /\ NoNode \notin {head, tail}
  BY LongFacts, Zenon
<1>2. /\ head' = next[head] /\ tail' = tail /\ prev' = prev /\ len' = m
      /\ next' = IF head' = NoNode THEN next ELSE [next EXCEPT ![head'] = NoNode]
      /\ cut' = cut \cup ({head'} \ {NoNode}) /\ lost' = (lost \/ head \in cut)
  <2>1. len' = len - 1 /\ len - 1 = m
    BY <1>1 DEF pop_front
  <2> QED BY <1>1, <2>1, Zenon DEF pop_front
<1>3. /\ call' = <<"pop_front", NoNode>> /\ popped' = head /\ inside' = inside \ {head}
      /\ ~panicked'
  BY <1>1, Zenon DEF pop_front, Pops
<1>4. PICK u \in Seq(Nodes) :
        u = Tail(q) /\ Len(u) = m /\ \A i \in 1 .. m : u[i] = q[i + 1]
  <2>1. q # << >>
    BY <1>1, EmptySeq
  <2>2. PICK u : u = Tail(q)
    BY Zenon
  <2>3. u \in Seq(Nodes) /\ Len(u) = (m + 1) - 1 /\ \A i \in 1 .. Len(u) : u[i] = q[i + 1]
    BY <1>1, <2>1, <2>2, HeadTailProperties
  <2>4. Len(u) = m
    BY <2>3
  <2> QED BY <2>2, <2>3, <2>4, Zenon
<1>5. list' = u
  <2>1. \A i \in 1 .. m - 1 : prev'[u[i + 1]] = u[i]
    <3>1. SUFFICES ASSUME NEW i \in 1 .. m - 1 PROVE prev'[u[i + 1]] = u[i]
      OBVIOUS
    <3>2. i \in 1 .. m /\ i + 1 \in 1 .. m
      OBVIOUS
    <3>3. u[i] = q[i + 1] /\ u[i + 1] = q[(i + 1) + 1]
      BY <1>4, <3>2
    <3>4. prev[q[(i + 1) + 1]] = q[i + 1]
      BY <1>1, <3>2 DEF Linked
    <3> QED BY <1>2, <3>3, <3>4
  <2>2. tail' = u[m]
    BY <1>1, <1>2, <1>4
  <2>3. [k \in 1 .. m |-> Follow(prev', tail', m)[m + 1 - k]] = u
    <3>1. Backward(u, prev', tail')
      BY <1>4, <2>1, <2>2 DEF Backward
    <3>2. m = Len(u)
      BY <1>4
    <3> QED BY <3>1, <3>2, BackwardIs
  <2> QED BY <1>2, <2>3 DEF list, Follow
<1>6. Queue!PopFront
  <2>1. q # << >> /\ Head(q) = q[1]
    <3>1. q # << >>
      BY <1>1, EmptySeq
    <3> QED BY <3>1, HeadTailProperties
  <2> QED BY <1>1, <1>3, <1>4, <1>5, <2>1, Zenon DEF Queue!PopFront
<1>7. CASE head \in cut
  <2>1. lost' /\ lost' \in BOOLEAN
    BY <1>2, <1>7, Zenon
  <2> QED BY <1>6, <2>1, Zenon DEF Promise, ListInv, Queue!Next
<1>8. CASE head \notin cut
  <2>1. ~lost' /\ lost' \in BOOLEAN
    BY <1>2, <1>8, Zenon
  <2>2. Prepends(q, head, u) /\ Len(u) # 0
    BY <1>1, <1>4 DEF Prepends
  <2>3. PICK x : x = next[head]
    OBVIOUS
  <2>4. PICK nx : nx = [next EXCEPT ![x] = NoNode]
    BY Zenon
  <2>5. Linked(u, nx, prev, x, tail, cut \cup {x})
    <3>1. PICK nextOf, prevOf, first, last, cleared :
            nextOf = next /\ prevOf = prev /\ first = head /\ last = tail /\ cleared = cut
      BY Zenon
    <3>2. /\ nextOf \in [Nodes -> Nodes \cup {NoNode}]
          /\ Linked(q, nextOf, prevOf, first, last, cleared) /\ Prepends(q, first, u)
          /\ Len(u) # 0 /\ first \notin cleared /\ x = nextOf[first] /\ nx = [nextOf EXCEPT ![x] = NoNode]
      BY <1>1, <1>8, <2>2, <2>3, <2>4, <3>1, Zenon
    <3>3. Linked(u, nx, prevOf, x, last, cleared \cup {x})
      BY <3>2, PopFrontLinked, Zenon
    <3> QED BY <3>1, <3>3, Zenon
  <2>6. x # NoNode
    <3>1. 1 \in 1 .. m
      BY <1>1
    <3>2. u[1] \in Nodes
      BY <1>4, <3>1, ElementOfSeq
    <3>3. x = u[1]
      BY <2>2, <2>5 DEF Linked
    <3> QED BY <3>2, <3>3, NodesAssumption
  <2>7. head' = x /\ next' = nx /\ cut' = cut \cup {x}
    BY <1>2, <2>3, <2>4, <2>6
  <2>8. Linked(u, next', prev', head', tail', cut')
    BY <1>2, <2>5, <2>7, Zenon
  <2>9. next' \in [Nodes -> Nodes \cup {NoNode}]
    BY <1>1, <2>4, <2>7, Zenon
  <2>10. inside' = Elements(u)
    <3>1. PICK z : z = head
      BY Zenon
    <3>2. \A i, j \in 1 .. Len(q) : q[i] = q[j] => i = j
      BY <1>1, Zenon
    <3>3. Prepends(q, z, u)
      BY <2>2, <3>1, Zenon
    <3>4. Elements(q) \ {z} = Elements(u)
      BY <3>2, <3>3, OneLess, Zenon
    <3> QED BY <1>1, <1>3, <3>1, <3>4, Zenon
  <2>11. Intact'
    BY <1>1, <1>2, <1>3, <1>4, <2>8, <2>9, <2>10, Becomes, Zenon
  <2> QED BY <1>6, <2>1, <2>11, Zenon DEF Promise, ListInv, Queue!Next
<1> QED BY <1>7, <1>8

(* pop_back takes one of several nodes. *)
LEMMA PopBackStep ==
  ASSUME ListInv, ~lost, len > 1, pop_back
  PROVE  Promise
<1>1. PICK q \in Seq(Nodes), m \in Nat :
        /\ q = list /\ Len(q) = m + 1 /\ m > 0 /\ m + 1 = len
        /\ next \in [Nodes -> Nodes \cup {NoNode}] /\ prev \in [Nodes -> Nodes \cup {NoNode}]
        /\ Linked(q, next, prev, head, tail, cut) /\ inside = Elements(q)
        /\ \A i, j \in 1 .. m + 1 : q[i] = q[j] => i = j
        /\ \A i \in 1 .. m + 1 : q[i] \in Nodes /\ q[i] # NoNode
        /\ head = q[1] /\ tail = q[m + 1] /\ head # tail /\ NoNode \notin {head, tail}
  BY LongFacts, Zenon
<1>2. /\ tail' = prev[tail] /\ head' = head /\ prev' = prev /\ len' = m
      /\ next' = IF tail' = NoNode THEN next ELSE [next EXCEPT ![tail'] = NoNode]
      /\ cut' = cut /\ lost' = lost
  <2>1. len' = len - 1 /\ len - 1 = m
    BY <1>1 DEF pop_back
  <2> QED BY <1>1, <2>1, Zenon DEF pop_back
<1>3. /\ call' = <<"pop_back", NoNode>> /\ popped' = tail /\ inside' = inside \ {tail}
      /\ ~panicked'
  BY <1>1, Zenon DEF pop_back, Pops
<1>4. PICK u \in Seq(Nodes) :
        u = SubSeq(q, 1, m) /\ Len(u) = m /\ \A i \in 1 .. m : u[i] = q[i]
  <2>1. \A i \in 1 .. m : q[i] \in Nodes
    BY <1>1
  <2>2. /\ SubSeq(q, 1, m) \in Seq(Nodes) /\ Len(SubSeq(q, 1, m)) = m
        /\ \A i \in 1 .. m : SubSeq(q, 1, m)[i] = q[i]
    BY <1>1, <2>1, SubSeqProperties
  <2> QED BY <2>2, Zenon
<1>5. Appends(q, u, tail) /\ Len(u) # 0
  BY <1>1, <1>4 DEF Appends
<1>6. PICK x : x = prev[tail]
  OBVIOUS
<1>7. x # NoNode
  <2>1. m \in 1 .. (m + 1) - 1 /\ m \in 1 .. m + 1
    BY <1>1
  <2>2. prev[q[m + 1]] = q[m]
    BY <1>1, <2>1 DEF Linked
  <2> QED BY <1>1, <1>6, <2>1, <2>2
<1>8. tail' = x /\ next' = [next EXCEPT ![x] = NoNode]
  BY <1>2, <1>6, <1>7
<1>9. Intact' /\ list' = u
  <2>1. Linked(u, next', prev', head', tail', cut')
    <3>1. PICK nextOf, prevOf, first, last, cleared :
            nextOf = next /\ prevOf = prev /\ first = head /\ last = tail /\ cleared = cut
      BY Zenon
    <3>2. PICK nx : nx = [nextOf EXCEPT ![x] = NoNode]
      BY Zenon
    <3>3. /\ nextOf \in [Nodes -> Nodes \cup {NoNode}]
          /\ Linked(q, nextOf, prevOf, first, last, cleared) /\ Appends(q, u, last)
          /\ x = prevOf[last]
      BY <1>1, <1>5, <1>6, <3>1, Zenon
    <3>4. Linked(u, nx, prevOf, first, x, cleared)
      BY <1>5, <3>2, <3>3, PopBackLinked, Zenon
    <3> QED BY <1>2, <1>8, <3>1, <3>2, <3>4, Zenon
  <2>2. next' \in [Nodes -> Nodes \cup {NoNode}]
    BY <1>1, <1>8, Zenon
  <2>3. inside' = Elements(u)
    <3>1. PICK z : z = tail
      BY Zenon
    <3>2. \A i, j \in 1 .. Len(q) : q[i] = q[j] => i = j
      BY <1>1, Zenon
    <3>3. Appends(q, u, z)
      BY <1>5, <3>1, Zenon
    <3>4. Elements(q) \ {z} = Elements(u)
      BY <3>2, <3>3, OneLess, Zenon
    <3> QED BY <1>1, <1>3, <3>1, <3>4, Zenon
  <2> QED BY <1>1, <1>2, <1>3, <1>4, <2>1, <2>2, <2>3, Becomes, Zenon
<1>10. Queue!PopBack
  <2>1. q # << >> /\ Len(q) - 1 = m
    BY <1>1, EmptySeq
  <2> QED BY <1>1, <1>3, <1>4, <1>9, <2>1, Zenon DEF Queue!PopBack
<1> QED BY <1>2, <1>9, <1>10, Zenon DEF Promise, ListInv, Queue!Next

(* All calls keep the promise. *)
LEMMA ListStep ==
  ASSUME ListInv, [Next]_vars
  PROVE  Promise
<1>1. CASE lost
  <2>1. lost' /\ lost' \in BOOLEAN
    <3>1. CASE UNCHANGED vars
      BY <1>1, <3>1, Zenon DEF vars, ListInv
    <3>2. CASE \E n \in Nodes : push_front(n) \/ push_back(n)
      BY <1>1, <3>2, Zenon DEF push_front, push_back, Pushes, ListInv
    <3>3. CASE pop_front
      BY <1>1, <3>3, Zenon DEF pop_front, ListInv
    <3>4. CASE pop_back
      BY <1>1, <3>4, Zenon DEF pop_back, ListInv
    <3> QED BY <3>1, <3>2, <3>3, <3>4, Zenon DEF Next
  <2> QED BY <1>1, <2>1, Zenon DEF Promise, ListInv
<1>2. CASE ~lost /\ (\E n \in Nodes : push_front(n) \/ push_back(n))
  BY <1>2, PushStep, Zenon
<1>3. CASE ~lost /\ (pop_front \/ pop_back)
  <2>1. len = 0 \/ len = 1 \/ len > 1
    BY <1>3 DEF ListInv, Intact
  <2> QED BY <1>3, <2>1, PopNoneStep, PopLastStep, PopFrontStep, PopBackStep, Zenon
<1>4. CASE ~lost /\ UNCHANGED vars
  <2>1. list' = list /\ popped' = popped /\ call' = call
    BY <1>4 DEF vars, list
  <2>2. PICK q \in Seq(Nodes) : q = list /\ Len(q) = len
    BY <1>4, ListFacts, Zenon DEF ListInv
  <2>3. /\ Linked(q, next', prev', head', tail', cut') /\ inside' = Elements(q)
        /\ len' = Len(q) /\ ~panicked'
        /\ next' \in [Nodes -> Nodes \cup {NoNode}] /\ prev' \in [Nodes -> Nodes \cup {NoNode}]
    BY <1>4, <2>2, Zenon DEF vars, ListInv, Intact
  <2>4. Intact' /\ lost' = lost
    BY <1>4, <2>3, Becomes, Zenon DEF vars
  <2> QED BY <2>1, <2>4, Zenon DEF Promise, ListInv
<1> QED BY <1>1, <1>2, <1>3, <1>4, Zenon DEF Next

(* The empty list. *)
LEMMA ListInit ==
  ASSUME Init
  PROVE  ListInv /\ Queue!Init
<1>1. list = << >>
  <2>1. 1 .. len = {}
    BY DEF Init
  <2> QED BY <2>1 DEF list
<1>2. list \in Seq(Nodes) /\ Len(list) = 0
  BY <1>1, EmptySeq
<1>3. Linked(list, next, prev, head, tail, cut)
  BY <1>2, ShortLinked, Zenon DEF Init
<1>4. inside = Elements(list)
  BY <1>2 DEF Init, Elements
<1>5. Intact
  BY <1>2, <1>3, <1>4 DEF Init, Intact
<1> QED BY <1>1, <1>5, Zenon DEF Init, ListInv, Queue!Init

-----------------------------------------------------------------------------
(* The theorems. *)

(* Head and tail are the ends of one list of len nodes whose pointers      *)
(* agree in both directions but where pop_front cleared them, whatever     *)
(* pointers the nodes had when they were pushed, and no unwrap panics,     *)
(* until pop_front takes a node whose successor it had cleared.            *)
THEOREM LinksAlwaysAgree == Spec => []LinksAgree
<1>1. Init => ListInv
  BY ListInit
<1>2. ListInv /\ [Next]_vars => ListInv'
  BY ListStep DEF Promise
<1>3. ASSUME ListInv PROVE LinksAgree
  <2>1. SUFFICES ASSUME ~lost
                 PROVE  /\ ~panicked
                        /\ head = NoNode <=> len = 0
                        /\ len > 0 => head = list[1]
                        /\ \A i \in 1 .. len - 1 :
                             next[list[i]] = IF list[i] \in cut THEN NoNode ELSE list[i + 1]
    BY Zenon DEF LinksAgree
  <2>2. Intact
    BY <1>3, <2>1 DEF ListInv
  <2>3. Linked(list, next, prev, head, tail, cut) /\ Len(list) = len
    BY <2>2, ListFacts DEF Intact
  <2>4. \A i \in 1 .. len - 1 :
          next[list[i]] = IF list[i] \in cut THEN NoNode ELSE list[i + 1]
    BY <2>3 DEF Linked
  <2>5. ~panicked
    BY <2>2 DEF Intact
  <2> QED BY <2>2, <2>4, <2>5, ListFacts, Zenon
<1> QED BY <1>1, <1>2, <1>3, PTL DEF Spec

(* Up to and with the call that loses the rest of the list, every call     *)
(* does to list what the queue does at that end, and returns what the      *)
(* queue returns.                                                          *)
THEOREM ListIsDeque == Spec => DequeUnlessLost
<1>1. Init => ListInv /\ Queue!Init
  BY ListInit
<1>2. ListInv /\ [Next]_vars => ListInv' /\ [Queue!Next \/ lost]_<<list, call, popped>>
  BY ListStep DEF Promise
<1> QED BY <1>1, <1>2, PTL DEF Spec, DequeUnlessLost
=============================================================================
