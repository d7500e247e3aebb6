----------------------- MODULE KernelInterruptsProofs -----------------------
(***************************************************************************)
(* The running kernel: its stack is main and at most one handler, and the  *)
(* properties of KernelInterrupts' run hold for every set of device lines, *)
(* every mask and any number of interrupts.                                *)
(***************************************************************************)
EXTENDS KernelInterrupts, TLAPS

-----------------------------------------------------------------------------
(* Sequences. *)

(* A sequence is a function on the numbers up to its length. *)
LEMMA SeqDef == \A S : Seq(S) = UNION {[1 .. n -> S] : n \in Nat}
OBVIOUS

(* A sequence is a function on the numbers up to its length. *)
LEMMA LenProperties ==
  ASSUME NEW S, NEW s \in Seq(S)
  PROVE  Len(s) \in Nat /\ DOMAIN s = 1 .. Len(s) /\ s \in [1 .. Len(s) -> S]
OBVIOUS

(* The empty sequence, and the others. *)
LEMMA EmptySeq ==
  ASSUME NEW S
  PROVE  /\ << >> \in Seq(S) /\ Len(<< >>) = 0
         /\ \A s \in Seq(S) : s # << >> => Len(s) \in Nat \ {0}
OBVIOUS

(* The elements of a sequence as a set. *)
LEMMA RangeEquality ==
  ASSUME NEW S, NEW s \in Seq(S)
  PROVE  Range(s) = {s[i] : i \in 1 .. Len(s)}
BY DEF Range

(* One element more. *)
LEMMA AppendProperties ==
  ASSUME NEW S, NEW s \in Seq(S), NEW x \in S
  PROVE  /\ Append(s, x) \in Seq(S) /\ Append(s, x) # << >>
         /\ Len(Append(s, x)) = Len(s) + 1
         /\ \A i \in 1 .. Len(s) : Append(s, x)[i] = s[i]
         /\ Append(s, x)[Len(s) + 1] = x
OBVIOUS

(* One sequence behind another. *)
LEMMA ConcatProperties ==
  ASSUME NEW S, NEW s \in Seq(S), NEW t \in Seq(S)
  PROVE  /\ s \o t \in Seq(S) /\ Len(s \o t) = Len(s) + Len(t)
         /\ \A i \in 1 .. Len(s) + Len(t) :
              (s \o t)[i] = IF i <= Len(s) THEN s[i] ELSE t[i - Len(s)]
OBVIOUS

(* A part of a sequence. *)
LEMMA SubSeqProperties ==
  ASSUME NEW S, NEW s, NEW m \in Int, NEW n \in Int, \A i \in m .. n : s[i] \in S
  PROVE  /\ SubSeq(s, m, n) \in Seq(S)
         /\ Len(SubSeq(s, m, n)) = IF m <= n THEN n - m + 1 ELSE 0
         /\ \A i \in 1 .. n - m + 1 : SubSeq(s, m, n)[i] = s[m + i - 1]
OBVIOUS

-----------------------------------------------------------------------------
(* Programs and what is left of them. *)

(* Operations with different names differ. *)
LEMMA OperationsDiffer ==
  /\ \A a, b : Op(a) = Op(b) => a = b
  /\ \A a, b : Lock(a) = Lock(b) => a = b
  /\ \A a, b : Unlock(a) = Unlock(b) => a = b
  /\ \A a, b : Lock(a) # Unlock(b)
  /\ \A a, b : a # "lock" => Op(a) # Lock(b)
  /\ \A a, b : a # "unlock" => Op(a) # Unlock(b)
BY Zenon DEF Op, Lock, Unlock

(* The successor of an operation inside a program. *)
Successor(a, b) ==
  /\ a = Lock("SERIAL") <=> b = Op("send_first")
  /\ a = Op("send_first") <=> b = Op("send_last")
  /\ a = Op("send_last") <=> b = Unlock("SERIAL")
  /\ a = Lock("PICS") <=> b \in {Op("eoi"), Op("remap")}
  /\ a \in {Op("eoi"), Op("remap")} <=> b = Unlock("PICS")

(* The rules one by one. *)
LEMMA SuccessorRules ==
  ASSUME NEW a, NEW b, \A r \in Rules : a \in r[1] <=> b \in r[2]
  PROVE  Successor(a, b)
BY DEF Rules, Successor

(* The rest of a program after its first operation. *)
LEMMA TailAt ==
  ASSUME NEW S, NEW s \in Seq(S), s # << >>
  PROVE  /\ Len(s) \in Nat \ {0} /\ Head(s) = s[1] /\ Head(s) \in S
         /\ Tail(s) \in Seq(S) /\ Len(Tail(s)) = Len(s) - 1
         /\ \A i \in 1 .. Len(s) - 1 : Tail(s)[i] = s[i + 1]
OBVIOUS

(* The same, with a name for the number of operations that are left. *)
LEMMA TailLength ==
  ASSUME NEW S, NEW s \in Seq(S), s # << >>
  PROVE  \E n \in Nat :
           /\ Len(s) = n + 1 /\ Len(Tail(s)) = n
           /\ \A i \in 1 .. n : Tail(s)[i] = s[i + 1] /\ i + 1 \in 1 .. Len(s)
<1>1. PICK m \in Nat : m = Len(s) /\ m > 0
  BY TailAt
<1>2. PICK n \in Nat : m = n + 1
  BY <1>1
<1>3. m - 1 = n /\ \A i \in 1 .. n : i + 1 \in 1 .. m
  BY <1>2
<1>4. Len(Tail(s)) = n /\ \A i \in 1 .. n : Tail(s)[i] = s[i + 1]
  BY <1>1, <1>3, TailAt
<1> QED BY <1>1, <1>2, <1>3, <1>4

(* A program that goes on keeps its structure. *)
LEMMA StructuredTail ==
  ASSUME NEW s, Structured(s), Head(s) \notin Stops
  PROVE  /\ Structured(Tail(s))
         /\ Successor(Head(s), Head(Tail(s)))
<1>1. /\ s \in Seq(Operations) /\ s # << >> /\ Head(s) = s[1]
      /\ \A i \in 1 .. Len(s) : s[i] \in Stops <=> i = Len(s)
  BY TailAt DEF Structured
<1>2. PICK t \in Seq(Operations) : t = Tail(s)
  BY <1>1, TailAt, Zenon
<1>3. PICK n \in Nat :
        /\ Len(s) = n + 1 /\ Len(t) = n
        /\ \A i \in 1 .. n : t[i] = s[i + 1] /\ i + 1 \in 1 .. Len(s)
  BY <1>1, <1>2, TailLength
<1>4. n > 0
  BY <1>1, <1>3
<1>5. ASSUME NEW a, NEW b, Follows(s, a, b) PROVE Follows(t, a, b) /\ (s[1] \in a <=> s[2] \in b)
  <2>1. \A i \in 1 .. n : s[i] \in a <=> s[i + 1] \in b
    BY <1>3, <1>5 DEF Follows
  <2>2. ASSUME NEW i \in 1 .. n - 1 PROVE t[i] \in a <=> t[i + 1] \in b
    <3>1. i + 1 \in 1 .. n /\ t[i] = s[i + 1] /\ t[i + 1] = s[(i + 1) + 1]
      BY <1>3
    <3> QED BY <2>1, <3>1
  <2>3. 1 \in 1 .. n /\ 1 + 1 = 2
    BY <1>4
  <2> QED BY <1>3, <2>1, <2>2, <2>3 DEF Follows
<1>6. t # << >> /\ \A i \in 1 .. n : t[i] \in Stops <=> i = n
  <2>1. t # << >>
    BY <1>3, <1>4
  <2>2. ASSUME NEW i \in 1 .. n PROVE t[i] \in Stops <=> i = n
    <3>1. t[i] = s[i + 1] /\ i + 1 \in 1 .. Len(s) /\ (i + 1 = Len(s) <=> i = n)
      BY <1>3
    <3> QED BY <1>1, <3>1
  <2> QED BY <2>1, <2>2
<1>7. Structured(t)
  BY <1>3, <1>5, <1>6 DEF Structured
<1>8. Head(t) = s[2]
  <2>1. Head(t) = t[1]
    BY <1>6, TailAt
  <2>2. t[1] = s[1 + 1] /\ 1 + 1 = 2
    BY <1>3, <1>4
  <2> QED BY <2>1, <2>2
<1>9. Successor(s[1], s[2])
  BY <1>5, SuccessorRules DEF Structured
<1> QED BY <1>1, <1>2, <1>7, <1>8, <1>9

(* The order of two operations, when the first one is not done. *)
LEMMA PrecededTail ==
  ASSUME NEW s \in Seq(Operations), s # << >>, NEW op, NEW other, Preceded(s, op, other)
  PROVE  /\ Head(s) # op
         /\ Head(s) # other => Preceded(Tail(s), op, other)
<1>1. Head(s) = s[1]
  BY TailAt
<1>2. PICK t : t = Tail(s)
  BY Zenon
<1>3. PICK n \in Nat :
        /\ Len(s) = n + 1 /\ Len(t) = n
        /\ \A i \in 1 .. n : t[i] = s[i + 1] /\ i + 1 \in 1 .. Len(s)
  BY <1>2, TailLength
<1>4. s[1] # op
  BY <1>3 DEF Preceded
<1>5. ASSUME s[1] # other, NEW i \in 1 .. n, t[i] = op
      PROVE  \E j \in 1 .. i - 1 : t[j] = other
  <2>1. i + 1 \in 1 .. Len(s) /\ s[i + 1] = op
    BY <1>3, <1>5
  <2>2. PICK j \in 1 .. (i + 1) - 1 : s[j] = other
    BY <2>1 DEF Preceded
  <2>3. j # 1
    BY <1>5, <2>2
  <2>4. j - 1 \in 1 .. i - 1 /\ j - 1 \in 1 .. n /\ (j - 1) + 1 = j
    BY <1>3, <2>2, <2>3
  <2>5. t[j - 1] = s[(j - 1) + 1]
    BY <1>3, <2>4
  <2> QED BY <2>2, <2>4, <2>5
<1> QED BY <1>1, <1>2, <1>3, <1>4, <1>5 DEF Preceded

(* A handler's program goes on as one. *)
LEMMA HandlerTail ==
  ASSUME NEW s, NEW line, HandlerProgram(s, line), Head(s) \notin Stops
  PROVE  /\ HandlerProgram(Tail(s), line)
         /\ Head(s) = Op("eoi") => Op("eoi") \notin Range(Tail(s))
         /\ Head(s) # Op("eoi") => (Op("eoi") \in Range(Tail(s)) <=> Op("eoi") \in Range(s))
<1>1. Structured(s) /\ s \in Seq(HandlerOperations) /\ s # << >>
  BY DEF HandlerProgram, Structured
<1>2. Structured(Tail(s))
  BY <1>1, StructuredTail
<1>3. PICK t \in Seq(HandlerOperations) : t = Tail(s) /\ Head(s) = s[1]
  BY <1>1, TailAt, Zenon
<1>4. PICK n \in Nat :
        /\ Len(s) = n + 1 /\ Len(t) = n
        /\ \A i \in 1 .. n : t[i] = s[i + 1] /\ i + 1 \in 1 .. Len(s)
  BY <1>1, <1>3, TailLength
<1>5. \A i \in 1 .. Len(s) :
        /\ s[i] = Op("eoi") => line \in {Timer, Keyboard} /\ i + 2 = Len(s)
        /\ s[i] = Op("iretq") => line \in {Timer, Keyboard, NoLine}
  BY DEF HandlerProgram
<1>6. ASSUME NEW i \in 1 .. n
      PROVE  /\ t[i] = Op("eoi") => line \in {Timer, Keyboard} /\ i + 2 = n
             /\ t[i] = Op("iretq") => line \in {Timer, Keyboard, NoLine}
  <2>1. (i + 1) + 2 = Len(s) => i + 2 = n
    BY <1>4
  <2> QED BY <1>4, <1>5, <2>1
<1>7. HandlerProgram(t, line)
  BY <1>2, <1>3, <1>4, <1>6 DEF HandlerProgram
<1>8. Range(t) = {t[i] : i \in 1 .. n} /\ Range(s) = {s[i] : i \in 1 .. Len(s)}
  BY <1>1, <1>4, RangeEquality, ZenonT(40)
<1>9. ASSUME s[1] = Op("eoi") PROVE Op("eoi") \notin Range(t)
  <2>1. n = 2
    BY <1>4, <1>5, <1>9
  <2>2. \A i \in 1 .. n : i + 2 # n
    BY <2>1
  <2> QED BY <1>6, <1>8, <2>2
<1>10. ASSUME s[1] # Op("eoi") PROVE Op("eoi") \in Range(t) <=> Op("eoi") \in Range(s)
  <2>1. Range(t) \subseteq Range(s)
    BY <1>4, <1>8
  <2>2. ASSUME NEW i \in 1 .. Len(s), i # 1 PROVE s[i] \in Range(t)
    <3>1. i - 1 \in 1 .. n /\ (i - 1) + 1 = i
      BY <1>4, <2>2
    <3> QED BY <1>4, <1>8, <3>1, SMTT(30)
  <2> QED BY <1>8, <1>10, <2>1, <2>2, Zenon
<1> QED BY <1>3, <1>7, <1>9, <1>10

-----------------------------------------------------------------------------
(* Programs are put together from pieces, in each of which every lock is   *)
(* released and every message ends.                                        *)

(* u is s, of m operations, followed by t, of n operations. *)
Joined(u, s, t, m, n) ==
  /\ m = Len(s) /\ n = Len(t) /\ Len(u) = m + n
  /\ \A i \in 1 .. m : u[i] = s[i]
  /\ \A j \in 1 .. n : u[m + j] = t[j]
  /\ \A i \in 1 .. m + n : i > m => i - m \in 1 .. n /\ u[i] = t[i - m]

(* Where an operation of two joined programs comes from. *)
LEMMA JoinAt ==
  ASSUME NEW S, NEW s \in Seq(S), NEW t \in Seq(S)
  PROVE  \E u \in Seq(S) : u = s \o t /\ \E m, n \in Nat : Joined(u, s, t, m, n)
<1>1. PICK m, n \in Nat : m = Len(s) /\ n = Len(t)
  OBVIOUS
<1>2. s \o t \in Seq(S) /\ Len(s \o t) = m + n
  BY <1>1, ConcatProperties
<1>3. PICK u \in Seq(S) : u = s \o t
  BY <1>2, Zenon
<1>4. /\ \A i \in 1 .. m : u[i] = s[i]
      /\ \A i \in 1 .. m + n : i > m => i - m \in 1 .. n /\ u[i] = t[i - m]
  BY <1>1, <1>3
<1>5. ASSUME NEW j \in 1 .. n PROVE u[m + j] = t[j]
  <2>1. m + j \in 1 .. m + n /\ m + j > m /\ (m + j) - m = j
    OBVIOUS
  <2> QED BY <1>4, <2>1
<1> QED BY <1>1, <1>2, <1>3, <1>4, <1>5, ZenonT(40) DEF Joined

Piece(s) ==
  /\ s \in Seq(Operations \ Stops) \ {<< >>}
  /\ \A r \in Rules : Follows(s, r[1], r[2]) /\ s[Len(s)] \notin r[1] /\ s[1] \notin r[2]

(* A rule holds of two joined programs when it holds of both and does not  *)
(* reach across.                                                           *)
LEMMA FollowsJoin ==
  ASSUME NEW S, NEW s \in Seq(S), NEW t \in Seq(S), s # << >>, t # << >>,
         NEW a, NEW b, Follows(s, a, b), Follows(t, a, b),
         s[Len(s)] \notin a, t[1] \notin b
  PROVE  Follows(s \o t, a, b)
<1>0. PICK u \in Seq(S) : u = s \o t /\ \E m, n \in Nat : Joined(u, s, t, m, n)
  BY JoinAt, Zenon
<1>1. PICK m, n \in Nat :
           /\ m = Len(s) /\ n = Len(t) /\ Len(u) = m + n
           /\ \A i \in 1 .. m : u[i] = s[i]
           /\ \A j \in 1 .. n : u[m + j] = t[j]
           /\ \A i \in 1 .. m + n : i > m => i - m \in 1 .. n /\ u[i] = t[i - m]
  BY <1>0, Zenon DEF Joined
<1>2. m > 0 /\ n > 0
  BY <1>1, EmptySeq
<1>3. ASSUME NEW i \in 1 .. m + n - 1 PROVE u[i] \in a <=> u[i + 1] \in b
  <2>1. CASE i < m
    <3>1. i \in 1 .. m - 1 /\ i \in 1 .. m /\ i + 1 \in 1 .. m
      BY <2>1
    <3>2. s[i] \in a <=> s[i + 1] \in b
      BY <1>1, <3>1 DEF Follows
    <3> QED BY <1>1, <3>1, <3>2
  <2>2. CASE i = m
    <3>1. u[i] = s[m] /\ u[i + 1] = t[1]
      BY <1>1, <1>2, <2>2
    <3> QED BY <1>1, <3>1
  <2>3. CASE i > m
    <3>1. PICK j \in 1 .. n : j = i - m
      <4>1. i - m \in 1 .. n
        BY <2>3
      <4> QED BY <4>1
    <3>2. j \in 1 .. n - 1 /\ j + 1 \in 1 .. n /\ i = m + j /\ i + 1 = m + (j + 1)
      BY <3>1
    <3>3. u[i] = t[j] /\ u[i + 1] = t[j + 1]
      BY <1>1, <3>2
    <3>4. t[j] \in a <=> t[j + 1] \in b
      BY <1>1, <3>2 DEF Follows
    <3> QED BY <3>3, <3>4
  <2>4. i < m \/ i = m \/ i > m
    OBVIOUS
  <2> QED BY <2>1, <2>2, <2>3, <2>4
<1>4. Follows(u, a, b)
  BY <1>1, <1>3 DEF Follows
<1> QED BY <1>0, <1>4

(* Pieces can be joined. *)
LEMMA PieceJoin ==
  ASSUME NEW s, NEW t, Piece(s), Piece(t)
  PROVE  Piece(s \o t)
<1>1. /\ s \in Seq(Operations \ Stops) /\ s # << >>
      /\ t \in Seq(Operations \ Stops) /\ t # << >>
  BY DEF Piece
<1>2. PICK u \in Seq(Operations \ Stops) :
        u = s \o t /\ \E m, n \in Nat : Joined(u, s, t, m, n)
  BY <1>1, JoinAt, Zenon
<1>3. PICK m, n \in Nat :
           /\ m = Len(s) /\ n = Len(t) /\ Len(u) = m + n
           /\ \A i \in 1 .. m : u[i] = s[i]
           /\ \A j \in 1 .. n : u[m + j] = t[j]
  BY <1>2, Zenon DEF Joined
<1>4. m > 0 /\ n > 0
  BY <1>1, <1>3, EmptySeq
<1>5. u[1] = s[1] /\ u[m + n] = t[n] /\ u # << >>
  BY <1>3, <1>4
<1>6. ASSUME NEW r \in Rules
      PROVE  Follows(u, r[1], r[2]) /\ u[Len(u)] \notin r[1] /\ u[1] \notin r[2]
  <2>1. /\ Follows(s, r[1], r[2]) /\ s[Len(s)] \notin r[1] /\ s[1] \notin r[2]
        /\ Follows(t, r[1], r[2]) /\ t[Len(t)] \notin r[1] /\ t[1] \notin r[2]
    BY DEF Piece
  <2>2. Follows(u, r[1], r[2])
    BY <1>1, <1>2, <2>1, FollowsJoin
  <2> QED BY <1>3, <1>5, <2>1, <2>2
<1> QED BY <1>2, <1>5, <1>6 DEF Piece

(* The operations in which a program can stop are in no rule. *)
LEMMA StopsFree ==
  /\ Stops \subseteq Operations
  /\ \A e \in Stops, r \in Rules : e \notin r[1] /\ e \notin r[2]
BY OperationsDiffer DEF Stops, Rules, Operations

(* A piece and the operation in which its context stops make a program. *)
LEMMA PieceStops ==
  ASSUME NEW s, Piece(s), NEW e \in Stops
  PROVE  Structured(s \o <<e>>)
<1>1. /\ s \in Seq(Operations \ Stops) /\ s # << >> /\ e \in Operations
  BY StopsFree DEF Piece
<1>2. PICK t : t = <<e>>
  BY Zenon
<1>3. /\ s \in Seq(Operations) /\ t \in Seq(Operations) /\ t # << >>
      /\ Len(t) = 1 /\ t[1] = e
  BY <1>1, <1>2
<1>4. PICK u \in Seq(Operations) : u = s \o t /\ \E m, n \in Nat : Joined(u, s, t, m, n)
  BY <1>3, JoinAt, Zenon
<1>5. PICK m, n \in Nat :
           /\ m = Len(s) /\ n = Len(t) /\ Len(u) = m + n
           /\ \A i \in 1 .. m : u[i] = s[i]
           /\ \A j \in 1 .. n : u[m + j] = t[j]
  BY <1>4, Zenon DEF Joined
<1>6. ASSUME NEW r \in Rules PROVE Follows(u, r[1], r[2])
  <2>1. Follows(s, r[1], r[2]) /\ s[Len(s)] \notin r[1] /\ t[1] \notin r[2]
    BY <1>3, StopsFree DEF Piece
  <2>2. Follows(t, r[1], r[2])
    BY <1>3 DEF Follows
  <2> QED BY <1>1, <1>3, <1>4, <2>1, <2>2, FollowsJoin
<1>7. ASSUME NEW i \in 1 .. Len(u) PROVE u[i] \in Stops <=> i = Len(u)
  <2>1. n = 1 /\ Len(u) = m + 1 /\ u[m + 1] = e
    BY <1>3, <1>5
  <2>2. CASE i \in 1 .. m
    <3>1. s[i] \notin Stops
      BY <1>1, <1>5, <2>2
    <3> QED BY <1>5, <2>1, <2>2, <3>1
  <2>3. CASE i = m + 1
    BY <2>1, <2>3
  <2> QED BY <2>1, <2>2, <2>3
<1>8. u # << >>
  BY <1>3, <1>5
<1> QED BY <1>2, <1>4, <1>6, <1>7, <1>8 DEF Structured

(* The order of two operations in joined programs. *)
LEMMA PrecededJoin ==
  ASSUME NEW S, NEW s \in Seq(S), NEW t \in Seq(S), NEW op, NEW other,
         Preceded(s, op, other),
         Preceded(t, op, other) \/ \E i \in 1 .. Len(s) : s[i] = other
  PROVE  Preceded(s \o t, op, other)
<1>1. PICK u \in Seq(S) : u = s \o t /\ \E m, n \in Nat : Joined(u, s, t, m, n)
  BY JoinAt, Zenon
<1>2. PICK m, n \in Nat :
           /\ m = Len(s) /\ n = Len(t) /\ Len(u) = m + n
           /\ \A i \in 1 .. m : u[i] = s[i]
           /\ \A j \in 1 .. n : u[m + j] = t[j]
           /\ \A i \in 1 .. m + n : i > m => i - m \in 1 .. n /\ u[i] = t[i - m]
  BY <1>1, Zenon DEF Joined
<1>3. ASSUME NEW i \in 1 .. m + n, u[i] = op PROVE \E j \in 1 .. i - 1 : u[j] = other
  <2>1. CASE i <= m
    <3>1. i \in 1 .. m /\ s[i] = op
      BY <1>2, <1>3, <2>1
    <3>2. PICK j \in 1 .. i - 1 : s[j] = other
      BY <1>2, <3>1 DEF Preceded
    <3>3. j \in 1 .. m
      BY <2>1, <3>2
    <3> QED BY <1>2, <3>2, <3>3
  <2>2. CASE i > m
    <3>1. PICK k \in 1 .. n : k = i - m /\ u[i] = t[k]
      BY <1>2, <2>2
    <3>2. CASE \E j \in 1 .. Len(s) : s[j] = other
      <4>1. PICK j \in 1 .. m : s[j] = other
        BY <1>2, <3>2
      <4>2. j \in 1 .. i - 1
        BY <2>2, <4>1
      <4> QED BY <1>2, <4>1, <4>2
    <3>3. CASE Preceded(t, op, other)
      <4>1. PICK j \in 1 .. k - 1 : t[j] = other
        BY <1>2, <1>3, <3>1, <3>3, Zenon DEF Preceded
      <4>2. j \in 1 .. n /\ m + j \in 1 .. i - 1
        BY <3>1, <4>1
      <4> QED BY <1>2, <4>1, <4>2
    <3> QED BY <3>2, <3>3
  <2> QED BY <2>1, <2>2
<1>4. Preceded(u, op, other)
  BY <1>2, <1>3, Zenon DEF Preceded
<1> QED BY <1>1, <1>4

-----------------------------------------------------------------------------
(* The programs of the handlers and of main. *)

(* A message is a piece. *)
LEMMA PrintPiece ==
  /\ Piece(print)
  /\ print \in Seq(MainOperations) /\ print \in Seq(HandlerOperations)
  /\ Len(print) = 4 /\ print[1] = Lock("SERIAL")
  /\ \A i \in 1 .. 4 : print[i] \notin {Op("eoi"), Op("iretq"), Op("sti"), Op("load_idt")}
<1>1. /\ Len(print) = 4 /\ print # << >>
      /\ print[1] = Lock("SERIAL") /\ print[2] = Op("send_first")
      /\ print[3] = Op("send_last") /\ print[4] = Unlock("SERIAL")
  BY DEF print
<1>2. \A i \in 1 .. 4 : i \in {1, 2, 3, 4}
  OBVIOUS
<1>3. \A S : (\A i \in 1 .. 4 : print[i] \in S) => print \in Seq(S)
  BY DEF print
<1>4. \A i \in 1 .. 4 : print[i] \notin Stops \cup {Op("eoi"), Op("iretq"), Op("sti"), Op("load_idt")}
  BY <1>1, <1>2, OperationsDiffer DEF Stops
<1>5. \A i \in 1 .. 4 : print[i] \in HandlerOperations
  BY <1>1, <1>2 DEF HandlerOperations
<1>6. \A i \in 1 .. 4 : print[i] \in Operations
  <2>1. Lock("SERIAL") \in Operations /\ Unlock("SERIAL") \in Operations
    BY DEF Operations, Locks, Lock, Unlock
  <2>2. Op("send_first") \in Operations /\ Op("send_last") \in Operations
    BY DEF Operations
  <2> QED BY <1>1, <1>2, <2>1, <2>2
<1>7. \A i \in 1 .. 4 : print[i] \in MainOperations
  BY <1>4, <1>6 DEF MainOperations, Stops
<1>8. ASSUME NEW r \in Rules
      PROVE  Follows(print, r[1], r[2]) /\ print[4] \notin r[1] /\ print[1] \notin r[2]
  <2>1. \A i \in 1 .. 4 - 1 : i \in {1, 2, 3}
    OBVIOUS
  <2>2. print[1] \in r[1] <=> print[2] \in r[2]
    BY <1>1, OperationsDiffer DEF Rules
  <2>3. print[2] \in r[1] <=> print[3] \in r[2]
    BY <1>1, OperationsDiffer DEF Rules
  <2>4. print[3] \in r[1] <=> print[4] \in r[2]
    BY <1>1, OperationsDiffer DEF Rules
  <2>5. print[4] \notin r[1] /\ print[1] \notin r[2]
    BY <1>1, OperationsDiffer DEF Rules
  <2> QED BY <1>1, <2>1, <2>2, <2>3, <2>4, <2>5 DEF Follows
<1>9. print \in Seq(Operations \ Stops)
  BY <1>3, <1>4, <1>6
<1> QED BY <1>1, <1>3, <1>4, <1>5, <1>7, <1>8, <1>9 DEF Piece

(* PICS is locked around one operation on the PICs. *)
LEMMA PicsPiece ==
  ASSUME NEW o \in {Op("eoi"), Op("remap")}, NEW s, s = <<Lock("PICS"), o, Unlock("PICS")>>
  PROVE  Piece(s)
<1>1. Len(s) = 3 /\ s # << >> /\ s[1] = Lock("PICS") /\ s[2] = o /\ s[3] = Unlock("PICS")
  OBVIOUS
<1>2. /\ Lock("PICS") \in Operations \ Stops /\ o \in Operations \ Stops
      /\ Unlock("PICS") \in Operations \ Stops
  <2>1. Lock("PICS") \in Operations /\ o \in Operations /\ Unlock("PICS") \in Operations
    BY DEF Operations, Locks, Lock, Unlock
  <2> QED BY <2>1, OperationsDiffer DEF Stops
<1>3. s \in Seq(Operations \ Stops)
  BY <1>2
<1>4. ASSUME NEW r \in Rules
      PROVE  Follows(s, r[1], r[2]) /\ s[3] \notin r[1] /\ s[1] \notin r[2]
  <2>1. \A i \in 1 .. 3 - 1 : i \in {1, 2}
    OBVIOUS
  <2>2. s[1] \in r[1] <=> s[2] \in r[2]
    BY <1>1, OperationsDiffer DEF Rules
  <2>3. s[2] \in r[1] <=> s[3] \in r[2]
    BY <1>1, OperationsDiffer DEF Rules
  <2>4. s[3] \notin r[1] /\ s[1] \notin r[2]
    BY <1>1, OperationsDiffer DEF Rules
  <2> QED BY <1>1, <2>1, <2>2, <2>3, <2>4 DEF Follows
<1> QED BY <1>1, <1>3, <1>4 DEF Piece

(* The operations of main that no rule is about. *)
Free ==
  {Lock("ALLOCATOR"), Unlock("ALLOCATOR"), Op("load_gdt"), Op("load_idt"), Op("sti"), Op("int3")}

(* They are main's, and its context does not stop in one. *)
LEMMA FreeFacts ==
  /\ Free \subseteq Operations \ Stops /\ Free \subseteq MainOperations
  /\ \A e \in Free, r \in Rules : e \notin r[1] /\ e \notin r[2]
<1>1. Free \subseteq Operations
  BY DEF Operations, Locks, Lock, Unlock, Free
<1>2. \A e \in Free : e \notin Stops \cup {Op("eoi"), Op("loop"), Op("iretq")}
  BY OperationsDiffer DEF Stops, Free
<1>3. \A e \in Free, r \in Rules : e \notin r[1] /\ e \notin r[2]
  BY OperationsDiffer DEF Rules, Free
<1> QED BY <1>1, <1>2, <1>3 DEF MainOperations

(* Each of them is a piece. *)
LEMMA FreePiece ==
  ASSUME NEW e \in Free
  PROVE  Piece(<<e>>)
<1>1. PICK s : s = <<e>>
  BY Zenon
<1>2. Len(s) = 1 /\ s[1] = e /\ s # << >> /\ s \in Seq(Operations \ Stops)
  BY <1>1, FreeFacts
<1>3. \A r \in Rules : Follows(s, r[1], r[2])
  BY <1>2 DEF Follows
<1> QED BY <1>1, <1>2, <1>3, FreeFacts DEF Piece

(* Two of them in a row are one, too. *)
LEMMA FreePair ==
  ASSUME NEW e \in Free, NEW f \in Free
  PROVE  Piece(<<e, f>>)
<1>1. PICK s : s = <<e, f>>
  BY Zenon
<1>2. /\ Len(s) = 2 /\ s[1] = e /\ s[2] = f /\ s # << >>
      /\ s \in Seq(Operations \ Stops)
  BY <1>1, FreeFacts
<1>3. ASSUME NEW r \in Rules PROVE Follows(s, r[1], r[2])
  <2>1. s[1] \notin r[1] /\ s[2] \notin r[2]
    BY <1>2, FreeFacts
  <2>2. \A i \in 1 .. Len(s) - 1 : i = 1 /\ i + 1 = 2
    BY <1>2
  <2> QED BY <2>1, <2>2 DEF Follows
<1> QED BY <1>1, <1>2, <1>3, FreeFacts DEF Piece

Has(s, op) == \E i \in 1 .. Len(s) : s[i] = op

(* Interrupts are enabled after the PICs are remapped and the IDT is       *)
(* loaded, which happens after the GDT is.                                 *)
Ordered(s) ==
  /\ Preceded(s, Op("sti"), Op("remap"))
  /\ Preceded(s, Op("sti"), Op("load_idt"))
  /\ Preceded(s, Op("load_idt"), Op("load_gdt"))

MainPiece(s) == Piece(s) /\ s \in Seq(MainOperations) /\ Ordered(s)

(* A part of main that neither enables interrupts nor loads the IDT. *)
LEMMA QuietOrdered ==
  ASSUME NEW s, \A i \in 1 .. Len(s) : s[i] # Op("sti") /\ s[i] # Op("load_idt")
  PROVE  Ordered(s)
BY DEF Ordered, Preceded

(* An operation of two joined programs. *)
LEMMA HasJoin ==
  ASSUME NEW S, NEW s \in Seq(S), NEW t \in Seq(S), NEW op, Has(s, op) \/ Has(t, op)
  PROVE  Has(s \o t, op)
<1>1. PICK u \in Seq(S) : u = s \o t /\ \E m, n \in Nat : Joined(u, s, t, m, n)
  BY JoinAt, Zenon
<1>2. PICK m, n \in Nat :
           /\ m = Len(s) /\ n = Len(t) /\ Len(u) = m + n
           /\ \A i \in 1 .. m : u[i] = s[i]
           /\ \A j \in 1 .. n : u[m + j] = t[j]
  BY <1>1, Zenon DEF Joined
<1>3. (\A i \in 1 .. m : i \in 1 .. m + n) /\ (\A j \in 1 .. n : m + j \in 1 .. m + n)
  OBVIOUS
<1>4. Has(u, op)
  BY <1>2, <1>3, Zenon DEF Has
<1> QED BY <1>1, <1>4

(* How main goes on. *)
LEMMA MainJoin ==
  ASSUME NEW s, NEW t, MainPiece(s), Piece(t), t \in Seq(MainOperations),
         Preceded(t, Op("sti"), Op("remap")) \/ Has(s, Op("remap")),
         Preceded(t, Op("sti"), Op("load_idt")) \/ Has(s, Op("load_idt")),
         Preceded(t, Op("load_idt"), Op("load_gdt")) \/ Has(s, Op("load_gdt"))
  PROVE  MainPiece(s \o t)
<1>1. Piece(s \o t)
  BY PieceJoin DEF MainPiece
<1>2. s \o t \in Seq(MainOperations)
  BY ConcatProperties DEF MainPiece
<1>3. Ordered(s \o t)
  BY PrecededJoin DEF MainPiece, Ordered, Has
<1> QED BY <1>1, <1>2, <1>3 DEF MainPiece

(* Main goes on with a quiet piece. *)
LEMMA QuietJoin ==
  ASSUME NEW s, NEW t, MainPiece(s), MainPiece(t)
  PROVE  MainPiece(s \o t)
BY MainJoin DEF MainPiece, Ordered

(* The quiet pieces of main. *)
LEMMA QuietPieces ==
  /\ MainPiece(print)
  /\ \A e \in Free \ {Op("sti"), Op("load_idt")} : MainPiece(<<e>>)
  /\ MainPiece(<<Lock("ALLOCATOR"), Unlock("ALLOCATOR")>>)
  /\ MainPiece(<<Lock("PICS"), Op("remap"), Unlock("PICS")>>)
<1>1. MainPiece(print)
  BY PrintPiece, QuietOrdered DEF MainPiece
<1>2. ASSUME NEW e \in Free \ {Op("sti"), Op("load_idt")} PROVE MainPiece(<<e>>)
  <2>1. PICK s : s = <<e>>
    BY Zenon
  <2>2. s \in Seq(MainOperations) /\ Len(s) = 1 /\ s[1] = e
    BY <2>1, FreeFacts
  <2>3. Ordered(s)
    BY <2>2, QuietOrdered
  <2> QED BY <2>1, <2>2, <2>3, FreePiece DEF MainPiece
<1>3. MainPiece(<<Lock("ALLOCATOR"), Unlock("ALLOCATOR")>>)
  <2>1. PICK s : s = <<Lock("ALLOCATOR"), Unlock("ALLOCATOR")>>
    BY Zenon
  <2>2. Lock("ALLOCATOR") \in Free /\ Unlock("ALLOCATOR") \in Free
    BY DEF Free
  <2>3. /\ s \in Seq(MainOperations) /\ Len(s) = 2
        /\ s[1] = Lock("ALLOCATOR") /\ s[2] = Unlock("ALLOCATOR")
    BY <2>1, <2>2, FreeFacts
  <2>4. \A i \in 1 .. 2 : i \in {1, 2}
    OBVIOUS
  <2>5. Ordered(s)
    BY <2>3, <2>4, QuietOrdered, OperationsDiffer
  <2> QED BY <2>1, <2>2, <2>3, <2>5, FreePair DEF MainPiece
<1>4. MainPiece(<<Lock("PICS"), Op("remap"), Unlock("PICS")>>)
  <2>1. PICK s : s = <<Lock("PICS"), Op("remap"), Unlock("PICS")>>
    BY Zenon
  <2>2. Lock("PICS") \in Operations /\ Op("remap") \in Operations /\ Unlock("PICS") \in Operations
    BY DEF Operations, Locks, Lock, Unlock
  <2>3. /\ Lock("PICS") \in MainOperations /\ Op("remap") \in MainOperations
        /\ Unlock("PICS") \in MainOperations
    BY <2>2, OperationsDiffer DEF MainOperations
  <2>4. /\ s \in Seq(MainOperations) /\ Len(s) = 3
        /\ s[1] = Lock("PICS") /\ s[2] = Op("remap") /\ s[3] = Unlock("PICS")
    BY <2>1, <2>3
  <2>5. \A i \in 1 .. 3 : i \in {1, 2, 3}
    OBVIOUS
  <2>6. Ordered(s)
    BY <2>4, <2>5, QuietOrdered, OperationsDiffer
  <2> QED BY <2>1, <2>4, <2>6, PicsPiece DEF MainPiece
<1> QED BY <1>1, <1>2, <1>3, <1>4

(* interrupts::init does things in that order. *)
LEMMA InitPiece == MainPiece(init)
<1>1. /\ {Op("load_gdt"), Op("load_idt"), Op("sti")} \subseteq Free
      /\ Op("load_gdt") \notin {Op("sti"), Op("load_idt")}
  BY OperationsDiffer DEF Free
<1>2. ASSUME NEW e \in Free
      PROVE  Piece(<<e>>) /\ <<e>> \in Seq(MainOperations) /\ Has(<<e>>, e)
  BY FreePiece, FreeFacts DEF Has
<1>3. ASSUME NEW e, NEW op, NEW other, e # op PROVE Preceded(<<e>>, op, other)
  BY <1>3 DEF Preceded
<1>4. PICK a : a = <<Op("load_gdt")>> \o print
  BY Zenon
<1>5. MainPiece(a) /\ Has(a, Op("load_gdt"))
  <2>1. MainPiece(<<Op("load_gdt")>>) /\ MainPiece(print)
    BY <1>1, QuietPieces
  <2>2. MainPiece(a)
    BY <1>4, <2>1, QuietJoin
  <2>3. Has(a, Op("load_gdt"))
    BY <1>1, <1>2, <1>4, <2>1, HasJoin, Zenon DEF MainPiece
  <2> QED BY <2>2, <2>3
<1>6. PICK b : b = a \o <<Op("load_idt")>>
  BY Zenon
<1>7. MainPiece(b) /\ Has(b, Op("load_idt"))
  <2>1. Op("load_idt") # Op("sti")
    BY OperationsDiffer
  <2>2. MainPiece(b)
    BY <1>1, <1>2, <1>3, <1>5, <1>6, <2>1, MainJoin, Zenon
  <2>3. Has(b, Op("load_idt"))
    BY <1>1, <1>2, <1>5, <1>6, HasJoin, Zenon DEF MainPiece
  <2> QED BY <2>2, <2>3
<1>8. PICK c : c = b \o <<Lock("PICS"), Op("remap"), Unlock("PICS")>>
  BY Zenon
<1>9. MainPiece(c) /\ Has(c, Op("load_idt")) /\ Has(c, Op("remap"))
  <2>1. PICK t : t = <<Lock("PICS"), Op("remap"), Unlock("PICS")>>
    BY Zenon
  <2>2. MainPiece(t) /\ MainPiece(c)
    BY <1>7, <1>8, <2>1, QuietPieces, QuietJoin
  <2>3. Has(t, Op("remap"))
    BY <2>1 DEF Has
  <2>4. b \in Seq(MainOperations) /\ t \in Seq(MainOperations)
    BY <1>7, <2>2 DEF MainPiece
  <2>5. c = b \o t
    BY <1>8, <2>1
  <2>6. Has(c, Op("load_idt"))
    BY <1>7, <2>4, <2>5, HasJoin
  <2>7. Has(c, Op("remap"))
    BY <2>3, <2>4, <2>5, HasJoin
  <2> QED BY <2>2, <2>6, <2>7
<1>10. MainPiece(c \o <<Op("sti")>>)
  <2>1. Op("sti") # Op("load_idt")
    BY OperationsDiffer
  <2> QED BY <1>1, <1>2, <1>3, <1>9, <2>1, MainJoin, Zenon
<1> QED BY <1>4, <1>6, <1>8, <1>10 DEF init

(* Main, as far as its program alone tells. *)
LEMMA StartProgram ==
  /\ Structured(start) /\ start \in Seq(MainOperations) /\ Ordered(start)
  /\ \A r \in Rules : Head(start) \notin r[2]
<1> DEFINE aa == <<Lock("ALLOCATOR"), Unlock("ALLOCATOR")>>
           a1 == print \o init
           a2 == a1 \o aa
           a3 == a2 \o print
           a4 == a3 \o <<Lock("ALLOCATOR")>>
           a5 == a4 \o print
           a6 == a5 \o <<Unlock("ALLOCATOR")>>
           a7 == a6 \o aa
           a8 == a7 \o print
           a9 == a8 \o <<Op("int3")>>
<1>1. start = a9 \o <<Op("hlt")>>
  BY DEF start
<1>2. /\ MainPiece(print) /\ MainPiece(aa) /\ MainPiece(<<Lock("ALLOCATOR")>>)
      /\ MainPiece(<<Unlock("ALLOCATOR")>>) /\ MainPiece(<<Op("int3")>>)
  <2>1. {Lock("ALLOCATOR"), Unlock("ALLOCATOR"), Op("int3")} \subseteq Free \ {Op("sti"), Op("load_idt")}
    BY OperationsDiffer DEF Free
  <2> QED BY <2>1, QuietPieces
<1> HIDE DEF aa
<1>3. MainPiece(a2)
  BY <1>2, InitPiece, QuietJoin
<1> HIDE DEF a2
<1>4. MainPiece(a4)
  BY <1>2, <1>3, QuietJoin
<1> HIDE DEF a4
<1>5. MainPiece(a6)
  BY <1>2, <1>4, QuietJoin
<1> HIDE DEF a6
<1>6. MainPiece(a8)
  BY <1>2, <1>5, QuietJoin
<1> HIDE DEF a8
<1>7. MainPiece(a9)
  BY <1>2, <1>6, QuietJoin
<1> HIDE DEF a9
<1>8. Op("hlt") \in Stops /\ Op("hlt") \in MainOperations
  <2>1. Op("hlt") \in Operations
    BY DEF Operations
  <2> QED BY <2>1, OperationsDiffer DEF Stops, MainOperations
<1>9. Structured(start)
  BY <1>1, <1>7, <1>8, PieceStops DEF MainPiece
<1>10. PICK t : t = <<Op("hlt")>> /\ t \in Seq(MainOperations) /\ Ordered(t)
  <2>1. <<Op("hlt")>> \in Seq(MainOperations)
    BY <1>8
  <2>2. PICK t : t = <<Op("hlt")>>
    BY Zenon
  <2>3. Len(t) = 1 /\ t[1] = Op("hlt")
    BY <2>2
  <2>4. Ordered(t)
    BY <2>3, QuietOrdered, OperationsDiffer
  <2> QED BY <2>1, <2>2, <2>4, Zenon
<1>11. start = a9 \o t /\ start \in Seq(MainOperations)
  BY <1>1, <1>7, <1>10, ConcatProperties DEF MainPiece
<1>12. Ordered(start)
  BY <1>7, <1>10, <1>11, PrecededJoin, Zenon DEF MainPiece, Ordered
<1>13. ASSUME NEW r \in Rules PROVE Head(start) \notin r[2]
  <2>1. a9 \in Seq(MainOperations) /\ a9 # << >> /\ a9[1] \notin r[2]
    BY <1>7 DEF MainPiece, Piece
  <2>2. PICK u \in Seq(MainOperations) :
          u = a9 \o t /\ \E m, n \in Nat : Joined(u, a9, t, m, n)
    BY <1>10, <2>1, JoinAt, Zenon
  <2>3. PICK m, n \in Nat : m = Len(a9) /\ \A i \in 1 .. m : u[i] = a9[i]
    BY <2>2, Zenon DEF Joined
  <2>4. u[1] = a9[1]
    BY <2>1, <2>3, TailAt
  <2>5. Head(start) = start[1]
    BY <1>9, <1>11, TailAt DEF Structured
  <2> QED BY <1>11, <2>1, <2>2, <2>4, <2>5
<1> QED BY <1>9, <1>11, <1>12, <1>13, Zenon

(* The handlers that report and return, or loop. *)
LEMMA ReportPrograms ==
  /\ HandlerProgram(reporting_handler, NoLine)
  /\ \A line : HandlerProgram(fatal_handler, line)
  /\ Op("eoi") \notin Range(reporting_handler)
  /\ Head(reporting_handler) = Lock("SERIAL") /\ Head(fatal_handler) = Lock("SERIAL")
<1>1. ASSUME NEW e \in {Op("iretq"), Op("loop")}, NEW line, e = Op("iretq") => line = NoLine
      PROVE  /\ HandlerProgram(print \o <<e>>, line) /\ Op("eoi") \notin Range(print \o <<e>>)
             /\ Head(print \o <<e>>) = Lock("SERIAL")
  <2>1. PICK t : t = <<e>>
    BY Zenon
  <2>2. e \in Stops /\ e \in HandlerOperations /\ e # Op("eoi")
    BY OperationsDiffer DEF Stops, HandlerOperations
  <2>3. t \in Seq(HandlerOperations) /\ Len(t) = 1 /\ t[1] = e
    BY <2>1, <2>2
  <2>4. PICK u \in Seq(HandlerOperations) :
          u = print \o t /\ \E m, n \in Nat : Joined(u, print, t, m, n)
    BY <2>3, PrintPiece, JoinAt, Zenon
  <2>5. /\ Len(u) = 5 /\ u[5] = e /\ \A i \in 1 .. 4 : u[i] = print[i]
    <3>1. PICK m, n \in Nat :
           /\ m = Len(print) /\ n = Len(t) /\ Len(u) = m + n
           /\ \A i \in 1 .. m : u[i] = print[i]
           /\ \A j \in 1 .. n : u[m + j] = t[j]
      BY <2>4, Zenon DEF Joined
    <3>2. m = 4 /\ n = 1 /\ m + n = 5 /\ m + 1 = 5
      BY <2>3, <3>1, PrintPiece
    <3> QED BY <2>3, <3>1, <3>2
  <2>6. \A i \in 1 .. Len(u) : u[i] # Op("eoi") /\ (u[i] = Op("iretq") => line = NoLine)
    <3>1. \A i \in 1 .. 5 : i \in 1 .. 4 \/ i = 5
      OBVIOUS
    <3> QED BY <1>1, <2>2, <2>5, <3>1, PrintPiece
  <2>7. Structured(u)
    BY <2>1, <2>2, <2>4, PrintPiece, PieceStops
  <2>8. HandlerProgram(u, line)
    BY <2>4, <2>6, <2>7 DEF HandlerProgram
  <2>9. Range(u) = {u[i] : i \in 1 .. Len(u)}
    BY RangeEquality
  <2>10. Head(u) = Lock("SERIAL")
    <3>1. u # << >>
      <4>1. Len(u) = 5
        BY <2>5
      <4> QED BY <4>1, EmptySeq
    <3> QED BY <2>4, <2>5, <3>1, TailAt, PrintPiece
  <2> QED BY <2>1, <2>4, <2>6, <2>8, <2>9, <2>10
<1>2. Op("loop") # Op("iretq")
  BY OperationsDiffer
<1> QED BY <1>1, <1>2 DEF reporting_handler, fatal_handler

(* The handlers of timer and keyboard tell the PIC before they return. *)
LEMMA NotifyPrograms ==
  ASSUME NEW line \in {Timer, Keyboard},
         NEW s \in {timer_interrupt_handler, keyboard_interrupt_handler}
  PROVE  HandlerProgram(s, line) /\ Op("eoi") \in Range(s) /\ Head(s) = Lock("SERIAL")
<1>1. s = (print \o Notify) \o <<Op("iretq")>>
  BY DEF timer_interrupt_handler, keyboard_interrupt_handler
<1>2. /\ Piece(Notify) /\ Notify \in Seq(HandlerOperations) /\ Len(Notify) = 3
      /\ Notify[1] = Lock("PICS") /\ Notify[2] = Op("eoi") /\ Notify[3] = Unlock("PICS")
  <2>1. Piece(Notify)
    BY PicsPiece DEF Notify
  <2>2. /\ Len(Notify) = 3 /\ Notify[1] = Lock("PICS") /\ Notify[2] = Op("eoi")
        /\ Notify[3] = Unlock("PICS")
    BY DEF Notify
  <2>3. Lock("PICS") \in HandlerOperations /\ Op("eoi") \in HandlerOperations /\ Unlock("PICS") \in HandlerOperations
    BY DEF HandlerOperations
  <2>4. Notify \in Seq(HandlerOperations)
    BY <2>3 DEF Notify
  <2> QED BY <2>1, <2>2, <2>4
<1>3. PICK u \in Seq(HandlerOperations) :
        u = print \o Notify /\ \E m, n \in Nat : Joined(u, print, Notify, m, n)
  BY <1>2, PrintPiece, JoinAt, Zenon
<1>4. /\ Len(u) = 7 /\ \A i \in 1 .. 4 : u[i] = print[i]
      /\ u[5] = Lock("PICS") /\ u[6] = Op("eoi") /\ u[7] = Unlock("PICS")
  <2>1. PICK m, n \in Nat :
           /\ m = Len(print) /\ n = Len(Notify) /\ Len(u) = m + n
           /\ \A i \in 1 .. m : u[i] = print[i]
           /\ \A j \in 1 .. n : u[m + j] = Notify[j]
    BY <1>3, Zenon DEF Joined
  <2>2. m = 4 /\ n = 3 /\ m + n = 7 /\ m + 1 = 5 /\ m + 2 = 6 /\ m + 3 = 7
    BY <1>2, <2>1, PrintPiece
  <2> QED BY <1>2, <2>1, <2>2
<1>5. Piece(u)
  BY <1>2, <1>3, PrintPiece, PieceJoin
<1>6. PICK t : t = <<Op("iretq")>>
  BY Zenon
<1>7. t \in Seq(HandlerOperations) /\ Len(t) = 1 /\ t[1] = Op("iretq")
  BY <1>6 DEF HandlerOperations
<1>8. PICK v \in Seq(HandlerOperations) : v = u \o t /\ \E m, n \in Nat : Joined(v, u, t, m, n)
  BY <1>7, JoinAt, Zenon
<1>9. Len(v) = 8 /\ (\A i \in 1 .. 7 : v[i] = u[i]) /\ v[8] = Op("iretq")
  <2>1. PICK m, n \in Nat :
           /\ m = Len(u) /\ n = Len(t) /\ Len(v) = m + n
           /\ \A i \in 1 .. m : v[i] = u[i]
           /\ \A j \in 1 .. n : v[m + j] = t[j]
    BY <1>8, Zenon DEF Joined
  <2>2. m = 7 /\ n = 1 /\ m + n = 8 /\ m + 1 = 8
    BY <1>4, <1>7, <2>1
  <2> QED BY <1>7, <2>1, <2>2
<1>10. s = v /\ Structured(v)
  <2>1. s = v
    BY <1>1, <1>3, <1>6, <1>8, Zenon
  <2>2. Op("iretq") \in Stops
    BY DEF Stops
  <2> QED BY <1>5, <1>6, <1>8, <2>1, <2>2, PieceStops, SMTT(30)
<1>11. ASSUME NEW i \in 1 .. 8, v[i] = Op("eoi") PROVE i + 2 = 8
  <2>1. i \in 1 .. 4 \/ i = 5 \/ i = 6 \/ i = 7 \/ i = 8
    OBVIOUS
  <2>2. i \in 1 .. 4 => v[i] = print[i]
    BY <1>4, <1>9
  <2>3. v[5] # Op("eoi") /\ v[7] # Op("eoi") /\ v[8] # Op("eoi")
    BY <1>4, <1>9, OperationsDiffer
  <2> QED BY <1>11, <2>1, <2>2, <2>3, PrintPiece
<1>12. HandlerProgram(v, line)
  BY <1>8, <1>9, <1>10, <1>11, Zenon DEF HandlerProgram
<1>13. Range(v) = {v[i] : i \in 1 .. Len(v)}
  BY RangeEquality
<1>14. v[6] = Op("eoi") /\ 6 \in 1 .. 8
  BY <1>4, <1>9
<1>15. Head(v) = Lock("SERIAL")
  <2>1. v # << >> /\ v[1] = print[1]
    BY <1>4, <1>9
  <2> QED BY <1>8, <2>1, TailAt, PrintPiece
<1> QED BY <1>9, <1>10, <1>12, <1>13, <1>14, <1>15

(* The gates of the breakpoint and of the lines of the remapped PIC. *)
LEMMA Gates ==
  /\ HandlerOf(Breakpoint) = reporting_handler
  /\ HandlerOf(Timer + MASTER_PIC_OFFSET) = timer_interrupt_handler
  /\ HandlerOf(Keyboard + MASTER_PIC_OFFSET) = keyboard_interrupt_handler
  /\ \A line \in 2 .. 15 : HandlerOf(line + MASTER_PIC_OFFSET) = fatal_handler
BY DEF HandlerOf, IDT, Breakpoint, SegmentNotPresent, MASTER_PIC_OFFSET, Timer, Keyboard

(* The handler of a line of the PIC. *)
LEMMA LineHandler ==
  ASSUME NEW line \in 0 .. 15, NEW s, s = HandlerOf(line + MASTER_PIC_OFFSET)
  PROVE  /\ HandlerProgram(s, line) /\ Head(s) = Lock("SERIAL")
         /\ line \in {Timer, Keyboard} => Op("eoi") \in Range(s)
<1>1. CASE line \in {Timer, Keyboard}
  BY <1>1, Gates, NotifyPrograms
<1>2. CASE line \notin {Timer, Keyboard}
  <2>1. line \in 2 .. 15
    BY <1>2 DEF Timer, Keyboard
  <2> QED BY <1>2, <2>1, Gates, ReportPrograms
<1> QED BY <1>1, <1>2

-----------------------------------------------------------------------------
(* The stack of contexts. *)

(* The lines that main and at most one handler owe an EOI for. *)
LEMMA EoiSet ==
  ASSUME NEW c \in Seq(Contexts), Len(c) \in 1 .. 2, c[1].line = NoLine
  PROVE  {x.line : x \in {y \in Range(c) : OwesEoi(y)}}
           = IF Len(c) = 2 /\ OwesEoi(c[2]) THEN {c[2].line} ELSE {}
<1>1. Range(c) = {c[i] : i \in 1 .. Len(c)}
  BY RangeEquality
<1>2. ~OwesEoi(c[1])
  BY DEF OwesEoi
<1>3. CASE Len(c) = 1
  <2>1. \A i \in 1 .. 1 : i = 1
    OBVIOUS
  <2>2. {y \in Range(c) : OwesEoi(y)} = {}
    BY <1>1, <1>2, <1>3, <2>1
  <2> QED BY <1>3, <2>2
<1>4. CASE Len(c) = 2
  <2>1. \A i \in 1 .. 2 : i \in {1, 2}
    OBVIOUS
  <2>2. {y \in Range(c) : OwesEoi(y)} = IF OwesEoi(c[2]) THEN {c[2]} ELSE {}
    BY <1>1, <1>2, <1>4, <2>1
  <2> QED BY <1>4, <2>2
<1>5. Len(c) = 1 \/ Len(c) = 2
  OBVIOUS
<1> QED BY <1>3, <1>4, <1>5, Zenon

(* The running context. *)
LEMMA RunningFacts ==
  ASSUME KernelInv
  PROVE  /\ contexts \in Seq(Contexts) /\ depth \in 1 .. 2 /\ depth = Len(contexts)
         /\ running = contexts[depth] /\ running \in Contexts
         /\ Structured(running.ops) /\ running.ops \in Seq(Operations) /\ running.ops # << >>
         /\ Head(running.ops) \in Operations
<1>1. contexts \in Seq(Contexts) /\ depth \in 1 .. 2 /\ depth = Len(contexts)
  BY DEF KernelInv, TypeOK, depth, MaxDepth
<1>2. depth = 1 \/ depth = 2
  BY <1>1
<1>3. running = contexts[depth] /\ running \in Contexts
  BY <1>1 DEF running
<1>4. Structured(running.ops)
  BY <1>2, <1>3 DEF KernelInv, MainProgram, HandlerProgram
<1>5. running.ops \in Seq(Operations) /\ running.ops # << >>
  BY <1>4 DEF Structured
<1> QED BY <1>1, <1>3, <1>4, <1>5, TailAt

(* The stack after an operation of the running context. *)
LEMMA NextFacts ==
  ASSUME KernelInv
  PROVE  /\ next \in Seq(Contexts) /\ Len(next) = depth
         /\ next[depth].ops = Tail(running.ops)
         /\ next[depth].line = running.line /\ next[depth].saved = running.saved
         /\ next[depth].flag = running.flag
         /\ \A d \in 1 .. depth : d # depth => next[d] = contexts[d]
<1>1. PICK d \in 1 .. 2 : d = depth /\ d = Len(contexts)
  BY RunningFacts
<1>2. PICK r \in Contexts : r = contexts[d] /\ r = running
  BY <1>1, RunningFacts
<1>3. PICK t \in Seq(Operations) : t = Tail(r.ops)
  BY <1>2, RunningFacts, TailAt, Zenon
<1>4. PICK q : q = [r EXCEPT !.ops = t]
  BY Zenon
<1>5. /\ q \in Contexts /\ q.ops = t /\ q.line = r.line /\ q.saved = r.saved
      /\ q.flag = r.flag
  BY <1>2, <1>3, <1>4, Zenon DEF Contexts
<1>6. contexts \in Seq(Contexts)
  BY RunningFacts
<1>7. next = [contexts EXCEPT ![d] = q]
  BY <1>1, <1>2, <1>3, <1>4 DEF next
<1>8. /\ next \in Seq(Contexts) /\ Len(next) = d /\ next[d] = q
      /\ \A e \in 1 .. d : e # d => next[e] = contexts[e]
  BY <1>1, <1>5, <1>6, <1>7
<1> QED BY <1>1, <1>2, <1>3, <1>5, <1>8

(* What the next operations of the contexts tell. *)
LEMMA HoldsFacts ==
  ASSUME KernelInv
  PROVE  /\ Holds(1, Head(contexts[1].ops))
         /\ depth = 2 => Holds(2, Head(contexts[2].ops))
<1>1. PICK d \in 1 .. 2 : d = depth
  BY RunningFacts
<1>2. \A e \in 1 .. d : Holds(e, Head(contexts[e].ops))
  BY <1>1 DEF KernelInv
<1>3. 1 \in 1 .. d /\ (d = 2 => 2 \in 1 .. d)
  OBVIOUS
<1> QED BY <1>1, <1>2, <1>3

(* The line in service is the handler's. *)
LEMMA IsrFacts ==
  ASSUME KernelInv
  PROVE  IF depth = 2 /\ OwesEoi(contexts[2]) THEN InService({contexts[2].line})
         ELSE isr = {} /\ slave_isr = {}
<1>1. PICK c \in Seq(Contexts) : c = contexts
  BY RunningFacts
<1>2. Len(c) \in 1 .. 2 /\ Len(c) = depth /\ c[1].line = NoLine
  BY <1>1, RunningFacts, Zenon DEF KernelInv
<1>3. InService({x.line : x \in {y \in Range(c) : OwesEoi(y)}})
  BY <1>1, Zenon DEF KernelInv, EoiMatchesHandler
<1>4. InService(IF Len(c) = 2 /\ OwesEoi(c[2]) THEN {c[2].line} ELSE {})
  BY <1>2, <1>3, EoiSet, Zenon
<1>5. CASE depth = 2 /\ OwesEoi(contexts[2])
  BY <1>1, <1>2, <1>4, <1>5, Zenon
<1>6. CASE ~(depth = 2 /\ OwesEoi(contexts[2]))
  <2>1. InService({})
    BY <1>1, <1>2, <1>4, <1>6, Zenon
  <2> QED BY <1>6, <2>1 DEF InService
<1> QED BY <1>5, <1>6

(* It is the handler's after a step, too, when the stack is a stack. *)
LEMMA IsrNext ==
  ASSUME contexts' \in Seq(Contexts), Len(contexts') \in 1 .. 2, contexts'[1].line = NoLine,
         IF Len(contexts') = 2 /\ OwesEoi(contexts'[2])
           THEN isr' = {Input(contexts'[2].line)} /\ slave_isr' = {contexts'[2].line} \cap SlaveLines
           ELSE isr' = {} /\ slave_isr' = {}
  PROVE  EoiMatchesHandler'
<1>1. PICK c \in Seq(Contexts) : c = contexts'
  OBVIOUS
<1>2. PICK lines : lines = {x.line : x \in {y \in Range(c) : OwesEoi(y)}}
  BY Zenon
<1>3. lines = IF Len(c) = 2 /\ OwesEoi(c[2]) THEN {c[2].line} ELSE {}
  BY <1>1, <1>2, EoiSet, Zenon
<1>4. isr' = {Input(l) : l \in lines} /\ slave_isr' = lines \cap SlaveLines
  BY <1>1, <1>3
<1> QED BY <1>1, <1>2, <1>4, Zenon DEF EoiMatchesHandler, OwesEoi, InService

-----------------------------------------------------------------------------
(* The steps.  Most operations go on to the next one of the same context.  *)

(* What the operation h of a context that goes on does. *)
Straight(h) ==
  /\ h = Head(running.ops) /\ h \notin Stops /\ h # Op("int3")
  /\ contexts' = next
  /\ remapped' = IF h = Op("remap") THEN TRUE ELSE remapped
  /\ cs' = IF h = Op("load_gdt") THEN "kernel" ELSE cs
  /\ gates' = IF h = Op("load_idt") THEN cs ELSE gates
  /\ IF_' = IF h = Op("sti") THEN TRUE ELSE IF_
  /\ irr' = IF h = Op("remap") THEN {} ELSE irr
  /\ isr' = IF h = Op("remap") THEN {}
            ELSE IF h = Op("eoi") THEN EndOfInterrupt(isr) ELSE isr
  /\ slave_isr' = IF h = Op("remap") THEN {}
                  ELSE IF h = Op("eoi") THEN EndOfInterrupt(slave_isr) ELSE slave_isr
  /\ owner' = [l \in Locks |-> IF h = Lock(l) THEN depth
                               ELSE IF h = Unlock(l) THEN 0 ELSE owner[l]]
  /\ \A l \in Locks : h = Lock(l) => owner[l] = 0
  /\ message' = IF h = Op("send_first") THEN depth
                ELSE IF h = Op("send_last") THEN 0 ELSE message
  /\ regs' = regs /\ raised' = raised

(* What the locks and the message tell of the running context. *)
LEMMA HoldsNext ==
  ASSUME NEW d \in 1 .. 2, NEW h, NEW h2, d = depth, Straight(h), Holds(d, h), Successor(h, h2)
  PROVE  Holds(d, h2)'
<1>1. /\ owner'["SERIAL"] = IF h = Lock("SERIAL") THEN d
                            ELSE IF h = Unlock("SERIAL") THEN 0 ELSE owner["SERIAL"]
      /\ owner'["PICS"] = IF h = Lock("PICS") THEN d
                          ELSE IF h = Unlock("PICS") THEN 0 ELSE owner["PICS"]
      /\ message' = IF h = Op("send_first") THEN d
                    ELSE IF h = Op("send_last") THEN 0 ELSE message
  BY DEF Straight, Locks
<1>2. owner'["SERIAL"] = d <=> h2 \in {Op("send_first"), Op("send_last"), Unlock("SERIAL")}
  BY <1>1, OperationsDiffer DEF Holds, Successor
<1>3. owner'["PICS"] = d <=> h2 \in {Op("eoi"), Op("remap"), Unlock("PICS")}
  BY <1>1, OperationsDiffer DEF Holds, Successor
<1>4. message' = d <=> h2 = Op("send_last")
  BY <1>1, OperationsDiffer DEF Holds, Successor
<1> QED BY <1>2, <1>3, <1>4 DEF Holds

(* What they tell of the context it interrupted. *)
LEMMA HoldsBelow ==
  ASSUME NEW g, NEW h, depth = 2, Straight(h), Holds(1, g), Holds(2, h)
  PROVE  Holds(1, g)'
<1>1. /\ owner'["SERIAL"] = IF h = Lock("SERIAL") THEN 2
                            ELSE IF h = Unlock("SERIAL") THEN 0 ELSE owner["SERIAL"]
      /\ owner'["PICS"] = IF h = Lock("PICS") THEN 2
                          ELSE IF h = Unlock("PICS") THEN 0 ELSE owner["PICS"]
      /\ message' = IF h = Op("send_first") THEN 2
                    ELSE IF h = Op("send_last") THEN 0 ELSE message
      /\ h = Lock("SERIAL") => owner["SERIAL"] = 0
      /\ h = Lock("PICS") => owner["PICS"] = 0
  BY DEF Straight, Locks
<1>2. owner'["SERIAL"] = 1 <=> owner["SERIAL"] = 1
  BY <1>1 DEF Holds
<1>3. owner'["PICS"] = 1 <=> owner["PICS"] = 1
  BY <1>1 DEF Holds
<1>4. message' = 1 <=> message = 1
  BY <1>1, OperationsDiffer DEF Holds
<1> QED BY <1>2, <1>3, <1>4 DEF Holds

(* The types, the bounds on the holders and the registers. *)
StraightTypes ==
  /\ TypeOK
  /\ owner["SERIAL"] <= depth /\ owner["PICS"] <= depth
  /\ message <= depth
  /\ depth = 1 => regs \in [ScratchRegisters -> ScratchRegisters]

(* They are kept. *)
LEMMA StraightTyped ==
  ASSUME KernelInv, NEW h, Straight(h)
  PROVE  StraightTypes'
<1>1. contexts' \in Seq(Contexts) /\ depth' = depth /\ depth \in 1 .. 2
  BY NextFacts, RunningFacts DEF Straight, depth
<1>2. PICK d \in 1 .. 2 : d = depth
  BY <1>1
<1>3. owner \in [Locks -> 0 .. 2] /\ message \in 0 .. 2
  BY DEF KernelInv, TypeOK, MaxDepth
<1>4. owner' \in [Locks -> 0 .. 2]
  <2>1. owner' = [l \in Locks |-> IF h = Lock(l) THEN d
                                  ELSE IF h = Unlock(l) THEN 0 ELSE owner[l]]
    BY <1>2 DEF Straight
  <2> QED BY <1>3, <2>1
<1>5. message' \in 0 .. 2 /\ message' <= d
  BY <1>2, <1>3 DEF Straight, KernelInv
<1>6. irr' \subseteq Lines /\ isr' \subseteq 0 .. 7 /\ slave_isr' \subseteq SlaveLines
  <2>1. irr \subseteq Lines /\ isr \subseteq 0 .. 7 /\ slave_isr \subseteq SlaveLines
    BY Zenon DEF KernelInv, TypeOK
  <2>2. \A lines : EndOfInterrupt(lines) \subseteq lines
    BY DEF EndOfInterrupt
  <2> QED BY <2>1, <2>2, Zenon DEF Straight
<1>7. cs' \in {"boot", "kernel"} /\ gates' \in {"none", "boot", "kernel"}
  BY DEF Straight, KernelInv, TypeOK
<1>8. IF_' \in BOOLEAN /\ remapped' \in BOOLEAN
  BY ZenonT(40) DEF Straight, KernelInv, TypeOK
<1>9. /\ regs' \in [ScratchRegisters -> ScratchRegisters \cup {"handler"}]
      /\ raised' \in [Lines -> 0 .. MaxRaised]
      /\ d = 1 => regs' \in [ScratchRegisters -> ScratchRegisters]
  BY <1>2 DEF Straight, KernelInv, TypeOK
<1>10. owner'["SERIAL"] <= d /\ owner'["PICS"] <= d
  <2>1. owner' = [l \in Locks |-> IF h = Lock(l) THEN d
                                  ELSE IF h = Unlock(l) THEN 0 ELSE owner[l]]
    BY <1>2, Zenon DEF Straight
  <2>2. owner["SERIAL"] <= d /\ owner["PICS"] <= d
    BY <1>2, Zenon DEF KernelInv
  <2> QED BY <1>3, <2>1, <2>2 DEF Locks
<1>11. TypeOK'
  <2>1. 0 .. MaxDepth = 0 .. 2 /\ 1 .. MaxDepth = 1 .. 2
    BY DEF MaxDepth
  <2> QED BY <1>1, <1>4, <1>5, <1>6, <1>7, <1>8, <1>9, <2>1, ZenonT(40) DEF TypeOK
<1> QED BY <1>1, <1>2, <1>5, <1>9, <1>10, <1>11 DEF StraightTypes

(* Main goes on. *)
LEMMA StraightMain ==
  ASSUME KernelInv, NEW h, Straight(h), depth = 1
  PROVE  KernelInv'
<1>1. PICK s : s = contexts[1].ops /\ s = running.ops
  BY RunningFacts
<1>2. PICK t : t = Tail(s)
  BY Zenon
<1>3. /\ s \in Seq(MainOperations) /\ s \in Seq(Operations) /\ s # << >> /\ Structured(s)
      /\ h = Head(s) /\ h \in MainOperations
  BY <1>1, RunningFacts, TailAt, ZenonT(40) DEF KernelInv, MainProgram, Straight
<1>4. depth' = 1 /\ contexts'[1].ops = t /\ contexts'[1].line = NoLine
  BY <1>1, <1>2, NextFacts, RunningFacts, Zenon DEF KernelInv, Straight, depth
<1>5. Structured(t) /\ Successor(h, Head(t)) /\ t \in Seq(MainOperations)
  BY <1>2, <1>3, StructuredTail, TailAt, Zenon DEF Straight
<1>6. h # Op("eoi")
  BY <1>3 DEF MainOperations
<1>7. /\ h # Op("sti") \/ remapped
      /\ remapped' \/ Preceded(t, Op("sti"), Op("remap"))
  <2>1. remapped \/ Preceded(s, Op("sti"), Op("remap"))
    BY <1>1, Zenon DEF KernelInv, MainProgram
  <2>2. remapped' = IF h = Op("remap") THEN TRUE ELSE remapped
    BY Zenon DEF Straight
  <2> QED BY <1>2, <1>3, <2>1, <2>2, PrecededTail, Zenon
<1>8. /\ h # Op("load_idt") \/ cs = "kernel"
      /\ cs' = "kernel" \/ Preceded(t, Op("load_idt"), Op("load_gdt"))
  <2>1. cs = "kernel" \/ Preceded(s, Op("load_idt"), Op("load_gdt"))
    BY <1>1, Zenon DEF KernelInv, MainProgram
  <2>2. cs' = IF h = Op("load_gdt") THEN "kernel" ELSE cs
    BY Zenon DEF Straight
  <2> QED BY <1>2, <1>3, <2>1, <2>2, PrecededTail, Zenon
<1>10. /\ h # Op("sti") \/ gates = "kernel"
       /\ gates' = "kernel" \/ Preceded(t, Op("sti"), Op("load_idt"))
  <2>1. gates = "kernel" \/ Preceded(s, Op("sti"), Op("load_idt"))
    BY <1>1, Zenon DEF KernelInv, MainProgram
  <2>2. gates' = IF h = Op("load_idt") THEN cs ELSE gates
    BY Zenon DEF Straight
  <2> QED BY <1>2, <1>3, <1>8, <2>1, <2>2, PrecededTail, Zenon
<1>11. MainProgram(contexts[1].ops)'
  BY <1>4, <1>5, <1>7, <1>8, <1>10, Zenon DEF MainProgram
<1>12. gates' = "kernel" => cs' = "kernel"
  BY <1>8, SMTT(30) DEF Straight, KernelInv
<1>13. IF_' => Ready'
  BY <1>7, <1>10, OperationsDiffer, Zenon DEF Straight, KernelInv, Ready
<1>14. Holds(1, Head(t))'
  <2>1. Holds(1, h)
    BY <1>1, <1>3, HoldsFacts
  <2>2. 1 \in 1 .. 2
    OBVIOUS
  <2> QED BY <1>5, <2>1, <2>2, HoldsNext, Zenon
<1>15. \A d \in 1 .. depth' : Holds(d, Head(contexts[d].ops))'
  <2>1. \A d \in 1 .. depth' : d = 1
    BY <1>4
  <2> QED BY <1>4, <1>14, <2>1
<1>16. StraightTypes'
  BY StraightTyped
<1>17. EoiMatchesHandler'
  <2>1. isr' = {} /\ slave_isr' = {}
    BY IsrFacts DEF Straight, EndOfInterrupt
  <2>2. contexts' \in Seq(Contexts) /\ Len(contexts') = 1
    BY <1>4, <1>16, Zenon DEF StraightTypes, TypeOK, depth
  <2> QED BY <1>4, <2>1, <2>2, IsrNext
<1>18. owner'["ALLOCATOR"] <= 1
  <2>1. owner' = [l \in Locks |-> IF h = Lock(l) THEN depth
                                  ELSE IF h = Unlock(l) THEN 0 ELSE owner[l]]
    BY Zenon DEF Straight
  <2>2. owner["ALLOCATOR"] <= 1
    BY Zenon DEF KernelInv
  <2> QED BY <2>1, <2>2 DEF Locks
<1> QED BY <1>4, <1>11, <1>12, <1>13, <1>15, <1>16, <1>17, <1>18, SMTT(30) DEF KernelInv, StraightTypes

(* A handler goes on. *)
LEMMA StraightHandler ==
  ASSUME KernelInv, NEW h, Straight(h), depth = 2
  PROVE  KernelInv'
<1>1. PICK s, line : s = contexts[2].ops /\ s = running.ops /\ line = contexts[2].line
  BY RunningFacts
<1>2. PICK t : t = Tail(s)
  BY Zenon
<1>3. HandlerProgram(s, line) /\ h = Head(s)
  BY <1>1, Zenon DEF KernelInv, Straight
<1>4. s \in Seq(HandlerOperations) /\ s # << >> /\ Structured(s) /\ h = s[1] /\ h \in HandlerOperations
  BY <1>1, <1>3, RunningFacts, TailAt, SMTT(30) DEF HandlerProgram
<1>5. /\ depth' = 2 /\ contexts' \in Seq(Contexts) /\ contexts'[1] = contexts[1]
      /\ contexts'[2].ops = t /\ contexts'[2].line = line
      /\ contexts'[2].saved = contexts[2].saved /\ contexts'[2].flag = contexts[2].flag
  BY <1>1, <1>2, NextFacts, RunningFacts DEF Straight, depth
<1>6. /\ h \notin {Op("remap"), Op("load_gdt"), Op("load_idt"), Op("sti"), Lock("ALLOCATOR")}
  BY <1>4, OperationsDiffer DEF HandlerOperations
<1>7. UNCHANGED <<remapped, cs, gates, IF_, irr>>
  BY <1>6, Zenon DEF Straight
<1>8. /\ HandlerProgram(t, line) /\ Successor(h, Head(t))
      /\ h = Op("eoi") => Op("eoi") \notin Range(t)
      /\ h # Op("eoi") => (Op("eoi") \in Range(t) <=> Op("eoi") \in Range(s))
  BY <1>2, <1>3, <1>4, HandlerTail, StructuredTail, Zenon DEF Straight
<1>9. MainProgram(contexts[1].ops)' /\ contexts'[1].line = NoLine
  BY <1>5, <1>7 DEF KernelInv, MainProgram
<1>10. Holds(2, h) /\ Holds(1, Head(contexts[1].ops))
  BY <1>1, <1>3, HoldsFacts
<1>11. \A d \in 1 .. depth' : Holds(d, Head(contexts[d].ops))'
  <2>1. \A d \in 1 .. depth' : d \in {1, 2}
    BY <1>5
  <2>2. Holds(2, Head(t))'
    BY <1>8, <1>10, HoldsNext
  <2>3. PICK g : g = Head(contexts[1].ops)
    OBVIOUS
  <2>4. Holds(1, g)'
    BY <1>10, <2>3, HoldsBelow
  <2>5. g = Head(contexts'[1].ops)
    BY <1>5, <2>3
  <2>6. Holds(1, Head(contexts[1].ops))'
    BY <2>4, <2>5
  <2> QED BY <1>5, <2>1, <2>2, <2>6
<1>12. StraightTypes'
  BY StraightTyped
<1>13. EoiMatchesHandler'
  <2>1. IF OwesEoi(contexts[2]) THEN isr = {Input(line)} /\ slave_isr = {line} \cap SlaveLines
        ELSE isr = {} /\ slave_isr = {}
    BY <1>1, IsrFacts DEF InService
  <2>2. Len(contexts') = 2
    BY <1>5, SMTT(30) DEF depth
  <2>3. SUFFICES IF OwesEoi(contexts'[2])
                   THEN isr' = {Input(line)} /\ slave_isr' = {line} \cap SlaveLines
                   ELSE isr' = {} /\ slave_isr' = {}
    BY <1>5, <1>9, <2>2, IsrNext
  <2>4. CASE h = Op("eoi")
    <3>1. line \in {Timer, Keyboard} /\ Op("eoi") \in Range(s)
      <4>1. 1 \in 1 .. Len(s)
        BY <1>4, TailAt
      <4>2. Range(s) = {s[i] : i \in 1 .. Len(s)}
        BY <1>4, RangeEquality
      <4> QED BY <1>3, <1>4, <2>4, <4>1, <4>2 DEF HandlerProgram
    <3>2. line \in Nat /\ line # NoLine /\ line \notin SlaveLines
      BY <3>1 DEF Timer, Keyboard, NoLine, SlaveLines
    <3>3. isr = {line} /\ slave_isr = {}
      <4>1. OwesEoi(contexts[2])
        BY <1>1, <3>1, <3>2, Zenon DEF OwesEoi
      <4> QED BY <2>1, <3>2, <4>1 DEF Input
    <3>4. Min({line}) = line
      BY <3>2 DEF Min
    <3>5. isr' = {} /\ slave_isr' = {}
      BY <1>6, <2>4, <3>3, <3>4 DEF Straight, EndOfInterrupt
    <3>6. ~OwesEoi(contexts'[2])
      BY <1>5, <1>8, <2>4, <3>1 DEF OwesEoi
    <3> QED BY <3>5, <3>6
  <2>5. CASE h # Op("eoi")
    <3>1. isr' = isr /\ slave_isr' = slave_isr
      BY <1>6, <2>5 DEF Straight
    <3>2. OwesEoi(contexts'[2]) <=> OwesEoi(contexts[2])
      BY <1>1, <1>5, <1>8, <2>5, SMTT(30) DEF OwesEoi
    <3> QED BY <2>1, <3>1, <3>2
  <2> QED BY <2>4, <2>5
<1>14. owner'["ALLOCATOR"] <= 1
  <2>1. owner' = [l \in Locks |-> IF h = Lock(l) THEN depth
                                  ELSE IF h = Unlock(l) THEN 0 ELSE owner[l]]
    BY Zenon DEF Straight
  <2>2. owner["ALLOCATOR"] <= 1
    BY Zenon DEF KernelInv
  <2> QED BY <1>6, <2>1, <2>2 DEF Locks
<1>15. ~IF_'
  <2>1. ~IF_
    BY SMTT(60) DEF KernelInv
  <2> QED BY <1>7, <2>1, Zenon
<1>16. (gates = "kernel" => cs = "kernel")'
  <2>1. gates = "kernel" => cs = "kernel"
    BY Zenon DEF KernelInv
  <2> QED BY <1>7, <2>1, Zenon
<1>17. /\ HandlerProgram(contexts'[2].ops, contexts'[2].line)
       /\ contexts'[2].saved \in [1 .. Len(PushOrder) -> ScratchRegisters]
       /\ contexts'[2].flag => Ready'
  BY <1>5, <1>7, <1>8 DEF KernelInv, Ready
<1> QED BY <1>5, <1>9, <1>11, <1>12, <1>13, <1>14, <1>15, <1>16, <1>17, ZenonT(40) DEF KernelInv, StraightTypes

(* The operations on a lock. *)
LEMMA LockStraight ==
  ASSUME KernelInv, NEW l \in Locks, lock(l) \/ unlock(l)
  PROVE  \E h : Straight(h)
<1>1. PICK h : h = Head(running.ops)
  OBVIOUS
<1>2. h = Lock(l) \/ h = Unlock(l)
  BY <1>1 DEF lock, unlock, At
<1>3. /\ h \notin Stops /\ h # Op("int3")
      /\ h # Op("remap") /\ h # Op("load_gdt") /\ h # Op("load_idt") /\ h # Op("sti")
      /\ h # Op("eoi") /\ h # Op("send_first") /\ h # Op("send_last")
  BY <1>2, OperationsDiffer DEF Stops
<1>4. /\ contexts' = next
      /\ UNCHANGED <<IF_, irr, isr, slave_isr, remapped, cs, gates, regs, message, raised>>
  BY DEF lock, unlock
<1>5. owner \in [Locks -> 0 .. 2]
  BY SMTT(30) DEF KernelInv, TypeOK, MaxDepth
<1>6. CASE lock(l)
  <2>1. h = Lock(l) /\ owner[l] = 0 /\ owner' = [owner EXCEPT ![l] = depth]
    BY <1>1, <1>6 DEF lock, At
  <2>2. \A k \in Locks : (h = Lock(k) <=> k = l) /\ h # Unlock(k)
    BY <2>1, OperationsDiffer
  <2>3. owner' = [k \in Locks |-> IF h = Lock(k) THEN depth
                                  ELSE IF h = Unlock(k) THEN 0 ELSE owner[k]]
    BY <1>5, <2>1, <2>2, Zenon
  <2> QED BY <1>1, <1>3, <1>4, <2>1, <2>2, <2>3, Zenon DEF Straight
<1>7. CASE unlock(l)
  <2>1. h = Unlock(l) /\ owner' = [owner EXCEPT ![l] = 0]
    BY <1>1, <1>7 DEF unlock, At
  <2>2. \A k \in Locks : (h = Unlock(k) <=> k = l) /\ h # Lock(k)
    BY <2>1, OperationsDiffer
  <2>3. owner' = [k \in Locks |-> IF h = Lock(k) THEN depth
                                  ELSE IF h = Unlock(k) THEN 0 ELSE owner[k]]
    BY <1>5, <2>1, <2>2, Zenon
  <2> QED BY <1>1, <1>3, <1>4, <2>2, <2>3, Zenon DEF Straight
<1> QED BY <1>6, <1>7

(* The other operations that go on. *)
LEMMA OtherStraight ==
  ASSUME KernelInv, send \/ eoi \/ load_gdt \/ load_idt \/ remap \/ sti
  PROVE  \E h : Straight(h)
<1>1. PICK h : h = Head(running.ops)
  OBVIOUS
<1>2. /\ \A l \in Locks : h # Lock(l) /\ h # Unlock(l)
      /\ h \notin Stops /\ h # Op("int3")
  BY <1>1, OperationsDiffer DEF send, eoi, load_gdt, load_idt, remap, sti, At, Stops
<1>3. contexts' = next /\ regs' = regs /\ raised' = raised /\ owner' = owner
  BY DEF send, eoi, load_gdt, load_idt, remap, sti
<1>4. owner' = [l \in Locks |-> IF h = Lock(l) THEN depth
                                ELSE IF h = Unlock(l) THEN 0 ELSE owner[l]]
  <2>1. owner \in [Locks -> 0 .. 2]
    BY SMTT(30) DEF KernelInv, TypeOK, MaxDepth
  <2> QED BY <1>2, <1>3, <2>1, SMTT(30)
<1>5. remapped' = IF h = Op("remap") THEN TRUE ELSE remapped
  BY <1>1, OperationsDiffer, ZenonT(40) DEF send, eoi, load_gdt, load_idt, remap, sti, At
<1>6. cs' = IF h = Op("load_gdt") THEN "kernel" ELSE cs
  BY <1>1, OperationsDiffer DEF send, eoi, load_gdt, load_idt, remap, sti, At
<1>7. gates' = IF h = Op("load_idt") THEN cs ELSE gates
  BY <1>1, OperationsDiffer DEF send, eoi, load_gdt, load_idt, remap, sti, At
<1>8. IF_' = IF h = Op("sti") THEN TRUE ELSE IF_
  BY <1>1, OperationsDiffer, ZenonT(40) DEF send, eoi, load_gdt, load_idt, remap, sti, At
<1>9. irr' = IF h = Op("remap") THEN {} ELSE irr
  BY <1>1, OperationsDiffer DEF send, eoi, load_gdt, load_idt, remap, sti, At
<1>10. /\ isr' = IF h = Op("remap") THEN {}
                 ELSE IF h = Op("eoi") THEN EndOfInterrupt(isr) ELSE isr
       /\ slave_isr' = IF h = Op("remap") THEN {}
                       ELSE IF h = Op("eoi") THEN EndOfInterrupt(slave_isr) ELSE slave_isr
  <2>1. eoi => slave_isr' = EndOfInterrupt(slave_isr)
    <3>1. running.line \in 0 .. 16
      <4>1. PICK r \in Contexts : r = running
        BY RunningFacts, Zenon
      <4>2. PICK line : line = r.line /\ line \in Lines \cup {NoLine}
        BY Zenon DEF Contexts
      <4>3. line \in 0 .. 16
        BY <4>2, LinesAssumption DEF NoLine
      <4> QED BY <4>1, <4>2, <4>3, Zenon
    <3> QED BY <3>1 DEF eoi, as_remapped_idt_number, MASTER_PIC_OFFSET
  <2>2. eoi => isr' = EndOfInterrupt(isr)
    BY DEF eoi
  <2>3. CASE eoi
    BY <1>1, <2>1, <2>2, <2>3, OperationsDiffer DEF eoi, At
  <2>4. CASE ~eoi
    BY <1>1, <2>4, OperationsDiffer DEF send, load_gdt, load_idt, remap, sti, At
  <2> QED BY <2>3, <2>4
<1>11. message' = IF h = Op("send_first") THEN depth
                  ELSE IF h = Op("send_last") THEN 0 ELSE message
  BY <1>1, OperationsDiffer DEF send, eoi, load_gdt, load_idt, remap, sti, At
<1> QED BY <1>1, <1>2, <1>3, <1>4, <1>5, <1>6, <1>7, <1>8, <1>9, <1>10, <1>11, Zenon DEF Straight

(* All of them keep the invariant. *)
LEMMA StraightStep ==
  ASSUME KernelInv, NEW h, Straight(h)
  PROVE  KernelInv'
<1>1. depth \in 1 .. 2
  BY RunningFacts, Zenon
<1>2. depth = 1 \/ depth = 2
  BY <1>1
<1> QED BY <1>2, StraightMain, StraightHandler

(* A device raises its line, or nothing changes. *)
Quiet ==
  /\ UNCHANGED <<contexts, IF_, owner, isr, slave_isr, remapped, cs, gates, regs, message>>
  /\ irr' \subseteq Lines /\ raised' \in [Lines -> 0 .. MaxRaised]

LEMMA QuietStep ==
  ASSUME KernelInv, Quiet
  PROVE  KernelInv'
<1>1. TypeOK'
  BY Zenon DEF Quiet, KernelInv, TypeOK, depth
<1>2. EoiMatchesHandler'
  BY Zenon DEF Quiet, KernelInv, EoiMatchesHandler, OwesEoi, InService
<1>3. depth' = depth /\ Ready' = Ready
  BY Zenon DEF Quiet, depth, Ready
<1>4. MainProgram(contexts[1].ops)' /\ (contexts[1].line = NoLine)'
  BY Zenon DEF Quiet, KernelInv, MainProgram
<1>5. \A d \in 1 .. depth' : Holds(d, Head(contexts[d].ops))'
  BY <1>3, Zenon DEF Quiet, KernelInv, Holds
<1>6. /\ (owner["SERIAL"] <= depth /\ owner["PICS"] <= depth /\ owner["ALLOCATOR"] <= 1)'
      /\ (message <= depth)' /\ (gates = "kernel" => cs = "kernel")'
      /\ (IF_ => depth = 1 /\ Ready)'
      /\ (depth = 1 => regs \in [ScratchRegisters -> ScratchRegisters])'
  BY <1>3, Zenon DEF Quiet, KernelInv
<1>7. (depth = 2 =>
        /\ HandlerProgram(contexts[2].ops, contexts[2].line)
        /\ contexts[2].saved \in [1 .. Len(PushOrder) -> ScratchRegisters]
        /\ contexts[2].flag => Ready)'
  BY <1>3, Zenon DEF Quiet, KernelInv
<1> QED BY <1>1, <1>2, <1>4, <1>5, <1>6, <1>7, ZenonT(40) DEF KernelInv

(* Those are the steps of spin, wait and raise. *)
LEMMA QuietSteps ==
  ASSUME KernelInv,
         \/ \E l \in Locks : spin(l)
         \/ wait
         \/ \E line \in Lines : raise(line)
         \/ UNCHANGED vars
  PROVE  KernelInv'
<1>1. irr \subseteq Lines /\ raised \in [Lines -> 0 .. MaxRaised]
  BY DEF KernelInv, TypeOK
<1>2. CASE UNCHANGED vars
  BY <1>1, <1>2, QuietStep, Zenon DEF vars, Quiet
<1>3. ASSUME NEW line \in Lines, raise(line) PROVE KernelInv'
  <2>1. raised' \in [Lines -> 0 .. MaxRaised]
    <3>1. raised[line] + 1 \in 0 .. MaxRaised
      BY <1>1, <1>3, LinesAssumption DEF raise
    <3>2. PICK k \in 0 .. MaxRaised : k = raised[line] + 1
      BY <3>1
    <3>3. raised' = [raised EXCEPT ![line] = k]
      BY <1>3, <3>2 DEF raise
    <3> QED BY <1>1, <3>3
  <2>2. irr' \subseteq Lines
    BY <1>1, <1>3 DEF raise
  <2> QED BY <1>3, <2>1, <2>2, QuietStep, Zenon DEF raise, Quiet
<1>4. ASSUME NEW l \in Locks, spin(l) PROVE UNCHANGED vars
  BY <1>4, Zenon DEF spin
<1>5. ASSUME wait PROVE UNCHANGED vars
  BY <1>5, Zenon DEF wait
<1> QED BY <1>2, <1>3, <1>4, <1>5, Zenon

(* What the wrapper saves and what it restores. *)
LEMMA PushPop ==
  /\ \A r \in [ScratchRegisters -> ScratchRegisters] :
       Pushed(r) \in [1 .. Len(PushOrder) -> ScratchRegisters]
  /\ \A saved \in [1 .. Len(PushOrder) -> ScratchRegisters] :
       saved \in Seq(ScratchRegisters) /\ Popped(saved) \in [ScratchRegisters -> ScratchRegisters]
<1>1. Len(PushOrder) = 9 /\ Len(PopOrder) = 9 /\ PopOrder = PushOrder
  BY DEF PushOrder, PopOrder
<1>2. PICK S : PushOrder \in Seq(S)
  <2>1. PushOrder \in Seq({"rax", "rcx", "rdx", "rsi", "rdi", "r8", "r9", "r10", "r11"})
    BY DEF PushOrder
  <2> QED BY <2>1
<1>3. ScratchRegisters = {PushOrder[i] : i \in 1 .. 9}
  BY <1>1, <1>2, RangeEquality, Zenon DEF ScratchRegisters
<1>4. ASSUME NEW r \in [ScratchRegisters -> ScratchRegisters]
      PROVE  Pushed(r) \in [1 .. Len(PushOrder) -> ScratchRegisters]
  BY <1>1, <1>3 DEF Pushed
<1>5. ASSUME NEW saved \in [1 .. 9 -> ScratchRegisters]
      PROVE  /\ saved \in Seq(ScratchRegisters) /\ Len(saved) = 9
             /\ Popped(saved) \in [ScratchRegisters -> ScratchRegisters]
  <2>1. saved \in Seq(ScratchRegisters) /\ Len(saved) = 9
    <3>1. saved \in Seq(ScratchRegisters)
      BY SeqDef, Zenon
    <3>2. PICK m \in Nat : m = Len(saved) /\ 1 .. m = 1 .. 9
      BY <3>1, LenProperties, Zenon
    <3>3. m = 9
      BY <3>2
    <3> QED BY <3>1, <3>2, <3>3
  <2>2. ASSUME NEW r \in ScratchRegisters
        PROVE  LET i == CHOOSE i \in 1 .. Len(PopOrder) : PopOrder[i] = r
               IN  saved[Len(saved) + 1 - i] \in ScratchRegisters
    <3>1. PICK j : j = CHOOSE i \in 1 .. 9 : PopOrder[i] = r
      OBVIOUS
    <3>2. \E k \in 1 .. 9 : PopOrder[k] = r
      BY <1>1, <1>3
    <3>3. j \in 1 .. 9
      BY <3>1, <3>2
    <3>4. 9 + 1 - j \in 1 .. 9
      BY <3>3
    <3>5. saved[9 + 1 - j] \in ScratchRegisters
      BY <3>4
    <3> QED BY <1>1, <2>1, <3>1, <3>5
  <2>3. Popped(saved) \in [ScratchRegisters -> ScratchRegisters]
    BY <2>2, Zenon DEF Popped
  <2> QED BY <2>1, <2>3
<1> QED BY <1>1, <1>4, <1>5

(* A second element. *)
LEMMA AppendSecond ==
  ASSUME NEW S, NEW s \in Seq(S), Len(s) = 1, NEW x \in S, NEW t, t = Append(s, x)
  PROVE  t \in Seq(S) /\ Len(t) = 2 /\ t[1] = s[1] /\ t[2] = x
<1>1. t \in Seq(S) /\ Len(t) = Len(s) + 1
  BY AppendProperties, ZenonT(40)
<1>2. t[Len(s) + 1] = x
  BY AppendProperties, ZenonT(40)
<1>3. t[1] = s[1]
  BY AppendProperties
<1> QED BY <1>1, <1>2, <1>3

(* A handler is entered above main, for an exception or for a line. *)
Entering(below, handler, line) ==
  /\ KernelInv /\ depth = 1
  /\ below \in Seq(Contexts) /\ Len(below) = 1 /\ below[1].line = NoLine
  /\ MainProgram(below[1].ops) /\ Holds(1, Head(below[1].ops))
  /\ line \in Lines \cup {NoLine} /\ enter(below, handler, line)
  /\ HandlerProgram(handler, line) /\ Head(handler) = Lock("SERIAL")
  /\ line \in {Timer, Keyboard} => Op("eoi") \in Range(handler)
  /\ UNCHANGED <<owner, remapped, cs, gates, message, raised>>
  /\ irr' \subseteq Lines
  /\ IF line = NoLine THEN isr' = {} /\ slave_isr' = {}
     ELSE isr' = {Input(line)} /\ slave_isr' = {line} \cap SlaveLines

LEMMA EnterInv ==
  ASSUME NEW below, NEW handler, NEW line, Entering(below, handler, line)
  PROVE  KernelInv'
<1>1. PICK r : r = [ops |-> handler, line |-> line, saved |-> Pushed(regs), flag |-> IF_]
  BY Zenon
<1>2. regs \in [ScratchRegisters -> ScratchRegisters]
  BY Zenon DEF Entering, KernelInv
<1>3. /\ r.ops = handler /\ r.line = line /\ r.flag = IF_
      /\ r.saved \in [1 .. Len(PushOrder) -> ScratchRegisters]
  BY <1>1, <1>2, PushPop, Zenon
<1>4. r \in Contexts
  <2>1. handler \in Seq(Operations) /\ IF_ \in BOOLEAN /\ line \in Lines \cup {NoLine}
    BY Zenon DEF Entering, HandlerProgram, Structured, KernelInv, TypeOK
  <2>2. PICK saved \in Seq(ScratchRegisters) : saved = Pushed(regs)
    BY <1>2, PushPop, Zenon
  <2>3. r = [ops |-> handler, line |-> line, saved |-> saved, flag |-> IF_]
    BY <1>1, <2>2, Zenon
  <2> QED BY <2>1, <2>3 DEF Contexts
<1>5. /\ contexts' = Append(below, r) /\ IF_' = FALSE
      /\ regs' = [x \in ScratchRegisters |-> "handler"]
  BY <1>1, Zenon DEF Entering, enter
<1>6. /\ contexts' \in Seq(Contexts) /\ Len(contexts') = 2
      /\ contexts'[1] = below[1] /\ contexts'[2] = r
  <2>1. below \in Seq(Contexts) /\ Len(below) = 1
    BY Zenon DEF Entering
  <2>2. PICK c : c = contexts' /\ c = Append(below, r)
    BY <1>5, Zenon
  <2>3. c \in Seq(Contexts) /\ Len(c) = 2 /\ c[1] = below[1] /\ c[2] = r
    BY <1>4, <2>1, <2>2, AppendSecond
  <2> QED BY <2>2, <2>3, Zenon
<1>7. depth' = 2
  BY <1>6, Zenon DEF depth
<1>8. TypeOK'
  <2>1. regs' \in [ScratchRegisters -> ScratchRegisters \cup {"handler"}]
    BY <1>5
  <2>2. /\ IF_' \in BOOLEAN /\ remapped' \in BOOLEAN
        /\ cs' \in {"boot", "kernel"} /\ gates' \in {"none", "boot", "kernel"}
    BY <1>5, Zenon DEF Entering, KernelInv, TypeOK
  <2>3. /\ owner' \in [Locks -> 0 .. MaxDepth] /\ message' \in 0 .. MaxDepth
        /\ raised' \in [Lines -> 0 .. MaxRaised]
    BY Zenon DEF Entering, KernelInv, TypeOK
  <2>4. irr' \subseteq Lines /\ isr' \subseteq 0 .. 7 /\ slave_isr' \subseteq SlaveLines
    <3>1. line # NoLine => Input(line) \in 0 .. 7
      BY LinesAssumption DEF Entering, Input, SlaveLines, Cascade, NoLine
    <3> QED BY <3>1 DEF Entering
  <2>5. depth' \in 1 .. MaxDepth
    BY <1>7 DEF MaxDepth
  <2> QED BY <1>6, <2>1, <2>2, <2>3, <2>4, <2>5, Zenon DEF TypeOK
<1>9. EoiMatchesHandler'
  <2>1. OwesEoi(r) <=> line # NoLine
    BY <1>3, Zenon DEF Entering, HandlerProgram, OwesEoi
  <2>2. IF line = NoLine THEN isr' = {} /\ slave_isr' = {}
        ELSE isr' = {Input(line)} /\ slave_isr' = {line} \cap SlaveLines
    BY Zenon DEF Entering
  <2>3. IF Len(contexts') = 2 /\ OwesEoi(contexts'[2])
          THEN isr' = {Input(contexts'[2].line)} /\ slave_isr' = {contexts'[2].line} \cap SlaveLines
          ELSE isr' = {} /\ slave_isr' = {}
    BY <1>3, <1>6, <2>1, <2>2, Zenon
  <2>4. contexts'[1].line = NoLine
    BY <1>6, Zenon DEF Entering
  <2>5. Len(contexts') \in 1 .. 2
    BY <1>6
  <2> QED BY <1>6, <2>3, <2>4, <2>5, IsrNext, Zenon
<1>10. MainProgram(contexts[1].ops)' /\ contexts'[1].line = NoLine
  BY <1>6, Zenon DEF Entering, MainProgram
<1>11. /\ owner["SERIAL"] \in 0 .. 1 /\ owner["PICS"] \in 0 .. 1
       /\ owner["ALLOCATOR"] \in 0 .. 1 /\ message \in 0 .. 1
       /\ owner' = owner /\ message' = message
  <2>1. owner \in [Locks -> 0 .. 2] /\ message \in 0 .. 2
    BY Zenon DEF Entering, KernelInv, TypeOK, MaxDepth
  <2>2. /\ owner["SERIAL"] <= 1 /\ owner["PICS"] <= 1 /\ owner["ALLOCATOR"] <= 1
        /\ message <= 1 /\ owner' = owner /\ message' = message
    BY Zenon DEF Entering, KernelInv
  <2> QED BY <2>1, <2>2 DEF Locks
<1>12. Holds(1, Head(contexts[1].ops))'
  <2>1. Holds(1, Head(below[1].ops))
    BY Zenon DEF Entering
  <2> QED BY <1>6, <1>11, <2>1, Zenon DEF Holds
<1>13. Holds(2, Head(contexts[2].ops))'
  <2>1. owner'["SERIAL"] # 2 /\ owner'["PICS"] # 2 /\ message' # 2
    BY <1>11
  <2>2. Head(contexts'[2].ops) = Lock("SERIAL")
    BY <1>3, <1>6, Zenon DEF Entering
  <2> QED BY <2>1, <2>2, OperationsDiffer, Zenon DEF Holds
<1>14. \A d \in 1 .. depth' : Holds(d, Head(contexts[d].ops))'
  <2>1. \A d \in 1 .. depth' : d = 1 \/ d = 2
    BY <1>7
  <2> QED BY <1>12, <1>13, <2>1, Zenon
<1>15. /\ (owner["SERIAL"] <= depth /\ owner["PICS"] <= depth /\ owner["ALLOCATOR"] <= 1)'
       /\ (message <= depth)'
  BY <1>7, <1>11
<1>16. /\ (gates = "kernel" => cs = "kernel")'
       /\ contexts'[2].flag => Ready'
  BY <1>3, <1>6, Zenon DEF Entering, KernelInv, Ready
<1>17. HandlerProgram(contexts[2].ops, contexts[2].line)'
  BY <1>3, <1>6, Zenon DEF Entering, HandlerProgram
<1>18. depth' # 1
  BY <1>7
<1> QED BY <1>3, <1>5, <1>6, <1>8, <1>9, <1>10, <1>14, <1>15, <1>16, <1>17, <1>18, Zenon
        DEF KernelInv

(* int3. *)
LEMMA Int3Step ==
  ASSUME KernelInv, int3
  PROVE  KernelInv'
<1>1. PICK h : h = Head(running.ops) /\ h = Op("int3")
  BY DEF int3, At
<1>2. depth = 1
  <2>1. ASSUME depth = 2 PROVE FALSE
    <3>1. PICK u : u = running.ops /\ u = contexts[2].ops
      BY <2>1, RunningFacts, Zenon
    <3>2. u \in Seq(HandlerOperations) /\ u # << >> /\ h = Head(u)
      BY <1>1, <2>1, <3>1, RunningFacts, Zenon DEF KernelInv, HandlerProgram
    <3>3. h \in HandlerOperations
      BY <3>2, TailAt
    <3> QED BY <1>1, <3>3, OperationsDiffer DEF HandlerOperations
  <2> QED BY <2>1, RunningFacts
<1>3. PICK s : s = contexts[1].ops /\ s = running.ops
  BY <1>2, RunningFacts, SMTT(30)
<1>4. /\ s \in Seq(MainOperations) /\ s \in Seq(Operations) /\ s # << >> /\ Structured(s)
      /\ h = Head(s) /\ h \notin Stops
  BY <1>1, <1>3, RunningFacts, OperationsDiffer, Zenon DEF KernelInv, MainProgram, Stops
<1>5. PICK t : t = Tail(s)
  BY Zenon
<1>6. PICK below \in Seq(Contexts) :
        below = next /\ Len(below) = 1 /\ below[1].ops = t /\ below[1].line = NoLine
  BY <1>2, <1>3, <1>5, NextFacts, RunningFacts, Zenon DEF KernelInv
<1>7. Structured(t) /\ Successor(h, Head(t)) /\ t \in Seq(MainOperations)
  BY <1>4, <1>5, StructuredTail, TailAt, Zenon
<1>8. MainProgram(t)
  <2>1. h # Op("remap") /\ h # Op("load_idt") /\ h # Op("load_gdt")
    BY <1>1, OperationsDiffer
  <2>2. MainProgram(s)
    BY <1>3, Zenon DEF KernelInv
  <2> QED BY <1>3, <1>4, <1>5, <1>7, <2>1, <2>2, PrecededTail, SMTT(60) DEF MainProgram
<1>9. Holds(1, Head(t))
  <2>1. Holds(1, h)
    BY <1>3, <1>4, HoldsFacts
  <2> QED BY <1>1, <1>7, <2>1, OperationsDiffer DEF Holds, Successor
<1>10. PICK handler : handler = HandlerOf(Breakpoint)
  OBVIOUS
<1>11. /\ HandlerProgram(handler, NoLine) /\ Head(handler) = Lock("SERIAL")
       /\ NoLine \notin {Timer, Keyboard}
  BY <1>10, Gates, ReportPrograms, SMTT(30) DEF NoLine, Timer, Keyboard
<1>12. isr' = {} /\ slave_isr' = {} /\ irr' \subseteq Lines
  <2>1. isr' = isr /\ slave_isr' = slave_isr /\ irr' = irr
    BY DEF int3
  <2>2. isr = {} /\ slave_isr = {}
    BY <1>2, IsrFacts
  <2>3. irr \subseteq Lines
    BY DEF KernelInv, TypeOK
  <2> QED BY <2>1, <2>2, <2>3
<1>13. enter(below, handler, NoLine) /\ UNCHANGED <<owner, remapped, cs, gates, message, raised>>
  BY <1>6, <1>10 DEF int3
<1>14. Entering(below, handler, NoLine)
  BY <1>2, <1>6, <1>8, <1>9, <1>11, <1>12, <1>13, Zenon DEF Entering
<1> QED BY <1>14, EnterInv, Zenon

(* An interrupt. *)
LEMMA InterruptStep ==
  ASSUME KernelInv, NEW line \in Lines, interrupt(line)
  PROVE  KernelInv'
<1>1. depth = 1 /\ remapped
  BY Zenon DEF interrupt, KernelInv, Ready
<1>2. line \in 0 .. 15 /\ line # NoLine
  BY LinesAssumption DEF NoLine
<1>3. PICK handler : handler = HandlerOf(vector(line))
  OBVIOUS
<1>4. /\ HandlerProgram(handler, line) /\ Head(handler) = Lock("SERIAL")
      /\ line \in {Timer, Keyboard} => Op("eoi") \in Range(handler)
  <2>1. handler = HandlerOf(line + MASTER_PIC_OFFSET)
    BY <1>1, <1>3, Zenon DEF vector
  <2> QED BY <1>2, <2>1, LineHandler, ZenonT(40)
<1>5. isr' = {Input(line)} /\ slave_isr' = {line} \cap SlaveLines /\ irr' \subseteq Lines
  <2>1. irr \subseteq Lines
    BY Zenon DEF KernelInv, TypeOK
  <2>2. isr = {} /\ slave_isr = {}
    BY <1>1, IsrFacts
  <2>3. /\ isr' = isr \cup {Input(line)} /\ slave_isr' = slave_isr \cup ({line} \cap SlaveLines)
        /\ irr' = irr \ {line}
    BY Zenon DEF interrupt
  <2> QED BY <2>1, <2>2, <2>3
<1>6. enter(contexts, handler, line) /\ UNCHANGED <<owner, remapped, cs, gates, message, raised>>
  BY <1>3, Zenon DEF interrupt
<1>7. PICK below \in Seq(Contexts) : below = contexts /\ Len(below) = 1
  BY <1>1, RunningFacts, SMTT(30)
<1>8. below[1].line = NoLine /\ MainProgram(below[1].ops) /\ Holds(1, Head(below[1].ops))
  BY <1>7, HoldsFacts, Zenon DEF KernelInv
<1>9. enter(below, handler, line)
  BY <1>6, <1>7, Zenon
<1>10. Entering(below, handler, line)
  BY <1>1, <1>2, <1>4, <1>5, <1>6, <1>7, <1>8, <1>9, Zenon DEF Entering
<1> QED BY <1>10, EnterInv, Zenon

(* The return from a handler. *)
LEMMA IretqStep ==
  ASSUME KernelInv, iretq
  PROVE  KernelInv'
<1>1. PICK h : h = Head(running.ops) /\ h = Op("iretq")
  BY DEF iretq, At
<1>2. depth = 2
  <2>1. ASSUME depth = 1 PROVE FALSE
    <3>1. PICK u : u = running.ops /\ u = contexts[1].ops
      BY <2>1, RunningFacts, Zenon
    <3>2. u \in Seq(MainOperations) /\ u # << >> /\ h = Head(u)
      BY <1>1, <3>1, RunningFacts, Zenon DEF KernelInv, MainProgram
    <3>3. h \in MainOperations
      BY <3>2, TailAt
    <3> QED BY <1>1, <3>3 DEF MainOperations
  <2> QED BY <2>1, RunningFacts
<1>3. PICK s, line : s = contexts[2].ops /\ s = running.ops /\ line = contexts[2].line
  BY <1>2, RunningFacts
<1>4. HandlerProgram(s, line) /\ s \in Seq(Operations) /\ s # << >> /\ h = Head(s) /\ h = s[1]
  BY <1>1, <1>2, <1>3, RunningFacts, TailAt, ZenonT(40) DEF KernelInv
<1>5. Len(s) = 1 /\ line \in {Timer, Keyboard, NoLine}
  <2>1. PICK m \in Nat : m = Len(s) /\ m > 0
    BY <1>4, TailAt
  <2>2. 1 \in 1 .. m
    BY <2>1
  <2>3. h \in Stops
    BY <1>1, SMTT(30) DEF Stops
  <2> QED BY <1>1, <1>4, <2>1, <2>2, <2>3 DEF HandlerProgram, Structured
<1>6. Op("eoi") \notin Range(s)
  <2>1. Range(s) = {s[i] : i \in 1 .. 1}
    BY <1>4, <1>5, RangeEquality
  <2>2. \A i \in 1 .. 1 : s[i] = h
    BY <1>4
  <2> QED BY <1>1, <2>1, <2>2, OperationsDiffer
<1>7. isr = {} /\ slave_isr = {}
  <2>1. ~OwesEoi(contexts[2])
    BY <1>3, <1>5, <1>6 DEF OwesEoi
  <2> QED BY <2>1, IsrFacts
<1>8. /\ contexts' \in Seq(Contexts) /\ Len(contexts') = 1 /\ depth' = 1
      /\ contexts'[1] = contexts[1]
  <2>1. PICK c : c = SubSeq(contexts, 1, 1) /\ c = contexts'
    BY <1>2 DEF iretq
  <2>2. \A i \in 1 .. 1 : contexts[i] \in Contexts
    <3>1. contexts \in Seq(Contexts) /\ Len(contexts) = 2
      BY <1>2, RunningFacts
    <3> QED BY <3>1
  <2>3. c \in Seq(Contexts) /\ Len(c) = 1 - 1 + 1 /\ c[1] = contexts[1 + 1 - 1]
    BY <2>1, <2>2, SubSeqProperties
  <2>4. Len(c) = 1 /\ c[1] = contexts[1]
    BY <2>3, SMTT(30)
  <2> QED BY <2>1, <2>3, <2>4, Zenon DEF depth
<1>9. /\ IF_' = contexts[2].flag /\ regs' = Popped(contexts[2].saved)
      /\ UNCHANGED <<owner, irr, isr, slave_isr, remapped, cs, gates, message, raised>>
  BY <1>2, RunningFacts, SMTT(30) DEF iretq
<1>10. regs' \in [ScratchRegisters -> ScratchRegisters]
  <2>1. contexts[2].saved \in [1 .. Len(PushOrder) -> ScratchRegisters]
    BY <1>2, Zenon DEF KernelInv
  <2> QED BY <1>9, <2>1, PushPop, Zenon
<1>11. IF_' => Ready'
  BY <1>2, <1>9, SMTT(30) DEF KernelInv, Ready
<1>12. Holds(2, h) /\ Holds(1, Head(contexts[1].ops))
  BY <1>2, <1>3, <1>4, HoldsFacts
<1>13. owner["SERIAL"] <= 1 /\ owner["PICS"] <= 1 /\ message <= 1
  <2>1. owner["SERIAL"] \in 0 .. 2 /\ owner["PICS"] \in 0 .. 2 /\ message \in 0 .. 2
    BY SMTT(30) DEF KernelInv, TypeOK, Locks, MaxDepth
  <2>2. owner["SERIAL"] # 2 /\ owner["PICS"] # 2 /\ message # 2
    BY <1>1, <1>12, OperationsDiffer DEF Holds
  <2> QED BY <2>1, <2>2, SMTT(30)
<1>14. TypeOK'
  <2>1. regs' \in [ScratchRegisters -> ScratchRegisters \cup {"handler"}]
    BY <1>10, SMTT(30)
  <2>2. IF_' \in BOOLEAN /\ remapped' \in BOOLEAN
    <3>1. contexts[2] \in Contexts
      BY <1>2, RunningFacts, SMTT(30)
    <3> QED BY <1>9, <3>1, Zenon DEF KernelInv, TypeOK, Contexts
  <2>3. cs' \in {"boot", "kernel"} /\ gates' \in {"none", "boot", "kernel"}
    BY <1>9, SMTT(30) DEF KernelInv, TypeOK
  <2>4. /\ owner' \in [Locks -> 0 .. MaxDepth] /\ message' \in 0 .. MaxDepth
        /\ raised' \in [Lines -> 0 .. MaxRaised]
        /\ irr' \subseteq Lines /\ isr' \subseteq 0 .. 7 /\ slave_isr' \subseteq SlaveLines
    BY <1>9 DEF KernelInv, TypeOK
  <2>5. depth' \in 1 .. MaxDepth
    BY <1>8, SMTT(30) DEF MaxDepth
  <2> QED BY <1>8, <2>1, <2>2, <2>3, <2>4, <2>5 DEF TypeOK
<1>15. EoiMatchesHandler'
  <2>1. contexts'[1].line = NoLine
    BY <1>8, SMTT(30) DEF KernelInv
  <2> QED BY <1>7, <1>8, <1>9, <2>1, IsrNext, SMTT(30)
<1>16. MainProgram(contexts[1].ops)' /\ contexts'[1].line = NoLine
  BY <1>8, <1>9, Zenon DEF KernelInv, MainProgram
<1>17. \A d \in 1 .. depth' : Holds(d, Head(contexts[d].ops))'
  <2>1. \A d \in 1 .. depth' : d = 1
    BY <1>8, SMTT(30)
  <2>2. Holds(1, Head(contexts[1].ops))'
    BY <1>8, <1>9, <1>12, ZenonT(40) DEF Holds
  <2> QED BY <2>1, <2>2
<1>18. /\ (owner["SERIAL"] <= depth /\ owner["PICS"] <= depth /\ owner["ALLOCATOR"] <= 1)'
       /\ (message <= depth)' /\ (gates = "kernel" => cs = "kernel")'
  BY <1>8, <1>9, <1>13, ZenonT(40) DEF KernelInv
<1>19. depth' = 1 /\ depth' # 2
  BY <1>8
<1> QED BY <1>10, <1>11, <1>14, <1>15, <1>16, <1>17, <1>18, <1>19, ZenonT(40) DEF KernelInv

-----------------------------------------------------------------------------
(* The theorems. *)

(* Init. *)
LEMMA KernelInit ==
  ASSUME Init
  PROVE  KernelInv
<1>1. PICK r : r = [ops |-> start, line |-> NoLine, saved |-> << >>, flag |-> FALSE]
  BY Zenon
<1>2. r \in Contexts /\ r.ops = start /\ r.line = NoLine
  BY <1>1, StartProgram, EmptySeq DEF Contexts, Structured
<1>3. contexts \in Seq(Contexts) /\ Len(contexts) = 1 /\ depth = 1 /\ contexts[1] = r
  BY <1>1, <1>2 DEF Init, depth
<1>4. TypeOK
  <2>1. owner \in [Locks -> 0 .. MaxDepth] /\ message \in 0 .. MaxDepth
    BY DEF Init, MaxDepth
  <2>2. raised \in [Lines -> 0 .. MaxRaised]
    BY LinesAssumption DEF Init
  <2>3. regs \in [ScratchRegisters -> ScratchRegisters \cup {"handler"}]
    BY DEF Init
  <2>4. depth \in 1 .. MaxDepth
    BY <1>3 DEF MaxDepth
  <2>5. /\ IF_ \in BOOLEAN /\ remapped \in BOOLEAN /\ irr \subseteq Lines
        /\ isr \subseteq 0 .. 7 /\ slave_isr \subseteq SlaveLines
        /\ cs \in {"boot", "kernel"} /\ gates \in {"none", "boot", "kernel"}
    BY Zenon DEF Init
  <2> QED BY <1>3, <2>1, <2>2, <2>3, <2>4, <2>5, SMTT(30) DEF TypeOK
<1>5. EoiMatchesHandler
  <2>1. PICK c \in Seq(Contexts) : c = contexts /\ Len(c) = 1 /\ c[1].line = NoLine
    BY <1>2, <1>3
  <2>2. {x.line : x \in {y \in Range(c) : OwesEoi(y)}} = {}
    BY <2>1, EoiSet, SMTT(30)
  <2>3. InService({})
    BY DEF Init, InService
  <2> QED BY <2>1, <2>2, <2>3, Zenon DEF EoiMatchesHandler
<1>6. MainProgram(contexts[1].ops) /\ contexts[1].line = NoLine
  BY <1>2, <1>3, StartProgram DEF Init, MainProgram, Ordered
<1>7. \A d \in 1 .. depth : Holds(d, Head(contexts[d].ops))
  <2>1. \A d \in 1 .. depth : d = 1
    BY <1>3
  <2>2. Head(start) \notin {Op("send_first"), Op("send_last"), Unlock("SERIAL"),
                            Op("eoi"), Op("remap"), Unlock("PICS")}
    BY StartProgram DEF Rules
  <2>3. owner["SERIAL"] # 1 /\ owner["PICS"] # 1 /\ message # 1
    BY DEF Init, Locks
  <2> QED BY <1>2, <1>3, <2>1, <2>2, <2>3, OperationsDiffer DEF Holds
<1>8. owner["SERIAL"] <= depth /\ owner["PICS"] <= depth /\ owner["ALLOCATOR"] <= 1 /\ message <= depth
  BY <1>3 DEF Init, Locks
<1> QED BY <1>3, <1>4, <1>5, <1>6, <1>7, <1>8, SMTT(30) DEF Init, KernelInv

(* Every step. *)
LEMMA KernelStep ==
  ASSUME KernelInv, [Next]_vars
  PROVE  KernelInv'
<1>1. CASE \E l \in Locks : lock(l) \/ unlock(l)
  BY <1>1, LockStraight, StraightStep
<1>2. CASE send \/ eoi \/ load_gdt \/ load_idt \/ remap \/ sti
  BY <1>2, OtherStraight, StraightStep
<1>3. CASE int3
  BY <1>3, Int3Step
<1>4. CASE iretq
  BY <1>4, IretqStep
<1>5. CASE \E line \in Lines : interrupt(line)
  BY <1>5, InterruptStep
<1>6. CASE \/ \E l \in Locks : spin(l)
           \/ wait
           \/ \E line \in Lines : raise(line)
           \/ UNCHANGED vars
  BY <1>6, QuietSteps
<1> QED BY <1>1, <1>2, <1>3, <1>4, <1>5, <1>6 DEF Next, Instruction

(* The invariant holds in every state the kernel reaches. *)
THEOREM KernelCorrect == Spec => []KernelInv
<1>1. Init => KernelInv
  BY KernelInit
<1>2. KernelInv /\ [Next]_vars => KernelInv'
  BY KernelStep
<1> QED BY <1>1, <1>2, PTL DEF Spec

(* The stack never holds more than main and one handler, whichever lines   *)
(* the devices raise and however often: interrupt gates clear IF and no    *)
(* handler enables it.                                                     *)
THEOREM HandlersDoNotNest == Spec => []TypeOK
<1>1. KernelInv => TypeOK
  BY SMTT(30) DEF KernelInv
<1> QED BY <1>1, KernelCorrect, PTL

(* interrupts::init enables interrupts last, and a handler returns to code *)
(* that had them enabled: PIC, IDT and segments are in place.              *)
THEOREM InterruptsFindHandlers == Spec => []InterruptsReady
<1>1. KernelInv => InterruptsReady
  BY SMTT(30) DEF KernelInv, InterruptsReady, Ready
<1> QED BY <1>1, KernelCorrect, PTL

(* notify_end_of_interrupt, which names no line, ends the handler's own at *)
(* the master and, although the slave is told each time, no line there.    *)
THEOREM EoiEndsOwnLine == Spec => []EoiMatchesHandler
<1>1. KernelInv => EoiMatchesHandler
  BY DEF KernelInv
<1> QED BY <1>1, KernelCorrect, PTL

(* The lock around _print keeps messages whole, handlers' included. *)
THEOREM MessagesStayWhole == Spec => []MessagesWhole
<1>1. ASSUME KernelInv PROVE MessagesWhole
  <2>1. PICK d \in 1 .. 2 : d = depth /\ running = contexts[d]
    BY <1>1, RunningFacts
  <2>2. PICK h : h = Head(running.ops)
    OBVIOUS
  <2>3. Holds(d, h)
    <3>1. d = 1 \/ d = 2
      OBVIOUS
    <3> QED BY <1>1, <2>1, <2>2, <3>1, HoldsFacts
  <2>4. h = Op("send_last") => message = depth
    BY <2>1, <2>3 DEF Holds
  <2>5. ASSUME h = Op("send_first") PROVE message = 0
    <3>1. message # d /\ owner["SERIAL"] = d
      BY <2>3, <2>5, OperationsDiffer DEF Holds
    <3>2. message # 1
      BY <1>1, <3>1, HoldsFacts, SMTT(30) DEF Holds
    <3>3. message \in 0 .. 2 /\ message <= d
      BY <1>1, <2>1 DEF KernelInv, TypeOK, MaxDepth
    <3> QED BY <3>1, <3>2, <3>3, SMTT(30)
  <2> QED BY <2>2, <2>4, <2>5 DEF MessagesWhole, At
<1> QED BY <1>1, KernelCorrect, PTL
=============================================================================
