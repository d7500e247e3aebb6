--------------------------- MODULE IntrusiveList ----------------------------
(***************************************************************************)
(* IntrusiveLinkedList: the nodes live in the caller's structures and keep *)
(* their pointers when they leave the list.                                *)
(***************************************************************************)
EXTENDS Integers, Sequences

CONSTANTS
  Nodes,      \* the caller's nodes
  NoNode      \* None

ASSUME NodesAssumption == NoNode \notin Nodes

VARIABLES
  next, prev, \* the pointers of the nodes
  head, tail, \* the ends of the list
  len,        \* its length
  panicked,   \* an unwrap met None
  call,       \* history: the last call and the node it got
  popped,     \* history: what it returned
  inside,     \* history: the nodes the caller pushed and did not get back
  cut,        \* history: the nodes whose successor pop_front took away
  lost        \* history: pop_front took such a node off a longer list

vars == <<next, prev, head, tail, len, panicked, call, popped, inside, cut, lost>>

(* The first n nodes along the pointers, from first on. *)
Follow(pointer, first, n) ==
  LET follow[i \in 1 .. n] ==
        IF i = 1 THEN first
        ELSE IF follow[i-1] = NoNode THEN NoNode ELSE pointer[follow[i-1]]
  IN  follow

(* The list as the pointers backwards from the tail give it. *)
list == [k \in 1 .. len |-> Follow(prev, tail, len)[len + 1 - k]]

-----------------------------------------------------------------------------
Init ==
  /\ next = [n \in Nodes |-> NoNode]
  /\ prev = [n \in Nodes |-> NoNode]
  /\ head = NoNode /\ tail = NoNode
  /\ len = 0
  /\ panicked = FALSE
  /\ call = <<"new", NoNode>> /\ popped = NoNode
  /\ inside = {} /\ cut = {} /\ lost = FALSE

(* The caller pushes a node that is in no list. *)
Pushes(name, n) ==
  /\ ~panicked
  /\ n \notin inside
  /\ call' = <<name, n>> /\ popped' = NoNode
  /\ inside' = inside \cup {n}
  /\ UNCHANGED <<panicked, lost>>

push_front(n) ==
  /\ Pushes("push_front", n)
  /\ \/ /\ head # NoNode
        /\ next' = [next EXCEPT ![n] = head]
        /\ prev' = [prev EXCEPT ![head] = n]
        /\ head' = n
        /\ cut' = cut \ {n}
        /\ UNCHANGED tail
     \/ head = NoNode /\ head' = n /\ tail' = n /\ UNCHANGED <<next, prev, cut>>
  /\ len' = len + 1

(* Mutant: the old tail does not learn its successor. *)
push_back_one_way(n) ==
  /\ Pushes("push_back", n)
  /\ \/ /\ tail # NoNode
        /\ prev' = [prev EXCEPT ![n] = tail]
        /\ tail' = n
        /\ cut' = cut \ {tail}
        /\ UNCHANGED <<head, next>>
     \/ tail = NoNode /\ head' = n /\ tail' = n /\ UNCHANGED <<next, prev, cut>>
  /\ len' = len + 1

(* Mutant: the node goes to the other end. *)
push_back_front(n) ==
  /\ Pushes("push_back", n)
  /\ \/ /\ head # NoNode
        /\ next' = [next EXCEPT ![n] = head]
        /\ prev' = [prev EXCEPT ![head] = n]
        /\ head' = n
        /\ cut' = cut \ {n}
        /\ UNCHANGED tail
     \/ head = NoNode /\ head' = n /\ tail' = n /\ UNCHANGED <<next, prev, cut>>
  /\ len' = len + 1

push_back(n) ==
  /\ Pushes("push_back", n)
  /\ \/ /\ tail # NoNode
        /\ next' = [next EXCEPT ![tail] = n]
        /\ prev' = [prev EXCEPT ![n] = tail]
        /\ tail' = n
        /\ cut' = cut \ {tail}
        /\ UNCHANGED head
     \/ tail = NoNode /\ head' = n /\ tail' = n /\ UNCHANGED <<next, prev, cut>>
  /\ len' = len + 1

(* The caller pops the node at end, of which other is the opposite end: a  *)
(* list with one end only makes the unwrap panic.                          *)
Pops(name, end, other) ==
  /\ ~panicked
  /\ call' = <<name, NoNode>>
  /\ panicked' = (end # NoNode /\ other = NoNode)
  /\ popped' = IF other = NoNode THEN NoNode ELSE end
  /\ inside' = inside \ {popped'}

(* The new head loses its successor. *)
pop_front ==
  /\ Pops("pop_front", head, tail)
  /\ \/ /\ NoNode \in {head, tail}
        /\ UNCHANGED <<next, prev, head, tail, len, cut, lost>>
     \/ /\ NoNode \notin {head, tail} /\ head = tail
        /\ head' = NoNode /\ tail' = NoNode
        /\ len' = len - 1
        /\ UNCHANGED <<next, prev, cut, lost>>
     \/ /\ NoNode \notin {head, tail} /\ head # tail
        /\ head' = next[head]
        /\ next' = IF head' = NoNode THEN next ELSE [next EXCEPT ![head'] = NoNode]
        /\ len' = len - 1
        /\ cut' = cut \cup ({head'} \ {NoNode})
        /\ lost' = (lost \/ head \in cut)
        /\ UNCHANGED <<prev, tail>>

pop_back ==
  /\ Pops("pop_back", tail, head)
  /\ \/ /\ NoNode \in {head, tail}
        /\ UNCHANGED <<next, prev, head, tail, len>>
     \/ /\ NoNode \notin {head, tail} /\ head = tail
        /\ head' = NoNode /\ tail' = NoNode
        /\ len' = len - 1
        /\ UNCHANGED <<next, prev>>
     \/ /\ NoNode \notin {head, tail} /\ head # tail
        /\ tail' = prev[tail]
        /\ next' = IF tail' = NoNode THEN next ELSE [next EXCEPT ![tail'] = NoNode]
        /\ len' = len - 1
        /\ UNCHANGED <<prev, head>>
  /\ UNCHANGED <<cut, lost>>

Next == (\E n \in Nodes : push_front(n) \/ push_back(n)) \/ pop_front \/ pop_back

Spec == Init /\ [][Next]_vars

-----------------------------------------------------------------------------
(* Properties. *)

(* As long as no pop_front met a node whose successor another one had      *)
(* taken away: head and tail are the ends of one list of len nodes, its    *)
(* pointers forwards and backwards agree but for those pop_front cleared,  *)
(* whatever pointers the nodes brought with them, and no call panicked.    *)
LinksAgree ==
  ~lost =>
    /\ ~panicked
    /\ head = NoNode <=> len = 0
    /\ len > 0 => head = list[1]
    /\ \A i \in 1 .. len - 1 :
         next[list[i]] = IF list[i] \in cut THEN NoNode ELSE list[i + 1]

(* The list is a double-ended queue: each call works on its own end, nodes *)
(* come back in the order they were pushed, and None comes from the empty  *)
(* list only.  The test of the list uses it as one.                        *)
Queue == INSTANCE Deque WITH queue <- list
ImplementsDeque == Queue!Spec

(* It is one up to, and with, the call that loses the rest of the list. *)
DequeUnlessLost == Queue!Init /\ [][Queue!Next \/ lost]_<<list, call, popped>>

-----------------------------------------------------------------------------
(* The inductive invariant: the pointers between neighbours, and that the  *)
(* list holds the nodes the caller pushed and did not get back.            *)

Linked(q, nextOf, prevOf, first, last, cleared) ==
  /\ \A i, j \in 1 .. Len(q) : q[i] = q[j] => i = j
  /\ IF Len(q) = 0 THEN first = NoNode /\ last = NoNode ELSE first = q[1] /\ last = q[Len(q)]
  /\ \A i \in 1 .. Len(q) - 1 :
       /\ nextOf[q[i]] = IF q[i] \in cleared THEN NoNode ELSE q[i + 1]
       /\ prevOf[q[i + 1]] = q[i]

Elements(q) == {q[i] : i \in 1 .. Len(q)}

Intact ==
  /\ next \in [Nodes -> Nodes \cup {NoNode}] /\ prev \in [Nodes -> Nodes \cup {NoNode}]
  /\ len \in Nat /\ ~panicked
  /\ list \in Seq(Nodes) /\ Linked(list, next, prev, head, tail, cut)
  /\ inside = Elements(list)

ListInv == lost \in BOOLEAN /\ (~lost => Intact)
=============================================================================
