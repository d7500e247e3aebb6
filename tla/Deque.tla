------------------------------- MODULE Deque --------------------------------
(***************************************************************************)
(* What the intrusive list promises: a double-ended queue of nodes.        *)
(***************************************************************************)
EXTENDS Integers, Sequences

CONSTANTS Nodes, NoNode

VARIABLES
  queue,   \* the nodes, from the front to the back
  call,    \* the last call and the node it got
  popped   \* what it returned

Init == queue = << >> /\ call = <<"new", NoNode>> /\ popped = NoNode

IsFree(n) == \A i \in 1 .. Len(queue) : queue[i] # n

PushFront(n) ==
  /\ IsFree(n)
  /\ call' = <<"push_front", n>> /\ popped' = NoNode
  /\ queue' = <<n>> \o queue

PushBack(n) ==
  /\ IsFree(n)
  /\ call' = <<"push_back", n>> /\ popped' = NoNode
  /\ queue' = Append(queue, n)

PopFront ==
  /\ queue # << >>
  /\ call' = <<"pop_front", NoNode>> /\ popped' = Head(queue)
  /\ queue' = Tail(queue)

PopBack ==
  /\ queue # << >>
  /\ call' = <<"pop_back", NoNode>> /\ popped' = queue[Len(queue)]
  /\ queue' = SubSeq(queue, 1, Len(queue) - 1)

(* Only an empty queue answers with None. *)
PopNone ==
  /\ queue = << >>
  /\ call' \in {"pop_front", "pop_back"} \X {NoNode} /\ popped' = NoNode
  /\ UNCHANGED queue

Next == (\E n \in Nodes : PushFront(n) \/ PushBack(n)) \/ PopFront \/ PopBack \/ PopNone

Spec == Init /\ [][Next]_<<queue, call, popped>>
=============================================================================
