-------------------------- MODULE MCBuddyPointers ---------------------------
(* A small instance of BuddyPointers for TLC. *)
EXTENDS BuddyPointers

MCClassSize == [k \in 0 .. MAX_ORDER |-> 2 ^ k]

(* A size below the header, an alignment larger than the size, a size that *)
(* is rounded up to the largest chunk, and one no size class can serve.    *)
MCLayouts ==
  { [size |-> 1, align |-> 1], [size |-> 2, align |-> 4],
    [size |-> 7, align |-> 2], [size |-> 9, align |-> 1] }
=============================================================================
