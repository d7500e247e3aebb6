------------------------------ MODULE MCBuddy -------------------------------
(* A small instance of BuddyAllocator for TLC. *)
EXTENDS BuddyAllocator

MCClassSize == [k \in 0 .. MAX_ORDER |-> 2 ^ k]

(* A size below the header, a size that is rounded up, two alignments      *)
(* larger than the size, and a size no class can serve.                    *)
MCLayouts ==
  { [size |-> 1, align |-> 1], [size |-> 3, align |-> 1], [size |-> 2, align |-> 4],
    [size |-> 3, align |-> 4], [size |-> 7, align |-> 2] }
=============================================================================
