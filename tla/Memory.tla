------------------------------- MODULE Memory -------------------------------
(***************************************************************************)
(* Addresses, frames, pages and regions, as stage 4 and the kernel compute *)
(* with them.  The sizes are parameters: of a frame or page, and of a      *)
(* table in entries.  The code masks bits; both sizes are powers of two    *)
(* there, and what it computes is a quotient or a remainder.               *)
(***************************************************************************)
EXTENDS Naturals, Integers

align_down(a, size) == a - (a % size)
align_up(a, size) == align_down(a + size - 1, size)
is_aligned(a, size) == a % size = 0

(* The start of the frame or of the page that an address lies in. *)
containing_address(a, size) == align_down(a, size)

(* PhysicalFrame + n and Page + n. *)
plus(start, n, size) == containing_address(start + n * size, size)

(* The frames or pages from first to last, last among them. *)
range_inclusive(first, last, size) ==
  [k \in 1 .. (last - first) \div size + 1 |-> plus(first, k - 1, size)]

(* The index of an address in its level-1 to level-4 table. *)
l1_index(a, size, n) == (a \div size) % n
l2_index(a, size, n) == (a \div (size * n)) % n
l3_index(a, size, n) == (a \div (size * n * n)) % n
l4_index(a, size, n) == (a \div (size * n * n * n)) % n

(* A region is [start, size, typ]; its end counts as contained. *)
End(r) == r.start + r.size
contains(r, a) == r.start <= a /\ a <= End(r)
is_usable(r) == r.typ \in {"Normal", "Free"}
=============================================================================
