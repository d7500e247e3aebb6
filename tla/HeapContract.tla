---------------------------- MODULE HeapContract ----------------------------
(***************************************************************************)
(* What the kernel's global allocator promises its callers: GlobalAlloc    *)
(* hands out blocks of the heap that satisfy the layout asked for and that *)
(* overlap no block still in use, and a block given back may be handed out *)
(* again.  How the free memory is organised is not visible here.           *)
(***************************************************************************)
EXTENDS Naturals

CONSTANTS
  HeapStart,   \* first address of the heap
  HeapSize,    \* its length in bytes
  Layouts      \* the layouts callers ask for: [size |-> , align |-> ]

VARIABLE allocated   \* blocks in use: [start |-> address, layout |-> layout]

(* The bytes from a up to a + n and from b up to b + m do not overlap. *)
Apart(a, n, b, m) == a + n <= b \/ b + m <= a

(* start satisfies layout, and the bytes asked for lie in the heap. *)
Satisfies(start, layout) ==
  /\ start % layout.align = 0
  /\ HeapStart <= start
  /\ start + layout.size <= HeapStart + HeapSize

Init == allocated = {}

Alloc(layout) ==
  \E start \in HeapStart .. HeapStart + HeapSize :
    /\ Satisfies(start, layout)
    /\ \A b \in allocated : /\ b.start # start
                            /\ Apart(b.start, b.layout.size, start, layout.size)
    /\ allocated' = allocated \cup {[start |-> start, layout |-> layout]}

Dealloc(block) == allocated' = allocated \ {block}

Next ==
  \/ \E layout \in Layouts : Alloc(layout)
  \/ \E block \in allocated : Dealloc(block)

Spec == Init /\ [][Next]_allocated
=============================================================================
