---------------------------- MODULE MCPageTables ----------------------------
(* Four entries per table and pages of two bytes: an address has the four  *)
(* indices (a \div 128) % 4, (a \div 32) % 4, (a \div 8) % 4 and           *)
(* (a \div 2) % 4.  Level-4 slot 0 is the identity mapping, 1 the heap, 2  *)
(* physical memory, 3 the stack and, above it, the kernel.  The stack's    *)
(* top is, as in the code, a multiple of what a level-3 entry covers.      *)
EXTENDS Stage4

MCFrames == {2 * k : k \in 0 .. 48}
MCTableFrames == [k \in 1 .. 38 |-> 20 + 2 * k]
MCDataFrames == {0, 6}
MCIndex == 0 .. 3
MCFlags == {{}, {"PRESENT", "WRITABLE"}}

KernelBase == 448
File(k) == 14 + 2 * k
Data == {"WRITABLE", "NO_EXECUTE"}
FromFile(at, k, flags) ==
  [at |-> at, new |-> FALSE, frame |-> File(k), flags |-> flags, unmap |-> FALSE]
Fresh(at, first) ==
  [at |-> at, new |-> TRUE, frame |-> 0, flags |-> Data, unmap |-> first]

(* Code, data whose last page is copied, and a page of zeroes behind it. *)
MCKernelPages ==
  <<FromFile(KernelBase, 0, {}), FromFile(KernelBase + 6, 1, Data),
    Fresh(KernelBase + 6, TRUE), Fresh(KernelBase + 6, FALSE),
    Fresh(KernelBase + 8, FALSE)>>
MCSwitches == {[first |-> 11, last |-> 11], [first |-> 11, last |-> 12]}

MCFreePages == {small(138), small(160), large(144)}

MCPages ==
  {small(MCKernelPages[k].at) : k \in 1 .. Len(MCKernelPages)}
    \cup {small(a) : a \in {412, 414, 416}}
    \cup {small(a) : a \in {10} \cup {22 + 2 * k : k \in 0 .. 37}}
    \cup {large(256 + 8 * k) : k \in 0 .. 12}
    \cup {small(a) : a \in {134, 136, 138}} \cup MCFreePages
=============================================================================
