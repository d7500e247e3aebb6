---------------------------- MODULE MCElfLoader -----------------------------
(* Kernels of two segments on pages of four bytes: data of every length up *)
(* to one byte more than a page, zeros of every kind behind it (none, to   *)
(* the page's end, pages of their own), the second segment in the same     *)
(* frame of the file as the first or not, on the next page or, in a file   *)
(* that must be refused, on the same one; at most two relocated pointers,  *)
(* or one and an entry of a type the loader does not handle.               *)
EXTENDS ElfLoader, SequencesExt

Header(virtual_addr, offset, file_size, zeros, write) ==
  [virtual_addr |-> virtual_addr, offset |-> offset, file_size |-> file_size,
   mem_size |-> file_size + zeros, write |-> write, execute |-> ~ write]

Headers(f1, z1, gap, f2, z2, apart) ==
  LET offset == f1 + gap
      page == IF apart THEN (f1 + z1 + PageSize - 1) \div PageSize ELSE (f1 + z1) \div PageSize
  IN  <<Header(0, 0, f1, z1, FALSE),
        Header(page * PageSize + (offset % PageSize), offset, f2, z2, TRUE)>>

(* Pointers lie in the data of a segment. *)
Places(headers) ==
  UNION {{h.virtual_addr + k : k \in {n \in 0 .. 8 : n + PointerSize <= h.file_size}} :
           h \in ToSet(headers)}

Relocations(headers) ==
  {<< >>} \cup {<<r>> : r \in Places(headers)}
  \cup {<<r, OtherType>> : r \in Places(headers)}
  \cup ({<<r, s>> : r, s \in {p \in Places(headers) : p % 3 = 0}} \ {<<r, r>> : r \in Places(headers)})

MCKernels ==
  UNION {LET headers == Headers(f1, z1, gap, f2, z2, apart)
         IN  {[headers |-> headers, relocations |-> rs, size |-> 12] : rs \in Relocations(headers)} :
         f1 \in 2 .. 5, z1 \in {0, 1, 3, 6}, gap \in {0, 2}, f2 \in {0, 3, 5}, z2 \in {1, 4},
         apart \in BOOLEAN}
=============================================================================
