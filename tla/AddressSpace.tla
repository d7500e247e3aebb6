---------------------------- MODULE AddressSpace ----------------------------
(***************************************************************************)
(* What a page table promises: every page is mapped to a frame with flags, *)
(* or to None, and a call changes the mapping of its page only.            *)
(***************************************************************************)
CONSTANTS Pages, Mappings, None

VARIABLE mapped

Init == mapped = [page \in Pages |-> None]

(* What a call on page makes of the mapping old; Mapper::map_to succeeds   *)
(* only for a page that is not mapped.                                     *)
Map(old, new, page) ==
  old[page] = None /\ new[page] \in Mappings /\ new = [old EXCEPT ![page] = new[page]]

(* Mapper::unmap. *)
Unmap(old, new, page) == old[page] # None /\ new = [old EXCEPT ![page] = None]

Next ==
  \E old \in {mapped}, new \in {mapped'}, page \in Pages :
    Map(old, new, page) \/ Unmap(old, new, page)

Spec == Init /\ [][Next]_mapped
=============================================================================
