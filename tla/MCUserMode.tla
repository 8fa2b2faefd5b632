----------------------------- MODULE MCUserMode -----------------------------
(***************************************************************************)
(* The processors of the cfg on a memory of which every page may be handed  *)
(* out.  What the memory for a page table held before reads as an entry     *)
(* that maps nothing, or one that maps page 0.                              *)
(***************************************************************************)
EXTENDS UserMode

AllPages == PfnSet
HeldEntries == {NoFrame, {}}
=============================================================================
