-------------------------- MODULE MCBuddyAllocator --------------------------
(***************************************************************************)
(* Small instances of BuddyAllocator for TLC.  A memory is given by the     *)
(* number of its pages and the numbers of the unusable ones.                *)
(***************************************************************************)
EXTENDS BuddyAllocator, FiniteSets

(* the pfn with the value n, for n below 16 *)
PfnOf(n) == {b \in 0 .. 3 : (n \div (2 ^ b)) % 2 = 1}

Last3 == PfnOf(3)
Last5 == PfnOf(5)
NoPage == {}
PagesZeroTwo == {PfnOf(0), PfnOf(2)}
=============================================================================
