-------------------------------- MODULE Pfn --------------------------------
(***************************************************************************)
(* Page frame numbers as the buddy allocator computes with them.  A pfn is  *)
(* represented by the set of the positions of its one bits, so that         *)
(* pfn ^ (1 << k) flips the membership of k, comparison looks at the        *)
(* highest differing bit, and a block of order k is what the k low bits     *)
(* range over.  Every width is allowed: the code has 20 significant bits    *)
(* (4 GB of 4 KB pages, type.h) and orders up to 17 (memory.h).             *)
(***************************************************************************)
EXTENDS Naturals

CONSTANT PfnBits                       \* significant bits of a pfn

ASSUME PfnBitsAssumption == PfnBits \in Nat

Bits == 0 .. PfnBits - 1
PfnSet == SUBSET Bits

(* pfn ^ (1 << order), memory.c:242 and :327 *)
Buddy(pfn, order) ==
    IF order \in pfn THEN pfn \ {order} ELSE pfn \cup {order}

(* pfn comparison: the highest bit in which they differ decides *)
Less(p, q) ==
    \E b \in Bits : /\ b \in q \ p
                    /\ \A d \in Bits : d > b => (d \in p <=> d \in q)

Leq(p, q) == p = q \/ Less(p, q)

(* a pfn that may head a block of the order: its low bits are zero *)
Aligned(pfn, order) == pfn \cap (0 .. order - 1) = {}

(* the 1 << order pages of the block headed by pfn *)
Block(pfn, order) == {pfn \cup low : low \in SUBSET (0 .. order - 1)}
=============================================================================
