--------------------------- MODULE PageAllocator ---------------------------
(***************************************************************************)
(* What the page allocator of memory.c promises its callers, with no lists, *)
(* locks or merging: page_alloc hands out an aligned block of usable pages  *)
(* that nobody else has, of exactly the order asked for, or nothing, and a  *)
(* freed block can be handed out again.                                     *)
(***************************************************************************)
EXTENDS Pfn

CONSTANTS CPUs, MAX_ALLOC_ORDER, Usable

VARIABLE allocated      \* per CPU: the <<pfn, order>> blocks it has

BlocksOf(c) == {Block(b[1], b[2]) : b \in allocated[c]}
Taken == UNION UNION {BlocksOf(c) : c \in CPUs}

Init == allocated = [c \in CPUs |-> {}]

(* page_alloc returns the block of order k headed by p *)
AllocateBlock(c, p, k) ==
    /\ Aligned(p, k)
    /\ Block(p, k) \subseteq Usable
    /\ Block(p, k) \cap Taken = {}
    /\ allocated' = [allocated EXCEPT ![c] = @ \cup {<<p, k>>}]

FreeBlock(c, b) ==
    /\ b \in allocated[c]
    /\ allocated' = [allocated EXCEPT ![c] = @ \ {b}]

Allocate(c) == \E k \in 0 .. MAX_ALLOC_ORDER : \E p \in Usable : AllocateBlock(c, p, k)

Free(c) == \E b \in allocated[c] : FreeBlock(c, b)

Next == \E c \in CPUs : Allocate(c) \/ Free(c)

Spec == Init /\ [][Next]_allocated
=============================================================================
