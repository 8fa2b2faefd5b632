------------------------ MODULE BuddyAllocatorProofs ------------------------
(***************************************************************************)
(* Proofs that the page allocator never hands a page out twice and never    *)
(* loses one, for any number of processors, pages and orders.               *)
(***************************************************************************)
EXTENDS BuddyAllocator, WellFoundedInduction, TLAPS

-----------------------------------------------------------------------------
(* Page frame numbers: bits, buddies and blocks                             *)

(* A set of numbers has a least one.                                        *)
LEMMA LeastNumber ==
    ASSUME NEW T \in SUBSET Nat, T # {}
    PROVE  \E m \in T : \A n \in T : m <= n
<1> DEFINE R == {ss \in Nat \X Nat : ss[1] < ss[2]}
<1>1. IsWellFoundedOn(R, Nat)
  BY NatLessThanWellFounded DEF OpToRel
<1>2. \E m \in T : \A n \in T : <<n, m>> \notin R
  <2> HIDE DEF R
  <2> QED BY <1>1, WFMin
<1>3. PICK m \in T : \A n \in T : <<n, m>> \notin R
  BY <1>2
<1>4. \A n \in T : n \in Nat /\ ~ (n < m)
  BY <1>3
<1> QED BY <1>4

(* pfn 0 is the lowest: the highest bit of any other is above it.           *)
LEMMA ZeroLowest ==
    ASSUME NEW p \in PfnSet
    PROVE  Leq({}, p)
<1> DEFINE T == {PfnBits - b : b \in p}
<1>1. p \in SUBSET (0 .. PfnBits - 1) /\ PfnBits \in Nat
  BY PfnBitsAssumption DEF PfnSet, Bits
<1>2. CASE p = {}
  BY <1>2 DEF Leq
<1>3. CASE p # {}
  <2>1. PICK m \in T : \A n \in T : m <= n
    <3>1. T \in SUBSET Nat /\ T # {}
      BY <1>1, <1>3
    <3> HIDE DEF T
    <3> QED BY <3>1, LeastNumber
  <2>2. PICK b \in p : m = PfnBits - b
    BY <2>1
  <2>3. \A d \in p : d <= b
    <3> SUFFICES ASSUME NEW d \in p
                 PROVE  d <= b
      OBVIOUS
    <3>1. PfnBits - d \in T
      OBVIOUS
    <3> QED BY <1>1, <2>1, <2>2, <3>1
  <2>4. b \in Bits /\ b \in p \ {} /\ \A d \in Bits : d > b => d \notin p
    BY <1>1, <2>3 DEF Bits
  <2> QED BY <2>4 DEF Leq, Less
<1> QED BY <1>2, <1>3

(* Flipping a bit of a pfn gives a pfn, another one, and flipping it again  *)
(* gives the first one back (memory.c:242).                                 *)
LEMMA BuddyBasics ==
    ASSUME NEW p, NEW k \in Nat
    PROVE  /\ Buddy(p, k) # p
           /\ Buddy(Buddy(p, k), k) = p
           /\ k \in Bits /\ p \in PfnSet => Buddy(p, k) \in PfnSet
  BY DEF Buddy, PfnSet

(* Of two buddies the one whose bit is clear is the lower (memory.c:243).   *)
LEMMA LowerBuddy ==
    ASSUME NEW p \in PfnSet, NEW k \in Bits
    PROVE  Less(p, Buddy(p, k)) <=> k \notin p
<1>1. CASE k \in p
  BY <1>1 DEF Less, Buddy
<1>2. CASE k \notin p
  <2>1. k \in Buddy(p, k) \ p
    BY <1>2 DEF Buddy
  <2>2. \A d \in Bits : d > k => (d \in p <=> d \in Buddy(p, k))
    BY <1>2, PfnBitsAssumption DEF Buddy, Bits
  <2> QED BY <1>2, <2>1, <2>2 DEF Less
<1> QED BY <1>1, <1>2

(* The order of pfns is transitive: a buddy not above end_kpage is not      *)
(* above kpage_last (memory.c:245, :262).                                   *)
LEMMA LeqTransitive ==
    ASSUME NEW p \in PfnSet, NEW q \in PfnSet, NEW r \in PfnSet,
           Leq(p, q), Leq(q, r)
    PROVE  Leq(p, r)
<1>1. CASE p = q \/ q = r
  BY <1>1 DEF Leq
<1>2. CASE Less(p, q) /\ Less(q, r)
  <2>1. PICK a \in Bits : /\ a \in q \ p
                          /\ \A d \in Bits : d > a => (d \in p <=> d \in q)
    BY <1>2 DEF Less
  <2>2. PICK b \in Bits : /\ b \in r \ q
                          /\ \A d \in Bits : d > b => (d \in q <=> d \in r)
    BY <1>2 DEF Less
  <2>3. a \in Nat /\ b \in Nat /\ \A d \in Bits : d \in Nat
    BY PfnBitsAssumption DEF Bits
  <2>4. CASE a > b
    <3>1. a \in r \ p
      BY <2>1, <2>2, <2>4
    <3>2. \A d \in Bits : d > a => (d \in p <=> d \in r)
      BY <2>1, <2>2, <2>3, <2>4
    <3> QED BY <3>1, <3>2 DEF Leq, Less
  <2>5. CASE b > a
    <3>1. b \in r \ p
      BY <2>1, <2>2, <2>5
    <3>2. \A d \in Bits : d > b => (d \in p <=> d \in r)
      BY <2>1, <2>2, <2>3, <2>5
    <3> QED BY <3>1, <3>2 DEF Leq, Less
  <2> QED BY <2>1, <2>2, <2>3, <2>4, <2>5
<1> QED BY <1>1, <1>2 DEF Leq

(* A page is in the block it heads, and alone in it at order 0.             *)
LEMMA BlockHead ==
    ASSUME NEW p, NEW k \in Nat
    PROVE  p \in Block(p, k) /\ Block(p, 0) = {p}
<1>1. {} \in SUBSET (0 .. k - 1) /\ p \cup {} = p
  OBVIOUS
<1>2. \A low \in SUBSET (0 .. 0 - 1) : low = {}
  OBVIOUS
<1>3. p \in Block(p, k)
  BY <1>1 DEF Block
<1>4. Block(p, 0) \subseteq {p}
  BY <1>2, p \cup {} = p DEF Block
<1>5. p \in Block(p, 0)
  BY {} \in SUBSET (0 .. 0 - 1), p \cup {} = p DEF Block
<1> QED BY <1>3, <1>4, <1>5

(* Alignment passes to the buddy and to the lower orders, and up one order  *)
(* to the lower buddy.                                                      *)
LEMMA AlignedBuddy ==
    ASSUME NEW p, NEW k \in Nat
    PROVE  /\ Aligned(p, k) => Aligned(Buddy(p, k), k)
           /\ Aligned(p, k) /\ k \notin p => Aligned(p, k + 1)
           /\ Aligned(p, k + 1) => Aligned(p, k) /\ k \notin p
           /\ Aligned(p, 0)
  BY DEF Aligned, Buddy

(* A block is the disjoint union of its two halves, headed by its head and  *)
(* by the head's buddy one order down (memory.c:269-271, :325-332).         *)
LEMMA BlockHalves ==
    ASSUME NEW p, NEW k \in Nat, Aligned(p, k + 1)
    PROVE  /\ Block(p, k + 1) = Block(p, k) \cup Block(Buddy(p, k), k)
           /\ Block(p, k) \cap Block(Buddy(p, k), k) = {}
<1>1. Buddy(p, k) = p \cup {k} /\ k \notin p
  BY DEF Aligned, Buddy
<1>2. 0 .. (k + 1) - 1 = (0 .. k - 1) \cup {k} /\ k \notin 0 .. k - 1
  OBVIOUS
<1>3. Block(p, k + 1) \subseteq Block(p, k) \cup Block(Buddy(p, k), k)
  <2> SUFFICES ASSUME NEW low \in SUBSET (0 .. (k + 1) - 1)
               PROVE  p \cup low \in Block(p, k) \cup Block(Buddy(p, k), k)
    BY DEF Block
  <2>1. CASE k \notin low
    BY <1>2, <2>1 DEF Block
  <2>2. CASE k \in low
    <3>1. low \ {k} \in SUBSET (0 .. k - 1)
      BY <1>2
    <3>2. p \cup low = Buddy(p, k) \cup (low \ {k})
      BY <1>1, <2>2
    <3> QED BY <3>1, <3>2 DEF Block
  <2> QED BY <2>1, <2>2
<1>4. Block(p, k) \subseteq Block(p, k + 1)
  BY <1>2 DEF Block
<1>5. Block(Buddy(p, k), k) \subseteq Block(p, k + 1)
  <2> SUFFICES ASSUME NEW low \in SUBSET (0 .. k - 1)
               PROVE  Buddy(p, k) \cup low \in Block(p, k + 1)
    BY DEF Block
  <2>1. low \cup {k} \in SUBSET (0 .. (k + 1) - 1)
    BY <1>2
  <2>2. Buddy(p, k) \cup low = p \cup (low \cup {k})
    BY <1>1
  <2> QED BY <2>1, <2>2 DEF Block
<1>6. Block(p, k) \cap Block(Buddy(p, k), k) = {}
  BY <1>1, <1>2 DEF Block
<1> QED BY <1>3, <1>4, <1>5, <1>6

(* Where the buddy of an aligned page can be: at the head of a block no     *)
(* larger than the buddy, or inside a larger block, which then holds the    *)
(* page as well.  So a page that heads a block of its own has a buddy that  *)
(* is a head (memory.c:263).                                                *)
LEMMA BuddyInBlock ==
    ASSUME NEW p, NEW m \in Nat, Aligned(p, m),
           NEW h, NEW j \in Nat, Aligned(h, j), Buddy(p, m) \in Block(h, j)
    PROVE  \/ j <= m /\ h = Buddy(p, m)
           \/ j > m /\ p \in Block(h, j)
<1>1. PICK low \in SUBSET (0 .. j - 1) : Buddy(p, m) = h \cup low
  BY DEF Block
<1>2. CASE j <= m
  <2>1. Aligned(Buddy(p, m), m)
    BY AlignedBuddy
  <2>2. low = {}
    BY <1>1, <1>2, <2>1 DEF Aligned
  <2> QED BY <1>1, <1>2, <2>2
<1>3. CASE j > m
  <2>1. m \in 0 .. j - 1 /\ m \notin h
    BY <1>3 DEF Aligned
  <2>2. p = Buddy(h \cup low, m)
    BY <1>1, BuddyBasics
  <2>3. p = h \cup Buddy(low, m)
    BY <2>1, <2>2 DEF Buddy
  <2>4. Buddy(low, m) \in SUBSET (0 .. j - 1)
    BY <2>1 DEF Buddy
  <2> QED BY <1>3, <2>3, <2>4 DEF Block
<1> QED BY <1>2, <1>3

-----------------------------------------------------------------------------
(* Sets of claims                                                           *)

Claim(as, by, page, k) == [as |-> as, by |-> by, page |-> page, order |-> k]

Apart(S) == \A x, y \in S : x # y => Extent(x) \cap Extent(y) = {}
Cover(S) == UNION {Extent(x) : x \in S}

(* Replacing some claims by others over the same pages keeps claims apart   *)
(* and what they cover: the shape of every merge, split, insertion and      *)
(* removal of the allocator.                                                *)
LEMMA ReplaceClaims ==
    ASSUME NEW C, NEW R \in SUBSET C, NEW N, Apart(C), Apart(N),
           Cover(N) = Cover(R)
    PROVE  /\ Apart((C \ R) \cup N)
           /\ Cover((C \ R) \cup N) = Cover(C)
<1>1. \A x \in C \ R, y \in N : Extent(x) \cap Extent(y) = {}
  <2> SUFFICES ASSUME NEW x \in C \ R, NEW y \in N, NEW q \in Extent(x), q \in Extent(y)
               PROVE  FALSE
    OBVIOUS
  <2>1. q \in Cover(R)
    BY DEF Cover
  <2>2. PICK z \in R : q \in Extent(z)
    BY <2>1 DEF Cover
  <2> QED BY <2>2 DEF Apart
<1>2. Apart((C \ R) \cup N)
  BY <1>1 DEF Apart
<1>3. Cover((C \ R) \cup N) = Cover(C \ R) \cup Cover(N)
  BY DEF Cover
<1>4. Cover(C) = Cover(C \ R) \cup Cover(R)
  BY DEF Cover
<1> QED BY <1>2, <1>3, <1>4

(* A claim is the record of its four fields, and Claim builds it.           *)
LEMMA ClaimFields ==
    /\ \A x \in ClaimType : x = Claim(x.as, x.by, x.page, x.order)
    /\ \A a, b, p, k :
         /\ Claim(a, b, p, k).as = a /\ Claim(a, b, p, k).by = b
         /\ Claim(a, b, p, k).page = p /\ Claim(a, b, p, k).order = k
         /\ Extent(Claim(a, b, p, k)) = Block(p, k)
  BY DEF ClaimType, Claim, Extent

(* The orders are small naturals; the arithmetic of every step rests on this.*)
LEMMA ConstantTypes ==
    /\ MAX_ALLOC_ORDER \in Nat
    /\ \A k \in Orders : k \in Nat /\ k <= MAX_ALLOC_ORDER /\ k \in AllocOrders
    /\ \A k \in AllocOrders : k \in Nat
    /\ \A k \in Nat : k <= MAX_ALLOC_ORDER => k \in Orders
    /\ \A k \in Nat : k < MAX_ALLOC_ORDER => k \in Bits
    /\ Pages \subseteq PfnSet
    /\ kpage_last \in Pages
    /\ Usable \subseteq Pages
    /\ Page0 \in Pages
<1>1. MAX_ALLOC_ORDER \in Nat /\ \A k \in Nat : k < MAX_ALLOC_ORDER => k \in Bits
  BY OrderAssumption, PfnBitsAssumption DEF Bits
<1>2. /\ \A k \in Orders : k \in Nat /\ k <= MAX_ALLOC_ORDER /\ k \in AllocOrders
      /\ \A k \in AllocOrders : k \in Nat
      /\ \A k \in Nat : k <= MAX_ALLOC_ORDER => k \in Orders
  BY <1>1 DEF Orders, AllocOrders
<1>3. Pages \subseteq PfnSet /\ kpage_last \in Pages /\ Page0 \in Pages
  BY PageAssumption, ZeroLowest DEF Pages, Leq, Page0, PfnSet
<1> QED BY <1>1, <1>2, <1>3 DEF Usable

-----------------------------------------------------------------------------
(* Every claim is over usable pages only, its head among them.              *)
LEMMA ClaimPages ==
    ASSUME IndInv, NEW x \in Claims
    PROVE  /\ x \in ClaimType /\ IsClaim(x)
           /\ x.page \in Pages /\ x.order \in Orders /\ x.order \in Nat
           /\ x.page \in Extent(x)
           /\ Extent(x) \subseteq Usable /\ Extent(x) \subseteq Pages
           /\ Aligned(x.page, x.order) /\ kp_order[x.page] <= x.order
<1>1. x \in ClaimType /\ IsClaim(x) /\ x.page \in Pages /\ x.order \in Orders
  BY DEF Claims, ClaimType
<1>2. x.page \in Extent(x)
  BY <1>1, BlockHead, ConstantTypes DEF Extent
<1>3. Extent(x) \subseteq Usable
  BY DEF IndInv, NoLeak
<1> QED BY <1>1, <1>2, <1>3, ConstantTypes DEF IndInv, HeadsAligned

(* Two claims that share a page are the same claim.                         *)
LEMMA SameClaim ==
    ASSUME IndInv, NEW x \in Claims, NEW y \in Claims, NEW p,
           p \in Extent(x), p \in Extent(y)
    PROVE  x = y
  BY DEF IndInv, NoDoubleAllocation

(* The claims that the places a processor can be in stand for.              *)
LEMMA ClaimsHeld ==
    ASSUME IndInv
    PROVE  /\ \A k \in Orders : \A p \in free_pages[k] :
                Claim("free", NoCPU, p, k) \in Claims
           /\ \A p \in unadded \ Unusable : Claim("boot", NoCPU, p, 0) \in Claims
           /\ \A c \in CPUs : \A p \in owned[c] :
                Claim("own", c, p, kp_order[p]) \in Claims
           /\ \A c \in CPUs : Carrying(c) =>
                Claim("carry", c, block[c], alloc_order[c]) \in Claims
           /\ \A c \in CPUs : Adding(c) =>
                Claim("add", c, kpage[c], order[c]) \in Claims
<1>1. TypeOK /\ \A c \in CPUs : Carrying(c) => alloc_order[c] \in Orders
  BY DEF IndInv, LocalsConsistent, LocalsOf
<1>2. ASSUME NEW k \in Orders, NEW p \in free_pages[k]
      PROVE  Claim("free", NoCPU, p, k) \in Claims
  BY <1>1, <1>2 DEF TypeOK, Claims, ClaimType, IsClaim, Claim
<1>3. ASSUME NEW p \in unadded \ Unusable
      PROVE  Claim("boot", NoCPU, p, 0) \in Claims
  <2>1. 0 \in Orders
    BY ConstantTypes
  <2> QED BY <1>1, <1>3, <2>1 DEF TypeOK, Claims, ClaimType, IsClaim, Claim
<1>4. ASSUME NEW c \in CPUs, NEW p \in owned[c]
      PROVE  Claim("own", c, p, kp_order[p]) \in Claims
  BY <1>1, <1>4 DEF TypeOK, Claims, ClaimType, IsClaim, Claim
<1>5. ASSUME NEW c \in CPUs, Carrying(c)
      PROVE  Claim("carry", c, block[c], alloc_order[c]) \in Claims
  BY <1>1, <1>5 DEF TypeOK, Claims, ClaimType, IsClaim, Claim
<1>6. ASSUME NEW c \in CPUs, Adding(c)
      PROVE  Claim("add", c, kpage[c], order[c]) \in Claims
  BY <1>1, <1>6 DEF TypeOK, Claims, ClaimType, IsClaim, Claim
<1> QED BY <1>2, <1>3, <1>4, <1>5, <1>6

(* A buddy that was read with the right order still heads a claim of that   *)
(* order: it cannot be inside another block, and its field is a lower bound *)
(* of its block's order.  This is why the reads without its lock are sound. *)
LEMMA BuddyIsHead ==
    ASSUME IndInv, NEW c \in CPUs, pc[c] \in {"add_flags"} \cup MergePCs,
           NEW x \in Claims, Other(c) \in Extent(x)
    PROVE  x.page = Other(c) /\ x.order = order[c]
<1> DEFINE a == Claim("add", c, kpage[c], order[c])
<1>1. Adding(c) /\ kp_order[Other(c)] = order[c] /\ order[c] \in Nat
  BY ConstantTypes DEF Adding, AddPCs, IndInv, LocalsConsistent, LocalsOf, TypeOK
<1>2. a \in Claims /\ a.page = kpage[c] /\ a.order = order[c]
      /\ Extent(a) = Block(kpage[c], order[c])
  BY <1>1, ClaimsHeld, ClaimFields
<1>3. Aligned(kpage[c], order[c]) /\ kpage[c] \in Extent(a)
  BY <1>2, ClaimPages
<1>4. Aligned(x.page, x.order) /\ x.order \in Nat /\ kp_order[x.page] <= x.order
  BY ClaimPages
<1>5. \/ x.order <= order[c] /\ x.page = Other(c)
      \/ x.order > order[c] /\ kpage[c] \in Extent(x)
  BY <1>1, <1>3, <1>4, BuddyInBlock DEF Other, Extent
<1>6. ASSUME x.order > order[c], kpage[c] \in Extent(x)
      PROVE  FALSE
  <2>1. x = a
    BY <1>2, <1>3, <1>6, SameClaim
  <2> QED BY <1>1, <1>2, <1>6, <2>1
<1>7. x.order <= order[c] /\ x.page = Other(c)
  BY <1>5, <1>6
<1> QED BY <1>1, <1>4, <1>7

(* What LocalsOf says of a processor depends on its own locals, on the free *)
(* lists and on the order fields.                                           *)
LEMMA LocalsKept ==
    ASSUME NEW d \in CPUs, LocalsOf(d),
           UNCHANGED <<kp_order, free_pages>>,
           pc'[d] = pc[d], ret'[d] = ret[d], kpage'[d] = kpage[d],
           order'[d] = order[d], block'[d] = block[d],
           alloc_order'[d] = alloc_order[d], request'[d] = request[d]
    PROVE  LocalsOf(d)'
  BY DEF LocalsOf, Carrying, Adding, Other

(* where a processor is, and what a step leaves alone, are expanded in every *)
(* step below                                                               *)
USE DEF Goto, AddPCs, MergePCs, InsertPCs, AllocPCs, PopPCs, HoldPCs, ListPCs,
        kpageVars, addVars, allocVars

-----------------------------------------------------------------------------
(* Steps that move no block                                                 *)
(* leave the set of claims, and so both block invariants, as they were.     *)
LEMMA QuietClaims ==
    ASSUME IndInv,
           UNCHANGED <<kp_order, free_pages, unadded, owned>>,
           \A d \in CPUs :
              /\ Adding(d)' <=> Adding(d)
              /\ Carrying(d)' <=> Carrying(d)
              /\ Adding(d) => kpage'[d] = kpage[d] /\ order'[d] = order[d]
              /\ Carrying(d) => block'[d] = block[d] /\ alloc_order'[d] = alloc_order[d]
    PROVE  HeadsAligned' /\ NoDoubleAllocation' /\ NoLeak'
<1>1. \A x \in ClaimType : IsClaim(x)' <=> IsClaim(x)
  BY DEF IsClaim
<1>2. Claims' = Claims
  BY <1>1 DEF Claims
<1> QED BY <1>2 DEF IndInv, HeadsAligned, NoDoubleAllocation, NoLeak

(* page_add_to_slot takes its list lock (memory.c:258): it becomes the owner.*)
LEMMA AddLockInductive ==
    ASSUME IndInv, NEW c \in CPUs, AddLock(c)
    PROVE  IndInv'
<1>1. TypeOK'
  BY ConstantTypes DEF IndInv, TypeOK, AddLock, LockOrder, PCs
<1>2. LockOwners'
  <2> SUFFICES ASSUME NEW d \in CPUs
               PROVE  /\ pc'[d] \in HoldPCs => alloc_order_lock'[order'[d]] = d
                      /\ pc'[d] \in ListPCs => /\ alloc_order'[d] \in Orders
                                               /\ alloc_order_lock'[alloc_order'[d]] = d
    BY DEF LockOwners
  <2>1. order[c] \in Orders /\ alloc_order_lock[order[c]] = NoCPU
    BY ConstantTypes DEF IndInv, TypeOK, AddLock, LockOrder
  <2>2. alloc_order_lock' = [alloc_order_lock EXCEPT ![order[c]] = c]
        /\ order' = order /\ alloc_order' = alloc_order
    BY DEF AddLock, LockOrder
  <2>3. CASE d = c
    BY <2>1, <2>2, <2>3 DEF IndInv, TypeOK, AddLock
  <2>4. CASE d # c
    <3>1. pc'[d] = pc[d] /\ d # NoCPU
      BY <2>4, CPUAssumption DEF IndInv, TypeOK, AddLock
    <3> QED BY <2>1, <2>2, <3>1 DEF IndInv, TypeOK, LockOwners
  <2> QED BY <2>3, <2>4
<1>3. BootAlone'
  BY DEF IndInv, TypeOK, BootAlone, Adding, AddLock, LockOrder
<1>4. Listed' /\ UnaddedFresh'
  BY DEF IndInv, Listed, UnaddedFresh, AddLock, LockOrder
<1>5. HeadsAligned' /\ NoDoubleAllocation' /\ NoLeak'
  BY QuietClaims DEF IndInv, TypeOK, Adding, Carrying, AddLock, LockOrder
<1>6. LocalsConsistent'
  BY ConstantTypes DEF IndInv, TypeOK, LocalsConsistent, LocalsOf, Other,
       Adding, Carrying, AddLock, LockOrder
<1> QED BY <1>1, <1>2, <1>3, <1>4, <1>5, <1>6 DEF IndInv

(* Taking the lower buddy's page lock (memory.c:266) moves no block.        *)
LEMMA MergeLockFirstInductive ==
    ASSUME IndInv, NEW c \in CPUs, MergeLockFirst(c)
    PROVE  IndInv'
<1>1. TypeOK'
  BY ConstantTypes DEF IndInv, TypeOK, MergeLockFirst, LockKpage, PCs
<1>2. LockOwners'
  BY ConstantTypes DEF IndInv, TypeOK, LockOwners, MergeLockFirst, LockKpage
<1>3. BootAlone'
  BY DEF IndInv, TypeOK, BootAlone, Adding, MergeLockFirst, LockKpage
<1>4. Listed' /\ UnaddedFresh'
  BY DEF IndInv, Listed, UnaddedFresh, MergeLockFirst, LockKpage
<1>5. HeadsAligned' /\ NoDoubleAllocation' /\ NoLeak'
  BY QuietClaims DEF IndInv, TypeOK, Adding, Carrying, MergeLockFirst, LockKpage
<1>6. LocalsConsistent'
  BY ConstantTypes DEF IndInv, TypeOK, LocalsConsistent, LocalsOf, Other,
       Adding, Carrying, MergeLockFirst, LockKpage
<1> QED BY <1>1, <1>2, <1>3, <1>4, <1>5, <1>6 DEF IndInv

(* Taking the upper buddy's page lock (memory.c:267) moves no block.        *)
LEMMA MergeLockSecondInductive ==
    ASSUME IndInv, NEW c \in CPUs, MergeLockSecond(c)
    PROVE  IndInv'
<1>1. TypeOK'
  BY ConstantTypes DEF IndInv, TypeOK, MergeLockSecond, LockKpage, PCs
<1>2. LockOwners'
  BY ConstantTypes DEF IndInv, TypeOK, LockOwners, MergeLockSecond, LockKpage
<1>3. BootAlone'
  BY DEF IndInv, TypeOK, BootAlone, Adding, MergeLockSecond, LockKpage
<1>4. Listed' /\ UnaddedFresh'
  BY DEF IndInv, Listed, UnaddedFresh, MergeLockSecond, LockKpage
<1>5. HeadsAligned' /\ NoDoubleAllocation' /\ NoLeak'
  BY QuietClaims DEF IndInv, TypeOK, Adding, Carrying, MergeLockSecond, LockKpage
<1>6. LocalsConsistent'
  BY ConstantTypes DEF IndInv, TypeOK, LocalsConsistent, LocalsOf, Other,
       Adding, Carrying, MergeLockSecond, LockKpage
<1> QED BY <1>1, <1>2, <1>3, <1>4, <1>5, <1>6 DEF IndInv

(* Taking the page lock before the insertion (memory.c:279) moves no block. *)
LEMMA InsertLockInductive ==
    ASSUME IndInv, NEW c \in CPUs, InsertLock(c)
    PROVE  IndInv'
<1>1. TypeOK'
  BY ConstantTypes DEF IndInv, TypeOK, InsertLock, LockKpage, PCs
<1>2. LockOwners'
  BY ConstantTypes DEF IndInv, TypeOK, LockOwners, InsertLock, LockKpage
<1>3. BootAlone'
  BY DEF IndInv, TypeOK, BootAlone, Adding, InsertLock, LockKpage
<1>4. Listed' /\ UnaddedFresh'
  BY DEF IndInv, Listed, UnaddedFresh, InsertLock, LockKpage
<1>5. HeadsAligned' /\ NoDoubleAllocation' /\ NoLeak'
  BY QuietClaims DEF IndInv, TypeOK, Adding, Carrying, InsertLock, LockKpage
<1>6. LocalsConsistent'
  BY ConstantTypes DEF IndInv, TypeOK, LocalsConsistent, LocalsOf, Other,
       Adding, Carrying, InsertLock, LockKpage
<1> QED BY <1>1, <1>2, <1>3, <1>4, <1>5, <1>6 DEF IndInv

(* page_alloc takes the list lock of the order it tries (memory.c:302).     *)
LEMMA AllocLockInductive ==
    ASSUME IndInv, NEW c \in CPUs, AllocLock(c)
    PROVE  IndInv'
<1>1. TypeOK'
  BY ConstantTypes DEF IndInv, TypeOK, AllocLock, LockOrder, PCs
<1>2. LockOwners'
  <2> SUFFICES ASSUME NEW d \in CPUs
               PROVE  /\ pc'[d] \in HoldPCs => alloc_order_lock'[order'[d]] = d
                      /\ pc'[d] \in ListPCs => /\ alloc_order'[d] \in Orders
                                               /\ alloc_order_lock'[alloc_order'[d]] = d
    BY DEF LockOwners
  <2>1. alloc_order[c] \in Orders /\ alloc_order_lock[alloc_order[c]] = NoCPU
    BY ConstantTypes DEF IndInv, TypeOK, AllocLock, LockOrder
  <2>2. alloc_order_lock' = [alloc_order_lock EXCEPT ![alloc_order[c]] = c]
        /\ order' = order /\ alloc_order' = alloc_order
    BY DEF AllocLock, LockOrder
  <2>3. CASE d = c
    BY <2>1, <2>2, <2>3 DEF IndInv, TypeOK, AllocLock
  <2>4. CASE d # c
    <3>1. pc'[d] = pc[d] /\ d # NoCPU
      BY <2>4, CPUAssumption DEF IndInv, TypeOK, AllocLock
    <3> QED BY <2>1, <2>2, <3>1 DEF IndInv, TypeOK, LockOwners
  <2> QED BY <2>3, <2>4
<1>3. BootAlone'
  BY DEF IndInv, TypeOK, BootAlone, Adding, AllocLock, LockOrder
<1>4. Listed' /\ UnaddedFresh'
  BY DEF IndInv, Listed, UnaddedFresh, AllocLock, LockOrder
<1>5. HeadsAligned' /\ NoDoubleAllocation' /\ NoLeak'
  BY QuietClaims DEF IndInv, TypeOK, Adding, Carrying, AllocLock, LockOrder
<1>6. LocalsConsistent'
  BY ConstantTypes DEF IndInv, TypeOK, LocalsConsistent, LocalsOf, Other,
       Adding, Carrying, AllocLock, LockOrder
<1> QED BY <1>1, <1>2, <1>3, <1>4, <1>5, <1>6 DEF IndInv

(* page_alloc takes the chosen page's lock (memory.c:307): moves no block.  *)
LEMMA PopLockInductive ==
    ASSUME IndInv, NEW c \in CPUs, PopLock(c)
    PROVE  IndInv'
<1>1. TypeOK'
  BY ConstantTypes DEF IndInv, TypeOK, PopLock, LockKpage, PCs
<1>2. LockOwners'
  BY ConstantTypes DEF IndInv, TypeOK, LockOwners, PopLock, LockKpage
<1>3. BootAlone'
  BY DEF IndInv, TypeOK, BootAlone, Adding, PopLock, LockKpage
<1>4. Listed' /\ UnaddedFresh'
  BY DEF IndInv, Listed, UnaddedFresh, PopLock, LockKpage
<1>5. HeadsAligned' /\ NoDoubleAllocation' /\ NoLeak'
  BY QuietClaims DEF IndInv, TypeOK, Adding, Carrying, PopLock, LockKpage
<1>6. LocalsConsistent'
  BY ConstantTypes DEF IndInv, TypeOK, LocalsConsistent, LocalsOf, Other,
       Adding, Carrying, PopLock, LockKpage
<1> QED BY <1>1, <1>2, <1>3, <1>4, <1>5, <1>6 DEF IndInv

(* A buddy seen with the same order keeps it: it can only change under a lock.*)
LEMMA AddReadOrderInductive ==
    ASSUME IndInv, NEW c \in CPUs, AddReadOrder(c)
    PROVE  IndInv'
<1>1. TypeOK'
  BY ConstantTypes DEF IndInv, TypeOK, AddReadOrder, MayMerge, PCs
<1>2. LockOwners'
  BY ConstantTypes DEF IndInv, TypeOK, LockOwners, AddReadOrder, MayMerge
<1>3. BootAlone'
  BY DEF IndInv, TypeOK, BootAlone, Adding, AddReadOrder, MayMerge
<1>4. Listed' /\ UnaddedFresh'
  BY DEF IndInv, Listed, UnaddedFresh, AddReadOrder, MayMerge
<1>5. HeadsAligned' /\ NoDoubleAllocation' /\ NoLeak'
  BY QuietClaims DEF IndInv, TypeOK, Adding, Carrying, AddReadOrder, MayMerge
<1>6. LocalsConsistent'
  <2>1. ASSUME NEW d \in CPUs, d # c
        PROVE  LocalsOf(d)'
    BY <2>1, LocalsKept DEF IndInv, TypeOK, LocalsConsistent, AddReadOrder
  <2>2. LocalsOf(c)'
    <3>1. CASE MayMerge(c)
      <4>1. order[c] \in Nat /\ order[c] \in Bits /\ order[c] < MAX_ALLOC_ORDER
        BY <3>1, ConstantTypes DEF MayMerge, IndInv, TypeOK
      <4>2. kpage[c] \in PfnSet /\ end_kpage[c] \in PfnSet /\ kpage_last \in PfnSet
            /\ Leq(end_kpage[c], kpage_last)
        BY ConstantTypes DEF IndInv, TypeOK, Pages
      <4>3. Other(c) \in PfnSet
        BY <4>1, <4>2, BuddyBasics DEF Other
      <4>4. Leq(Other(c), kpage_last)
        BY <3>1, <4>2, <4>3, LeqTransitive DEF MayMerge
      <4>5. Other(c) \in Pages
        BY <4>3, <4>4 DEF Pages
      <4>6. pc'[c] = "add_flags" /\ Other(c)' = Other(c)
        BY <3>1 DEF IndInv, TypeOK, AddReadOrder, Other
      <4> QED BY <3>1, <4>1, <4>5, <4>6
              DEF IndInv, LocalsConsistent, LocalsOf, TypeOK, AddReadOrder,
                MayMerge, Carrying, Adding
    <3>2. CASE ~ MayMerge(c)
      BY <3>2 DEF IndInv, LocalsConsistent, LocalsOf, TypeOK, AddReadOrder,
           Carrying, Adding
    <3> QED BY <3>1, <3>2
  <2> QED BY <2>1, <2>2 DEF LocalsConsistent
<1> QED BY <1>1, <1>2, <1>3, <1>4, <1>5, <1>6 DEF IndInv

(* A buddy seen free is on the list whose lock is held, and stays there.    *)
LEMMA AddReadFlagsInductive ==
    ASSUME IndInv, NEW c \in CPUs, AddReadFlags(c)
    PROVE  IndInv'
<1>1. TypeOK'
  BY ConstantTypes DEF IndInv, TypeOK, AddReadFlags, BuddyFree, PCs
<1>2. LockOwners'
  BY ConstantTypes DEF IndInv, TypeOK, LockOwners, AddReadFlags, BuddyFree
<1>3. BootAlone'
  BY DEF IndInv, TypeOK, BootAlone, Adding, AddReadFlags, BuddyFree
<1>4. Listed' /\ UnaddedFresh'
  BY DEF IndInv, Listed, UnaddedFresh, AddReadFlags, BuddyFree
<1>5. HeadsAligned' /\ NoDoubleAllocation' /\ NoLeak'
  BY QuietClaims DEF IndInv, TypeOK, Adding, Carrying, AddReadFlags, BuddyFree
<1>6. LocalsConsistent'
  <2>1. ASSUME NEW d \in CPUs, d # c
        PROVE  LocalsOf(d)'
    BY <2>1, LocalsKept DEF IndInv, TypeOK, LocalsConsistent, AddReadFlags
  <2>2. LocalsOf(c)'
    <3>1. pc[c] = "add_flags" /\ LocalsOf(c) /\ Other(c)' = Other(c)
      BY DEF IndInv, LocalsConsistent, AddReadFlags, Other
    <3>2. BuddyFree(c) => Other(c) \in free_pages[order[c]]
      BY <3>1 DEF LocalsOf, BuddyFree, IndInv, Listed
    <3> QED BY <3>1, <3>2
            DEF LocalsOf, IndInv, TypeOK, AddReadFlags, Carrying, Adding
  <2> QED BY <2>1, <2>2 DEF LocalsConsistent
<1> QED BY <1>1, <1>2, <1>3, <1>4, <1>5, <1>6 DEF IndInv

(* The page chosen is on the list whose lock is held.                       *)
LEMMA AllocChooseInductive ==
    ASSUME IndInv, NEW c \in CPUs, AllocChoose(c)
    PROVE  IndInv'
<1>0. alloc_order[c] \in Orders
  BY ConstantTypes DEF IndInv, LockOwners, AllocChoose, Orders, AllocOrders
<1>1. TypeOK'
  BY <1>0, ConstantTypes DEF IndInv, TypeOK, AllocChoose, PCs
<1>2. LockOwners'
  BY ConstantTypes DEF IndInv, TypeOK, LockOwners, AllocChoose
<1>3. BootAlone'
  BY DEF IndInv, TypeOK, BootAlone, Adding, AllocChoose
<1>4. Listed' /\ UnaddedFresh'
  BY DEF IndInv, Listed, UnaddedFresh, AllocChoose
<1>5. HeadsAligned' /\ NoDoubleAllocation' /\ NoLeak'
  BY QuietClaims DEF IndInv, TypeOK, Adding, Carrying, AllocChoose
<1>6. LocalsConsistent'
  BY ConstantTypes DEF IndInv, TypeOK, LocalsConsistent, LocalsOf, Other,
       Adding, Carrying, AllocChoose
<1> QED BY <1>1, <1>2, <1>3, <1>4, <1>5, <1>6 DEF IndInv

(* Calling page_alloc touches no shared state.                              *)
LEMMA PageAllocCallInductive ==
    ASSUME IndInv, NEW c \in CPUs, PageAllocCall(c)
    PROVE  IndInv'
<1>1. TypeOK'
  BY ConstantTypes DEF IndInv, TypeOK, PageAllocCall, PCs
<1>2. LockOwners'
  BY ConstantTypes DEF IndInv, TypeOK, LockOwners, PageAllocCall
<1>3. BootAlone'
  BY DEF IndInv, TypeOK, BootAlone, Adding, PageAllocCall
<1>4. Listed' /\ UnaddedFresh'
  BY DEF IndInv, Listed, UnaddedFresh, PageAllocCall
<1>5. HeadsAligned' /\ NoDoubleAllocation' /\ NoLeak'
  BY QuietClaims DEF IndInv, TypeOK, Adding, Carrying, PageAllocCall
<1>6. LocalsConsistent'
  BY ConstantTypes DEF IndInv, TypeOK, LocalsConsistent, LocalsOf, Other,
       Adding, Carrying, PageAllocCall
<1> QED BY <1>1, <1>2, <1>3, <1>4, <1>5, <1>6 DEF IndInv

(* A page_alloc that returns NULL leaves every block where it was.          *)
LEMMA AllocFailInductive ==
    ASSUME IndInv, NEW c \in CPUs, AllocFail(c)
    PROVE  IndInv'
<1>1. TypeOK'
  BY ConstantTypes DEF IndInv, TypeOK, AllocFail, PCs
<1>2. LockOwners'
  BY ConstantTypes DEF IndInv, TypeOK, LockOwners, AllocFail
<1>3. BootAlone'
  BY DEF IndInv, TypeOK, BootAlone, Adding, AllocFail
<1>4. Listed' /\ UnaddedFresh'
  BY DEF IndInv, Listed, UnaddedFresh, AllocFail
<1>5. HeadsAligned' /\ NoDoubleAllocation' /\ NoLeak'
  BY QuietClaims DEF IndInv, TypeOK, Adding, Carrying, AllocFail
<1>6. LocalsConsistent'
  BY ConstantTypes DEF IndInv, TypeOK, LocalsConsistent, LocalsOf, Other,
       Adding, Carrying, AllocFail
<1> QED BY <1>1, <1>2, <1>3, <1>4, <1>5, <1>6 DEF IndInv

(* Going on to the next order releases one list lock and moves no block.    *)
LEMMA AllocNextOrderInductive ==
    ASSUME IndInv, NEW c \in CPUs, AllocNextOrder(c)
    PROVE  IndInv'
<1>0. alloc_order[c] \in Orders /\ alloc_order[c] + 1 \in AllocOrders
  BY ConstantTypes DEF IndInv, LockOwners, AllocNextOrder, Orders, AllocOrders
<1>1. TypeOK'
  BY <1>0, ConstantTypes DEF IndInv, TypeOK, AllocNextOrder, UnlockOrder,
       HigherOrder, PCs
<1>2. LockOwners'
  BY ConstantTypes DEF IndInv, TypeOK, LockOwners, AllocNextOrder, UnlockOrder,
       HigherOrder
<1>3. BootAlone'
  BY DEF IndInv, TypeOK, BootAlone, Adding, AllocNextOrder, UnlockOrder, HigherOrder
<1>4. Listed' /\ UnaddedFresh'
  BY DEF IndInv, Listed, UnaddedFresh, AllocNextOrder, UnlockOrder, HigherOrder
<1>5. HeadsAligned' /\ NoDoubleAllocation' /\ NoLeak'
  BY QuietClaims DEF IndInv, TypeOK, Adding, Carrying, AllocNextOrder,
       UnlockOrder, HigherOrder
<1>6. LocalsConsistent'
  BY ConstantTypes DEF IndInv, TypeOK, LocalsConsistent, LocalsOf, Other,
       Adding, Carrying, AllocNextOrder, UnlockOrder, HigherOrder
<1> QED BY <1>1, <1>2, <1>3, <1>4, <1>5, <1>6 DEF IndInv
-----------------------------------------------------------------------------
(* Steps that move blocks                                                   *)

(* A page of a claim is on no list, unadded or owned but by that claim.     *)
LEMMA ClaimExclusive ==
    ASSUME IndInv, NEW x \in Claims, NEW q \in Extent(x)
    PROVE  /\ x.as # "free" => \A k \in Orders : q \notin free_pages[k]
           /\ x.as # "boot" => q \notin unadded
           /\ \A d \in CPUs : q \in owned[d] => x.as = "own" /\ x.by = d /\ x.page = q
           /\ \A d \in CPUs : Carrying(d) /\ block[d] = q => x.as = "carry" /\ x.by = d
           /\ \A d \in CPUs : Adding(d) /\ kpage[d] = q => x.as = "add" /\ x.by = d
           /\ "FREE_BUDDY" \in kp_flags[q] =>
                 x.as = "free" /\ x.page = q /\ x.order = kp_order[q]
<1>1. q \in Pages /\ q \in Usable
  BY ClaimPages
<1>2. ASSUME NEW a, NEW b, NEW k \in Nat, Claim(a, b, q, k) \in Claims
      PROVE  x.as = a /\ x.by = b /\ x.page = q /\ x.order = k
  <2>1. q \in Extent(Claim(a, b, q, k))
    BY ClaimFields, BlockHead
  <2>2. x = Claim(a, b, q, k)
    BY <1>2, <2>1, SameClaim
  <2> QED BY <2>2, ClaimFields
<1>3. ASSUME x.as # "free", NEW k \in Orders
      PROVE  q \notin free_pages[k]
  BY <1>2, <1>3, ClaimsHeld, ConstantTypes
<1>4. ASSUME x.as # "boot"
      PROVE  q \notin unadded
  BY <1>1, <1>2, <1>4, ClaimsHeld DEF Usable
<1>5. ASSUME NEW d \in CPUs, q \in owned[d]
      PROVE  x.as = "own" /\ x.by = d /\ x.page = q
  <2>1. kp_order[q] \in Nat
    BY <1>1, ConstantTypes DEF IndInv, TypeOK
  <2> QED BY <1>2, <1>5, <2>1, ClaimsHeld
<1>6. ASSUME NEW d \in CPUs, Carrying(d), block[d] = q
      PROVE  x.as = "carry" /\ x.by = d
  <2>1. alloc_order[d] \in Nat
    BY <1>6, ConstantTypes DEF IndInv, LocalsConsistent, LocalsOf
  <2> QED BY <1>2, <1>6, <2>1, ClaimsHeld
<1>7. ASSUME NEW d \in CPUs, Adding(d), kpage[d] = q
      PROVE  x.as = "add" /\ x.by = d
  <2>1. order[d] \in Nat
    BY ConstantTypes DEF IndInv, TypeOK
  <2> QED BY <1>2, <1>7, <2>1, ClaimsHeld
<1>8. ASSUME "FREE_BUDDY" \in kp_flags[q]
      PROVE  x.as = "free" /\ x.page = q /\ x.order = kp_order[q]
  <2>1. q \in free_pages[kp_order[q]] /\ kp_order[q] \in Orders /\ kp_order[q] \in Nat
    BY <1>1, <1>8, ConstantTypes DEF IndInv, Listed, TypeOK
  <2> QED BY <1>2, <2>1, ClaimsHeld
<1> QED BY <1>3, <1>4, <1>5, <1>6, <1>7, <1>8

(* A claim is told by its fields.                                           *)
LEMMA ClaimEquality ==
    \A x \in ClaimType : \A a, b, p, k :
        x = Claim(a, b, p, k) <=> x.as = a /\ x.by = b /\ x.page = p /\ x.order = k
  BY ClaimFields

(* Two processors do not hold the same list lock.                           *)
LEMMA LocksApart ==
    ASSUME IndInv, NEW c \in CPUs, NEW d \in CPUs, c # d
    PROVE  /\ pc[c] \in HoldPCs /\ pc[d] \in HoldPCs => order[c] # order[d]
           /\ pc[c] \in HoldPCs /\ pc[d] \in ListPCs => order[c] # alloc_order[d]
           /\ pc[c] \in ListPCs /\ pc[d] \in HoldPCs => alloc_order[c] # order[d]
           /\ pc[c] \in ListPCs /\ pc[d] \in ListPCs => alloc_order[c] # alloc_order[d]
  BY DEF IndInv, LockOwners

(* A struct kpage written by one processor, inside a block it has in hand   *)
(* or at the head of a block whose list it has locked, is not one that      *)
(* another processor's locals speak of.                                     *)
LEMMA WrittenPage ==
    ASSUME IndInv, NEW c \in CPUs, NEW d \in CPUs, c # d,
           NEW x \in Claims, NEW q \in Extent(x),
           x.as = "free" \/ x.by = c,
           q = x.page => \/ pc[c] \in HoldPCs /\ order[c] = x.order
                         \/ pc[c] \in ListPCs /\ alloc_order[c] = x.order
    PROVE  /\ Carrying(d) => block[d] # q
           /\ pc[d] \in {"add_flags"} \cup MergePCs => Other(d) # q
<1>1. Carrying(d) => block[d] # q
  BY ClaimExclusive
<1>2. ASSUME pc[d] \in {"add_flags"} \cup MergePCs, Other(d) = q
      PROVE  FALSE
  <2>1. x.page = q /\ x.order = order[d]
    BY <1>2, BuddyIsHead
  <2> QED BY <1>2, <2>1, LocksApart
<1> QED BY <1>1, <1>2

(* Replacing claims by others over the same pages keeps the two invariants. *)
LEMMA ClaimsReplaced ==
    ASSUME IndInv, NEW R \in SUBSET Claims, NEW N, Claims' = (Claims \ R) \cup N,
           Apart(N), Cover(N) = Cover(R)
    PROVE  NoDoubleAllocation' /\ NoLeak'
<1>1. Apart(Claims) /\ Cover(Claims) = Usable
  BY DEF IndInv, NoDoubleAllocation, NoLeak, Apart, Cover
<1>2. Apart(Claims') /\ Cover(Claims') = Usable
  BY <1>1, ReplaceClaims
<1> QED BY <1>2 DEF NoDoubleAllocation, NoLeak, Apart, Cover

(* What LocalsOf(d) needs of another processor's step.                      *)
LEMMA LocalsPreserved ==
    ASSUME NEW d \in CPUs, LocalsOf(d),
           pc'[d] = pc[d], ret'[d] = ret[d], kpage'[d] = kpage[d],
           order'[d] = order[d], block'[d] = block[d],
           alloc_order'[d] = alloc_order[d], request'[d] = request[d],
           Carrying(d) => kp_order'[block[d]] = kp_order[block[d]],
           pc[d] \in {"add_flags"} \cup MergePCs =>
               kp_order'[Other(d)] = kp_order[Other(d)],
           pc[d] \in PopPCs => free_pages'[alloc_order[d]] = free_pages[alloc_order[d]],
           pc[d] \in MergePCs => free_pages'[order[d]] = free_pages[order[d]]
    PROVE  LocalsOf(d)'
  BY DEF LocalsOf, Carrying, Adding, Other

-----------------------------------------------------------------------------
(* Merge: what the processor knows when the buddy has been found free.      *)
LEMMA MergeFacts ==
    ASSUME IndInv, NEW c \in CPUs, pc[c] \in MergePCs
    PROVE  /\ order[c] \in Nat /\ order[c] < MAX_ALLOC_ORDER /\ order[c] + 1 \in Orders
           /\ order[c] \in Orders
           /\ kpage[c] \in Pages /\ Other(c) \in Pages /\ kpage[c] # Other(c)
           /\ Other(c) \in free_pages[order[c]]
           /\ \/ First(c) = kpage[c] /\ Second(c) = Other(c)
              \/ First(c) = Other(c) /\ Second(c) = kpage[c]
           /\ Aligned(First(c), order[c] + 1)
           /\ Block(First(c), order[c] + 1) =
                  Block(kpage[c], order[c]) \cup Block(Other(c), order[c])
           /\ kp_order[First(c)] <= order[c] /\ kp_order[First(c)] \in Nat
           /\ kp_order[Other(c)] = order[c]
<1> DEFINE k == order[c]
<1>1. /\ LocalsOf(c) /\ Adding(c)
      /\ k \in Nat /\ k \in Orders /\ k < MAX_ALLOC_ORDER /\ k + 1 \in Orders /\ k \in Bits
      /\ kpage[c] \in Pages /\ kpage[c] \in PfnSet /\ Other(c) \in Pages
      /\ Other(c) \in free_pages[k] /\ kp_order[Other(c)] = k
  <2>1. LocalsOf(c) /\ Adding(c)
    BY DEF IndInv, LocalsConsistent, Adding
  <2>2. k \in Orders /\ kpage[c] \in Pages
    BY DEF IndInv, TypeOK
  <2> QED BY <2>1, <2>2, ConstantTypes DEF LocalsOf
<1>2. Claim("add", c, kpage[c], k) \in Claims
  BY <1>1, ClaimsHeld
<1>3. Aligned(kpage[c], k) /\ kp_order[kpage[c]] <= k
  BY <1>2, ClaimPages, ClaimFields
<1>4. kpage[c] # Other(c) /\ Buddy(Other(c), k) = kpage[c]
  BY <1>1, BuddyBasics DEF Other
<1>5. Less(kpage[c], Other(c)) <=> k \notin kpage[c]
  BY <1>1, LowerBuddy DEF Other
<1>6. CASE k \notin kpage[c]
  <2>1. First(c) = kpage[c] /\ Second(c) = Other(c)
    BY <1>5, <1>6 DEF First, Second
  <2>2. Aligned(kpage[c], k + 1)
    BY <1>1, <1>3, <1>6, AlignedBuddy
  <2>3. Block(kpage[c], k + 1) = Block(kpage[c], k) \cup Block(Other(c), k)
    BY <1>1, <2>2, BlockHalves DEF Other
  <2>4. kp_order[kpage[c]] \in Nat
    BY <1>1, ConstantTypes DEF IndInv, TypeOK
  <2> QED BY <1>1, <1>3, <1>4, <2>1, <2>2, <2>3, <2>4
<1>7. CASE k \in kpage[c]
  <2>1. First(c) = Other(c) /\ Second(c) = kpage[c]
    BY <1>5, <1>7 DEF First, Second
  <2>2. Aligned(Other(c), k) /\ k \notin Other(c)
    BY <1>1, <1>3, <1>7, AlignedBuddy DEF Other, Buddy
  <2>3. Aligned(Other(c), k + 1)
    BY <1>1, <2>2, AlignedBuddy
  <2>4. Block(Other(c), k + 1) = Block(Other(c), k) \cup Block(kpage[c], k)
    BY <1>1, <1>4, <2>3, BlockHalves
  <2> QED BY <1>1, <1>4, <2>1, <2>3, <2>4
<1> QED BY <1>6, <1>7

(* Merging replaces the two buddies by the block that they make up.         *)
LEMMA MergeClaims ==
    ASSUME IndInv, NEW c \in CPUs, Merge(c)
    PROVE  LET a == Claim("add", c, kpage[c], order[c])
               f == Claim("free", NoCPU, Other(c), order[c])
               n == Claim("add", c, First(c), order[c] + 1)
           IN  /\ a \in Claims /\ f \in Claims
               /\ Claims' = (Claims \ {a, f}) \cup {n}
               /\ Extent(n) = Extent(a) \cup Extent(f)
<1> DEFINE a == Claim("add", c, kpage[c], order[c])
           f == Claim("free", NoCPU, Other(c), order[c])
           n == Claim("add", c, First(c), order[c] + 1)
<1>1. pc[c] = "merge" /\ pc[c] \in MergePCs /\ Adding(c) /\ TypeOK
  BY DEF Merge, Adding, IndInv
<1>2. a \in Claims /\ f \in Claims
  BY <1>1, ClaimsHeld, MergeFacts
<1>3. n \in ClaimType
  BY <1>1, MergeFacts DEF Claim, ClaimType
<1>4. ASSUME NEW x \in ClaimType
      PROVE  IsClaim(x)' <=> (IsClaim(x) /\ x # a /\ x # f) \/ x = n
  <2>1. /\ x = a <=> x.as = "add" /\ x.by = c /\ x.page = kpage[c] /\ x.order = order[c]
        /\ x = f <=> x.as = "free" /\ x.by = NoCPU /\ x.page = Other(c) /\ x.order = order[c]
        /\ x = n <=> x.as = "add" /\ x.by = c /\ x.page = First(c) /\ x.order = order[c] + 1
    BY ClaimEquality
  <2>2. x.order \in Orders /\ x.as \in {"free", "boot", "own", "carry", "add"}
    BY DEF ClaimType
  <2>3. CASE x.as = "free"
    BY <1>1, <2>1, <2>2, <2>3, MergeFacts DEF IsClaim, Merge, TypeOK
  <2>4. CASE x.as \in {"boot", "own"}
    BY <2>1, <2>2, <2>4 DEF IsClaim, Merge
  <2>5. CASE x.as = "carry"
    <3>1. \A d \in CPUs : Carrying(d)' <=> Carrying(d)
      BY <1>1 DEF Merge, Carrying, Adding, TypeOK
    <3> QED BY <2>1, <2>2, <2>5, <3>1 DEF IsClaim, Merge
  <2>6. CASE x.as = "add"
    <3>1. \A d \in CPUs : Adding(d)' <=> Adding(d)
      BY <1>1 DEF Merge, Adding, TypeOK
    <3>2. /\ kpage' = [kpage EXCEPT ![c] = First(c)]
          /\ order' = [order EXCEPT ![c] = @ + 1]
      BY DEF Merge, MergedHead
    <3>3. CASE x.by = c
      BY <1>1, <2>1, <2>2, <2>6, <3>1, <3>2, <3>3 DEF IsClaim, TypeOK
    <3>4. CASE x.by # c
      BY <1>1, <2>1, <2>2, <2>6, <3>1, <3>2, <3>4 DEF IsClaim, TypeOK
    <3> QED BY <3>3, <3>4
  <2> QED BY <2>2, <2>3, <2>4, <2>5, <2>6
<1>5. Claims' = (Claims \ {a, f}) \cup {n}
  BY <1>3, <1>4 DEF Claims
<1>6. Extent(n) = Extent(a) \cup Extent(f)
  BY <1>1, MergeFacts, ClaimFields
<1> QED BY <1>2, <1>5, <1>6

(* The merge of memory.c:266-276 preserves the invariant.                   *)
LEMMA MergeInductive ==
    ASSUME IndInv, NEW c \in CPUs, Merge(c)
    PROVE  IndInv'
<1> DEFINE k == order[c]
           a == Claim("add", c, kpage[c], k)
           f == Claim("free", NoCPU, Other(c), k)
           n == Claim("add", c, First(c), k + 1)
<1>1. pc[c] = "merge" /\ pc[c] \in MergePCs /\ Adding(c) /\ TypeOK
  BY DEF Merge, Adding, IndInv
<1>2. /\ a \in Claims /\ f \in Claims
      /\ Claims' = (Claims \ {a, f}) \cup {n}
      /\ Extent(n) = Extent(a) \cup Extent(f)
  BY MergeClaims
<1>3. /\ kpage[c] \in Extent(a) /\ Other(c) \in Extent(f)
      /\ a.as = "add" /\ f.as = "free" /\ f.page = Other(c) /\ f.order = k
      /\ n.page = First(c) /\ n.order = k + 1
  BY <1>2, ClaimPages, ClaimFields
<1>4. /\ kpage' = [kpage EXCEPT ![c] = First(c)]
      /\ order' = [order EXCEPT ![c] = k + 1]
      /\ free_pages' = [free_pages EXCEPT ![k] = @ \ {Other(c)}]
      /\ alloc_order_lock' = [alloc_order_lock EXCEPT ![k] = NoCPU]
      /\ pc' = [pc EXCEPT ![c] = "add_lock"]
      /\ UNCHANGED <<kp_order, unadded, owned, ret, end_kpage, block, alloc_order, request>>
  BY DEF Merge, MergedHead, UnlockOrder
<1>5. /\ kp_flags' \in [Pages -> SUBSET PageFlags]
      /\ \A p \in Pages \ {kpage[c], Other(c)} : kp_flags'[p] = kp_flags[p]
      /\ "FREE_BUDDY" \notin kp_flags'[kpage[c]]
      /\ "FREE_BUDDY" \notin kp_flags'[Other(c)]
  BY <1>1, MergeFacts DEF Merge, UpperFlags, TypeOK, PageFlags
<1>6. TypeOK'
  <2>1. First(c) \in Pages /\ k + 1 \in Orders
    BY <1>1, MergeFacts
  <2>2. kp_lock' \in [Pages -> CPUs \cup {NoCPU}]
    BY <1>1, MergeFacts DEF Merge, TypeOK
  <2> QED BY <1>1, <1>4, <1>5, <2>1, <2>2 DEF TypeOK, PCs
<1>7. LockOwners'
  <2> SUFFICES ASSUME NEW d \in CPUs
               PROVE  /\ pc'[d] \in HoldPCs => alloc_order_lock'[order'[d]] = d
                      /\ pc'[d] \in ListPCs => /\ alloc_order'[d] \in Orders
                                               /\ alloc_order_lock'[alloc_order'[d]] = d
    BY DEF LockOwners
  <2>1. CASE d = c
    BY <1>1, <1>4, <2>1 DEF TypeOK
  <2>2. CASE d # c
    BY <1>1, <1>4, <2>2, LocksApart DEF TypeOK, IndInv, LockOwners
  <2> QED BY <2>1, <2>2
<1>8. BootAlone'
  BY <1>1, <1>4 DEF BootAlone, Adding, TypeOK, IndInv
<1>9. Listed'
  <2>1. /\ \A j \in Orders : kpage[c] \notin free_pages[j]
        /\ \A p \in free_pages'[k] : p # Other(c)
        /\ \A j \in Orders : free_pages'[j] \subseteq free_pages[j] /\ Other(c) \notin free_pages'[j]
        /\ \A j \in Orders : \A p \in free_pages[j] : p # Other(c) => p \in free_pages'[j]
    <3>1. \A j \in Orders : kpage[c] \notin free_pages[j]
      BY <1>2, <1>3, ClaimExclusive
    <3>2. \A j \in Orders : Other(c) \in free_pages[j] => j = k
      BY <1>1, MergeFacts DEF IndInv, Listed
    <3> QED BY <1>1, <1>4, <3>1, <3>2 DEF TypeOK
  <2>2. ASSUME NEW p \in Pages, "FREE_BUDDY" \in kp_flags'[p]
        PROVE  p \in free_pages'[kp_order'[p]]
    <3>1. p # Other(c) /\ p # kpage[c] /\ "FREE_BUDDY" \in kp_flags[p]
      BY <1>5, <2>2
    <3>2. kp_order[p] \in Orders /\ p \in free_pages[kp_order[p]]
      BY <1>1, <3>1 DEF IndInv, Listed, TypeOK
    <3> QED BY <1>4, <2>1, <3>1, <3>2
  <2>3. ASSUME NEW j \in Orders, NEW p \in free_pages'[j]
        PROVE  kp_order'[p] = j /\ "FREE_BUDDY" \in kp_flags'[p]
    <3>1. p \in free_pages[j] /\ p # Other(c) /\ p # kpage[c] /\ p \in Pages
      BY <1>1, <2>1, <2>3 DEF TypeOK
    <3> QED BY <1>4, <1>5, <3>1 DEF IndInv, Listed
  <2> QED BY <2>2, <2>3 DEF Listed
<1>10. UnaddedFresh'
  <2>1. kpage[c] \notin unadded /\ Other(c) \notin unadded
    BY <1>2, <1>3, ClaimExclusive
  <2> QED BY <1>1, <1>4, <1>5, <2>1 DEF IndInv, UnaddedFresh, TypeOK
<1>11. NoDoubleAllocation' /\ NoLeak'
  <2>1. Cover({n}) = Cover({a, f}) /\ Apart({n})
    BY <1>2 DEF Cover, Apart
  <2> QED BY <1>2, <2>1, ClaimsReplaced
<1>12. HeadsAligned'
  <2>1. Aligned(n.page, n.order) /\ kp_order[n.page] <= n.order
    BY <1>1, <1>3, MergeFacts
  <2> QED BY <1>2, <1>4, <2>1 DEF IndInv, HeadsAligned
<1>13. LocalsConsistent'
  <2>1. ASSUME NEW d \in CPUs, d # c
        PROVE  LocalsOf(d)'
    <3>1. \A j \in Orders : j # k => free_pages'[j] = free_pages[j]
      BY <1>1, <1>4 DEF TypeOK
    <3>2. /\ pc[d] \in PopPCs => alloc_order[d] # k /\ alloc_order[d] \in Orders
          /\ pc[d] \in MergePCs => order[d] # k /\ order[d] \in Orders
      BY <1>1, <2>1, LocksApart DEF IndInv, LockOwners, TypeOK
    <3>3. LocalsOf(d)
      BY DEF IndInv, LocalsConsistent
    <3> QED BY <1>1, <1>4, <2>1, <3>1, <3>2, <3>3, LocalsPreserved DEF TypeOK
  <2>2. LocalsOf(c)'
    <3>1. LocalsOf(c) /\ pc'[c] = "add_lock" /\ Carrying(c)' = Carrying(c)
      BY <1>1, <1>4 DEF IndInv, LocalsConsistent, Carrying, Adding, TypeOK
    <3> QED BY <1>1, <1>4, <3>1 DEF LocalsOf
  <2> QED BY <2>1, <2>2 DEF LocalsConsistent
<1> QED BY <1>6, <1>7, <1>8, <1>9, <1>10, <1>11, <1>12, <1>13 DEF IndInv
-----------------------------------------------------------------------------
(* Insert: the block added becomes a block of the free list.                *)
LEMMA InsertClaims ==
    ASSUME IndInv, NEW c \in CPUs, Insert(c)
    PROVE  LET a == Claim("add", c, kpage[c], order[c])
               n == Claim("free", NoCPU, kpage[c], order[c])
           IN  /\ a \in Claims
               /\ Claims' = (Claims \ {a}) \cup {n}
<1> DEFINE a == Claim("add", c, kpage[c], order[c])
           n == Claim("free", NoCPU, kpage[c], order[c])
<1>1. pc[c] = "insert" /\ Adding(c) /\ TypeOK /\ kpage[c] \in Pages /\ order[c] \in Orders
  BY DEF Insert, Adding, IndInv, TypeOK
<1>2. a \in Claims /\ a.as = "add" /\ kpage[c] \in Extent(a)
  BY <1>1, ClaimsHeld, ClaimPages, ClaimFields
<1>3. n \in ClaimType
  BY <1>1 DEF Claim, ClaimType
<1>4. ASSUME NEW x \in ClaimType
      PROVE  IsClaim(x)' <=> (IsClaim(x) /\ x # a) \/ x = n
  <2>1. /\ x = a <=> x.as = "add" /\ x.by = c /\ x.page = kpage[c] /\ x.order = order[c]
        /\ x = n <=> x.as = "free" /\ x.by = NoCPU /\ x.page = kpage[c] /\ x.order = order[c]
    BY ClaimEquality
  <2>2. x.order \in Orders /\ x.as \in {"free", "boot", "own", "carry", "add"}
    BY DEF ClaimType
  <2>3. CASE x.as = "free"
    BY <1>1, <2>1, <2>2, <2>3 DEF IsClaim, Insert, TypeOK
  <2>4. CASE x.as = "boot"
    BY <2>1, <2>4 DEF IsClaim, Insert
  <2>5. CASE x.as = "own"
    <3>1. \A d \in CPUs : kpage[c] \notin owned[d]
      BY <1>2, ClaimExclusive
    <3>2. \A p \in Pages : p # kpage[c] => kp_order'[p] = kp_order[p]
      BY <1>1 DEF Insert, TypeOK
    <3>3. x.page \in Pages /\ owned' = owned
      BY DEF ClaimType, Insert
    <3> QED BY <2>1, <2>5, <3>1, <3>2, <3>3 DEF IsClaim
  <2>6. CASE x.as = "carry"
    <3>1. \A d \in CPUs : Carrying(d)' <=> Carrying(d)
      BY <1>1 DEF Insert, Carrying, Adding, TypeOK
    <3> QED BY <2>1, <2>2, <2>6, <3>1 DEF IsClaim, Insert
  <2>7. CASE x.as = "add"
    <3>1. \A d \in CPUs : Adding(d)' <=> Adding(d) /\ d # c
      BY <1>1 DEF Insert, Adding, TypeOK
    <3>2. \A d \in CPUs : d # c => kpage'[d] = kpage[d] /\ order'[d] = order[d]
      BY <1>1 DEF Insert, TypeOK
    <3> QED BY <1>1, <2>1, <2>2, <2>7, <3>1, <3>2 DEF IsClaim
  <2> QED BY <2>2, <2>3, <2>4, <2>5, <2>6, <2>7
<1>5. Claims' = (Claims \ {a}) \cup {n}
  BY <1>3, <1>4 DEF Claims
<1> QED BY <1>2, <1>5

(* The insertion of memory.c:278-288 preserves the invariant.               *)
LEMMA InsertInductive ==
    ASSUME IndInv, NEW c \in CPUs, Insert(c)
    PROVE  IndInv'
<1> DEFINE k == order[c]
           a == Claim("add", c, kpage[c], k)
           n == Claim("free", NoCPU, kpage[c], k)
<1>1. /\ pc[c] = "insert" /\ Adding(c) /\ TypeOK
      /\ kpage[c] \in Pages /\ k \in Orders /\ k \in Nat
  BY ConstantTypes DEF Insert, Adding, IndInv, TypeOK
<1>2. a \in Claims /\ Claims' = (Claims \ {a}) \cup {n}
  BY InsertClaims
<1>3. /\ kpage[c] \in Extent(a) /\ a.as = "add" /\ a.by = c /\ a.page = kpage[c] /\ a.order = k
      /\ n.page = kpage[c] /\ n.order = k /\ Extent(n) = Extent(a) /\ Aligned(kpage[c], k)
  BY <1>2, ClaimPages, ClaimFields
<1>4. /\ kp_order' = [kp_order EXCEPT ![kpage[c]] = k]
      /\ free_pages' = [free_pages EXCEPT ![k] = @ \cup {kpage[c]}]
      /\ alloc_order_lock' = [alloc_order_lock EXCEPT ![k] = NoCPU]
      /\ kpage' = [kpage EXCEPT ![c] = Page0]
      /\ order' = [order EXCEPT ![c] = 0]
      /\ ret' = [ret EXCEPT ![c] = "idle"]
      /\ pc' = [pc EXCEPT ![c] = ret[c]]
      /\ UNCHANGED <<unadded, owned, block, alloc_order, request>>
  BY DEF Insert, UnlockOrder
<1>5. /\ kp_flags' \in [Pages -> SUBSET PageFlags]
      /\ \A p \in Pages \ {kpage[c]} : kp_flags'[p] = kp_flags[p]
      /\ "FREE_BUDDY" \in kp_flags'[kpage[c]]
  BY <1>1 DEF Insert, TypeOK, PageFlags
<1>6. TypeOK'
  <2>1. /\ kp_lock' \in [Pages -> CPUs \cup {NoCPU}]
        /\ end_kpage' \in [CPUs -> Pages]
        /\ 0 \in Orders /\ Page0 \in Pages
    BY <1>1, ConstantTypes DEF Insert, TypeOK
  <2> QED BY <1>1, <1>4, <1>5, <2>1 DEF TypeOK, PCs
<1>7. LockOwners'
  <2> SUFFICES ASSUME NEW d \in CPUs
               PROVE  /\ pc'[d] \in HoldPCs => alloc_order_lock'[order'[d]] = d
                      /\ pc'[d] \in ListPCs => /\ alloc_order'[d] \in Orders
                                               /\ alloc_order_lock'[alloc_order'[d]] = d
    BY DEF LockOwners
  <2>1. CASE d = c
    BY <1>1, <1>4, <2>1 DEF TypeOK
  <2>2. CASE d # c
    BY <1>1, <1>4, <2>2, LocksApart DEF TypeOK, IndInv, LockOwners
  <2> QED BY <2>1, <2>2
<1>8. BootAlone'
  BY <1>1, <1>4 DEF BootAlone, Adding, TypeOK, IndInv
<1>9. Listed'
  <2>1. \A j \in Orders : kpage[c] \notin free_pages[j]
    BY <1>2, <1>3, ClaimExclusive
  <2>2. ASSUME NEW p \in Pages, "FREE_BUDDY" \in kp_flags'[p]
        PROVE  p \in free_pages'[kp_order'[p]]
    <3>1. CASE p = kpage[c]
      BY <1>1, <1>4, <3>1 DEF TypeOK
    <3>2. CASE p # kpage[c]
      BY <1>1, <1>4, <1>5, <2>2, <3>2 DEF IndInv, Listed, TypeOK
    <3> QED BY <3>1, <3>2
  <2>3. ASSUME NEW j \in Orders, NEW p \in free_pages'[j]
        PROVE  kp_order'[p] = j /\ "FREE_BUDDY" \in kp_flags'[p]
    <3>1. CASE p = kpage[c]
      BY <1>1, <1>4, <1>5, <2>1, <2>3, <3>1 DEF TypeOK
    <3>2. CASE p # kpage[c]
      <4>1. p \in free_pages[j] /\ p \in Pages
        BY <1>1, <1>4, <2>3, <3>2 DEF TypeOK
      <4> QED BY <1>1, <1>4, <1>5, <3>2, <4>1 DEF IndInv, Listed, TypeOK
    <3> QED BY <3>1, <3>2
  <2> QED BY <2>2, <2>3 DEF Listed
<1>10. UnaddedFresh'
  <2>1. kpage[c] \notin unadded
    BY <1>2, <1>3, ClaimExclusive
  <2> QED BY <1>1, <1>4, <1>5, <2>1 DEF IndInv, UnaddedFresh, TypeOK
<1>11. NoDoubleAllocation' /\ NoLeak'
  <2>1. Cover({n}) = Cover({a}) /\ Apart({n})
    BY <1>3 DEF Cover, Apart
  <2> QED BY <1>2, <2>1, ClaimsReplaced
<1>12. HeadsAligned'
  <2> SUFFICES ASSUME NEW x \in Claims'
               PROVE  Aligned(x.page, x.order) /\ kp_order'[x.page] <= x.order
    BY DEF HeadsAligned
  <2>1. CASE x = n
    BY <1>1, <1>3, <1>4, <2>1 DEF TypeOK
  <2>2. CASE x # n
    <3>1. x \in Claims /\ x # a
      BY <1>2, <2>2
    <3>2. x.page \in Extent(x) /\ x.page \in Pages
          /\ Aligned(x.page, x.order) /\ kp_order[x.page] <= x.order
      BY <3>1, ClaimPages
    <3>3. x.page # kpage[c]
      BY <1>2, <1>3, <3>1, <3>2, SameClaim
    <3> QED BY <1>1, <1>4, <3>2, <3>3 DEF TypeOK
  <2> QED BY <2>1, <2>2
<1>13. LocalsConsistent'
  <2>1. ASSUME NEW d \in CPUs, d # c
        PROVE  LocalsOf(d)'
    <3>1. \A j \in Orders : j # k => free_pages'[j] = free_pages[j]
      BY <1>1, <1>4 DEF TypeOK
    <3>2. /\ pc[d] \in PopPCs => alloc_order[d] # k /\ alloc_order[d] \in Orders
          /\ pc[d] \in MergePCs => order[d] # k /\ order[d] \in Orders
      BY <1>1, <2>1, LocksApart DEF IndInv, LockOwners, TypeOK
    <3>3. LocalsOf(d)
      BY DEF IndInv, LocalsConsistent
    <3>4. /\ Carrying(d) => block[d] # kpage[c]
          /\ pc[d] \in {"add_flags"} \cup MergePCs => Other(d) # kpage[c]
      BY <1>1, <1>2, <1>3, <2>1, WrittenPage
    <3>5. \A p \in Pages : p # kpage[c] => kp_order'[p] = kp_order[p]
      BY <1>1, <1>4 DEF TypeOK
    <3>6. /\ block[d] \in Pages
          /\ pc[d] \in {"add_flags"} \cup MergePCs => Other(d) \in Pages
      BY <1>1, <3>3 DEF TypeOK, LocalsOf
    <3>7. pc'[d] = pc[d] /\ ret'[d] = ret[d] /\ kpage'[d] = kpage[d] /\ order'[d] = order[d]
      BY <1>1, <1>4, <2>1 DEF TypeOK
    <3> QED BY <1>4, <3>1, <3>2, <3>3, <3>4, <3>5, <3>6, <3>7, LocalsPreserved
  <2>2. LocalsOf(c)'
    <3>1. LocalsOf(c) /\ pc'[c] = ret[c] /\ ret[c] \in {"boot", "idle", "split"}
          /\ (Carrying(c)' <=> Carrying(c))
      BY <1>1, <1>4 DEF IndInv, LocalsConsistent, Carrying, Adding, TypeOK
    <3>2. Carrying(c) => kp_order'[block[c]] = kp_order[block[c]]
      <4>1. Carrying(c) => block[c] # kpage[c]
        BY <1>2, <1>3, ClaimExclusive
      <4> QED BY <1>1, <1>4, <4>1 DEF TypeOK
    <3> QED BY <1>4, <3>1, <3>2 DEF LocalsOf
  <2> QED BY <2>1, <2>2 DEF LocalsConsistent
<1> QED BY <1>6, <1>7, <1>8, <1>9, <1>10, <1>11, <1>12, <1>13 DEF IndInv
-----------------------------------------------------------------------------
(* Pop: what page_alloc knows of the block that it takes off a list.        *)
LEMMA PopFacts ==
    ASSUME IndInv, NEW c \in CPUs, Pop(c)
    PROVE  /\ TypeOK /\ pc[c] = "pop" /\ pc[c] \in ListPCs /\ ~ Adding(c) /\ ~ Carrying(c)
           /\ block[c] \in Pages /\ block[c] \in free_pages[alloc_order[c]]
           /\ alloc_order[c] \in Orders /\ alloc_order[c] \in Nat
           /\ request[c] \in Orders /\ request[c] <= alloc_order[c]
<1>1. TypeOK /\ pc[c] = "pop" /\ pc[c] \in ListPCs /\ ~ Adding(c) /\ ~ Carrying(c)
  BY DEF Pop, Adding, Carrying, IndInv
<1>2. alloc_order[c] \in Orders /\ request[c] <= alloc_order[c]
      /\ block[c] \in free_pages[alloc_order[c]]
  BY <1>1 DEF IndInv, LockOwners, LocalsConsistent, LocalsOf
<1>3. alloc_order[c] \in Nat /\ request[c] \in Nat /\ block[c] \in Pages
  BY <1>1, <1>2, ConstantTypes DEF TypeOK
<1>4. request[c] \in Orders
  BY <1>2, <1>3, ConstantTypes
<1> QED BY <1>1, <1>2, <1>3, <1>4

(* The block taken passes from the free list to the processor.              *)
LEMMA PopClaims ==
    ASSUME IndInv, NEW c \in CPUs, Pop(c)
    PROVE  LET f == Claim("free", NoCPU, block[c], alloc_order[c])
               n == Claim("carry", c, block[c], alloc_order[c])
           IN  /\ f \in Claims
               /\ Claims' = (Claims \ {f}) \cup {n}
<1> DEFINE k == alloc_order[c]
           f == Claim("free", NoCPU, block[c], k)
           n == Claim("carry", c, block[c], k)
<1>1. /\ TypeOK /\ pc[c] = "pop" /\ ~ Adding(c) /\ ~ Carrying(c)
      /\ block[c] \in Pages /\ block[c] \in free_pages[k] /\ k \in Orders
  BY PopFacts
<1>2. f \in Claims /\ f.as = "free" /\ block[c] \in Extent(f)
  BY <1>1, ClaimsHeld, ClaimPages, ClaimFields
<1>3. n \in ClaimType
  BY <1>1 DEF Claim, ClaimType
<1>4. ASSUME NEW x \in ClaimType
      PROVE  IsClaim(x)' <=> (IsClaim(x) /\ x # f) \/ x = n
  <2>1. /\ x = f <=> x.as = "free" /\ x.by = NoCPU /\ x.page = block[c] /\ x.order = k
        /\ x = n <=> x.as = "carry" /\ x.by = c /\ x.page = block[c] /\ x.order = k
    BY ClaimEquality
  <2>2. x.order \in Orders /\ x.as \in {"free", "boot", "own", "carry", "add"}
    BY DEF ClaimType
  <2>3. CASE x.as = "free"
    BY <1>1, <2>1, <2>2, <2>3 DEF IsClaim, Pop, TypeOK
  <2>4. CASE x.as = "boot"
    BY <2>1, <2>4 DEF IsClaim, Pop
  <2>5. CASE x.as = "own"
    <3>1. \A d \in CPUs : block[c] \notin owned[d]
      BY <1>2, ClaimExclusive
    <3>2. \A p \in Pages : p # block[c] => kp_order'[p] = kp_order[p]
      BY <1>1 DEF Pop, TypeOK
    <3>3. x.page \in Pages /\ owned' = owned
      BY DEF ClaimType, Pop
    <3> QED BY <2>1, <2>5, <3>1, <3>2, <3>3 DEF IsClaim
  <2>6. CASE x.as = "carry"
    <3>1. \A d \in CPUs : Carrying(d)' <=> Carrying(d) \/ d = c
      BY <1>1 DEF Pop, Carrying, Adding, TypeOK
    <3> QED BY <1>1, <2>1, <2>2, <2>6, <3>1 DEF IsClaim, Pop
  <2>7. CASE x.as = "add"
    <3>1. \A d \in CPUs : Adding(d)' <=> Adding(d)
      BY <1>1 DEF Pop, Adding, TypeOK
    <3> QED BY <2>1, <2>2, <2>7, <3>1 DEF IsClaim, Pop
  <2> QED BY <2>2, <2>3, <2>4, <2>5, <2>6, <2>7
<1>5. Claims' = (Claims \ {f}) \cup {n}
  BY <1>3, <1>4 DEF Claims
<1> QED BY <1>2, <1>5

(* Taking a block off its list (memory.c:308-315) preserves the invariant.  *)
LEMMA PopInductive ==
    ASSUME IndInv, NEW c \in CPUs, Pop(c)
    PROVE  IndInv'
<1> DEFINE k == alloc_order[c]
           f == Claim("free", NoCPU, block[c], k)
           n == Claim("carry", c, block[c], k)
<1>1. /\ TypeOK /\ pc[c] = "pop" /\ pc[c] \in ListPCs /\ ~ Adding(c) /\ ~ Carrying(c)
      /\ block[c] \in Pages /\ block[c] \in free_pages[k]
      /\ k \in Orders /\ k \in Nat /\ request[c] \in Orders /\ request[c] <= k
  BY PopFacts
<1>2. f \in Claims /\ Claims' = (Claims \ {f}) \cup {n}
  BY PopClaims
<1>3. /\ block[c] \in Extent(f) /\ f.as = "free" /\ f.page = block[c] /\ f.order = k
      /\ n.page = block[c] /\ n.order = k /\ Extent(n) = Extent(f) /\ Aligned(block[c], k)
  BY <1>2, ClaimPages, ClaimFields
<1>4. /\ kp_order' = [kp_order EXCEPT ![block[c]] = request[c]]
      /\ free_pages' = [free_pages EXCEPT ![k] = @ \ {block[c]}]
      /\ alloc_order_lock' = [alloc_order_lock EXCEPT ![k] = NoCPU]
      /\ pc' = [pc EXCEPT ![c] = "split"]
      /\ UNCHANGED <<unadded, owned, ret, kpage, order, end_kpage, block, alloc_order, request>>
  BY DEF Pop, PoppedOrder, UnlockOrder
<1>5. /\ kp_flags' \in [Pages -> SUBSET PageFlags]
      /\ \A p \in Pages \ {block[c]} : kp_flags'[p] = kp_flags[p]
      /\ "FREE_BUDDY" \notin kp_flags'[block[c]]
  BY <1>1 DEF Pop, TypeOK, PageFlags
<1>6. TypeOK'
  <2>1. kp_lock' \in [Pages -> CPUs \cup {NoCPU}]
    BY <1>1 DEF Pop, TypeOK
  <2> QED BY <1>1, <1>4, <1>5, <2>1 DEF TypeOK, PCs
<1>7. LockOwners'
  <2> SUFFICES ASSUME NEW d \in CPUs
               PROVE  /\ pc'[d] \in HoldPCs => alloc_order_lock'[order'[d]] = d
                      /\ pc'[d] \in ListPCs => /\ alloc_order'[d] \in Orders
                                               /\ alloc_order_lock'[alloc_order'[d]] = d
    BY DEF LockOwners
  <2>1. CASE d = c
    BY <1>1, <1>4, <2>1 DEF TypeOK
  <2>2. CASE d # c
    BY <1>1, <1>4, <2>2, LocksApart DEF TypeOK, IndInv, LockOwners
  <2> QED BY <2>1, <2>2
<1>8. BootAlone'
  BY <1>1, <1>4 DEF BootAlone, Adding, TypeOK, IndInv
<1>9. Listed'
  <2>1. /\ \A j \in Orders : block[c] \in free_pages[j] => j = k
        /\ \A j \in Orders : block[c] \notin free_pages'[j] /\ free_pages'[j] \subseteq free_pages[j]
    BY <1>1, <1>4 DEF IndInv, Listed, TypeOK
  <2>2. ASSUME NEW p \in Pages, "FREE_BUDDY" \in kp_flags'[p]
        PROVE  p \in free_pages'[kp_order'[p]]
    BY <1>1, <1>4, <1>5, <2>2 DEF IndInv, Listed, TypeOK
  <2>3. ASSUME NEW j \in Orders, NEW p \in free_pages'[j]
        PROVE  kp_order'[p] = j /\ "FREE_BUDDY" \in kp_flags'[p]
    <3>1. p \in free_pages[j] /\ p # block[c] /\ p \in Pages
      BY <1>1, <2>1, <2>3 DEF TypeOK
    <3> QED BY <1>1, <1>4, <1>5, <3>1 DEF IndInv, Listed, TypeOK
  <2> QED BY <2>2, <2>3 DEF Listed
<1>10. UnaddedFresh'
  <2>1. block[c] \notin unadded
    BY <1>2, <1>3, ClaimExclusive
  <2> QED BY <1>1, <1>4, <1>5, <2>1 DEF IndInv, UnaddedFresh, TypeOK
<1>11. NoDoubleAllocation' /\ NoLeak'
  <2>1. Cover({n}) = Cover({f}) /\ Apart({n})
    BY <1>3 DEF Cover, Apart
  <2> QED BY <1>2, <2>1, ClaimsReplaced
<1>12. HeadsAligned'
  <2> SUFFICES ASSUME NEW x \in Claims'
               PROVE  Aligned(x.page, x.order) /\ kp_order'[x.page] <= x.order
    BY DEF HeadsAligned
  <2>1. CASE x = n
    BY <1>1, <1>3, <1>4, <2>1 DEF TypeOK
  <2>2. CASE x # n
    <3>1. x \in Claims /\ x # f
      BY <1>2, <2>2
    <3>2. x.page \in Extent(x) /\ x.page \in Pages
          /\ Aligned(x.page, x.order) /\ kp_order[x.page] <= x.order
      BY <3>1, ClaimPages
    <3>3. x.page # block[c]
      BY <1>2, <1>3, <3>1, <3>2, SameClaim
    <3> QED BY <1>1, <1>4, <3>2, <3>3 DEF TypeOK
  <2> QED BY <2>1, <2>2
<1>13. LocalsConsistent'
  <2>1. ASSUME NEW d \in CPUs, d # c
        PROVE  LocalsOf(d)'
    <3>1. \A j \in Orders : j # k => free_pages'[j] = free_pages[j]
      BY <1>1, <1>4 DEF TypeOK
    <3>2. /\ pc[d] \in PopPCs => alloc_order[d] # k /\ alloc_order[d] \in Orders
          /\ pc[d] \in MergePCs => order[d] # k /\ order[d] \in Orders
      BY <1>1, <2>1, LocksApart DEF IndInv, LockOwners, TypeOK
    <3>3. LocalsOf(d)
      BY DEF IndInv, LocalsConsistent
    <3>4. /\ Carrying(d) => block[d] # block[c]
          /\ pc[d] \in {"add_flags"} \cup MergePCs => Other(d) # block[c]
      BY <1>1, <1>2, <1>3, <2>1, WrittenPage
    <3>5. \A p \in Pages : p # block[c] => kp_order'[p] = kp_order[p]
      BY <1>1, <1>4 DEF TypeOK
    <3>6. /\ block[d] \in Pages
          /\ pc[d] \in {"add_flags"} \cup MergePCs => Other(d) \in Pages
      BY <1>1, <3>3 DEF TypeOK, LocalsOf
    <3>7. pc'[d] = pc[d]
      BY <1>1, <1>4, <2>1 DEF TypeOK
    <3> QED BY <1>4, <3>1, <3>2, <3>3, <3>4, <3>5, <3>6, <3>7, LocalsPreserved
  <2>2. LocalsOf(c)'
    BY <1>1, <1>4 DEF LocalsOf, TypeOK
  <2> QED BY <2>1, <2>2 DEF LocalsConsistent
<1> QED BY <1>6, <1>7, <1>8, <1>9, <1>10, <1>11, <1>12, <1>13 DEF IndInv

-----------------------------------------------------------------------------
(* Split: what page_alloc knows of a block larger than the request.         *)
LEMMA SplitFacts ==
    ASSUME IndInv, NEW c \in CPUs, Split(c)
    PROVE  /\ TypeOK /\ pc[c] = "split" /\ ~ Adding(c) /\ Carrying(c)
           /\ alloc_order[c] \in Orders /\ alloc_order[c] \in Nat
           /\ alloc_order[c] - 1 \in Orders /\ alloc_order[c] - 1 \in Nat
           /\ request[c] <= alloc_order[c] - 1
           /\ kp_order[block[c]] = request[c]
           /\ LET h == Claim("carry", c, block[c], alloc_order[c])
              IN  /\ h \in Claims /\ h.as = "carry" /\ h.by = c /\ h.page = block[c]
                  /\ h.order = alloc_order[c]
                  /\ block[c] \in Extent(h) /\ UpperHalf(c) \in Extent(h)
                  /\ Extent(h) = Block(block[c], alloc_order[c] - 1)
                                   \cup Block(UpperHalf(c), alloc_order[c] - 1)
           /\ Block(block[c], alloc_order[c] - 1) \cap Block(UpperHalf(c), alloc_order[c] - 1) = {}
           /\ Aligned(block[c], alloc_order[c] - 1) /\ Aligned(UpperHalf(c), alloc_order[c] - 1)
           /\ block[c] \in Pages /\ UpperHalf(c) \in Pages /\ UpperHalf(c) # block[c]
<1> DEFINE k == alloc_order[c]
           j == alloc_order[c] - 1
           h == Claim("carry", c, block[c], k)
<1>1. TypeOK /\ pc[c] = "split" /\ ~ Adding(c) /\ Carrying(c) /\ k > request[c]
  BY DEF Split, Adding, Carrying, IndInv
<1>2. k \in Orders /\ request[c] <= k /\ kp_order[block[c]] = request[c]
  BY <1>1 DEF IndInv, LocalsConsistent, LocalsOf
<1>3. request[c] \in Nat /\ k \in Nat /\ block[c] \in Pages
  BY <1>1, ConstantTypes DEF TypeOK
<1>4. j \in Nat /\ j \in Orders /\ request[c] <= j /\ k = j + 1
  <2>1. j \in Nat /\ request[c] <= j /\ k = j + 1 /\ j <= MAX_ALLOC_ORDER
    BY <1>1, <1>2, <1>3, ConstantTypes
  <2> QED BY <2>1, ConstantTypes
<1>5. h \in Claims /\ h.as = "carry" /\ h.by = c /\ h.page = block[c] /\ h.order = k
      /\ Extent(h) = Block(block[c], k)
  BY <1>1, ClaimsHeld, ClaimFields
<1>6. Aligned(block[c], k) /\ block[c] \in Extent(h) /\ Extent(h) \subseteq Pages
  BY <1>5, ClaimPages
<1>7. Aligned(block[c], j + 1)
  BY <1>4, <1>6
<1>8. /\ Block(block[c], j + 1) = Block(block[c], j) \cup Block(Buddy(block[c], j), j)
      /\ Block(block[c], j) \cap Block(Buddy(block[c], j), j) = {}
  BY <1>4, <1>7, BlockHalves
<1>9. UpperHalf(c) = Buddy(block[c], j) /\ UpperHalf(c) # block[c]
  BY <1>4, BuddyBasics DEF UpperHalf
<1>10. Extent(h) = Block(block[c], j) \cup Block(UpperHalf(c), j)
  BY <1>4, <1>5, <1>8, <1>9
<1>11. UpperHalf(c) \in Extent(h)
  BY <1>4, <1>10, BlockHead
<1>12. Aligned(block[c], j) /\ Aligned(UpperHalf(c), j)
  BY <1>4, <1>7, <1>9, AlignedBuddy
<1>13. UpperHalf(c) \in Pages
  BY <1>6, <1>11
<1> QED BY <1>1, <1>2, <1>3, <1>4, <1>5, <1>6, <1>8, <1>9, <1>10, <1>11, <1>12,
             <1>13

(* A split replaces the block carried by its two halves.                    *)
LEMMA SplitClaims ==
    ASSUME IndInv, NEW c \in CPUs, Split(c)
    PROVE  LET h == Claim("carry", c, block[c], alloc_order[c])
               m == Claim("carry", c, block[c], alloc_order[c] - 1)
               n == Claim("add", c, UpperHalf(c), alloc_order[c] - 1)
           IN  Claims' = (Claims \ {h}) \cup {m, n}
<1> DEFINE j == alloc_order[c] - 1
           h == Claim("carry", c, block[c], alloc_order[c])
           m == Claim("carry", c, block[c], j)
           n == Claim("add", c, UpperHalf(c), j)
<1>1. /\ TypeOK /\ pc[c] = "split" /\ ~ Adding(c) /\ Carrying(c)
      /\ block[c] \in Pages /\ UpperHalf(c) \in Pages /\ j \in Orders
      /\ h \in Claims /\ h.as = "carry" /\ UpperHalf(c) \in Extent(h)
  BY SplitFacts
<1>2. m \in ClaimType /\ n \in ClaimType
  BY <1>1 DEF Claim, ClaimType
<1>3. /\ kpage' = [kpage EXCEPT ![c] = UpperHalf(c)]
      /\ order' = [order EXCEPT ![c] = j]
      /\ ret' = [ret EXCEPT ![c] = "split"]
      /\ pc' = [pc EXCEPT ![c] = "add_lock"]
      /\ alloc_order' = [alloc_order EXCEPT ![c] = j]
      /\ kp_order' = [kp_order EXCEPT ![UpperHalf(c)] = j]
      /\ UNCHANGED <<free_pages, unadded, owned, block>>
  BY DEF Split, CallAdd
<1>4. ASSUME NEW x \in ClaimType
      PROVE  IsClaim(x)' <=> (IsClaim(x) /\ x # h) \/ x = m \/ x = n
  <2>1. /\ x = h <=> x.as = "carry" /\ x.by = c /\ x.page = block[c] /\ x.order = alloc_order[c]
        /\ x = m <=> x.as = "carry" /\ x.by = c /\ x.page = block[c] /\ x.order = j
        /\ x = n <=> x.as = "add" /\ x.by = c /\ x.page = UpperHalf(c) /\ x.order = j
    BY ClaimEquality
  <2>2. x.order \in Orders /\ x.as \in {"free", "boot", "own", "carry", "add"}
    BY DEF ClaimType
  <2>3. CASE x.as \in {"free", "boot"}
    BY <1>3, <2>1, <2>3 DEF IsClaim
  <2>4. CASE x.as = "own"
    <3>1. \A d \in CPUs : UpperHalf(c) \notin owned[d]
      BY <1>1, ClaimExclusive
    <3>2. \A p \in Pages : p # UpperHalf(c) => kp_order'[p] = kp_order[p]
      BY <1>1, <1>3 DEF TypeOK
    <3>3. x.page \in Pages
      BY DEF ClaimType
    <3> QED BY <1>3, <2>1, <2>4, <3>1, <3>2, <3>3 DEF IsClaim
  <2>5. CASE x.as = "carry"
    <3>1. \A d \in CPUs : Carrying(d)' <=> Carrying(d)
      BY <1>1, <1>3 DEF Carrying, Adding, TypeOK
    <3>2. CASE x.by = c
      BY <1>1, <1>3, <2>1, <2>5, <3>1, <3>2 DEF IsClaim, TypeOK
    <3>3. CASE x.by # c
      BY <1>1, <1>3, <2>1, <2>5, <3>1, <3>3 DEF IsClaim, TypeOK
    <3> QED BY <3>2, <3>3
  <2>6. CASE x.as = "add"
    <3>1. \A d \in CPUs : Adding(d)' <=> Adding(d) \/ d = c
      BY <1>1, <1>3 DEF Adding, TypeOK
    <3>2. CASE x.by = c
      BY <1>1, <1>3, <2>1, <2>6, <3>1, <3>2 DEF IsClaim, TypeOK
    <3>3. CASE x.by # c
      BY <1>1, <1>3, <2>1, <2>6, <3>1, <3>3 DEF IsClaim, TypeOK
    <3> QED BY <3>2, <3>3
  <2> QED BY <2>2, <2>3, <2>4, <2>5, <2>6
<1> QED BY <1>2, <1>4 DEF Claims

(* The unlocked split of memory.c:320-333 preserves the invariant.          *)
LEMMA SplitInductive ==
    ASSUME IndInv, NEW c \in CPUs, Split(c)
    PROVE  IndInv'
<1> DEFINE j == alloc_order[c] - 1
           u == UpperHalf(c)
           h == Claim("carry", c, block[c], alloc_order[c])
           m == Claim("carry", c, block[c], j)
           n == Claim("add", c, u, j)
<1>1. /\ TypeOK /\ pc[c] = "split" /\ ~ Adding(c) /\ Carrying(c)
      /\ j \in Orders /\ j \in Nat /\ request[c] <= j /\ kp_order[block[c]] = request[c]
      /\ block[c] \in Pages /\ u \in Pages /\ u # block[c]
      /\ h \in Claims /\ h.as = "carry" /\ h.by = c /\ h.page = block[c]
      /\ u \in Extent(h) /\ block[c] \in Extent(h)
  BY SplitFacts
<1>2. Claims' = (Claims \ {h}) \cup {m, n}
  BY SplitClaims
<1>3. /\ m.page = block[c] /\ m.order = j /\ n.page = u /\ n.order = j
      /\ Extent(m) = Block(block[c], j) /\ Extent(n) = Block(u, j)
  BY ClaimFields
<1>4. /\ kp_order' = [kp_order EXCEPT ![u] = j]
      /\ kp_flags' = [kp_flags EXCEPT ![u] = @ \ {"FREE_SUB"}]
      /\ kpage' = [kpage EXCEPT ![c] = u]
      /\ order' = [order EXCEPT ![c] = j]
      /\ end_kpage' = [end_kpage EXCEPT ![c] = kpage_last]
      /\ ret' = [ret EXCEPT ![c] = "split"]
      /\ pc' = [pc EXCEPT ![c] = "add_lock"]
      /\ alloc_order' = [alloc_order EXCEPT ![c] = j]
      /\ UNCHANGED <<kp_lock, free_pages, alloc_order_lock, unadded, owned, block, request>>
  BY DEF Split, CallAdd
<1>5. /\ \A p \in Pages : "FREE_BUDDY" \in kp_flags'[p] <=> "FREE_BUDDY" \in kp_flags[p]
      /\ \A p \in Pages : p # u => kp_order'[p] = kp_order[p] /\ kp_flags'[p] = kp_flags[p]
  BY <1>1, <1>4 DEF TypeOK
<1>6. TypeOK'
  <2>1. kpage_last \in Pages /\ j \in AllocOrders
    BY <1>1, ConstantTypes
  <2>2. kp_flags' \in [Pages -> SUBSET PageFlags]
    BY <1>1, <1>4 DEF TypeOK
  <2> QED BY <1>1, <1>4, <2>1, <2>2 DEF TypeOK, PCs
<1>7. LockOwners'
  BY <1>1, <1>4 DEF TypeOK, IndInv, LockOwners
<1>8. BootAlone'
  BY <1>1, <1>4 DEF BootAlone, Adding, TypeOK, IndInv
<1>9. Listed'
  <2>1. "FREE_BUDDY" \notin kp_flags[u] /\ \A i \in Orders : u \notin free_pages[i]
    BY <1>1, ClaimExclusive
  <2>2. ASSUME NEW p \in Pages, "FREE_BUDDY" \in kp_flags'[p]
        PROVE  p \in free_pages'[kp_order'[p]]
    BY <1>4, <1>5, <2>1, <2>2 DEF IndInv, Listed
  <2>3. ASSUME NEW i \in Orders, NEW p \in free_pages'[i]
        PROVE  kp_order'[p] = i /\ "FREE_BUDDY" \in kp_flags'[p]
    <3>1. p \in free_pages[i] /\ p # u /\ p \in Pages
      BY <1>1, <1>4, <2>1, <2>3 DEF TypeOK
    <3> QED BY <1>5, <3>1 DEF IndInv, Listed
  <2> QED BY <2>2, <2>3 DEF Listed
<1>10. UnaddedFresh'
  <2>1. u \notin unadded
    BY <1>1, ClaimExclusive
  <2> QED BY <1>1, <1>4, <1>5, <2>1 DEF IndInv, UnaddedFresh, TypeOK
<1>11. NoDoubleAllocation' /\ NoLeak'
  <2>1. Extent(h) = Extent(m) \cup Extent(n) /\ Extent(m) \cap Extent(n) = {}
    BY <1>3, SplitFacts
  <2>2. Cover({m, n}) = Cover({h}) /\ Apart({m, n})
    BY <2>1 DEF Cover, Apart
  <2> QED BY <1>1, <1>2, <2>2, ClaimsReplaced
<1>12. HeadsAligned'
  <2> SUFFICES ASSUME NEW x \in Claims'
               PROVE  Aligned(x.page, x.order) /\ kp_order'[x.page] <= x.order
    BY DEF HeadsAligned
  <2>1. CASE x = m
    BY <1>1, <1>3, <1>5, <2>1, SplitFacts
  <2>2. CASE x = n
    BY <1>1, <1>3, <1>4, <2>2, SplitFacts DEF TypeOK
  <2>3. CASE x # m /\ x # n
    <3>1. x \in Claims /\ x # h
      BY <1>2, <2>3
    <3>2. x.page \in Extent(x) /\ x.page \in Pages
          /\ Aligned(x.page, x.order) /\ kp_order[x.page] <= x.order
      BY <3>1, ClaimPages
    <3>3. x.page # u
      BY <1>1, <3>1, <3>2, SameClaim
    <3> QED BY <1>5, <3>2, <3>3
  <2> QED BY <2>1, <2>2, <2>3
<1>13. LocalsConsistent'
  <2>1. ASSUME NEW d \in CPUs, d # c
        PROVE  LocalsOf(d)'
    <3>1. LocalsOf(d)
      BY DEF IndInv, LocalsConsistent
    <3>2. /\ Carrying(d) => block[d] # u
          /\ pc[d] \in {"add_flags"} \cup MergePCs => Other(d) # u
      BY <1>1, <2>1, WrittenPage
    <3>3. /\ block[d] \in Pages
          /\ pc[d] \in {"add_flags"} \cup MergePCs => Other(d) \in Pages
      BY <1>1, <3>1 DEF TypeOK, LocalsOf
    <3>4. /\ pc'[d] = pc[d] /\ ret'[d] = ret[d] /\ kpage'[d] = kpage[d]
          /\ order'[d] = order[d] /\ alloc_order'[d] = alloc_order[d]
      BY <1>1, <1>4, <2>1 DEF TypeOK
    <3> QED BY <1>4, <1>5, <3>1, <3>2, <3>3, <3>4, LocalsPreserved
  <2>2. LocalsOf(c)'
    <3>1. pc'[c] = "add_lock" /\ alloc_order'[c] = j
      BY <1>1, <1>4 DEF TypeOK
    <3>2. kp_order'[block[c]] = request[c]
      BY <1>1, <1>5
    <3> QED BY <1>1, <1>4, <3>1, <3>2 DEF LocalsOf
  <2> QED BY <2>1, <2>2 DEF LocalsConsistent
<1> QED BY <1>6, <1>7, <1>8, <1>9, <1>10, <1>11, <1>12, <1>13 DEF IndInv
-----------------------------------------------------------------------------
(* Calls, returns and the loop of mem_init                                  *)

(* What the steps below have in common: one claim is passed on, with the    *)
(* same block, and no struct kpage, list or list lock changes.              *)
LEMMA ClaimPassed ==
    ASSUME IndInv, NEW x \in Claims, NEW a, NEW b,
           Claims' = (Claims \ {x}) \cup {Claim(a, b, x.page, x.order)},
           kp_order' = kp_order
    PROVE  NoDoubleAllocation' /\ NoLeak' /\ HeadsAligned'
<1> DEFINE n == Claim(a, b, x.page, x.order)
<1>1. n.page = x.page /\ n.order = x.order /\ Extent(n) = Extent(x)
  BY ClaimFields DEF Extent
<1>2. Cover({n}) = Cover({x}) /\ Apart({n})
  BY <1>1 DEF Cover, Apart
<1>3. NoDoubleAllocation' /\ NoLeak'
  BY <1>2, ClaimsReplaced
<1>4. HeadsAligned'
  BY <1>1 DEF IndInv, HeadsAligned
<1> QED BY <1>3, <1>4

(* Returning the block (memory.c:340) makes it the caller's.                *)
LEMMA AllocReturnInductive ==
    ASSUME IndInv, NEW c \in CPUs, AllocReturn(c)
    PROVE  IndInv'
<1> DEFINE h == Claim("carry", c, block[c], alloc_order[c])
           n == Claim("own", c, block[c], alloc_order[c])
<1>1. /\ TypeOK /\ pc[c] = "split" /\ ~ Adding(c) /\ Carrying(c)
      /\ block[c] \in Pages /\ alloc_order[c] \in Orders
      /\ kp_order[block[c]] = alloc_order[c]
  BY DEF IndInv, TypeOK, LocalsConsistent, LocalsOf, AllocReturn, Adding, Carrying
<1>2. /\ owned' = [owned EXCEPT ![c] = @ \cup {block[c]}]
      /\ block' = [block EXCEPT ![c] = Page0]
      /\ alloc_order' = [alloc_order EXCEPT ![c] = 0]
      /\ request' = [request EXCEPT ![c] = 0]
      /\ pc' = [pc EXCEPT ![c] = "idle"]
      /\ UNCHANGED <<kp_order, kp_flags, kp_lock, free_pages, alloc_order_lock,
                     unadded, kpage, order, ret, end_kpage>>
  BY DEF AllocReturn
<1>3. h \in Claims /\ h.page = block[c] /\ h.order = alloc_order[c]
  BY <1>1, ClaimsHeld, ClaimFields
<1>4. Claims' = (Claims \ {h}) \cup {n}
  <2>1. n \in ClaimType
    BY <1>1 DEF Claim, ClaimType
  <2>2. ASSUME NEW x \in ClaimType
        PROVE  IsClaim(x)' <=> (IsClaim(x) /\ x # h) \/ x = n
    <3>1. /\ x = h <=> x.as = "carry" /\ x.by = c /\ x.page = block[c] /\ x.order = alloc_order[c]
          /\ x = n <=> x.as = "own" /\ x.by = c /\ x.page = block[c] /\ x.order = alloc_order[c]
      BY ClaimEquality
    <3>2. x.as \in {"free", "boot", "own", "carry", "add"}
      BY DEF ClaimType
    <3>3. \A d \in CPUs : (Carrying(d)' <=> Carrying(d) /\ d # c) /\ (Adding(d)' <=> Adding(d))
      BY <1>1, <1>2 DEF Carrying, Adding, TypeOK
    <3>4. CASE x.as \in {"free", "boot", "add"}
      BY <1>2, <3>1, <3>3, <3>4 DEF IsClaim
    <3>5. CASE x.as = "own"
      BY <1>1, <1>2, <3>1, <3>5 DEF IsClaim, TypeOK
    <3>6. CASE x.as = "carry"
      BY <1>1, <1>2, <3>1, <3>3, <3>6 DEF IsClaim, TypeOK
    <3> QED BY <3>2, <3>4, <3>5, <3>6
  <2> QED BY <2>1, <2>2 DEF Claims
<1>5. TypeOK'
  BY <1>1, <1>2, ConstantTypes DEF TypeOK, PCs
<1>6. LockOwners' /\ BootAlone' /\ Listed' /\ UnaddedFresh'
  BY <1>1, <1>2 DEF IndInv, LockOwners, BootAlone, Adding, Listed, UnaddedFresh,
       TypeOK
<1>7. NoDoubleAllocation' /\ NoLeak' /\ HeadsAligned'
  BY <1>2, <1>3, <1>4, ClaimPassed
<1>8. LocalsConsistent'
  <2>1. ASSUME NEW d \in CPUs, d # c
        PROVE  LocalsOf(d)'
    BY <1>1, <1>2, <2>1, LocalsKept DEF IndInv, TypeOK, LocalsConsistent
  <2>2. LocalsOf(c)'
    BY <1>1, <1>2 DEF LocalsOf, Carrying, Adding, TypeOK
  <2> QED BY <2>1, <2>2 DEF LocalsConsistent
<1> QED BY <1>5, <1>6, <1>7, <1>8 DEF IndInv

(* A block given back is carried by page_add_to_slot from then on.          *)
LEMMA PageFreeInductive ==
    ASSUME IndInv, NEW c \in CPUs, PageFree(c)
    PROVE  IndInv'
<1>1. PICK p \in owned[c] :
        /\ owned' = [owned EXCEPT ![c] = @ \ {p}]
        /\ CallAdd(c, p, kp_order[p], kpage_last, "idle")
  BY DEF PageFree
<1> DEFINE h == Claim("own", c, p, kp_order[p])
           n == Claim("add", c, p, kp_order[p])
<1>2. /\ TypeOK /\ pc[c] = "idle" /\ ~ Adding(c) /\ ~ Carrying(c)
      /\ p \in Pages /\ kp_order[p] \in Orders /\ kpage_last \in Pages
  BY ConstantTypes DEF IndInv, TypeOK, PageFree, Adding, Carrying
<1>3. /\ kpage' = [kpage EXCEPT ![c] = p]
      /\ order' = [order EXCEPT ![c] = kp_order[p]]
      /\ end_kpage' = [end_kpage EXCEPT ![c] = kpage_last]
      /\ ret' = [ret EXCEPT ![c] = "idle"]
      /\ pc' = [pc EXCEPT ![c] = "add_lock"]
      /\ UNCHANGED <<kp_order, kp_flags, kp_lock, free_pages, alloc_order_lock,
                     unadded, block, alloc_order, request>>
  BY <1>1 DEF PageFree, CallAdd
<1>4. h \in Claims /\ h.page = p /\ h.order = kp_order[p]
  BY ClaimsHeld, ClaimFields
<1>5. Claims' = (Claims \ {h}) \cup {n}
  <2>1. n \in ClaimType
    BY <1>2 DEF Claim, ClaimType
  <2>2. ASSUME NEW x \in ClaimType
        PROVE  IsClaim(x)' <=> (IsClaim(x) /\ x # h) \/ x = n
    <3>1. /\ x = h <=> x.as = "own" /\ x.by = c /\ x.page = p /\ x.order = kp_order[p]
          /\ x = n <=> x.as = "add" /\ x.by = c /\ x.page = p /\ x.order = kp_order[p]
      BY ClaimEquality
    <3>2. x.as \in {"free", "boot", "own", "carry", "add"}
      BY DEF ClaimType
    <3>3. \A d \in CPUs : (Carrying(d)' <=> Carrying(d)) /\ (Adding(d)' <=> Adding(d) \/ d = c)
      BY <1>2, <1>3 DEF Carrying, Adding, TypeOK
    <3>4. CASE x.as \in {"free", "boot", "carry"}
      BY <1>3, <3>1, <3>3, <3>4 DEF IsClaim
    <3>5. CASE x.as = "own"
      BY <1>1, <1>2, <1>3, <3>1, <3>5 DEF IsClaim, TypeOK
    <3>6. CASE x.as = "add"
      BY <1>2, <1>3, <3>1, <3>3, <3>6 DEF IsClaim, TypeOK
    <3> QED BY <3>2, <3>4, <3>5, <3>6
  <2> QED BY <2>1, <2>2 DEF Claims
<1>6. TypeOK'
  BY <1>1, <1>2, <1>3 DEF TypeOK, PCs
<1>7. LockOwners' /\ BootAlone' /\ Listed' /\ UnaddedFresh'
  BY <1>2, <1>3 DEF IndInv, LockOwners, BootAlone, Adding, Listed, UnaddedFresh,
       TypeOK
<1>8. NoDoubleAllocation' /\ NoLeak' /\ HeadsAligned'
  BY <1>3, <1>4, <1>5, ClaimPassed
<1>9. LocalsConsistent'
  <2>1. ASSUME NEW d \in CPUs, d # c
        PROVE  LocalsOf(d)'
    BY <1>2, <1>3, <2>1, LocalsKept DEF IndInv, TypeOK, LocalsConsistent
  <2>2. LocalsOf(c)'
    BY <1>2, <1>3 DEF LocalsOf, Carrying, Adding, TypeOK
  <2> QED BY <2>1, <2>2 DEF LocalsConsistent
<1> QED BY <1>6, <1>7, <1>8, <1>9 DEF IndInv

(* mem_init's loop passes an unadded page to page_add_to_slot, or skips it. *)
LEMMA BootPageInductive ==
    ASSUME IndInv, NEW c \in CPUs, BootPage(c)
    PROVE  IndInv'
<1>1. PICK p \in unadded :
        /\ unadded' = unadded \ {p}
        /\ kp_order' = [kp_order EXCEPT ![p] = 0]
        /\ IF kp_flags[p] = {} THEN CallAdd(c, p, 0, p, "boot")
                               ELSE UNCHANGED <<pc, addVars>>
  BY DEF BootPage
<1>2. /\ TypeOK /\ pc[c] = "boot" /\ ~ Adding(c) /\ ~ Carrying(c)
      /\ p \in Pages /\ 0 \in Orders
  BY ConstantTypes DEF IndInv, TypeOK, BootPage, Adding, Carrying
<1>3. kp_order' = kp_order /\ (kp_flags[p] = {} <=> p \notin Unusable)
  BY <1>1, <1>2 DEF IndInv, UnaddedFresh, TypeOK
<1>4. UNCHANGED <<kp_flags, kp_lock, free_pages, alloc_order_lock, owned,
                  block, alloc_order, request>>
  BY DEF BootPage
<1>5. CASE p \in Unusable
  <2>1. UNCHANGED <<pc, ret, kpage, order, end_kpage>>
    BY <1>1, <1>3, <1>5
  <2>2. unadded' \ Unusable = unadded \ Unusable
    BY <1>1, <1>5
  <2>3. \A x \in ClaimType : IsClaim(x)' <=> IsClaim(x)
    BY <1>3, <1>4, <2>1, <2>2 DEF IsClaim, Adding, Carrying
  <2>4. Claims' = Claims
    BY <2>3 DEF Claims
  <2>5. HeadsAligned' /\ NoDoubleAllocation' /\ NoLeak'
    BY <1>3, <2>4 DEF IndInv, HeadsAligned, NoDoubleAllocation, NoLeak
  <2>6. TypeOK'
    BY <1>1, <1>2, <1>3, <1>4, <2>1 DEF TypeOK
  <2>7. LockOwners' /\ BootAlone' /\ Listed' /\ UnaddedFresh'
    BY <1>1, <1>3, <1>4, <2>1
       DEF IndInv, LockOwners, BootAlone, Adding, Listed, UnaddedFresh
  <2>8. LocalsConsistent'
    BY <1>3, <1>4, <2>1, LocalsKept DEF IndInv, LocalsConsistent
  <2> QED BY <2>5, <2>6, <2>7, <2>8 DEF IndInv
<1>6. CASE p \notin Unusable
  <2> DEFINE h == Claim("boot", NoCPU, p, 0)
             n == Claim("add", c, p, 0)
  <2>1. /\ kpage' = [kpage EXCEPT ![c] = p]
        /\ order' = [order EXCEPT ![c] = 0]
        /\ end_kpage' = [end_kpage EXCEPT ![c] = p]
        /\ ret' = [ret EXCEPT ![c] = "boot"]
        /\ pc' = [pc EXCEPT ![c] = "add_lock"]
    BY <1>1, <1>3, <1>6 DEF CallAdd
  <2>2. h \in Claims /\ h.page = p /\ h.order = 0
    BY <1>6, ClaimsHeld, ClaimFields
  <2>3. Claims' = (Claims \ {h}) \cup {n}
    <3>1. n \in ClaimType
      BY <1>2 DEF Claim, ClaimType
    <3>2. ASSUME NEW x \in ClaimType
          PROVE  IsClaim(x)' <=> (IsClaim(x) /\ x # h) \/ x = n
      <4>1. /\ x = h <=> x.as = "boot" /\ x.by = NoCPU /\ x.page = p /\ x.order = 0
            /\ x = n <=> x.as = "add" /\ x.by = c /\ x.page = p /\ x.order = 0
        BY ClaimEquality
      <4>2. x.as \in {"free", "boot", "own", "carry", "add"}
        BY DEF ClaimType
      <4>3. \A d \in CPUs : (Carrying(d)' <=> Carrying(d)) /\ (Adding(d)' <=> Adding(d) \/ d = c)
        BY <1>2, <2>1 DEF Carrying, Adding, TypeOK
      <4>4. CASE x.as \in {"free", "own", "carry"}
        BY <1>3, <1>4, <4>1, <4>3, <4>4 DEF IsClaim
      <4>5. CASE x.as = "boot"
        BY <1>1, <1>6, <4>1, <4>5 DEF IsClaim
      <4>6. CASE x.as = "add"
        BY <1>2, <2>1, <4>1, <4>3, <4>6 DEF IsClaim, TypeOK
      <4> QED BY <4>2, <4>4, <4>5, <4>6
    <3> QED BY <3>1, <3>2 DEF Claims
  <2>4. HeadsAligned' /\ NoDoubleAllocation' /\ NoLeak'
    BY <1>3, <2>2, <2>3, ClaimPassed
  <2>5. TypeOK'
    BY <1>1, <1>2, <1>3, <1>4, <2>1 DEF TypeOK, PCs
  <2>6. LockOwners' /\ BootAlone' /\ Listed' /\ UnaddedFresh'
    BY <1>1, <1>2, <1>3, <1>4, <2>1
       DEF IndInv, LockOwners, BootAlone, Adding, Listed, UnaddedFresh, TypeOK
  <2>7. LocalsConsistent'
    <3>1. ASSUME NEW d \in CPUs, d # c
          PROVE  LocalsOf(d)'
      BY <1>2, <1>3, <1>4, <2>1, <3>1, LocalsKept DEF IndInv, TypeOK,
           LocalsConsistent
    <3>2. LocalsOf(c)'
      BY <1>2, <2>1 DEF LocalsOf, Carrying, Adding, TypeOK
    <3> QED BY <3>1, <3>2 DEF LocalsConsistent
  <2> QED BY <2>4, <2>5, <2>6, <2>7 DEF IndInv
<1> QED BY <1>5, <1>6

(* When mem_init is over no page is left to add; the other processors start.*)
LEMMA BootDoneInductive ==
    ASSUME IndInv, NEW c \in CPUs, BootDone(c)
    PROVE  IndInv'
<1>1. /\ TypeOK /\ pc[c] = "boot" /\ pc' = [d \in CPUs |-> "idle"]
      /\ UNCHANGED <<kp_order, kp_flags, kp_lock, free_pages, alloc_order_lock, unadded,
                     owned, ret, kpage, order, end_kpage, block, alloc_order, request>>
  BY DEF IndInv, BootDone
<1>2. \A d \in CPUs : d # c => pc[d] = "off"
  BY <1>1 DEF IndInv, BootAlone
<1>3. \A d \in CPUs : ~ Adding(d) /\ ~ Carrying(d) /\ ~ Adding(d)' /\ ~ Carrying(d)'
  BY <1>1, <1>2 DEF Adding, Carrying
<1>4. HeadsAligned' /\ NoDoubleAllocation' /\ NoLeak'
  BY <1>1, <1>3, QuietClaims
<1>5. TypeOK'
  BY <1>1 DEF TypeOK, PCs
<1>6. LockOwners' /\ BootAlone' /\ Listed' /\ UnaddedFresh'
  BY <1>1 DEF IndInv, LockOwners, BootAlone, Adding, Listed, UnaddedFresh
<1>7. LocalsConsistent'
  BY <1>1, <1>3 DEF LocalsConsistent, LocalsOf
<1> QED BY <1>4, <1>5, <1>6, <1>7 DEF IndInv

-----------------------------------------------------------------------------
(* The theorems                                                             *)

(* mem_init starts with every usable page a block of its own.               *)
LEMMA InitInvariant ==
    ASSUME Init
    PROVE  IndInv
<1>1. TypeOK
  <2>1. /\ 0 \in Orders /\ 0 \in AllocOrders /\ Page0 \in Pages
    BY ConstantTypes DEF AllocOrders
  <2>2. kp_flags \in [Pages -> SUBSET PageFlags]
    BY DEF Init, PageFlags
  <2> QED BY <2>1, <2>2 DEF Init, TypeOK, PCs
<1>2. \A c \in CPUs : ~ Adding(c) /\ ~ Carrying(c) /\ pc[c] \in {"boot", "off"}
  BY DEF Init, Adding, Carrying
<1>3. LockOwners /\ BootAlone /\ LocalsConsistent
  BY <1>2 DEF LockOwners, BootAlone, LocalsConsistent, LocalsOf, Init
<1>4. Listed /\ UnaddedFresh
  BY <1>1 DEF Init, Listed, UnaddedFresh, TypeOK
<1>5. \A x \in Claims : /\ x.as = "boot" /\ x.by = NoCPU /\ x.order = 0
                        /\ x.page \in Usable /\ x = Claim("boot", NoCPU, x.page, 0)
                        /\ Extent(x) = {x.page}
  <2> SUFFICES ASSUME NEW x \in Claims
               PROVE  /\ x.as = "boot" /\ x.by = NoCPU /\ x.order = 0
                      /\ x.page \in Usable /\ x = Claim("boot", NoCPU, x.page, 0)
                      /\ Extent(x) = {x.page}
    OBVIOUS
  <2>1. x \in ClaimType /\ IsClaim(x)
    BY DEF Claims
  <2>2. x.as = "boot" /\ x.by = NoCPU /\ x.order = 0 /\ x.page \in Usable
    BY <1>2, <2>1 DEF IsClaim, Init, Usable, ClaimType
  <2>3. x = Claim("boot", NoCPU, x.page, 0)
    BY <2>1, <2>2, ClaimEquality
  <2> QED BY <2>2, <2>3, BlockHead DEF Extent
<1>6. HeadsAligned
  <2> SUFFICES ASSUME NEW x \in Claims
               PROVE  Aligned(x.page, x.order) /\ kp_order[x.page] <= x.order
    BY DEF HeadsAligned
  <2>1. Aligned(x.page, 0)
    BY AlignedBuddy
  <2> QED BY <1>5, <2>1 DEF Init, Usable
<1>7. NoDoubleAllocation
  BY <1>5 DEF NoDoubleAllocation
<1>8. NoLeak
  <2>1. \A p \in Usable : Claim("boot", NoCPU, p, 0) \in Claims
    BY <1>1, ConstantTypes DEF Claims, ClaimType, IsClaim, Claim, Init, Usable
  <2>2. \A p \in Usable : p \in Extent(Claim("boot", NoCPU, p, 0))
    BY BlockHead, ClaimFields
  <2> QED BY <1>5, <2>1, <2>2 DEF NoLeak
<1> QED BY <1>1, <1>3, <1>4, <1>6, <1>7, <1>8 DEF IndInv

(* Every step of the allocator preserves the inductive invariant.           *)
LEMMA NextInvariant ==
    ASSUME IndInv, [Next]_vars
    PROVE  IndInv'
<1>1. CASE UNCHANGED vars
  <2>1. \A x \in ClaimType : IsClaim(x)' <=> IsClaim(x)
    BY <1>1 DEF vars, IsClaim, Adding, Carrying
  <2>2. Claims' = Claims
    BY <2>1 DEF Claims
  <2>3. LocalsConsistent'
    BY <1>1, LocalsKept DEF vars, IndInv, LocalsConsistent
  <2> QED BY <1>1, <2>2, <2>3
          DEF vars, IndInv, TypeOK, LockOwners, BootAlone, Adding, HeadsAligned,
            Listed,
              UnaddedFresh, NoDoubleAllocation, NoLeak
<1>2. CASE Next
  <2>1. PICK c \in CPUs : Step(c) \/ PageFree(c) \/ PageAllocCall(c)
    BY <1>2 DEF Next
  <2>2. CASE BootPage(c) \/ BootDone(c)
    BY <2>2, BootPageInductive, BootDoneInductive
  <2>3. CASE AddStep(c)
    BY <2>3, AddLockInductive, AddReadOrderInductive, AddReadFlagsInductive,
       MergeLockFirstInductive, MergeLockSecondInductive, MergeInductive,
       InsertLockInductive, InsertInductive DEF AddStep
  <2>4. CASE AllocStep(c)
    BY <2>4, AllocLockInductive, AllocFailInductive, AllocNextOrderInductive,
       AllocChooseInductive, PopLockInductive, PopInductive, SplitInductive,
       AllocReturnInductive DEF AllocStep
  <2>5. CASE PageFree(c) \/ PageAllocCall(c)
    BY <2>5, PageFreeInductive, PageAllocCallInductive
  <2> QED BY <2>1, <2>2, <2>3, <2>4, <2>5 DEF Step
<1> QED BY <1>1, <1>2

(* The invariant that describes every block, lock and local of the          *)
(* allocator holds in every state, whatever the CPUs, pages and orders.     *)
THEOREM Invariance == Spec => []IndInv
<1>1. Init => IndInv
  BY InitInvariant
<1>2. IndInv /\ [Next]_vars => IndInv'
  BY NextInvariant
<1> QED BY <1>1, <1>2, PTL DEF Spec

(* Every variable keeps its type: in particular no page index leaves the    *)
(* array of struct kpage and no order exceeds MAX_ALLOC_ORDER.              *)
THEOREM TypeCorrect == Spec => []TypeOK
<1>1. IndInv => TypeOK
  BY DEF IndInv
<1> QED BY <1>1, Invariance, PTL

(* No page is ever in two blocks: page_alloc never hands out a page that    *)
(* somebody else has.                                                       *)
THEOREM AllocationSafe == Spec => []NoDoubleAllocation
<1>1. IndInv => NoDoubleAllocation
  BY DEF IndInv
<1> QED BY <1>1, Invariance, PTL

(* Every usable page stays in exactly one block: none is lost by a split, a *)
(* merge or a race, and no unusable page is ever handed out.                *)
THEOREM NothingLost == Spec => []NoLeak
<1>1. IndInv => NoLeak
  BY DEF IndInv
<1> QED BY <1>1, Invariance, PTL
=============================================================================
