--------------------------- MODULE BuddyListProofs ---------------------------
(***************************************************************************)
(* Proofs about the locks and flags of the struct kpages and about the free *)
(* lists: page locks are never contended, free buddies meet, flags tell the *)
(* truth, page_alloc fails only when it must.  And proofs that the          *)
(* allocator keeps its promise to its callers: nobody writes to the struct  *)
(* kpages of a block that another one has, and every step of BuddyAllocator *)
(* is one of PageAllocator or a stutter.  All rest on the invariant proved  *)
(* in BuddyAllocatorProofs.                                                 *)
(***************************************************************************)
EXTENDS BuddyAllocatorProofs

USE DEF Goto, AddPCs, MergePCs, InsertPCs, AllocPCs, PopPCs, HoldPCs, ListPCs,
        kpageVars, addVars, allocVars

-----------------------------------------------------------------------------
(* Page locks                                                               *)

(* the struct kpages a processor is about to lock or has locked *)
Touching(c) ==
    {p \in Pages : \/ pc[c] \in MergePCs /\ p \in {kpage[c], Other(c)}
                   \/ pc[c] \in InsertPCs /\ p = kpage[c]
                   \/ pc[c] \in PopPCs /\ p = block[c]}

(* those it has locked *)
Held(c) ==
    {p \in Pages : \/ pc[c] = "merge_second" /\ p = First(c)
                   \/ pc[c] = "merge" /\ p \in {First(c), Second(c)}
                   \/ pc[c] = "insert" /\ p = kpage[c]
                   \/ pc[c] = "pop" /\ p = block[c]}

HoldersKnown == \A p \in Pages : kp_lock[p] # NoCPU => \E c \in CPUs : p \in Held(c)

(* Every page a processor touches heads a block that only it can move: the  *)
(* block it adds, or a block of the free list that it has locked.           *)
LEMMA TouchingClaim ==
    ASSUME IndInv, NEW c \in CPUs, NEW p \in Touching(c)
    PROVE  \E x \in Claims :
              /\ x.page = p
              /\ \/ x.as = "add" /\ x.by = c
                 \/ x.as = "free" /\ pc[c] \in HoldPCs /\ x.order = order[c]
                 \/ x.as = "free" /\ pc[c] \in ListPCs /\ x.order = alloc_order[c]
<1>1. CASE pc[c] \in MergePCs \cup InsertPCs /\ p = kpage[c]
  <2>1. Adding(c)
    BY <1>1 DEF Adding
  <2>2. Claim("add", c, p, order[c]) \in Claims
    BY <1>1, <2>1, ClaimsHeld
  <2> QED BY <2>2, ClaimFields
<1>2. CASE pc[c] \in MergePCs /\ p = Other(c)
  <2>1. Claim("free", NoCPU, p, order[c]) \in Claims
    BY <1>2, MergeFacts, ClaimsHeld
  <2> QED BY <1>2, <2>1, ClaimFields
<1>3. CASE pc[c] \in PopPCs /\ p = block[c]
  <2>1. alloc_order[c] \in Orders /\ p \in free_pages[alloc_order[c]]
    BY <1>3 DEF IndInv, LockOwners, LocalsConsistent, LocalsOf
  <2>2. Claim("free", NoCPU, p, alloc_order[c]) \in Claims
    BY <2>1, ClaimsHeld
  <2> QED BY <1>3, <2>2, ClaimFields
<1> QED BY <1>1, <1>2, <1>3 DEF Touching

(* So no two processors touch the same struct kpage.                        *)
LEMMA TouchingApart ==
    ASSUME IndInv, NEW c \in CPUs, NEW d \in CPUs, c # d
    PROVE  Touching(c) \cap Touching(d) = {}
<1> SUFFICES ASSUME NEW p \in Touching(c), p \in Touching(d)
             PROVE  FALSE
  OBVIOUS
<1>1. PICK x \in Claims :
        /\ x.page = p
        /\ \/ x.as = "add" /\ x.by = c
           \/ x.as = "free" /\ pc[c] \in HoldPCs /\ x.order = order[c]
           \/ x.as = "free" /\ pc[c] \in ListPCs /\ x.order = alloc_order[c]
  BY TouchingClaim
<1>2. PICK y \in Claims :
        /\ y.page = p
        /\ \/ y.as = "add" /\ y.by = d
           \/ y.as = "free" /\ pc[d] \in HoldPCs /\ y.order = order[d]
           \/ y.as = "free" /\ pc[d] \in ListPCs /\ y.order = alloc_order[d]
  BY TouchingClaim
<1>3. x = y
  BY <1>1, <1>2, ClaimPages, SameClaim
<1> QED BY <1>1, <1>2, <1>3, LocksApart

LEMMA HeldTouching ==
    ASSUME NEW c \in CPUs
    PROVE  Held(c) \subseteq Touching(c)
  BY DEF Held, Touching, First, Second

(* With the holders of the page locks known, no lock that a processor comes *)
(* to take is held.                                                         *)
LEMMA LocksFree ==
    ASSUME IndInv, HoldersKnown
    PROVE  KpageLocksUncontended
<1>1. ASSUME NEW c \in CPUs, NEW p \in Touching(c), p \notin Held(c)
      PROVE  kp_lock[p] = NoCPU
  <2>1. p \in Pages
    BY DEF Touching
  <2>2. \A d \in CPUs : p \notin Held(d)
    BY <1>1, HeldTouching, TouchingApart
  <2> QED BY <2>1, <2>2 DEF HoldersKnown
<1>2. ASSUME NEW c \in CPUs, pc[c] \in {"merge_first", "merge_second"}
      PROVE  /\ First(c) \in Touching(c) /\ Second(c) \in Touching(c)
             /\ First(c) # Second(c)
  BY <1>2, MergeFacts DEF Touching
<1>3. ASSUME NEW c \in CPUs, pc[c] = "merge_first"
      PROVE  kp_lock[First(c)] = NoCPU
  <2>1. First(c) \notin Held(c)
    BY <1>3 DEF Held
  <2> QED BY <1>1, <1>2, <1>3, <2>1
<1>4. ASSUME NEW c \in CPUs, pc[c] = "merge_second"
      PROVE  kp_lock[Second(c)] = NoCPU
  <2>1. Second(c) \notin Held(c)
    BY <1>2, <1>4 DEF Held
  <2> QED BY <1>1, <1>2, <1>4, <2>1
<1>5. ASSUME NEW c \in CPUs, pc[c] = "ins_lock"
      PROVE  kp_lock[kpage[c]] = NoCPU
  <2>1. kpage[c] \in Touching(c) /\ kpage[c] \notin Held(c)
    BY <1>5 DEF Held, Touching, IndInv, TypeOK
  <2> QED BY <1>1, <2>1
<1>6. ASSUME NEW c \in CPUs, pc[c] = "pop_lock"
      PROVE  kp_lock[block[c]] = NoCPU
  <2>1. block[c] \in Touching(c) /\ block[c] \notin Held(c)
    BY <1>6 DEF Held, Touching, IndInv, TypeOK
  <2> QED BY <1>1, <2>1
<1> QED BY <1>3, <1>4, <1>5, <1>6 DEF KpageLocksUncontended

(* What a processor holds depends on its own locals only.                   *)
LEMMA HeldKept ==
    ASSUME NEW d \in CPUs, pc'[d] = pc[d], kpage'[d] = kpage[d],
           order'[d] = order[d], block'[d] = block[d]
    PROVE  Held(d)' = Held(d)
  BY DEF Held, First, Second, Other

(* A lock is taken by the processor whose program counter then says so, and *)
(* released when it says otherwise.                                         *)
LEMMA HoldersStep ==
    ASSUME IndInv, HoldersKnown, [Next]_vars
    PROVE  HoldersKnown'
<1>1. CASE UNCHANGED vars
  BY <1>1 DEF vars, HoldersKnown, Held, First, Second, Other
<1>2. CASE Next
  <2>1. PICK c \in CPUs : Step(c) \/ PageFree(c) \/ PageAllocCall(c)
    BY <1>2 DEF Next
  <2>2. TypeOK
    BY DEF IndInv
  <2>3. CASE BootDone(c)
    <3>1. \A d \in CPUs : pc[d] \in {"boot", "off"}
      BY <2>3 DEF BootDone, IndInv, BootAlone
    <3>2. \A d \in CPUs : Held(d) = {}
      BY <3>1 DEF Held
    <3> QED BY <2>3, <3>2 DEF BootDone, HoldersKnown
  <2> DEFINE OthersKept == \A d \in CPUs : d # c => Held(d)' = Held(d)
  <2>4. ASSUME OthersKept, kp_lock' = kp_lock, Held(c) = {}
        PROVE  HoldersKnown'
    BY <2>4 DEF HoldersKnown
  <2>5. CASE BootPage(c)
    <3>1. OthersKept
      BY <2>2, <2>5, HeldKept DEF BootPage, CallAdd, TypeOK
    <3> QED BY <2>4, <2>5, <3>1 DEF BootPage, Held
  <2>6. CASE \/ AddLock(c) \/ AddReadOrder(c) \/ AddReadFlags(c) \/ PageFree(c)
             \/ PageAllocCall(c) \/ AllocLock(c) \/ AllocFail(c) \/ AllocNextOrder(c)
             \/ AllocChoose(c) \/ Split(c) \/ AllocReturn(c)
    <3>1. OthersKept
      BY <2>2, <2>6, HeldKept DEF AddLock, AddReadOrder, AddReadFlags, PageFree,
         PageAllocCall, AllocLock, AllocFail, AllocNextOrder, AllocChoose, Split,
         AllocReturn, CallAdd, TypeOK
    <3>2. kp_lock' = kp_lock /\ Held(c) = {}
      BY <2>6 DEF AddLock, AddReadOrder, AddReadFlags, PageFree,
         PageAllocCall, AllocLock, AllocFail, AllocNextOrder, AllocChoose, Split,
         AllocReturn, Held
    <3> QED BY <2>4, <3>1, <3>2
  <2>7. CASE MergeLockFirst(c) \/ MergeLockSecond(c) \/ InsertLock(c) \/ PopLock(c)
    <3>1. OthersKept
      BY <2>2, <2>7, HeldKept DEF MergeLockFirst, MergeLockSecond, InsertLock, PopLock,
         TypeOK
    <3>2. First(c)' = First(c) /\ Second(c)' = Second(c) /\ kpage' = kpage /\ block' = block
      BY <2>7 DEF MergeLockFirst, MergeLockSecond, InsertLock, PopLock, First, Second, Other
    <3>3. \A p \in Pages : kp_lock'[p] # NoCPU => kp_lock[p] # NoCPU \/ p \in Held(c)'
      BY <2>2, <2>7, <3>2 DEF MergeLockFirst, MergeLockSecond, InsertLock, PopLock,
         LockKpage, Held, TypeOK
    <3>4. Held(c) \subseteq Held(c)'
      BY <2>2, <2>7, <3>2 DEF MergeLockFirst, MergeLockSecond, InsertLock, PopLock,
         Held, TypeOK
    <3> QED BY <3>1, <3>3, <3>4 DEF HoldersKnown
  <2>8. CASE Merge(c) \/ Insert(c) \/ Pop(c)
    <3>1. OthersKept
      BY <2>2, <2>8, HeldKept DEF Merge, Insert, Pop, TypeOK
    <3>2. \A p \in Pages : kp_lock'[p] # NoCPU => kp_lock[p] # NoCPU /\ p \notin Held(c)
      BY <2>2, <2>8 DEF Merge, Insert, Pop, Held, TypeOK
    <3> QED BY <3>1, <3>2 DEF HoldersKnown
  <2> QED BY <2>1, <2>3, <2>5, <2>6, <2>7, <2>8 DEF Step, AddStep, AllocStep
<1> QED BY <1>1, <1>2

(* The lock of a struct kpage is free whenever a processor comes to take it.*)
THEOREM LocksUncontended == Spec => []KpageLocksUncontended
<1>1. Init => HoldersKnown
  BY DEF Init, HoldersKnown
<1>2. IndInv /\ HoldersKnown /\ [Next]_vars => HoldersKnown'
  BY HoldersStep
<1>3. IndInv /\ HoldersKnown => KpageLocksUncontended
  BY LocksFree
<1> QED BY <1>1, <1>2, <1>3, Invariance, PTL DEF Spec

-----------------------------------------------------------------------------
(* List locks                                                               *)

(* The holder of a list lock is between taking and releasing it.            *)
InSection(c, k) == \/ pc[c] \in HoldPCs /\ order[c] = k
                   \/ pc[c] \in ListPCs /\ alloc_order[c] = k
SectionsHeld ==
    \A k \in Orders : \A c \in CPUs : alloc_order_lock[k] = c => InSection(c, k)

(* A step that takes no list lock and leaves its own section, if any, only  *)
(* with the lock released.                                                  *)
LEMMA SectionKept ==
    ASSUME IndInv, SectionsHeld, NEW c \in CPUs,
           \A k \in Orders : \A d \in CPUs :
              alloc_order_lock'[k] = d => alloc_order_lock[k] = d,
           \A d \in CPUs \ {c} : /\ pc'[d] = pc[d] /\ order'[d] = order[d]
                                 /\ alloc_order'[d] = alloc_order[d],
           \A k \in Orders :
              alloc_order_lock'[k] = c /\ InSection(c, k) => InSection(c, k)'
    PROVE  SectionsHeld'
<1> SUFFICES ASSUME NEW k \in Orders, NEW d \in CPUs, alloc_order_lock'[k] = d
             PROVE  InSection(d, k)'
  BY DEF SectionsHeld
<1>1. InSection(d, k)
  BY DEF SectionsHeld
<1>2. CASE d = c
  BY <1>1, <1>2
<1>3. CASE d # c
  BY <1>1, <1>3 DEF InSection
<1> QED BY <1>2, <1>3

LEMMA SectionsStep ==
    ASSUME IndInv, SectionsHeld, [Next]_vars
    PROVE  SectionsHeld'
<1>1. TypeOK /\ NoCPU \notin CPUs
  BY CPUAssumption DEF IndInv
<1>2. CASE UNCHANGED vars
  BY <1>2 DEF vars, SectionsHeld, InSection
<1>3. ASSUME NEW c \in CPUs, BootDone(c)
      PROVE  SectionsHeld'
  <2>1. \A d \in CPUs : pc[d] \in {"boot", "off"}
    BY <1>3 DEF BootDone, IndInv, BootAlone
  <2>2. \A k \in Orders : \A d \in CPUs : alloc_order_lock[k] # d
    BY <2>1 DEF SectionsHeld, InSection
  <2> QED BY <1>3, <2>2 DEF BootDone, SectionsHeld
<1>4. ASSUME NEW c \in CPUs, AddLock(c) \/ AllocLock(c)
      PROVE  SectionsHeld'
  <2> SUFFICES ASSUME NEW k \in Orders, NEW d \in CPUs, alloc_order_lock'[k] = d
               PROVE  InSection(d, k)'
    BY DEF SectionsHeld
  <2>1. CASE alloc_order_lock[k] = d
    <3>1. InSection(d, k) /\ (d = c => ~ InSection(d, k))
      BY <1>4, <2>1 DEF SectionsHeld, InSection, AddLock, AllocLock
    <3> QED BY <1>1, <1>4, <3>1 DEF InSection, AddLock, AllocLock, TypeOK
  <2>2. CASE alloc_order_lock[k] # d
    BY <1>1, <1>4, <2>2 DEF InSection, AddLock, AllocLock, LockOrder, TypeOK
  <2> QED BY <2>1, <2>2
<1>5. ASSUME NEW c \in CPUs, Merge(c) \/ Insert(c)
      PROVE  SectionsHeld'
  <2>1. /\ pc[c] \in {"merge", "insert"} /\ order[c] \in Orders
        /\ alloc_order_lock' = [alloc_order_lock EXCEPT ![order[c]] = NoCPU]
        /\ \A d \in CPUs \ {c} : /\ pc'[d] = pc[d] /\ order'[d] = order[d]
                                 /\ alloc_order'[d] = alloc_order[d]
    BY <1>1, <1>5 DEF Merge, Insert, UnlockOrder, TypeOK
  <2>2. \A k \in Orders : InSection(c, k) => k = order[c]
    BY <2>1 DEF InSection
  <2>3. alloc_order_lock'[order[c]] # c
    BY <1>1, <2>1 DEF TypeOK
  <2>4. \A k \in Orders : \A d \in CPUs :
           alloc_order_lock'[k] = d => alloc_order_lock[k] = d
    BY <1>1, <2>1 DEF TypeOK
  <2> QED BY <2>1, <2>2, <2>3, <2>4, SectionKept
<1>6. ASSUME NEW c \in CPUs, AllocNextOrder(c) \/ Pop(c)
      PROVE  SectionsHeld'
  <2>1. /\ pc[c] \in {"alloc_test", "pop"} /\ alloc_order[c] \in Orders
        /\ alloc_order_lock' = [alloc_order_lock EXCEPT ![alloc_order[c]] = NoCPU]
        /\ \A d \in CPUs \ {c} : /\ pc'[d] = pc[d] /\ order'[d] = order[d]
                                 /\ alloc_order'[d] = alloc_order[d]
    BY <1>1, <1>6 DEF AllocNextOrder, Pop, UnlockOrder, TypeOK, IndInv, LockOwners
  <2>2. \A k \in Orders : InSection(c, k) => k = alloc_order[c]
    BY <2>1 DEF InSection
  <2>3. alloc_order_lock'[alloc_order[c]] # c
    BY <1>1, <2>1 DEF TypeOK
  <2>4. \A k \in Orders : \A d \in CPUs :
           alloc_order_lock'[k] = d => alloc_order_lock[k] = d
    BY <1>1, <2>1 DEF TypeOK
  <2> QED BY <2>1, <2>2, <2>3, <2>4, SectionKept
<1>7. ASSUME NEW c \in CPUs,
             \/ AddReadOrder(c) \/ AddReadFlags(c) \/ MergeLockFirst(c)
             \/ MergeLockSecond(c) \/ InsertLock(c) \/ AllocChoose(c) \/ PopLock(c)
      PROVE  SectionsHeld'
  <2>1. /\ UNCHANGED <<alloc_order_lock, order, alloc_order>>
        /\ \A d \in CPUs \ {c} : pc'[d] = pc[d]
        /\ \/ pc[c] \in HoldPCs /\ pc'[c] \in HoldPCs
           \/ pc[c] \in ListPCs /\ pc'[c] \in ListPCs
    BY <1>1, <1>7 DEF AddReadOrder, AddReadFlags, MergeLockFirst, MergeLockSecond,
       InsertLock, AllocChoose, PopLock, TypeOK
  <2>2. \A k \in Orders : InSection(c, k) => InSection(c, k)'
    BY <2>1 DEF InSection
  <2> QED BY <2>1, <2>2, SectionKept
<1>8. ASSUME NEW c \in CPUs,
             \/ BootPage(c) \/ PageFree(c) \/ PageAllocCall(c) \/ AllocFail(c)
             \/ Split(c) \/ AllocReturn(c)
      PROVE  SectionsHeld'
  <2>1. /\ UNCHANGED alloc_order_lock /\ pc[c] \notin HoldPCs \cup ListPCs
        /\ \A d \in CPUs \ {c} : /\ pc'[d] = pc[d] /\ order'[d] = order[d]
                                 /\ alloc_order'[d] = alloc_order[d]
    BY <1>1, <1>8 DEF BootPage, PageFree, PageAllocCall, AllocFail, Split, AllocReturn,
       CallAdd, TypeOK
  <2>2. \A k \in Orders : ~ InSection(c, k)
    BY <2>1 DEF InSection
  <2> QED BY <2>1, <2>2, SectionKept
<1> QED BY <1>2, <1>3, <1>4, <1>5, <1>6, <1>7, <1>8 DEF Next, Step, AddStep, AllocStep

(* A processor that another one waits for is inside a section of a list     *)
(* lock, where it takes page locks only, and these are free.                *)
THEOREM NobodyWaitsInChain == Spec => []NoWaitChain
<1>1. Init => SectionsHeld
  BY CPUAssumption DEF Init, SectionsHeld
<1>2. IndInv /\ SectionsHeld /\ [Next]_vars => SectionsHeld'
  BY SectionsStep
<1>3. IndInv /\ SectionsHeld /\ KpageLocksUncontended => NoWaitChain
  <2> SUFFICES ASSUME IndInv, SectionsHeld, KpageLocksUncontended,
                      NEW c \in CPUs, NEW d \in CPUs, NEW e \in CPUs,
                      WaitsFor(c, d), WaitsFor(d, e)
               PROVE  FALSE
    BY DEF NoWaitChain
  <2>1. ASSUME NEW x \in CPUs, NEW y \in CPUs, WaitsFor(x, y)
        PROVE  pc[x] \in {"add_lock", "alloc_lock"} /\ \E k \in Orders : InSection(y, k)
    <3>1. ~ (pc[x] = "merge_first" /\ kp_lock[First(x)] = y)
      BY CPUAssumption DEF KpageLocksUncontended
    <3>2. ~ (pc[x] = "merge_second" /\ kp_lock[Second(x)] = y)
      BY CPUAssumption DEF KpageLocksUncontended
    <3>3. ~ (pc[x] = "ins_lock" /\ kp_lock[kpage[x]] = y)
      BY CPUAssumption DEF KpageLocksUncontended
    <3>4. ~ (pc[x] = "pop_lock" /\ kp_lock[block[x]] = y)
      BY CPUAssumption DEF KpageLocksUncontended
    <3>5. order[x] \in Orders
      BY DEF IndInv, TypeOK
    <3> QED BY <2>1, <3>1, <3>2, <3>3, <3>4, <3>5 DEF WaitsFor, SectionsHeld
  <2>2. pc[d] \in {"add_lock", "alloc_lock"} /\ \E k \in Orders : InSection(d, k)
    BY <2>1
  <2> QED BY <2>2 DEF InSection
<1> QED BY <1>1, <1>2, <1>3, Invariance, LocksUncontended, PTL DEF Spec

-----------------------------------------------------------------------------
(* Progress of a call                                                       *)

(* The first place in which two tuples differ decides.                      *)
LEMMA BelowAt ==
    ASSUME NEW a, NEW b, NEW c, NEW d, NEW e, NEW f, NEW g, NEW h,
           \/ a < e
           \/ a = e /\ b < f
           \/ a = e /\ b = f /\ c < g
           \/ a = e /\ b = f /\ c = g /\ d < h
    PROVE  Below(<<a, b, c, d>>, <<e, f, g, h>>)
<1>1. CASE a < e
  BY <1>1 DEF Below
<1>2. CASE a = e /\ b < f
  BY <1>2 DEF Below
<1>3. CASE a = e /\ b = f /\ c < g
  BY <1>3 DEF Below
<1>4. CASE a = e /\ b = f /\ c = g /\ d < h
  BY <1>4 DEF Below
<1> QED BY <1>1, <1>2, <1>3, <1>4

(* What there is to do, in its four parts.                                  *)
LEMMA RemainingParts ==
    ASSUME IndInv, NEW c \in CPUs
    PROVE  /\ Searching(c) => Remaining(c) = <<2, MAX_ALLOC_ORDER + 1 - alloc_order[c],
                                                0, StepsLeft[pc[c]]>>
           /\ Carrying(c) /\ ~ Adding(c) => Remaining(c) =
                 <<1, alloc_order[c] - request[c], 0, StepsLeft[pc[c]]>>
           /\ Carrying(c) /\ Adding(c) => Remaining(c) =
                 <<1, alloc_order[c] - request[c], MAX_ALLOC_ORDER - order[c],
                   StepsLeft[pc[c]]>>
           /\ ~ Carrying(c) /\ Adding(c) => Remaining(c) =
                 <<0, 0, MAX_ALLOC_ORDER - order[c], StepsLeft[pc[c]]>>
           /\ pc[c] \in {"idle", "boot"} => Remaining(c) = <<0, 0, 0, 0>>
           /\ Remaining(c) \in Nat \X Nat \X Nat \X Nat
<1>1. Searching(c) => ~ Adding(c) /\ ~ Carrying(c)
  BY DEF Searching, Adding, Carrying
<1>2. pc[c] \in {"idle", "boot"} => ~ Searching(c) /\ ~ Adding(c) /\ ~ Carrying(c)
  BY DEF Searching, Adding, Carrying
<1>3. StepsLeft[pc[c]] \in Nat /\ StepsLeft["idle"] = 0 /\ StepsLeft["boot"] = 0
  BY DEF StepsLeft, IndInv, TypeOK, PCs
<1>4. /\ MAX_ALLOC_ORDER + 1 - alloc_order[c] \in Nat /\ MAX_ALLOC_ORDER - order[c] \in Nat
      /\ Carrying(c) => alloc_order[c] - request[c] \in Nat
  BY ConstantTypes DEF IndInv, TypeOK, LocalsConsistent, LocalsOf, Orders, AllocOrders
<1> QED BY <1>1, <1>2, <1>3, <1>4 DEF Remaining

(* The same of the state after a step.                                      *)
LEMMA RemainingAfter ==
    ASSUME IndInv', NEW c \in CPUs
    PROVE  /\ Searching(c)' => Remaining(c)' = <<2, MAX_ALLOC_ORDER + 1 - alloc_order'[c],
                                                0, StepsLeft[pc'[c]]>>
           /\ Carrying(c)' /\ ~ Adding(c)' => Remaining(c)' =
                 <<1, alloc_order'[c] - request'[c], 0, StepsLeft[pc'[c]]>>
           /\ Carrying(c)' /\ Adding(c)' => Remaining(c)' =
                 <<1, alloc_order'[c] - request'[c], MAX_ALLOC_ORDER - order'[c],
                   StepsLeft[pc'[c]]>>
           /\ ~ Carrying(c)' /\ Adding(c)' => Remaining(c)' =
                 <<0, 0, MAX_ALLOC_ORDER - order'[c], StepsLeft[pc'[c]]>>
           /\ pc'[c] \in {"idle", "boot"} => Remaining(c)' = <<0, 0, 0, 0>>
           /\ Remaining(c)' \in Nat \X Nat \X Nat \X Nat
<1>1. Searching(c)' => ~ Adding(c)' /\ ~ Carrying(c)'
  BY DEF Searching, Adding, Carrying
<1>2. pc'[c] \in {"idle", "boot"} => ~ Searching(c)' /\ ~ Adding(c)' /\ ~ Carrying(c)'
  BY DEF Searching, Adding, Carrying
<1>3. StepsLeft[pc'[c]] \in Nat /\ StepsLeft["idle"] = 0 /\ StepsLeft["boot"] = 0
  BY DEF StepsLeft, IndInv, TypeOK, PCs
<1>4. /\ MAX_ALLOC_ORDER + 1 - alloc_order'[c] \in Nat /\ MAX_ALLOC_ORDER - order'[c] \in Nat
      /\ Carrying(c)' => alloc_order'[c] - request'[c] \in Nat
  BY ConstantTypes DEF IndInv, TypeOK, LocalsConsistent, LocalsOf, Orders, AllocOrders
<1> QED BY <1>1, <1>2, <1>3, <1>4 DEF Remaining

(* A step inside page_add_to_slot: a merge goes up an order, an insertion   *)
(* ends the call, and every other step is the next of the round.            *)
LEMMA AddAdvances ==
    ASSUME IndInv, IndInv', NEW c \in CPUs, AddStep(c)
    PROVE  Below(Remaining(c)', Remaining(c))
<1>0. /\ Adding(c) /\ pc' = [pc EXCEPT ![c] = pc'[c]] /\ order[c] \in Nat
      /\ alloc_order' = alloc_order /\ request' = request
      /\ alloc_order[c] \in Nat /\ request[c] \in Nat /\ MAX_ALLOC_ORDER \in Nat
  BY ConstantTypes DEF IndInv, TypeOK, Orders, AllocOrders, Adding, AddStep, AddLock, AddReadOrder,
     AddReadFlags, MergeLockFirst, MergeLockSecond, Merge, InsertLock, Insert, Goto,
     allocVars
<1>1. CASE /\ ~ Merge(c) /\ ~ Insert(c)
  <2>1. /\ Adding(c)' /\ order' = order /\ ret' = ret
        /\ StepsLeft[pc'[c]] < StepsLeft[pc[c]]
    BY <1>1 DEF IndInv, TypeOK, AddStep, AddLock, AddReadOrder, AddReadFlags,
       MergeLockFirst, MergeLockSecond, InsertLock, Goto, addVars, StepsLeft, Adding
  <2>2. Carrying(c)' <=> Carrying(c)
    BY <1>0, <2>1 DEF Carrying, Adding
  <2>3. CASE Carrying(c)
    BY <1>0, <2>1, <2>2, <2>3, RemainingParts, RemainingAfter, BelowAt
  <2>4. CASE ~ Carrying(c)
    BY <1>0, <2>1, <2>2, <2>4, RemainingParts, RemainingAfter, BelowAt
  <2> QED BY <2>3, <2>4
<1>2. CASE Merge(c)
  <2>1. /\ Adding(c)' /\ order'[c] = order[c] + 1 /\ ret' = ret
    BY <1>2 DEF IndInv, TypeOK, Merge, Goto, Adding
  <2>2. Carrying(c)' <=> Carrying(c)
    BY <1>0, <2>1 DEF Carrying, Adding
  <2>3. MAX_ALLOC_ORDER - order'[c] < MAX_ALLOC_ORDER - order[c]
    BY <1>0, <2>1
  <2>4. CASE Carrying(c)
    BY <1>0, <2>1, <2>2, <2>3, <2>4, RemainingParts, RemainingAfter, BelowAt
  <2>5. CASE ~ Carrying(c)
    BY <1>0, <2>1, <2>2, <2>3, <2>5, RemainingParts, RemainingAfter, BelowAt
  <2> QED BY <2>4, <2>5
<1>3. CASE Insert(c)
  <2>1. /\ pc'[c] = ret[c] /\ ret[c] \in {"idle", "boot", "split"}
        /\ pc[c] = "insert" /\ StepsLeft["insert"] = 1 /\ StepsLeft["split"] = 0
    BY <1>3 DEF IndInv, TypeOK, Insert, Goto, StepsLeft
  <2>2. 0 <= MAX_ALLOC_ORDER - order[c]
    BY <1>0, ConstantTypes DEF IndInv, TypeOK, Orders
  <2>3. CASE ret[c] = "split"
    <3>1. Carrying(c) /\ Carrying(c)' /\ ~ Adding(c)'
      BY <1>0, <2>1, <2>3 DEF Carrying, Adding, AddPCs, MergePCs, InsertPCs
    <3>2. /\ Remaining(c) = <<1, alloc_order[c] - request[c], MAX_ALLOC_ORDER - order[c], 1>>
          /\ Remaining(c)' = <<1, alloc_order[c] - request[c], 0, 0>>
      BY <1>0, <2>1, <2>3, <3>1, RemainingParts, RemainingAfter
    <3>3. 0 < MAX_ALLOC_ORDER - order[c] \/ 0 = MAX_ALLOC_ORDER - order[c]
      BY <1>0, <2>2
    <3> QED BY <3>2, <3>3, BelowAt
  <2>4. CASE ret[c] # "split"
    <3>1. ~ Carrying(c)
      BY <1>0, <2>1, <2>4 DEF Carrying
    <3>2. /\ Remaining(c) = <<0, 0, MAX_ALLOC_ORDER - order[c], 1>>
          /\ Remaining(c)' = <<0, 0, 0, 0>>
      BY <1>0, <2>1, <2>4, <3>1, RemainingParts, RemainingAfter
    <3>3. 0 < MAX_ALLOC_ORDER - order[c] \/ 0 = MAX_ALLOC_ORDER - order[c]
      BY <1>0, <2>2
    <3> QED BY <3>2, <3>3, BelowAt
  <2> QED BY <2>3, <2>4
<1> QED BY <1>1, <1>2, <1>3

(* A step of page_alloc: the search goes up an order or ends, a split goes  *)
(* down one before its merges begin.                                        *)
LEMMA AllocAdvances ==
    ASSUME IndInv, IndInv', NEW c \in CPUs, AllocStep(c)
    PROVE  Below(Remaining(c)', Remaining(c))
<1>0. /\ alloc_order[c] \in Nat /\ request[c] \in Nat /\ MAX_ALLOC_ORDER \in Nat
  BY ConstantTypes DEF IndInv, TypeOK, Orders, AllocOrders
<1>1. CASE AllocLock(c) \/ AllocChoose(c) \/ PopLock(c)
  <2>1. /\ Searching(c) /\ Searching(c)' /\ alloc_order' = alloc_order
        /\ StepsLeft[pc'[c]] < StepsLeft[pc[c]]
    BY <1>1 DEF IndInv, TypeOK, AllocLock, AllocChoose, PopLock, Goto, allocVars, StepsLeft,
       Searching, AllocPCs, PopPCs
  <2> QED BY <1>0, <2>1, RemainingParts, RemainingAfter, BelowAt
<1>2. CASE AllocNextOrder(c)
  <2>1. /\ Searching(c) /\ Searching(c)' /\ alloc_order'[c] = alloc_order[c] + 1
    BY <1>2 DEF IndInv, TypeOK, AllocNextOrder, HigherOrder, Goto, Searching, AllocPCs
  <2>2. MAX_ALLOC_ORDER + 1 - alloc_order'[c] < MAX_ALLOC_ORDER + 1 - alloc_order[c]
    BY <1>0, <2>1
  <2> QED BY <2>1, <2>2, RemainingParts, RemainingAfter, BelowAt
<1>3. CASE AllocFail(c)
  <2>1. Searching(c) /\ pc'[c] = "idle"
    BY <1>3 DEF IndInv, TypeOK, AllocFail, Goto, Searching, AllocPCs
  <2> QED BY <2>1, RemainingParts, RemainingAfter, BelowAt
<1>4. CASE Pop(c)
  <2>1. Searching(c) /\ Carrying(c)' /\ ~ Adding(c)'
    BY <1>4 DEF IndInv, TypeOK, Pop, Goto, Searching, AllocPCs, PopPCs, Carrying, Adding,
       AddPCs, MergePCs, InsertPCs
  <2> QED BY <2>1, RemainingParts, RemainingAfter, BelowAt
<1>5. CASE Split(c)
  <2>1. /\ Carrying(c) /\ ~ Adding(c) /\ Carrying(c)' /\ Adding(c)'
        /\ alloc_order'[c] = alloc_order[c] - 1 /\ request' = request
    BY <1>5 DEF IndInv, TypeOK, Split, CallAdd, Goto, Carrying, Adding,
       AddPCs, MergePCs, InsertPCs
  <2>2. alloc_order'[c] - request'[c] < alloc_order[c] - request[c]
    BY <1>0, <2>1
  <2> QED BY <2>1, <2>2, RemainingParts, RemainingAfter, BelowAt
<1>6. CASE AllocReturn(c)
  <2>1. /\ Carrying(c) /\ ~ Adding(c) /\ pc'[c] = "idle"
    BY <1>6 DEF IndInv, TypeOK, AllocReturn, Goto, Carrying, Adding,
       AddPCs, MergePCs, InsertPCs
  <2> QED BY <2>1, RemainingParts, RemainingAfter, BelowAt
<1> QED BY <1>1, <1>2, <1>3, <1>4, <1>5, <1>6 DEF AllocStep

(* Each step a processor takes inside the allocator leaves its call less to *)
(* do, whatever the others did to the lists since its last step: no call    *)
(* goes round for ever among the merges and the splits.                     *)
THEOREM CallsGoOn == Spec => CallsAdvance
<1>1. ASSUME IndInv, [Next]_vars, ~ UNCHANGED vars, NEW c \in CPUs,
             AddStep(c) \/ AllocStep(c)
      PROVE  /\ Remaining(c)' \in Nat \X Nat \X Nat \X Nat
             /\ Below(Remaining(c)', Remaining(c))
  <2>1. IndInv'
    BY <1>1, NextInvariant
  <2> QED BY <1>1, <2>1, RemainingAfter, AddAdvances, AllocAdvances
<1>2. IndInv /\ [Next]_vars =>
        [\A c \in CPUs : AddStep(c) \/ AllocStep(c) =>
            /\ Remaining(c)' \in Nat \X Nat \X Nat \X Nat
            /\ Below(Remaining(c)', Remaining(c))]_vars
  BY <1>1
<1> QED BY <1>2, Invariance, PTL DEF Spec, CallsAdvance

-----------------------------------------------------------------------------
(* Buddies meet                                                             *)

(* A block about to be inserted has no buddy on the list it goes to.        *)
InsertsAlone ==
    \A c \in CPUs : pc[c] \in InsertPCs /\ order[c] < MAX_ALLOC_ORDER
                     => Other(c) \notin free_pages[order[c]]

(* While mem_init runs, the pages it has added lie below the page it adds   *)
(* and those it has yet to add: merging downwards only misses no buddy.     *)
ForBoot(c) == Adding(c) /\ ret[c] = "boot"

BootAscends ==
    /\ \A k \in Orders : \A p \in free_pages[k] : \A u \in unadded : Leq(p, u)
    /\ \A c \in CPUs : ForBoot(c) =>
         /\ Leq(kpage[c], end_kpage[c])
         /\ \A k \in Orders : \A p \in free_pages[k] : Leq(p, end_kpage[c])
         /\ \A u \in unadded : Leq(end_kpage[c], u)

(* Afterwards every page may be merged with.                                *)
EndsLast ==
    \A c \in CPUs :
        /\ Adding(c) /\ ~ ForBoot(c) => end_kpage[c] = kpage_last
        /\ pc[c] \notin {"off", "boot"} /\ ~ ForBoot(c) => unadded = {}

MeetInv == InsertsAlone /\ BootAscends /\ EndsLast /\ Coalesced

(* A free buddy is never above the end of the merge.                        *)
LEMMA FreeWithinEnd ==
    ASSUME IndInv, BootAscends, EndsLast, NEW c \in CPUs, Adding(c),
           NEW k \in Orders, NEW p \in free_pages[k]
    PROVE  Leq(p, end_kpage[c])
<1>1. CASE ForBoot(c)
  BY <1>1 DEF BootAscends
<1>2. CASE ~ ForBoot(c)
  <2>1. p \in Pages
    BY DEF IndInv, TypeOK
  <2> QED BY <1>2, <2>1 DEF EndsLast, Pages
<1> QED BY <1>1, <1>2

(* So a processor that gives up merging has seen that the buddy is not free.*)
LEMMA TestsConclusive ==
    ASSUME IndInv, BootAscends, EndsLast, NEW c \in CPUs, order[c] < MAX_ALLOC_ORDER,
           \/ AddReadOrder(c) /\ ~ MayMerge(c)
           \/ AddReadFlags(c) /\ ~ BuddyFree(c)
    PROVE  Other(c) \notin free_pages[order[c]]
<1> SUFFICES ASSUME Other(c) \in free_pages[order[c]]
             PROVE  FALSE
  OBVIOUS
<1>1. Adding(c) /\ order[c] \in Orders
  BY DEF Adding, AddReadOrder, AddReadFlags, IndInv, TypeOK
<1>2. kp_order[Other(c)] = order[c] /\ "FREE_BUDDY" \in kp_flags[Other(c)]
  BY <1>1 DEF IndInv, Listed
<1>3. Leq(Other(c), end_kpage[c])
  BY <1>1, FreeWithinEnd
<1> QED BY <1>2, <1>3 DEF MayMerge, BuddyFree

(* Steps that change no list, and of mem_init's loop at most the rest.      *)
LEMMA MeetKept ==
    ASSUME IndInv, MeetInv, free_pages' = free_pages, unadded' = unadded,
           \A d \in CPUs :
              /\ Adding(d)' => Adding(d) /\ kpage'[d] = kpage[d] /\ order'[d] = order[d]
                               /\ end_kpage'[d] = end_kpage[d] /\ ret'[d] = ret[d]
              /\ pc'[d] \in InsertPCs => \/ pc[d] \in InsertPCs
                                         \/ order[d] < MAX_ALLOC_ORDER =>
                                               Other(d) \notin free_pages[order[d]]
              /\ pc'[d] \notin {"off", "boot"} /\ ~ ForBoot(d)'
                    => (pc[d] \notin {"off", "boot"} /\ ~ ForBoot(d)) \/ unadded = {}
    PROVE  MeetInv'
<1>1. InsertsAlone'
  <2> SUFFICES ASSUME NEW d \in CPUs, pc'[d] \in InsertPCs, order'[d] < MAX_ALLOC_ORDER
               PROVE  Other(d)' \notin free_pages'[order'[d]]
    BY DEF InsertsAlone
  <2>1. kpage'[d] = kpage[d] /\ order'[d] = order[d]
    BY DEF Adding
  <2>2. Other(d)' = Other(d)
    BY <2>1 DEF Other
  <2> QED BY <2>1, <2>2 DEF MeetInv, InsertsAlone
<1>2. \A d \in CPUs : ForBoot(d)' => ForBoot(d)
  BY DEF ForBoot
<1>3. BootAscends'
  BY <1>2 DEF MeetInv, BootAscends, ForBoot
<1>4. EndsLast'
  BY DEF MeetInv, EndsLast, ForBoot
<1> QED BY <1>1, <1>3, <1>4 DEF MeetInv, Coalesced

(* Steps that take a block off the list that the processor has locked.      *)
LEMMA ListShrinks ==
    ASSUME IndInv, MeetInv, NEW c \in CPUs, NEW k \in Orders, NEW S,
           \/ pc[c] \in HoldPCs /\ order[c] = k
           \/ pc[c] \in ListPCs /\ alloc_order[c] = k,
           pc'[c] \notin InsertPCs, \A d \in CPUs : d # c => pc'[d] = pc[d],
           \A d \in CPUs : d # c => kpage'[d] = kpage[d] /\ order'[d] = order[d],
           free_pages' = [free_pages EXCEPT ![k] = @ \ S]
    PROVE  InsertsAlone' /\ Coalesced'
<1>1. \A j \in Orders : free_pages'[j] \subseteq free_pages[j]
  BY DEF IndInv, TypeOK
<1>2. InsertsAlone'
  <2> SUFFICES ASSUME NEW d \in CPUs, d # c, pc[d] \in InsertPCs,
                      order[d] < MAX_ALLOC_ORDER
               PROVE  Other(d)' \notin free_pages'[order[d]]
    BY DEF InsertsAlone
  <2>1. Other(d)' = Other(d) /\ order[d] \in Orders
    BY DEF Other, IndInv, TypeOK
  <2> QED BY <1>1, <2>1 DEF MeetInv, InsertsAlone
<1> QED BY <1>1, <1>2 DEF MeetInv, Coalesced

(* Only one processor adds for mem_init, and no other one moves meanwhile.  *)
LEMMA BootOnly ==
    ASSUME IndInv, NEW c \in CPUs, NEW d \in CPUs, ForBoot(d),
           pc[c] # "off"
    PROVE  c = d
  BY DEF IndInv, BootAlone, ForBoot

(* A merge goes on with the lower of two pages that are not above the end.  *)
LEMMA MergeMeets ==
    ASSUME IndInv, MeetInv, NEW c \in CPUs, Merge(c)
    PROVE  MeetInv'
<1>1. /\ pc[c] = "merge" /\ pc[c] \in MergePCs /\ pc[c] \in HoldPCs /\ Adding(c) /\ TypeOK
      /\ order[c] \in Orders
  BY DEF Merge, Adding, IndInv, TypeOK
<1>2. /\ kpage' = [kpage EXCEPT ![c] = First(c)]
      /\ order' = [order EXCEPT ![c] = @ + 1]
      /\ free_pages' = [free_pages EXCEPT ![order[c]] = @ \ {Other(c)}]
      /\ pc' = [pc EXCEPT ![c] = "add_lock"]
      /\ UNCHANGED <<unadded, ret, end_kpage>>
  BY DEF Merge, MergedHead
<1>3. InsertsAlone' /\ Coalesced'
  BY <1>1, <1>2, ListShrinks DEF TypeOK
<1>4. \A d \in CPUs : (Adding(d)' <=> Adding(d)) /\ (ForBoot(d)' <=> ForBoot(d))
  BY <1>1, <1>2 DEF Adding, ForBoot, TypeOK
<1>5. \A k \in Orders : free_pages'[k] \subseteq free_pages[k]
  BY <1>1, <1>2 DEF TypeOK
<1>6. BootAscends'
  <2>1. ASSUME NEW d \in CPUs, ForBoot(d)
        PROVE  Leq(kpage'[d], end_kpage[d])
    <3>1. d = c
      BY <1>1, <2>1, BootOnly
    <3>2. First(c) \in {kpage[c], Other(c)} /\ Other(c) \in free_pages[order[c]]
      BY <1>1, MergeFacts
    <3> QED BY <1>1, <1>2, <2>1, <3>1, <3>2 DEF MeetInv, BootAscends, TypeOK
  <2> QED BY <1>2, <1>4, <1>5, <2>1 DEF MeetInv, BootAscends
<1>7. EndsLast'
  BY <1>1, <1>2, <1>4 DEF MeetInv, EndsLast, TypeOK
<1> QED BY <1>3, <1>6, <1>7 DEF MeetInv

(* An insertion adds a block whose buddy is not on the list: still locked   *)
(* since the buddy was tested.                                              *)
LEMMA InsertMeets ==
    ASSUME IndInv, MeetInv, NEW c \in CPUs, Insert(c)
    PROVE  MeetInv'
<1> DEFINE k == order[c]
           p == kpage[c]
<1>1. /\ pc[c] = "insert" /\ pc[c] \in InsertPCs /\ pc[c] \in HoldPCs /\ Adding(c) /\ TypeOK
      /\ k \in Orders /\ k \in Nat /\ p \in Pages /\ p \in PfnSet
  BY ConstantTypes DEF Insert, Adding, IndInv, TypeOK
<1>2. /\ kpage' = [kpage EXCEPT ![c] = Page0]
      /\ order' = [order EXCEPT ![c] = 0]
      /\ end_kpage' = [end_kpage EXCEPT ![c] = Page0]
      /\ ret' = [ret EXCEPT ![c] = "idle"]
      /\ free_pages' = [free_pages EXCEPT ![k] = @ \cup {p}]
      /\ pc' = [pc EXCEPT ![c] = ret[c]]
      /\ unadded' = unadded
      /\ ret[c] \in {"boot", "idle", "split"}
  BY <1>1 DEF Insert, TypeOK
<1>3. /\ \A d \in CPUs : (Adding(d)' <=> Adding(d) /\ d # c)
      /\ \A d \in CPUs : (ForBoot(d)' <=> ForBoot(d) /\ d # c)
  BY <1>1, <1>2 DEF Adding, ForBoot, TypeOK
<1>4. InsertsAlone'
  <2> SUFFICES ASSUME NEW d \in CPUs, pc'[d] \in InsertPCs, order'[d] < MAX_ALLOC_ORDER
               PROVE  Other(d)' \notin free_pages'[order'[d]]
    BY DEF InsertsAlone
  <2>1. d # c /\ pc'[d] = pc[d] /\ order'[d] = order[d] /\ kpage'[d] = kpage[d]
    BY <1>1, <1>2 DEF TypeOK
  <2>2. order[d] # k
    BY <1>1, <2>1, LocksApart
  <2>3. Other(d)' = Other(d) /\ free_pages'[order[d]] = free_pages[order[d]]
    BY <1>1, <1>2, <2>1, <2>2 DEF Other, TypeOK
  <2> QED BY <2>1, <2>3 DEF MeetInv, InsertsAlone
<1>5. Coalesced'
  <2> SUFFICES ASSUME NEW j \in Orders, j < MAX_ALLOC_ORDER,
                      NEW q \in free_pages'[j], Buddy(q, j) \in free_pages'[j]
               PROVE  FALSE
    BY DEF Coalesced
  <2>1. j = k
    BY <1>1, <1>2 DEF MeetInv, Coalesced, TypeOK
  <2>2. q \in free_pages[k] \cup {p} /\ Buddy(q, k) \in free_pages[k] \cup {p}
    BY <1>1, <1>2, <2>1 DEF TypeOK
  <2>3. Buddy(p, k) \notin free_pages[k]
    BY <1>1, <2>1 DEF MeetInv, InsertsAlone, Other
  <2>4. Buddy(q, k) # q /\ Buddy(Buddy(q, k), k) = q
    BY <1>1, BuddyBasics
  <2> QED BY <2>1, <2>2, <2>3, <2>4 DEF MeetInv, Coalesced
<1>6. BootAscends'
  <2>1. ASSUME NEW d \in CPUs
        PROVE  ~ ForBoot(d)'
    BY <1>1, <1>3, BootOnly
  <2>2. ASSUME NEW u \in unadded
        PROVE  Leq(p, u)
    <3>1. ForBoot(c)
      BY <1>1, <2>2 DEF MeetInv, EndsLast
    <3>2. end_kpage[c] \in PfnSet /\ u \in PfnSet
      BY <1>1, ConstantTypes DEF TypeOK
    <3>3. Leq(p, end_kpage[c]) /\ Leq(end_kpage[c], u)
      BY <3>1 DEF MeetInv, BootAscends
    <3> QED BY <1>1, <3>2, <3>3, LeqTransitive
  <2>3. ASSUME NEW j \in Orders, NEW q \in free_pages'[j], NEW u \in unadded
        PROVE  Leq(q, u)
    <3>1. q \in free_pages[j] \/ q = p
      BY <1>1, <1>2 DEF TypeOK
    <3> QED BY <2>2, <3>1 DEF MeetInv, BootAscends
  <2> QED BY <1>2, <2>1, <2>3 DEF BootAscends
<1>7. EndsLast'
  <2> SUFFICES ASSUME NEW d \in CPUs
               PROVE  /\ Adding(d)' /\ ~ ForBoot(d)' => end_kpage'[d] = kpage_last
                      /\ pc'[d] \notin {"off", "boot"} /\ ~ ForBoot(d)' => unadded = {}
    BY <1>2 DEF EndsLast
  <2>1. CASE d = c
    BY <1>1, <1>2, <1>3, <2>1 DEF MeetInv, EndsLast, ForBoot, TypeOK
  <2>2. CASE d # c
    BY <1>1, <1>2, <1>3, <2>2 DEF MeetInv, EndsLast, TypeOK
  <2> QED BY <2>1, <2>2
<1> QED BY <1>4, <1>5, <1>6, <1>7 DEF MeetInv

LEMMA PopMeets ==
    ASSUME IndInv, MeetInv, NEW c \in CPUs, Pop(c)
    PROVE  MeetInv'
<1>1. /\ TypeOK /\ pc[c] = "pop" /\ pc[c] \in ListPCs /\ alloc_order[c] \in Orders
      /\ free_pages' = [free_pages EXCEPT ![alloc_order[c]] = @ \ {block[c]}]
      /\ pc' = [pc EXCEPT ![c] = "split"]
      /\ UNCHANGED <<unadded, kpage, order, ret, end_kpage>>
  BY PopFacts DEF Pop
<1>2. InsertsAlone' /\ Coalesced'
  BY <1>1, ListShrinks DEF TypeOK
<1>3. \A d \in CPUs : (Adding(d)' <=> Adding(d)) /\ (ForBoot(d)' <=> ForBoot(d))
  BY <1>1 DEF Adding, ForBoot, TypeOK
<1>4. \A k \in Orders : free_pages'[k] \subseteq free_pages[k]
  BY <1>1 DEF TypeOK
<1>5. BootAscends'
  BY <1>1, <1>3, <1>4 DEF MeetInv, BootAscends
<1>6. EndsLast'
  BY <1>1, <1>3 DEF MeetInv, EndsLast, TypeOK
<1> QED BY <1>2, <1>5, <1>6 DEF MeetInv

(* A call of page_add_to_slot starts below its end, and off the list.       *)
LEMMA CallMeets ==
    ASSUME IndInv, MeetInv, NEW c \in CPUs, Split(c) \/ PageFree(c) \/ BootPage(c)
    PROVE  MeetInv'
<1>1. /\ TypeOK /\ free_pages' = free_pages
      /\ pc[c] \in {"split", "idle", "boot"} /\ ~ Adding(c) /\ pc[c] # "off"
  BY DEF IndInv, Split, PageFree, BootPage, Adding
<1>2. \A d \in CPUs : ~ ForBoot(d)
  BY <1>1, BootOnly DEF ForBoot
<1>3. InsertsAlone' /\ Coalesced'
  <2>1. \A d \in CPUs : pc'[d] \in InsertPCs =>
            pc'[d] = pc[d] /\ kpage'[d] = kpage[d] /\ order'[d] = order[d]
    BY <1>1 DEF Split, PageFree, BootPage, CallAdd, TypeOK
  <2> QED BY <1>1, <2>1 DEF MeetInv, InsertsAlone, Coalesced, Other
<1>4. CASE Split(c) \/ PageFree(c)
  <2>1. unadded = {} /\ unadded' = {}
    BY <1>1, <1>2, <1>4 DEF MeetInv, EndsLast, Split, PageFree
  <2>2. \A d \in CPUs : ~ ForBoot(d)'
    BY <1>1, <1>2, <1>4 DEF Split, PageFree, CallAdd, ForBoot, Adding, TypeOK
  <2>3. BootAscends'
    BY <2>1, <2>2 DEF BootAscends
  <2>4. EndsLast'
    BY <1>1, <1>2, <1>4, <2>1, <2>2
       DEF Split, PageFree, CallAdd, MeetInv, EndsLast, Adding, TypeOK
  <2> QED BY <1>3, <2>3, <2>4 DEF MeetInv
<1>5. CASE BootPage(c)
  <2>1. PICK p \in unadded :
          /\ \A q \in unadded : Leq(p, q)
          /\ unadded' = unadded \ {p}
          /\ IF kp_flags[p] = {} THEN CallAdd(c, p, 0, p, "boot") ELSE UNCHANGED <<pc, addVars>>
    BY <1>5 DEF BootPage
  <2>2. \A d \in CPUs : d # c => pc[d] = "off"
    BY <1>1, <1>5 DEF IndInv, BootAlone, BootPage
  <2>3. CASE CallAdd(c, p, 0, p, "boot")
    <3>1. /\ \A d \in CPUs : d # c => pc'[d] = "off" /\ ~ Adding(d)' /\ ~ ForBoot(d)'
          /\ kpage'[c] = p /\ end_kpage'[c] = p /\ ForBoot(c)'
      BY <1>1, <2>2, <2>3 DEF CallAdd, Adding, ForBoot, TypeOK
    <3>2. BootAscends'
      BY <1>1, <2>1, <3>1 DEF MeetInv, BootAscends, Leq
    <3>3. EndsLast'
      BY <3>1 DEF EndsLast
    <3> QED BY <1>3, <3>2, <3>3 DEF MeetInv
  <2>4. CASE UNCHANGED <<pc, addVars>>
    <3>1. \A d \in CPUs : ~ Adding(d)' /\ ~ ForBoot(d)' /\ pc'[d] \in {"off", "boot"}
      BY <1>1, <1>5, <2>2, <2>4 DEF Adding, ForBoot, BootPage
    <3> QED BY <1>1, <1>3, <2>1, <3>1 DEF MeetInv, BootAscends, EndsLast
  <2> QED BY <2>1, <2>3, <2>4
<1> QED BY <1>4, <1>5

LEMMA MeetStep ==
    ASSUME IndInv, MeetInv, [Next]_vars
    PROVE  MeetInv'
<1>1. CASE UNCHANGED vars
  BY <1>1, MeetKept DEF vars, Adding, ForBoot
<1>2. CASE Next
  <2>1. PICK c \in CPUs : Step(c) \/ PageFree(c) \/ PageAllocCall(c)
    BY <1>2 DEF Next
  <2>2. TypeOK
    BY DEF IndInv
  <2>3. CASE Merge(c) \/ Insert(c) \/ Pop(c) \/ Split(c) \/ PageFree(c) \/ BootPage(c)
    BY <2>3, MergeMeets, InsertMeets, PopMeets, CallMeets
  <2>4. CASE AddReadOrder(c) \/ AddReadFlags(c)
    <3>1. pc'[c] \in InsertPCs /\ order[c] < MAX_ALLOC_ORDER
            => Other(c) \notin free_pages[order[c]]
      BY <2>2, <2>4, TestsConclusive DEF MeetInv, AddReadOrder, AddReadFlags, TypeOK
    <3> QED BY <2>2, <2>4, <3>1, MeetKept
            DEF AddReadOrder, AddReadFlags, Adding, ForBoot, TypeOK
  <2>5. CASE AddLock(c) \/ MergeLockFirst(c) \/ MergeLockSecond(c) \/ InsertLock(c)
    BY <2>2, <2>5, MeetKept DEF AddLock, MergeLockFirst, MergeLockSecond, InsertLock,
       Adding, ForBoot, TypeOK
  <2>6. CASE \/ AllocLock(c) \/ AllocFail(c) \/ AllocNextOrder(c) \/ AllocChoose(c)
             \/ PopLock(c) \/ AllocReturn(c) \/ PageAllocCall(c)
    BY <2>2, <2>6, MeetKept DEF AllocLock, AllocFail, AllocNextOrder, AllocChoose,
       PopLock, AllocReturn, PageAllocCall, Adding, ForBoot, TypeOK
  <2>7. CASE BootDone(c)
    BY <2>2, <2>7, MeetKept DEF BootDone, Adding, ForBoot, TypeOK
  <2> QED BY <2>1, <2>3, <2>4, <2>5, <2>6, <2>7 DEF Step, AddStep, AllocStep
<1> QED BY <1>1, <1>2

(* Two free buddies are never left apart, at boot or after, however the     *)
(* frees of the two halves of a block interleave.                           *)
THEOREM BuddiesMeet == Spec => []Coalesced
<1>1. Init => MeetInv
  BY ConstantTypes DEF Init, MeetInv, InsertsAlone, BootAscends, EndsLast, Coalesced,
     ForBoot, Adding
<1>2. IndInv /\ MeetInv /\ [Next]_vars => MeetInv'
  BY MeetStep
<1>3. MeetInv => Coalesced
  BY DEF MeetInv
<1> QED BY <1>1, <1>2, <1>3, Invariance, PTL DEF Spec

-----------------------------------------------------------------------------
(* Flags tell the truth                                                     *)

SubMarked(x) == \A p \in Extent(x) : ("FREE_SUB" \in kp_flags[p]) <=> (p # x.page)
SubFlags == \A x \in Claims : SubMarked(x)

(* A claim keeps its marks if the step leaves them alone on its pages.      *)
LEMMA MarksKept ==
    ASSUME NEW x, NEW y, SubMarked(y), x.page = y.page, x.order = y.order,
           \A p \in Extent(y) : ("FREE_SUB" \in kp_flags'[p]) <=> ("FREE_SUB" \in kp_flags[p])
    PROVE  SubMarked(x)'
  BY DEF SubMarked, Extent

(* Steps that write no flags pass blocks on whole: what is a claim after    *)
(* them was one, of the same page and order, before.                        *)
LEMMA BlocksPassed ==
    ASSUME IndInv, NEW c \in CPUs,
           \/ BootPage(c) \/ BootDone(c) \/ AddLock(c) \/ AddReadOrder(c) \/ AddReadFlags(c)
           \/ MergeLockFirst(c) \/ MergeLockSecond(c) \/ InsertLock(c)
           \/ AllocLock(c) \/ AllocFail(c) \/ AllocNextOrder(c) \/ AllocChoose(c)
           \/ PopLock(c) \/ AllocReturn(c) \/ PageFree(c) \/ PageAllocCall(c),
           NEW x \in Claims'
    PROVE  \E y \in Claims : x.page = y.page /\ x.order = y.order
<1>1. x \in ClaimType /\ IsClaim(x)' /\ TypeOK
  BY DEF Claims, ClaimType, IndInv
<1>2. ASSUME IsClaim(x)
      PROVE  \E y \in Claims : x.page = y.page /\ x.order = y.order
  BY <1>1, <1>2 DEF Claims
<1>3. CASE \/ AddLock(c) \/ AddReadOrder(c) \/ AddReadFlags(c)
           \/ MergeLockFirst(c) \/ MergeLockSecond(c) \/ InsertLock(c)
  BY <1>1, <1>2, <1>3 DEF IsClaim, Carrying, Adding, AddLock, AddReadOrder, AddReadFlags,
     MergeLockFirst, MergeLockSecond, InsertLock, TypeOK
<1>4. CASE \/ AllocLock(c) \/ AllocFail(c) \/ AllocNextOrder(c) \/ AllocChoose(c)
           \/ PopLock(c) \/ PageAllocCall(c) \/ BootDone(c)
  <2>1. \A d \in CPUs : (Carrying(d)' => Carrying(d)) /\ (Adding(d)' => Adding(d))
    BY <1>1, <1>4 DEF Carrying, Adding, AllocLock, AllocFail, AllocNextOrder, AllocChoose,
       PopLock, PageAllocCall, BootDone, TypeOK
  <2>2. \A d \in CPUs : Carrying(d)' => alloc_order'[d] = alloc_order[d] /\ block'[d] = block[d]
    BY <1>1, <1>4 DEF Carrying, Adding, AllocLock, AllocFail, AllocNextOrder, AllocChoose,
       PopLock, PageAllocCall, BootDone, TypeOK
  <2>3. UNCHANGED <<free_pages, unadded, owned, kp_order, kpage, order>>
    BY <1>4 DEF AllocLock, AllocFail, AllocNextOrder, AllocChoose, PopLock, PageAllocCall,
       BootDone
  <2> QED BY <1>1, <1>2, <2>1, <2>2, <2>3 DEF IsClaim
<1>5. CASE AllocReturn(c)
  <2>1. /\ Carrying(c) /\ kp_order[block[c]] = alloc_order[c] /\ pc[c] = "split"
        /\ alloc_order[c] \in Orders
    BY <1>5 DEF AllocReturn, Carrying, IndInv, LocalsConsistent, LocalsOf
  <2>2. Claim("carry", c, block[c], alloc_order[c]) \in Claims
    BY <2>1, ClaimsHeld
  <2>3. IsClaim(x) \/ (x.page = block[c] /\ x.order = alloc_order[c])
    BY <1>1, <1>5, <2>1 DEF AllocReturn, IsClaim, Carrying, Adding, TypeOK
  <2> QED BY <1>2, <2>2, <2>3, ClaimFields
<1>6. CASE PageFree(c)
  <2>1. PICK p \in owned[c] :
          /\ owned' = [owned EXCEPT ![c] = @ \ {p}]
          /\ CallAdd(c, p, kp_order[p], kpage_last, "idle")
    BY <1>6 DEF PageFree
  <2>2. Claim("own", c, p, kp_order[p]) \in Claims
    BY ClaimsHeld
  <2>3. IsClaim(x) \/ (x.page = p /\ x.order = kp_order[p])
    BY <1>1, <1>6, <2>1 DEF PageFree, CallAdd, IsClaim, Carrying, Adding, TypeOK
  <2> QED BY <1>2, <2>2, <2>3, ClaimFields
<1>7. CASE BootPage(c)
  <2>1. PICK p \in unadded :
          /\ unadded' = unadded \ {p}
          /\ kp_order' = [kp_order EXCEPT ![p] = 0]
          /\ IF kp_flags[p] = {} THEN CallAdd(c, p, 0, p, "boot") ELSE UNCHANGED <<pc, addVars>>
    BY <1>7 DEF BootPage
  <2>2. kp_order' = kp_order /\ (kp_flags[p] = {} => p \notin Unusable)
    BY <1>1, <2>1 DEF IndInv, UnaddedFresh, TypeOK
  <2>3. CASE CallAdd(c, p, 0, p, "boot") /\ p \notin Unusable
    <3>1. Claim("boot", NoCPU, p, 0) \in Claims
      BY <2>3, ClaimsHeld
    <3>2. IsClaim(x) \/ (x.page = p /\ x.order = 0)
      BY <1>1, <1>7, <2>1, <2>2, <2>3 DEF BootPage, CallAdd, IsClaim, Carrying, Adding, TypeOK
    <3> QED BY <1>2, <3>1, <3>2, ClaimFields
  <2>4. CASE UNCHANGED <<pc, addVars>>
    BY <1>1, <1>2, <1>7, <2>1, <2>2, <2>4 DEF BootPage, IsClaim, Carrying, Adding
  <2> QED BY <2>1, <2>2, <2>3, <2>4
<1> QED BY <1>3, <1>4, <1>5, <1>6, <1>7

(* The merged block has one head: the upper buddy is marked.                *)
LEMMA MergeMarks ==
    ASSUME IndInv, SubFlags, NEW c \in CPUs, Merge(c)
    PROVE  SubFlags'
<1> DEFINE a == Claim("add", c, kpage[c], order[c])
           f == Claim("free", NoCPU, Other(c), order[c])
           n == Claim("add", c, First(c), order[c] + 1)
<1>1. /\ a \in Claims /\ f \in Claims /\ Claims' = (Claims \ {a, f}) \cup {n}
      /\ Extent(n) = Extent(a) \cup Extent(f)
      /\ a.page = kpage[c] /\ f.page = Other(c) /\ n.page = First(c)
  BY MergeClaims, ClaimFields
<1>2. kpage[c] \in Extent(a) /\ Other(c) \in Extent(f) /\ a # f
  BY <1>1, ClaimPages, ClaimFields
<1>3. \/ First(c) = kpage[c] /\ Second(c) = Other(c)
      \/ First(c) = Other(c) /\ Second(c) = kpage[c]
  BY MergeFacts DEF Merge
<1>4. kpage[c] # Other(c) /\ kpage[c] \in Pages /\ Other(c) \in Pages
  BY MergeFacts DEF Merge
<1>5. /\ \A p \in Pages \ {Second(c)} :
              ("FREE_SUB" \in kp_flags'[p]) <=> ("FREE_SUB" \in kp_flags[p])
      /\ "FREE_SUB" \in kp_flags'[Second(c)]
  BY <1>3, <1>4 DEF Merge, UpperFlags, IndInv, TypeOK
<1>6. ASSUME NEW x \in Claims \ {a, f}
      PROVE  SubMarked(x)'
  <2>1. Second(c) \notin Extent(x)
    BY <1>1, <1>2, <1>3, <1>6, SameClaim
  <2>2. \A p \in Extent(x) : p \in Pages
    BY ClaimPages
  <2> QED BY <1>5, <2>1, <2>2, MarksKept DEF SubFlags
<1>7. ASSUME NEW x, x = n
      PROVE  SubMarked(x)'
  <2>1. ASSUME NEW p \in Extent(x)
        PROVE  ("FREE_SUB" \in kp_flags'[p]) <=> (p # First(c))
    <3>1. p \in Pages
      BY <1>1, <1>7, ClaimPages
    <3>2. p \notin {kpage[c], Other(c)} => "FREE_SUB" \in kp_flags[p]
      BY <1>1, <1>7 DEF SubFlags, SubMarked
    <3>3. "FREE_SUB" \notin kp_flags[First(c)]
      BY <1>1, <1>2, <1>3 DEF SubFlags, SubMarked
    <3> QED BY <1>3, <1>4, <1>5, <3>1, <3>2, <3>3
  <2> QED BY <1>1, <1>7, <2>1 DEF SubMarked, Extent
<1> QED BY <1>1, <1>6, <1>7 DEF SubFlags

(* A block that goes on a list or leaves it keeps its head.                 *)
LEMMA ListMarks ==
    ASSUME IndInv, SubFlags, NEW c \in CPUs, Insert(c) \/ Pop(c)
    PROVE  SubFlags'
<1>1. CASE Insert(c)
  <2> DEFINE a == Claim("add", c, kpage[c], order[c])
             n == Claim("free", NoCPU, kpage[c], order[c])
  <2>1. /\ a \in Claims /\ Claims' = (Claims \ {a}) \cup {n}
        /\ a.page = kpage[c] /\ n.page = a.page /\ n.order = a.order
    BY <1>1, InsertClaims, ClaimFields
  <2>2. "FREE_SUB" \notin kp_flags[kpage[c]]
    BY <2>1, ClaimPages DEF SubFlags, SubMarked
  <2>3. \A p \in Pages : ("FREE_SUB" \in kp_flags'[p]) <=> ("FREE_SUB" \in kp_flags[p])
    BY <1>1, <2>2 DEF Insert, IndInv, TypeOK
  <2>4. ASSUME NEW x \in Claims
        PROVE  \A p \in Extent(x) :
                  ("FREE_SUB" \in kp_flags'[p]) <=> ("FREE_SUB" \in kp_flags[p])
    BY <2>3, ClaimPages
  <2> QED BY <2>1, <2>4, MarksKept DEF SubFlags
<1>2. CASE Pop(c)
  <2> DEFINE f == Claim("free", NoCPU, block[c], alloc_order[c])
             n == Claim("carry", c, block[c], alloc_order[c])
  <2>1. /\ f \in Claims /\ Claims' = (Claims \ {f}) \cup {n}
        /\ n.page = f.page /\ n.order = f.order
    BY <1>2, PopClaims, ClaimFields
  <2>2. \A p \in Pages : ("FREE_SUB" \in kp_flags'[p]) <=> ("FREE_SUB" \in kp_flags[p])
    BY <1>2 DEF Pop, IndInv, TypeOK
  <2>3. ASSUME NEW x \in Claims
        PROVE  \A p \in Extent(x) :
                  ("FREE_SUB" \in kp_flags'[p]) <=> ("FREE_SUB" \in kp_flags[p])
    BY <2>2, ClaimPages
  <2> QED BY <2>1, <2>3, MarksKept DEF SubFlags
<1> QED BY <1>1, <1>2

(* A split makes the upper half a block with a head of its own.             *)
LEMMA SplitMarks ==
    ASSUME IndInv, SubFlags, NEW c \in CPUs, Split(c)
    PROVE  SubFlags'
<1> DEFINE j == alloc_order[c] - 1
           u == UpperHalf(c)
           h == Claim("carry", c, block[c], alloc_order[c])
           m == Claim("carry", c, block[c], j)
           n == Claim("add", c, u, j)
<1>1. /\ h \in Claims /\ Claims' = (Claims \ {h}) \cup {m, n}
      /\ h.page = block[c] /\ m.page = block[c] /\ m.order = j /\ n.page = u /\ n.order = j
      /\ Extent(m) = Block(block[c], j) /\ Extent(n) = Block(u, j)
  BY SplitFacts, SplitClaims, ClaimFields
<1>2. /\ Extent(h) = Extent(m) \cup Extent(n) /\ Extent(m) \cap Extent(n) = {}
      /\ u # block[c] /\ u \in Pages /\ j \in Nat
  BY <1>1, SplitFacts
<1>3. block[c] \in Extent(m) /\ u \in Extent(n)
  BY <1>1, <1>2, BlockHead
<1>4. /\ \A p \in Pages \ {u} : kp_flags'[p] = kp_flags[p]
      /\ "FREE_SUB" \notin kp_flags'[u]
  BY <1>2 DEF Split, IndInv, TypeOK
<1>5. ASSUME NEW x \in Claims \ {h}
      PROVE  SubMarked(x)'
  <2>1. u \notin Extent(x)
    BY <1>1, <1>2, <1>3, SameClaim
  <2> QED BY <1>4, <2>1, ClaimPages, MarksKept DEF SubFlags
<1>6. ASSUME NEW p \in Extent(h)
      PROVE  /\ p \in Pages
             /\ ("FREE_SUB" \in kp_flags'[p]) <=> (p # block[c] /\ p # u)
  BY <1>1, <1>2, <1>4, ClaimPages DEF SubFlags, SubMarked
<1>7. ASSUME NEW x, x \in {m, n}
      PROVE  SubMarked(x)'
  <2>1. ASSUME NEW p \in Extent(x)
        PROVE  ("FREE_SUB" \in kp_flags'[p]) <=> (p # x.page)
    BY <1>1, <1>2, <1>3, <1>6, <1>7
  <2> QED BY <2>1 DEF SubMarked, Extent
<1> QED BY <1>1, <1>5, <1>7 DEF SubFlags

LEMMA SubFlagsStep ==
    ASSUME IndInv, SubFlags, [Next]_vars
    PROVE  SubFlags'
<1>1. ASSUME kp_flags' = kp_flags,
             \A x \in Claims' : \E y \in Claims : x.page = y.page /\ x.order = y.order
      PROVE  SubFlags'
  BY <1>1, MarksKept DEF SubFlags
<1>2. CASE UNCHANGED vars
  <2>1. \A x \in ClaimType : IsClaim(x)' <=> IsClaim(x)
    BY <1>2 DEF vars, IsClaim, Adding, Carrying
  <2>2. Claims' = Claims /\ kp_flags' = kp_flags
    BY <1>2, <2>1 DEF Claims, vars
  <2> QED BY <1>1, <2>2
<1>3. CASE Next
  <2>1. PICK c \in CPUs : Step(c) \/ PageFree(c) \/ PageAllocCall(c)
    BY <1>3 DEF Next
  <2>2. CASE Merge(c) \/ Insert(c) \/ Pop(c) \/ Split(c)
    BY <2>2, MergeMarks, ListMarks, SplitMarks
  <2>3. CASE \/ BootPage(c) \/ BootDone(c) \/ AddLock(c) \/ AddReadOrder(c) \/ AddReadFlags(c)
             \/ MergeLockFirst(c) \/ MergeLockSecond(c) \/ InsertLock(c)
             \/ AllocLock(c) \/ AllocFail(c) \/ AllocNextOrder(c) \/ AllocChoose(c)
             \/ PopLock(c) \/ AllocReturn(c) \/ PageFree(c) \/ PageAllocCall(c)
    <3>1. kp_flags' = kp_flags
      BY <2>3 DEF BootPage, BootDone, AddLock, AddReadOrder, AddReadFlags, MergeLockFirst,
         MergeLockSecond, InsertLock, AllocLock, AllocFail, AllocNextOrder, AllocChoose,
         PopLock, AllocReturn, PageFree, PageAllocCall
    <3>2. \A x \in Claims' : \E y \in Claims : x.page = y.page /\ x.order = y.order
      BY <2>3, BlocksPassed
    <3> QED BY <1>1, <3>1, <3>2
  <2> QED BY <2>1, <2>2, <2>3 DEF Step, AddStep, AllocStep
<1> QED BY <1>2, <1>3

LEMMA SubFlagsInit ==
    ASSUME Init
    PROVE  SubFlags
<1> SUFFICES ASSUME NEW x \in Claims
             PROVE  SubMarked(x)
  BY DEF SubFlags
<1>1. x.page \in Usable /\ x.order = 0
  BY DEF Claims, ClaimType, IsClaim, Init, Usable, Adding, Carrying
<1>2. Extent(x) = {x.page}
  BY <1>1, BlockHead DEF Extent
<1> QED BY <1>1, <1>2 DEF SubMarked, Init, Usable

(* The flags, which are read without the page's lock, tell the truth.       *)
THEOREM FlagsTrue == Spec => []FlagsTruthful
<1>1. Init => SubFlags
  BY SubFlagsInit
<1>2. IndInv /\ SubFlags /\ [Next]_vars => SubFlags'
  BY SubFlagsStep
<1>3. IndInv /\ SubFlags => FlagsTruthful
  BY DEF IndInv, Listed, TypeOK, SubFlags, SubMarked, FlagsTruthful
<1> QED BY <1>1, <1>2, <1>3, Invariance, PTL DEF Spec

-----------------------------------------------------------------------------
(* page_alloc fails only when it must                                       *)

(* A block that meets a larger one is inside it, and so is its buddy.       *)
LEMMA BlockInside ==
    ASSUME NEW p, NEW r \in Nat, NEW h, NEW m \in Nat, m < r,
           Aligned(p, r), Aligned(h, m), NEW q \in Block(p, r), q \in Block(h, m)
    PROVE  h \in Block(p, r) /\ Buddy(h, m) \in Block(p, r)
<1>1. PICK low \in SUBSET (0 .. r - 1) : q = p \cup low
  BY DEF Block
<1>2. PICK rest \in SUBSET (0 .. m - 1) : q = h \cup rest
  BY DEF Block
<1>3. m \in 0 .. r - 1 /\ 0 .. m - 1 \subseteq 0 .. r - 1
  OBVIOUS
<1>4. h = p \cup (low \ rest) /\ m \notin p
  BY <1>1, <1>2, <1>3 DEF Aligned
<1>5. Buddy(h, m) = p \cup Buddy(low \ rest, m)
  BY <1>4 DEF Buddy
<1>6. low \ rest \in SUBSET (0 .. r - 1) /\ Buddy(low \ rest, m) \in SUBSET (0 .. r - 1)
  BY <1>3 DEF Buddy
<1> QED BY <1>4, <1>5, <1>6 DEF Block

(* Where free buddies have met, an aligned run of free pages lies in a      *)
(* block at least as large: the smallest of the blocks in it would have a   *)
(* buddy that is free as well.                                              *)
LEMMA RunInBlock ==
    ASSUME IndInv, Coalesced, NEW r \in Nat, FreeRun(r)
    PROVE  \E k \in Orders : r <= k /\ free_pages[k] # {}
<1> SUFFICES ASSUME \A k \in Orders : r <= k => free_pages[k] = {}
             PROVE  FALSE
  OBVIOUS
<1>1. PICK p \in Pages : /\ r <= MAX_ALLOC_ORDER /\ Aligned(p, r)
                         /\ Block(p, r) \subseteq FreeExtent
  BY DEF FreeRun
<1> DEFINE Inside(x) == x.as = "free" /\ \E q \in Block(p, r) : q \in Extent(x)
           Smaller == {x \in Claims : Inside(x)}
           T == {x.order : x \in Smaller}
<1>2. ASSUME NEW q \in Block(p, r)
      PROVE  \E x \in Smaller : q \in Extent(x)
  BY <1>1, <1>2 DEF FreeExtent
<1>3. ASSUME NEW x \in Smaller
      PROVE  /\ x \in Claims /\ x.order \in Orders /\ x.order \in Nat
             /\ x.page \in free_pages[x.order] /\ x.order < r
             /\ Extent(x) = Block(x.page, x.order) /\ Aligned(x.page, x.order)
  <2>1. x \in Claims /\ x.as = "free"
    OBVIOUS
  <2>2. x.order \in Orders /\ x.order \in Nat /\ Aligned(x.page, x.order) /\ IsClaim(x)
    BY <2>1, ClaimPages
  <2>3. x.page \in free_pages[x.order]
    BY <2>1, <2>2 DEF IsClaim
  <2> QED BY <2>1, <2>2, <2>3 DEF Extent
<1>4. PICK m \in T : \A n \in T : m <= n
  <2>1. T \in SUBSET Nat
    BY <1>3
  <2>2. p \in Block(p, r)
    BY BlockHead
  <2>3. T # {}
    BY <1>2, <2>2
  <2> HIDE DEF T
  <2> QED BY <2>1, <2>3, LeastNumber
<1>5. PICK x \in Smaller : m = x.order
  BY <1>4
<1>6. PICK q \in Block(p, r) : q \in Extent(x)
  BY <1>5
<1>7. m \in Nat /\ m < r /\ Aligned(x.page, m) /\ x.page \in free_pages[m] /\ m \in Orders
  BY <1>3, <1>5
<1>8. Buddy(x.page, m) \in Block(p, r)
  BY <1>1, <1>3, <1>5, <1>6, <1>7, BlockInside
<1>9. PICK y \in Smaller : Buddy(x.page, m) \in Extent(y)
  BY <1>2, <1>8
<1>10. m <= y.order
  BY <1>4, <1>9
<1>11. \/ y.order <= m /\ y.page = Buddy(x.page, m)
       \/ y.order > m /\ x.page \in Block(y.page, y.order)
  BY <1>3, <1>7, <1>9, BuddyInBlock
<1>12. CASE y.order <= m /\ y.page = Buddy(x.page, m)
  <2>1. y.order = m
    BY <1>3, <1>7, <1>10, <1>12
  <2>2. Buddy(x.page, m) \in free_pages[m]
    BY <1>3, <1>12, <2>1
  <2>3. m < MAX_ALLOC_ORDER
    BY <1>1, <1>7, ConstantTypes
  <2> QED BY <1>7, <2>2, <2>3 DEF Coalesced
<1>13. CASE y.order > m /\ x.page \in Block(y.page, y.order)
  <2>1. x.page \in Extent(y) /\ x.page \in Extent(x)
    BY <1>3, <1>13, ClaimPages
  <2>2. x = y
    BY <1>3, <2>1, SameClaim
  <2> QED BY <1>5, <1>7, <1>13, <2>2
<1> QED BY <1>11, <1>12, <1>13

(* The lists that page_alloc has found empty.                               *)
Searched(c) ==
    pc[c] \in AllocPCs =>
        \A k \in Orders : request[c] <= k /\ k < alloc_order[c] => free_pages[k] = {}
AllIdle == \A d \in CPUs : pc[d] = "idle"
OthersIdle(c) == \A d \in CPUs \ {c} : pc[d] = "idle"

(* They stay empty while no other processor enters the allocator.           *)
LEMMA SearchStep ==
    ASSUME IndInv, NEW c \in CPUs, Searched(c), OthersIdle(c), [Next]_vars, OthersIdle(c)'
    PROVE  Searched(c)'
<1>1. TypeOK
  BY DEF IndInv
<1>2. CASE UNCHANGED vars
  BY <1>2 DEF vars, Searched
<1>3. ASSUME NEW d \in CPUs \ {c}, Step(d) \/ PageFree(d) \/ PageAllocCall(d)
      PROVE  FALSE
  <2>1. pc[d] = "idle" /\ pc'[d] = "idle"
    BY DEF OthersIdle
  <2>2. CASE Step(d)
    BY <2>1, <2>2 DEF Step, BootPage, BootDone, AddStep, AddLock, AddReadOrder, AddReadFlags,
       MergeLockFirst, MergeLockSecond, Merge, InsertLock, Insert, AllocStep, AllocLock,
       AllocFail, AllocNextOrder, AllocChoose, PopLock, Pop, Split, AllocReturn
  <2>3. CASE PageFree(d) \/ PageAllocCall(d)
    BY <1>1, <2>1, <2>3 DEF PageFree, CallAdd, PageAllocCall, TypeOK
  <2> QED BY <1>3, <2>2, <2>3
<1>4. CASE PageAllocCall(c)
  BY <1>1, <1>4, ConstantTypes DEF PageAllocCall, Searched, TypeOK
<1>5. CASE AllocLock(c) \/ AllocChoose(c) \/ PopLock(c)
  BY <1>1, <1>5 DEF AllocLock, AllocChoose, PopLock, Searched, TypeOK
<1>6. CASE AllocNextOrder(c)
  <2>1. /\ pc[c] \in AllocPCs /\ free_pages[alloc_order[c]] = {} /\ alloc_order[c] \in Nat
        /\ alloc_order'[c] = alloc_order[c] + 1 /\ UNCHANGED <<free_pages, request>>
    BY <1>1, <1>6, ConstantTypes DEF AllocNextOrder, HigherOrder, TypeOK
  <2>2. \A k \in Orders : k < alloc_order[c] + 1 => k < alloc_order[c] \/ k = alloc_order[c]
    BY <2>1, ConstantTypes
  <2> QED BY <2>1, <2>2 DEF Searched
<1>7. CASE \/ BootPage(c) \/ BootDone(c) \/ AddStep(c) \/ PageFree(c)
           \/ AllocFail(c) \/ Pop(c) \/ Split(c) \/ AllocReturn(c)
  <2>1. pc'[c] \notin AllocPCs
    BY <1>1, <1>7 DEF BootPage, BootDone, AddStep, AddLock, AddReadOrder, AddReadFlags,
       MergeLockFirst, MergeLockSecond, Merge, InsertLock, Insert, PageFree, CallAdd,
       AllocFail, Pop, Split, AllocReturn, TypeOK
  <2> QED BY <2>1 DEF Searched
<1> QED BY <1>2, <1>3, <1>4, <1>5, <1>6, <1>7 DEF Next, Step, AllocStep

(* With no other processor in the allocator, page_alloc fails only when no  *)
(* aligned run of free pages of the order asked for exists.                 *)
THEOREM FailsExhausted == Spec => FailOnlyWhenExhausted
<1>1. ASSUME NEW c \in CPUs
      PROVE  Spec => [](AllIdle /\ []OthersIdle(c)
                           => [](Failing(c) => ~ FreeRun(request[c])))
  <2>1. AllIdle => Searched(c)
    BY DEF AllIdle, Searched
  <2>2. IndInv /\ Searched(c) /\ OthersIdle(c) /\ [Next]_vars /\ OthersIdle(c)' => Searched(c)'
    BY SearchStep
  <2>3. IndInv /\ Coalesced /\ Searched(c) => (Failing(c) => ~ FreeRun(request[c]))
    <3> SUFFICES ASSUME IndInv, Coalesced, Searched(c), Failing(c), FreeRun(request[c])
                 PROVE  FALSE
      OBVIOUS
    <3>1. request[c] \in Nat /\ alloc_order[c] \in Nat
      BY ConstantTypes DEF IndInv, TypeOK
    <3>2. PICK k \in Orders : request[c] <= k /\ free_pages[k] # {}
      BY <3>1, RunInBlock
    <3>3. k < alloc_order[c]
      BY <3>1, ConstantTypes DEF Failing
    <3> QED BY <3>2, <3>3 DEF Failing, Searched
  <2> QED BY <2>1, <2>2, <2>3, Invariance, BuddiesMeet, PTL DEF Spec
<1> QED BY <1>1 DEF FailOnlyWhenExhausted, AllIdle, OthersIdle

-----------------------------------------------------------------------------
(* Who writes what                                                          *)

(* A page is only written in a block that the writer carries or adds, or in *)
(* a free block whose list it has locked.                                   *)
Written(p) == kp_order'[p] # kp_order[p] \/ kp_flags'[p] # kp_flags[p]
WritableBy(c, x) == x.as = "free" \/ (x.as \in {"add", "carry"} /\ x.by = c)

LEMMA StepWrites ==
    ASSUME IndInv, NEW c \in CPUs, Step(c) \/ PageFree(c) \/ PageAllocCall(c),
           NEW p \in Pages, Written(p)
    PROVE  \E x \in Claims : p \in Extent(x) /\ WritableBy(c, x)
<1>1. TypeOK
  BY DEF IndInv
<1>2. ASSUME NEW x \in Claims, p = x.page, WritableBy(c, x)
      PROVE  \E y \in Claims : p \in Extent(y) /\ WritableBy(c, y)
  BY <1>2, ClaimPages
<1>3. CASE Merge(c)
  <2>1. pc[c] \in MergePCs /\ Adding(c)
    BY <1>3 DEF Merge, Adding
  <2>2. p \in {kpage[c], Other(c)}
    BY <1>1, <1>3 DEF Merge, Written, First, Second, TypeOK
  <2>3. /\ Claim("add", c, kpage[c], order[c]) \in Claims
        /\ Claim("free", NoCPU, Other(c), order[c]) \in Claims
    BY <2>1, ClaimsHeld, MergeFacts
  <2> QED BY <1>2, <2>2, <2>3, ClaimFields DEF WritableBy
<1>4. CASE Insert(c)
  <2>1. Adding(c)
    BY <1>4 DEF Insert, Adding
  <2>2. p = kpage[c]
    BY <1>1, <1>4 DEF Insert, Written, TypeOK
  <2>3. Claim("add", c, kpage[c], order[c]) \in Claims
    BY <2>1, ClaimsHeld
  <2> QED BY <1>2, <2>2, <2>3, ClaimFields DEF WritableBy
<1>5. CASE Pop(c)
  <2>1. p = block[c]
    BY <1>1, <1>5 DEF Pop, Written, TypeOK
  <2>2. Claim("free", NoCPU, block[c], alloc_order[c]) \in Claims
    BY <1>5, PopFacts, ClaimsHeld
  <2> QED BY <1>2, <2>1, <2>2, ClaimFields DEF WritableBy
<1>6. CASE Split(c)
  <2>1. p = UpperHalf(c)
    BY <1>1, <1>6 DEF Split, Written, TypeOK
  <2> QED BY <1>6, <2>1, SplitFacts DEF WritableBy
<1>7. CASE BootPage(c)
  <2>1. PICK q \in unadded : kp_order' = [kp_order EXCEPT ![q] = 0]
    BY <1>7 DEF BootPage
  <2>2. kp_order[q] = 0
    BY DEF IndInv, UnaddedFresh
  <2> QED BY <1>1, <1>7, <2>1, <2>2 DEF BootPage, Written, TypeOK
<1>8. CASE \/ BootDone(c) \/ AddLock(c) \/ AddReadOrder(c) \/ AddReadFlags(c)
           \/ MergeLockFirst(c) \/ MergeLockSecond(c) \/ InsertLock(c)
           \/ AllocLock(c) \/ AllocFail(c) \/ AllocNextOrder(c) \/ AllocChoose(c)
           \/ PopLock(c) \/ AllocReturn(c) \/ PageFree(c) \/ PageAllocCall(c)
  BY <1>8 DEF Written, BootDone, AddLock, AddReadOrder, AddReadFlags, MergeLockFirst,
     MergeLockSecond, InsertLock, AllocLock, AllocFail, AllocNextOrder, AllocChoose,
     PopLock, AllocReturn, PageFree, PageAllocCall
<1> QED BY <1>3, <1>4, <1>5, <1>6, <1>7, <1>8 DEF Step, AddStep, AllocStep

(* So no page changes in a block that is owned, or carried by another one.  *)
LEMMA ClaimUnwritten ==
    ASSUME IndInv, NEW c \in CPUs, Step(c) \/ PageFree(c) \/ PageAllocCall(c),
           NEW x \in Claims, x.as = "own" \/ (x.as = "carry" /\ x.by # c),
           NEW p \in Extent(x)
    PROVE  kp_order'[p] = kp_order[p] /\ kp_flags'[p] = kp_flags[p]
<1> SUFFICES ASSUME Written(p)
             PROVE  FALSE
  BY DEF Written
<1>1. p \in Pages
  BY ClaimPages
<1>2. PICK y \in Claims : p \in Extent(y) /\ WritableBy(c, y)
  BY <1>1, StepWrites
<1>3. x = y
  BY <1>2, SameClaim
<1> QED BY <1>2, <1>3 DEF WritableBy

(* No processor changes the struct kpage of a page in a block that another  *)
(* one owns or splits, although split writes without a lock.                *)
THEOREM PrivateKept == Spec => PrivateUntouched
<1>1. ASSUME IndInv, [Next]_vars, ~ UNCHANGED vars, NEW x \in Claims, NEW c \in CPUs,
             x.as \in {"own", "carry"}, x.by # c, Step(c) \/ PageFree(c),
             NEW p \in Extent(x)
      PROVE  kp_order'[p] = kp_order[p] /\ kp_flags'[p] = kp_flags[p]
  BY <1>1, ClaimUnwritten
<1>2. IndInv /\ [Next]_vars =>
        [\A x \in Claims : \A c \in CPUs :
            (x.as \in {"own", "carry"} /\ x.by # c /\ (Step(c) \/ PageFree(c)))
            => \A p \in Extent(x) : /\ kp_order'[p] = kp_order[p]
                                    /\ kp_flags'[p] = kp_flags[p]]_vars
  BY <1>1
<1> QED BY <1>2, Invariance, PTL DEF Spec, PrivateUntouched

-----------------------------------------------------------------------------
(* The refinement                                                           *)

Carried(c) == IF Carrying(c) THEN {<<block[c], request[c]>>} ELSE {}
Owned(c) == {<<p, kp_order[p]>> : p \in owned[c]}

LEMMA AllocatedParts == Allocated = [c \in CPUs |-> Owned(c) \cup Carried(c)]
  BY DEF Allocated, Owned, Carried

(* Blocks of a lower order lie in the block of a higher one.                *)
LEMMA SmallerBlock ==
    ASSUME NEW p, NEW j \in Nat, NEW k \in Nat, j <= k
    PROVE  /\ Block(p, j) \subseteq Block(p, k)
           /\ Aligned(p, k) => Aligned(p, j)
<1>1. 0 .. j - 1 \subseteq 0 .. k - 1
  OBVIOUS
<1> QED BY <1>1 DEF Block, Aligned

(* What the callers have, as PageAllocator sees it, are claims.             *)
LEMMA AllocatedClaims ==
    ASSUME IndInv, NEW c \in CPUs, NEW b \in Allocated[c]
    PROVE  \E x \in Claims : x.as \in {"own", "carry"} /\ Block(b[1], b[2]) \subseteq Extent(x)
<1>1. CASE b \in Owned(c)
  <2>1. PICK p \in owned[c] : b = <<p, kp_order[p]>>
    BY <1>1 DEF Owned
  <2>2. Claim("own", c, p, kp_order[p]) \in Claims
    BY ClaimsHeld
  <2> QED BY <2>1, <2>2, ClaimFields
<1>2. CASE b \in Carried(c)
  <2>1. Carrying(c) /\ b = <<block[c], request[c]>>
    BY <1>2 DEF Carried
  <2>2. Claim("carry", c, block[c], alloc_order[c]) \in Claims
    BY <2>1, ClaimsHeld
  <2>3. request[c] \in Nat /\ alloc_order[c] \in Nat /\ request[c] <= alloc_order[c]
    BY <2>1, ConstantTypes DEF IndInv, TypeOK, LocalsConsistent, LocalsOf
  <2>4. Block(block[c], request[c]) \subseteq Block(block[c], alloc_order[c])
    BY <2>3, SmallerBlock
  <2> QED BY <2>1, <2>2, <2>4, ClaimFields
<1> QED BY <1>1, <1>2, AllocatedParts

(* The pairs of page and order that are owned do not change their order.    *)
LEMMA OwnedOrders ==
    ASSUME IndInv, NEW c \in CPUs, Step(c) \/ PageFree(c) \/ PageAllocCall(c),
           NEW d \in CPUs, NEW p \in owned[d]
    PROVE  kp_order'[p] = kp_order[p]
<1>1. Claim("own", d, p, kp_order[p]) \in Claims
  BY ClaimsHeld
<1> QED BY <1>1, ClaimFields, ClaimPages, ClaimUnwritten

(* A step that moves no block between the allocator and a caller stutters.  *)
LEMMA Stutters ==
    ASSUME IndInv, NEW c \in CPUs, Step(c) \/ PageFree(c) \/ PageAllocCall(c),
           owned' = owned,
           \A d \in CPUs : Carried(d)' = Carried(d)
    PROVE  Allocated' = Allocated
<1>1. ASSUME NEW d \in CPUs
      PROVE  Owned(d)' = Owned(d)
  BY OwnedOrders DEF Owned
<1> QED BY <1>1, AllocatedParts DEF Allocated, Owned, Carried

(* What is taken in PageAllocator's sense is in a block that a caller has.  *)
LEMMA TakenBlocks ==
    ASSUME NEW q \in Promise!Taken
    PROVE  \E d \in CPUs : \E b \in Allocated[d] : q \in Block(b[1], b[2])
<1>1. \A p, k : Promise!Block(p, k) = Block(p, k)
  BY DEF Promise!Block, Block
<1>2. PICK d \in CPUs : \E B \in Promise!BlocksOf(d) : q \in B
  BY DEF Promise!Taken
<1>3. PICK b \in Allocated[d] : q \in Promise!Block(b[1], b[2])
  BY <1>2 DEF Promise!BlocksOf
<1> QED BY <1>1, <1>2, <1>3

LEMMA PopAllocates ==
    ASSUME IndInv, NEW c \in CPUs, Pop(c)
    PROVE  Promise!Allocate(c)
<1> DEFINE k == request[c]
           p == block[c]
           f == Claim("free", NoCPU, p, alloc_order[c])
<1>1. /\ TypeOK /\ pc[c] = "pop" /\ ~ Carrying(c) /\ ~ Adding(c)
      /\ p \in Pages /\ p \in free_pages[alloc_order[c]]
      /\ alloc_order[c] \in Orders /\ alloc_order[c] \in Nat
      /\ k \in Orders /\ k \in Nat /\ k <= alloc_order[c]
  BY PopFacts, ConstantTypes
<1>2. f \in Claims /\ f.as = "free" /\ Extent(f) = Block(p, alloc_order[c])
  BY <1>1, ClaimsHeld, ClaimFields
<1>3. Aligned(p, alloc_order[c]) /\ Extent(f) \subseteq Usable /\ p \in Usable
  BY <1>2, ClaimPages, ClaimFields
<1>4. Aligned(p, k) /\ Block(p, k) \subseteq Extent(f)
  BY <1>1, <1>2, <1>3, SmallerBlock
<1>5. Block(p, k) \cap Promise!Taken = {}
  <2> SUFFICES ASSUME NEW q \in Block(p, k), q \in Promise!Taken
               PROVE  FALSE
    OBVIOUS
  <2>1. PICK d \in CPUs : \E b \in Allocated[d] : q \in Block(b[1], b[2])
    BY TakenBlocks
  <2>2. PICK x \in Claims : x.as \in {"own", "carry"} /\ q \in Extent(x)
    BY <2>1, AllocatedClaims
  <2> QED BY <1>2, <1>4, <2>2, SameClaim
<1>6. Allocated' = [Allocated EXCEPT ![c] = @ \cup {<<p, k>>}]
  <2>1. \A d \in CPUs : Owned(d)' = Owned(d)
    BY OwnedOrders DEF Owned, Pop, Step, AllocStep
  <2>2. \A d \in CPUs : d # c => Carried(d)' = Carried(d)
    BY <1>1 DEF Carried, Carrying, Adding, Pop, TypeOK
  <2>3. Carried(c) = {} /\ Carried(c)' = {<<p, k>>}
    BY <1>1 DEF Carried, Carrying, Adding, Pop, TypeOK
  <2> QED BY <2>1, <2>2, <2>3, AllocatedParts DEF Allocated, Owned, Carried
<1> QED BY <1>1, <1>3, <1>4, <1>5, <1>6
    DEF Promise!Allocate, Promise!AllocateBlock, Promise!Aligned, Promise!Block,
        Aligned, Block, Orders

LEMMA FreeFrees ==
    ASSUME IndInv, NEW c \in CPUs, PageFree(c)
    PROVE  Promise!Free(c)
<1>1. PICK p \in owned[c] :
        /\ owned' = [owned EXCEPT ![c] = @ \ {p}]
        /\ CallAdd(c, p, kp_order[p], kpage_last, "idle")
  BY DEF PageFree
<1>2. TypeOK /\ pc[c] = "idle"
  BY DEF IndInv, PageFree
<1>3. \A d \in CPUs : Carried(d)' = Carried(d)
  BY <1>1, <1>2 DEF Carried, Carrying, Adding, PageFree, CallAdd, TypeOK
<1>4. kp_order' = kp_order
  BY DEF PageFree
<1>5. Carried(c) = {}
  BY <1>2 DEF Carried, Carrying, Adding
<1>6. <<p, kp_order[p]>> \in Allocated[c]
  BY AllocatedParts DEF Owned
<1>7. Allocated' = [Allocated EXCEPT ![c] = @ \ {<<p, kp_order[p]>>}]
  <2>1. \A d \in CPUs : d # c => Owned(d)' = Owned(d)
    BY <1>1, <1>2, <1>4 DEF Owned, TypeOK
  <2>2. Owned(c)' = Owned(c) \ {<<p, kp_order[p]>>}
    BY <1>1, <1>2, <1>4 DEF Owned, TypeOK
  <2> QED BY <1>3, <1>5, <2>1, <2>2, AllocatedParts DEF Allocated, Owned, Carried
<1> QED BY <1>6, <1>7 DEF Promise!Free, Promise!FreeBlock

LEMMA ReturnStutters ==
    ASSUME IndInv, NEW c \in CPUs, AllocReturn(c)
    PROVE  Allocated' = Allocated
<1>1. /\ TypeOK /\ pc[c] = "split" /\ Carrying(c)
      /\ kp_order[block[c]] = request[c]
  BY DEF IndInv, AllocReturn, Carrying, LocalsConsistent, LocalsOf
<1>2. kp_order' = kp_order
  BY DEF AllocReturn
<1>3. \A d \in CPUs : d # c => Owned(d)' = Owned(d) /\ Carried(d)' = Carried(d)
  BY <1>1, <1>2 DEF AllocReturn, Owned, Carried, Carrying, Adding, TypeOK
<1>4. Carried(c)' = {} /\ Carried(c) = {<<block[c], request[c]>>}
  BY <1>1 DEF AllocReturn, Carried, Carrying, Adding, TypeOK
<1>5. Owned(c)' = Owned(c) \cup {<<block[c], request[c]>>}
  BY <1>1, <1>2 DEF AllocReturn, Owned, TypeOK
<1> QED BY <1>3, <1>4, <1>5, AllocatedParts DEF Allocated, Owned, Carried

(* Every step of the allocator is one of PageAllocator or leaves what the   *)
(* callers have unchanged.                                                  *)
LEMMA StepKeepsPromise ==
    ASSUME IndInv, [Next]_vars
    PROVE  [Promise!Next]_Allocated
<1>1. CASE UNCHANGED vars
  BY <1>1 DEF vars, Allocated, Carrying, Adding
<1>2. CASE Next
  <2>1. PICK c \in CPUs : Step(c) \/ PageFree(c) \/ PageAllocCall(c)
    BY <1>2 DEF Next
  <2>2. TypeOK
    BY DEF IndInv
  <2>3. CASE Pop(c)
    BY <2>3, PopAllocates DEF Promise!Next
  <2>4. CASE PageFree(c)
    BY <2>4, FreeFrees DEF Promise!Next
  <2>5. CASE AllocReturn(c)
    BY <2>5, ReturnStutters
  <2>6. CASE \/ AddStep(c) \/ AllocLock(c) \/ AllocFail(c) \/ AllocNextOrder(c)
             \/ AllocChoose(c) \/ PopLock(c) \/ Split(c) \/ PageAllocCall(c)
             \/ BootPage(c) \/ BootDone(c)
    <3>1. owned' = owned
      BY <2>6 DEF AddStep, AddLock, AddReadOrder, AddReadFlags, MergeLockFirst,
         MergeLockSecond, Merge, InsertLock, Insert, AllocLock, AllocFail, AllocNextOrder,
         AllocChoose, PopLock, Split, PageAllocCall, BootPage, BootDone, CallAdd
    <3>2. ASSUME NEW d \in CPUs
          PROVE  Carried(d)' = Carried(d)
      <4>1. CASE AddLock(c) \/ AddReadOrder(c) \/ AddReadFlags(c)
        BY <2>2, <4>1 DEF AddLock, AddReadOrder, AddReadFlags, Carried, Carrying, Adding, TypeOK
      <4>2. CASE MergeLockFirst(c) \/ MergeLockSecond(c) \/ Merge(c) \/ InsertLock(c)
        BY <2>2, <4>2 DEF MergeLockFirst, MergeLockSecond, Merge, InsertLock, Carried,
           Carrying, Adding, TypeOK
      <4>3. CASE Insert(c)
        BY <2>2, <4>3 DEF Insert, Carried, Carrying, Adding, TypeOK
      <4>4. CASE Split(c)
        BY <2>2, <4>4 DEF Split, CallAdd, Carried, Carrying, Adding, TypeOK
      <4>5. CASE AllocLock(c) \/ AllocFail(c) \/ AllocNextOrder(c)
        BY <2>2, <4>5 DEF AllocLock, AllocFail, AllocNextOrder, Carried, Carrying, Adding,
           TypeOK
      <4>6. CASE AllocChoose(c) \/ PopLock(c) \/ PageAllocCall(c)
        BY <2>2, <4>6 DEF AllocChoose, PopLock, PageAllocCall, Carried, Carrying, Adding,
           TypeOK
      <4>7. CASE BootPage(c)
        BY <2>2, <4>7 DEF BootPage, CallAdd, Carried, Carrying, Adding, TypeOK
      <4>8. CASE BootDone(c)
        <5>1. \A e \in CPUs : pc[e] \in {"boot", "off"}
          BY <4>8 DEF BootDone, IndInv, BootAlone
        <5> QED BY <4>8, <5>1 DEF BootDone, Carried, Carrying, Adding
      <4> QED BY <2>6, <4>1, <4>2, <4>3, <4>4, <4>5, <4>6, <4>7, <4>8 DEF AddStep
    <3> QED BY <2>1, <3>1, <3>2, Stutters
  <2> QED BY <2>1, <2>3, <2>4, <2>5, <2>6 DEF Step, AllocStep
<1> QED BY <1>1, <1>2

(* The allocator as coded, with its lists, locks, splits and merges, does   *)
(* what PageAllocator promises its callers.                                 *)
THEOREM PromiseKept == Spec => PromiseSpec
<1>1. Init => Promise!Init
  <2> SUFFICES ASSUME Init
               PROVE  Promise!Init
    OBVIOUS
  <2>1. \A c \in CPUs : Owned(c) = {} /\ Carried(c) = {}
    BY DEF Init, Owned, Carried, Carrying, Adding
  <2> QED BY <2>1, AllocatedParts DEF Promise!Init
<1>2. IndInv /\ [Next]_vars => [Promise!Next]_Allocated
  BY StepKeepsPromise
<1> QED BY <1>1, <1>2, Invariance, PTL DEF Spec, PromiseSpec, Promise!Spec
=============================================================================
