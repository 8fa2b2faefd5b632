--------------------------- MODULE BuddyAllocator ---------------------------
(***************************************************************************)
(* The page allocator of memory.c: page_add_to_slot (228-293), page_alloc   *)
(* (295-341) and the loop of mem_init that hands it the usable pages        *)
(* (210-221), run by several CPUs at once under the spinlocks of lock.c.    *)
(*                                                                         *)
(* Each CPU has a program counter and the locals of the two functions.  A   *)
(* step ends where the code takes a lock or reads shared state that it does *)
(* not own; the writes made under one struct kpage lock, and the unlocks    *)
(* that follow them, are one step.                                          *)
(***************************************************************************)
EXTENDS Pfn

CONSTANTS
    CPUs,              \* the processors
    BSP,               \* the one that runs mem_init
    NoCPU,             \* owner of a free spinlock
    MAX_ALLOC_ORDER,   \* the largest order of a block
    kpage_last,        \* pfn of the last struct kpage
    Unusable           \* pages mem_init flagged RESERVED or KERNEL

Pages == {p \in PfnSet : Leq(p, kpage_last)}
Orders == 0 .. MAX_ALLOC_ORDER
AllocOrders == 0 .. MAX_ALLOC_ORDER + 1       \* page_alloc takes any u32
Usable == Pages \ Unusable

ASSUME CPUAssumption == BSP \in CPUs /\ NoCPU \notin CPUs
ASSUME OrderAssumption == MAX_ALLOC_ORDER \in Nat /\ MAX_ALLOC_ORDER <= PfnBits
ASSUME PageAssumption == kpage_last \in PfnSet /\ Unusable \subseteq Pages

PageFlags == {"UNUSABLE", "FREE_BUDDY", "FREE_SUB", "ALLOCATED"}

(* where a CPU is: adding a block, allocating one, or outside the allocator *)
MergePCs == {"merge_first", "merge_second", "merge"}
InsertPCs == {"ins_lock", "insert"}
AddPCs == {"add_lock", "add_order", "add_flags"} \cup MergePCs \cup InsertPCs
PopPCs == {"pop_lock", "pop"}
AllocPCs == {"alloc_lock", "alloc_test"} \cup PopPCs
PCs == {"off", "boot", "idle", "split"} \cup AddPCs \cup AllocPCs

VARIABLES
    kp_order,          \* kpages[pfn].order
    kp_flags,          \* kpages[pfn].flags
    kp_lock,           \* kpages[pfn].lock: the CPU that holds it, or NoCPU
    free_pages,        \* free_pages[order], the pages on the list
    alloc_order_lock,  \* alloc_order_lock[order]: its holder, or NoCPU
    unadded,           \* pages the loop of mem_init has still to visit
    owned,             \* per CPU: the blocks page_alloc returned to its caller
    pc,
    ret,               \* where page_add_to_slot returns to
    kpage,             \* page_add_to_slot's kpage
    order,             \* page_add_to_slot's order
    end_kpage,         \* page_add_to_slot's end_kpage
    block,             \* page_alloc's kpage
    alloc_order,       \* page_alloc's alloc_order
    request            \* page_alloc's order

kpageVars == <<kp_order, kp_flags, kp_lock>>
addVars == <<ret, kpage, order, end_kpage>>
allocVars == <<block, alloc_order, request>>
vars == <<kpageVars, free_pages, alloc_order_lock, unadded, owned, pc,
          addVars, allocVars>>

Page0 == {}            \* pfn 0, the value of a page pointer not in use

TypeOK ==
    /\ kp_order \in [Pages -> Orders]
    /\ kp_flags \in [Pages -> SUBSET PageFlags]
    /\ kp_lock \in [Pages -> CPUs \cup {NoCPU}]
    /\ free_pages \in [Orders -> SUBSET Pages]
    /\ alloc_order_lock \in [Orders -> CPUs \cup {NoCPU}]
    /\ unadded \in SUBSET Pages
    /\ owned \in [CPUs -> SUBSET Pages]
    /\ pc \in [CPUs -> PCs]
    /\ ret \in [CPUs -> {"boot", "idle", "split"}]
    /\ kpage \in [CPUs -> Pages]
    /\ order \in [CPUs -> Orders]
    /\ end_kpage \in [CPUs -> Pages]
    /\ block \in [CPUs -> Pages]
    /\ alloc_order \in [CPUs -> AllocOrders]
    /\ request \in [CPUs -> AllocOrders]

(* mem_init has zeroed the struct kpages and flagged the unusable ones; the *)
(* application processors are not started yet.                              *)
Init ==
    /\ kp_order = [p \in Pages |-> 0]
    /\ kp_flags = [p \in Pages |-> IF p \in Unusable THEN {"UNUSABLE"} ELSE {}]
    /\ kp_lock = [p \in Pages |-> NoCPU]
    /\ free_pages = [k \in Orders |-> {}]
    /\ alloc_order_lock = [k \in Orders |-> NoCPU]
    /\ unadded = Pages
    /\ owned = [c \in CPUs |-> {}]
    /\ pc = [c \in CPUs |-> IF c = BSP THEN "boot" ELSE "off"]
    /\ ret = [c \in CPUs |-> "idle"]
    /\ kpage = [c \in CPUs |-> Page0]
    /\ order = [c \in CPUs |-> 0]
    /\ end_kpage = [c \in CPUs |-> Page0]
    /\ block = [c \in CPUs |-> Page0]
    /\ alloc_order = [c \in CPUs |-> 0]
    /\ request = [c \in CPUs |-> 0]

Goto(c, label) == pc' = [pc EXCEPT ![c] = label]

(* mutant: the list is used without its lock *)
LockOrder_NotTaken(c, k) == c \in CPUs /\ k \in Orders /\ UNCHANGED alloc_order_lock

LockOrder(c, k) ==
    /\ alloc_order_lock[k] = NoCPU
    /\ alloc_order_lock' = [alloc_order_lock EXCEPT ![k] = c]

(* mutant: the list stays locked *)
UnlockOrder_Kept(k) == k \in Orders /\ UNCHANGED alloc_order_lock

UnlockOrder(k) == alloc_order_lock' = [alloc_order_lock EXCEPT ![k] = NoCPU]

LockKpage(c, p) ==
    /\ kp_lock[p] = NoCPU
    /\ kp_lock' = [kp_lock EXCEPT ![p] = c]

(* call of page_add_to_slot(p, end); k is p's order field at the call *)
CallAdd(c, p, k, end, label) ==
    /\ kpage' = [kpage EXCEPT ![c] = p]
    /\ order' = [order EXCEPT ![c] = k]
    /\ end_kpage' = [end_kpage EXCEPT ![c] = end]
    /\ ret' = [ret EXCEPT ![c] = label]
    /\ Goto(c, "add_lock")

(***************************************************************************)
(* mem_init                                                                *)
(***************************************************************************)
(* the next page of the loop: a usable one is added, merging downwards only *)
BootPage(c) ==
    /\ pc[c] = "boot"
    /\ \E p \in unadded :
         /\ \A q \in unadded : Leq(p, q)
         /\ unadded' = unadded \ {p}
         /\ kp_order' = [kp_order EXCEPT ![p] = 0]
         /\ IF kp_flags[p] = {}            \* kpage_is_free
            THEN CallAdd(c, p, 0, p, "boot")
            ELSE UNCHANGED <<pc, addVars>>
    /\ UNCHANGED <<kp_flags, kp_lock, free_pages, alloc_order_lock, owned, allocVars>>

(* mem_init is over: smp_start later lets the other CPUs in *)
BootDone(c) ==
    /\ pc[c] = "boot"
    /\ unadded = {}
    /\ pc' = [d \in CPUs |-> "idle"]
    /\ UNCHANGED <<kpageVars, free_pages, alloc_order_lock, unadded, owned,
                   addVars, allocVars>>

(***************************************************************************)
(* page_add_to_slot                                                        *)
(***************************************************************************)
Other(c) == Buddy(kpage[c], order[c])
First(c) == IF Less(kpage[c], Other(c)) THEN kpage[c] ELSE Other(c)
Second(c) == IF Less(kpage[c], Other(c)) THEN Other(c) ELSE kpage[c]

AddLock(c) ==
    /\ pc[c] = "add_lock"
    /\ LockOrder(c, order[c])
    /\ Goto(c, "add_order")
    /\ UNCHANGED <<kpageVars, free_pages, unadded, owned, addVars, allocVars>>

(* mutants: a buddy of any order will do; the last page is nobody's buddy   *)
MayMerge_AnyOrder(c) ==
    order[c] < MAX_ALLOC_ORDER /\ Leq(Other(c), end_kpage[c])
MayMerge_StrictEnd(c) ==
    /\ order[c] < MAX_ALLOC_ORDER
    /\ Less(Other(c), end_kpage[c])
    /\ kp_order[Other(c)] = order[c]

(* the buddy must exist, not above end_kpage, and carry the same order      *)
MayMerge(c) ==
    /\ order[c] < MAX_ALLOC_ORDER
    /\ Leq(Other(c), end_kpage[c])
    /\ kp_order[Other(c)] = order[c]

(* mutant: whether the buddy is free is not looked at *)
BuddyFree_Ignored(c) == c \in CPUs

BuddyFree(c) == "FREE_BUDDY" \in kp_flags[Other(c)]

(* the order is read without the buddy's own lock ...                       *)
AddReadOrder(c) ==
    /\ pc[c] = "add_order"
    /\ Goto(c, IF MayMerge(c) THEN "add_flags" ELSE "ins_lock")
    /\ UNCHANGED <<kpageVars, free_pages, alloc_order_lock, unadded, owned,
                   addVars, allocVars>>

(* mutant: a buddy that is not free is waited for, under the list lock *)
AddReadFlags_Retry(c) ==
    /\ pc[c] = "add_flags"
    /\ Goto(c, IF BuddyFree(c) THEN "merge_first" ELSE "add_order")
    /\ UNCHANGED <<kpageVars, free_pages, alloc_order_lock, unadded, owned,
                   addVars, allocVars>>

(* ... and the flags in a second read, also without it                      *)
AddReadFlags(c) ==
    /\ pc[c] = "add_flags"
    /\ Goto(c, IF BuddyFree(c) THEN "merge_first" ELSE "ins_lock")
    /\ UNCHANGED <<kpageVars, free_pages, alloc_order_lock, unadded, owned,
                   addVars, allocVars>>

MergeLockFirst(c) ==
    /\ pc[c] = "merge_first"
    /\ LockKpage(c, First(c))
    /\ Goto(c, "merge_second")
    /\ UNCHANGED <<kp_order, kp_flags, free_pages, alloc_order_lock, unadded,
                   owned, addVars, allocVars>>

MergeLockSecond(c) ==
    /\ pc[c] = "merge_second"
    /\ LockKpage(c, Second(c))
    /\ Goto(c, "merge")
    /\ UNCHANGED <<kp_order, kp_flags, free_pages, alloc_order_lock, unadded,
                   owned, addVars, allocVars>>

(* mutant: the upper buddy is not marked *)
UpperFlags_NotMarked(flags) == flags \ {"FREE_BUDDY"}
(* mutant: the loop goes on with the page it came with *)
MergedHead_Kpage(c) == kpage[c]

UpperFlags(flags) == (flags \ {"FREE_BUDDY"}) \cup {"FREE_SUB"}
MergedHead(c) == First(c)

(* the two buddies become one block, which the loop adds one order up       *)
Merge(c) ==
    /\ pc[c] = "merge"
    /\ kp_flags' = [kp_flags EXCEPT
                      ![First(c)] = @ \ {"FREE_BUDDY"},
                      ![Second(c)] = UpperFlags(@)]
    /\ free_pages' = [free_pages EXCEPT ![order[c]] = @ \ {Other(c)}]
    /\ kp_lock' = [kp_lock EXCEPT ![First(c)] = NoCPU, ![Second(c)] = NoCPU]
    /\ UnlockOrder(order[c])
    /\ order' = [order EXCEPT ![c] = @ + 1]
    /\ kpage' = [kpage EXCEPT ![c] = MergedHead(c)]
    /\ Goto(c, "add_lock")
    /\ UNCHANGED <<kp_order, unadded, owned, ret, end_kpage, allocVars>>

InsertLock(c) ==
    /\ pc[c] = "ins_lock"
    /\ LockKpage(c, kpage[c])
    /\ Goto(c, "insert")
    /\ UNCHANGED <<kp_order, kp_flags, free_pages, alloc_order_lock, unadded,
                   owned, addVars, allocVars>>

(* the block goes to the list of its order, and page_add_to_slot returns    *)
Insert(c) ==
    /\ pc[c] = "insert"
    /\ kp_order' = [kp_order EXCEPT ![kpage[c]] = order[c]]
    /\ kp_flags' = [kp_flags EXCEPT
                      ![kpage[c]] = (@ \cup {"FREE_BUDDY"}) \ {"FREE_SUB"}]
    /\ free_pages' = [free_pages EXCEPT ![order[c]] = @ \cup {kpage[c]}]
    /\ kp_lock' = [kp_lock EXCEPT ![kpage[c]] = NoCPU]
    /\ UnlockOrder(order[c])
    /\ kpage' = [kpage EXCEPT ![c] = Page0]
    /\ order' = [order EXCEPT ![c] = 0]
    /\ end_kpage' = [end_kpage EXCEPT ![c] = Page0]
    /\ ret' = [ret EXCEPT ![c] = "idle"]
    /\ Goto(c, ret[c])
    /\ UNCHANGED <<unadded, owned, allocVars>>

(* a caller gives a block back                                              *)
PageFree(c) ==
    /\ pc[c] = "idle"
    /\ \E p \in owned[c] :
         /\ owned' = [owned EXCEPT ![c] = @ \ {p}]
         /\ CallAdd(c, p, kp_order[p], kpage_last, "idle")
    /\ UNCHANGED <<kpageVars, free_pages, alloc_order_lock, unadded, allocVars>>

(***************************************************************************)
(* page_alloc                                                              *)
(***************************************************************************)
PageAllocCall(c) ==
    /\ pc[c] = "idle"
    /\ \E k \in AllocOrders :
         /\ request' = [request EXCEPT ![c] = k]
         /\ alloc_order' = [alloc_order EXCEPT ![c] = k]
    /\ Goto(c, "alloc_lock")
    /\ UNCHANGED <<kpageVars, free_pages, alloc_order_lock, unadded, owned,
                   addVars, block>>

AllocLock(c) ==
    /\ pc[c] = "alloc_lock"
    /\ alloc_order[c] <= MAX_ALLOC_ORDER
    /\ LockOrder(c, alloc_order[c])
    /\ Goto(c, "alloc_test")
    /\ UNCHANGED <<kpageVars, free_pages, unadded, owned, addVars, allocVars>>

(* every order tried and none had a block: page_alloc returns NULL          *)
AllocFail(c) ==
    /\ pc[c] = "alloc_lock"
    /\ alloc_order[c] > MAX_ALLOC_ORDER
    /\ alloc_order' = [alloc_order EXCEPT ![c] = 0]
    /\ request' = [request EXCEPT ![c] = 0]
    /\ Goto(c, "idle")
    /\ UNCHANGED <<kpageVars, free_pages, alloc_order_lock, unadded, owned,
                   addVars, block>>

(* mutant: the scan does not advance *)
HigherOrder_Same(k) == k

HigherOrder(k) == k + 1

AllocNextOrder(c) ==
    /\ pc[c] = "alloc_test"
    /\ free_pages[alloc_order[c]] = {}
    /\ UnlockOrder(alloc_order[c])
    /\ alloc_order' = [alloc_order EXCEPT ![c] = HigherOrder(@)]
    /\ Goto(c, "alloc_lock")
    /\ UNCHANGED <<kpageVars, free_pages, unadded, owned, addVars, block, request>>

(* the code takes the list's tail; here, any page of the list               *)
AllocChoose(c) ==
    /\ pc[c] = "alloc_test"
    /\ \E p \in free_pages[alloc_order[c]] : block' = [block EXCEPT ![c] = p]
    /\ Goto(c, "pop_lock")
    /\ UNCHANGED <<kpageVars, free_pages, alloc_order_lock, unadded, owned,
                   addVars, alloc_order, request>>

PopLock(c) ==
    /\ pc[c] = "pop_lock"
    /\ LockKpage(c, block[c])
    /\ Goto(c, "pop")
    /\ UNCHANGED <<kp_order, kp_flags, free_pages, alloc_order_lock, unadded,
                   owned, addVars, allocVars>>

(* mutant: the order of the block found, not of the one asked for *)
PoppedOrder_Found(c) == alloc_order[c]

PoppedOrder(c) == request[c]

Pop(c) ==
    /\ pc[c] = "pop"
    /\ free_pages' = [free_pages EXCEPT ![alloc_order[c]] = @ \ {block[c]}]
    /\ kp_flags' = [kp_flags EXCEPT
                      ![block[c]] = (@ \ {"FREE_BUDDY"}) \cup {"ALLOCATED"}]
    /\ kp_order' = [kp_order EXCEPT ![block[c]] = PoppedOrder(c)]
    /\ kp_lock' = [kp_lock EXCEPT ![block[c]] = NoCPU]
    /\ UnlockOrder(alloc_order[c])
    /\ Goto(c, "split")
    /\ UNCHANGED <<unadded, owned, addVars, allocVars>>

(* mutant: the buddy is computed before alloc_order is decremented *)
UpperHalf_Undecremented(c) == Buddy(block[c], alloc_order[c])

UpperHalf(c) == Buddy(block[c], alloc_order[c] - 1)

(* the upper half of a block larger than the request goes back; its order   *)
(* and flags are written without a lock                                     *)
Split(c) ==
    /\ pc[c] = "split"
    /\ alloc_order[c] > request[c]
    /\ LET k == alloc_order[c] - 1
           buddy == UpperHalf(c)
       IN  /\ alloc_order' = [alloc_order EXCEPT ![c] = k]
           /\ kp_order' = [kp_order EXCEPT ![buddy] = k]
           /\ kp_flags' = [kp_flags EXCEPT ![buddy] = @ \ {"FREE_SUB"}]
           /\ CallAdd(c, buddy, k, kpage_last, "split")
    /\ UNCHANGED <<kp_lock, free_pages, alloc_order_lock, unadded, owned,
                   block, request>>

AllocReturn(c) ==
    /\ pc[c] = "split"
    /\ alloc_order[c] = request[c]
    /\ owned' = [owned EXCEPT ![c] = @ \cup {block[c]}]
    /\ block' = [block EXCEPT ![c] = Page0]
    /\ alloc_order' = [alloc_order EXCEPT ![c] = 0]
    /\ request' = [request EXCEPT ![c] = 0]
    /\ Goto(c, "idle")
    /\ UNCHANGED <<kpageVars, free_pages, alloc_order_lock, unadded, addVars>>

-----------------------------------------------------------------------------
AddStep(c) == \/ AddLock(c) \/ AddReadOrder(c) \/ AddReadFlags(c)
              \/ MergeLockFirst(c) \/ MergeLockSecond(c) \/ Merge(c)
              \/ InsertLock(c) \/ Insert(c)

AllocStep(c) == \/ AllocLock(c) \/ AllocFail(c) \/ AllocNextOrder(c)
                \/ AllocChoose(c) \/ PopLock(c) \/ Pop(c)
                \/ Split(c) \/ AllocReturn(c)

(* a step of the code of memory.c, as opposed to a call of it               *)
Step(c) == BootPage(c) \/ BootDone(c) \/ AddStep(c) \/ AllocStep(c)

Next == \E c \in CPUs : Step(c) \/ PageFree(c) \/ PageAllocCall(c)

Spec == Init /\ [][Next]_vars

(* A processor inside the allocator keeps executing: interrupts return and  *)
(* nothing preempts it.  The xchg loop of a spinlock is not fair, so only   *)
(* weak fairness.                                                           *)
FairSpec == Spec /\ \A c \in CPUs : WF_vars(Step(c))
-----------------------------------------------------------------------------
(***************************************************************************)
(* Who has which block.  A claim is a block in somebody's hands: on a free  *)
(* list, waiting for mem_init's loop, owned by a caller of page_alloc,      *)
(* carried by a page_alloc that splits it, or carried by page_add_to_slot.  *)
(***************************************************************************)
Adding(c) == pc[c] \in AddPCs
Carrying(c) == pc[c] = "split" \/ (Adding(c) /\ ret[c] = "split")

ClaimType == [as : {"free", "boot", "own", "carry", "add"},
              by : CPUs \cup {NoCPU}, page : Pages, order : Orders]

IsClaim(x) ==
    \/ /\ x.as = "free" /\ x.by = NoCPU
       /\ x.page \in free_pages[x.order]
    \/ /\ x.as = "boot" /\ x.by = NoCPU
       /\ x.page \in unadded \ Unusable /\ x.order = 0
    \/ /\ x.as = "own" /\ x.by \in CPUs
       /\ x.page \in owned[x.by] /\ x.order = kp_order[x.page]
    \/ /\ x.as = "carry" /\ x.by \in CPUs
       /\ Carrying(x.by) /\ x.page = block[x.by] /\ x.order = alloc_order[x.by]
    \/ /\ x.as = "add" /\ x.by \in CPUs
       /\ Adding(x.by) /\ x.page = kpage[x.by] /\ x.order = order[x.by]

Claims == {x \in ClaimType : IsClaim(x)}
Extent(x) == Block(x.page, x.order)

(* No page is in two blocks, whatever the interleaving of allocations,      *)
(* splits, frees and merges: a page handed out is on no free list, in no    *)
(* other caller's block and in no block under way between lists.            *)
NoDoubleAllocation ==
    \A x, y \in Claims : x # y => Extent(x) \cap Extent(y) = {}

(* No usable page is lost and no reserved or kernel page enters the         *)
(* allocator: the blocks cover exactly the usable pages, in every state.    *)
NoLeak == UNION {Extent(x) : x \in Claims} = Usable

(* Two free buddies never stay apart on a list: with the lock of their      *)
(* order held from the test of the buddy to the insertion, concurrent frees *)
(* of the two halves of a block always meet.                                *)
Coalesced ==
    \A k \in Orders : k < MAX_ALLOC_ORDER =>
        \A p \in free_pages[k] : Buddy(p, k) \notin free_pages[k]

(* The flags, which page_add_to_slot reads without the page's lock, tell    *)
(* the truth: FREE_BUDDY is set exactly on the pages listed, under the      *)
(* order in their struct kpage, and FREE_SUB exactly on the pages of a      *)
(* block other than its head.                                               *)
FlagsTruthful ==
    /\ \A p \in Pages :
         ("FREE_BUDDY" \in kp_flags[p]) <=> (p \in free_pages[kp_order[p]])
    /\ \A k \in Orders : \A p \in free_pages[k] : kp_order[p] = k
    /\ \A x \in Claims : \A p \in Extent(x) :
         ("FREE_SUB" \in kp_flags[p]) <=> (p # x.page)

(* The lock of a struct kpage is free whenever a CPU comes to take it: the  *)
(* list locks already exclude every other user of the page, so that taking  *)
(* page locks under list locks, lower pfn first, cannot deadlock.           *)
KpageLocksUncontended ==
    \A c \in CPUs :
        /\ pc[c] = "merge_first" => kp_lock[First(c)] = NoCPU
        /\ pc[c] = "merge_second" => kp_lock[Second(c)] = NoCPU
        /\ pc[c] = "ins_lock" => kp_lock[kpage[c]] = NoCPU
        /\ pc[c] = "pop_lock" => kp_lock[block[c]] = NoCPU

(* No processor changes the struct kpage of a page in a block another one   *)
(* owns or is splitting; page_alloc's unlocked writes to the upper half of  *)
(* a split (memory.c:329-330) are safe only because of this.                *)
PrivateUntouched ==
    [][\A x \in Claims : \A c \in CPUs :
          (x.as \in {"own", "carry"} /\ x.by # c /\ (Step(c) \/ PageFree(c)))
          => \A p \in Extent(x) : /\ kp_order'[p] = kp_order[p]
                                  /\ kp_flags'[p] = kp_flags[p]]_vars

FreeExtent == UNION {Extent(x) : x \in {y \in Claims : y.as = "free"}}

(* page_alloc fails only when no aligned run of free pages of the order     *)
(* asked for exists, if no other processor is in the allocator meanwhile:   *)
(* it may miss a block that another one carries between two lists.          *)
Failing(c) == pc[c] = "alloc_lock" /\ alloc_order[c] > MAX_ALLOC_ORDER
FreeRun(k) == \E p \in Pages : /\ k <= MAX_ALLOC_ORDER
                               /\ Aligned(p, k)
                               /\ Block(p, k) \subseteq FreeExtent
FailOnlyWhenExhausted ==
    \A c \in CPUs :
        []((\A d \in CPUs : pc[d] = "idle") /\ [](\A d \in CPUs \ {c} : pc[d] = "idle")
           => [](Failing(c) => ~ FreeRun(request[c])))

(* Every list lock is released again and again: no deadlock among the list  *)
(* locks and page locks, and no processor stays in a critical section.      *)
LocksReleased == \A k \in Orders : []<>(alloc_order_lock[k] = NoCPU)

(* A processor that another one waits for waits for nobody, not for itself  *)
(* either: however many locks and processors, the waiting has an end, and   *)
(* no order among the list locks is needed.                                 *)
WaitsFor(c, d) ==
    \/ pc[c] = "add_lock" /\ alloc_order_lock[order[c]] = d
    \/ /\ pc[c] = "alloc_lock" /\ alloc_order[c] \in Orders
       /\ alloc_order_lock[alloc_order[c]] = d
    \/ pc[c] = "merge_first" /\ kp_lock[First(c)] = d
    \/ pc[c] = "merge_second" /\ kp_lock[Second(c)] = d
    \/ pc[c] = "ins_lock" /\ kp_lock[kpage[c]] = d
    \/ pc[c] = "pop_lock" /\ kp_lock[block[c]] = d
NoWaitChain == \A c, d, e \in CPUs : ~ (WaitsFor(c, d) /\ WaitsFor(d, e))

(* Each step of a call leaves less to do, whatever the others have done to  *)
(* the lists since the last one: the search goes up the orders, the splits  *)
(* come down to the request, and in each the merges go up again.            *)
StepsLeft ==
    [add_lock |-> 8, add_order |-> 7, add_flags |-> 6, merge_first |-> 5,
     merge_second |-> 4, merge |-> 3, ins_lock |-> 2, insert |-> 1,
     alloc_lock |-> 4, alloc_test |-> 3, pop_lock |-> 2, pop |-> 1,
     split |-> 0, idle |-> 0, boot |-> 0, off |-> 0]
Searching(c) == pc[c] \in AllocPCs
Remaining(c) ==
    <<IF Searching(c) THEN 2 ELSE IF Carrying(c) THEN 1 ELSE 0,
      IF Searching(c) THEN MAX_ALLOC_ORDER + 1 - alloc_order[c]
      ELSE IF Carrying(c) THEN alloc_order[c] - request[c] ELSE 0,
      IF Adding(c) THEN MAX_ALLOC_ORDER - order[c] ELSE 0,
      StepsLeft[pc[c]]>>
(* in lexicographic order *)
Below(r, s) == \E i \in 1 .. 4 : r[i] < s[i] /\ \A j \in 1 .. i - 1 : r[j] = s[j]
CallsAdvance ==
    [][\A c \in CPUs : AddStep(c) \/ AllocStep(c) =>
          /\ Remaining(c)' \in Nat \X Nat \X Nat \X Nat
          /\ Below(Remaining(c)', Remaining(c))]_vars

(* When the other processors stop using the allocator, a call under way     *)
(* returns: neither the merge loop nor the split loop runs for ever.        *)
QuietCallReturns ==
    \A c \in CPUs :
        <>[](\A d \in CPUs \ {c} : pc[d] = "idle") => []<>(pc[c] = "idle")

-----------------------------------------------------------------------------
(***************************************************************************)
(* The inductive invariant behind NoDoubleAllocation and NoLeak.            *)
(***************************************************************************)
HoldPCs == {"add_order", "add_flags"} \cup MergePCs \cup InsertPCs
ListPCs == {"alloc_test"} \cup PopPCs

(* the list lock a CPU holds, by where it is *)
LockOwners ==
    \A c \in CPUs :
        /\ pc[c] \in HoldPCs => alloc_order_lock[order[c]] = c
        /\ pc[c] \in ListPCs => /\ alloc_order[c] \in Orders
                                /\ alloc_order_lock[alloc_order[c]] = c

(* while mem_init runs, nobody else does *)
BootAlone ==
    \A c, d \in CPUs :
        (pc[c] = "boot" \/ (Adding(c) /\ ret[c] = "boot")) /\ c # d
        => pc[d] = "off"

(* every block is aligned, and its head's order field is no larger than the *)
(* block: this is what makes the unlocked reads of the buddy conclusive     *)
HeadsAligned ==
    \A x \in Claims : Aligned(x.page, x.order) /\ kp_order[x.page] <= x.order

(* FREE_BUDDY is set exactly on the pages listed, under their order         *)
Listed ==
    /\ \A p \in Pages : "FREE_BUDDY" \in kp_flags[p] => p \in free_pages[kp_order[p]]
    /\ \A k \in Orders : \A p \in free_pages[k] :
           kp_order[p] = k /\ "FREE_BUDDY" \in kp_flags[p]

(* a page about to be taken is on its list, a block being split is no       *)
(* smaller than the request, and a buddy read with the right order has kept *)
(* it and, once read as free, is on the list                                *)
LocalsOf(c) ==
    /\ pc[c] \in AllocPCs => request[c] <= alloc_order[c]
    /\ pc[c] \in PopPCs => block[c] \in free_pages[alloc_order[c]]
    /\ Carrying(c) => /\ alloc_order[c] \in Orders
                      /\ request[c] <= alloc_order[c]
                      /\ kp_order[block[c]] = request[c]
    /\ pc[c] \in {"add_flags"} \cup MergePCs =>
          /\ order[c] < MAX_ALLOC_ORDER
          /\ Other(c) \in Pages
          /\ kp_order[Other(c)] = order[c]
    /\ pc[c] \in MergePCs => Other(c) \in free_pages[order[c]]

LocalsConsistent == \A c \in CPUs : LocalsOf(c)

(* unadded pages are as mem_init's memset and E820 loop left them *)
UnaddedFresh ==
    \A p \in unadded :
        /\ kp_order[p] = 0
        /\ kp_flags[p] = IF p \in Unusable THEN {"UNUSABLE"} ELSE {}

IndInv ==
    /\ TypeOK /\ LockOwners /\ BootAlone /\ HeadsAligned /\ Listed
    /\ LocalsConsistent /\ UnaddedFresh /\ NoDoubleAllocation /\ NoLeak

-----------------------------------------------------------------------------
(* What callers see: a block is the caller's from the moment it leaves its  *)
(* free list.                                                               *)
Allocated ==
    [c \in CPUs |->
        {<<p, kp_order[p]>> : p \in owned[c]}
          \cup (IF Carrying(c) THEN {<<block[c], request[c]>>} ELSE {})]

Promise == INSTANCE PageAllocator WITH allocated <- Allocated
PromiseSpec == Promise!Spec
=============================================================================
