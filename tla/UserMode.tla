------------------------------ MODULE UserMode ------------------------------
(***************************************************************************)
(* The user address space that each processor builds for itself at the end  *)
(* of its start: initialize_usermode and load_usermode_text of usermode.c   *)
(* (53-102), on alloc_user_page of page32.c (190-285) and the map and unmap *)
(* functions under it (47-188).  start_kernel runs it on the BSP while      *)
(* finish_smp_initialization runs it on the others (start.c:49, smp.c:62).  *)
(*                                                                         *)
(* The processors share the page allocator, here its promise PageAllocator, *)
(* and the kernel page tables, through which a frame can be accessed while  *)
(* the pte of its linear address is present, or from a TLB as long as the   *)
(* translation stays there: the code never invalidates one.                 *)
(***************************************************************************)
EXTENDS Pfn

CONSTANTS
    CPUs, MAX_ALLOC_ORDER, Usable,     \* as in PageAllocator
    NoFrame,                           \* an entry that maps nothing
    Contents                           \* what memory never cleared may hold, as
                                       \* an entry: any frame's number or NoFrame

ASSUME UserModeAssumption ==
    /\ MAX_ALLOC_ORDER \in Nat \ {0} /\ Usable \subseteq PfnSet
    /\ \A p \in Usable : p # NoFrame
    /\ Contents # {}

(* the regions of usermode.c:90-95 and the pages in them; both lie in the   *)
(* same entry of the page directory                                         *)
UserPages == {"stack0", "stack1", "text"}
Pages(region) == IF region = "stack" THEN <<"stack0", "stack1">> ELSE <<"text">>
NumPages(region) == IF region = "stack" THEN 2 ELSE 1

NPAGES_TO_ORDER(n) == n - 1                        \* for 1 and 2 pages

(* page i of a block, from 0: the blocks here have at most two *)
FrameOf(pfn, i) == IF i = 0 THEN pfn ELSE pfn \cup {0}

VARIABLES
    allocated,      \* the allocator: per CPU, the <<pfn, order>> blocks it has
    kernel_pte,     \* frames with a present pte in the kernel page tables
    tlb,            \* per CPU: frames whose linear address is in its TLB
    lock_pgd_user,  \* per CPU: whether the lock of its user entries is taken
    pgd,            \* per CPU: its page directory's entry for the user pages
    user_pte,       \* per CPU: the entries of the page table that pgd refers to
    written,        \* per CPU: those of them that build_pagetable has written
    pc,
    region,         \* what alloc_user_page is called for
    page_buf, page_pgtbl,
    nr_pgtbls, prev_nr_pgtbls,
    mapped,         \* pages of the region mapped so far
    loaded          \* per CPU: the program has been copied

local == <<region, page_buf, page_pgtbl, nr_pgtbls, prev_nr_pgtbls, mapped>>
space == <<pgd, user_pte, written>>
tables == <<kernel_pte, tlb, lock_pgd_user, space>>
vars == <<allocated, tables, pc, local, loaded>>

Frames == Usable \cup {NoFrame}
AllocPCs == {"alloc_buf", "read_pgd", "alloc_pgtbl", "map", "build", "unmap"}
LoadPCs == {"text_pte", "text_map", "text_copy", "text_unmap"}
PCs == {"start", "user", "halted"} \cup AllocPCs \cup LoadPCs

TypeOK ==
    /\ allocated \in [CPUs -> SUBSET (Usable \X (0 .. MAX_ALLOC_ORDER))]
    /\ kernel_pte \subseteq Usable
    /\ tlb \in [CPUs -> SUBSET Usable]
    /\ lock_pgd_user \in [CPUs -> BOOLEAN]
    /\ pgd \in [CPUs -> Frames]
    /\ user_pte \in [CPUs -> [UserPages -> Frames \cup Contents]]
    /\ written \in [CPUs -> SUBSET UserPages]
    /\ pc \in [CPUs -> PCs]
    /\ region \in [CPUs -> {"stack", "text"}]
    /\ page_buf \in [CPUs -> Frames] /\ page_pgtbl \in [CPUs -> Frames]
    /\ nr_pgtbls \in [CPUs -> 0 .. 1] /\ prev_nr_pgtbls \in [CPUs -> 0 .. 1]
    /\ mapped \in [CPUs -> 0 .. 2]
    /\ loaded \in [CPUs -> BOOLEAN]

PA == INSTANCE PageAllocator

(* mem_init has cleared the pte of every page it gave the allocator, and    *)
(* setup32 has loaded cr3, which emptied the TLB.  There is no user page    *)
(* table yet: what one holds is up to the memory that Build finds it in.    *)
Init ==
    /\ PA!Init
    /\ kernel_pte = {}
    /\ tlb = [c \in CPUs |-> {}]
    /\ lock_pgd_user = [c \in CPUs |-> FALSE]
    /\ pgd = [c \in CPUs |-> NoFrame]
    /\ user_pte = [c \in CPUs |-> [u \in UserPages |-> NoFrame]]
    /\ written = [c \in CPUs |-> {}]
    /\ pc = [c \in CPUs |-> "start"]
    /\ region = [c \in CPUs |-> "stack"]
    /\ page_buf = [c \in CPUs |-> NoFrame] /\ page_pgtbl = [c \in CPUs |-> NoFrame]
    /\ nr_pgtbls = [c \in CPUs |-> 0] /\ prev_nr_pgtbls = [c \in CPUs |-> 0]
    /\ mapped = [c \in CPUs |-> 0]
    /\ loaded = [c \in CPUs |-> FALSE]

Goto(c, label) == pc' = [pc EXCEPT ![c] = label]

(* An access to the linear address of a frame: it goes through the TLB or   *)
(* the page tables, or else faults, and trap_handler halts the processor,   *)
(* for map_kernel_with_pagetable has put the page directory entry there.    *)
Access(c, frame, label) ==
    IF frame \in tlb[c] \cup kernel_pte
    THEN tlb' = [tlb EXCEPT ![c] = @ \cup {frame}] /\ Goto(c, label)
    ELSE Goto(c, "halted") /\ UNCHANGED tlb

(* mutants: the pte is not set; it is not cleared; all of them are *)
MapKernel_Missing(frame) == frame \in Frames /\ UNCHANGED kernel_pte
UnmapKernel_Kept(frame) == frame \in Frames /\ UNCHANGED kernel_pte
UnmapKernel_All(frame) == frame \in Frames /\ kernel_pte' = {}

MapKernel(frame) == kernel_pte' = kernel_pte \cup {frame}
UnmapKernel(frame) == kernel_pte' = kernel_pte \ {frame}

(* what initialize_usermode does when alloc_user_page has returned: a       *)
(* failure leads straight to switch_to_um                                   *)
Return(c, err) ==
    /\ Goto(c, IF err THEN "user"
               ELSE IF region[c] = "stack" THEN "alloc_buf" ELSE "text_pte")
    /\ region' = [region EXCEPT ![c] = "text"]
    /\ page_buf' = [page_buf EXCEPT ![c] = NoFrame]
    /\ page_pgtbl' = [page_pgtbl EXCEPT ![c] = NoFrame]
    /\ nr_pgtbls' = [nr_pgtbls EXCEPT ![c] = 0]
    /\ prev_nr_pgtbls' = [prev_nr_pgtbls EXCEPT ![c] = 0]
    /\ mapped' = [mapped EXCEPT ![c] = 0]

-----------------------------------------------------------------------------
(***************************************************************************)
(* initialize_usermode, alloc_user_page                                    *)
(***************************************************************************)
Start(c) ==
    /\ pc[c] = "start"
    /\ pgd' = [pgd EXCEPT ![c] = NoFrame]
    /\ written' = [written EXCEPT ![c] = {}]
    /\ Goto(c, "alloc_buf")
    /\ UNCHANGED <<allocated, kernel_pte, tlb, lock_pgd_user, user_pte, local, loaded>>

Order(c) == NPAGES_TO_ORDER(NumPages(region[c]))

AllocBuf(c) ==
    /\ pc[c] = "alloc_buf"
    /\ \E p \in Usable :
         /\ PA!AllocateBlock(c, p, Order(c))
         /\ page_buf' = [page_buf EXCEPT ![c] = p]
    /\ Goto(c, "read_pgd")
    /\ UNCHANGED <<tables, region, page_pgtbl, nr_pgtbls, prev_nr_pgtbls, mapped, loaded>>

AllocBufFails(c) ==
    /\ pc[c] = "alloc_buf"
    /\ Return(c, TRUE)
    /\ UNCHANGED <<allocated, tables, loaded>>

(* entries of the page directory that the region needs and are not there *)
MissingTables(c) == IF pgd[c] = NoFrame THEN 1 ELSE 0

(* the count is the one page_pgtbl was allocated for: the lock is kept      *)
ReadPgdSame(c) ==
    /\ pc[c] = "read_pgd"
    /\ ~ lock_pgd_user[c]
    /\ MissingTables(c) = prev_nr_pgtbls[c]
    /\ lock_pgd_user' = [lock_pgd_user EXCEPT ![c] = TRUE]
    /\ nr_pgtbls' = [nr_pgtbls EXCEPT ![c] = MissingTables(c)]
    /\ Goto(c, "map")
    /\ UNCHANGED <<allocated, kernel_pte, tlb, space, region, page_buf,
                   page_pgtbl, prev_nr_pgtbls, mapped, loaded>>

(* it is not: the lock is released to allocate (a page_pgtbl allocated      *)
(* before is given back, though on one processor's own tables the count     *)
(* cannot have changed since)                                               *)
ReadPgdDiffers(c) ==
    /\ pc[c] = "read_pgd"
    /\ ~ lock_pgd_user[c]
    /\ MissingTables(c) # prev_nr_pgtbls[c]
    /\ nr_pgtbls' = [nr_pgtbls EXCEPT ![c] = MissingTables(c)]
    /\ IF page_pgtbl[c] = NoFrame THEN UNCHANGED allocated
       ELSE PA!FreeBlock(c, <<page_pgtbl[c], 0>>)
    /\ page_pgtbl' = [page_pgtbl EXCEPT ![c] = NoFrame]
    /\ IF MissingTables(c) = 0
       THEN /\ prev_nr_pgtbls' = [prev_nr_pgtbls EXCEPT ![c] = 0]
            /\ UNCHANGED pc
       ELSE Goto(c, "alloc_pgtbl") /\ UNCHANGED prev_nr_pgtbls
    /\ UNCHANGED <<tables, region, page_buf, mapped, loaded>>

(* mutant: the count that the table was allocated for is not kept *)
CountTables_Forgotten(c) == prev_nr_pgtbls' = [prev_nr_pgtbls EXCEPT ![c] = 0]

CountTables(c) == prev_nr_pgtbls' = [prev_nr_pgtbls EXCEPT ![c] = nr_pgtbls[c]]

AllocPgtbl(c) ==
    /\ pc[c] = "alloc_pgtbl"
    /\ \E p \in Usable :
         /\ PA!AllocateBlock(c, p, NPAGES_TO_ORDER(nr_pgtbls[c]))
         /\ page_pgtbl' = [page_pgtbl EXCEPT ![c] = p]
    /\ CountTables(c)
    /\ Goto(c, "read_pgd")
    /\ UNCHANGED <<tables, region, page_buf, nr_pgtbls, mapped, loaded>>

(* mutant: the region's block is not given back *)
GiveBackBuf_Leaked(c) == c \in CPUs /\ UNCHANGED allocated

GiveBackBuf(c) == PA!FreeBlock(c, <<page_buf[c], Order(c)>>)

(* the lock, released already, is released once more *)
AllocPgtblFails(c) ==
    /\ pc[c] = "alloc_pgtbl"
    /\ lock_pgd_user' = [lock_pgd_user EXCEPT ![c] = FALSE]
    /\ GiveBackBuf(c)
    /\ Return(c, TRUE)
    /\ UNCHANGED <<kernel_pte, tlb, space, loaded>>

(* the page table to write to: the directory's, or else the new one *)
PageTable(c) == IF pgd[c] # NoFrame THEN pgd[c] ELSE page_pgtbl[c]

Map(c) ==
    /\ pc[c] = "map"
    /\ MapKernel(PageTable(c))
    /\ Goto(c, "build")
    /\ UNCHANGED <<allocated, tlb, lock_pgd_user, space, local, loaded>>

(* mutants: every page gets the first frame; the directory is not written *)
NextFrame_First(c) == page_buf[c]
NewPgd_Kept(c) == pgd[c]

NextFrame(c) == FrameOf(page_buf[c], mapped[c])
NewPgd(c) == PageTable(c)

(* what the page table holds: page_alloc does not clear the page of a new   *)
(* one, nor does anything after it                                          *)
Held(c) == IF pgd[c] = NoFrame THEN [UserPages -> Contents] ELSE {user_pte[c]}

(* build_pagetable for one page: the directory entry, then the table entry, *)
(* which is where the temporary mapping is used.  The other entries stay as *)
(* they are.                                                                *)
Build(c) ==
    /\ pc[c] = "build"
    /\ pgd' = [pgd EXCEPT ![c] = NewPgd(c)]
    /\ Access(c, PageTable(c), "unmap")
    /\ LET pages == IF pc'[c] = "halted" THEN {} ELSE {Pages(region[c])[mapped[c] + 1]}
       IN  /\ \E held \in Held(c) :
                user_pte' = [user_pte EXCEPT ![c] =
                    [u \in UserPages |-> IF u \in pages THEN NextFrame(c) ELSE held[u]]]
           /\ written' = [written EXCEPT ![c] = @ \cup pages]
    /\ UNCHANGED <<allocated, kernel_pte, lock_pgd_user, local, loaded>>

(* the temporary mapping is removed; with the last page, the lock too *)
Unmap(c) ==
    /\ pc[c] = "unmap"
    /\ UnmapKernel(PageTable(c))
    /\ IF mapped[c] + 1 < NumPages(region[c])
       THEN /\ Goto(c, "map")
            /\ mapped' = [mapped EXCEPT ![c] = @ + 1]
            /\ UNCHANGED <<lock_pgd_user, region, page_buf, page_pgtbl,
                           nr_pgtbls, prev_nr_pgtbls>>
       ELSE /\ lock_pgd_user' = [lock_pgd_user EXCEPT ![c] = FALSE]
            /\ Return(c, FALSE)
    /\ UNCHANGED <<allocated, tlb, space, loaded>>

-----------------------------------------------------------------------------
(***************************************************************************)
(* load_usermode_text: the program fits one page (um.S)                    *)
(***************************************************************************)
(* *pte is read from the page table, whose temporary mapping is gone *)
TextPte(c) ==
    /\ pc[c] = "text_pte"
    /\ Access(c, pgd[c], "text_map")
    /\ UNCHANGED <<allocated, kernel_pte, lock_pgd_user, space, local, loaded>>

(* map_kernel_linear_with_pagetable for the frame, and later its unmapping, *)
(* without MAP_PGD_LOCKED: each takes the processor's lock and releases it  *)
TextMap(c) ==
    /\ pc[c] = "text_map"
    /\ ~ lock_pgd_user[c]
    /\ MapKernel(user_pte[c]["text"])
    /\ Goto(c, "text_copy")
    /\ UNCHANGED <<allocated, tlb, lock_pgd_user, space, local, loaded>>

TextCopy(c) ==
    /\ pc[c] = "text_copy"
    /\ Access(c, user_pte[c]["text"], "text_unmap")
    /\ loaded' = [loaded EXCEPT ![c] = pc'[c] # "halted"]
    /\ UNCHANGED <<allocated, kernel_pte, lock_pgd_user, space, local>>

TextUnmap(c) ==
    /\ pc[c] = "text_unmap"
    /\ ~ lock_pgd_user[c]
    /\ UnmapKernel(user_pte[c]["text"])
    /\ Goto(c, "user")
    /\ UNCHANGED <<allocated, tlb, lock_pgd_user, space, local, loaded>>

(* a TLB drops a translation whenever it needs the room *)
Evict(c) ==
    /\ \E frame \in tlb[c] : tlb' = [tlb EXCEPT ![c] = @ \ {frame}]
    /\ UNCHANGED <<allocated, kernel_pte, lock_pgd_user, space, pc, local, loaded>>

Step(c) ==
    \/ Start(c)
    \/ AllocBuf(c) \/ AllocBufFails(c)
    \/ ReadPgdSame(c) \/ ReadPgdDiffers(c)
    \/ AllocPgtbl(c) \/ AllocPgtblFails(c)
    \/ Map(c) \/ Build(c) \/ Unmap(c)
    \/ TextPte(c) \/ TextMap(c) \/ TextCopy(c) \/ TextUnmap(c)

Next == \E c \in CPUs : Step(c) \/ Evict(c)

Spec == Init /\ [][Next]_vars

(* A processor keeps executing.                                             *)
FairSpec == Spec /\ \A c \in CPUs : WF_vars(Step(c))
-----------------------------------------------------------------------------
(* the page table of a processor *)
TableFrames(c) == {pgd[c], page_pgtbl[c]} \ {NoFrame}

(* Address spaces are apart, as far as the kernel has written them: no      *)
(* frame is mapped twice, on one processor or on two, nor does a mapped     *)
(* frame serve as a page table.  The program is only ever copied where all  *)
(* the entries for it and its stack are written.  (The entries of a table   *)
(* that nobody writes map what the page happened to hold.)                  *)
UserIsolation ==
    \A c, d \in CPUs :
        /\ \A u \in written[c], v \in written[d] :
             (c # d \/ u # v) => user_pte[c][u] # user_pte[d][v]
        /\ \A u \in written[c] : user_pte[c][u] \notin TableFrames(d)
        /\ c # d => TableFrames(c) \cap TableFrames(d) = {}
        /\ pc[c] \in LoadPCs \/ loaded[c] => written[c] = UserPages

(* The temporary mapping of a page table or of the program's frame is there *)
(* until its user is done: no other processor's unmap removes it, although  *)
(* all of them edit the same kernel page tables without a common lock.      *)
MappedWhileUsed ==
    \A c \in CPUs :
        /\ pc[c] \in {"build", "unmap"} => PageTable(c) \in kernel_pte
        /\ pc[c] \in {"text_copy", "text_unmap"} => user_pte[c]["text"] \in kernel_pte

(* No block is lost, when allocations fail included: each block a processor *)
(* has is its page table, its stack, its text, or in alloc_user_page's      *)
(* hands.                                                                   *)
BlocksAccounted ==
    \A c \in CPUs :
        allocated[c] =
            {<<t, 0>> : t \in TableFrames(c)}
              \cup {<<user_pte[c][u], 1>> : u \in written[c] \cap {"stack0"}}
              \cup {<<user_pte[c][u], 0>> : u \in written[c] \cap {"text"}}
              \cup {<<b, Order(c)>> : b \in {page_buf[c]} \ {NoFrame}}

(* Nothing of the kernel's view of the frames is left behind: when all the  *)
(* processors are in user mode, no pte of a frame is present.               *)
NothingLeftMapped == (\A c \in CPUs : pc[c] = "user") => kernel_pte = {}

(* Every processor leaves alloc_user_page for good, into user mode or, if   *)
(* it faults, to a halt: the retry for page tables does not go on for ever. *)
StartEnds == \A c \in CPUs : <>[](pc[c] \in {"user", "halted"})

(* memory.c:213 says that a page's pte is cleared "to make it               *)
(* inaccessible": an access succeeds only while the pte is present.         *)
ClearedInaccessible ==
    [][\A c \in CPUs :
          (pc[c] = "text_pte" /\ pc'[c] = "text_map") => pgd[c] \in kernel_pte]_vars
=============================================================================
