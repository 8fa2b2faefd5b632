------------------------------ MODULE MemInit ------------------------------
(***************************************************************************)
(* From the firmware's E820 map to the pages of the page allocator: the     *)
(* boot loader asks for the map (bootldr.S 36-94), mem_init (memory.c       *)
(* 92-226) turns it into the flags of the struct kpages and hands the free  *)
(* pages to page_add_to_slot.  BuddyAllocator starts from the result:       *)
(* kpage_last and, as Unusable, the pages with a flag.                      *)
(*                                                                         *)
(* Addresses count in units of half a page, so that an entry can begin or   *)
(* end inside a page; pages are numbered from 0.                            *)
(***************************************************************************)
EXTENDS Integers, Sequences

CONSTANTS
    Maps,            \* the E820 maps the firmware may have
    MappedEnd,       \* pages the 32-bit entry code has mapped: image, tables
    PtesPerTable,    \* pages one page table maps
    KpagesPerPage,   \* struct kpages in a page
    MaxPages,        \* MAX_SUPPORTED_MEMORY, and the 32-bit address space
    LinearPages,     \* pages from KERNEL_VIRT_ADDR to the end of that space
    FixedReserved,   \* BIOS data areas, video and BIOS memory
    FixedKernel      \* BASE_WRITE_PAGE and the start code of the processors

PAGE_SIZE == 2
Page(addr) == addr \div PAGE_SIZE
ALIGN_PAGE(addr) == (addr + PAGE_SIZE - 1) \div PAGE_SIZE    \* in pages
CeilDiv(a, b) == (a + b - 1) \div b

Entries == [base : Nat, length : Nat, type : Nat]
First(e) == Page(e.base)                       \* first page it touches
Limit(e) == ALIGN_PAGE(e.base + e.length)      \* first page after it
Touched(e) == First(e) .. Limit(e) - 1

(* What the code relies on, and PC firmware gives: entries ascend and begin *)
(* at 0; no entry and no gap straddles the supported memory; the page that  *)
(* memory ends with is not shared by two entries; and it holds the fixed    *)
(* areas.  The last entry counted is one of the two before the last.        *)
Min2(a, b) == IF a < b THEN a ELSE b
WellFormed(map) ==
    /\ map \in Seq(Entries)
    /\ Len(map) >= 3
    /\ First(map[1]) = 0
    /\ \A j, k \in 1 .. Len(map) : j < k =>
          First(map[j]) <= First(map[k]) /\ Limit(map[j]) <= Limit(map[k])
    /\ \A k \in 1 .. Len(map) : Limit(map[k]) <= MaxPages \/ First(map[k]) >= MaxPages
    /\ \A k \in 1 .. Len(map) - 1 :
          Limit(map[k]) <= MaxPages => First(map[k + 1]) <= MaxPages
    /\ \A k \in 1 .. Len(map) - 1 : \A j \in 1 .. k - 1 :
          \/ Limit(map[j]) < Limit(map[k])
          \/ Limit(map[k]) < Min2(Limit(map[Len(map) - 2]), MaxPages)
    /\ \A p \in FixedReserved \cup FixedKernel :
          p < Min2(Limit(map[Len(map) - 2]), MaxPages)

ASSUME MapsAssumption == \A map \in Maps : WellFormed(map)
ASSUME LayoutAssumption ==
    /\ MappedEnd \in Nat /\ MaxPages \in Nat /\ LinearPages \in Nat
    /\ PtesPerTable \in Nat \ {0} /\ KpagesPerPage \in Nat \ {0}
    /\ FixedReserved \subseteq Nat /\ FixedKernel \subseteq Nat

VARIABLES
    pc,
    e820,              \* the firmware's map, as the calls of int 15h return it
    style,             \* how the firmware ends it, see Styles
    asked,             \* entries stored at E820_MAP_ADDRESS
    e820_count,        \* %ebp, then the word at E820_MAP_COUNT
    nr_kpages,
    kp_flags,          \* flags of the struct kpages
    beyond,            \* indexes past the end of kpages that were written
    i,                 \* the next entry of the E820 loop
    addr,              \* in pages; first page after what the loop has seen
    kpage_last,
    handed             \* pages given to page_add_to_slot, pte cleared

firmware == <<e820, style>>
loader == <<asked, e820_count>>
arrays == <<nr_kpages, kp_flags, beyond>>
loop == <<i, addr, kpage_last>>
vars == <<pc, firmware, loader, arrays, loop, handed>>

(* "last": %ebx is 0 with the last entry; "carry": the call after the last  *)
(* entry fails; "wide": entries of 24 bytes, as ACPI 3 has them             *)
Styles == {"last", "carry", "wide"}

Init ==
    /\ pc = "e820"
    /\ e820 \in Maps
    /\ style \in Styles
    /\ asked = 0 /\ e820_count = 0
    /\ nr_kpages = 0
    /\ kp_flags = << >>
    /\ beyond = {}
    /\ i = 0 /\ addr = 0 /\ kpage_last = 0
    /\ handed = {}

-----------------------------------------------------------------------------
(***************************************************************************)
(* bootldr.S                                                               *)
(***************************************************************************)
(* the first call: the entry is stored; its size is not looked at           *)
E820First ==
    /\ pc = "e820"
    /\ asked' = 1
    /\ pc' = "e820_next_entry"
    /\ UNCHANGED <<firmware, e820_count, arrays, loop, handed>>

LastCall == \/ style = "carry" /\ asked = Len(e820)
            \/ style # "carry" /\ asked + 1 = Len(e820)

(* the call that ends the map; an entry that comes with it is stored        *)
E820Done ==
    /\ pc = "e820_next_entry"
    /\ LastCall
    /\ asked' = Len(e820)
    /\ pc' = "mem_init"
    /\ UNCHANGED <<firmware, e820_count, arrays, loop, handed>>

E820NextEntry ==
    /\ pc = "e820_next_entry"
    /\ ~ LastCall
    /\ style # "wide"
    /\ asked' = asked + 1
    /\ e820_count' = e820_count + 1
    /\ UNCHANGED <<pc, firmware, arrays, loop, handed>>

(* an entry that is not of 20 bytes: the map is given up and the kernel     *)
(* finds whatever is at E820_MAP_COUNT; nothing is modelled from there      *)
E820Failed ==
    /\ pc = "e820_next_entry"
    /\ ~ LastCall
    /\ style = "wide"
    /\ asked' = asked + 1
    /\ pc' = "e820_failed"
    /\ UNCHANGED <<firmware, e820_count, arrays, loop, handed>>

-----------------------------------------------------------------------------
(***************************************************************************)
(* mem_init                                                                *)
(***************************************************************************)
Counted == 1 .. e820_count                    \* entries mem_init looks at

EffectivePages == Min2(Limit(e820[e820_count]), MaxPages)
Pgtbls(nr) == CeilDiv(nr, PtesPerTable) - CeilDiv(MappedEnd, PtesPerTable)

(* page after the last one of the kernel's image, page tables and kpages    *)
KernelDataEnd(nr) == MappedEnd + Pgtbls(nr) + CeilDiv(nr, KpagesPerPage)
end_kernel_data == KernelDataEnd(nr_kpages)

(* kpages is placed after the page tables and zeroed; if it does not fit    *)
(* into the kernel's address space mem_init fails                           *)
Layout ==
    /\ pc = "mem_init"
    /\ nr_kpages' = EffectivePages
    /\ IF MaxPages - LinearPages + KernelDataEnd(EffectivePages) > MaxPages
       THEN pc' = "failed" /\ UNCHANGED <<kp_flags, i, addr>>
       ELSE /\ pc' = "entries"
            /\ kp_flags' = [p \in 0 .. EffectivePages - 1 |-> {}]
            /\ i' = 1
            /\ addr' = First(e820[1])
    /\ UNCHANGED <<firmware, loader, beyond, kpage_last, handed>>

Kpages == 0 .. nr_kpages - 1

(* mutant: the entry's type replaces what an earlier entry said of the page *)
EntryFlags_Assigned(e, p) ==
    IF e.type # 1 THEN {"RESERVED"}
    ELSE IF p <= end_kernel_data THEN {"KERNEL"} ELSE {}

(* what the loop does to the page p of the entry e *)
EntryFlags(e, p) ==
    IF e.type # 1 THEN kp_flags[p] \cup {"RESERVED"}
    ELSE IF "RESERVED" \notin kp_flags[p] /\ p <= end_kernel_data
    THEN kp_flags[p] \cup {"KERNEL"}
    ELSE kp_flags[p]

(* pages between entry k and the next, of unknown state *)
Gap(k) == IF k # e820_count THEN Limit(e820[k]) .. First(e820[k + 1]) - 1 ELSE {}

(* mutant: the loop runs over every entry counted *)
MoreEntries_All == i <= e820_count

MoreEntries == i <= e820_count /\ addr < nr_kpages

E820Entry ==
    /\ pc = "entries"
    /\ MoreEntries
    /\ LET e == e820[i]
           written == Touched(e) \cup Gap(i)
       IN  /\ kp_flags' = [p \in Kpages |->
                 IF p \in Gap(i)
                 THEN (IF p \in Touched(e) THEN EntryFlags(e, p) ELSE kp_flags[p])
                        \cup {"RESERVED"}
                 ELSE IF p \in Touched(e) THEN EntryFlags(e, p) ELSE kp_flags[p]]
           /\ beyond' = beyond \cup (written \ Kpages)
           /\ addr' = IF Gap(i) = {} THEN Limit(e) ELSE First(e820[i + 1])
    /\ i' = i + 1
    /\ UNCHANGED <<pc, firmware, loader, nr_kpages, kpage_last, handed>>

EntriesDone ==
    /\ pc = "entries"
    /\ ~ MoreEntries
    /\ kpage_last' = addr - 1
    /\ pc' = "fixed"
    /\ UNCHANGED <<firmware, loader, arrays, i, addr, handed>>

(* what no map is asked about *)
FixedPages ==
    /\ pc = "fixed"
    /\ kp_flags' = [p \in Kpages |->
          kp_flags[p] \cup (IF p \in FixedReserved THEN {"RESERVED"} ELSE {})
                      \cup (IF p \in FixedKernel THEN {"KERNEL"} ELSE {})]
    /\ beyond' = beyond \cup ((FixedReserved \cup FixedKernel) \ Kpages)
    /\ pc' = "add"
    /\ UNCHANGED <<firmware, loader, nr_kpages, loop, handed>>

kpage_is_free(p) == kp_flags[p] = {}

(* mutant: kpage_last itself is left out *)
AddedPages_Strict == {p \in 0 .. kpage_last - 1 : p \in Kpages /\ kpage_is_free(p)}

AddedPages == {p \in 0 .. kpage_last : p \in Kpages /\ kpage_is_free(p)}

(* every page's lock and order are initialised, every free page goes to the *)
(* allocator and its pte is cleared; the loop page by page is BootPage of   *)
(* BuddyAllocator                                                           *)
AddPages ==
    /\ pc = "add"
    /\ handed' = AddedPages
    /\ beyond' = beyond \cup ((0 .. kpage_last) \ Kpages)
    /\ pc' = "done"
    /\ UNCHANGED <<firmware, loader, nr_kpages, kp_flags, loop>>

Next == \/ E820First \/ E820NextEntry \/ E820Done \/ E820Failed
        \/ Layout \/ E820Entry \/ EntriesDone \/ FixedPages \/ AddPages

Spec == Init /\ [][Next]_vars

-----------------------------------------------------------------------------
(* Only memory reaches the allocator that some entry calls free and no      *)
(* other entry, sharing a page with it or overlapping it, calls reserved;   *)
(* never a gap, never the fixed areas, and never the kernel's own image,    *)
(* page tables or kpages, whose pte would be cleared under its feet.        *)
OnlyFreeMemory ==
    \A p \in handed :
        /\ \E k \in Counted : p \in Touched(e820[k])
        /\ \A k \in Counted : p \in Touched(e820[k]) => e820[k].type = 1
        /\ p \notin FixedReserved \cup FixedKernel
        /\ p > end_kernel_data

(* And all of it: a page in a free entry alone, above the kernel and its    *)
(* first page after, within the supported memory, is handed over.           *)
AllFreeMemory ==
    pc = "done" =>
        \A k \in Counted : \A p \in Touched(e820[k]) :
            \/ p \in handed
            \/ \E l \in Counted : e820[l].type # 1 /\ p \in Touched(e820[l])
            \/ p <= end_kernel_data \/ p >= MaxPages
            \/ p \in FixedReserved \cup FixedKernel

(* kpages is indexed inside its bounds, although the loop follows the map's *)
(* addresses: an entry or a gap that would go past it is not reached.       *)
InsideKpages == beyond = {}

(* bootldr.S:6: the boot loader "Enumerates and stores E820 map".           *)
MapStored == pc = "mem_init" => e820_count = Len(e820)
=============================================================================
