------------------------------ MODULE SmpBoot ------------------------------
(***************************************************************************)
(* The start of the processors and the kernel page directories they share:  *)
(* start_kernel (start.c) on the boot processor, mpinit.S and               *)
(* finish_smp_initialization (smp.c) on the others.                         *)
(*                                                                         *)
(* Each processor has a page directory of its own.  Its kernel half is a    *)
(* copy of the master directory, to which map_kernel_with_pagetable adds;   *)
(* an entry added after the copy reaches a processor only when it faults    *)
(* and trap_handler copies the entry.  That handler starts by reading the   *)
(* local APIC (PROLOGUE of handlr32.S) and prints under lock_debug_mem, so  *)
(* a fault on either of the two pages it needs itself would be its last.    *)
(*                                                                         *)
(* An entry is there or not: the page table behind it is fixed.  Machines   *)
(* differ in what the firmware and the hardware have and where.             *)
(***************************************************************************)
EXTENDS Naturals, FiniteSets, Sequences

CONSTANTS
    CPUs, BSP,        \* the processors, and the one that boots
    Machines,         \* the machines to boot, see Machine
    Nobody,           \* the owner of a free lock
    MaxTicks          \* bound: interrupts taken by one processor

(* Pages of the kernel's address space:                                     *)
(*   low     the first pages at their physical address, the null pointer's  *)
(*   kernel  what boot32.S maps: code, stacks, page directories, low memory *)
(*   tables  page tables and struct kpages, mapped by mem_init              *)
(*   log     kernel_debug_buffer                                            *)
(*   frame   the user frame a processor is filling, at its linear address   *)
(*   rsdt, table   the ACPI tables        ioapic, lapic   device registers  *)
Pages == {"low", "kernel", "tables", "log", "frame", "rsdt", "table", "ioapic", "lapic"}

(* Entries of a page directory by address: the first one and the user       *)
(* program's in the user half, then the kernel's image, memory above it,    *)
(* memory with ACPI tables, devices.                                        *)
Directory == <<"low", "um", "kernel", "heap", "acpi", "devices">>
Entries == {Directory[i] : i \in 1 .. Len(Directory)}

(* table is the page that the tables found through the RSDT lie on *)
Machine == [acpi : BOOLEAN, ioapic : BOOLEAN, lapic : BOOLEAN,
            table : {"rsdt", "table"}, entry : [Pages -> Entries]]

(* all but the first pages have addresses above the first directory entry's *)
ASSUME MachinesAssumption ==
    /\ IsFiniteSet(CPUs) /\ BSP \in CPUs /\ Nobody \notin CPUs
    /\ MaxTicks \in Nat
    /\ \A m \in Machines : /\ m \in Machine
                           /\ m.ioapic => m.acpi
                           /\ m.entry["low"] = "low" /\ m.entry["kernel"] = "kernel"
                           /\ \A p \in Pages \ {"low"} : m.entry[p] # "low"

APs == CPUs \ {BSP}

VARIABLES
    machine,
    master,         \* entries of _master_kernel_pg_dir
    pgd,            \* per CPU: entries of its own directory
    pte,            \* pages with a present pte in the kernel page tables
    frame_pte,      \* processors whose frame has one for the time being
    own_cr3,        \* per CPU: cr3 holds its own directory, else the master's
    tlb_low,        \* per CPU: its TLB has a translation for the low page
    pc,
    copied,         \* per CPU: entries that setup32's memcpy has copied
    debug_owner,    \* who holds lock_debug_mem
    trap, cr2,      \* per CPU: where its page fault handling is, for which page
    irq,            \* per CPU: where its interrupt handling is
    sched_tick,
    lapic_present,
    sipi,           \* smp_start has sent the startup IPI
    smp_owner,      \* who holds spinlock_smp
    smp_nums, smp_bits,
    seen            \* per CPU: what it has read of the two

ptes == <<pte, frame_pte>>
paging == <<master, pgd, ptes, own_cr3, tlb_low>>
faults == <<trap, cr2, irq, sched_tick>>
smp == <<lapic_present, sipi, smp_owner, smp_nums, smp_bits, seen>>
vars == <<machine, paging, pc, copied, debug_owner, faults, smp>>

PrintPCs == {"print_start", "print_setup", "print_acpi", "print_lapic",
             "print_smp", "print_started"}
MapPCs == {"debug_init", "map_rsdt", "map_table", "map_ioapic", "map_lapic"}
BspPCs == {"mem_init", "read_rsdt", "read_table", "read_ioapic", "write_ioapic",
           "read_lapic", "set_present", "calibrate", "prepare_aps", "send_sipi", "wait"}
ApPCs == {"off", "jump_high", "invlpg", "clear_low", "smp_lock", "smp_read",
          "smp_write", "smp_unlock", "write_lapic"}
PCs == PrintPCs \cup MapPCs \cup BspPCs \cup ApPCs
       \cup {"copy", "load_cr3", "initialize_usermode", "use_frame", "user"}

TypeOK ==
    /\ machine \in Machines
    /\ master \subseteq Entries /\ pgd \in [CPUs -> SUBSET Entries]
    /\ pte \subseteq Pages \ {"frame"} /\ frame_pte \subseteq CPUs
    /\ own_cr3 \in [CPUs -> BOOLEAN] /\ tlb_low \in [CPUs -> BOOLEAN]
    /\ pc \in [CPUs -> PCs]
    /\ copied \in [CPUs -> 0 .. Len(Directory)]
    /\ debug_owner \in CPUs \cup {Nobody} /\ smp_owner \in CPUs \cup {Nobody}
    /\ trap \in [CPUs -> {"none", "prologue", "printf", "locked", "halted", "reset"}]
    /\ cr2 \in [CPUs -> Pages]
    /\ irq \in [CPUs -> {"none", "prologue", "handler"}]
    /\ sched_tick \in [CPUs -> 0 .. MaxTicks]
    /\ lapic_present \in BOOLEAN /\ sipi \in BOOLEAN
    /\ smp_nums \in 0 .. Cardinality(APs) /\ smp_bits \subseteq CPUs
    /\ seen \in [CPUs -> [nums : 0 .. Cardinality(APs), bits : SUBSET CPUs]]

InitialNums == 0

(* start_kernel is entered on the master directory; the identity mapping    *)
(* is gone from it, the TLB may know it still.  The other directories hold  *)
(* whatever was in memory.                                                  *)
Init ==
    /\ machine \in Machines
    /\ master = {"kernel"} /\ pte = {"low", "kernel"} /\ frame_pte = {}
    /\ \E garbage \in {{}, Entries} : pgd = [c \in CPUs |-> garbage]
    /\ own_cr3 = [c \in CPUs |-> FALSE]
    /\ \E stale \in BOOLEAN : tlb_low = [c \in CPUs |-> c = BSP /\ stale]
    /\ pc = [c \in CPUs |-> IF c = BSP THEN "mem_init" ELSE "off"]
    /\ copied = [c \in CPUs |-> 0]
    /\ debug_owner = Nobody
    /\ trap = [c \in CPUs |-> "none"] /\ cr2 = [c \in CPUs |-> "low"]
    /\ irq = [c \in CPUs |-> "none"] /\ sched_tick = [c \in CPUs |-> 0]
    /\ lapic_present = FALSE /\ sipi = FALSE
    /\ smp_owner = Nobody /\ smp_nums = InitialNums /\ smp_bits = {BSP}
    /\ seen = [c \in CPUs |-> [nums |-> 0, bits |-> {}]]

-----------------------------------------------------------------------------
(***************************************************************************)
(* Memory accesses, page faults and interrupts                             *)
(***************************************************************************)
EntryOf(page) == machine.entry[page]

HasPte(c, page) == page \in pte \/ (page = "frame" /\ c \in frame_pte)

Reachable(c, page) ==
    \/ HasPte(c, page) /\ EntryOf(page) \in (IF own_cr3[c] THEN pgd[c] ELSE master)
    \/ page = "low" /\ tlb_low[c]

(* the page besides the kernel's own that the code at pc is about to access *)
CodeTouches(c) ==
    CASE pc[c] = "jump_high" -> "low"
      [] pc[c] \in MapPCs \cup {"initialize_usermode"} -> "tables"
      [] pc[c] = "use_frame" -> "frame"
      [] pc[c] \in PrintPCs /\ debug_owner = c -> "log"
      [] pc[c] = "read_rsdt" -> "rsdt"
      [] pc[c] = "read_table" -> machine.table
      [] pc[c] = "read_ioapic" -> "ioapic"
      [] pc[c] = "write_ioapic" -> IF machine.ioapic THEN "ioapic" ELSE "low"
      [] pc[c] \in {"read_lapic", "send_sipi", "write_lapic"} -> "lapic"
      [] OTHER -> "kernel"

(* PROLOGUE reads the local APIC id when there is a local APIC *)
PrologueTouches == IF lapic_present THEN "lapic" ELSE "kernel"

(* sendEOI: ioapic_initialized holds whenever interrupts are on, hence      *)
(* always the local APIC's register, at 0xb0 if the base was never read     *)
EOITouches == IF machine.lapic THEN "lapic" ELSE "low"

TrapTouches(c) ==
    CASE trap[c] = "prologue" -> PrologueTouches
      [] trap[c] = "locked" -> "log"
      [] OTHER -> "kernel"

IrqTouches(c) == IF irq[c] = "prologue" THEN PrologueTouches ELSE EOITouches

Touches(c) ==
    IF trap[c] # "none" THEN TrapTouches(c)
    ELSE IF irq[c] # "none" THEN IrqTouches(c)
    ELSE CodeTouches(c)

(* the code at the label runs: nothing has interrupted it, and it can       *)
(* access what it needs                                                     *)
At(c, label) == /\ pc[c] = label
                /\ trap[c] = "none" /\ irq[c] = "none"
                /\ Reachable(c, Touches(c))

Goto(c, label) == pc' = [pc EXCEPT ![c] = label]

(* before lidt of setup32 a fault resets the machine *)
NoIDT(c) == pc[c] \in {"mem_init", "debug_init", "print_start", "copy"} \cup
                      (ApPCs \ {"write_lapic"})

PageFault(c) ==
    /\ pc[c] # "off" /\ trap[c] \notin {"halted", "reset"}
    /\ ~ Reachable(c, Touches(c))
    /\ cr2' = [cr2 EXCEPT ![c] = Touches(c)]
    /\ trap' = [trap EXCEPT ![c] = IF NoIDT(c) THEN "reset" ELSE "prologue"]
    /\ UNCHANGED <<machine, paging, pc, copied, debug_owner, irq, sched_tick, smp>>

TrapPrologue(c) ==
    /\ trap[c] = "prologue" /\ Reachable(c, Touches(c))
    /\ trap' = [trap EXCEPT ![c] = "printf"]
    /\ UNCHANGED <<machine, paging, pc, copied, debug_owner, cr2, irq, sched_tick, smp>>

TrapPrintf(c) ==
    /\ trap[c] = "printf" /\ debug_owner = Nobody
    /\ debug_owner' = c
    /\ trap' = [trap EXCEPT ![c] = "locked"]
    /\ UNCHANGED <<machine, paging, pc, copied, cr2, irq, sched_tick, smp>>

(* mutant: an entry that is there already is copied again, others are not *)
MayRepair_Present(c, e) == e \in pgd[c] /\ e \in master

MayRepair(c, e) == e \notin pgd[c] /\ e \in master

(* printf returns; the entry is copied and the access tried again, or the   *)
(* processor stops                                                          *)
TrapRepair(c) ==
    LET e == EntryOf(cr2[c]) IN
    /\ trap[c] = "locked" /\ Reachable(c, Touches(c))
    /\ debug_owner' = Nobody
    /\ IF MayRepair(c, e)
       THEN /\ pgd' = [pgd EXCEPT ![c] = @ \cup {e}]
            /\ trap' = [trap EXCEPT ![c] = "none"]
       ELSE /\ trap' = [trap EXCEPT ![c] = "halted"]
            /\ UNCHANGED pgd
    /\ UNCHANGED <<machine, master, ptes, own_cr3, tlb_low, pc, copied, cr2, irq,
                   sched_tick, smp>>

(* pit_wait and user mode have interrupts on, and so has the boot processor *)
(* after the sti of smp_start                                               *)
InterruptsOn(c) ==
    \/ pc[c] \in {"calibrate", "wait", "user"}
    \/ /\ c = BSP /\ lapic_present
       /\ pc[c] \in {"initialize_usermode", "use_frame", "print_started"}

Interrupt(c) ==
    /\ InterruptsOn(c) /\ trap[c] = "none" /\ irq[c] = "none"
    /\ sched_tick[c] < MaxTicks
    /\ irq' = [irq EXCEPT ![c] = "prologue"]
    /\ UNCHANGED <<machine, paging, pc, copied, debug_owner, trap, cr2, sched_tick, smp>>

IrqHandler(c) ==
    /\ irq[c] = "prologue" /\ trap[c] = "none" /\ Reachable(c, Touches(c))
    /\ irq' = [irq EXCEPT ![c] = "handler"]
    /\ sched_tick' = [sched_tick EXCEPT ![c] = @ + 1]
    /\ UNCHANGED <<machine, paging, pc, copied, debug_owner, trap, cr2, smp>>

IrqEOI(c) ==
    /\ irq[c] = "handler" /\ trap[c] = "none" /\ Reachable(c, Touches(c))
    /\ irq' = [irq EXCEPT ![c] = "none"]
    /\ UNCHANGED <<machine, paging, pc, copied, debug_owner, trap, cr2, sched_tick, smp>>

(* the TLB may load the translation of the low page while it is there *)
FillTlb(c) ==
    /\ own_cr3[c] /\ "low" \in pgd[c] /\ ~ tlb_low[c]
    /\ tlb_low' = [tlb_low EXCEPT ![c] = TRUE]
    /\ UNCHANGED <<machine, master, pgd, ptes, own_cr3, pc, copied, debug_owner, faults, smp>>

-----------------------------------------------------------------------------
(***************************************************************************)
(* What both kinds of processors run                                       *)
(***************************************************************************)
(* printf takes lock_debug_mem, writes the buffer and gives the lock back;  *)
(* one call stands for those that follow each other                         *)
PrintfLock(c) ==
    /\ pc[c] \in PrintPCs /\ At(c, pc[c])
    /\ debug_owner = Nobody
    /\ debug_owner' = c
    /\ UNCHANGED <<machine, paging, pc, copied, faults, smp>>

AfterPrint(label) ==
    CASE label = "print_start" -> "copy"
      [] label = "print_setup" -> "load_cr3"
      [] label = "print_acpi" -> "read_table"
      [] label = "print_lapic" -> "read_lapic"
      [] label = "print_smp" -> "initialize_usermode"
      [] label = "print_started" -> "user"

PrintfUnlock(c) ==
    /\ pc[c] \in PrintPCs /\ At(c, pc[c])
    /\ debug_owner = c
    /\ debug_owner' = Nobody
    /\ Goto(c, AfterPrint(pc[c]))
    /\ UNCHANGED <<machine, paging, copied, faults, smp>>

(* mutant: the processor's own directory gets the entry *)
Mapped_Local(c, page) ==
    /\ pte' = pte \cup {page}
    /\ pgd' = [pgd EXCEPT ![c] = @ \cup {EntryOf(page)}]
    /\ UNCHANGED <<master, frame_pte, own_cr3, tlb_low>>

(* map_kernel_with_pagetable without MAP_LOCAL_CPU, under the lock of the   *)
(* master's entry                                                           *)
Mapped(c, page) ==
    /\ pte' = pte \cup {page}
    /\ master' = master \cup {EntryOf(page)}
    /\ UNCHANGED <<pgd, frame_pte, own_cr3, tlb_low>>

Map(c, label, page, next) ==
    /\ At(c, label)
    /\ Mapped(c, page)
    /\ Goto(c, next)
    /\ UNCHANGED <<machine, copied, debug_owner, faults, smp>>

Read(c, label, next) ==
    /\ At(c, label)
    /\ Goto(c, next)
    /\ UNCHANGED <<machine, paging, copied, debug_owner, faults, smp>>

(* mutant: only what boot32.S mapped is copied, the rest left to faults *)
Copy_Image(c, e) ==
    pgd' = [pgd EXCEPT ![c] = IF e = "kernel" THEN @ \cup {e} ELSE @ \ {e}]

Copy(c, e) ==
    pgd' = [pgd EXCEPT ![c] = IF e \in master THEN @ \cup {e} ELSE @ \ {e}]

(* setup32: memcpy of the master directory, for an application processor    *)
(* over the directory it runs on, then the descriptor tables                *)
CopyEntry(c) ==
    /\ At(c, "copy")
    /\ Copy(c, Directory[copied[c] + 1])
    /\ copied' = [copied EXCEPT ![c] = @ + 1]
    /\ sched_tick' = [sched_tick EXCEPT ![c] = 0]
    /\ Goto(c, IF copied'[c] < Len(Directory) THEN "copy"
               ELSE IF c = BSP THEN "print_setup" ELSE "load_cr3")
    /\ UNCHANGED <<machine, master, ptes, own_cr3, tlb_low, debug_owner, trap, cr2, irq, smp>>

AfterSetup(c) ==
    IF c # BSP THEN "map_lapic" ELSE IF machine.acpi THEN "map_rsdt" ELSE "write_ioapic"

(* mutant: the directory is in use already, so cr3 is left alone *)
LoadCr3_Skipped(c) ==
    /\ At(c, "load_cr3")
    /\ own_cr3' = [own_cr3 EXCEPT ![c] = TRUE]
    /\ Goto(c, AfterSetup(c))
    /\ UNCHANGED <<machine, master, pgd, ptes, tlb_low, copied, debug_owner, faults, smp>>

LoadCr3(c) ==
    /\ At(c, "load_cr3")
    /\ own_cr3' = [own_cr3 EXCEPT ![c] = TRUE]
    /\ tlb_low' = [tlb_low EXCEPT ![c] = FALSE]
    /\ Goto(c, AfterSetup(c))
    /\ UNCHANGED <<machine, master, pgd, ptes, copied, debug_owner, faults, smp>>

AfterMapLapic(c) == IF c = BSP THEN "print_lapic" ELSE "write_lapic"

(* mutant: lapic_present is set before the registers are first accessed *)
MapLapic_Present(c) ==
    /\ At(c, "map_lapic")
    /\ Mapped(c, "lapic")
    /\ lapic_present' = TRUE
    /\ Goto(c, AfterMapLapic(c))
    /\ UNCHANGED <<machine, copied, debug_owner, faults, sipi, smp_owner, smp_nums,
                   smp_bits, seen>>

MapLapic(c) == Map(c, "map_lapic", "lapic", AfterMapLapic(c))

(* mutant: the linear address of a user frame is mapped for everybody *)
UserMaps_Shared(c) ==
    /\ master' = master \cup {EntryOf("frame")}
    /\ pgd' = [pgd EXCEPT ![c] = (@ \ {"low"}) \cup {"um", EntryOf("frame")}]
    /\ frame_pte' = frame_pte \cup {c}

(* the user half is cleared and the user pages entered; the linear address  *)
(* of a frame is mapped with MAP_LOCAL_CPU, for as long as the kernel fills *)
(* it.  One such mapping stands for those that follow each other, which     *)
(* module UserMode has.                                                     *)
UserMaps(c) ==
    /\ pgd' = [pgd EXCEPT ![c] = (@ \ {"low"}) \cup {"um", EntryOf("frame")}]
    /\ frame_pte' = frame_pte \cup {c}
    /\ UNCHANGED master

InitializeUserMode(c) ==
    /\ At(c, "initialize_usermode")
    /\ UserMaps(c)
    /\ Goto(c, "use_frame")
    /\ UNCHANGED <<machine, pte, own_cr3, tlb_low, copied, debug_owner, faults, smp>>

UnmapFrame(c) ==
    /\ At(c, "use_frame")
    /\ frame_pte' = frame_pte \ {c}
    /\ Goto(c, IF c = BSP THEN "print_started" ELSE "user")
    /\ UNCHANGED <<machine, master, pgd, pte, own_cr3, tlb_low, copied, debug_owner, faults, smp>>

-----------------------------------------------------------------------------
(***************************************************************************)
(* The boot processor: start_kernel                                        *)
(***************************************************************************)
MemInit == Map(BSP, "mem_init", "tables", "debug_init")

DebugInit == Map(BSP, "debug_init", "log", "print_start")

(* acpi_init and acpi_process_table, which reads a table's length before    *)
(* it maps the table                                                        *)
AcpiInit ==
    \/ Map(BSP, "map_rsdt", "rsdt", "read_rsdt")
    \/ Read(BSP, "read_rsdt", "print_acpi")
    \/ Read(BSP, "read_table", "map_table")
    \/ Map(BSP, "map_table", machine.table, IF machine.ioapic THEN "map_ioapic"
                                            ELSE "write_ioapic")

IoapicAllocate ==
    \/ Map(BSP, "map_ioapic", "ioapic", "read_ioapic")
    \/ Read(BSP, "read_ioapic", "write_ioapic")

(* with or without one, at base_register, which is 0 then *)
IoapicInit ==
    Read(BSP, "write_ioapic", IF machine.lapic THEN "map_lapic" ELSE "initialize_usermode")

SetPresent ==
    /\ At(BSP, "set_present")
    /\ lapic_present' = TRUE
    /\ Goto(BSP, "calibrate")
    /\ UNCHANGED <<machine, paging, copied, debug_owner, faults, sipi, smp_owner, smp_nums,
                   smp_bits, seen>>

(* the first read of the registers is also the first access to them: it     *)
(* may fault, as long as lapic_present does not hold                        *)
InitLapic ==
    \/ Read(BSP, "read_lapic", "set_present")
    \/ SetPresent
    \/ Read(BSP, "calibrate", "prepare_aps")

(* initialize_kernel_pg_tables: the low addresses stay mapped until an      *)
(* application processor runs at the high ones                              *)
InitializeKernelPgTables ==
    /\ At(BSP, "prepare_aps")
    /\ pgd' = [c \in CPUs |-> IF c = BSP THEN pgd[c] ELSE master \cup {"low"}]
    /\ Goto(BSP, "send_sipi")
    /\ UNCHANGED <<machine, master, ptes, own_cr3, tlb_low, copied, debug_owner, faults, smp>>

SendSipi ==
    /\ At(BSP, "send_sipi")
    /\ sipi' = TRUE
    /\ Goto(BSP, "wait")
    /\ UNCHANGED <<machine, paging, copied, debug_owner, faults, lapic_present, smp_owner,
                   smp_nums, smp_bits, seen>>

(* 200 ms later, whichever processors have started by then *)
Wait == Read(BSP, "wait", "print_smp")

StartKernel ==
    MemInit \/ DebugInit \/ AcpiInit \/ IoapicAllocate \/ IoapicInit \/ InitLapic
    \/ InitializeKernelPgTables \/ SendSipi \/ Wait

-----------------------------------------------------------------------------
(***************************************************************************)
(* The other processors: mpinit.S, finish_smp_initialization               *)
(***************************************************************************)
(* the startup IPI arrives, and the code goes as far as turning paging on *)
StartAp(c) ==
    /\ pc[c] = "off" /\ sipi
    /\ own_cr3' = [own_cr3 EXCEPT ![c] = TRUE]
    /\ Goto(c, "jump_high")
    /\ UNCHANGED <<machine, master, pgd, ptes, tlb_low, copied, debug_owner, faults, smp>>

JumpHigh(c) == Read(c, "jump_high", "invlpg")

Invlpg(c) ==
    /\ At(c, "invlpg")
    /\ tlb_low' = [tlb_low EXCEPT ![c] = FALSE]
    /\ Goto(c, "clear_low")
    /\ UNCHANGED <<machine, master, pgd, ptes, own_cr3, copied, debug_owner, faults, smp>>

ClearLow(c) ==
    /\ At(c, "clear_low")
    /\ pgd' = [pgd EXCEPT ![c] = @ \ {"low"}]
    /\ Goto(c, "smp_lock")
    /\ UNCHANGED <<machine, master, ptes, own_cr3, tlb_low, copied, debug_owner, faults, smp>>

SmpUnchanged == UNCHANGED <<machine, paging, copied, debug_owner, faults, lapic_present, sipi>>

(* mutant: the processor does not wait for the lock *)
SmpLock_NoWait(c) ==
    /\ At(c, "smp_lock")
    /\ smp_owner' = c
    /\ Goto(c, "smp_read")
    /\ UNCHANGED <<smp_nums, smp_bits, seen>> /\ SmpUnchanged

(* smp_on_hold is 0 for ever, so that the first try succeeds *)
SmpLock(c) ==
    /\ At(c, "smp_lock")
    /\ smp_owner = Nobody
    /\ smp_owner' = c
    /\ Goto(c, "smp_read")
    /\ UNCHANGED <<smp_nums, smp_bits, seen>> /\ SmpUnchanged

SmpRead(c) ==
    /\ At(c, "smp_read")
    /\ seen' = [seen EXCEPT ![c] = [nums |-> smp_nums, bits |-> smp_bits]]
    /\ Goto(c, "smp_write")
    /\ UNCHANGED <<smp_owner, smp_nums, smp_bits>> /\ SmpUnchanged

SmpWrite(c) ==
    /\ At(c, "smp_write")
    /\ smp_nums' = seen[c].nums + 1
    /\ smp_bits' = seen[c].bits \cup {c}
    /\ Goto(c, "smp_unlock")
    /\ UNCHANGED <<smp_owner, seen>> /\ SmpUnchanged

(* mutant: the lock is kept for the set-up that follows *)
SmpUnlock_Kept(c) ==
    /\ At(c, "smp_unlock")
    /\ Goto(c, "copy")
    /\ UNCHANGED <<smp_owner, smp_nums, smp_bits, seen>> /\ SmpUnchanged

SmpUnlock(c) ==
    /\ At(c, "smp_unlock")
    /\ smp_owner' = Nobody
    /\ Goto(c, "copy")
    /\ UNCHANGED <<smp_nums, smp_bits, seen>> /\ SmpUnchanged

WriteLapic(c) == Read(c, "write_lapic", "initialize_usermode")

ApCode(c) ==
    \/ StartAp(c) \/ JumpHigh(c) \/ Invlpg(c) \/ ClearLow(c)
    \/ SmpLock(c) \/ SmpRead(c) \/ SmpWrite(c) \/ SmpUnlock(c) \/ WriteLapic(c)

-----------------------------------------------------------------------------
Handlers(c) ==
    \/ PageFault(c) \/ TrapPrologue(c) \/ TrapPrintf(c) \/ TrapRepair(c)
    \/ IrqHandler(c) \/ IrqEOI(c)

Step(c) ==
    \/ Handlers(c)
    \/ PrintfLock(c) \/ PrintfUnlock(c) \/ CopyEntry(c) \/ LoadCr3(c)
    \/ MapLapic(c) \/ InitializeUserMode(c) \/ UnmapFrame(c)
    \/ c = BSP /\ StartKernel
    \/ c # BSP /\ ApCode(c)

Next == \E c \in CPUs : Step(c) \/ Interrupt(c) \/ FillTlb(c)

Spec == Init /\ [][Next]_vars

(* every processor executes its code; one that was sent the IPI starts      *)
FairSpec == Spec /\ \A c \in CPUs : WF_vars(Step(c))

-----------------------------------------------------------------------------
(* No prologue faults: the local APIC's page can be reached whenever a      *)
(* handler is entered with lapic_present set.  The prologue of that fault   *)
(* would fault in turn, until the stack is gone (handlr32.S:85-88, apic.c). *)
PrologueNeverFaults ==
    \A c \in CPUs :
        (\/ trap[c] = "prologue"
         \/ trap[c] = "none" /\ irq[c] = "prologue") => Reachable(c, PrologueTouches)

(* printf never faults under lock_debug_mem: trap_handler would wait for    *)
(* the lock its own processor holds (debug.c:63, setup32.c:105).            *)
PrintfNeverFaults ==
    /\ \A c \in CPUs : debug_owner = c => Reachable(c, "log")
    /\ debug_owner # Nobody => trap[debug_owner] \in {"none", "locked"}

(* A fault on a page that the kernel has mapped is repaired: a processor    *)
(* stops only for a page without a pte or without an entry in the master    *)
(* directory.  And there is no fault before there is an IDT                 *)
(* (setup32.c:107-128, 389-419).                                            *)
FaultsRepaired ==
    \A c \in CPUs :
        /\ trap[c] # "reset"
        /\ trap[c] = "halted" => cr2[c] \notin pte \/ EntryOf(cr2[c]) \notin master

(* A processor that has loaded cr3 in setup32 cannot reach the low          *)
(* addresses through which it started, in its directory or in its TLB:      *)
(* mpinit.S invalidates before it clears (mpinit.S:94-99, setup32.c:413).   *)
LowUnmapped ==
    \A c \in CPUs :
        own_cr3[c] /\ ~ NoIDT(c) /\ pc[c] # "load_cr3" => ~ Reachable(c, "low")

(* smp_nums and smp_bits count the processors that have announced           *)
(* themselves, none lost to another (smp.c:37-48).                          *)
ApsCounted ==
    LET announced == {c \in APs : pc[c] \notin ApPCs \/ pc[c] \in {"smp_unlock", "write_lapic"}}
    IN smp_nums = Cardinality(announced) /\ smp_bits = {BSP} \cup announced

(* After the startup IPI nobody changes the master directory, although the  *)
(* processors go on entering kernel addresses in their own: the unlocked    *)
(* memcpy of setup32 and the unlocked test of trap_handler see one value    *)
(* (setup32.c:123, 393, smp.c:54).                                          *)
MasterStable == [][sipi => UNCHANGED master]_vars

(* On a machine with an I/O APIC and ACPI tables beside the RSDT, all       *)
(* processors get to user mode, the boot processor alone without a local    *)
(* APIC (start.c:31-54, smp.c:37-64).                                       *)
Supported == machine.ioapic /\ machine.table = "rsdt"

StartCompletes ==
    Supported => <> \A c \in CPUs : (c = BSP \/ machine.lapic) => pc[c] = "user"

(* Claimed by system.c:135, "Regular EOI for PIC1": an interrupt that came  *)
(* through the PIC is acknowledged and returns.                             *)
PicAcknowledged ==
    \A c \in CPUs : ~ machine.lapic /\ irq[c] = "handler" => trap[c] # "halted"
=============================================================================
