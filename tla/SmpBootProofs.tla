--------------------------- MODULE SmpBootProofs ---------------------------
(***************************************************************************)
(* Proofs that the processors start without a fault that cannot be handled, *)
(* on any number of processors and on any machine: the pages a handler      *)
(* needs itself can be reached whenever it runs, a fault on a mapped page   *)
(* is repaired, the low mapping is gone once a processor has its own tables *)
(* and no processor is lost in the count.                                   *)
(***************************************************************************)
EXTENDS SmpBoot, FiniteSetTheorems, TLAPS

USE DEF Goto, ptes, paging, faults, smp, PrintPCs, MapPCs, BspPCs, ApPCs

-----------------------------------------------------------------------------
(* The invariant                                                            *)

(* The boot processor's code, in the order it runs: on the master's tables  *)
(* until load_cr3, ...                                                      *)
Early == {"mem_init", "debug_init", "print_start", "copy"}
Setup == {"print_setup", "load_cr3"}
(* ... the devices, the local APIC's steps in between, ...                  *)
Devices == {"map_rsdt", "read_rsdt", "print_acpi", "read_table", "map_table",
            "map_ioapic", "read_ioapic", "write_ioapic", "map_lapic"}
LapicMapped == {"print_lapic", "read_lapic"}
Present == {"calibrate", "prepare_aps", "send_sipi"}
(* ... and the other processors', which run from the startup IPI on         *)
Sent == {"wait", "print_smp"}
End == {"initialize_usermode", "use_frame", "print_started", "user"}
BspLabels == Early \cup Setup \cup Devices \cup LapicMapped \cup {"set_present"}
               \cup Present \cup Sent \cup End
ApLabels == ApPCs \cup {"copy", "load_cr3", "map_lapic", "initialize_usermode", "use_frame",
                     "user"}

(* a page that every processor reaches through the master directory         *)
InMaster(page) == page \in pte /\ EntryOf(page) \in master

MasterInv ==
    /\ "low" \in pte /\ "low" \notin master /\ InMaster("kernel")
    /\ pc[BSP] # "mem_init" => InMaster("tables")
    /\ pc[BSP] \notin {"mem_init", "debug_init"} => InMaster("log")
    /\ pc[BSP] \in LapicMapped \cup {"set_present"} \cup Present \cup Sent =>
         InMaster("lapic") /\ machine.lapic
    /\ lapic_present => InMaster("lapic") /\ machine.lapic

(* what the copy of the first n entries has done *)
CopiedTo(c, n) == \A i \in 1 .. n : Directory[i] \in pgd[c] <=> Directory[i] \in master

BspInv ==
    /\ pc[BSP] \in BspLabels
    /\ own_cr3[BSP] <=> pc[BSP] \notin Early \cup Setup
    /\ pc[BSP] \in Early => copied[BSP] < Len(Directory)
    /\ pc[BSP] \in Early \ {"copy"} => copied[BSP] = 0
    /\ pc[BSP] = "copy" => CopiedTo(BSP, copied[BSP])
    /\ pc[BSP] \notin Early =>
         "low" \notin pgd[BSP] /\ {EntryOf("kernel"), EntryOf("log")} \subseteq pgd[BSP]
    /\ own_cr3[BSP] => ~ tlb_low[BSP]
    /\ pc[BSP] = "map_lapic" => machine.lapic
    /\ pc[BSP] = "set_present" \/ lapic_present => EntryOf("lapic") \in pgd[BSP]
    /\ lapic_present => pc[BSP] \in Present \cup Sent \cup End
    /\ pc[BSP] \in Present \cup Sent => lapic_present
    /\ sipi => lapic_present /\ pc[BSP] \in Sent \cup End

(* the other processors' directories have been written *)
Prepared == sipi \/ pc[BSP] = "send_sipi"

ApInv(c) ==
    /\ pc[c] \in ApLabels
    /\ pc[c] = "off" => ~ own_cr3[c] /\ ~ tlb_low[c] /\ trap[c] = "none" /\ irq[c] = "none"
    /\ pc[c] # "off" => own_cr3[c] /\ sipi
    /\ Prepared => master \subseteq pgd[c]
    /\ (Prepared /\ pc[c] = "off") \/ pc[c] = "jump_high" => "low" \in pgd[c]
    /\ pc[c] \notin {"off", "jump_high", "invlpg", "clear_low"} => "low" \notin pgd[c]
    /\ pc[c] \in {"map_lapic", "write_lapic", "initialize_usermode", "use_frame", "user"} =>
         ~ tlb_low[c]
    /\ pc[c] \in (ApPCs \ {"write_lapic"}) => copied[c] = 0
    /\ pc[c] = "copy" => copied[c] < Len(Directory)

(* A page fault is on a page that the processor's own directory lacks; it   *)
(* stays so while the fault is handled.                                     *)
FaultInv(c) ==
    /\ trap[c] # "reset"
    /\ trap[c] # "none" => ~ NoIDT(c) /\ own_cr3[c]
    /\ trap[c] \in {"prologue", "printf", "locked"} =>
         (cr2[c] \in pte => EntryOf(cr2[c]) \notin pgd[c])
    /\ trap[c] = "halted" => ~ InMaster(cr2[c])
    /\ irq[c] # "none" => InterruptsOn(c)
    /\ irq[c] = "prologue" => sched_tick[c] < MaxTicks

DebugInv ==
    debug_owner # Nobody =>
        \/ trap[debug_owner] = "locked"
        \/ trap[debug_owner] = "none" /\ pc[debug_owner] \in PrintPCs

CountInv ==
    /\ smp_owner # Nobody => smp_owner # BSP
    /\ \A c \in APs : pc[c] \in {"smp_read", "smp_write", "smp_unlock"} <=> smp_owner = c
    /\ \A c \in APs : pc[c] = "smp_write" => seen[c] = [nums |-> smp_nums, bits |-> smp_bits]
    /\ ApsCounted

Inv == /\ TypeOK /\ MasterInv /\ BspInv /\ DebugInv /\ CountInv
       /\ \A c \in APs : ApInv(c)
       /\ \A c \in CPUs : FaultInv(c)

-----------------------------------------------------------------------------
(* Facts of the machines, the directory and the labels                      *)

LEMMA EntryFacts ==
    ASSUME TypeOK
    PROVE  /\ \A p \in Pages : EntryOf(p) \in Entries
           /\ EntryOf("low") = "low" /\ EntryOf("kernel") = "kernel"
           /\ \A p \in Pages \ {"low"} : EntryOf(p) # "low"
  BY MachinesAssumption DEF TypeOK, Machine, EntryOf

LEMMA DirectoryFacts ==
    /\ Len(Directory) = 6
    /\ \A i \in 1 .. 6 : Directory[i] \in Entries
    /\ \A e \in Entries : \E i \in 1 .. 6 : e = Directory[i]
    /\ {"low", "um", "kernel", "heap", "acpi", "devices"} = Entries
<1>1. Len(Directory) = 6
  BY DEF Directory
<1>2. /\ Directory[1] = "low" /\ Directory[2] = "um" /\ Directory[3] = "kernel"
      /\ Directory[4] = "heap" /\ Directory[5] = "acpi" /\ Directory[6] = "devices"
  BY DEF Directory
<1>3. 1 .. 6 = {1, 2, 3, 4, 5, 6}
  OBVIOUS
<1> QED BY <1>1, <1>2, <1>3 DEF Entries

(* what a step of one processor leaves alone of another *)
Same(d) ==
    /\ pgd'[d] = pgd[d] /\ own_cr3'[d] = own_cr3[d] /\ tlb_low'[d] = tlb_low[d]
    /\ pc'[d] = pc[d] /\ copied'[d] = copied[d]
    /\ trap'[d] = trap[d] /\ cr2'[d] = cr2[d] /\ irq'[d] = irq[d]
    /\ sched_tick'[d] = sched_tick[d]

SharedSame == UNCHANGED <<machine, master, pte, lapic_present, sipi>>
CountsSame == UNCHANGED <<smp_owner, smp_nums, smp_bits, seen>>

LEMMA BspKept ==
    ASSUME Inv, SharedSame, Same(BSP)
    PROVE  MasterInv' /\ BspInv' /\ Prepared' = Prepared
<1>1. \A p : EntryOf(p)' = EntryOf(p) /\ InMaster(p)' = InMaster(p)
  BY DEF SharedSame, EntryOf, InMaster
<1>2. MasterInv'
  BY <1>1 DEF Inv, MasterInv, SharedSame, Same
<1>3. BspInv'
  <2>1. CopiedTo(BSP, copied[BSP])' = CopiedTo(BSP, copied[BSP])
    BY DEF CopiedTo, SharedSame, Same
  <2> QED BY <1>1, <2>1 DEF Inv, BspInv, SharedSame, Same
<1>4. Prepared' = Prepared
  BY DEF Prepared, SharedSame, Same
<1> QED BY <1>2, <1>3, <1>4

LEMMA ApKept ==
    ASSUME Inv, NEW d \in APs, SharedSame, Same(d), Prepared' => Prepared
    PROVE  ApInv(d)'
  BY DEF Inv, ApInv, SharedSame, Same

LEMMA FaultKept ==
    ASSUME Inv, NEW d \in CPUs, SharedSame, Same(d)
    PROVE  FaultInv(d)'
<1>1. \A p : EntryOf(p)' = EntryOf(p) /\ InMaster(p)' = InMaster(p)
  BY DEF SharedSame, EntryOf, InMaster
<1>2. NoIDT(d)' = NoIDT(d) /\ InterruptsOn(d)' = InterruptsOn(d)
  BY DEF NoIDT, InterruptsOn, SharedSame, Same
<1> QED BY <1>1, <1>2 DEF Inv, FaultInv, SharedSame, Same

(* Before the startup IPI the others are off, and what the boot processor   *)
(* does to the shared tables is nothing to them.                            *)
LEMMA OffKept ==
    ASSUME Inv, ~ sipi, NEW d \in APs, Same(d),
           Prepared' => Prepared /\ master' = master
    PROVE  ApInv(d)' /\ FaultInv(d)'
<1>1. pc[d] = "off" /\ ApInv(d)
  BY DEF Inv, ApInv
<1>2. ApInv(d)'
  BY <1>1 DEF ApInv, Same
<1>3. FaultInv(d)'
  BY <1>1 DEF ApInv, FaultInv, Same
<1> QED BY <1>2, <1>3

LEMMA CountKept ==
    ASSUME Inv, CountsSame, \A d \in APs : pc'[d] = pc[d]
    PROVE  CountInv'
<1>1. {c \in APs : pc[c] \notin ApPCs \/ pc[c] \in {"smp_unlock", "write_lapic"}}'
        = {c \in APs : pc[c] \notin ApPCs \/ pc[c] \in {"smp_unlock", "write_lapic"}}
  OBVIOUS
<1>2. ApsCounted'
  BY <1>1 DEF Inv, CountInv, ApsCounted, CountsSame
<1> QED BY <1>2 DEF Inv, CountInv, CountsSame

(* The processor moves, but not past the count.                             *)
LEMMA CountKeptMoving ==
    ASSUME Inv, CountsSame, NEW c \in APs, \A d \in APs \ {c} : pc'[d] = pc[d],
           {pc[c], pc'[c]} \cap {"smp_read", "smp_write", "smp_unlock"} = {},
           \/ {pc[c], pc'[c]} \subseteq ApPCs \ {"smp_unlock", "write_lapic"}
           \/ {pc[c], pc'[c]} \cap (ApPCs \ {"smp_unlock", "write_lapic"}) = {}
    PROVE  CountInv'
<1>1. {d \in APs : pc[d] \notin ApPCs \/ pc[d] \in {"smp_unlock", "write_lapic"}}'
        = {d \in APs : pc[d] \notin ApPCs \/ pc[d] \in {"smp_unlock", "write_lapic"}}
  <2>1. \A d \in APs :
          (pc'[d] \notin ApPCs \/ pc'[d] \in {"smp_unlock", "write_lapic"})
            <=> (pc[d] \notin ApPCs \/ pc[d] \in {"smp_unlock", "write_lapic"})
    OBVIOUS
  <2> QED BY <2>1
<1>2. ApsCounted'
  BY <1>1 DEF Inv, CountInv, ApsCounted, CountsSame
<1> QED BY <1>2 DEF Inv, CountInv, CountsSame

LEMMA DebugKept ==
    ASSUME Inv, NEW c \in CPUs, UNCHANGED <<debug_owner, trap>>,
           \A d \in CPUs \ {c} : pc'[d] = pc[d],
           trap[c] = "none", pc[c] \notin PrintPCs
    PROVE  DebugInv'
<1>1. debug_owner # c
  BY MachinesAssumption DEF Inv, DebugInv
<1> QED BY <1>1 DEF Inv, DebugInv, TypeOK

(* A processor that executes its code handles no fault and no interrupt.    *)
LEMMA QuietFault ==
    ASSUME NEW c \in CPUs, trap'[c] = "none", irq'[c] = "none"
    PROVE  FaultInv(c)'
  BY DEF FaultInv

(* So a step of the boot processor's code is about its own variables and    *)
(* the shared ones, ...                                                     *)
LEMMA BspCodeKept ==
    ASSUME Inv, trap[BSP] = "none", irq[BSP] = "none", UNCHANGED <<trap, irq>>,
           CountsSame, \A d \in APs : Same(d),
           \/ SharedSame /\ (Prepared' => Prepared)
           \/ ~ sipi /\ (Prepared' => Prepared /\ master' = master),
           TypeOK', MasterInv', BspInv', DebugInv'
    PROVE  Inv'
<1>1. CountInv'
  BY CountKept DEF Same
<1>2. \A d \in APs : ApInv(d)' /\ FaultInv(d)'
  BY ApKept, FaultKept, OffKept DEF APs
<1>3. FaultInv(BSP)'
  BY QuietFault, MachinesAssumption
<1> QED BY <1>1, <1>2, <1>3 DEF Inv, APs

(* ... and one of another's about its own and the count.                    *)
LEMMA ApCodeKept ==
    ASSUME Inv, NEW c \in APs, trap[c] = "none", irq[c] = "none",
           UNCHANGED <<trap, irq, debug_owner>>, pc[c] \notin PrintPCs,
           SharedSame, \A d \in CPUs \ {c} : Same(d),
           TypeOK', ApInv(c)', CountInv'
    PROVE  Inv'
<1>1. MasterInv' /\ BspInv' /\ Prepared' = Prepared
  BY BspKept, MachinesAssumption DEF APs
<1>2. \A d \in APs : ApInv(d)'
  BY <1>1, ApKept DEF APs
<1>3. \A d \in CPUs : FaultInv(d)'
  BY FaultKept, QuietFault DEF APs
<1>4. DebugInv'
  BY DebugKept DEF APs, Same
<1> QED BY <1>1, <1>2, <1>3, <1>4 DEF Inv

(* A handler's step is about its processor's fault.                         *)
LEMMA HandlerKept ==
    ASSUME Inv, NEW c \in CPUs, SharedSame, CountsSame, \A d \in CPUs \ {c} : Same(d),
           UNCHANGED <<own_cr3, tlb_low, pc, copied>>, pc[c] # "off",
           pgd'[c] = pgd[c] \/ \E e \in master : pgd'[c] = pgd[c] \cup {e},
           ~ NoIDT(c),
           TypeOK', FaultInv(c)', DebugInv'
    PROVE  Inv'
<1>1. "low" \notin master /\ pc[c] \notin Early
  BY DEF Inv, MasterInv, NoIDT, Early
<1>2. \A p : EntryOf(p)' = EntryOf(p) /\ InMaster(p)' = InMaster(p)
  BY DEF SharedSame, EntryOf, InMaster
<1>3. MasterInv'
  BY <1>2 DEF Inv, MasterInv, SharedSame
<1>4. Prepared' = Prepared
  BY DEF SharedSame, Prepared
<1>5. BspInv'
  <2>1. CASE c = BSP
    <3>1. /\ pgd[BSP] \subseteq pgd'[BSP]
          /\ "low" \notin pgd[BSP] => "low" \notin pgd'[BSP]
      BY <1>1, <2>1
    <3> QED BY <1>1, <1>2, <2>1, <3>1 DEF Inv, BspInv, SharedSame, Early
  <2>2. CASE c # BSP
    BY <2>2, BspKept, MachinesAssumption
  <2> QED BY <2>1, <2>2
<1>6. ASSUME NEW d \in APs
      PROVE  ApInv(d)'
  <2>1. CASE d # c
    BY <1>4, <2>1, ApKept DEF APs
  <2>2. CASE d = c
    <3>1. /\ pgd[c] \subseteq pgd'[c]
          /\ "low" \notin pgd[c] => "low" \notin pgd'[c]
      BY <1>1
    <3> QED BY <1>4, <2>2, <3>1 DEF Inv, ApInv, SharedSame
  <2> QED BY <2>1, <2>2
<1>7. \A d \in CPUs : FaultInv(d)'
  BY FaultKept
<1>8. CountInv'
  BY CountKept
<1> QED BY <1>3, <1>5, <1>6, <1>7, <1>8 DEF Inv

-----------------------------------------------------------------------------
(* Handlers                                                                 *)

(* What handlers need can be reached by a processor that has an IDT.        *)
LEMMA HandlersReach ==
    ASSUME Inv, NEW c \in CPUs, ~ NoIDT(c)
    PROVE  /\ Reachable(c, "kernel") /\ Reachable(c, "log")
           /\ Reachable(c, PrologueTouches)
           /\ lapic_present => Reachable(c, "lapic")
<1>1. InMaster("kernel") /\ (lapic_present => InMaster("lapic"))
  BY DEF Inv, MasterInv
<1>2. InMaster("log")
  BY DEF Inv, MasterInv, BspInv, ApInv, NoIDT, APs, Sent, End
<1> SUFFICES ASSUME NEW page, InMaster(page),
                    page \in {"kernel", "log"} \/ (lapic_present /\ page = "lapic")
             PROVE  Reachable(c, page)
  BY <1>1, <1>2 DEF PrologueTouches
<1>3. CASE c = BSP
  <2>1. pc[BSP] \notin Early
    BY <1>3 DEF NoIDT, Early
  <2>2. {EntryOf("kernel"), EntryOf("log")} \subseteq pgd[BSP]
    BY <2>1 DEF Inv, BspInv
  <2>3. lapic_present => EntryOf("lapic") \in pgd[BSP]
    BY DEF Inv, BspInv
  <2> QED BY <1>3, <2>2, <2>3 DEF Reachable, HasPte, InMaster
<1>4. CASE c # BSP
  <2>1. master \subseteq pgd[c]
    BY <1>4 DEF Inv, ApInv, APs, NoIDT, Prepared
  <2> QED BY <2>1 DEF Reachable, HasPte, InMaster
<1> QED BY <1>3, <1>4

(* A processor that has an IDT has its own tables, or touches nothing but   *)
(* what the master's have.                                                  *)
LEMMA OwnTables ==
    ASSUME Inv, NEW c \in CPUs, ~ NoIDT(c), pc[c] # "off"
    PROVE  own_cr3[c] \/ (c = BSP /\ pc[c] \in Setup)
  BY DEF Inv, BspInv, ApInv, APs, NoIDT, Early, Setup

(* Every processor that has no IDT yet reaches what its code touches.       *)
LEMMA EarlyReach ==
    ASSUME Inv, NEW c \in CPUs, NoIDT(c) \/ (c = BSP /\ pc[c] \in Setup), pc[c] # "off",
           trap[c] = "none", irq[c] = "none"
    PROVE  Reachable(c, Touches(c))
<1>1. Touches(c) = CodeTouches(c)
  BY DEF Touches
<1>2. CASE c = BSP
  <2>1. pc[BSP] \in Early \cup Setup /\ ~ own_cr3[BSP]
    BY <1>2 DEF Inv, BspInv, NoIDT, Early, Setup, BspLabels, Devices, LapicMapped, Present,
       Sent, End
  <2>2. \/ CodeTouches(c) = "kernel"
        \/ CodeTouches(c) = "tables" /\ pc[BSP] = "debug_init"
        \/ CodeTouches(c) = "log" /\ pc[BSP] \in {"print_start", "print_setup"}
    BY <1>2, <2>1 DEF CodeTouches, Early, Setup
  <2>3. InMaster(CodeTouches(c))
    BY <1>2, <2>1, <2>2 DEF Inv, MasterInv
  <2> QED BY <1>1, <1>2, <2>1, <2>3 DEF Reachable, HasPte, InMaster
<1>3. CASE c # BSP
  <2>1. c \in APs /\ own_cr3[c] /\ sipi /\ master \subseteq pgd[c]
    BY <1>3 DEF Inv, ApInv, APs, Prepared
  <2>2. \/ CodeTouches(c) = "kernel"
        \/ CodeTouches(c) = "low" /\ pc[c] = "jump_high"
    BY <1>3 DEF CodeTouches, NoIDT, Inv, ApInv, APs, ApLabels
  <2>3. /\ InMaster("kernel") /\ "low" \in pte /\ EntryOf("low") = "low"
        /\ pc[c] = "jump_high" => "low" \in pgd[c]
    BY <2>1, EntryFacts DEF Inv, MasterInv, ApInv
  <2> QED BY <1>1, <2>1, <2>2, <2>3 DEF Reachable, HasPte, InMaster
<1> QED BY <1>2, <1>3

(* A fault finds an IDT and a processor on its own tables, and is on a page *)
(* whose entry these lack if it has a pte.  Handlers themselves do not      *)
(* fault, but for the end of an interrupt.                                  *)
LEMMA FaultFound ==
    ASSUME Inv, NEW c \in CPUs, PageFault(c)
    PROVE  /\ ~ NoIDT(c) /\ own_cr3[c] /\ trap[c] = "none" /\ debug_owner # c
           /\ Touches(c) \in Pages
           /\ Touches(c) \in pte => EntryOf(Touches(c)) \notin pgd[c]
<1>1. pc[c] # "off" /\ ~ Reachable(c, Touches(c)) /\ FaultInv(c)
  BY DEF PageFault, Inv
<1>2. trap[c] = "none"
  <2>1. CASE trap[c] # "none"
    <3>1. ~ NoIDT(c) /\ trap[c] \in {"prologue", "printf", "locked"}
      BY <2>1 DEF PageFault, Inv, FaultInv, TypeOK
    <3>2. Touches(c) \in {PrologueTouches, "log", "kernel"}
      BY <2>1, <3>1 DEF Touches, TrapTouches
    <3> QED BY <1>1, <3>1, <3>2, HandlersReach
  <2> QED BY <2>1
<1>3. ~ (NoIDT(c) \/ (c = BSP /\ pc[c] \in Setup))
  <2>1. NoIDT(c) \/ (c = BSP /\ pc[c] \in Setup) => irq[c] = "none"
    BY <1>1 DEF FaultInv, InterruptsOn, NoIDT, Setup
  <2> QED BY <1>1, <1>2, <2>1, EarlyReach
<1>4. own_cr3[c]
  BY <1>1, <1>3, OwnTables
<1>5. Touches(c) \in Pages
  <2>1. machine.table \in Pages
    BY MachinesAssumption DEF Inv, TypeOK, Machine, Pages
  <2>2. IrqTouches(c) \in Pages
    BY DEF IrqTouches, PrologueTouches, EOITouches, Pages
  <2>3. CodeTouches(c) \in Pages
    BY <2>1 DEF CodeTouches, Pages
  <2> QED BY <1>2, <2>2, <2>3 DEF Touches
<1>6. debug_owner # c
  <2>1. ASSUME debug_owner = c PROVE FALSE
    <3>1. pc[c] \in PrintPCs
      BY <1>2, <2>1, MachinesAssumption DEF Inv, DebugInv
    <3>2. irq[c] # "none" => lapic_present /\ machine.lapic
      BY <1>1, <3>1 DEF FaultInv, InterruptsOn, Inv, MasterInv
    <3>3. Touches(c) = "log" \/ (lapic_present /\ Touches(c) = "lapic")
      BY <1>2, <2>1, <3>1, <3>2 DEF Touches, IrqTouches, PrologueTouches, EOITouches,
         CodeTouches
    <3> QED BY <1>1, <1>3, <3>3, HandlersReach
  <2> QED BY <2>1
<1> QED BY <1>1, <1>2, <1>3, <1>4, <1>5, <1>6 DEF Reachable, HasPte

LEMMA PageFaultKept ==
    ASSUME Inv, NEW c \in CPUs, PageFault(c)
    PROVE  Inv'
<1>1. /\ ~ NoIDT(c) /\ own_cr3[c] /\ trap[c] = "none" /\ debug_owner # c
      /\ Touches(c) \in Pages
      /\ Touches(c) \in pte => EntryOf(Touches(c)) \notin pgd[c]
  BY FaultFound
<1>2. /\ trap' = [trap EXCEPT ![c] = "prologue"] /\ trap'[c] = "prologue"
      /\ cr2' = [cr2 EXCEPT ![c] = Touches(c)] /\ cr2'[c] = Touches(c)
      /\ UNCHANGED <<machine, paging, pc, copied, debug_owner, irq, sched_tick, smp>>
  BY <1>1 DEF PageFault, Inv, TypeOK
<1>3. TypeOK'
  BY <1>1, <1>2 DEF Inv, TypeOK
<1>4. FaultInv(c)'
  BY <1>1, <1>2 DEF Inv, FaultInv, NoIDT, InterruptsOn, EntryOf
<1>5. DebugInv'
  BY <1>1, <1>2 DEF Inv, DebugInv, TypeOK
<1>6. \A d \in CPUs \ {c} : Same(d)
  BY <1>2 DEF Same, Inv, TypeOK
<1> QED BY <1>1, <1>2, <1>3, <1>4, <1>5, <1>6, HandlerKept
        DEF PageFault, SharedSame, CountsSame

LEMMA TrapPrologueKept ==
    ASSUME Inv, NEW c \in CPUs, TrapPrologue(c)
    PROVE  Inv'
<1>1. trap[c] = "prologue" /\ trap'[c] = "printf"
  BY DEF TrapPrologue, Inv, TypeOK
<1>2. ~ NoIDT(c) /\ pc[c] # "off" /\ debug_owner # c
  BY <1>1, MachinesAssumption DEF Inv, FaultInv, ApInv, BspInv, APs, BspLabels, Early, Setup,
     Devices, LapicMapped, Present, Sent, End, DebugInv
<1>3. TypeOK'
  BY DEF TrapPrologue, Inv, TypeOK
<1>4. FaultInv(c)'
  BY <1>1 DEF TrapPrologue, Inv, FaultInv, NoIDT, InterruptsOn, EntryOf
<1>5. DebugInv'
  BY <1>2 DEF TrapPrologue, Inv, DebugInv, TypeOK
<1>6. \A d \in CPUs \ {c} : Same(d)
  BY DEF TrapPrologue, Same, Inv, TypeOK
<1> QED BY <1>2, <1>3, <1>4, <1>5, <1>6, HandlerKept
        DEF TrapPrologue, SharedSame, CountsSame

LEMMA TrapPrintfKept ==
    ASSUME Inv, NEW c \in CPUs, TrapPrintf(c)
    PROVE  Inv'
<1>1. trap[c] = "printf" /\ trap'[c] = "locked" /\ debug_owner' = c
  BY DEF TrapPrintf, Inv, TypeOK
<1>2. ~ NoIDT(c) /\ pc[c] # "off"
  BY <1>1 DEF Inv, FaultInv, ApInv, BspInv, APs, BspLabels, Early, Setup,
     Devices, LapicMapped, Present, Sent, End
<1>3. TypeOK'
  BY DEF TrapPrintf, Inv, TypeOK
<1>4. FaultInv(c)'
  BY <1>1 DEF TrapPrintf, Inv, FaultInv, NoIDT, InterruptsOn, EntryOf
<1>5. DebugInv'
  BY <1>1 DEF DebugInv
<1>6. \A d \in CPUs \ {c} : Same(d)
  BY DEF TrapPrintf, Same, Inv, TypeOK
<1> QED BY <1>2, <1>3, <1>4, <1>5, <1>6, HandlerKept
        DEF TrapPrintf, SharedSame, CountsSame

(* The copied entry is one of the master's; if there is nothing to copy,    *)
(* the page has no pte or its entry is not in the master directory.         *)
LEMMA TrapRepairKept ==
    ASSUME Inv, NEW c \in CPUs, TrapRepair(c)
    PROVE  Inv'
<1> DEFINE e == EntryOf(cr2[c])
<1>1. trap[c] = "locked" /\ debug_owner' = Nobody
  BY DEF TrapRepair
<1>2. ~ NoIDT(c) /\ pc[c] # "off" /\ own_cr3[c] /\ (cr2[c] \in pte => e \notin pgd[c])
  BY <1>1 DEF Inv, FaultInv, ApInv, BspInv, APs, BspLabels, Early, Setup,
     Devices, LapicMapped, Present, Sent, End
<1>3. e \in Entries
  BY EntryFacts DEF Inv, TypeOK
<1>4. DebugInv'
  BY <1>1 DEF DebugInv
<1>5. CASE MayRepair(c, e)
  <2>1. /\ pgd' = [pgd EXCEPT ![c] = @ \cup {e}] /\ trap' = [trap EXCEPT ![c] = "none"]
        /\ e \in master
    BY <1>5 DEF TrapRepair, MayRepair
  <2>2. pgd'[c] = pgd[c] \cup {e} /\ trap'[c] = "none"
    BY <2>1 DEF Inv, TypeOK
  <2>3. TypeOK'
    BY <1>1, <1>3, <2>1 DEF TrapRepair, Inv, TypeOK
  <2>4. FaultInv(c)'
    BY <2>2 DEF TrapRepair, Inv, FaultInv, InterruptsOn
  <2>5. \A d \in CPUs \ {c} : Same(d)
    BY <2>1 DEF TrapRepair, Same, Inv, TypeOK
  <2> QED BY <1>2, <1>4, <2>1, <2>2, <2>3, <2>4, <2>5, HandlerKept
          DEF TrapRepair, SharedSame, CountsSame
<1>6. CASE ~ MayRepair(c, e)
  <2>1. pgd' = pgd /\ trap' = [trap EXCEPT ![c] = "halted"]
    BY <1>6 DEF TrapRepair
  <2>2. trap'[c] = "halted"
    BY <2>1 DEF Inv, TypeOK
  <2>3. ~ InMaster(cr2[c])
    BY <1>2, <1>6 DEF MayRepair, InMaster
  <2>4. TypeOK'
    BY <1>1, <2>1 DEF TrapRepair, Inv, TypeOK
  <2>5. FaultInv(c)'
    BY <1>2, <2>2, <2>3 DEF TrapRepair, Inv, FaultInv, NoIDT, InterruptsOn, InMaster, EntryOf
  <2>6. \A d \in CPUs \ {c} : Same(d)
    BY <2>1 DEF TrapRepair, Same, Inv, TypeOK
  <2> QED BY <1>2, <1>4, <2>1, <2>4, <2>5, <2>6, HandlerKept
          DEF TrapRepair, SharedSame, CountsSame
<1> QED BY <1>5, <1>6

(* An interrupt is taken where the code has interrupts on.                  *)
LEMMA InterruptKept ==
    ASSUME Inv, NEW c \in CPUs, Interrupt(c) \/ IrqHandler(c) \/ IrqEOI(c)
    PROVE  Inv'
<1>1. /\ trap[c] = "none" /\ InterruptsOn(c) /\ UNCHANGED <<trap, cr2, pc, debug_owner>>
      /\ UNCHANGED <<machine, paging, copied, smp>>
      /\ \A d \in CPUs \ {c} : irq'[d] = irq[d] /\ sched_tick'[d] = sched_tick[d]
  BY DEF Interrupt, IrqHandler, IrqEOI, Inv, TypeOK, FaultInv
<1>2. ~ NoIDT(c) /\ pc[c] # "off"
  BY <1>1 DEF InterruptsOn, NoIDT
<1>3. TypeOK'
  <2>1. irq' \in [CPUs -> {"none", "prologue", "handler"}]
    BY DEF Interrupt, IrqHandler, IrqEOI, Inv, TypeOK
  <2>2. sched_tick' \in [CPUs -> 0 .. MaxTicks]
    <3>1. CASE sched_tick' = sched_tick
      BY <3>1 DEF Inv, TypeOK
    <3>2. CASE IrqHandler(c)
      BY <3>2, MachinesAssumption DEF IrqHandler, Inv, TypeOK, FaultInv
    <3> QED BY <3>1, <3>2 DEF Interrupt, IrqEOI
  <2> QED BY <1>1, <2>1, <2>2 DEF Inv, TypeOK
<1>4. FaultInv(c)'
  BY <1>1 DEF FaultInv, InterruptsOn, Interrupt, IrqHandler, IrqEOI, Inv, TypeOK
<1>5. DebugInv'
  BY <1>1 DEF Inv, DebugInv
<1>6. \A d \in CPUs \ {c} : Same(d)
  BY <1>1 DEF Same
<1> QED BY <1>1, <1>2, <1>3, <1>4, <1>5, <1>6, HandlerKept DEF SharedSame, CountsSame

-----------------------------------------------------------------------------
(* The boot processor's code                                                *)

(* Moves of the boot processor that change its place only.                  *)
Moves(next) ==
    \/ pc[BSP] = "print_start" /\ next = "copy"
    \/ pc[BSP] = "print_setup" /\ next = "load_cr3"
    \/ {pc[BSP], next} \subseteq Devices \ {"map_lapic"}
    \/ pc[BSP] = "write_ioapic" /\ next = "map_lapic" /\ machine.lapic
    \/ pc[BSP] = "write_ioapic" /\ next = "initialize_usermode"
    \/ pc[BSP] = "print_lapic" /\ next = "read_lapic"
    \/ pc[BSP] = "read_lapic" /\ next = "set_present" /\ EntryOf("lapic") \in pgd[BSP]
    \/ pc[BSP] = "calibrate" /\ next = "prepare_aps"
    \/ pc[BSP] = "wait" /\ next = "print_smp"
    \/ pc[BSP] = "print_smp" /\ next = "initialize_usermode"
    \/ pc[BSP] = "print_started" /\ next = "user"

LEMMA MoveKept ==
    ASSUME Inv, NEW next, Moves(next), pc' = [pc EXCEPT ![BSP] = next],
           trap[BSP] = "none", irq[BSP] = "none", DebugInv',
           debug_owner' \in CPUs \cup {Nobody},
           UNCHANGED <<machine, paging, copied, faults, smp>>
    PROVE  Inv'
<1>1. pc'[BSP] = next /\ BSP \in CPUs
  BY MachinesAssumption DEF Inv, TypeOK
<1>2. \A p : EntryOf(p)' = EntryOf(p) /\ InMaster(p)' = InMaster(p)
  BY DEF EntryOf, InMaster
<1>3. next \in BspLabels
  BY DEF Moves, BspLabels, Early, Setup, Devices, LapicMapped, Present, Sent, End
<1>4. TypeOK'
  <2>1. next \in PCs
    BY <1>3 DEF BspLabels, Early, Setup, Devices, LapicMapped, Present, Sent, End, PCs
  <2> QED BY <2>1 DEF Inv, TypeOK
<1>5. MasterInv'
  BY <1>1, <1>2 DEF Inv, MasterInv, Moves, Devices, LapicMapped, Present, Sent
<1>6. BspInv'
  <2>1. CopiedTo(BSP, copied[BSP])' = CopiedTo(BSP, copied[BSP])
    BY DEF CopiedTo
  <2>2. pc[BSP] = "print_start" => CopiedTo(BSP, copied[BSP])
    BY DEF Inv, BspInv, CopiedTo, Early
  <2>3. next = "copy" => pc[BSP] = "print_start"
    BY DEF Moves, Devices
  <2>4. next \in Early <=> pc[BSP] \in Early
    BY DEF Moves, Early, Devices
  <2>5. next \in Setup <=> pc[BSP] \in Setup
    BY DEF Moves, Setup, Devices
  <2>6. /\ lapic_present => next \in Present \cup Sent \cup End
        /\ next \in Present \cup Sent => lapic_present
        /\ sipi => next \in Sent \cup End
    BY DEF Inv, BspInv, Moves, Present, Sent, End, Devices
  <2>7. /\ next = "map_lapic" => machine.lapic
        /\ next = "set_present" => EntryOf("lapic") \in pgd[BSP]
    BY DEF Moves, Devices
  <2>8. next \in Early \ {"copy"} => FALSE
    BY DEF Moves, Early, Devices
  <2>9. next \in Early => copied[BSP] < Len(Directory)
    BY <2>4 DEF Inv, BspInv
  <2> QED BY <1>1, <1>2, <1>3, <2>1, <2>2, <2>3, <2>4, <2>5, <2>6, <2>7, <2>8, <2>9
          DEF Inv, BspInv
<1>7. Prepared' => Prepared
  BY <1>1 DEF Prepared, Moves, Devices
<1>8. \A d \in APs : Same(d)
  BY DEF Same, APs, Inv, TypeOK
<1> QED BY <1>4, <1>5, <1>6, <1>7, <1>8, BspCodeKept DEF SharedSame, CountsSame

LEMMA BspReadKept ==
    ASSUME Inv, NEW label, NEW next, Read(BSP, label, next), Moves(next), label \notin PrintPCs
    PROVE  Inv'
<1>1. /\ pc[BSP] = label /\ trap[BSP] = "none" /\ irq[BSP] = "none"
      /\ pc' = [pc EXCEPT ![BSP] = next]
      /\ UNCHANGED <<machine, paging, copied, debug_owner, faults, smp>>
  BY DEF Read, At
<1>2. \A d \in CPUs \ {BSP} : pc'[d] = pc[d]
  BY <1>1 DEF Inv, TypeOK
<1>3. DebugInv'
  BY <1>1, <1>2, DebugKept, MachinesAssumption
<1>4. debug_owner' \in CPUs \cup {Nobody}
  BY <1>1 DEF Inv, TypeOK
<1> QED BY <1>1, <1>3, <1>4, MoveKept

(* Only the boot processor prints outside of traps.                         *)
LEMMA PrintfLockKept ==
    ASSUME Inv, NEW c \in CPUs, PrintfLock(c)
    PROVE  Inv'
<1>1. c = BSP /\ trap[c] = "none" /\ irq[c] = "none" /\ pc[c] \in PrintPCs
  BY DEF PrintfLock, At, Inv, ApInv, ApLabels, APs
<1>2. Same(BSP) /\ SharedSame /\ \A d \in APs : Same(d)
  BY DEF PrintfLock, Same, SharedSame
<1>3. MasterInv' /\ BspInv' /\ Prepared' = Prepared
  BY <1>2, BspKept
<1>4. TypeOK' /\ DebugInv'
  BY <1>1 DEF PrintfLock, Inv, TypeOK, DebugInv
<1> QED BY <1>1, <1>2, <1>3, <1>4, BspCodeKept DEF PrintfLock, CountsSame

LEMMA PrintfUnlockKept ==
    ASSUME Inv, NEW c \in CPUs, PrintfUnlock(c)
    PROVE  Inv'
<1>1. c = BSP /\ trap[c] = "none" /\ irq[c] = "none" /\ pc[c] \in PrintPCs
  BY DEF PrintfUnlock, At, Inv, ApInv, ApLabels, APs
<1>2. Moves(AfterPrint(pc[BSP]))
  BY <1>1 DEF AfterPrint, Moves, Devices
<1>3. DebugInv'
  BY DEF PrintfUnlock, DebugInv
<1> QED BY <1>1, <1>2, <1>3, MoveKept DEF PrintfUnlock

(* Before the startup IPI the boot processor adds to the tables.            *)
LEMMA BspMapKept ==
    ASSUME Inv, NEW label, NEW page \in Pages \ {"frame"}, NEW next,
           Map(BSP, label, page, next),
           label \in MapPCs \cup {"mem_init"},
           \/ label = "mem_init" /\ page = "tables" /\ next = "debug_init"
           \/ label = "debug_init" /\ page = "log" /\ next = "print_start"
           \/ {label, next} \subseteq Devices \ {"map_lapic"} /\ page # "low"
           \/ label = "map_lapic" /\ page = "lapic" /\ next = "print_lapic"
    PROVE  Inv'
<1>1. /\ pc[BSP] = label /\ trap[BSP] = "none" /\ irq[BSP] = "none"
      /\ pc' = [pc EXCEPT ![BSP] = next] /\ pc'[BSP] = next /\ BSP \in CPUs
      /\ pte' = pte \cup {page} /\ master' = master \cup {EntryOf(page)}
      /\ UNCHANGED <<machine, pgd, frame_pte, own_cr3, tlb_low, copied, debug_owner, faults, smp>>
  BY MachinesAssumption DEF Map, Mapped, At, Inv, TypeOK
<1>2. ~ sipi /\ label \notin PrintPCs \cup Sent \cup End \cup Present /\ page # "low"
  BY <1>1 DEF Inv, BspInv, Devices, Sent, End, Present
<1>3. /\ EntryOf(page) # "low" /\ EntryOf(page) \in Entries
      /\ \A p : EntryOf(p)' = EntryOf(p)
      /\ \A p : InMaster(p) => InMaster(p)'
      /\ InMaster(page)'
  BY <1>1, <1>2, EntryFacts DEF Inv, EntryOf, InMaster
<1>4. TypeOK'
  <2>1. next \in PCs
    BY DEF PCs, Devices
  <2> QED BY <1>1, <1>3, <2>1 DEF Inv, TypeOK
<1>5. MasterInv'
  BY <1>1, <1>2, <1>3 DEF Inv, MasterInv, BspInv, Devices, LapicMapped, Present, Sent
<1>6. BspInv'
  BY <1>1, <1>2, <1>3 DEF Inv, BspInv, BspLabels, Early, Setup, Devices, LapicMapped,
     Present, Sent, End
<1>7. DebugInv'
  BY <1>1, <1>2, DebugKept DEF Inv, TypeOK
<1>8. ~ Prepared'
  BY <1>1, <1>2 DEF Prepared, Devices
<1>9. \A d \in APs : Same(d)
  BY <1>1 DEF Same, APs, Inv, TypeOK
<1> QED BY <1>1, <1>2, <1>4, <1>5, <1>6, <1>7, <1>8, <1>9, BspCodeKept DEF CountsSame

LEMMA SetPresentKept ==
    ASSUME Inv, SetPresent
    PROVE  Inv'
<1>1. /\ pc[BSP] = "set_present" /\ trap[BSP] = "none" /\ irq[BSP] = "none"
      /\ pc' = [pc EXCEPT ![BSP] = "calibrate"] /\ pc'[BSP] = "calibrate" /\ BSP \in CPUs
      /\ lapic_present' = TRUE
      /\ UNCHANGED <<machine, paging, copied, debug_owner, faults, sipi, smp_owner, smp_nums,
                     smp_bits, seen>>
  BY MachinesAssumption DEF SetPresent, At, Inv, TypeOK
<1>2. ~ sipi
  BY <1>1 DEF Inv, BspInv, Sent, End
<1>3. \A p : EntryOf(p)' = EntryOf(p) /\ InMaster(p)' = InMaster(p)
  BY <1>1 DEF EntryOf, InMaster
<1>4. TypeOK'
  BY <1>1 DEF Inv, TypeOK, PCs
<1>5. MasterInv'
  BY <1>1, <1>3 DEF Inv, MasterInv
<1>6. BspInv'
  BY <1>1, <1>2, <1>3 DEF Inv, BspInv, BspLabels, Early, Setup, Devices, LapicMapped,
     Present, Sent, End
<1>7. DebugInv'
  BY <1>1, DebugKept DEF Inv, TypeOK
<1>8. ~ Prepared'
  BY <1>1, <1>2 DEF Prepared
<1>9. \A d \in APs : Same(d)
  BY <1>1 DEF Same, APs, Inv, TypeOK
<1> QED BY <1>1, <1>2, <1>4, <1>5, <1>6, <1>7, <1>8, <1>9, BspCodeKept DEF CountsSame

(* The other processors get the master's entries and the low one.           *)
LEMMA PrepareKept ==
    ASSUME Inv, InitializeKernelPgTables
    PROVE  Inv'
<1>1. /\ pc[BSP] = "prepare_aps" /\ trap[BSP] = "none" /\ irq[BSP] = "none"
      /\ pc' = [pc EXCEPT ![BSP] = "send_sipi"] /\ pc'[BSP] = "send_sipi" /\ BSP \in CPUs
      /\ pgd' = [c \in CPUs |-> IF c = BSP THEN pgd[c] ELSE master \cup {"low"}]
      /\ UNCHANGED <<machine, master, ptes, own_cr3, tlb_low, copied, debug_owner, faults, smp>>
  BY MachinesAssumption DEF InitializeKernelPgTables, At, Inv, TypeOK
<1>2. ~ sipi
  BY <1>1 DEF Inv, BspInv, Sent, End
<1>3. \A p : EntryOf(p)' = EntryOf(p) /\ InMaster(p)' = InMaster(p)
  BY <1>1 DEF EntryOf, InMaster
<1>4. TypeOK'
  BY <1>1, DirectoryFacts DEF Inv, TypeOK, PCs
<1>5. MasterInv'
  BY <1>1, <1>3 DEF Inv, MasterInv, Present
<1>6. BspInv'
  BY <1>1, <1>2, <1>3 DEF Inv, BspInv, BspLabels, Early, Setup, Devices, LapicMapped,
     Present, Sent, End
<1>7. DebugInv'
  BY <1>1, DebugKept DEF Inv, TypeOK
<1>8. ASSUME NEW d \in APs
      PROVE  ApInv(d)' /\ FaultInv(d)'
  <2>1. pc[d] = "off" /\ pc'[d] = "off" /\ pgd'[d] = master \cup {"low"}
    BY <1>1, <1>2 DEF Inv, ApInv, APs, TypeOK
  <2>2. ApInv(d)'
    BY <1>1, <1>2, <2>1 DEF Inv, ApInv
  <2>3. FaultInv(d)'
    BY <1>1, <2>1 DEF Inv, ApInv, FaultInv
  <2> QED BY <2>2, <2>3
<1>9. CountInv'
  BY <1>1, CountKept DEF CountsSame, APs, Inv, TypeOK
<1>10. FaultInv(BSP)'
  BY <1>1, QuietFault
<1> QED BY <1>4, <1>5, <1>6, <1>7, <1>8, <1>9, <1>10 DEF Inv, APs

LEMMA SendSipiKept ==
    ASSUME Inv, SendSipi
    PROVE  Inv'
<1>1. /\ pc[BSP] = "send_sipi" /\ trap[BSP] = "none" /\ irq[BSP] = "none"
      /\ pc' = [pc EXCEPT ![BSP] = "wait"] /\ pc'[BSP] = "wait" /\ BSP \in CPUs
      /\ sipi' = TRUE
      /\ UNCHANGED <<machine, paging, copied, debug_owner, faults, lapic_present, smp_owner,
                     smp_nums, smp_bits, seen>>
  BY MachinesAssumption DEF SendSipi, At, Inv, TypeOK
<1>2. ~ sipi /\ Prepared
  BY <1>1 DEF Inv, BspInv, Sent, End, Prepared
<1>3. \A p : EntryOf(p)' = EntryOf(p) /\ InMaster(p)' = InMaster(p)
  BY <1>1 DEF EntryOf, InMaster
<1>4. TypeOK'
  BY <1>1 DEF Inv, TypeOK, PCs
<1>5. MasterInv'
  BY <1>1, <1>3 DEF Inv, MasterInv, Present, Sent
<1>6. BspInv'
  BY <1>1, <1>2, <1>3 DEF Inv, BspInv, BspLabels, Early, Setup, Devices, LapicMapped,
     Present, Sent, End
<1>7. DebugInv'
  BY <1>1, DebugKept DEF Inv, TypeOK
<1>8. \A d \in APs : Same(d)
  BY <1>1 DEF Same, APs, Inv, TypeOK
<1> QED BY <1>1, <1>2, <1>4, <1>5, <1>6, <1>7, <1>8, BspCodeKept DEF CountsSame

(* start_kernel *)
LEMMA StartKernelKept ==
    ASSUME Inv, StartKernel
    PROVE  Inv'
<1>1. CASE MemInit \/ DebugInit
  <2>1. {"tables", "log"} \subseteq Pages
    BY DEF Pages
  <2> QED BY <1>1, <2>1, BspMapKept DEF MemInit, DebugInit
<1>2. CASE AcpiInit
  <2>1. {"rsdt", machine.table} \subseteq Pages \ {"low", "frame"}
    BY MachinesAssumption DEF Inv, TypeOK, Machine, Pages
  <2>2. CASE Map(BSP, "map_rsdt", "rsdt", "read_rsdt")
    <3>1. {"map_rsdt", "read_rsdt"} \subseteq Devices \ {"map_lapic"}
      BY DEF Devices
    <3> QED BY <2>1, <2>2, <3>1, BspMapKept
  <2>3. CASE Map(BSP, "map_table", machine.table, IF machine.ioapic THEN "map_ioapic"
                                                  ELSE "write_ioapic")
    <3>1. {"map_table", IF machine.ioapic THEN "map_ioapic" ELSE "write_ioapic"}
            \subseteq Devices \ {"map_lapic"}
      BY DEF Devices
    <3> QED BY <2>1, <2>3, <3>1, BspMapKept
  <2>4. CASE Read(BSP, "read_rsdt", "print_acpi")
    <3>1. Moves("print_acpi")
      BY <2>4 DEF Read, At, Moves, Devices
    <3> QED BY <2>4, <3>1, BspReadKept
  <2>5. CASE Read(BSP, "read_table", "map_table")
    <3>1. Moves("map_table")
      BY <2>5 DEF Read, At, Moves, Devices
    <3> QED BY <2>5, <3>1, BspReadKept
  <2> QED BY <1>2, <2>2, <2>3, <2>4, <2>5 DEF AcpiInit
<1>3. CASE IoapicAllocate
  <2>1. CASE Map(BSP, "map_ioapic", "ioapic", "read_ioapic")
    <3>1. {"map_ioapic", "read_ioapic"} \subseteq Devices \ {"map_lapic"}
          /\ "ioapic" \in Pages \ {"low"}
      BY DEF Devices, Pages
    <3> QED BY <2>1, <3>1, BspMapKept
  <2>2. CASE Read(BSP, "read_ioapic", "write_ioapic")
    <3>1. Moves("write_ioapic")
      BY <2>2 DEF Read, At, Moves, Devices
    <3> QED BY <2>2, <3>1, BspReadKept
  <2> QED BY <1>3, <2>1, <2>2 DEF IoapicAllocate
<1>4. CASE IoapicInit
  <2>1. Moves(IF machine.lapic THEN "map_lapic" ELSE "initialize_usermode")
    BY <1>4 DEF IoapicInit, Read, At, Moves
  <2> QED BY <1>4, <2>1, BspReadKept DEF IoapicInit
<1>5. CASE InitLapic
  <2>1. CASE Read(BSP, "read_lapic", "set_present")
    <3>1. pc[BSP] = "read_lapic" /\ own_cr3[BSP] /\ Reachable(BSP, "lapic")
      BY <2>1 DEF Read, At, Touches, CodeTouches, Inv, BspInv, Early, Setup
    <3>2. Moves("set_present")
      BY <3>1 DEF Reachable, Moves
    <3> QED BY <2>1, <3>2, BspReadKept
  <2>2. CASE Read(BSP, "calibrate", "prepare_aps")
    <3>1. Moves("prepare_aps")
      BY <2>2 DEF Read, At, Moves
    <3> QED BY <2>2, <3>1, BspReadKept
  <2> QED BY <1>5, <2>1, <2>2, SetPresentKept DEF InitLapic
<1>6. CASE Wait
  <2>1. Moves("print_smp")
    BY <1>6 DEF Wait, Read, At, Moves
  <2> QED BY <1>6, <2>1, BspReadKept DEF Wait
<1> QED BY <1>1, <1>2, <1>3, <1>4, <1>5, <1>6, PrepareKept, SendSipiKept DEF StartKernel

-----------------------------------------------------------------------------
(* The code that both kinds of processors run                               *)

LEMMA CopyEntryKept ==
    ASSUME Inv, NEW c \in CPUs, CopyEntry(c)
    PROVE  Inv'
<1> DEFINE n == copied[c]
           e == Directory[n + 1]
           next == IF n + 1 < Len(Directory) THEN "copy"
                   ELSE IF c = BSP THEN "print_setup" ELSE "load_cr3"
<1>1. /\ pc[c] = "copy" /\ trap[c] = "none" /\ irq[c] = "none"
      /\ n \in 0 .. 5 /\ e \in Entries /\ copied'[c] = n + 1
      /\ copied' = [copied EXCEPT ![c] = n + 1]
      /\ pc' = [pc EXCEPT ![c] = next] /\ pc'[c] = next
      /\ pgd' = [pgd EXCEPT ![c] = IF e \in master THEN @ \cup {e} ELSE @ \ {e}]
      /\ pgd'[c] = IF e \in master THEN pgd[c] \cup {e} ELSE pgd[c] \ {e}
      /\ sched_tick' = [sched_tick EXCEPT ![c] = 0]
      /\ UNCHANGED <<machine, master, ptes, own_cr3, tlb_low, debug_owner, trap, cr2, irq, smp>>
  <2>1. pc[c] = "copy" /\ n < Len(Directory)
    BY DEF CopyEntry, At, Inv, BspInv, ApInv, APs, Early
  <2>2. n \in 0 .. 5 /\ e \in Entries
    BY <2>1, DirectoryFacts DEF Inv, TypeOK
  <2> QED BY <2>1, <2>2, DirectoryFacts DEF CopyEntry, Copy, At, Inv, TypeOK
<1>2. TypeOK'
  <2>1. next \in PCs
    BY DEF PCs
  <2>2. 0 \in 0 .. MaxTicks
    BY MachinesAssumption
  <2>3. pgd' \in [CPUs -> SUBSET Entries]
    BY <1>1 DEF Inv, TypeOK
  <2> HIDE DEF next, e
  <2> QED BY <1>1, <2>1, <2>2, <2>3, DirectoryFacts DEF Inv, TypeOK
<1>3. SharedSame /\ CountsSame /\ \A d \in CPUs \ {c} : Same(d)
  BY <1>1 DEF SharedSame, CountsSame, Same, Inv, TypeOK
<1>4. \A p : EntryOf(p)' = EntryOf(p) /\ InMaster(p)' = InMaster(p)
  BY <1>1 DEF EntryOf, InMaster
<1>5. CASE c = BSP
  <2>1. MasterInv'
    BY <1>1, <1>4, <1>5 DEF Inv, MasterInv, LapicMapped, Present, Sent
  <2>2. ASSUME NEW i \in 1 .. n + 1
        PROVE  Directory[i] \in pgd'[BSP] <=> Directory[i] \in master
    <3>1. CASE i = n + 1
      BY <1>1, <1>5, <3>1
    <3>2. CASE i \in 1 .. n
      <4>1. Directory[i] \in pgd[BSP] <=> Directory[i] \in master
        BY <1>1, <1>5, <3>2 DEF Inv, BspInv, CopiedTo
      <4> QED BY <1>1, <1>5, <4>1
    <3> QED BY <1>1, <3>1, <3>2
  <2>3. n + 1 = 6 => \A x \in Entries : x \in pgd'[BSP] <=> x \in master
    BY <1>1, <2>2, DirectoryFacts
  <2>4. BspInv'
    <3>1. CASE n + 1 < 6
      <4>1. pc'[BSP] = "copy"
        BY <1>1, <1>5, <3>1, DirectoryFacts
      <4>2. CopiedTo(BSP, copied[BSP])' /\ copied'[BSP] < Len(Directory)
        BY <1>1, <1>5, <2>2, <3>1, DirectoryFacts DEF CopiedTo
      <4> QED BY <1>1, <1>4, <1>5, <4>1, <4>2
              DEF Inv, BspInv, BspLabels, Early, Setup, Present, Sent, End
    <3>2. CASE n + 1 = 6
      <4>1. pc'[BSP] = "print_setup"
        BY <1>1, <1>5, <3>2, DirectoryFacts
      <4>2. /\ "low" \in Entries /\ {EntryOf("kernel"), EntryOf("log")} \subseteq Entries
        BY EntryFacts DEF Inv, Pages, Entries, Directory, EntryOf, TypeOK, Machine,
           MachinesAssumption
      <4>3. /\ "low" \notin master /\ {EntryOf("kernel"), EntryOf("log")} \subseteq master
        BY <1>1, <1>5 DEF Inv, MasterInv, InMaster
      <4>4. "low" \notin pgd'[BSP] /\ {EntryOf("kernel"), EntryOf("log")} \subseteq pgd'[BSP]
        BY <2>3, <3>2, <4>2, <4>3, DirectoryFacts
      <4> QED BY <1>1, <1>4, <1>5, <4>1, <4>4
              DEF Inv, BspInv, BspLabels, Early, Setup, Present, Sent, End
    <3> QED BY <1>1, <3>1, <3>2
  <2>5. DebugInv'
    BY <1>1, <1>3, DebugKept DEF Same
  <2>6. Prepared' => Prepared
    BY <1>1, <1>5 DEF Prepared
  <2> QED BY <1>1, <1>2, <1>3, <1>5, <2>1, <2>4, <2>5, <2>6, BspCodeKept DEF APs
<1>6. CASE c # BSP
  <2>1. c \in APs /\ "low" \notin master /\ pc'[BSP] = pc[BSP]
    BY <1>1, <1>6, MachinesAssumption DEF APs, Inv, MasterInv, TypeOK
  <2>2. pc'[c] \in {"copy", "load_cr3"} /\ (pc'[c] = "copy" => n + 1 < Len(Directory))
    BY <1>1, <1>6
  <2>3. ApInv(c)'
    BY <1>1, <2>1, <2>2 DEF Inv, ApInv, ApLabels, Prepared
  <2>4. CountInv'
    BY <1>1, <1>3, <2>1, <2>2, CountKeptMoving DEF APs, Same
  <2> QED BY <1>1, <1>2, <1>3, <2>1, <2>3, <2>4, ApCodeKept
<1> QED BY <1>5, <1>6

LEMMA LoadCr3Kept ==
    ASSUME Inv, NEW c \in CPUs, LoadCr3(c)
    PROVE  Inv'
<1>1. /\ pc[c] = "load_cr3" /\ trap[c] = "none" /\ irq[c] = "none"
      /\ pc' = [pc EXCEPT ![c] = AfterSetup(c)] /\ pc'[c] = AfterSetup(c)
      /\ own_cr3' = [own_cr3 EXCEPT ![c] = TRUE] /\ own_cr3'[c] = TRUE
      /\ tlb_low' = [tlb_low EXCEPT ![c] = FALSE] /\ tlb_low'[c] = FALSE
      /\ UNCHANGED <<machine, master, pgd, ptes, copied, debug_owner, faults, smp>>
  BY DEF LoadCr3, At, Inv, TypeOK
<1>2. TypeOK'
  <2>1. AfterSetup(c) \in PCs
    BY DEF AfterSetup, PCs
  <2> QED BY <1>1, <2>1 DEF Inv, TypeOK
<1>3. SharedSame /\ CountsSame /\ \A d \in CPUs \ {c} : Same(d)
  BY <1>1 DEF SharedSame, CountsSame, Same, Inv, TypeOK
<1>4. \A p : EntryOf(p)' = EntryOf(p) /\ InMaster(p)' = InMaster(p)
  BY <1>1 DEF EntryOf, InMaster
<1>5. CASE c = BSP
  <2>1. pc'[BSP] \in {"map_rsdt", "write_ioapic"}
    BY <1>1, <1>5 DEF AfterSetup
  <2>2. MasterInv'
    BY <1>1, <1>4, <1>5, <2>1 DEF Inv, MasterInv, LapicMapped, Present, Sent
  <2>3. BspInv'
    BY <1>1, <1>4, <1>5, <2>1 DEF Inv, BspInv, BspLabels, Early, Setup, Devices, LapicMapped,
       Present, Sent, End
  <2>4. DebugInv'
    BY <1>1, <1>3, DebugKept DEF Same
  <2>5. Prepared' => Prepared
    BY <1>1, <1>5, <2>1 DEF Prepared
  <2> QED BY <1>1, <1>2, <1>3, <1>5, <2>2, <2>3, <2>4, <2>5, BspCodeKept DEF APs
<1>6. CASE c # BSP
  <2>1. c \in APs /\ pc'[c] = "map_lapic" /\ pc'[BSP] = pc[BSP]
    BY <1>1, <1>6, MachinesAssumption DEF APs, AfterSetup, Inv, TypeOK
  <2>2. ApInv(c)'
    BY <1>1, <2>1 DEF Inv, ApInv, ApLabels, Prepared
  <2>3. CountInv'
    BY <1>1, <1>3, <2>1, CountKeptMoving DEF APs, Same
  <2> QED BY <1>1, <1>2, <1>3, <2>1, <2>2, <2>3, ApCodeKept
<1> QED BY <1>5, <1>6

(* The others map the local APIC that the boot processor has mapped.        *)
LEMMA MapLapicKept ==
    ASSUME Inv, NEW c \in CPUs, MapLapic(c)
    PROVE  Inv'
<1>1. CASE c = BSP
  <2>1. "lapic" \in Pages
    BY DEF Pages
  <2> QED BY <1>1, <2>1, BspMapKept DEF MapLapic, AfterMapLapic
<1>2. CASE c # BSP
  <2>1. c \in APs /\ pc[c] = "map_lapic" /\ trap[c] = "none" /\ irq[c] = "none"
    BY <1>2 DEF MapLapic, Map, At, APs
  <2>2. InMaster("lapic")
    BY <2>1 DEF Inv, ApInv, BspInv, MasterInv
  <2>3. /\ pc' = [pc EXCEPT ![c] = "write_lapic"] /\ pc'[c] = "write_lapic"
        /\ UNCHANGED <<machine, paging, copied, debug_owner, faults, smp>>
    BY <1>2, <2>2 DEF MapLapic, AfterMapLapic, Map, Mapped, InMaster, Inv, TypeOK
  <2>4. SharedSame /\ CountsSame /\ \A d \in CPUs \ {c} : Same(d)
    BY <2>3 DEF SharedSame, CountsSame, Same, Inv, TypeOK
  <2>5. TypeOK'
    BY <2>3 DEF Inv, TypeOK, PCs
  <2>6. pc'[BSP] = pc[BSP]
    BY <1>2, <2>3, MachinesAssumption DEF Inv, TypeOK
  <2>7. ApInv(c)'
    BY <2>1, <2>3, <2>6 DEF Inv, ApInv, ApLabels, Prepared
  <2>8. CountInv'
    BY <2>1, <2>3, <2>4, CountKeptMoving DEF APs, Same
  <2> QED BY <2>1, <2>3, <2>4, <2>5, <2>7, <2>8, ApCodeKept
<1> QED BY <1>1, <1>2

(* A step of initialize_usermode: it clears the user half of the directory  *)
(* and enters pages in it, which are the processor's own, and it sets and   *)
(* clears the pte of its frame.                                             *)
LEMMA UserModeKept ==
    ASSUME Inv, NEW c \in CPUs, trap[c] = "none", irq[c] = "none",
           pc[c] \in {"initialize_usermode", "use_frame"},
           NEW next \in {"use_frame", "print_started", "user"},
           next = "print_started" => c = BSP,
           NEW held \in SUBSET Entries, pgd[c] \ {"low"} \subseteq held, "low" \notin held,
           pc' = [pc EXCEPT ![c] = next], pgd' = [pgd EXCEPT ![c] = held],
           frame_pte' \subseteq CPUs,
           UNCHANGED <<machine, master, pte, own_cr3, tlb_low, copied, debug_owner, faults, smp>>
    PROVE  Inv'
<1>1. pc'[c] = next /\ pgd'[c] = held
  BY DEF Inv, TypeOK
<1>2. TypeOK'
  <2>1. next \in PCs
    BY DEF PCs
  <2> QED BY <2>1 DEF Inv, TypeOK
<1>3. SharedSame /\ CountsSame /\ \A d \in CPUs \ {c} : Same(d)
  BY DEF SharedSame, CountsSame, Same, Inv, TypeOK
<1>4. \A p : EntryOf(p)' = EntryOf(p) /\ InMaster(p)' = InMaster(p)
  BY DEF EntryOf, InMaster
<1>5. CASE c = BSP
  <2>1. \A p \in {"kernel", "log", "lapic"} : EntryOf(p) # "low"
    BY EntryFacts DEF Inv, Pages
  <2>2. MasterInv'
    BY <1>1, <1>4, <1>5 DEF Inv, MasterInv, LapicMapped, Present, Sent
  <2>3. BspInv'
    BY <1>1, <1>4, <1>5, <2>1 DEF Inv, BspInv, BspLabels, Early, Setup, Devices, LapicMapped,
       Present, Sent, End
  <2>4. DebugInv'
    BY <1>3, DebugKept DEF Same
  <2>5. Prepared' => Prepared
    BY <1>1, <1>5 DEF Prepared
  <2> QED BY <1>2, <1>3, <1>5, <2>2, <2>3, <2>4, <2>5, BspCodeKept DEF APs
<1>6. CASE c # BSP
  <2>1. c \in APs /\ pc'[c] \in {"use_frame", "user"} /\ pc'[BSP] = pc[BSP]
        /\ "low" \notin master
    BY <1>1, <1>6, MachinesAssumption DEF APs, Inv, TypeOK, MasterInv
  <2>2. ApInv(c)'
    BY <1>1, <2>1 DEF Inv, ApInv, ApLabels, Prepared
  <2>3. CountInv'
    BY <1>3, <2>1, CountKeptMoving DEF APs, Same
  <2> QED BY <1>2, <1>3, <2>1, <2>2, <2>3, ApCodeKept
<1> QED BY <1>5, <1>6

LEMMA InitializeUserModeKept ==
    ASSUME Inv, NEW c \in CPUs, InitializeUserMode(c)
    PROVE  Inv'
<1> DEFINE held == (pgd[c] \ {"low"}) \cup {"um", EntryOf("frame")}
<1>1. {"um", EntryOf("frame")} \subseteq Entries \ {"low"}
  BY EntryFacts, DirectoryFacts DEF Inv, Pages
<1>2. held \in SUBSET Entries /\ pgd[c] \ {"low"} \subseteq held /\ "low" \notin held
  BY <1>1 DEF Inv, TypeOK
<1>3. /\ pc[c] = "initialize_usermode" /\ trap[c] = "none" /\ irq[c] = "none"
      /\ pc' = [pc EXCEPT ![c] = "use_frame"] /\ pgd' = [pgd EXCEPT ![c] = held]
      /\ frame_pte' = frame_pte \cup {c}
      /\ UNCHANGED <<machine, master, pte, own_cr3, tlb_low, copied, debug_owner, faults, smp>>
  BY DEF InitializeUserMode, UserMaps, At
<1>4. frame_pte' \subseteq CPUs
  BY <1>3 DEF Inv, TypeOK
<1> HIDE DEF held
<1> QED BY <1>2, <1>3, <1>4, UserModeKept

LEMMA UnmapFrameKept ==
    ASSUME Inv, NEW c \in CPUs, UnmapFrame(c)
    PROVE  Inv'
<1> DEFINE next == IF c = BSP THEN "print_started" ELSE "user"
<1>1. /\ pc[c] = "use_frame" /\ trap[c] = "none" /\ irq[c] = "none"
      /\ pc' = [pc EXCEPT ![c] = next] /\ frame_pte' = frame_pte \ {c}
      /\ UNCHANGED <<machine, master, pgd, pte, own_cr3, tlb_low, copied, debug_owner, faults, smp>>
  BY DEF UnmapFrame, At
<1>2. /\ frame_pte' \subseteq CPUs /\ pgd[c] \in SUBSET Entries
      /\ pgd' = [pgd EXCEPT ![c] = pgd[c]]
  BY <1>1 DEF Inv, TypeOK
<1>3. "low" \notin pgd[c]
  BY <1>1 DEF Inv, BspInv, ApInv, APs, Early
<1> QED BY <1>1, <1>2, <1>3, UserModeKept

(* A TLB loads the low page only on a processor that is just starting.      *)
LEMMA FillTlbKept ==
    ASSUME Inv, NEW c \in CPUs, FillTlb(c)
    PROVE  Inv'
<1>1. /\ own_cr3[c] /\ "low" \in pgd[c]
      /\ tlb_low' = [tlb_low EXCEPT ![c] = TRUE]
      /\ UNCHANGED <<machine, master, pgd, ptes, own_cr3, pc, copied, debug_owner, faults, smp>>
  BY DEF FillTlb
<1>2. c \in APs
  BY <1>1 DEF Inv, BspInv, APs
<1>3. pc[c] \in {"jump_high", "invlpg", "clear_low"}
  BY <1>1, <1>2 DEF Inv, ApInv
<1>4. TypeOK'
  BY <1>1 DEF Inv, TypeOK
<1>5. SharedSame /\ CountsSame /\ \A d \in CPUs \ {c} : Same(d)
  BY <1>1 DEF SharedSame, CountsSame, Same, Inv, TypeOK
<1>6. MasterInv' /\ BspInv' /\ Prepared' = Prepared
  BY <1>2, <1>5, BspKept, MachinesAssumption DEF APs
<1>7. ASSUME NEW d \in APs
      PROVE  ApInv(d)'
  <2>1. CASE d # c
    BY <1>5, <1>6, <2>1, ApKept DEF APs
  <2>2. CASE d = c
    BY <1>1, <1>3, <1>6, <2>2 DEF Inv, ApInv
  <2> QED BY <2>1, <2>2
<1>8. ASSUME NEW d \in CPUs
      PROVE  FaultInv(d)'
  <2>1. CASE d # c
    BY <1>5, <2>1, FaultKept
  <2>2. CASE d = c
    BY <1>1, <2>2 DEF Inv, FaultInv, NoIDT, InterruptsOn, InMaster, EntryOf
  <2> QED BY <2>1, <2>2
<1>9. DebugInv'
  BY <1>1 DEF Inv, DebugInv
<1>10. CountInv'
  BY <1>1, <1>5, CountKept
<1> QED BY <1>4, <1>6, <1>7, <1>8, <1>9, <1>10 DEF Inv

-----------------------------------------------------------------------------
(* The other processors' code                                               *)

LEMMA ApPathKept ==
    ASSUME Inv, NEW c \in APs,
           StartAp(c) \/ JumpHigh(c) \/ Invlpg(c) \/ ClearLow(c) \/ WriteLapic(c)
    PROVE  Inv'
<1>1. c \in CPUs /\ c # BSP /\ BSP \in CPUs
  BY MachinesAssumption DEF APs
<1>2. /\ pc'[BSP] = pc[BSP] /\ trap[c] = "none" /\ irq[c] = "none"
      /\ UNCHANGED <<machine, master, ptes, copied, debug_owner, faults, smp>>
      /\ pc[c] \notin PrintPCs
      /\ \/ pc[c] = "off" /\ pc'[c] = "jump_high"
         \/ pc[c] = "jump_high" /\ pc'[c] = "invlpg"
         \/ pc[c] = "invlpg" /\ pc'[c] = "clear_low"
         \/ pc[c] = "clear_low" /\ pc'[c] = "smp_lock"
         \/ pc[c] = "write_lapic" /\ pc'[c] = "initialize_usermode"
  BY <1>1 DEF StartAp, JumpHigh, Invlpg, ClearLow, WriteLapic, Read, At, Inv, TypeOK, ApInv
<1>3. SharedSame /\ CountsSame /\ \A d \in CPUs \ {c} : Same(d)
  BY <1>1, <1>2 DEF StartAp, JumpHigh, Invlpg, ClearLow, WriteLapic, Read, At, SharedSame,
     CountsSame, Same, Inv, TypeOK
<1>4. TypeOK'
  <2>1. CASE StartAp(c)
    BY <1>1, <2>1 DEF StartAp, Inv, TypeOK, PCs
  <2>2. CASE JumpHigh(c) \/ WriteLapic(c)
    BY <1>1, <2>2, ZenonT(60) DEF JumpHigh, WriteLapic, Read, Inv, TypeOK, PCs
  <2>3. CASE Invlpg(c)
    BY <1>1, <2>3 DEF Invlpg, Inv, TypeOK, PCs
  <2>4. CASE ClearLow(c)
    BY <1>1, <2>4 DEF ClearLow, Inv, TypeOK, PCs
  <2> QED BY <2>1, <2>2, <2>3, <2>4
<1>5. CountInv'
  BY <1>1, <1>2, <1>3, CountKeptMoving DEF APs, Same
<1>6. "low" \notin master /\ ApInv(c)
  BY DEF Inv, MasterInv
<1>7. ApInv(c)'
  <2>1. CASE StartAp(c)
    BY <1>1, <1>2, <1>6, <2>1 DEF StartAp, Inv, TypeOK, ApInv, ApLabels, Prepared
  <2>2. CASE JumpHigh(c) \/ WriteLapic(c)
    BY <1>1, <1>2, <1>6, <2>2 DEF JumpHigh, WriteLapic, Read, At, ApInv, ApLabels, Prepared
  <2>3. CASE Invlpg(c)
    BY <1>1, <1>2, <1>6, <2>3 DEF Invlpg, At, Inv, TypeOK, ApInv, ApLabels, Prepared
  <2>4. CASE ClearLow(c)
    BY <1>1, <1>2, <1>6, <2>4 DEF ClearLow, At, Inv, TypeOK, ApInv, ApLabels, Prepared
  <2> QED BY <2>1, <2>2, <2>3, <2>4
<1> QED BY <1>1, <1>2, <1>3, <1>4, <1>5, <1>7, ApCodeKept

(* The count is read and written by one processor at a time.                *)
LEMMA ApCountKept ==
    ASSUME Inv, NEW c \in APs,
           SmpLock(c) \/ SmpRead(c) \/ SmpWrite(c) \/ SmpUnlock(c)
    PROVE  Inv'
<1>1. /\ c \in CPUs /\ c # BSP /\ BSP \in CPUs /\ Nobody \notin CPUs
      /\ IsFiniteSet(APs) /\ Cardinality(APs) \in Nat
  BY MachinesAssumption, FS_Subset, FS_CardinalityType DEF APs
<1>2. /\ pc'[BSP] = pc[BSP] /\ \A d \in APs \ {c} : pc'[d] = pc[d]
      /\ trap[c] = "none" /\ irq[c] = "none" /\ pc[c] \notin PrintPCs
      /\ UNCHANGED <<machine, paging, copied, debug_owner, faults, lapic_present, sipi>>
      /\ \/ pc[c] = "smp_lock" /\ pc'[c] = "smp_read"
         \/ pc[c] = "smp_read" /\ pc'[c] = "smp_write"
         \/ pc[c] = "smp_write" /\ pc'[c] = "smp_unlock"
         \/ pc[c] = "smp_unlock" /\ pc'[c] = "copy"
  BY <1>1 DEF SmpLock, SmpRead, SmpWrite, SmpUnlock, SmpUnchanged, At, Inv, TypeOK, APs
<1>3. SharedSame /\ \A d \in CPUs \ {c} : Same(d)
  BY <1>1, <1>2 DEF SmpLock, SmpRead, SmpWrite, SmpUnlock, SharedSame, Same, Inv, TypeOK
<1>4. pc' \in [CPUs -> PCs]
  BY <1>1 DEF SmpLock, SmpRead, SmpWrite, SmpUnlock, Inv, TypeOK, PCs
<1> DEFINE announced == {d \in APs : pc[d] \notin ApPCs \/ pc[d] \in {"smp_unlock", "write_lapic"}}
<1>5. /\ smp_nums = Cardinality(announced) /\ smp_bits = {BSP} \cup announced
      /\ IsFiniteSet(announced)
  BY <1>1, FS_Subset DEF Inv, CountInv, ApsCounted
<1>6. ~ SmpWrite(c) =>
        {d \in APs : pc[d] \notin ApPCs \/ pc[d] \in {"smp_unlock", "write_lapic"}}' = announced
  BY <1>2 DEF SmpLock, SmpRead, SmpUnlock, At
<1>7. TypeOK' /\ CountInv'
  <2>1. CASE SmpLock(c)
    <3>1. TypeOK'
      BY <1>1, <1>2, <1>4, <2>1 DEF SmpLock, Inv, TypeOK
    <3>2. CountInv'
      BY <1>1, <1>2, <1>5, <1>6, <2>1 DEF SmpLock, SmpWrite, At, Inv, CountInv, ApsCounted, APs
    <3> QED BY <3>1, <3>2
  <2>2. CASE SmpRead(c)
    <3>1. TypeOK'
      BY <1>1, <1>2, <1>4, <2>2 DEF SmpRead, Inv, TypeOK
    <3>2. CountInv'
      BY <1>1, <1>2, <1>5, <1>6, <2>2, ZenonT(60) DEF SmpRead, SmpWrite, At, Inv, TypeOK,
         CountInv, ApsCounted, APs
    <3> QED BY <3>1, <3>2
  <2>3. CASE SmpWrite(c)
    <3>1. /\ pc[c] = "smp_write" /\ smp_owner = c /\ c \notin announced
          /\ seen[c] = [nums |-> smp_nums, bits |-> smp_bits]
      BY <2>3 DEF SmpWrite, At, Inv, CountInv
    <3>2. {d \in APs : pc[d] \notin ApPCs \/ pc[d] \in {"smp_unlock", "write_lapic"}}'
            = announced \cup {c}
      BY <1>2, <2>3 DEF SmpWrite, At
    <3>3. Cardinality(announced \cup {c}) = Cardinality(announced) + 1
      BY <1>5, <3>1, FS_AddElement
    <3>4. smp_nums' = Cardinality(announced \cup {c}) /\ smp_bits' = {BSP} \cup announced \cup {c}
      BY <1>5, <2>3, <3>1, <3>3 DEF SmpWrite
    <3>5. Cardinality(announced \cup {c}) \in 0 .. Cardinality(APs)
      <4>1. announced \cup {c} \subseteq APs
        OBVIOUS
      <4> QED BY <1>1, <4>1, FS_Subset, FS_CardinalityType
    <3>6. TypeOK'
      BY <1>1, <1>2, <1>4, <2>3, <3>4, <3>5 DEF SmpWrite, Inv, TypeOK, APs
    <3>7. ApsCounted'
      BY <3>2, <3>4 DEF ApsCounted
    <3> QED BY <1>1, <1>2, <2>3, <3>1, <3>6, <3>7 DEF SmpWrite, At, Inv, CountInv, APs
  <2>4. CASE SmpUnlock(c)
    <3>1. TypeOK'
      BY <1>1, <1>2, <1>4, <2>4 DEF SmpUnlock, Inv, TypeOK
    <3>2. CountInv'
      BY <1>1, <1>2, <1>5, <1>6, <2>4 DEF SmpUnlock, SmpWrite, At, Inv, CountInv, ApsCounted, APs
    <3> QED BY <3>1, <3>2
  <2> QED BY <2>1, <2>2, <2>3, <2>4
<1>8. ApInv(c)'
  <2>1. "copy" \in {pc'[c]} => copied[c] < Len(Directory)
    BY <1>2, DirectoryFacts DEF Inv, ApInv
  <2> QED BY <1>2, <2>1 DEF Inv, ApInv, ApLabels, Prepared
<1> QED BY <1>1, <1>2, <1>3, <1>7, <1>8, ApCodeKept

-----------------------------------------------------------------------------
(* The theorems                                                             *)

LEMMA InitHolds ==
    ASSUME Init
    PROVE  Inv
<1>1. /\ BSP \in CPUs /\ Nobody \notin CPUs /\ IsFiniteSet(APs) /\ Cardinality(APs) \in Nat
  BY MachinesAssumption, FS_Subset, FS_CardinalityType DEF APs
<1>2. /\ \A c \in CPUs : /\ pc[c] = IF c = BSP THEN "mem_init" ELSE "off"
                         /\ ~ own_cr3[c] /\ copied[c] = 0
                         /\ trap[c] = "none" /\ irq[c] = "none"
                         /\ c # BSP => ~ tlb_low[c]
      /\ master = {"kernel"} /\ pte = {"low", "kernel"} /\ debug_owner = Nobody
      /\ smp_owner = Nobody /\ smp_nums = 0 /\ smp_bits = {BSP} /\ ~ sipi /\ ~ lapic_present
  BY DEF Init, InitialNums
<1>3. TypeOK
  <2>1. "kernel" \in Entries /\ {} \subseteq Entries /\ {"low", "kernel"} \subseteq Pages
    BY DirectoryFacts DEF Pages
  <2>2. 0 \in 0 .. MaxTicks /\ 0 \in 0 .. Len(Directory) /\ 0 \in 0 .. Cardinality(APs)
    BY <1>1, MachinesAssumption, DirectoryFacts
  <2>3. pgd \in [CPUs -> SUBSET Entries]
    BY DEF Init
  <2>4. tlb_low \in [CPUs -> BOOLEAN]
    BY DEF Init
  <2> QED BY <1>1, <1>2, <2>1, <2>2, <2>3, <2>4 DEF Init, TypeOK, PCs, Pages
<1>4. MasterInv
  BY <1>1, <1>2, <1>3, EntryFacts DEF MasterInv, InMaster, LapicMapped, Present, Sent
<1>5. BspInv
  BY <1>1, <1>2, DirectoryFacts DEF BspInv, BspLabels, Early, Setup, Present, Sent, End
<1>6. DebugInv
  BY <1>2 DEF DebugInv
<1>7. CountInv
  <2>1. {c \in APs : pc[c] \notin ApPCs \/ pc[c] \in {"smp_unlock", "write_lapic"}} = {}
    BY <1>2 DEF APs
  <2>2. ApsCounted
    BY <1>2, <2>1, FS_EmptySet DEF ApsCounted
  <2> QED BY <1>1, <1>2, <2>2 DEF CountInv, APs
<1>8. \A c \in APs : ApInv(c)
  BY <1>1, <1>2 DEF ApInv, ApLabels, APs, Prepared
<1>9. \A c \in CPUs : FaultInv(c)
  BY <1>2 DEF FaultInv
<1> QED BY <1>3, <1>4, <1>5, <1>6, <1>7, <1>8, <1>9 DEF Inv

LEMMA NextKeeps ==
    ASSUME Inv, [Next]_vars
    PROVE  Inv'
<1>1. CASE UNCHANGED vars
  <2>1. \A d \in CPUs : Same(d)
    BY <1>1 DEF vars, Same
  <2>2. SharedSame /\ CountsSame /\ BSP \in CPUs
    BY <1>1, MachinesAssumption DEF vars, SharedSame, CountsSame
  <2>3. MasterInv' /\ BspInv' /\ Prepared' = Prepared
    BY <2>1, <2>2, BspKept
  <2>4. CountInv'
    BY <2>1, <2>2, CountKept DEF Same, APs
  <2>5. TypeOK' /\ DebugInv'
    BY <1>1 DEF vars, Inv, TypeOK, DebugInv
  <2>6. \A d \in APs : ApInv(d)'
    BY <2>1, <2>2, <2>3, ApKept DEF APs
  <2>7. \A d \in CPUs : FaultInv(d)'
    BY <2>1, <2>2, FaultKept
  <2> QED BY <2>3, <2>4, <2>5, <2>6, <2>7 DEF Inv
<1>2. CASE Next
  <2>1. PICK c \in CPUs : Step(c) \/ Interrupt(c) \/ FillTlb(c)
    BY <1>2 DEF Next
  <2>2. CASE Handlers(c) \/ Interrupt(c)
    BY <2>2, PageFaultKept, TrapPrologueKept, TrapPrintfKept, TrapRepairKept, InterruptKept
       DEF Handlers
  <2>3. CASE \/ PrintfLock(c) \/ PrintfUnlock(c) \/ CopyEntry(c) \/ LoadCr3(c)
             \/ MapLapic(c) \/ InitializeUserMode(c) \/ UnmapFrame(c) \/ FillTlb(c)
    BY <2>3, PrintfLockKept, PrintfUnlockKept, CopyEntryKept, LoadCr3Kept, MapLapicKept,
       InitializeUserModeKept, UnmapFrameKept, FillTlbKept
  <2>4. CASE c = BSP /\ StartKernel
    BY <2>4, StartKernelKept
  <2>5. CASE c # BSP /\ ApCode(c)
    BY <2>5, ApPathKept, ApCountKept DEF ApCode, APs
  <2> QED BY <2>1, <2>2, <2>3, <2>4, <2>5 DEF Step
<1> QED BY <1>1, <1>2

(* The invariant holds in every state, for any number of processors, any    *)
(* machine and any interleaving of their code, faults and interrupts.       *)
THEOREM SmpInvariance == Spec => []Inv
<1>1. Init => Inv
  BY InitHolds
<1>2. Inv /\ [Next]_vars => Inv'
  BY NextKeeps
<1> QED BY <1>1, <1>2, PTL DEF Spec

(* Every variable keeps its type.                                           *)
THEOREM SmpTypes == Spec => []TypeOK
<1>1. Inv => TypeOK
  BY DEF Inv
<1> QED BY <1>1, SmpInvariance, PTL

(* Whenever a handler is entered with lapic_present set, its processor      *)
(* reaches the local APIC: the prologue does not fault again and again.     *)
THEOREM ProloguesRun == Spec => []PrologueNeverFaults
<1>1. ASSUME Inv PROVE PrologueNeverFaults
  <2>1. ASSUME NEW c \in CPUs,
               trap[c] = "prologue" \/ (trap[c] = "none" /\ irq[c] = "prologue")
        PROVE  Reachable(c, PrologueTouches)
    <3>1. ~ NoIDT(c)
      BY <1>1, <2>1 DEF Inv, FaultInv, InterruptsOn, NoIDT
    <3> QED BY <1>1, <3>1, HandlersReach
  <2> QED BY <2>1 DEF PrologueNeverFaults
<1> QED BY <1>1, SmpInvariance, PTL

(* The holder of lock_debug_mem reaches the log and is not in a fault that  *)
(* would print, and wait for its own lock.                                  *)
THEOREM PrintfRuns == Spec => []PrintfNeverFaults
<1>1. ASSUME Inv PROVE PrintfNeverFaults
  <2>1. ASSUME NEW c \in CPUs, debug_owner = c
        PROVE  Reachable(c, "log")
    <3>1. trap[c] = "locked" \/ (trap[c] = "none" /\ pc[c] \in PrintPCs)
      BY <1>1, <2>1, MachinesAssumption DEF Inv, DebugInv
    <3>2. CASE ~ NoIDT(c)
      BY <1>1, <3>2, HandlersReach
    <3>3. CASE NoIDT(c)
      <4>1. trap[c] = "none" /\ pc[c] = "print_start"
        BY <1>1, <3>1, <3>3 DEF Inv, FaultInv, NoIDT
      <4>2. c = BSP
        BY <1>1, <4>1 DEF Inv, ApInv, ApLabels, APs
      <4>3. ~ own_cr3[c] /\ InMaster("log")
        BY <1>1, <4>1, <4>2 DEF Inv, BspInv, MasterInv, Early
      <4> QED BY <4>3 DEF Reachable, HasPte, InMaster
    <3> QED BY <3>2, <3>3
  <2>2. debug_owner # Nobody => trap[debug_owner] \in {"none", "locked"}
    BY <1>1 DEF Inv, DebugInv
  <2> QED BY <2>1, <2>2 DEF PrintfNeverFaults
<1> QED BY <1>1, SmpInvariance, PTL

(* No processor faults before it has an IDT, and one that a fault stops     *)
(* wanted a page that the kernel has not mapped.                            *)
THEOREM MappedRepaired == Spec => []FaultsRepaired
<1>1. Inv => FaultsRepaired
  BY DEF Inv, FaultInv, FaultsRepaired, InMaster
<1> QED BY <1>1, SmpInvariance, PTL

(* Once a processor has loaded its own tables in setup32, neither they nor  *)
(* its TLB have the low pages.                                              *)
THEOREM LowGone == Spec => []LowUnmapped
<1>1. ASSUME Inv PROVE LowUnmapped
  <2>1. ASSUME NEW c \in CPUs, own_cr3[c], ~ NoIDT(c), pc[c] # "load_cr3"
        PROVE  ~ Reachable(c, "low")
    <3>1. "low" \notin pgd[c] /\ ~ tlb_low[c]
      <4>1. CASE c = BSP
        BY <1>1, <2>1, <4>1 DEF Inv, BspInv, NoIDT, Early
      <4>2. CASE c # BSP
        BY <1>1, <2>1, <4>2 DEF Inv, ApInv, ApLabels, APs, NoIDT
      <4> QED BY <4>1, <4>2
    <3>2. EntryOf("low") = "low"
      BY <1>1, EntryFacts DEF Inv
    <3> QED BY <2>1, <3>1, <3>2 DEF Reachable
  <2> QED BY <2>1 DEF LowUnmapped
<1> QED BY <1>1, SmpInvariance, PTL

(* Each processor that has announced itself is in smp_nums and smp_bits:    *)
(* spinlock_smp keeps their updates apart.                                  *)
THEOREM NoneUncounted == Spec => []ApsCounted
<1>1. Inv => ApsCounted
  BY DEF Inv, CountInv
<1> QED BY <1>1, SmpInvariance, PTL

(* From the startup IPI on the master directory stays what it is, so that   *)
(* memcpy and trap_handler may read it unlocked, while each processor still *)
(* enters its user's frames in the directory it owns.                       *)
THEOREM MasterFixed == Spec => MasterStable
<1>1. ASSUME Inv, [Next]_vars, sipi
      PROVE  UNCHANGED master
  <2>1. pc[BSP] \in Sent \cup End /\ InMaster("lapic")
    BY <1>1 DEF Inv, BspInv, MasterInv
  <2>2. CASE UNCHANGED vars
    BY <2>2 DEF vars
  <2>3. CASE Next
    <3>1. PICK c \in CPUs : Step(c) \/ Interrupt(c) \/ FillTlb(c)
      BY <2>3 DEF Next
    <3>2. CASE Handlers(c) \/ Interrupt(c) \/ FillTlb(c)
      BY <3>2 DEF Handlers, PageFault, TrapPrologue, TrapPrintf, TrapRepair, IrqHandler, IrqEOI,
         Interrupt, FillTlb
    <3>3. CASE PrintfLock(c) \/ PrintfUnlock(c) \/ CopyEntry(c) \/ LoadCr3(c)
               \/ InitializeUserMode(c) \/ UnmapFrame(c)
      BY <3>3 DEF PrintfLock, PrintfUnlock, CopyEntry, LoadCr3, InitializeUserMode, UserMaps,
         UnmapFrame
    <3>4. CASE MapLapic(c)
      BY <2>1, <3>4 DEF MapLapic, Map, Mapped, InMaster
    <3>5. CASE c = BSP /\ StartKernel
      BY <2>1, <3>5 DEF StartKernel, MemInit, DebugInit, AcpiInit, IoapicAllocate, IoapicInit,
         InitLapic, SetPresent, InitializeKernelPgTables, SendSipi, Wait, Map, Read, At, Sent, End
    <3>6. CASE c # BSP /\ ApCode(c)
      BY <3>6 DEF ApCode, StartAp, JumpHigh, Invlpg, ClearLow, SmpLock, SmpRead, SmpWrite,
         SmpUnlock, SmpUnchanged, WriteLapic, Read
    <3> QED BY <3>1, <3>2, <3>3, <3>4, <3>5, <3>6 DEF Step
  <2> QED BY <1>1, <2>2, <2>3
<1>2. Inv /\ [Next]_vars => [sipi => UNCHANGED master]_vars
  BY <1>1
<1> QED BY <1>2, SmpInvariance, PTL DEF MasterStable, Spec
=============================================================================
