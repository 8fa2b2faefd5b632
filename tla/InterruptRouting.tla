-------------------------- MODULE InterruptRouting --------------------------
(***************************************************************************)
(* From the MADT to the handlers: interrupts_init, the overrides that       *)
(* acpi_process_madt applies, ioapic_init (interrupt.c), the calibration of *)
(* the local APIC's timer (apic.c), and common_interrupt_handler (setup32.c)*)
(* on the boot processor.  Interrupts are off but for the windows in        *)
(* pit_wait, until smp_start ends with sti.                                 *)
(*                                                                         *)
(* The machine has a local APIC with id 0 and one I/O APIC, with id 0; a    *)
(* machine without them is one of SmpBoot's.                                *)
(***************************************************************************)
EXTENDS Integers, Sequences

CONSTANTS
    Madts,             \* the sequences of MADT entries to boot with
    Devices,           \* ISA lines with an edge-triggered device, no keyboard
    TicksPerMs,        \* 1000 in the code: ticks of a second per tick of a ms
    MaxCalibration,    \* bound: timer expirations while it is calibrated
    MaxTicks,          \* bound: timer expirations after that
    MaxRaises          \* bound: edges of the other devices

NUM_OF_INTERRUPTS == 24
IsaPins == 0 .. 15
KeyboardIrq == 1
LAPIC_IDT_VECTOR == 32
Gates == LAPIC_IDT_VECTOR .. LAPIC_IDT_VECTOR + 15     \* irq_handler_0 to 15

Override == [type : {"override"}, source : IsaPins,
             gsi : 0 .. NUM_OF_INTERRUPTS - 1, level : BOOLEAN]
Other == [type : {"other"}]            \* processors, the I/O APIC, NMIs

IsOverride(e) == e.type = "override"

(* As ACPI has it, a line is overridden once, and no two share a pin.       *)
ASSUME MadtsAssumption ==
    \A madt \in Madts :
        /\ madt \in Seq(Override \cup Other)
        /\ \A j, k \in 1 .. Len(madt) :
              j # k /\ IsOverride(madt[j]) /\ IsOverride(madt[k])
                 => madt[j].source # madt[k].source /\ madt[j].gsi # madt[k].gsi
ASSUME BoundsAssumption ==
    /\ Devices \subseteq IsaPins \ {KeyboardIrq}
    /\ TicksPerMs \in Nat \ {0} /\ MaxCalibration \in Nat
    /\ MaxTicks \in Nat /\ MaxRaises \in Nat

VARIABLES
    madt, next_entry,
    interrupts_cpu_0,          \* the table of the lines
    redirection,               \* pin |-> its entry in the I/O APIC
    pc,
    irr, isr,                  \* vectors pending and in service
    timer_on,                  \* the timer counts
    lapic_calibration_mode, lapic_calibration_tick,
    timer_counter, seconds,
    measured, ticks,           \* timer interrupts taken in pit_wait and later
    expired,                   \* timer expirations, for the bounds
    kbc_interrupt,             \* the keyboard controller's interrupt is on
    output_full,               \* it has a scan code nobody has read
    raises                     \* edges of the other devices, for the bound

routing == <<madt, next_entry, interrupts_cpu_0, redirection>>
lapic == <<irr, isr, timer_on>>
calibration == <<lapic_calibration_mode, lapic_calibration_tick>>
clock == <<timer_counter, seconds, measured, ticks>>
keyboard == <<kbc_interrupt, output_full>>
bounds == <<expired, raises>>
vars == <<routing, pc, lapic, calibration, clock, keyboard, bounds>>

Masked == [vector |-> 0, mask |-> TRUE]

(* The firmware leaves every pin of the I/O APIC masked, and the keyboard   *)
(* controller as it likes.                                                  *)
Init ==
    /\ madt \in Madts /\ next_entry = 1
    /\ interrupts_cpu_0 = [n \in 0 .. NUM_OF_INTERRUPTS - 1 |->
          [orig_irq |-> 0, overriden |-> FALSE, level |-> FALSE]]
    /\ redirection = [p \in IsaPins |-> Masked]
    /\ pc = "interrupts_init"
    /\ irr = {} /\ isr = {} /\ timer_on = FALSE
    /\ lapic_calibration_mode = FALSE /\ lapic_calibration_tick = 0
    /\ timer_counter = 0 /\ seconds = 0 /\ measured = 0 /\ ticks = 0
    /\ kbc_interrupt \in BOOLEAN /\ output_full \in BOOLEAN
    /\ expired = 0 /\ raises = 0

-----------------------------------------------------------------------------
(***************************************************************************)
(* Routing                                                                 *)
(***************************************************************************)
InterruptsInit ==
    /\ pc = "interrupts_init"
    /\ interrupts_cpu_0' = [n \in 0 .. NUM_OF_INTERRUPTS - 1 |->
          IF n \in IsaPins THEN [interrupts_cpu_0[n] EXCEPT !.orig_irq = n]
          ELSE interrupts_cpu_0[n]]
    /\ pc' = "acpi_init"
    /\ UNCHANGED <<madt, next_entry, redirection, lapic, calibration, clock, keyboard, bounds>>

(* mutant: the line stays where it was as well *)
Overridden_Both(e, table) ==
    [table EXCEPT ![e.gsi].orig_irq = e.source, ![e.gsi].level = e.level]

(* the table after interrupt_set_override; the polarity ends on a bit of    *)
(* the redirection entry that cannot be written                             *)
Overridden(e, table) ==
    [n \in DOMAIN table |->
        [orig_irq |-> IF n = e.gsi /\ e.source # e.gsi THEN e.source ELSE table[n].orig_irq,
         overriden |-> table[n].overriden \/ (n = e.source /\ e.source # e.gsi),
         level |-> IF n = e.gsi THEN e.level ELSE table[n].level]]

AcpiProcessMadt ==
    /\ pc = "acpi_init"
    /\ next_entry <= Len(madt)
    /\ next_entry' = next_entry + 1
    /\ interrupts_cpu_0' = IF IsOverride(madt[next_entry])
                           THEN Overridden(madt[next_entry], interrupts_cpu_0)
                           ELSE interrupts_cpu_0
    /\ UNCHANGED <<madt, redirection, pc, lapic, calibration, clock, keyboard, bounds>>

(* acpi_init returns; devices_init turns the keyboard's interrupt off       *)
DevicesInit ==
    /\ pc = "acpi_init"
    /\ next_entry > Len(madt)
    /\ kbc_interrupt' = FALSE
    /\ pc' = "ioapic_init"
    /\ UNCHANGED <<routing, lapic, calibration, clock, output_full, bounds>>

(* mutant: one more *)
Vector_Plus(pin) == (pin + 803) % 256

(* i + LAPIC_LVT_TIMER_REG + 1, in the eight bits of e.vector *)
Vector(pin) == (pin + 801) % 256

(* ioapic_setisa_irqs.  The trigger mode's bit of struct ioapic_entry is    *)
(* the mask's of the I/O APIC: a level-triggered pin is written as masked.  *)
IoapicInit ==
    /\ pc = "ioapic_init"
    /\ redirection' = [p \in IsaPins |->
          IF interrupts_cpu_0[p].overriden \/ interrupts_cpu_0[p].orig_irq = 0
          THEN redirection[p]
          ELSE [vector |-> Vector(p), mask |-> interrupts_cpu_0[p].level]]
    /\ pc' = "calibrate"
    /\ UNCHANGED <<madt, next_entry, interrupts_cpu_0, lapic, calibration, clock,
                   keyboard, bounds>>

-----------------------------------------------------------------------------
(***************************************************************************)
(* The boot processor, from interrupts_enable on                           *)
(***************************************************************************)
CalibrateStart ==
    /\ pc = "calibrate"
    /\ lapic_calibration_mode' = TRUE
    /\ timer_on' = TRUE
    /\ pc' = "pit_wait"
    /\ UNCHANGED <<routing, irr, isr, lapic_calibration_tick, clock, keyboard, bounds>>

PitWaited ==
    /\ pc = "pit_wait"
    /\ pc' = "calibrated"
    /\ UNCHANGED <<routing, lapic, calibration, clock, keyboard, bounds>>

(* mutant: the mode is left on *)
LeaveCalibration_Kept == lapic_calibration_mode' = lapic_calibration_mode

LeaveCalibration == lapic_calibration_mode' = FALSE

(* the timer is stopped and started again; an expiration can be pending     *)
CalibrateEnd ==
    /\ pc = "calibrated"
    /\ LeaveCalibration
    /\ pc' = "enable"
    /\ UNCHANGED <<routing, lapic, lapic_calibration_tick, clock, keyboard, bounds>>

(* the line of source s, on the pin the firmware has wired it to *)
Moves(e, s) == IsOverride(e) /\ e.source = s /\ e.gsi # s
Moved(s) == \E k \in 1 .. Len(madt) : Moves(madt[k], s)
Wire(s) == IF Moved(s) THEN madt[CHOOSE k \in 1 .. Len(madt) : Moves(madt[k], s)].gsi
           ELSE s
Programmed(p) == p \in IsaPins /\ ~ redirection[p].mask

(* irr after an edge on the line of s *)
Edge(s) == IF Programmed(Wire(s)) THEN irr \cup {redirection[Wire(s)].vector} ELSE irr

(* device_enable_interrupts; the controller raises its line for a scan code *)
(* that has been waiting                                                    *)
KeyboardEnableInterrupt ==
    /\ pc = "enable"
    /\ kbc_interrupt' = TRUE
    /\ irr' = IF output_full THEN Edge(KeyboardIrq) ELSE irr
    /\ pc' = "smp_start"
    /\ UNCHANGED <<routing, isr, timer_on, calibration, clock, output_full, bounds>>

(* the two pit_waits of smp_start *)
SmpStart ==
    /\ pc = "smp_start"
    /\ pc' = "smp_wait"
    /\ UNCHANGED <<routing, lapic, calibration, clock, keyboard, bounds>>

(* the printfs with the interrupts off again, then sti *)
SmpWaited ==
    /\ pc \in {"smp_wait", "smp_print"}
    /\ pc' = IF pc = "smp_wait" THEN "smp_print" ELSE "running"
    /\ UNCHANGED <<routing, lapic, calibration, clock, keyboard, bounds>>

InterruptsOn == pc \in {"pit_wait", "smp_wait", "running"}

(* a timer interrupt out of calibration *)
CountTick ==
    IF timer_counter + 1 >= TicksPerMs * lapic_calibration_tick
    THEN timer_counter' = 0 /\ seconds' = seconds + 1
    ELSE timer_counter' = timer_counter + 1 /\ seconds' = seconds

(* mutant: only the interrupts that do something are acknowledged *)
SendEOI_Known(code_nr) == IF code_nr \in {0, 2} THEN {} ELSE {code_nr + 32}

(* what is in service after sendEOI; nothing else was *)
SendEOI(code_nr) == {}

(* common_interrupt_handler, entered through the interrupt gate of code_nr  *)
Handle(code_nr) ==
    /\ IF code_nr = 0 /\ lapic_calibration_mode
       THEN lapic_calibration_tick' = lapic_calibration_tick + 1
       ELSE lapic_calibration_tick' = lapic_calibration_tick
    /\ IF code_nr = 0 /\ ~ lapic_calibration_mode THEN CountTick
       ELSE UNCHANGED <<timer_counter, seconds>>
    /\ measured' = IF code_nr = 0 /\ pc = "pit_wait" THEN measured + 1 ELSE measured
    /\ ticks' = IF code_nr = 0 /\ pc # "pit_wait" THEN ticks + 1 ELSE ticks
    /\ output_full' = (output_full /\ code_nr # 2)      \* keyboard_handle_interrupt
    /\ isr' = SendEOI(code_nr)
    /\ UNCHANGED pc

(* a vector without a gate: general protection, trap_handler does not return *)
NoGate(v) ==
    /\ isr' = {v}
    /\ pc' = "halted"
    /\ UNCHANGED <<lapic_calibration_tick, clock, output_full>>

(* The local APIC delivers the highest vector, of a higher class than what  *)
(* is in service.                                                           *)
Deliver ==
    /\ InterruptsOn
    /\ \E v \in irr :
          /\ \A w \in irr : w <= v
          /\ \A w \in isr : w \div 16 < v \div 16
          /\ irr' = irr \ {v}
          /\ IF v \in Gates THEN Handle(v - LAPIC_IDT_VECTOR) ELSE NoGate(v)
    /\ UNCHANGED <<routing, timer_on, lapic_calibration_mode, kbc_interrupt, bounds>>

-----------------------------------------------------------------------------
(***************************************************************************)
(* The devices                                                             *)
(***************************************************************************)
TimerExpires ==
    /\ timer_on
    /\ expired < IF lapic_calibration_mode THEN MaxCalibration ELSE MaxCalibration + MaxTicks
    /\ irr' = irr \cup {LAPIC_IDT_VECTOR}
    /\ expired' = expired + 1
    /\ UNCHANGED <<routing, pc, isr, timer_on, calibration, clock, keyboard, raises>>

KeyArrives ==
    /\ ~ output_full
    /\ raises < MaxRaises
    /\ output_full' = TRUE
    /\ irr' = IF kbc_interrupt THEN Edge(KeyboardIrq) ELSE irr
    /\ raises' = raises + 1
    /\ UNCHANGED <<routing, pc, isr, timer_on, calibration, clock, kbc_interrupt, expired>>

DeviceEdge ==
    /\ raises < MaxRaises
    /\ \E s \in Devices : irr' = Edge(s)
    /\ raises' = raises + 1
    /\ UNCHANGED <<routing, pc, isr, timer_on, calibration, clock, keyboard, expired>>

Step == \/ InterruptsInit \/ AcpiProcessMadt \/ DevicesInit \/ IoapicInit
        \/ CalibrateStart \/ PitWaited \/ CalibrateEnd
        \/ KeyboardEnableInterrupt \/ SmpStart \/ SmpWaited

Next == Step \/ Deliver \/ TimerExpires \/ KeyArrives \/ DeviceEdge

Spec == Init /\ [][Next]_vars

(* The processor goes on, and takes the interrupts that are pending while   *)
(* it may; pit_wait and the user program do not last for ever without one.  *)
FairSpec == Spec /\ WF_vars(Step) /\ WF_vars(Deliver)

-----------------------------------------------------------------------------
(* The line whose interrupts pin p carries, as the firmware means it *)
SourceOf(p) == IF \E k \in 1 .. Len(madt) : IsOverride(madt[k]) /\ madt[k].gsi = p
                  /\ madt[k].source # p
               THEN (CHOOSE s \in IsaPins : Moved(s) /\ Wire(s) = p) ELSE p
Level(p) == \E k \in 1 .. Len(madt) :
               IsOverride(madt[k]) /\ madt[k].gsi = p /\ madt[k].level

(* Whatever the order of the overrides, once the I/O APIC is programmed a   *)
(* pin is on exactly if some line but the PIT's is wired to it, it is not   *)
(* level-triggered, and its own line has not been moved away; and it has a  *)
(* vector that no other pin and not the timer has.                          *)
RoutedAsOverridden ==
    pc \notin {"interrupts_init", "acpi_init", "ioapic_init"} =>
        \A p \in IsaPins :
            /\ Programmed(p) <=> SourceOf(p) # 0 /\ ~ Level(p) /\ ~ Moved(p)
            /\ Programmed(p) =>
                  /\ redirection[p].vector > LAPIC_IDT_VECTOR
                  /\ \A q \in IsaPins \ {p} :
                        Programmed(q) => redirection[q].vector # redirection[p].vector

(* The vectors start one above the timer's, so the last pin's has no gate:  *)
(* the kernel halts on an unexpected interrupt only if the firmware has     *)
(* wired a device to pin 15.                                                *)
HaltOnlyLastPin == pc = "halted" => \E s \in Devices \cup {KeyboardIrq} : Wire(s) = 15

(* However the expirations fall between the steps of the calibration, and   *)
(* whatever it leaves pending, a second is a thousand times the ticks that  *)
(* came while pit_wait measured a millisecond; if none came, every tick     *)
(* counts as a second.                                                      *)
TicksPerSecond == IF measured = 0 THEN 1 ELSE TicksPerMs * measured
SecondsCounted == pc # "pit_wait" => seconds = ticks \div TicksPerSecond

(* A scan code is read in the end, also one that came before the keyboard's *)
(* interrupt was routed or while others are served: if the keyboard has pin *)
(* 1 and the processor has not halted.                                      *)
KeyboardConnected == Wire(KeyboardIrq) = 1 /\ SourceOf(1) # 0 /\ ~ Level(1)
KeysServed == (output_full /\ KeyboardConnected) ~> (~ output_full \/ pc = "halted")
=============================================================================
