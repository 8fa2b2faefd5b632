----------------------- MODULE InterruptRoutingProofs -----------------------
(***************************************************************************)
(* Proofs about InterruptRouting: which pins are on and with which vector,  *)
(* which interrupt can halt the kernel, and what a second is.               *)
(***************************************************************************)
EXTENDS InterruptRouting, TLAPS

USE DEF routing, lapic, calibration, clock, keyboard, bounds

Lines == 0 .. NUM_OF_INTERRUPTS - 1
Routed == pc \notin {"interrupts_init", "acpi_init", "ioapic_init"}

TypeInv ==
    /\ madt \in Madts /\ next_entry \in Nat \ {0}
    /\ interrupts_cpu_0 \in
          [Lines -> [orig_irq : Lines, overriden : BOOLEAN, level : BOOLEAN]]
    /\ redirection \in [IsaPins -> [vector : 0 .. 255, mask : BOOLEAN]]
    /\ irr \in SUBSET (0 .. 255)
    /\ lapic_calibration_mode \in BOOLEAN /\ lapic_calibration_tick \in Nat
    /\ timer_counter \in Nat /\ seconds \in Nat /\ measured \in Nat /\ ticks \in Nat

(* the overrides applied so far *)
Applied(k) == k \in 1 .. Len(madt) /\ k < next_entry /\ IsOverride(madt[k])
Onto(k, n) == madt[k].gsi = n /\ madt[k].source # n

(* The table is what the overrides say, in whatever order they came: no     *)
(* line is overridden twice and no two share a pin, so that none undoes     *)
(* another.                                                                 *)
LineInv(n) ==
    /\ interrupts_cpu_0[n].overriden
          <=> \E k \in 1 .. Len(madt) : Applied(k) /\ Moves(madt[k], n)
    /\ interrupts_cpu_0[n].level
          <=> \E k \in 1 .. Len(madt) : Applied(k) /\ madt[k].gsi = n /\ madt[k].level
    /\ \A k \in 1 .. Len(madt) :
          Applied(k) /\ Onto(k, n) => interrupts_cpu_0[n].orig_irq = madt[k].source
    /\ (\A k \in 1 .. Len(madt) : ~ (Applied(k) /\ Onto(k, n)))
          => interrupts_cpu_0[n].orig_irq = IF n \in IsaPins THEN n ELSE 0
TableInv ==
    /\ pc = "interrupts_init" =>
          /\ next_entry = 1
          /\ \A n \in Lines : /\ interrupts_cpu_0[n].orig_irq = 0
                              /\ ~ interrupts_cpu_0[n].overriden
                              /\ ~ interrupts_cpu_0[n].level
    /\ pc # "interrupts_init" => \A n \in Lines : LineInv(n)
    /\ pc \notin {"interrupts_init", "acpi_init"} => next_entry > Len(madt)

(* what ioapic_init makes of the table *)
PinInv ==
    \A q \in IsaPins :
        redirection[q] =
            IF ~ Routed \/ interrupts_cpu_0[q].overriden \/ interrupts_cpu_0[q].orig_irq = 0
            THEN Masked ELSE [vector |-> Vector(q), mask |-> interrupts_cpu_0[q].level]

(* every pending interrupt is the timer's or a line's, with the vector of   *)
(* the pin that it is wired to                                              *)
Connected == Devices \cup {KeyboardIrq}
PendingInv ==
    /\ \A v \in irr : \/ v = LAPIC_IDT_VECTOR
                      \/ \E s \in Connected : Wire(s) \in IsaPins /\ v = Vector(Wire(s))
    /\ HaltOnlyLastPin

(* The counter is the remainder of the ticks: the calibration is over       *)
(* before the first of them is counted.                                     *)
Uncalibrated == pc \in {"interrupts_init", "acpi_init", "ioapic_init", "calibrate"}
ClockInv ==
    /\ pc = "pit_wait" => lapic_calibration_mode
    /\ lapic_calibration_mode => pc \in {"pit_wait", "calibrated", "halted"}
    /\ lapic_calibration_tick = measured
    /\ Uncalibrated \/ lapic_calibration_mode
          => ticks = 0 /\ seconds = 0 /\ timer_counter = 0
    /\ timer_counter < TicksPerSecond
    /\ ticks = seconds * TicksPerSecond + timer_counter

Inv == TypeInv /\ TableInv /\ PinInv /\ PendingInv /\ ClockInv

-----------------------------------------------------------------------------
(* What the assumptions say of the overrides of a MADT.                     *)
LEMMA MadtFacts ==
    ASSUME NEW m \in Madts
    PROVE  /\ Len(m) \in Nat
           /\ \A k \in 1 .. Len(m) : IsOverride(m[k]) =>
                 m[k].source \in IsaPins /\ m[k].gsi \in Lines /\ m[k].level \in BOOLEAN
           /\ \A j, k \in 1 .. Len(m) : j # k /\ IsOverride(m[j]) /\ IsOverride(m[k])
                 => m[j].source # m[k].source /\ m[j].gsi # m[k].gsi
<1>1. m \in Seq(Override \cup Other)
  BY MadtsAssumption
<1>2. \A k \in 1 .. Len(m) : m[k] \in Override \cup Other
  BY <1>1
<1>3. \A e \in Override \cup Other : IsOverride(e) => e \in Override
  BY DEF IsOverride, Override, Other
<1>4. \A k \in 1 .. Len(m) : IsOverride(m[k]) =>
         m[k].source \in IsaPins /\ m[k].gsi \in Lines /\ m[k].level \in BOOLEAN
  BY <1>2, <1>3 DEF Override, Lines
<1>5. \A j, k \in 1 .. Len(m) : j # k /\ IsOverride(m[j]) /\ IsOverride(m[k])
         => m[j].source # m[k].source /\ m[j].gsi # m[k].gsi
  BY MadtsAssumption
<1>6. Len(m) \in Nat
  BY <1>1
<1> QED BY <1>4, <1>5, <1>6

(* ioapic_init programs each pin with the vector one above the usual one.   *)
LEMMA VectorValue ==
    ASSUME NEW q \in IsaPins
    PROVE  Vector(q) = q + 33
BY DEF Vector, IsaPins

(* A line is wired to the pin of its only override, if that moves it.       *)
LEMMA WireOf ==
    ASSUME TypeInv, NEW k \in 1 .. Len(madt), NEW s, Moves(madt[k], s)
    PROVE  Moved(s) /\ Wire(s) = madt[k].gsi
<1>1. \A j \in 1 .. Len(madt) : Moves(madt[j], s) => j = k
  BY MadtFacts DEF TypeInv, Moves
<1> QED BY <1>1 DEF Moved, Wire

(* A line's wire ends at a pin or at a line without one; a line that no     *)
(* override moves ends at its own.                                          *)
LEMMA WireType ==
    ASSUME TypeInv, NEW s \in IsaPins
    PROVE  Wire(s) \in Lines /\ (~ Moved(s) => Wire(s) = s)
<1>1. CASE Moved(s)
  <2>1. PICK k \in 1 .. Len(madt) : Moves(madt[k], s)
    BY <1>1 DEF Moved
  <2>2. madt[k].gsi \in Lines
    BY <2>1, MadtFacts DEF TypeInv, Moves
  <2> QED BY <1>1, <2>1, <2>2, WireOf
<1>2. CASE ~ Moved(s)
  BY <1>2 DEF Wire, IsaPins, Lines, NUM_OF_INTERRUPTS
<1> QED BY <1>1, <1>2

(* An edge requests nothing or the vector of the pin of its line.           *)
LEMMA EdgeAdds ==
    ASSUME TypeInv, PinInv, NEW s \in Connected, NEW v \in Edge(s)
    PROVE  v \in irr \/ (Wire(s) \in IsaPins /\ v = Vector(Wire(s)))
<1>1. CASE Programmed(Wire(s))
  <2>1. Wire(s) \in IsaPins /\ ~ redirection[Wire(s)].mask
    BY <1>1 DEF Programmed
  <2>2. redirection[Wire(s)] # Masked
    BY <2>1 DEF Masked
  <2>3. redirection[Wire(s)] =
           [vector |-> Vector(Wire(s)), mask |-> interrupts_cpu_0[Wire(s)].level]
    BY <2>1, <2>2 DEF PinInv
  <2>4. redirection[Wire(s)].vector = Vector(Wire(s))
    BY <2>3
  <2> QED BY <1>1, <2>1, <2>4 DEF Edge
<1>2. CASE ~ Programmed(Wire(s))
  BY <1>2 DEF Edge
<1> QED BY <1>1, <1>2

(* What an edge leaves pending are vectors.                                 *)
LEMMA EdgeType ==
    ASSUME TypeInv, PinInv, NEW s \in Connected
    PROVE  Edge(s) \in SUBSET (0 .. 255)
<1>1. ASSUME NEW v \in Edge(s)
      PROVE  v \in 0 .. 255
  <2>1. CASE v \in irr
    BY <2>1 DEF TypeInv
  <2>2. CASE Wire(s) \in IsaPins /\ v = Vector(Wire(s))
    BY <2>2, VectorValue DEF IsaPins
  <2> QED BY <2>1, <2>2, EdgeAdds
<1> QED BY <1>1

(* A product of positive numbers is positive.                               *)
LEMMA ProductPositive ==
    ASSUME NEW a \in Nat \ {0}, NEW b \in Nat \ {0}
    PROVE  a * b \in Nat \ {0}
OBVIOUS

(* Zero seconds have no ticks.                                              *)
LEMMA ZeroProduct ==
    ASSUME NEW a \in Nat
    PROVE  0 * a = 0
OBVIOUS

(* The threshold of a second is positive: a calibration without a tick      *)
(* makes every tick a second (setup32.c:217).                               *)
LEMMA ThresholdType ==
    ASSUME measured \in Nat
    PROVE  TicksPerSecond \in Nat \ {0}
<1>1. CASE measured = 0
  BY <1>1 DEF TicksPerSecond
<1>2. CASE measured # 0
  <2>1. TicksPerMs * measured \in Nat \ {0}
    BY <1>2, ProductPositive, BoundsAssumption
  <2> QED BY <1>2, <2>1 DEF TicksPerSecond
<1> QED BY <1>1, <1>2

-----------------------------------------------------------------------------
(* The initial states                                                       *)
LEMMA InitInv == Init => Inv
<1> SUFFICES ASSUME Init PROVE Inv
  OBVIOUS
<1>1. TypeInv
  <2>1. interrupts_cpu_0 \in
           [Lines -> [orig_irq : Lines, overriden : BOOLEAN, level : BOOLEAN]]
    <3>1. 0 \in Lines
      BY DEF Lines, NUM_OF_INTERRUPTS
    <3> QED BY <3>1 DEF Init, Lines
  <2>2. redirection \in [IsaPins -> [vector : 0 .. 255, mask : BOOLEAN]]
    <3>1. Masked \in [vector : 0 .. 255, mask : BOOLEAN]
      BY DEF Masked
    <3> QED BY <3>1 DEF Init
  <2>3. madt \in Madts /\ next_entry = 1 /\ irr = {}
    BY DEF Init
  <2>4. /\ lapic_calibration_mode \in BOOLEAN /\ lapic_calibration_tick \in Nat
        /\ timer_counter \in Nat /\ seconds \in Nat /\ measured \in Nat /\ ticks \in Nat
    BY DEF Init
  <2> QED BY <2>1, <2>2, <2>3, <2>4 DEF TypeInv
<1>2. TableInv
  BY DEF Init, TableInv, Lines
<1>3. PinInv
  BY DEF Init, PinInv, Routed
<1>4. PendingInv
  BY DEF Init, PendingInv, HaltOnlyLastPin
<1>5. ClockInv
  BY DEF Init, ClockInv, TicksPerSecond, Uncalibrated
<1> QED BY <1>1, <1>2, <1>3, <1>4, <1>5 DEF Inv

-----------------------------------------------------------------------------
(* The table                                                                *)

(* An override applied leaves a table.                                      *)
LEMMA OverriddenType ==
    ASSUME TypeInv, NEW e, IsOverride(e), e.source \in IsaPins, e.level \in BOOLEAN
    PROVE  Overridden(e, interrupts_cpu_0) \in
              [Lines -> [orig_irq : Lines, overriden : BOOLEAN, level : BOOLEAN]]
<1>1. e.source \in Lines
  BY DEF IsaPins, Lines, NUM_OF_INTERRUPTS
<1> QED BY <1>1 DEF Overridden, TypeInv

(* Every step keeps the types.                                              *)
LEMMA TypePreserved ==
    ASSUME Inv, [Next]_vars
    PROVE  TypeInv'
<1> USE DEF TypeInv
<1>0. TypeInv /\ PinInv
  BY DEF Inv
<1>1. CASE InterruptsInit
  <2>1. \A n \in Lines : n \in IsaPins => n \in Lines
    OBVIOUS
  <2> QED BY <1>0, <1>1 DEF InterruptsInit, Lines
<1>2. CASE AcpiProcessMadt
  <2>1. next_entry \in 1 .. Len(madt)
    BY <1>0, <1>2, MadtFacts DEF AcpiProcessMadt
  <2>2. interrupts_cpu_0' \in
           [Lines -> [orig_irq : Lines, overriden : BOOLEAN, level : BOOLEAN]]
    BY <1>0, <1>2, <2>1, MadtFacts, OverriddenType DEF AcpiProcessMadt
  <2> QED BY <1>0, <1>2, <2>2 DEF AcpiProcessMadt
<1>3. CASE IoapicInit
  <2>1. \A q \in IsaPins : q \in Lines /\ Vector(q) \in 0 .. 255
    BY VectorValue DEF IsaPins, Lines, NUM_OF_INTERRUPTS
  <2>2. redirection' \in [IsaPins -> [vector : 0 .. 255, mask : BOOLEAN]]
    BY <1>0, <1>3, <2>1 DEF IoapicInit
  <2> QED BY <1>0, <1>3, <2>2 DEF IoapicInit
<1>4. CASE KeyboardEnableInterrupt
  BY <1>0, <1>4, EdgeType DEF KeyboardEnableInterrupt, Connected
<1>5. CASE DevicesInit \/ CalibrateStart \/ PitWaited \/ CalibrateEnd \/ SmpStart \/ SmpWaited
  <2>1. CASE DevicesInit
    BY <1>0, <2>1 DEF DevicesInit
  <2>2. CASE CalibrateStart \/ CalibrateEnd
    BY <1>0, <2>2, ZenonT(60) DEF CalibrateStart, CalibrateEnd, LeaveCalibration
  <2>3. CASE PitWaited \/ SmpStart \/ SmpWaited
    BY <1>0, <2>3, ZenonT(60) DEF PitWaited, SmpStart, SmpWaited
  <2> QED BY <1>5, <2>1, <2>2, <2>3
<1>6. CASE Deliver
  <2>1. PICK v \in irr : /\ irr' = irr \ {v}
                         /\ IF v \in Gates THEN Handle(v - LAPIC_IDT_VECTOR) ELSE NoGate(v)
    BY <1>6 DEF Deliver
  <2>2. /\ lapic_calibration_tick' \in Nat /\ timer_counter' \in Nat
        /\ seconds' \in Nat /\ measured' \in Nat /\ ticks' \in Nat
    BY <1>0, <2>1 DEF Handle, NoGate, CountTick
  <2> QED BY <1>0, <1>6, <2>1, <2>2 DEF Deliver
<1>7. CASE TimerExpires
  BY <1>0, <1>7 DEF TimerExpires, LAPIC_IDT_VECTOR
<1>8. CASE KeyArrives
  BY <1>0, <1>8, EdgeType DEF KeyArrives, Connected
<1>9. CASE DeviceEdge
  BY <1>0, <1>9, EdgeType DEF DeviceEdge, Connected
<1>10. CASE UNCHANGED vars
  BY <1>0, <1>10 DEF vars
<1> QED BY <1>1, <1>2, <1>3, <1>4, <1>5, <1>6, <1>7, <1>8, <1>9, <1>10 DEF Next, Step

(* One more override: the line it moves, the pin it moves it to, and that   *)
(* no earlier one was about either (interrupt.c:50-54).                     *)
LEMMA OverrideApplied ==
    ASSUME TypeInv, TableInv, AcpiProcessMadt, IsOverride(madt[next_entry]), NEW n \in Lines
    PROVE  LineInv(n)'
<1> DEFINE k0 == next_entry
           e == madt[k0]
<1>1. /\ LineInv(n) /\ k0 \in 1 .. Len(madt)
      /\ madt' = madt /\ next_entry' = k0 + 1 /\ k0 \in Nat
  BY MadtFacts DEF AcpiProcessMadt, TableInv, TypeInv
<1>2. /\ e.source \in IsaPins /\ e.gsi \in Lines /\ e.level \in BOOLEAN
      /\ \A j \in 1 .. Len(madt) : j # k0 /\ IsOverride(madt[j])
            => madt[j].source # e.source /\ madt[j].gsi # e.gsi
  BY <1>1, MadtFacts DEF TypeInv
<1>3. interrupts_cpu_0'[n] =
         [orig_irq |-> IF n = e.gsi /\ e.source # e.gsi THEN e.source
                       ELSE interrupts_cpu_0[n].orig_irq,
          overriden |-> interrupts_cpu_0[n].overriden \/ (n = e.source /\ e.source # e.gsi),
          level |-> IF n = e.gsi THEN e.level ELSE interrupts_cpu_0[n].level]
  BY DEF AcpiProcessMadt, Overridden, TypeInv
<1>4. \A j \in 1 .. Len(madt) : Applied(j)' <=> (Applied(j) \/ j = k0)
  BY <1>1 DEF Applied
<1>5. ~ Applied(k0)
  BY <1>1 DEF Applied
<1>6. \A j \in 1 .. Len(madt) : Applied(j) =>
         j # k0 /\ IsOverride(madt[j]) /\ madt[j].source # e.source /\ madt[j].gsi # e.gsi
  BY <1>2, <1>5 DEF Applied
<1>7. interrupts_cpu_0'[n].overriden
         <=> \E j \in 1 .. Len(madt) : Applied(j)' /\ Moves(madt[j], n)
  <2>1. Moves(e, n) <=> (n = e.source /\ e.source # e.gsi)
    BY DEF Moves
  <2>2. interrupts_cpu_0[n].overriden
           <=> \E j \in 1 .. Len(madt) : Applied(j) /\ Moves(madt[j], n)
    BY <1>1 DEF LineInv
  <2>3. interrupts_cpu_0'[n].overriden <=> (interrupts_cpu_0[n].overriden \/ Moves(e, n))
    <3>1. interrupts_cpu_0[n].overriden \in BOOLEAN
      BY DEF TypeInv
    <3>2. interrupts_cpu_0'[n].overriden
             = (interrupts_cpu_0[n].overriden \/ (n = e.source /\ e.source # e.gsi))
      BY <1>3
    <3> QED BY <2>1, <3>1, <3>2
  <2>4. (\E j \in 1 .. Len(madt) : Applied(j)' /\ Moves(madt[j], n))
           <=> (\E j \in 1 .. Len(madt) : Applied(j) /\ Moves(madt[j], n)) \/ Moves(madt[k0], n)
    BY <1>1, <1>4, Zenon
  <2> QED BY <2>2, <2>3, <2>4
<1>8. interrupts_cpu_0'[n].level
         <=> \E j \in 1 .. Len(madt) : Applied(j)' /\ madt[j].gsi = n /\ madt[j].level
  <2>1. interrupts_cpu_0[n].level
           <=> \E j \in 1 .. Len(madt) : Applied(j) /\ madt[j].gsi = n /\ madt[j].level
    BY <1>1 DEF LineInv
  <2>2. CASE n = e.gsi
    <3>1. interrupts_cpu_0'[n].level = e.level
      BY <1>3, <2>2
    <3>2. \A j \in 1 .. Len(madt) : Applied(j)' /\ madt[j].gsi = n => j = k0
      BY <1>4, <1>6, <2>2
    <3> QED BY <1>1, <1>4, <2>2, <3>1, <3>2
  <2>3. CASE n # e.gsi
    <3>1. interrupts_cpu_0'[n].level = interrupts_cpu_0[n].level
      BY <1>3, <2>3
    <3> QED BY <1>4, <2>1, <2>3, <3>1
  <2> QED BY <2>2, <2>3
<1>9. \A j \in 1 .. Len(madt) :
         Applied(j)' /\ Onto(j, n) => interrupts_cpu_0'[n].orig_irq = madt[j].source
  <2> SUFFICES ASSUME NEW j \in 1 .. Len(madt), Applied(j)', Onto(j, n)
               PROVE  interrupts_cpu_0'[n].orig_irq = madt[j].source
    OBVIOUS
  <2>1. CASE j = k0
    BY <1>3, <2>1 DEF Onto
  <2>2. CASE j # k0
    <3>1. Applied(j) /\ n # e.gsi
      BY <1>4, <1>6, <2>2 DEF Onto
    <3>2. interrupts_cpu_0[n].orig_irq = madt[j].source
      BY <1>1, <3>1 DEF LineInv
    <3> QED BY <1>3, <3>1, <3>2
  <2> QED BY <2>1, <2>2
<1>10. (\A j \in 1 .. Len(madt) : ~ (Applied(j)' /\ Onto(j, n)))
          => interrupts_cpu_0'[n].orig_irq = IF n \in IsaPins THEN n ELSE 0
  <2> SUFFICES ASSUME \A j \in 1 .. Len(madt) : ~ (Applied(j)' /\ Onto(j, n))
               PROVE  interrupts_cpu_0'[n].orig_irq = IF n \in IsaPins THEN n ELSE 0
    OBVIOUS
  <2>1. ~ (n = e.gsi /\ e.source # e.gsi)
    BY <1>1, <1>4 DEF Onto
  <2>2. interrupts_cpu_0[n].orig_irq = IF n \in IsaPins THEN n ELSE 0
    BY <1>1, <1>4 DEF LineInv
  <2> QED BY <1>3, <2>1, <2>2
<1> QED BY <1>1, <1>7, <1>8, <1>9, <1>10 DEF LineInv, Onto

(* The table follows the overrides from entry to entry of the MADT          *)
(* (interrupt.c:50-54, acpi.c:167).                                         *)
LEMMA TablePreserved ==
    ASSUME Inv, [Next]_vars
    PROVE  TableInv'
<1>0. TypeInv /\ TableInv
  BY DEF Inv
<1>1. CASE InterruptsInit
  <2>1. /\ next_entry' = 1 /\ madt' = madt /\ pc' = "acpi_init"
        /\ \A n \in Lines : /\ interrupts_cpu_0[n].orig_irq = 0
                            /\ ~ interrupts_cpu_0[n].overriden
                            /\ ~ interrupts_cpu_0[n].level
    BY <1>0, <1>1 DEF InterruptsInit, TableInv
  <2>2. ASSUME NEW n \in Lines
        PROVE  LineInv(n)'
    <3>1. /\ interrupts_cpu_0'[n].orig_irq = IF n \in IsaPins THEN n ELSE 0
          /\ ~ interrupts_cpu_0'[n].overriden /\ ~ interrupts_cpu_0'[n].level
      <4>1. interrupts_cpu_0'[n] = IF n \in IsaPins
                                   THEN [interrupts_cpu_0[n] EXCEPT !.orig_irq = n]
                                   ELSE interrupts_cpu_0[n]
        BY <1>1 DEF InterruptsInit, Lines
      <4>2. interrupts_cpu_0[n] \in [orig_irq : Lines, overriden : BOOLEAN, level : BOOLEAN]
        BY <1>0 DEF TypeInv
      <4> QED BY <2>1, <4>1, <4>2
    <3>2. \A k \in 1 .. Len(madt) : ~ Applied(k)'
      BY <1>0, <2>1 DEF Applied
    <3> QED BY <2>1, <3>1, <3>2 DEF LineInv
  <2> QED BY <2>1, <2>2 DEF TableInv
<1>2. CASE AcpiProcessMadt
  <2>1. pc = "acpi_init" /\ pc' = "acpi_init"
    BY <1>2 DEF AcpiProcessMadt
  <2>2. CASE IsOverride(madt[next_entry])
    BY <1>0, <1>2, <2>1, <2>2, OverrideApplied DEF TableInv
  <2>3. CASE ~ IsOverride(madt[next_entry])
    <3>1. /\ interrupts_cpu_0' = interrupts_cpu_0 /\ madt' = madt
          /\ next_entry' = next_entry + 1 /\ next_entry \in Nat
      BY <1>0, <1>2, <2>3 DEF AcpiProcessMadt, TypeInv
    <3>2. \A k \in 1 .. Len(madt) : Applied(k)' <=> Applied(k)
      BY <1>0, <2>3, <3>1, MadtFacts DEF Applied, TypeInv
    <3>3. ASSUME NEW n \in Lines
          PROVE  LineInv(n)'
      <4>1. LineInv(n)
        BY <1>0, <2>1 DEF TableInv
      <4> QED BY <3>1, <3>2, <4>1 DEF LineInv, Onto
    <3> QED BY <2>1, <3>3 DEF TableInv
  <2> QED BY <2>2, <2>3
<1>3. ASSUME UNCHANGED <<madt, next_entry, interrupts_cpu_0>>,
             pc' = "interrupts_init" => pc = "interrupts_init",
             pc = "interrupts_init" => pc' = "interrupts_init",
             pc \in {"interrupts_init", "acpi_init"} /\ pc' \notin {"interrupts_init", "acpi_init"}
               => next_entry > Len(madt)
      PROVE  TableInv'
  <2>1. \A n \in Lines : LineInv(n)' <=> LineInv(n)
    BY <1>3 DEF LineInv, Applied, Onto
  <2> QED BY <1>0, <1>3, <2>1 DEF TableInv
<1>4. CASE DevicesInit
  BY <1>3, <1>4 DEF DevicesInit
<1>5. CASE IoapicInit \/ CalibrateStart \/ PitWaited \/ CalibrateEnd
           \/ KeyboardEnableInterrupt \/ SmpStart \/ SmpWaited
  BY <1>3, <1>5 DEF IoapicInit, CalibrateStart, PitWaited, CalibrateEnd,
                    KeyboardEnableInterrupt, SmpStart, SmpWaited
<1>6. CASE Deliver
  <2>1. pc' \in {pc, "halted"} /\ InterruptsOn /\ UNCHANGED <<madt, next_entry, interrupts_cpu_0>>
    BY <1>6 DEF Deliver, Handle, NoGate
  <2> QED BY <1>3, <2>1 DEF InterruptsOn
<1>7. CASE TimerExpires \/ KeyArrives \/ DeviceEdge \/ UNCHANGED vars
  BY <1>3, <1>7 DEF TimerExpires, KeyArrives, DeviceEdge, vars
<1> QED BY <1>1, <1>2, <1>4, <1>5, <1>6, <1>7 DEF Next, Step

-----------------------------------------------------------------------------
(* The I/O APIC                                                             *)
LEMMA PinPreserved ==
    ASSUME Inv, [Next]_vars
    PROVE  PinInv'
<1>0. TypeInv /\ PinInv
  BY DEF Inv
<1>1. CASE IoapicInit
  <2>1. ~ Routed /\ Routed' /\ interrupts_cpu_0' = interrupts_cpu_0
    BY <1>1 DEF IoapicInit, Routed
  <2>2. \A q \in IsaPins :
           redirection'[q] = IF interrupts_cpu_0[q].overriden \/ interrupts_cpu_0[q].orig_irq = 0
                             THEN redirection[q]
                             ELSE [vector |-> Vector(q), mask |-> interrupts_cpu_0[q].level]
    BY <1>1 DEF IoapicInit
  <2>3. \A q \in IsaPins : redirection[q] = Masked
    BY <1>0, <2>1 DEF PinInv
  <2> QED BY <2>1, <2>2, <2>3 DEF PinInv
<1>2. ASSUME redirection' = redirection, Routed' <=> Routed,
             interrupts_cpu_0' = interrupts_cpu_0 \/ ~ Routed
      PROVE  PinInv'
  BY <1>0, <1>2 DEF PinInv
<1>3. CASE InterruptsInit \/ AcpiProcessMadt \/ DevicesInit
  BY <1>2, <1>3 DEF InterruptsInit, AcpiProcessMadt, DevicesInit, Routed
<1>4. CASE CalibrateStart \/ PitWaited \/ CalibrateEnd
           \/ KeyboardEnableInterrupt \/ SmpStart \/ SmpWaited
  BY <1>2, <1>4 DEF CalibrateStart, PitWaited, CalibrateEnd,
                    KeyboardEnableInterrupt, SmpStart, SmpWaited, Routed
<1>5. CASE Deliver
  <2>1. pc' \in {pc, "halted"} /\ InterruptsOn /\ UNCHANGED routing
    BY <1>5 DEF Deliver, Handle, NoGate
  <2> QED BY <1>2, <2>1 DEF InterruptsOn, Routed
<1>6. CASE TimerExpires \/ KeyArrives \/ DeviceEdge \/ UNCHANGED vars
  BY <1>2, <1>6 DEF TimerExpires, KeyArrives, DeviceEdge, vars, Routed
<1> QED BY <1>1, <1>3, <1>4, <1>5, <1>6 DEF Next, Step

-----------------------------------------------------------------------------
(* Pending interrupts                                                       *)
LEMMA PendingPreserved ==
    ASSUME Inv, [Next]_vars
    PROVE  PendingInv'
<1>0. TypeInv /\ PinInv /\ PendingInv
  BY DEF Inv
<1>1. madt' = madt /\ \A s : Wire(s)' = Wire(s)
  <2>1. madt' = madt
    BY DEF Next, Step, InterruptsInit, AcpiProcessMadt, DevicesInit, IoapicInit,
           CalibrateStart, PitWaited, CalibrateEnd, KeyboardEnableInterrupt, SmpStart,
           SmpWaited, Deliver, TimerExpires, KeyArrives, DeviceEdge, vars
  <2> QED BY <2>1 DEF Wire, Moved
<1>2. ASSUME \A v \in irr' : \/ v \in irr \/ v = LAPIC_IDT_VECTOR
                             \/ \E s \in Connected : v \in Edge(s),
             pc' = "halted" => pc = "halted"
      PROVE  PendingInv'
  <2>1. \A v \in irr' : \/ v = LAPIC_IDT_VECTOR
                        \/ \E s \in Connected : Wire(s) \in IsaPins /\ v = Vector(Wire(s))
    BY <1>0, <1>2, EdgeAdds DEF PendingInv
  <2>2. HaltOnlyLastPin'
    BY <1>0, <1>1, <1>2 DEF PendingInv, HaltOnlyLastPin
  <2> QED BY <1>1, <2>1, <2>2 DEF PendingInv
<1>3. CASE InterruptsInit \/ AcpiProcessMadt \/ DevicesInit \/ IoapicInit
           \/ CalibrateStart \/ PitWaited \/ CalibrateEnd \/ SmpStart \/ SmpWaited
  BY <1>2, <1>3 DEF InterruptsInit, AcpiProcessMadt, DevicesInit, IoapicInit,
                    CalibrateStart, PitWaited, CalibrateEnd, SmpStart, SmpWaited
<1>4. CASE KeyboardEnableInterrupt
  BY <1>2, <1>4 DEF KeyboardEnableInterrupt, Connected
<1>5. CASE Deliver
  <2>1. PICK v \in irr : /\ irr' = irr \ {v}
                         /\ IF v \in Gates THEN Handle(v - LAPIC_IDT_VECTOR) ELSE NoGate(v)
    BY <1>5 DEF Deliver
  <2>2. CASE v \in Gates
    BY <1>2, <2>1, <2>2 DEF Handle
  <2>3. CASE v \notin Gates
    <3>1. PICK s \in Connected : Wire(s) \in IsaPins /\ v = Vector(Wire(s))
      BY <1>0, <2>3 DEF PendingInv, Gates, LAPIC_IDT_VECTOR
    <3>2. Wire(s) = 15
      BY <2>3, <3>1, VectorValue DEF Gates, LAPIC_IDT_VECTOR, IsaPins
    <3>3. HaltOnlyLastPin'
      BY <1>1, <3>2 DEF HaltOnlyLastPin, Connected
    <3> QED BY <1>0, <1>1, <2>1, <3>3 DEF PendingInv
  <2> QED BY <2>2, <2>3
<1>6. CASE TimerExpires
  BY <1>2, <1>6 DEF TimerExpires
<1>7. CASE KeyArrives
  BY <1>2, <1>7 DEF KeyArrives, Connected
<1>8. CASE DeviceEdge
  BY <1>2, <1>8 DEF DeviceEdge, Connected
<1>9. CASE UNCHANGED vars
  BY <1>2, <1>9 DEF vars
<1> QED BY <1>3, <1>4, <1>5, <1>6, <1>7, <1>8, <1>9 DEF Next, Step

-----------------------------------------------------------------------------
(* The clock                                                                *)

(* A tick completes a second or is left over from the last one              *)
(* (setup32.c:215-219).                                                     *)
LEMMA TickCounted ==
    ASSUME NEW s \in Nat, NEW c \in Nat, NEW T \in Nat \ {0}, c < T
    PROVE  /\ c + 1 >= T => s * T + c + 1 = (s + 1) * T
           /\ c + 1 < T => s * T + c + 1 = s * T + (c + 1)
<1>1. s * T \in Nat /\ (s + 1) * T = s * T + T
  OBVIOUS
<1> QED BY <1>1

(* The counter and the seconds make up the ticks counted.                   *)
LEMMA ClockPreserved ==
    ASSUME Inv, [Next]_vars
    PROVE  ClockInv'
<1>0. TypeInv /\ ClockInv
  BY DEF Inv
<1>1. TicksPerSecond \in Nat \ {0} /\ (measured' = measured => TicksPerSecond' = TicksPerSecond)
  BY <1>0, ThresholdType DEF TypeInv, TicksPerSecond
<1>2. ASSUME UNCHANGED <<clock, lapic_calibration_tick>>,
             pc' = "pit_wait" => lapic_calibration_mode',
             lapic_calibration_mode' => pc' \in {"pit_wait", "calibrated", "halted"},
             Uncalibrated' \/ lapic_calibration_mode' => Uncalibrated \/ lapic_calibration_mode
      PROVE  ClockInv'
  <2>1. TicksPerSecond' = TicksPerSecond
    BY <1>1, <1>2
  <2> QED BY <1>0, <1>2, <2>1 DEF ClockInv
<1>3. CASE InterruptsInit \/ AcpiProcessMadt \/ DevicesInit \/ IoapicInit
  <2>1. Uncalibrated /\ Uncalibrated'
    <3>1. InterruptsInit => Uncalibrated /\ Uncalibrated'
      BY DEF InterruptsInit, Uncalibrated
    <3>2. AcpiProcessMadt => Uncalibrated /\ Uncalibrated'
      BY DEF AcpiProcessMadt, Uncalibrated
    <3>3. DevicesInit => Uncalibrated /\ Uncalibrated'
      BY DEF DevicesInit, Uncalibrated
    <3>4. IoapicInit => Uncalibrated /\ Uncalibrated'
      BY DEF IoapicInit, Uncalibrated
    <3> QED BY <1>3, <3>1, <3>2, <3>3, <3>4
  <2>2. ~ lapic_calibration_mode
    BY <1>0, <2>1 DEF ClockInv, Uncalibrated
  <2>3. UNCHANGED <<clock, lapic_calibration_tick, lapic_calibration_mode>>
    BY <1>3 DEF InterruptsInit, AcpiProcessMadt, DevicesInit, IoapicInit
  <2> QED BY <1>2, <2>1, <2>2, <2>3 DEF Uncalibrated
<1>4. CASE CalibrateStart
  BY <1>2, <1>4 DEF CalibrateStart, Uncalibrated
<1>5. CASE PitWaited
  <2>1. lapic_calibration_mode
    BY <1>0, <1>5 DEF PitWaited, ClockInv
  <2> QED BY <1>2, <1>5, <2>1 DEF PitWaited, Uncalibrated
<1>6. CASE CalibrateEnd
  BY <1>2, <1>6 DEF CalibrateEnd, LeaveCalibration, Uncalibrated
<1>7. CASE KeyboardEnableInterrupt \/ SmpStart \/ SmpWaited
  <2>1. ~ lapic_calibration_mode
    BY <1>0, <1>7 DEF KeyboardEnableInterrupt, SmpStart, SmpWaited, ClockInv
  <2> QED BY <1>2, <1>7, <2>1 DEF KeyboardEnableInterrupt, SmpStart, SmpWaited, Uncalibrated
<1>8. CASE Deliver
  <2>1. PICK v \in irr : IF v \in Gates THEN Handle(v - LAPIC_IDT_VECTOR) ELSE NoGate(v)
    BY <1>8 DEF Deliver
  <2>2. InterruptsOn /\ lapic_calibration_mode' = lapic_calibration_mode
    BY <1>8 DEF Deliver
  <2>3. CASE v \notin Gates
    BY <1>2, <2>1, <2>2, <2>3 DEF NoGate, Uncalibrated
  <2>4. CASE v \in Gates /\ v # LAPIC_IDT_VECTOR
    <3>1. v - LAPIC_IDT_VECTOR # 0
      BY <2>4 DEF Gates, LAPIC_IDT_VECTOR
    <3>2. UNCHANGED <<clock, lapic_calibration_tick, pc>>
      BY <2>1, <2>4, <3>1 DEF Handle
    <3> QED BY <1>0, <1>2, <2>2, <3>2 DEF ClockInv, Uncalibrated
  <2>5. CASE v = LAPIC_IDT_VECTOR
    <3>1. Handle(0)
      BY <2>1, <2>5 DEF Gates, LAPIC_IDT_VECTOR
    <3>2. ~ Uncalibrated /\ pc' = pc /\ ~ Uncalibrated'
      BY <2>2, <3>1 DEF InterruptsOn, Uncalibrated, Handle
    <3>3. CASE lapic_calibration_mode
      <4>1. pc = "pit_wait"
        BY <1>0, <2>2, <3>3 DEF ClockInv, InterruptsOn
      <4>2. /\ UNCHANGED <<timer_counter, seconds, ticks>>
            /\ lapic_calibration_tick' = measured' /\ measured' \in Nat
        BY <1>0, <3>1, <3>3, <4>1 DEF Handle, ClockInv, TypeInv
      <4>3. ticks = 0 /\ seconds = 0 /\ timer_counter = 0
        BY <1>0, <3>3 DEF ClockInv
      <4>4. TicksPerSecond' \in Nat \ {0}
        <5>1. measured' = 0 => TicksPerSecond' = 1
          BY DEF TicksPerSecond
        <5>2. measured' # 0 => TicksPerSecond' = TicksPerMs * measured'
          BY DEF TicksPerSecond
        <5>3. ASSUME measured' # 0
              PROVE  TicksPerMs * measured' \in Nat \ {0}
          BY <4>2, <5>3, ProductPositive, BoundsAssumption
        <5>4. CASE measured' = 0
          BY <5>1, <5>4
        <5>5. CASE measured' # 0
          BY <5>2, <5>3, <5>5
        <5> QED BY <5>4, <5>5
      <4>5. ticks' = seconds' * TicksPerSecond' + timer_counter'
        <5>1. TicksPerSecond' \in Nat
          BY <4>4
        <5>2. 0 * TicksPerSecond' = 0
          BY <5>1, ZeroProduct
        <5>3. ticks' = 0 /\ seconds' = 0 /\ timer_counter' = 0
          BY <4>2, <4>3
        <5> QED BY <5>2, <5>3
      <4>6. timer_counter' < TicksPerSecond'
        <5>1. timer_counter' = 0
          BY <4>2, <4>3
        <5> QED BY <4>4, <5>1
      <4> QED BY <2>2, <3>2, <3>3, <4>1, <4>2, <4>3, <4>5, <4>6 DEF ClockInv
    <3>4. CASE ~ lapic_calibration_mode
      <4>1. pc # "pit_wait"
        BY <1>0, <3>4 DEF ClockInv
      <4>2. /\ CountTick /\ ticks' = ticks + 1
            /\ UNCHANGED <<lapic_calibration_tick, measured>>
        BY <3>1, <3>4, <4>1 DEF Handle
      <4>3. TicksPerMs * lapic_calibration_tick
               = IF measured = 0 THEN 0 ELSE TicksPerSecond
        BY <1>0, BoundsAssumption DEF ClockInv, TicksPerSecond
      <4>4. timer_counter + 1 >= TicksPerMs * lapic_calibration_tick
               <=> timer_counter + 1 >= TicksPerSecond
        <5>1. CASE measured = 0
          BY <1>0, <4>3, <5>1 DEF TicksPerSecond, TypeInv
        <5>2. CASE measured # 0
          BY <4>3, <5>2
        <5> QED BY <5>1, <5>2
      <4>5. /\ timer_counter \in Nat /\ seconds \in Nat
            /\ timer_counter < TicksPerSecond
            /\ ticks = seconds * TicksPerSecond + timer_counter
        BY <1>0 DEF ClockInv, TypeInv
      <4>6. /\ timer_counter' < TicksPerSecond
            /\ ticks' = seconds' * TicksPerSecond + timer_counter'
        <5>1. CASE timer_counter + 1 >= TicksPerSecond
          <6>1. timer_counter' = 0 /\ seconds' = seconds + 1
            BY <4>2, <4>4, <5>1 DEF CountTick
          <6>2. seconds * TicksPerSecond + timer_counter + 1 = (seconds + 1) * TicksPerSecond
            BY <1>1, <4>5, <5>1, TickCounted
          <6>3. (seconds + 1) * TicksPerSecond \in Nat
            BY <1>1, <4>5
          <6> QED BY <1>1, <4>2, <4>5, <6>1, <6>2, <6>3
        <5>2. CASE ~ (timer_counter + 1 >= TicksPerSecond)
          <6>1. timer_counter' = timer_counter + 1 /\ seconds' = seconds
            BY <4>2, <4>4, <5>2 DEF CountTick
          <6>2. seconds * TicksPerSecond \in Nat
            BY <1>1, <4>5
          <6> QED BY <1>1, <4>2, <4>5, <5>2, <6>1, <6>2
        <5> QED BY <5>1, <5>2
      <4>7. TicksPerSecond' = TicksPerSecond
        BY <1>1, <4>2
      <4> QED BY <1>0, <2>2, <3>2, <3>4, <4>1, <4>2, <4>6, <4>7 DEF ClockInv
    <3> QED BY <3>3, <3>4
  <2> QED BY <2>3, <2>4, <2>5
<1>9. CASE TimerExpires \/ KeyArrives \/ DeviceEdge \/ UNCHANGED vars
  <2>1. UNCHANGED <<pc, clock, calibration>>
    BY <1>9 DEF TimerExpires, KeyArrives, DeviceEdge, vars
  <2> QED BY <1>0, <1>2, <2>1 DEF ClockInv, Uncalibrated
<1> QED BY <1>3, <1>4, <1>5, <1>6, <1>7, <1>8, <1>9 DEF Next, Step

-----------------------------------------------------------------------------
(* The invariant holds in every state of every instance.                    *)
THEOREM RoutingInvariance == Spec => []Inv
<1>1. Inv /\ [Next]_vars => Inv'
  BY TypePreserved, TablePreserved, PinPreserved, PendingPreserved, ClockPreserved DEF Inv
<1> QED BY <1>1, InitInv, PTL DEF Spec

(* All overrides are applied before the I/O APIC is programmed.             *)
LEMMA AllApplied ==
    ASSUME Inv, Routed, NEW q \in IsaPins
    PROVE  /\ TypeInv /\ LineInv(q) /\ Len(madt) \in Nat
           /\ \A k \in 1 .. Len(madt) : k < next_entry
<1>1. TypeInv /\ TableInv /\ Len(madt) \in Nat
  BY MadtFacts DEF Inv, TypeInv
<1>2. q \in Lines
  BY DEF IsaPins, Lines, NUM_OF_INTERRUPTS
<1>3. next_entry > Len(madt) /\ LineInv(q)
  BY <1>1, <1>2 DEF TableInv, Routed
<1> QED BY <1>1, <1>3 DEF TypeInv

(* The line that a pin carries is the one in its entry of the table.        *)
LEMMA SourceOfPin ==
    ASSUME Inv, Routed, NEW q \in IsaPins
    PROVE  SourceOf(q) = interrupts_cpu_0[q].orig_irq
<1>0. /\ TypeInv /\ LineInv(q) /\ Len(madt) \in Nat
      /\ \A k \in 1 .. Len(madt) : k < next_entry
  BY AllApplied
<1>1. CASE \E k \in 1 .. Len(madt) : IsOverride(madt[k]) /\ Onto(k, q)
  <2>1. PICK k \in 1 .. Len(madt) : IsOverride(madt[k]) /\ Onto(k, q)
    BY <1>1
  <2> DEFINE s0 == madt[k].source
  <2>2. Moves(madt[k], s0) /\ s0 \in IsaPins
    BY <1>0, <2>1, MadtFacts DEF Moves, Onto, TypeInv
  <2>3. Moved(s0) /\ Wire(s0) = q
    BY <1>0, <2>1, <2>2, WireOf DEF Onto
  <2>4. ASSUME NEW s \in IsaPins, Moved(s), Wire(s) = q
        PROVE  s = s0
    <3>1. PICK j \in 1 .. Len(madt) : Moves(madt[j], s)
      BY <2>4 DEF Moved
    <3>2. madt[j].gsi = q
      BY <1>0, <2>4, <3>1, WireOf
    <3>3. j = k
      BY <1>0, <2>1, <3>1, <3>2, MadtFacts DEF Onto, Moves, TypeInv
    <3> QED BY <3>1, <3>3 DEF Moves
  <2>5. SourceOf(q) = s0
    BY <2>1, <2>2, <2>3, <2>4 DEF SourceOf, Onto
  <2>6. interrupts_cpu_0[q].orig_irq = s0
    BY <1>0, <2>1 DEF LineInv, Applied
  <2> QED BY <2>5, <2>6
<1>2. CASE ~ \E k \in 1 .. Len(madt) : IsOverride(madt[k]) /\ Onto(k, q)
  <2>1. SourceOf(q) = q
    BY <1>2 DEF SourceOf, Onto
  <2>2. interrupts_cpu_0[q].orig_irq = q
    BY <1>0, <1>2 DEF LineInv, Applied
  <2> QED BY <2>1, <2>2
<1> QED BY <1>1, <1>2

(* Once the I/O APIC is programmed, whatever the order of the overrides, a  *)
(* pin is on exactly if a line but the PIT's is wired to it, it is edge-    *)
(* triggered and its own line stays; its vector is its own.                 *)
THEOREM RoutedRight == Spec => []RoutedAsOverridden
<1>1. Inv => RoutedAsOverridden
  <2> SUFFICES ASSUME Inv, Routed, NEW q \in IsaPins
               PROVE  /\ Programmed(q) <=> SourceOf(q) # 0 /\ ~ Level(q) /\ ~ Moved(q)
                      /\ Programmed(q) =>
                            /\ redirection[q].vector > LAPIC_IDT_VECTOR
                            /\ \A r \in IsaPins \ {q} :
                                  Programmed(r) => redirection[r].vector # redirection[q].vector
    BY DEF RoutedAsOverridden, Routed
  <2>1. /\ TypeInv /\ PinInv /\ LineInv(q) /\ Len(madt) \in Nat
        /\ \A k \in 1 .. Len(madt) : k < next_entry
    BY AllApplied DEF Inv
  <2>2. ASSUME NEW r \in IsaPins, Programmed(r)
        PROVE  redirection[r].vector = r + 33
    <3>1. redirection[r] # Masked
      BY <2>2 DEF Programmed, Masked
    <3>2. redirection[r] = [vector |-> Vector(r), mask |-> interrupts_cpu_0[r].level]
      BY <2>1, <2>2, <3>1 DEF PinInv
    <3> QED BY <2>2, <3>2, VectorValue
  <2>3. Programmed(q) <=> /\ ~ interrupts_cpu_0[q].overriden
                          /\ interrupts_cpu_0[q].orig_irq # 0
                          /\ ~ interrupts_cpu_0[q].level
    <3>1. CASE interrupts_cpu_0[q].overriden \/ interrupts_cpu_0[q].orig_irq = 0
      <4>1. redirection[q] = Masked
        BY <2>1, <3>1 DEF PinInv
      <4> QED BY <3>1, <4>1 DEF Programmed, Masked
    <3>2. CASE ~ (interrupts_cpu_0[q].overriden \/ interrupts_cpu_0[q].orig_irq = 0)
      <4>1. redirection[q] = [vector |-> Vector(q), mask |-> interrupts_cpu_0[q].level]
        BY <2>1, <3>2 DEF PinInv
      <4> QED BY <3>2, <4>1 DEF Programmed
    <3> QED BY <3>1, <3>2
  <2>4. interrupts_cpu_0[q].overriden <=> Moved(q)
    <3>1. \A k \in 1 .. Len(madt) : Moves(madt[k], q) => Applied(k)
      BY <2>1 DEF Moves, Applied
    <3> QED BY <2>1, <3>1 DEF LineInv, Moved
  <2>5. interrupts_cpu_0[q].level <=> Level(q)
    BY <2>1 DEF LineInv, Level, Applied
  <2>6. Programmed(q) <=> SourceOf(q) # 0 /\ ~ Level(q) /\ ~ Moved(q)
    BY <2>3, <2>4, <2>5, SourceOfPin
  <2>7. Programmed(q) =>
           /\ redirection[q].vector > LAPIC_IDT_VECTOR
           /\ \A r \in IsaPins \ {q} :
                 Programmed(r) => redirection[r].vector # redirection[q].vector
    BY <2>2 DEF LAPIC_IDT_VECTOR, IsaPins
  <2> QED BY <2>6, <2>7
<1> QED BY <1>1, RoutingInvariance, PTL

(* The kernel halts on an interrupt without a gate only if the firmware has *)
(* wired a device to pin 15 (interrupt.c:137).                              *)
THEOREM LastPinHalts == Spec => []HaltOnlyLastPin
<1>1. Inv => HaltOnlyLastPin
  BY DEF Inv, PendingInv
<1> QED BY <1>1, RoutingInvariance, PTL

(* However the expirations fall, the seconds are the ticks divided by the   *)
(* measured ticks of a second.                                              *)
THEOREM SecondsRight == Spec => []SecondsCounted
<1>1. Inv => SecondsCounted
  <2> SUFFICES ASSUME Inv PROVE seconds = ticks \div TicksPerSecond
    BY DEF SecondsCounted
  <2>1. /\ TicksPerSecond \in Nat \ {0} /\ seconds \in Nat /\ timer_counter \in Nat
        /\ timer_counter < TicksPerSecond
        /\ ticks = seconds * TicksPerSecond + timer_counter
    BY ThresholdType DEF Inv, TypeInv, ClockInv
  <2> QED BY <2>1
<1> QED BY <1>1, RoutingInvariance, PTL
=============================================================================
