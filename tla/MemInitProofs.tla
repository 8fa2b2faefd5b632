--------------------------- MODULE MemInitProofs ---------------------------
(***************************************************************************)
(* Proofs about the way of the memory from the E820 map to the allocator,   *)
(* for any well-formed map, however many entries it has and however long    *)
(* they are: the struct kpages are indexed inside their bounds, and the     *)
(* allocator gets exactly the free memory.                                  *)
(***************************************************************************)
EXTENDS MemInit, TLAPS

Last == Limit(e820[e820_count])

-----------------------------------------------------------------------------
(* The invariant                                                            *)

(* The boot loader counts all entries but the last, or but the last two.    *)
LoaderInv ==
    /\ WellFormed(e820)
    /\ pc \in {"e820", "e820_next_entry", "e820_failed", "mem_init", "failed",
               "entries", "fixed", "add", "done"}
    /\ pc = "e820" => asked = 0 /\ e820_count = 0
    /\ pc = "e820_next_entry" =>
          /\ asked \in 1 .. Len(e820) /\ e820_count = asked - 1
          /\ style # "carry" => asked < Len(e820)
    /\ pc \notin {"e820", "e820_next_entry", "e820_failed"} =>
          e820_count \in {Len(e820) - 2, Len(e820) - 1}

InLoop == pc = "entries"
AfterLoop == pc \in {"fixed", "add", "done"}
Processed == 1 .. i - 1
Unseen == i .. e820_count

(* What the flags have of the entries the loop has looked at.               *)
FlagsInv ==
    /\ nr_kpages \in Nat /\ nr_kpages = Min2(Last, MaxPages)
    /\ kp_flags \in [Kpages -> SUBSET {"RESERVED", "KERNEL"}]
    /\ addr \in Nat /\ addr <= nr_kpages /\ i \in 1 .. e820_count + 1
    /\ \A k \in Processed : \A p \in Touched(e820[k]) :
          /\ p \in Kpages /\ p < addr
          /\ e820[k].type # 1 => "RESERVED" \in kp_flags[p]
          /\ p <= end_kernel_data => kp_flags[p] # {}
    /\ \A p \in Kpages :
          p < addr => \/ \E k \in Processed : p \in Touched(e820[k])
                      \/ "RESERVED" \in kp_flags[p]

(* Where the flags that are set come from.                                  *)
OriginInv(fixedReserved, fixedKernel) ==
    \A p \in Kpages :
        /\ "RESERVED" \in kp_flags[p] =>
              \/ p \in fixedReserved
              \/ \E k \in Counted : e820[k].type # 1 /\ p \in Touched(e820[k])
              \/ \A k \in Counted : p \notin Touched(e820[k])
        /\ "KERNEL" \in kp_flags[p] => p \in fixedKernel \/ p <= end_kernel_data

(* The loop stands at the next entry, or at the end of the one before.      *)
LoopInv ==
    /\ i <= e820_count => First(e820[i]) <= addr
    /\ i <= e820_count => \/ addr = First(e820[i])
                          \/ i > 1 /\ addr = Limit(e820[i - 1])
    /\ \A k \in Processed : Limit(e820[k]) <= addr /\ Limit(e820[k]) <= nr_kpages

(* Behind it, what it has not looked at lies beyond kpages.                 *)
StoppedInv ==
    /\ kpage_last = addr - 1
    /\ \A p \in Kpages : \A k \in Unseen : p \notin Touched(e820[k])
    /\ \A k \in Counted : \A p \in Touched(e820[k]) : p < nr_kpages => p < addr

FixedInv ==
    \A p \in Kpages : /\ p \in FixedReserved => "RESERVED" \in kp_flags[p]
                      /\ p \in FixedKernel => "KERNEL" \in kp_flags[p]

Inv ==
    /\ LoaderInv
    /\ beyond = {}
    /\ InLoop => FlagsInv /\ LoopInv /\ OriginInv({}, {})
    /\ pc = "fixed" => FlagsInv /\ StoppedInv /\ OriginInv({}, {})
    /\ pc \in {"add", "done"} =>
          FlagsInv /\ StoppedInv /\ OriginInv(FixedReserved, FixedKernel) /\ FixedInv
    /\ handed # {} => pc = "done"
    /\ pc = "done" => handed = AddedPages

-----------------------------------------------------------------------------
(* Entries and their order                                                  *)

LEMMA Spans ==
    ASSUME NEW map, WellFormed(map), NEW k \in 1 .. Len(map)
    PROVE  First(map[k]) \in Nat /\ Limit(map[k]) \in Nat /\ First(map[k]) <= Limit(map[k])
<1>1. map[k] \in Entries
  BY DEF WellFormed
<1>2. map[k].base \in Nat /\ map[k].length \in Nat
  BY <1>1 DEF Entries
<1> QED BY <1>2, SMTT(30) DEF First, Limit, Page, ALIGN_PAGE, PAGE_SIZE

LEMMA Ascending ==
    ASSUME NEW map, WellFormed(map), NEW j \in 1 .. Len(map), NEW k \in 1 .. Len(map), j <= k
    PROVE  First(map[j]) <= First(map[k]) /\ Limit(map[j]) <= Limit(map[k])
<1>1. CASE j = k
  BY <1>1, Spans
<1>2. CASE j < k
  BY <1>2 DEF WellFormed
<1> QED BY <1>1, <1>2

LEMMA Quotients ==
    ASSUME NEW a \in Int, NEW b \in Nat \ {0}
    PROVE  CeilDiv(a, b) \in Int
  BY DEF CeilDiv

LEMMA KernelEnd ==
    ASSUME NEW nr \in Nat
    PROVE  KernelDataEnd(nr) \in Int
  BY LayoutAssumption, Quotients DEF KernelDataEnd, Pgtbls

(* The last entry counted, and the size it gives kpages.                    *)
LEMMA Counts ==
    ASSUME LoaderInv, e820_count \in {Len(e820) - 2, Len(e820) - 1}
    PROVE  /\ e820_count \in Nat /\ e820_count >= 1 /\ e820_count < Len(e820)
           /\ Len(e820) \in Nat
           /\ Last \in Nat /\ EffectivePages = Min2(Last, MaxPages) /\ EffectivePages \in Nat
           /\ Limit(e820[Len(e820) - 2]) <= Last /\ Limit(e820[Len(e820) - 2]) \in Nat
<1>1. WellFormed(e820) /\ Len(e820) >= 3 /\ Len(e820) \in Nat
  BY DEF LoaderInv, WellFormed
<1>2. e820_count \in 1 .. Len(e820) /\ Len(e820) - 2 \in 1 .. Len(e820)
      /\ Len(e820) - 2 <= e820_count
  BY <1>1
<1>3. Last \in Nat /\ Limit(e820[Len(e820) - 2]) \in Nat
  BY <1>1, <1>2, Spans DEF Last
<1>4. Limit(e820[Len(e820) - 2]) <= Last
  BY <1>1, <1>2, Ascending DEF Last
<1>5. EffectivePages = Min2(Last, MaxPages) /\ EffectivePages \in Nat
  BY <1>3, LayoutAssumption DEF EffectivePages, Last, Min2
<1> QED BY <1>1, <1>2, <1>3, <1>4, <1>5

-----------------------------------------------------------------------------
(* Each action keeps the invariant                                          *)

LEMMA Initial == Init => Inv
<1> SUFFICES ASSUME Init PROVE Inv
  OBVIOUS
<1>1. LoaderInv
  BY MapsAssumption DEF Init, LoaderInv
<1> QED BY <1>1 DEF Init, Inv, InLoop

LEMMA LoaderStep ==
    ASSUME Inv, E820First \/ E820NextEntry \/ E820Done \/ E820Failed
    PROVE  Inv'
<1>1. WellFormed(e820) /\ Len(e820) >= 3 /\ Len(e820) \in Nat
  BY DEF Inv, LoaderInv, WellFormed
<1>2. e820' = e820 /\ WellFormed(e820)' /\ beyond' = {} /\ handed' = {}
  BY <1>1 DEF Inv, E820First, E820NextEntry, E820Done, E820Failed, firmware, arrays
<1>3. CASE E820First
  BY <1>1, <1>2, <1>3 DEF Inv, LoaderInv, InLoop, E820First, firmware
<1>4. CASE E820NextEntry
  <2>1. /\ pc = "e820_next_entry" /\ pc' = "e820_next_entry" /\ asked' = asked + 1
        /\ style' = style /\ e820_count' = e820_count + 1
    BY <1>4 DEF E820NextEntry, firmware
  <2>2. /\ asked \in 1 .. Len(e820) /\ e820_count = asked - 1
        /\ style # "carry" => asked < Len(e820)
    BY <2>1 DEF Inv, LoaderInv
  <2>3. (style = "carry" => asked # Len(e820)) /\ (style # "carry" => asked + 1 # Len(e820))
    BY <1>4 DEF E820NextEntry, LastCall
  <2>4. /\ asked' \in 1 .. Len(e820) /\ e820_count' = asked' - 1
        /\ style # "carry" => asked' < Len(e820)
    BY <1>1, <2>1, <2>2, <2>3
  <2> QED BY <1>1, <1>2, <2>1, <2>4 DEF Inv, LoaderInv, InLoop
<1>5. CASE E820Done
  <2>1. /\ pc = "e820_next_entry" /\ pc' = "mem_init" /\ asked' = Len(e820)
        /\ style' = style /\ e820_count' = e820_count
    BY <1>5 DEF E820Done, firmware
  <2>2. asked \in 1 .. Len(e820) /\ e820_count = asked - 1
    BY <2>1 DEF Inv, LoaderInv
  <2>3. asked = Len(e820) \/ asked + 1 = Len(e820)
    BY <1>5 DEF E820Done, LastCall
  <2>4. e820_count' \in {Len(e820) - 2, Len(e820) - 1}
    BY <1>1, <2>1, <2>2, <2>3
  <2> QED BY <1>1, <1>2, <2>1, <2>4 DEF Inv, LoaderInv, InLoop
<1>6. CASE E820Failed
  BY <1>1, <1>2, <1>6 DEF Inv, LoaderInv, InLoop, E820Failed, firmware
<1> QED BY <1>3, <1>4, <1>5, <1>6

LEMMA LayoutStep ==
    ASSUME Inv, Layout
    PROVE  Inv'
<1>1. /\ pc = "mem_init" /\ e820_count \in {Len(e820) - 2, Len(e820) - 1}
      /\ WellFormed(e820) /\ LoaderInv
  BY DEF Inv, Layout, LoaderInv
<1>2. UNCHANGED <<e820, style, asked, e820_count, beyond, handed>> /\ beyond' = {} /\ handed' = {}
  BY <1>1 DEF Inv, Layout, firmware, loader
<1>3. /\ e820_count \in Nat /\ e820_count >= 1 /\ e820_count < Len(e820)
      /\ Len(e820) \in Nat /\ EffectivePages = Min2(Last, MaxPages) /\ EffectivePages \in Nat
  BY <1>1, Counts
<1>4. LoaderInv' /\ pc' \in {"failed", "entries"}
  BY <1>1, <1>2 DEF LoaderInv, Layout
<1>5. CASE pc' = "failed"
  BY <1>2, <1>4, <1>5 DEF Inv, InLoop
<1>6. CASE pc' = "entries"
  <2>1. /\ nr_kpages' = EffectivePages /\ i' = 1 /\ addr' = 0
        /\ kp_flags' = [p \in 0 .. EffectivePages - 1 |-> {}]
    BY <1>1, <1>6 DEF Layout, WellFormed
  <2>2. FlagsInv'
    <3>1. nr_kpages' \in Nat /\ nr_kpages' = Min2(Last, MaxPages)'
      BY <1>2, <1>3, <2>1 DEF Last
    <3>2. kp_flags' \in [Kpages' -> SUBSET {"RESERVED", "KERNEL"}]
      BY <2>1 DEF Kpages
    <3>3. /\ addr' \in Nat /\ addr' <= nr_kpages' /\ i' \in 1 .. e820_count' + 1
          /\ Processed' = {}
      BY <1>2, <1>3, <2>1 DEF Processed
    <3>4. \A p \in Kpages' : ~ (p < addr')
      BY <1>3, <2>1 DEF Kpages
    <3> QED BY <3>1, <3>2, <3>3, <3>4 DEF FlagsInv
  <2>3. LoopInv'
    <3>1. First(e820[1]) = 0
      BY <1>1 DEF WellFormed
    <3>2. Processed' = {} /\ First(e820'[i']) = 0
      BY <1>2, <2>1, <3>1 DEF Processed
    <3> QED BY <2>1, <3>2 DEF LoopInv
  <2>4. OriginInv({}, {})'
    BY <2>1 DEF OriginInv, Kpages
  <2> QED BY <1>2, <1>4, <1>6, <2>2, <2>3, <2>4 DEF Inv, InLoop
<1> QED BY <1>4, <1>5, <1>6

-----------------------------------------------------------------------------
(* The loop over the entries                                                *)

LEMMA EntryStep ==
    ASSUME Inv, E820Entry
    PROVE  Inv'
<1> DEFINE e == e820[i]
<1>1. /\ pc = "entries" /\ LoaderInv /\ FlagsInv /\ LoopInv /\ OriginInv({}, {})
      /\ WellFormed(e820) /\ e820_count \in {Len(e820) - 2, Len(e820) - 1}
      /\ i <= e820_count /\ addr < nr_kpages
  BY DEF Inv, InLoop, E820Entry, MoreEntries, LoaderInv
<1>2. /\ e820_count \in Nat /\ e820_count >= 1 /\ e820_count < Len(e820)
      /\ Len(e820) \in Nat /\ Last \in Nat /\ MaxPages \in Nat
  BY <1>1, Counts, LayoutAssumption
<1>3. /\ i \in Nat /\ i >= 1 /\ addr \in Nat /\ nr_kpages \in Nat
      /\ nr_kpages = Min2(Last, MaxPages) /\ nr_kpages <= Last /\ nr_kpages <= MaxPages
      /\ First(e) <= addr /\ end_kernel_data \in Int
  BY <1>1, <1>2, KernelEnd, SMTT(30) DEF FlagsInv, LoopInv, Min2, end_kernel_data
<1>4. /\ UNCHANGED <<pc, e820, e820_count, nr_kpages, kpage_last, handed>>
      /\ i' = i + 1 /\ addr' = IF Gap(i) = {} THEN Limit(e) ELSE First(e820[i + 1])
  BY DEF E820Entry, firmware, loader
<1>5. First(e) \in Nat /\ Limit(e) \in Nat /\ First(e) <= Limit(e)
  BY <1>1, <1>2, <1>3, Spans
<1>6. Limit(e) <= nr_kpages
  <2>1. Limit(e) <= Last
    BY <1>1, <1>2, <1>3, Ascending DEF Last
  <2>2. Limit(e) <= MaxPages \/ First(e) >= MaxPages
    BY <1>1, <1>2, <1>3 DEF WellFormed
  <2>3. Limit(e) <= MaxPages
    BY <1>1, <1>2, <1>3, <1>5, <2>2
  <2> QED BY <1>2, <1>3, <2>1, <2>3 DEF Min2
<1>7. i # e820_count =>
        /\ First(e820[i + 1]) \in Nat /\ First(e820[i + 1]) <= nr_kpages
        /\ Gap(i) = Limit(e) .. First(e820[i + 1]) - 1
  <2> SUFFICES ASSUME i # e820_count
               PROVE  /\ First(e820[i + 1]) \in Nat /\ First(e820[i + 1]) <= nr_kpages
                      /\ Gap(i) = Limit(e) .. First(e820[i + 1]) - 1
    OBVIOUS
  <2>1. i + 1 \in 1 .. Len(e820) /\ i + 1 <= e820_count /\ i \in 1 .. Len(e820) - 1
    BY <1>1, <1>2, <1>3
  <2>2. First(e820[i + 1]) \in Nat
    BY <1>1, <2>1, Spans
  <2>3. First(e820[i + 1]) <= MaxPages
    BY <1>1, <1>3, <1>5, <1>6, <1>2, <2>1 DEF WellFormed
  <2>4. First(e820[i + 1]) <= Last
    <3>1. First(e820[e820_count]) \in Nat /\ First(e820[e820_count]) <= Last
      BY <1>1, <1>2, Spans DEF Last
    <3>2. First(e820[i + 1]) <= First(e820[e820_count])
      BY <1>1, <1>2, <2>1, Ascending
    <3> QED BY <1>2, <2>2, <3>1, <3>2
  <2>5. First(e820[i + 1]) <= nr_kpages
    BY <1>2, <1>3, <2>3, <2>4 DEF Min2
  <2> QED BY <2>2, <2>5 DEF Gap
<1>8. Touched(e) \cup Gap(i) \subseteq Kpages /\ Touched(e) = First(e) .. Limit(e) - 1
  <2>1. Touched(e) = First(e) .. Limit(e) - 1
    BY DEF Touched
  <2>2. Gap(i) \subseteq Kpages
    <3>1. CASE i = e820_count
      BY <3>1 DEF Gap
    <3>2. CASE i # e820_count
      BY <3>2, <1>3, <1>5, <1>7 DEF Kpages
    <3> QED BY <3>1, <3>2
  <2> QED BY <1>3, <1>5, <1>6, <2>1, <2>2 DEF Kpages
<1>9. beyond' = {}
  BY <1>8 DEF E820Entry, Inv
<1>10. /\ addr' \in Nat /\ addr' <= nr_kpages /\ Limit(e) <= addr'
       /\ addr' = Limit(e) \/ (i # e820_count /\ addr' = First(e820[i + 1]))
       /\ \A p \in Kpages : p >= Limit(e) /\ p < addr' => p \in Gap(i)
       /\ i # e820_count => First(e820[i + 1]) <= addr'
  <2>1. CASE Gap(i) = {}
    <3>1. addr' = Limit(e)
      BY <1>4, <2>1
    <3>2. i # e820_count => First(e820[i + 1]) <= Limit(e)
      BY <1>5, <1>7, <2>1
    <3> QED BY <1>3, <1>5, <1>6, <3>1, <3>2 DEF Kpages
  <2>2. CASE Gap(i) # {}
    <3>1. i # e820_count /\ addr' = First(e820[i + 1])
      BY <1>4, <2>2 DEF Gap
    <3>2. Limit(e) <= First(e820[i + 1])
      BY <1>5, <1>7, <2>2, <3>1
    <3> QED BY <1>3, <1>5, <1>7, <3>1, <3>2 DEF Kpages
  <2> QED BY <2>1, <2>2
<1>11. \A p \in Kpages :
         /\ p \in Gap(i) => kp_flags'[p] = kp_flags[p] \cup {"RESERVED"}
         /\ p \notin Gap(i) /\ p \in Touched(e) => kp_flags'[p] = EntryFlags(e, p)
         /\ p \notin Gap(i) /\ p \notin Touched(e) => kp_flags'[p] = kp_flags[p]
  <2>1. \A p \in Gap(i) : p \notin Touched(e)
    <3>1. CASE i = e820_count
      BY <3>1 DEF Gap
    <3>2. CASE i # e820_count
      BY <3>2, <1>5, <1>7, <1>8
    <3> QED BY <3>1, <3>2
  <2>2. \A p \in Kpages : kp_flags'[p] =
          IF p \in Gap(i)
          THEN (IF p \in Touched(e) THEN EntryFlags(e, p) ELSE kp_flags[p]) \cup {"RESERVED"}
          ELSE IF p \in Touched(e) THEN EntryFlags(e, p) ELSE kp_flags[p]
    BY DEF E820Entry
  <2> QED BY <2>1, <2>2
<1>12. /\ kp_flags' \in [Kpages -> SUBSET {"RESERVED", "KERNEL"}]
       /\ \A p \in Kpages :
            /\ kp_flags[p] \subseteq kp_flags'[p]
            /\ p \in Gap(i) => "RESERVED" \in kp_flags'[p]
            /\ p \in Touched(e) /\ e.type # 1 => "RESERVED" \in kp_flags'[p]
            /\ p \in Touched(e) /\ p <= end_kernel_data => kp_flags'[p] # {}
            /\ "RESERVED" \in kp_flags'[p] =>
                 \/ "RESERVED" \in kp_flags[p] \/ p \in Gap(i)
                 \/ p \in Touched(e) /\ e.type # 1
            /\ "KERNEL" \in kp_flags'[p] => "KERNEL" \in kp_flags[p] \/ p <= end_kernel_data
  <2>1. kp_flags \in [Kpages -> SUBSET {"RESERVED", "KERNEL"}] /\ DOMAIN kp_flags' = Kpages
    BY <1>1 DEF FlagsInv, E820Entry
  <2>2. ASSUME NEW p \in Kpages
        PROVE  /\ kp_flags'[p] \subseteq {"RESERVED", "KERNEL"}
               /\ kp_flags[p] \subseteq kp_flags'[p]
               /\ p \in Gap(i) => "RESERVED" \in kp_flags'[p]
               /\ p \in Touched(e) /\ e.type # 1 => "RESERVED" \in kp_flags'[p]
               /\ p \in Touched(e) /\ p <= end_kernel_data => kp_flags'[p] # {}
               /\ "RESERVED" \in kp_flags'[p] =>
                    \/ "RESERVED" \in kp_flags[p] \/ p \in Gap(i)
                    \/ p \in Touched(e) /\ e.type # 1
               /\ "KERNEL" \in kp_flags'[p] => "KERNEL" \in kp_flags[p] \/ p <= end_kernel_data
    <3>1. kp_flags[p] \subseteq {"RESERVED", "KERNEL"}
      BY <2>1
    <3>2. CASE p \in Gap(i)
      BY <1>11, <3>1, <3>2
    <3>3. CASE p \notin Gap(i) /\ p \in Touched(e)
      <4>1. kp_flags'[p] = EntryFlags(e, p)
        BY <1>11, <3>3
      <4>2. CASE e.type # 1
        BY <3>1, <3>3, <4>1, <4>2 DEF EntryFlags
      <4>3. CASE e.type = 1 /\ "RESERVED" \notin kp_flags[p] /\ p <= end_kernel_data
        BY <3>1, <3>3, <4>1, <4>3 DEF EntryFlags
      <4>4. CASE e.type = 1 /\ ~ ("RESERVED" \notin kp_flags[p] /\ p <= end_kernel_data)
        BY <3>1, <3>3, <4>1, <4>4 DEF EntryFlags
      <4> QED BY <4>2, <4>3, <4>4
    <3>4. CASE p \notin Gap(i) /\ p \notin Touched(e)
      BY <1>11, <3>1, <3>4
    <3> QED BY <3>2, <3>3, <3>4
  <2>3. kp_flags' \in [Kpages -> SUBSET {"RESERVED", "KERNEL"}]
    BY <2>1, <2>2 DEF E820Entry
  <2> QED BY <2>2, <2>3
<1>13. /\ Kpages' = Kpages /\ end_kernel_data' = end_kernel_data /\ Counted' = Counted
       /\ Processed' = Processed \cup {i} /\ i \notin Processed /\ Last' = Last
  BY <1>3, <1>4 DEF Kpages, end_kernel_data, Counted, Processed, Last
<1>14. FlagsInv'
  <2>1. /\ nr_kpages' \in Nat /\ nr_kpages' = Min2(Last, MaxPages)'
        /\ addr' \in Nat /\ addr' <= nr_kpages' /\ i' \in 1 .. e820_count' + 1
    BY <1>1, <1>2, <1>3, <1>4, <1>10, <1>13
  <2>2. ASSUME NEW k \in Processed', NEW p \in Touched(e820[k])
        PROVE  /\ p \in Kpages /\ p < addr'
               /\ e820[k].type # 1 => "RESERVED" \in kp_flags'[p]
               /\ p <= end_kernel_data => kp_flags'[p] # {}
    <3>1. CASE k = i
      BY <1>3, <1>5, <1>8, <1>10, <1>12, <3>1
    <3>2. CASE k \in Processed
      <4>1. /\ p \in Kpages
            /\ e820[k].type # 1 => "RESERVED" \in kp_flags[p]
            /\ p <= end_kernel_data => kp_flags[p] # {}
        BY <1>1, <3>2 DEF FlagsInv
      <4>2. p < Limit(e820[k]) /\ Limit(e820[k]) <= Limit(e)
            /\ Limit(e820[k]) \in Nat /\ p \in Int
        <5>1. k \in 1 .. Len(e820) /\ i \in 1 .. Len(e820) /\ k <= i
          BY <1>1, <1>2, <1>3, <3>2 DEF Processed
        <5>2. Limit(e820[k]) <= Limit(e)
          BY <1>1, <5>1, Ascending
        <5>3. Limit(e820[k]) \in Nat /\ First(e820[k]) \in Nat
          BY <1>1, <5>1, Spans
        <5> QED BY <5>2, <5>3 DEF Touched
      <4>3. p < addr'
        BY <1>5, <1>10, <4>2
      <4> QED BY <1>12, <4>1, <4>3
    <3> QED BY <1>13, <3>1, <3>2
  <2>3. ASSUME NEW p \in Kpages, p < addr'
        PROVE  \/ \E k \in Processed' : p \in Touched(e820[k])
               \/ "RESERVED" \in kp_flags'[p]
    <3>1. CASE p < First(e)
      <4>1. p < addr
        BY <1>3, <1>5, <3>1 DEF Kpages
      <4> QED BY <1>1, <1>12, <1>13, <4>1 DEF FlagsInv
    <3>2. CASE p >= First(e) /\ p < Limit(e)
      BY <1>5, <1>8, <1>13, <3>2 DEF Kpages
    <3>3. CASE p >= Limit(e)
      BY <1>10, <1>12, <2>3, <3>3
    <3> QED BY <1>5, <3>1, <3>2, <3>3 DEF Kpages
  <2> QED BY <1>4, <1>12, <1>13, <2>1, <2>2, <2>3 DEF FlagsInv, Touched
<1>15. LoopInv'
  <2>1. ASSUME NEW k \in Processed'
        PROVE  Limit(e820[k]) <= addr' /\ Limit(e820[k]) <= nr_kpages
    <3>1. k \in 1 .. Len(e820) /\ i \in 1 .. Len(e820) /\ k <= i
      BY <1>1, <1>2, <1>3, <1>13 DEF Processed
    <3>2. Limit(e820[k]) <= Limit(e) /\ Limit(e820[k]) \in Nat
      BY <1>1, <3>1, Ascending, Spans
    <3> QED BY <1>3, <1>5, <1>6, <1>10, <3>2
  <2>2. i' <= e820_count => i # e820_count
    BY <1>2, <1>3, <1>4
  <2>3. i' > 1 /\ i' - 1 = i
    BY <1>3, <1>4
  <2> QED BY <1>4, <1>10, <2>1, <2>2, <2>3 DEF LoopInv
<1>16. OriginInv({}, {})'
  <2> SUFFICES ASSUME NEW p \in Kpages
               PROVE  /\ "RESERVED" \in kp_flags'[p] =>
                            \/ \E k \in Counted : e820[k].type # 1 /\ p \in Touched(e820[k])
                            \/ \A k \in Counted : p \notin Touched(e820[k])
                      /\ "KERNEL" \in kp_flags'[p] => p <= end_kernel_data
    BY <1>4, <1>13 DEF OriginInv, Touched
  <2>1. /\ "RESERVED" \in kp_flags[p] =>
             \/ \E k \in Counted : e820[k].type # 1 /\ p \in Touched(e820[k])
             \/ \A k \in Counted : p \notin Touched(e820[k])
        /\ "KERNEL" \in kp_flags[p] => p <= end_kernel_data
    BY <1>1 DEF OriginInv
  <2>2. i \in Counted
    BY <1>1, <1>2, <1>3 DEF Counted
  <2>3. ASSUME p \in Gap(i), NEW k \in Counted
        PROVE  p \notin Touched(e820[k])
    <3>1. i # e820_count
      BY <2>3 DEF Gap
    <3>2. p >= Limit(e) /\ p < First(e820[i + 1]) /\ First(e820[i + 1]) \in Nat /\ p \in Int
      BY <1>5, <1>7, <2>3, <3>1
    <3>3. /\ k \in 1 .. Len(e820) /\ i \in 1 .. Len(e820) /\ i + 1 \in 1 .. Len(e820)
      BY <1>1, <1>2, <1>3, <3>1 DEF Counted
    <3>4. First(e820[k]) \in Nat /\ Limit(e820[k]) \in Nat
      BY <1>1, <3>3, Spans
    <3>5. CASE k <= i
      <4>1. Limit(e820[k]) <= Limit(e)
        BY <1>1, <3>3, <3>5, Ascending
      <4> QED BY <1>5, <3>2, <3>4, <4>1 DEF Touched
    <3>6. CASE i + 1 <= k
      <4>1. First(e820[i + 1]) <= First(e820[k])
        BY <1>1, <3>3, <3>6, Ascending
      <4> QED BY <3>2, <3>4, <4>1 DEF Touched
    <3> QED BY <1>3, <3>3, <3>5, <3>6
  <2> QED BY <1>12, <2>1, <2>2, <2>3
<1>17. LoaderInv'
  BY <1>1, <1>4 DEF LoaderInv
<1>18. handed' = {}
  BY <1>1, <1>4 DEF Inv
<1> QED BY <1>1, <1>4, <1>9, <1>14, <1>15, <1>16, <1>17, <1>18 DEF Inv, InLoop

LEMMA StopStep ==
    ASSUME Inv, EntriesDone
    PROVE  Inv'
<1>1. /\ pc = "entries" /\ LoaderInv /\ FlagsInv /\ LoopInv /\ OriginInv({}, {})
      /\ WellFormed(e820) /\ e820_count \in {Len(e820) - 2, Len(e820) - 1}
      /\ i > e820_count \/ addr >= nr_kpages
  <2>1. pc = "entries" /\ ~ (i <= e820_count /\ addr < nr_kpages)
    BY DEF EntriesDone, MoreEntries
  <2>2. LoaderInv /\ FlagsInv /\ LoopInv /\ OriginInv({}, {})
    BY <2>1 DEF Inv, InLoop
  <2>3. WellFormed(e820) /\ e820_count \in {Len(e820) - 2, Len(e820) - 1}
    BY <2>1, <2>2 DEF LoaderInv
  <2>4. e820_count \in Nat /\ i \in Nat /\ addr \in Nat /\ nr_kpages \in Nat
    BY <2>2, <2>3, Counts DEF FlagsInv
  <2> QED BY <2>1, <2>2, <2>3, <2>4
<1>2. /\ e820_count \in Nat /\ e820_count >= 1 /\ e820_count < Len(e820)
      /\ Len(e820) \in Nat /\ Last \in Nat /\ MaxPages \in Nat
      /\ Limit(e820[Len(e820) - 2]) <= Last /\ Limit(e820[Len(e820) - 2]) \in Nat
  BY <1>1, Counts, LayoutAssumption
<1>3. /\ i \in Nat /\ i >= 1 /\ addr \in Nat /\ nr_kpages \in Nat /\ addr <= nr_kpages
      /\ nr_kpages = Min2(Last, MaxPages)
  BY <1>1, <1>2 DEF FlagsInv
<1>4. /\ UNCHANGED <<e820, e820_count, nr_kpages, kp_flags, beyond, i, addr, handed>>
      /\ kpage_last' = addr - 1 /\ pc' = "fixed"
  BY DEF EntriesDone, firmware, loader, arrays
<1>5. ASSUME NEW p \in Kpages, NEW k \in Unseen
      PROVE  p \notin Touched(e820[k])
  <2>1. /\ k \in 1 .. Len(e820) /\ i \in 1 .. Len(e820) /\ i <= k /\ k <= e820_count
        /\ i <= e820_count /\ addr >= nr_kpages
    BY <1>1, <1>2, <1>3 DEF Unseen
  <2>2. /\ First(e820[i]) \in Nat /\ First(e820[k]) \in Nat /\ First(e820[i]) <= First(e820[k])
        /\ Limit(e820[k]) \in Nat
    BY <1>1, <2>1, Spans, Ascending
  <2>3. addr = nr_kpages
    BY <1>3, <2>1
  <2>4. CASE addr = First(e820[i])
    BY <1>3, <2>2, <2>3, <2>4 DEF Kpages, Touched
  <2>5. CASE i > 1 /\ addr = Limit(e820[i - 1])
    <3>1. /\ i - 1 \in 1 .. Len(e820) /\ i - 1 \in 1 .. k - 1 /\ k \in 1 .. Len(e820) - 1
          /\ i - 1 <= k
      BY <1>2, <1>3, <2>1, <2>5
    <3>2. Limit(e820[i - 1]) \in Nat /\ Limit(e820[i - 1]) <= Limit(e820[k])
      BY <1>1, <2>1, <3>1, Spans, Ascending
    <3>3. ~ (Limit(e820[i - 1]) < Min2(Limit(e820[Len(e820) - 2]), MaxPages))
      BY <1>2, <1>3, <2>3, <2>5, <3>2 DEF Min2
    <3>4. Limit(e820[i - 1]) < Limit(e820[k])
      <4>1. \/ Limit(e820[i - 1]) < Limit(e820[k])
            \/ Limit(e820[k]) < Min2(Limit(e820[Len(e820) - 2]), MaxPages)
        BY <1>1, <3>1 DEF WellFormed
      <4>2. Min2(Limit(e820[Len(e820) - 2]), MaxPages) \in Nat
        BY <1>2 DEF Min2
      <4> QED BY <2>2, <3>2, <3>3, <4>1, <4>2
    <3>5. Limit(e820[k]) <= Last
      BY <1>1, <1>2, <2>1, Ascending DEF Last
    <3>6. nr_kpages = MaxPages
      BY <1>2, <1>3, <2>2, <2>3, <2>5, <3>2, <3>4, <3>5 DEF Min2
    <3>7. First(e820[k]) >= MaxPages
      <4>1. Limit(e820[k]) <= MaxPages \/ First(e820[k]) >= MaxPages
        BY <1>1, <2>1 DEF WellFormed
      <4>2. Limit(e820[i - 1]) = MaxPages
        BY <2>3, <2>5, <3>6
      <4>3. ~ (Limit(e820[k]) <= MaxPages)
        BY <1>2, <2>2, <3>4, <4>2
      <4> QED BY <4>1, <4>3
    <3> QED BY <1>2, <2>2, <3>6, <3>7 DEF Kpages, Touched
  <2> QED BY <1>1, <2>1, <2>4, <2>5 DEF LoopInv
<1>6. ASSUME NEW k \in Counted, NEW p \in Touched(e820[k]), p < nr_kpages
      PROVE  p < addr
  <2>1. CASE k \in Processed
    BY <1>1, <2>1 DEF FlagsInv
  <2>2. CASE k \notin Processed
    <3>1. k \in Unseen
      BY <1>2, <1>3, <2>2 DEF Counted, Processed, Unseen
    <3>2. First(e820[k]) \in Nat /\ Limit(e820[k]) \in Nat
      BY <1>1, <1>2, Spans DEF Counted
    <3>3. p \in Kpages
      BY <1>3, <1>6, <3>2 DEF Touched, Kpages
    <3> QED BY <1>5, <3>1, <3>3
  <2> QED BY <2>1, <2>2
<1>7. /\ Kpages' = Kpages /\ end_kernel_data' = end_kernel_data /\ Counted' = Counted
      /\ Processed' = Processed /\ Unseen' = Unseen /\ Last' = Last
  BY <1>4 DEF Kpages, end_kernel_data, Counted, Processed, Unseen, Last
<1>8. StoppedInv'
  BY <1>4, <1>5, <1>6, <1>7 DEF StoppedInv, Touched
<1>9. FlagsInv' /\ OriginInv({}, {})'
  BY <1>1, <1>4, <1>7 DEF FlagsInv, OriginInv, Touched
<1>10. LoaderInv' /\ handed' = {} /\ beyond' = {}
  BY <1>1, <1>4 DEF LoaderInv, Inv
<1> QED BY <1>4, <1>8, <1>9, <1>10 DEF Inv, InLoop

(* The fixed areas lie inside kpages.                                       *)
LEMMA FixedInside ==
    ASSUME LoaderInv, FlagsInv, e820_count \in {Len(e820) - 2, Len(e820) - 1}
    PROVE  FixedReserved \cup FixedKernel \subseteq Kpages
<1>1. /\ Last \in Nat /\ Limit(e820[Len(e820) - 2]) <= Last
      /\ Limit(e820[Len(e820) - 2]) \in Nat /\ MaxPages \in Nat
  BY Counts, LayoutAssumption
<1>2. ASSUME NEW p \in FixedReserved \cup FixedKernel
      PROVE  p \in Kpages
  <2>1. p \in Nat
    BY LayoutAssumption
  <2>2. p < Min2(Limit(e820[Len(e820) - 2]), MaxPages)
    BY DEF LoaderInv, WellFormed
  <2>3. p < Last /\ p < MaxPages
    BY <1>1, <2>1, <2>2 DEF Min2
  <2>4. nr_kpages = Min2(Last, MaxPages)
    BY DEF FlagsInv
  <2> QED BY <1>1, <2>1, <2>3, <2>4 DEF Min2, Kpages
<1> QED BY <1>2

LEMMA FixedStep ==
    ASSUME Inv, FixedPages
    PROVE  Inv'
<1>1. /\ pc = "fixed" /\ LoaderInv /\ FlagsInv /\ StoppedInv /\ OriginInv({}, {})
      /\ e820_count \in {Len(e820) - 2, Len(e820) - 1}
  BY DEF Inv, FixedPages, LoaderInv
<1>2. /\ UNCHANGED <<e820, e820_count, nr_kpages, i, addr, kpage_last, handed>>
      /\ pc' = "add"
  BY DEF FixedPages, firmware, loader, loop
<1>3. beyond' = {}
  BY <1>1, FixedInside DEF FixedPages, Inv
<1>4. /\ Kpages' = Kpages /\ end_kernel_data' = end_kernel_data /\ Counted' = Counted
      /\ Processed' = Processed /\ Unseen' = Unseen /\ Last' = Last
  BY <1>2 DEF Kpages, end_kernel_data, Counted, Processed, Unseen, Last
<1>5. kp_flags \in [Kpages -> SUBSET {"RESERVED", "KERNEL"}]
  BY <1>1 DEF FlagsInv
<1>6. /\ kp_flags' \in [Kpages -> SUBSET {"RESERVED", "KERNEL"}]
      /\ \A p \in Kpages :
           /\ kp_flags[p] \subseteq kp_flags'[p]
           /\ "RESERVED" \in kp_flags'[p] <=> "RESERVED" \in kp_flags[p] \/ p \in FixedReserved
           /\ "KERNEL" \in kp_flags'[p] <=> "KERNEL" \in kp_flags[p] \/ p \in FixedKernel
  <2>1. kp_flags' = [p \in Kpages |->
          kp_flags[p] \cup (IF p \in FixedReserved THEN {"RESERVED"} ELSE {})
                      \cup (IF p \in FixedKernel THEN {"KERNEL"} ELSE {})]
    BY DEF FixedPages
  <2> QED BY <1>5, <2>1
<1>7. FlagsInv'
  <2>1. ASSUME NEW k \in Processed, NEW p \in Touched(e820[k])
        PROVE  /\ p \in Kpages /\ p < addr
               /\ e820[k].type # 1 => "RESERVED" \in kp_flags'[p]
               /\ p <= end_kernel_data => kp_flags'[p] # {}
    BY <1>1, <1>6 DEF FlagsInv
  <2>2. ASSUME NEW p \in Kpages, p < addr
        PROVE  \/ \E k \in Processed : p \in Touched(e820[k])
               \/ "RESERVED" \in kp_flags'[p]
    BY <1>1, <1>6, <2>2 DEF FlagsInv
  <2>3. /\ nr_kpages \in Nat /\ nr_kpages = Min2(Last, MaxPages)
        /\ addr \in Nat /\ addr <= nr_kpages /\ i \in 1 .. e820_count + 1
    BY <1>1 DEF FlagsInv
  <2> QED BY <1>2, <1>4, <1>6, <2>1, <2>2, <2>3 DEF FlagsInv, Touched
<1>8. StoppedInv'
  BY <1>1, <1>2, <1>4 DEF StoppedInv, Touched
<1>9. OriginInv(FixedReserved, FixedKernel)' /\ FixedInv'
  BY <1>1, <1>2, <1>4, <1>6 DEF OriginInv, FixedInv, Touched
<1>10. LoaderInv' /\ handed' = {}
  BY <1>1, <1>2 DEF LoaderInv, Inv
<1> QED BY <1>2, <1>3, <1>7, <1>8, <1>9, <1>10 DEF Inv, InLoop

LEMMA AddStep ==
    ASSUME Inv, AddPages
    PROVE  Inv'
<1>1. /\ pc = "add" /\ LoaderInv /\ FlagsInv /\ StoppedInv /\ FixedInv
      /\ OriginInv(FixedReserved, FixedKernel)
  BY DEF Inv, AddPages
<1>2. /\ UNCHANGED <<e820, e820_count, nr_kpages, kp_flags, i, addr, kpage_last>>
      /\ pc' = "done" /\ handed' = AddedPages
  BY DEF AddPages, firmware, loader, loop
<1>3. 0 .. kpage_last \subseteq Kpages
  BY <1>1 DEF StoppedInv, FlagsInv, Kpages
<1>4. beyond' = {}
  BY <1>3 DEF AddPages, Inv
<1>5. /\ Kpages' = Kpages /\ end_kernel_data' = end_kernel_data /\ Counted' = Counted
      /\ Processed' = Processed /\ Unseen' = Unseen /\ Last' = Last
      /\ AddedPages' = AddedPages
  BY <1>2 DEF Kpages, end_kernel_data, Counted, Processed, Unseen, Last, AddedPages, kpage_is_free
<1>6. FlagsInv' /\ StoppedInv' /\ FixedInv' /\ OriginInv(FixedReserved, FixedKernel)'
  BY <1>1, <1>2, <1>5 DEF FlagsInv, StoppedInv, FixedInv, OriginInv, Touched
<1>7. LoaderInv'
  BY <1>1, <1>2 DEF LoaderInv
<1> QED BY <1>2, <1>4, <1>5, <1>6, <1>7 DEF Inv, InLoop

LEMMA Inductive == Inv /\ [Next]_vars => Inv'
<1> SUFFICES ASSUME Inv, [Next]_vars PROVE Inv'
  OBVIOUS
<1>1. CASE E820First \/ E820NextEntry \/ E820Done \/ E820Failed
  BY <1>1, LoaderStep
<1>2. CASE Layout
  BY <1>2, LayoutStep
<1>3. CASE E820Entry
  BY <1>3, EntryStep
<1>4. CASE EntriesDone
  BY <1>4, StopStep
<1>5. CASE FixedPages
  BY <1>5, FixedStep
<1>6. CASE AddPages
  BY <1>6, AddStep
<1>7. CASE UNCHANGED vars
  <2>1. /\ UNCHANGED <<pc, e820, style, asked, e820_count, nr_kpages, kp_flags, beyond,
                       i, addr, kpage_last, handed>>
    BY <1>7 DEF vars, firmware, loader, arrays, loop
  <2>2. /\ Kpages' = Kpages /\ end_kernel_data' = end_kernel_data /\ Counted' = Counted
        /\ Processed' = Processed /\ Unseen' = Unseen /\ Last' = Last
        /\ AddedPages' = AddedPages
    BY <2>1 DEF Kpages, end_kernel_data, Counted, Processed, Unseen, Last, AddedPages,
                kpage_is_free
  <2>3. LoaderInv => LoaderInv'
    BY <2>1 DEF LoaderInv
  <2>4. /\ FlagsInv => FlagsInv'
        /\ LoopInv => LoopInv'
        /\ StoppedInv => StoppedInv'
        /\ FixedInv => FixedInv'
    BY <2>1, <2>2 DEF FlagsInv, LoopInv, StoppedInv, FixedInv, Touched
  <2>5. /\ OriginInv({}, {}) => OriginInv({}, {})'
        /\ OriginInv(FixedReserved, FixedKernel) => OriginInv(FixedReserved, FixedKernel)'
    BY <2>1, <2>2 DEF OriginInv, Touched
  <2> QED BY <2>1, <2>2, <2>3, <2>4, <2>5 DEF Inv, InLoop
<1> QED BY <1>1, <1>2, <1>3, <1>4, <1>5, <1>6, <1>7 DEF Next

-----------------------------------------------------------------------------
(* The inductive invariant of the boot loader and mem_init.                 *)
THEOREM MemInvariance == Spec => []Inv
  BY Initial, Inductive, PTL DEF Spec

(* The loop over the E820 map, the fixed areas and the last loop never      *)
(* index kpages outside its bounds.                                         *)
THEOREM KpagesInside == Spec => []InsideKpages
<1>1. Inv => InsideKpages
  BY DEF Inv, InsideKpages
<1> QED BY <1>1, MemInvariance, PTL

(* No page reaches the allocator that is not free in every entry.           *)
THEOREM NothingReservedFree == Spec => []OnlyFreeMemory
<1>1. ASSUME Inv, NEW p \in handed
      PROVE  /\ \E k \in Counted : p \in Touched(e820[k])
             /\ \A k \in Counted : p \in Touched(e820[k]) => e820[k].type = 1
             /\ p \notin FixedReserved \cup FixedKernel
             /\ p > end_kernel_data
  <2>1. /\ pc = "done" /\ handed = AddedPages /\ LoaderInv /\ FlagsInv /\ StoppedInv /\ FixedInv
    BY <1>1 DEF Inv
  <2>2. p \in Kpages /\ kp_flags[p] = {} /\ p \in 0 .. kpage_last
    BY <2>1 DEF AddedPages, kpage_is_free
  <2>3. /\ p < addr /\ i \in Nat /\ i >= 1 /\ i <= e820_count + 1 /\ end_kernel_data \in Int
        /\ e820_count \in Nat /\ p \in Int
    <3>1. nr_kpages \in Nat /\ addr \in Nat /\ i \in 1 .. e820_count + 1
      BY <2>1 DEF FlagsInv
    <3>2. e820_count \in Nat
      BY <2>1, Counts DEF LoaderInv
    <3>3. end_kernel_data \in Int
      BY <3>1, KernelEnd DEF end_kernel_data
    <3> QED BY <2>1, <2>2, <3>1, <3>2, <3>3 DEF StoppedInv
  <2>4. PICK k \in Processed : p \in Touched(e820[k])
    BY <2>1, <2>2, <2>3 DEF FlagsInv
  <2>5. k \in Counted
    BY <2>3 DEF Processed, Counted
  <2>6. ASSUME NEW l \in Counted, p \in Touched(e820[l])
        PROVE  e820[l].type = 1
    <3>1. CASE l \in Processed
      BY <2>1, <2>2, <2>6, <3>1 DEF FlagsInv
    <3>2. CASE l \in Unseen
      BY <2>1, <2>2, <2>6, <3>2 DEF StoppedInv
    <3> QED BY <2>3, <3>1, <3>2 DEF Counted, Processed, Unseen
  <2>7. p \notin FixedReserved \cup FixedKernel
    BY <2>1, <2>2 DEF FixedInv
  <2>8. ~ (p <= end_kernel_data)
    BY <2>1, <2>2, <2>4 DEF FlagsInv
  <2> QED BY <2>3, <2>4, <2>5, <2>6, <2>7, <2>8
<1>2. Inv => OnlyFreeMemory
  BY <1>1 DEF OnlyFreeMemory
<1> QED BY <1>2, MemInvariance, PTL

(* All the free memory reaches the allocator.                               *)
THEOREM NoFreeMemoryLost == Spec => []AllFreeMemory
<1>1. ASSUME Inv, pc = "done", NEW k \in Counted, NEW p \in Touched(e820[k]),
             \A l \in Counted : e820[l].type = 1 \/ p \notin Touched(e820[l]),
             ~ (p <= end_kernel_data), ~ (p >= MaxPages),
             p \notin FixedReserved \cup FixedKernel
      PROVE  p \in handed
  <2>1. /\ handed = AddedPages /\ LoaderInv /\ FlagsInv /\ StoppedInv
        /\ OriginInv(FixedReserved, FixedKernel)
        /\ WellFormed(e820) /\ e820_count \in {Len(e820) - 2, Len(e820) - 1}
    BY <1>1 DEF Inv, LoaderInv
  <2>2. /\ e820_count \in Nat /\ e820_count < Len(e820) /\ Len(e820) \in Nat
        /\ e820_count >= 1 /\ Last \in Nat /\ MaxPages \in Nat
    BY <2>1, Counts, LayoutAssumption
  <2>3. /\ First(e820[k]) \in Nat /\ Limit(e820[k]) \in Nat /\ Limit(e820[k]) <= Last
    BY <2>1, <2>2, Spans, Ascending DEF Counted, Last
  <2>4. p \in Nat /\ p < Last /\ p < MaxPages
    BY <1>1, <2>2, <2>3 DEF Touched
  <2>5. nr_kpages = Min2(Last, MaxPages) /\ nr_kpages \in Nat /\ addr \in Nat
    BY <2>1 DEF FlagsInv
  <2>6. p \in Kpages /\ p < nr_kpages
    BY <2>2, <2>4, <2>5 DEF Min2, Kpages
  <2>7. p \in 0 .. kpage_last
    BY <2>1, <2>4, <2>5, <2>6 DEF StoppedInv
  <2>8. "RESERVED" \notin kp_flags[p] /\ "KERNEL" \notin kp_flags[p]
    BY <1>1, <2>1, <2>6 DEF OriginInv
  <2>9. kp_flags[p] = {}
    BY <2>1, <2>6, <2>8 DEF FlagsInv
  <2> QED BY <2>1, <2>6, <2>7, <2>9 DEF AddedPages, kpage_is_free
<1>2. Inv => AllFreeMemory
  BY <1>1 DEF AllFreeMemory
<1> QED BY <1>2, MemInvariance, PTL
=============================================================================
