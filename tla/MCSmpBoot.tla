---------------------------- MODULE MCSmpBoot ----------------------------
(* Machines for SmpBoot.                                                    *)
EXTENDS SmpBoot

(* where things lie when memory is small, only the users' frames beyond the *)
(* kernel's image, and the APICs have their usual addresses, which share a  *)
(* directory entry                                                          *)
Near == [p \in Pages |-> CASE p = "low" -> "low"
                           [] p = "frame" -> "heap"
                           [] p \in {"ioapic", "lapic"} -> "devices"
                           [] OTHER -> "kernel"]

(* when memory is large: kpages and the log are beyond the kernel's image,  *)
(* the ACPI tables at the end of memory                                     *)
Far == [Near EXCEPT !["tables"] = "heap", !["log"] = "heap",
                    !["rsdt"] = "acpi", !["table"] = "acpi"]

(* when the I/O APIC's address is beside the ACPI tables'; when the local   *)
(* APIC's base was moved there                                              *)
IoapicMoved == [Far EXCEPT !["ioapic"] = "acpi"]
LapicMoved == [Far EXCEPT !["lapic"] = "acpi", !["rsdt"] = "heap", !["table"] = "heap"]

Usual(entry) ==
    [acpi |-> TRUE, ioapic |-> TRUE, lapic |-> TRUE, table |-> "rsdt", entry |-> entry]

NoLapic(entry) == [Usual(entry) EXCEPT !.lapic = FALSE]

MCMachines ==
    {Usual(entry) : entry \in {Near, Far, IoapicMoved, LapicMoved}}
    \cup {NoLapic(Far), [Usual(Far) EXCEPT !.ioapic = FALSE], [Usual(Far) EXCEPT !.table = "table"],
          [NoLapic(Near) EXCEPT !.ioapic = FALSE, !.acpi = FALSE]}

MCNoLapic == {NoLapic(Near), NoLapic(Far)}
=============================================================================
