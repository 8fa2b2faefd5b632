----------------------------- MODULE MCMemInit -----------------------------
(***************************************************************************)
(* Small E820 maps for MemInit: low memory, then three entries that overlap *)
(* the one before by half a page, follow it directly or leave a gap, begin  *)
(* and end anywhere in a page or take half of one, and may lie beyond the   *)
(* supported memory.                                                        *)
(***************************************************************************)
EXTENDS MemInit

Low == [base |-> 0, length |-> 7, type |-> 1]

(* the entries that may follow the entry e *)
After(e) ==
    {[base |-> e.base + e.length + gap, length |-> length, type |-> type] :
        gap \in {-1, 0, 3}, length \in {1, 3, 6, 11}, type \in {1, 2}}

SmallMaps ==
    {map \in UNION {UNION {{<<Low, e, f, g>> : g \in After(f)} : f \in After(e)} :
                       e \in After(Low)} : WellFormed(map)}

BiosPages == {0, 2}
BootPages == {1}
=============================================================================
