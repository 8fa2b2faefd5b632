------------------------ MODULE MCInterruptRouting ------------------------
(***************************************************************************)
(* Small MADTs for InterruptRouting: an entry that is no override and two   *)
(* overrides in any order, among them the PIT's to pin 2 that most machines *)
(* have, two lines that change places, a line moved onto the keyboard's or  *)
(* to pin 15, one moved past the ISA pins, and a level-triggered line.      *)
(***************************************************************************)
EXTENDS InterruptRouting

SmallOverrides ==
    {[type |-> "override", source |-> s, gsi |-> g, level |-> FALSE] :
        s \in {0, 1, 9}, g \in {1, 2, 9, 15, 16}} \cup
    {[type |-> "override", source |-> 9, gsi |-> g, level |-> TRUE] : g \in {1, 9}} \cup
    {[type |-> "override", source |-> 9, gsi |-> 14, level |-> FALSE]}

SmallMadts ==
    {<<[type |-> "other"], e>> : e \in SmallOverrides} \cup
    {m \in {<<e, f>> : e \in SmallOverrides, f \in SmallOverrides} :
        m[1].source # m[2].source /\ m[1].gsi # m[2].gsi}

SmallDevices == {0, 9}
=============================================================================
