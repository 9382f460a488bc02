----------------------------- MODULE MCSnapshot -----------------------------
(***************************************************************************)
(* Instances of Snapshot: a1 and a2 differ in volatile fields only.  Each  *)
(* engine alone, inventory with faults, inventory in two processes.        *)
(***************************************************************************)
EXTENDS Snapshot

CONSTANTS a1, a2, b, inventory, software, svc, cmd

Hash == [v \in {a1, a2, b} |-> IF v = b THEN 2 ELSE 1]

Scene(kind, runs, faults, values, c, h, q) ==
    [kind |-> kind, runs |-> runs, faults |-> faults, values |-> values,
     maxChanges |-> c, maxHistory |-> h, maxQueued |-> q]

FaultScenario == {Scene(inventory, {svc}, TRUE, {a1, b}, 2, 1, 1)}
AllScenarios == FaultScenario \cup
    {Scene(inventory, {svc}, FALSE, Values, 3, 4, 2),
     Scene(software, {svc}, FALSE, Values, 3, 4, 2),
     Scene(inventory, {svc, cmd}, FALSE, {a1, b}, 1, 2, 1)}
=============================================================================
