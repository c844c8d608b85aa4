---------------------------- MODULE MCProduction ----------------------------
(***************************************************************************)
(* Small instances of Production for TLC.                                  *)
(***************************************************************************)
EXTENDS LifecycleRefinement

CONSTANTS o1, p1, m1, c1

OneOrder == [p \in Ops |-> o1]
InTurn == [p \in Ops |-> IF p = p1 THEN 10 ELSE 20]
FirstOpOnMachine == [p \in Ops |-> IF p = p1 THEN m1 ELSE None]
OneCard == [o \in Orders |-> c1]
OffMachine == [p \in Ops |-> None]
PlanOne == [o \in Orders |-> 1]

-----------------------------------------------------------------------------
(* A scene: no inspection is failed or left open, no route card obsolete.  *)

PassingNext ==
  /\ Next
  /\ UNCHANGED plant
  /\ \A p \in Ops : \A i \in DOMAIN inspections'[p] : inspections'[p][i].result = "Pass"

PassingSpec == Init /\ [][PassingNext]_vars /\ Fairness
=============================================================================
