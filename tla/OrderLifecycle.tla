--------------------------- MODULE OrderLifecycle ---------------------------
(***************************************************************************)
(* What the production module promises of one production order, every      *)
(* operation in one indivisible step: the control rules of                 *)
(* docs/sop/production-operations-sop.md.  Production implements it when   *)
(* requests are served one at a time.                                      *)
(***************************************************************************)
EXTENDS Naturals

CONSTANTS Steps,    \* the order's operations
          Number,   \* [Steps -> Nat]
          Plan,     \* planned quantity
          Tickets   \* rework orders there may be

VARIABLES status,   \* of the order
          started, done,   \* operations started, completed
          total,    \* quantity logged
          open      \* rework orders not closed

vars == <<status, started, done, total, open>>

Earlier(p) == {q \in Steps : Number[q] < Number[p]}

Finished == done' = Steps /\ total' = Plan /\ open' = {}

Init ==
  /\ status = "Absent" /\ started = {} /\ done = {} /\ total = 0 /\ open = {}

Create == status = "Absent" /\ status' = "Draft" /\ UNCHANGED <<started, done, total, open>>
Release == status = "Draft" /\ status' = "Released" /\ UNCHANGED <<started, done, total, open>>
Begin == status = "Released" /\ status' = "InProgress" /\ UNCHANGED <<started, done, total, open>>

StartStep(p) ==
  /\ status \in {"Released", "InProgress"}
  /\ p \notin started
  /\ Earlier(p) \subseteq done
  /\ started' = started \cup {p}
  /\ status' = "InProgress"
  /\ UNCHANGED <<done, total, open>>

CompleteStep(p) ==
  /\ status = "InProgress"
  /\ p \in started \ done
  /\ done' = done \cup {p}
  /\ UNCHANGED <<started, total, open>>
  /\ status' = IF Finished THEN "Completed" ELSE "InProgress"

Complete ==
  /\ status \in {"Released", "InProgress"}
  /\ UNCHANGED <<started, done, total, open>>
  /\ Finished
  /\ status' = "Completed"

\* Output is logged at any time of the order's life, up to the plan.
Log ==
  /\ status # "Absent"
  /\ total' \in total..Plan
  /\ UNCHANGED <<status, started, done, open>>

\* Rework is opened, and closed, at any time.
Rework ==
  /\ status # "Absent"
  /\ \E r \in Tickets : open' = open \cup {r} \/ open' = open \ {r}
  /\ UNCHANGED <<status, started, done, total>>

Next == Create \/ Release \/ Begin \/ Complete \/ Log \/ Rework
        \/ \E p \in Steps : StartStep(p) \/ CompleteStep(p)

Spec == Init /\ [][Next]_vars
=============================================================================
