------------------------- MODULE LifecycleRefinement -------------------------
(***************************************************************************)
(* One order of Production as OrderLifecycle sees it: the refinement       *)
(* mapping that TLC checks on an instance and ProductionProofs proves.     *)
(***************************************************************************)
EXTENDS Production

CONSTANT TheOrder  \* any one order

Life == INSTANCE OrderLifecycle WITH
  Steps <- OpsOf(TheOrder), Number <- OpNumber, Plan <- Planned[TheOrder],
  Tickets <- 1..MaxReworks,
  status <- orderStatus[TheOrder],
  started <- {p \in OpsOf(TheOrder) : opStatus[p] # "Pending"},
  done <- {p \in OpsOf(TheOrder) : opStatus[p] = "Completed"},
  total <- logged[TheOrder],
  open <- {i \in DOMAIN reworks :
             OrderOf[reworks[i].op] = TheOrder /\ reworks[i].status # "Closed"}

\* One request at a time, the handlers carry out the indivisible operations
\* of the documented workflow, and no others, on every order there is.
ImplementsLifecycle == Life!Spec
=============================================================================
