---------------------------- MODULE Maintenance ----------------------------
(***************************************************************************)
(* Machines, breakdowns and maintenance work orders:                       *)
(* app/modules/maintenance/services.py behind routers.py.                  *)
(*                                                                         *)
(* A request is two steps of its database session: the handler, which      *)
(* reads, checks and leaves in req[s] what it is about to write, and       *)
(* Commit.  A handler that raises writes nothing and is no step.  Nothing  *)
(* here locks what it reads.                                               *)
(***************************************************************************)
EXTENDS Naturals, Sequences, FiniteSets

CONSTANTS
  Sessions,      \* request sessions that may be open at once
  None,
  Machines,      \* machine codes clients give
  Breakdowns,    \* breakdown numbers clients give
  WorkOrders,    \* work order numbers: b itself stands for WO-b
  Verdicts,      \* breakdown statuses clients send with a completion
  MaxHistory     \* bound on the history rows of a machine

VARIABLES
  machines,    \* status of the maintenance_machines, None before the INSERT
  history,     \* per machine, its machine_histories, in id order
  breakdowns,  \* breakdown_reports by number, None before the INSERT
  workOrders,  \* maintenance_work_orders, in id order
  req,         \* per session, the request about to commit
  crossed      \* history: machines two requests dealt with at once

db == <<machines, history, breakdowns, workOrders>>
vars == <<db, req, crossed>>

MachineStatus == {"Active", "Inactive", "UnderMaintenance", "Decommissioned"}
BreakdownStatus == {"Open", "UnderInvestigation", "Assigned", "Resolved", "Closed"}
WorkOrderStatus == {"Created", "Completed"}   \* Created: any but Completed
Keep == "Keep"

MachineHistory == [from : MachineStatus \cup {None}, to : MachineStatus]
BreakdownReport == [machine : Machines, status : BreakdownStatus]
MaintenanceWorkOrder ==
  [number : WorkOrders, breakdown : Breakdowns, status : WorkOrderStatus]

Handlers == {"create_machine", "report_breakdown", "create_work_order", "complete_work_order"}

Request ==
  [ act : Handlers \cup {None}, machine : Machines \cup {None},
    from : MachineStatus \cup {None},
    to : MachineStatus \cup {Keep},               \* Keep: no write, no history row
    breakdown : Breakdowns \cup {None}, report : BreakdownStatus \cup {Keep},
    wo : MaintenanceWorkOrder \cup {None},       \* the row to insert
    completes : Nat ]                            \* the id of the row to complete

Idle == [ act |-> None, machine |-> None, from |-> None, to |-> Keep,
          breakdown |-> None, report |-> Keep, wo |-> None, completes |-> 0 ]

\* What the proofs assume of the constants: NULL is no value of a column, a
\* client sends breakdown statuses, and may give any breakdown's WO-number.
MaintenanceConstants ==
  /\ Verdicts \subseteq BreakdownStatus /\ Breakdowns \subseteq WorkOrders
  /\ None \notin Machines \cup Breakdowns \cup MachineStatus \cup Handlers
                 \cup BreakdownReport \cup MaintenanceWorkOrder

-----------------------------------------------------------------------------
TypeOK ==
  /\ machines \in [Machines -> MachineStatus \cup {None}]
  /\ history \in [Machines -> Seq(MachineHistory)]
  /\ breakdowns \in [Breakdowns -> BreakdownReport \cup {None}]
  /\ workOrders \in Seq(MaintenanceWorkOrder)
  /\ req \in [Sessions -> Request]
  /\ crossed \subseteq Machines

Init ==
  /\ machines = [m \in Machines |-> None]
  /\ history = [m \in Machines |-> <<>>]
  /\ breakdowns = [b \in Breakdowns |-> None]
  /\ workOrders = <<>>
  /\ req = [s \in Sessions |-> Idle]
  /\ crossed = {}

-----------------------------------------------------------------------------
(* The handlers, up to their commit.                                       *)

Pend(s, r) ==
  /\ req[s] = Idle
  /\ req' = [req EXCEPT ![s] = r]
  /\ UNCHANGED db

\* Mutant: the previous status is read after the new one is set.
ReadsBack(m, status) ==
  [machine |-> m, from |-> status, to |-> IF machines[m] = status THEN Keep ELSE status]

\* Mutant: only a machine that is Active is taken down.
SetsIfActive(m, status) ==
  [machine |-> m, from |-> machines[m], to |-> IF machines[m] # "Active" THEN Keep ELSE status]

\* _set_machine_status: nothing when the status read is the new one.
SetMachineStatus(m, status) ==
  [machine |-> m, from |-> machines[m], to |-> IF machines[m] = status THEN Keep ELSE status]

\* A request for a machine and one of its breakdowns.
OnMachine(act, change, b, report, w, completes) ==
  [ act |-> act, machine |-> change.machine, from |-> change.from, to |-> change.to,
    breakdown |-> b, report |-> report, wo |-> w, completes |-> completes ]

NewWorkOrder(n, b, status) == [number |-> n, breakdown |-> b, status |-> status]

Room(m) ==
  Len(history[m]) + Cardinality({s \in Sessions : req[s].machine = m}) < MaxHistory

CreateMachine(s) ==
  \E m \in Machines, status \in MachineStatus :
    Pend(s, [Idle EXCEPT !.act = "create_machine", !.machine = m, !.to = status])

\* A work order comes with every breakdown, in the same transaction; its number
\* is made of the breakdown's, and a client may have used it.
ReportBreakdown(s) ==
  \E m \in Machines, b \in Breakdowns :
    /\ machines[m] # None /\ Room(m)
    /\ Pend(s, OnMachine("report_breakdown", SetMachineStatus(m, "UnderMaintenance"),
                         b, "Assigned", NewWorkOrder(b, b, "Created"), 0))

\* The number and the status are the client's.
CreateWorkOrder(s) ==
  \E b \in Breakdowns, n \in WorkOrders, status \in WorkOrderStatus :
    /\ breakdowns[b] # None /\ Room(breakdowns[b].machine)
    /\ Pend(s, OnMachine("create_work_order",
                         SetMachineStatus(breakdowns[b].machine, "UnderMaintenance"),
                         b, IF breakdowns[b].status = "Open" THEN "Assigned" ELSE Keep,
                         NewWorkOrder(n, b, status), 0))

\* The client says what becomes of the breakdown; the machine is Active
\* whatever that is, and whatever else it is down for.
CompleteWorkOrder(s) ==
  \E i \in DOMAIN workOrders, verdict \in Verdicts :
    LET b == workOrders[i].breakdown IN
      /\ Room(breakdowns[b].machine)
      /\ Pend(s, OnMachine("complete_work_order",
                           SetMachineStatus(breakdowns[b].machine, "Active"), b,
                           IF breakdowns[b].status = verdict THEN Keep ELSE verdict, None, i))

-----------------------------------------------------------------------------
\* Mutant: the handler gets or creates, so that a row of another breakdown
\* with the number will do.
WorkOrderReused(r) ==
  CASE r.wo # None ->
         IF \E i \in DOMAIN workOrders : workOrders[i].number = r.wo.number
         THEN workOrders ELSE Append(workOrders, r.wo)
    [] r.act = "complete_work_order" -> [workOrders EXCEPT ![r.completes].status = "Completed"]
    [] OTHER -> workOrders

WorkOrdersAfter(r) ==
  CASE r.wo # None -> Append(workOrders, r.wo)
    [] r.act = "complete_work_order" -> [workOrders EXCEPT ![r.completes].status = "Completed"]
    [] OTHER -> workOrders

\* unique(machine_code), unique(breakdown_number), unique(work_order_number)
ConstraintFails(r) ==
  \/ r.act = "create_machine" /\ machines[r.machine] # None
  \/ r.act = "report_breakdown" /\ breakdowns[r.breakdown] # None
  \/ \E i, j \in DOMAIN WorkOrdersAfter(r) :
       i # j /\ WorkOrdersAfter(r)[i].number = WorkOrdersAfter(r)[j].number

Apply(r) ==
  /\ machines' = IF r.to = Keep THEN machines ELSE [machines EXCEPT ![r.machine] = r.to]
  /\ history' = IF r.to = Keep THEN history
                ELSE [history EXCEPT ![r.machine] = Append(@, [from |-> r.from, to |-> r.to])]
  /\ breakdowns' =
       CASE r.act = "report_breakdown" ->
              [breakdowns EXCEPT ![r.breakdown] = [machine |-> r.machine, status |-> r.report]]
         [] r.act # "report_breakdown" /\ r.report # Keep ->
              [breakdowns EXCEPT ![r.breakdown].status = r.report]
         [] OTHER -> breakdowns
  /\ workOrders' = WorkOrdersAfter(r)

Commit(s) ==
  /\ req[s] # Idle
  /\ IF ConstraintFails(req[s]) THEN UNCHANGED db ELSE Apply(req[s])
  /\ req' = [req EXCEPT ![s] = Idle]

\* The worker or its connection dies before the commit: a rollback.
Abort(s) ==
  /\ req[s] # Idle
  /\ req' = [req EXCEPT ![s] = Idle]
  /\ UNCHANGED db

Handle(s) == CreateMachine(s) \/ ReportBreakdown(s) \/ CreateWorkOrder(s) \/ CompleteWorkOrder(s)

Next ==
  /\ \E s \in Sessions : Handle(s) \/ Commit(s) \/ Abort(s)
  /\ crossed' = crossed \cup
       {m \in Machines : \E s, t \in Sessions :
                           s # t /\ req'[s].machine = m /\ req'[t].machine = m}

Spec == Init /\ [][Next]_vars

-----------------------------------------------------------------------------
\* The history of a machine that no two requests dealt with at once is a chain
\* of changes that ends in its status.
HistoryTellsStatus ==
  \A m \in Machines \ crossed : machines[m] # None =>
    /\ \A i \in 2..Len(history[m]) : history[m][i].from = history[m][i - 1].to
    /\ history[m] # <<>> /\ history[m][Len(history[m])].to = machines[m]

\* "Breakdown reporting auto-transitions machine status to UnderMaintenance"
\* (SOP), whatever it was, unless another request deals with the machine.
BreakdownStopsMachine ==
  [][\A b \in Breakdowns : breakdowns[b] = None /\ breakdowns'[b] # None =>
       LET m == breakdowns'[b].machine IN
         m \in crossed \/ machines'[m] = "UnderMaintenance"]_vars

\* Every breakdown has the work order of its own number, though a client may
\* have used that number for another one, and leaves the state Assigned only
\* with a work order of its own that is completed, however requests overlap.
EveryBreakdownHasWorkOrder ==
  \A b \in Breakdowns : breakdowns[b] # None =>
    /\ \E i \in DOMAIN workOrders : workOrders[i].number = b /\ workOrders[i].breakdown = b
    /\ breakdowns[b].status # "Assigned" =>
         \E i \in DOMAIN workOrders :
           workOrders[i].breakdown = b /\ workOrders[i].status = "Completed"
=============================================================================
