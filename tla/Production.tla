----------------------------- MODULE Production -----------------------------
(***************************************************************************)
(* Production execution: app/services/production_service.py, together with *)
(* the two in-process inspection handlers of app/modules/quality/          *)
(* services.py that write the same rows.                                   *)
(*                                                                         *)
(* Every HTTP request owns one database session (app/db/session.py: no     *)
(* autoflush, READ COMMITTED).  A handler that reads before it writes is   *)
(* three steps of its session s:                                           *)
(*   Load   the rows named by id enter the identity map: what req[s] saw   *)
(*          is what the handler goes on using, however old it gets;        *)
(*   check  one action per handler: its queries and guards, which leave    *)
(*          the pending writes in req[s], or raise and end the request;    *)
(*   Commit flush and commit: only columns that differ from what was       *)
(*          loaded are written, whatever the row holds by now.             *)
(* Each statement that needs a row lock is a step of its own before that:  *)
(* the two SELECT ... FOR UPDATE of a log, and the UPDATEs of a flush.     *)
(* A handler that reads nothing it depends on is one step.                 *)
(***************************************************************************)
EXTENDS Naturals, Sequences, Functions

CONSTANTS
  Orders, Ops, Machines, RouteCards,
  Sessions,        \* request sessions that may be open at once
  None,
  OrderOf,         \* [Ops -> Orders]  production_order_id
  OpNumber,        \* [Ops -> Nat]     operation_number
  MachineOf,       \* [Ops -> Machines \cup {None}]  machine_id
  CardOf,          \* [Orders -> RouteCards]  route_card_id
  ActiveMachines,  \* machines whose is_active is set
  Planned,         \* [Orders -> Nat]  planned_quantity, in thousandths
  LogQuantities,   \* quantities a client may send, in ten-thousandths
  ClientTimes,     \* inspection_time values clients may send, 0 being before any
  MaxInspections, MaxReworks  \* bounds on rows created

ASSUME ProductionConstants ==
  /\ OrderOf \in [Ops -> Orders]
  /\ OpNumber \in [Ops -> Nat]
  /\ MachineOf \in [Ops -> Machines \cup {None}]
  /\ CardOf \in [Orders -> RouteCards]
  /\ ActiveMachines \subseteq Machines
  /\ Planned \in [Orders -> Nat \ {0}]
  /\ LogQuantities \subseteq Nat
  /\ ClientTimes \subseteq Nat
  /\ MaxInspections \in Nat /\ MaxReworks \in Nat
  /\ None \notin Machines \cup Ops \cup Orders \cup Sessions

VARIABLES
  orderStatus,       \* production_orders.status, "Absent" before the INSERT
  opStatus,          \* production_operations.status
  inspections,       \* per operation, its in_process_inspections in id order
  clock,             \* per operation, the server's time next to be written
  reworks,           \* rework_orders, in id order
  logged,            \* per order, SUM(produced + scrap), in thousandths
  fai,               \* operations that have an FAI trigger
  routeCard,         \* route_cards.status
  underMaintenance,  \* machines the maintenance module holds down
  req                \* per session, the request it is serving

db == <<orderStatus, opStatus, inspections, clock, reworks, logged, fai>>
plant == <<routeCard, underMaintenance>>
vars == <<db, plant, req>>

OrderStatus == {"Absent", "Draft", "Released", "InProgress", "Completed"}
OpStatus == {"Pending", "InProgress", "Completed"}
InspectionResult == {"Pending", "Pass", "Fail"}
Keep == "Keep"

\* time: inspection_time, or created_at where inspection_time is null (~timed).
Inspection == [result : InspectionResult, time : Nat, timed : BOOLEAN]
\* since: inspections the operation had when the rework order was created.
Rework == [op : Ops, status : {"Open", "Closed"}, since : Nat]

OrderRequests == {"create_production_order", "release_production_order",
                  "start_production_order", "complete_production_order"}
OpRequests == {"start_operation", "complete_operation"}
Handlers == OrderRequests \cup OpRequests \cup
  {"close_rework_order", "complete_inprocess_inspection", "record_production_log"}

\* The rows a request may lock: its order's, its operation's.
Rows == {"order", "op"}

Request ==
  [ act : Handlers \cup {"none"}, phase : {"idle", "waiting", "loaded", "decided"},
    order : Orders \cup {None}, op : Ops \cup {None},
    item : Nat, result : InspectionResult,             \* arguments
    sawOrder : OrderStatus, sawOp : OpStatus,          \* rows as loaded
    sawResult : InspectionResult, sawTimed : BOOLEAN,
    setOrder : OrderStatus \cup {Keep},                \* pending writes
    setBy : BOOLEAN,                                   \* the order's updated_by
    setOp : OpStatus \cup {Keep}, setFai : BOOLEAN,
    setResult : InspectionResult \cup {Keep}, setTime : Nat, amount : Nat,
    held : SUBSET Rows ]                               \* row locks

Idle == [ act |-> "none", phase |-> "idle", order |-> None, op |-> None,
          item |-> 0, result |-> "Pending",
          sawOrder |-> "Absent", sawOp |-> "Pending",
          sawResult |-> "Pending", sawTimed |-> FALSE,
          setOrder |-> Keep, setBy |-> FALSE, setOp |-> Keep, setFai |-> FALSE,
          setResult |-> Keep, setTime |-> 0, amount |-> 0, held |-> {} ]

-----------------------------------------------------------------------------
(* Queries of the service.                                                 *)

\* started_at is written by the same UPDATE that leaves Pending.
Started(status) == status # "Pending"

\* order_by(coalesce(inspection_time, created_at) desc, id desc)
IsLatest(rows, i) ==
  \A j \in DOMAIN rows :
    rows[j].time < rows[i].time \/ (rows[j].time = rows[i].time /\ j <= i)

LatestInspectionPassed(p) ==
  \E i \in DOMAIN inspections[p] :
    IsLatest(inspections[p], i) /\ inspections[p][i].result = "Pass"

OpsOf(o) == {p \in Ops : OrderOf[p] = o}

\* Mutant: a previous operation only has to be started.
PreviousOpsStarted(p) ==
  \A q \in OpsOf(OrderOf[p]) : OpNumber[q] < OpNumber[p] => opStatus[q] # "Pending"

\* _get_previous_incomplete_operation finds nothing
PreviousOpsCompleted(p) ==
  \A q \in OpsOf(OrderOf[p]) : OpNumber[q] < OpNumber[p] => opStatus[q] = "Completed"

\* Mutant: the query for open rework is left out.
NoReworkQuery(o) == FALSE

HasOpenRework(o) ==
  \E i \in DOMAIN reworks : OrderOf[reworks[i].op] = o /\ reworks[i].status # "Closed"

\* Mutants: the plan reached or passed; the quantities not compared at all.
ReadyOnceReached(o) == logged[o] >= Planned[o] /\ ~HasOpenRework(o)
ReadyUncounted(o) == ~HasOpenRework(o)

ReadyForCompletion(o) == logged[o] = Planned[o] /\ ~HasOpenRework(o)

\* Mutant: strictly before every operation, itself included.
IsFirstOpStrictly(p) == \A q \in OpsOf(OrderOf[p]) : OpNumber[p] < OpNumber[q]

IsFirstOp(p) == \A q \in OpsOf(OrderOf[p]) : OpNumber[p] <= OpNumber[q]

MachineActive(m) == m # None => m \in ActiveMachines

\* of an operation's own machine, if it has one
MachineAvailable(p) == MachineActive(MachineOf[p]) /\ MachineOf[p] \notin underMaintenance

\* What a Numeric(18, 3) column keeps of a quantity in ten-thousandths.
Stored(x) == (x + 5) \div 10
SubUnits == 10

(* Row locks, held until the request ends: FOR UPDATE of a log, and what   *)
(* an UPDATE takes (FOR NO KEY UPDATE).                                    *)

\* Mutant: the rows of a log are read without FOR UPDATE.
UpdatesLock(t, row, x) ==
  req[t].act # "record_production_log" /\ row \in req[t].held /\ req[t][row] = x

Locks(t, row, x) == row \in req[t].held /\ req[t][row] = x

\* An INSERT locks what it references FOR KEY SHARE: only FOR UPDATE conflicts.
LocksKey(t, row, x) == req[t].act = "record_production_log" /\ Locks(t, row, x)

\* Mutant: a log reads its operation before its order.
NeedsOrderLast(r) ==
  /\ "order" \notin r.held
  /\ \/ r.phase = "waiting" /\ "op" \in r.held
     \/ r.phase = "decided" /\ (r.setOrder # Keep \/ r.setBy)

\* What the next statement of a request locks: the order first, read by a log
\* or written by the flush, which sorts the tables by their foreign keys.
NeedsOrder(r) ==
  /\ "order" \notin r.held
  /\ \/ r.phase = "waiting"
     \/ r.phase = "decided" /\ (r.setOrder # Keep \/ r.setBy)

NeedsOp(r) ==
  /\ ~NeedsOrder(r) /\ "op" \notin r.held
  /\ r.phase = "waiting" \/ (r.phase = "decided" /\ r.setOp # Keep)

\* last, the INSERT of an FAI trigger, which references both
InsertsTrigger(r) == r.phase = "decided" /\ r.setFai /\ ~NeedsOrder(r) /\ ~NeedsOp(r)

\* Request s cannot go on before t ends.
WaitsFor(s, t) ==
  /\ s # t
  /\ \/ NeedsOrder(req[s]) /\ Locks(t, "order", req[s].order)
     \/ NeedsOp(req[s]) /\ Locks(t, "op", req[s].op)
     \/ InsertsTrigger(req[s]) /\ LocksKey(t, "order", req[s].order)

Blocked(s) == \E t \in Sessions : WaitsFor(s, t)

-----------------------------------------------------------------------------
TypeOK ==
  /\ orderStatus \in [Orders -> OrderStatus]
  /\ opStatus \in [Ops -> OpStatus]
  /\ inspections \in [Ops -> Seq(Inspection)]
  /\ clock \in [Ops -> Nat]
  /\ reworks \in Seq(Rework)
  /\ logged \in [Orders -> Nat]
  /\ fai \subseteq Ops
  /\ routeCard \in [RouteCards -> {"Released", "Obsolete"}]
  /\ underMaintenance \subseteq Machines
  /\ req \in [Sessions -> Request]

Init ==
  /\ orderStatus = [o \in Orders |-> "Absent"]
  /\ opStatus = [p \in Ops |-> "Pending"]
  /\ inspections = [p \in Ops |-> <<>>]
  /\ clock = [p \in Ops |-> 1]
  /\ reworks = <<>>
  /\ logged = [o \in Orders |-> 0]
  /\ fai = {}
  /\ routeCard = [c \in RouteCards |-> "Released"]
  /\ underMaintenance = {}
  /\ req = [s \in Sessions |-> Idle]

-----------------------------------------------------------------------------
(* Load: a request arrives and its rows are read by id.                    *)

Receive(s, r) ==
  /\ req[s] = Idle
  /\ req' = [req EXCEPT ![s] = r]
  /\ UNCHANGED <<db, plant>>

Loading(act, o, p) ==
  [Idle EXCEPT !.act = act, !.phase = "loaded", !.order = o, !.op = p,
               !.sawOrder = orderStatus[o],
               !.sawOp = IF p = None THEN "Pending" ELSE opStatus[p]]

Exists(o) == orderStatus[o] # "Absent"

LoadOrder(s) ==
  \E o \in Orders, act \in OrderRequests :
    /\ Exists(o) \/ act = "create_production_order"
    /\ Receive(s, Loading(act, o, None))

LoadOperation(s) ==
  \E p \in Ops, act \in OpRequests :
    /\ Exists(OrderOf[p])
    /\ Receive(s, Loading(act, OrderOf[p], p))

LoadRework(s) ==
  \E i \in DOMAIN reworks : LET p == reworks[i].op IN
    Receive(s, [Loading("close_rework_order", OrderOf[p], p) EXCEPT !.item = i])

LoadInspection(s) ==
  \E p \in Ops, result \in InspectionResult : \E i \in DOMAIN inspections[p] :
    Receive(s, [Loading("complete_inprocess_inspection", OrderOf[p], p)
                  EXCEPT !.item = i, !.result = result,
                         !.sawResult = inspections[p][i].result,
                         !.sawTimed = inspections[p][i].timed])

\* The client names the order and the operation of a log.
ReceiveLog(s) ==
  \E o \in Orders, p \in Ops :
    /\ Exists(o) /\ Exists(OrderOf[p])
    /\ Receive(s, [Idle EXCEPT !.act = "record_production_log", !.phase = "waiting",
                               !.order = o, !.op = p])

\* One SELECT ... FOR UPDATE, or one UPDATE of a flush; a log that has read
\* both rows goes on.
Lock(s, row) == LET r == req[s] IN
  /\ ~Blocked(s)
  /\ req' = [req EXCEPT ![s] =
       IF r.phase = "waiting" /\ r.held \cup {row} = Rows
       THEN [Loading(r.act, r.order, r.op) EXCEPT !.held = Rows]
       ELSE [r EXCEPT !.held = @ \cup {row}]]
  /\ UNCHANGED <<db, plant>>

LockOrder(s) == NeedsOrder(req[s]) /\ Lock(s, "order")
LockOperation(s) == NeedsOp(req[s]) /\ Lock(s, "op")

-----------------------------------------------------------------------------
(* Checks: either the pending writes r, or the error that ends the request. *)

Check(s, act, ok, r) ==
  /\ req[s].phase = "loaded"
  /\ req[s].act = act
  /\ req' = [req EXCEPT ![s] = IF ok THEN [r EXCEPT !.phase = "decided"] ELSE Idle]
  /\ UNCHANGED <<db, plant>>

\* Mutant: an unchanged status is written as NULL.
WriteNull(saw, new) == IF new = saw THEN None ELSE new

\* The ORM writes a column only where it differs from the one loaded.
Write(saw, new) == IF new = saw THEN Keep ELSE new

CardReleased(o) == routeCard[CardOf[o]] = "Released"

CreateProductionOrder(s) == LET r == req[s] IN
  Check(s, "create_production_order",
        r.sawOrder = "Absent" /\ CardReleased(r.order),
        [r EXCEPT !.setOrder = "Draft"])

ReleaseProductionOrder(s) == LET r == req[s] IN
  Check(s, "release_production_order",
        CardReleased(r.order) /\ r.sawOrder = "Draft",
        [r EXCEPT !.setOrder = "Released"])

StartProductionOrder(s) == LET r == req[s] IN
  Check(s, "start_production_order",
        CardReleased(r.order) /\ r.sawOrder \notin {"Draft", "Completed"},
        [r EXCEPT !.setOrder = Write(r.sawOrder, "InProgress")])

CompleteProductionOrder(s) == LET r == req[s] IN
  Check(s, "complete_production_order",
        /\ r.sawOrder \notin {"Draft", "Completed"}
        /\ \A p \in OpsOf(r.order) : opStatus[p] = "Completed"
        /\ ReadyForCompletion(r.order),
        [r EXCEPT !.setOrder = "Completed"])

StartOperation(s) == LET r == req[s] IN
  Check(s, "start_operation",
        /\ CardReleased(r.order)
        /\ r.sawOrder \notin {"Draft", "Completed"}
        /\ r.sawOp # "Completed"
        /\ MachineAvailable(r.op)
        /\ PreviousOpsCompleted(r.op),
        [r EXCEPT !.setOp = Write(r.sawOp, "InProgress"),
                  !.setOrder = Write(r.sawOrder, "InProgress")])

\* The order's own status is not a guard; the completed operation is still
\* unflushed, so the query for open operations leaves it out by id.  The
\* order's updated_by differs unless the same user wrote it last.
CompleteOperation(s) == LET r == req[s]
                            noOtherOpen == \A q \in OpsOf(r.order) \ {r.op} :
                                             opStatus[q] = "Completed"
                            next == IF noOtherOpen /\ ReadyForCompletion(r.order)
                                    THEN "Completed" ELSE "InProgress" IN
  \E by \in BOOLEAN :
    Check(s, "complete_operation",
          /\ r.sawOp # "Completed" /\ Started(r.sawOp)
          /\ LatestInspectionPassed(r.op),
          [r EXCEPT !.setOp = "Completed",
                    !.setOrder = Write(r.sawOrder, next), !.setBy = by,
                    !.setFai = IsFirstOp(r.op) /\ r.op \notin fai])

CloseReworkOrder(s) == LET r == req[s] IN
  Check(s, "close_rework_order",
        reworks[r.item].status # "Closed" /\ LatestInspectionPassed(r.op), r)

\* Mutant: the quality handler does not look at the operation.
JudgeUnguarded(s) == LET r == req[s] IN
  Check(s, "complete_inprocess_inspection", r.result # "Pending",
        [r EXCEPT !.setResult = Write(r.sawResult, r.result)])

\* The quality module's handler: any inspection, judged before or not.
CompleteInprocessInspection(s) == LET r == req[s] IN
  Check(s, "complete_inprocess_inspection",
        /\ r.result # "Pending"
        /\ r.sawOp = "Completed" => r.result = "Pass",
        [r EXCEPT !.setResult = Write(r.sawResult, r.result),
                  !.setTime = IF r.sawTimed THEN 0 ELSE clock[r.op]])

WithinPlan(o, produced, scrap) ==
  logged[o] * SubUnits + produced + scrap <= Planned[o] * SubUnits

\* The limit is checked on the quantities as sent, the column keeps them
\* rounded, each on its own.  The client may name a machine in place of the
\* operation's.
RecordProductionLog(s) == LET r == req[s] IN
  \E produced, scrap \in LogQuantities, m \in Machines \cup {None} :
    Check(s, "record_production_log",
          /\ OrderOf[r.op] = r.order
          /\ produced + scrap > 0
          /\ WithinPlan(r.order, produced, scrap)
          /\ MachineActive(IF m = None THEN MachineOf[r.op] ELSE m),
          [r EXCEPT !.amount = Stored(produced) + Stored(scrap)])

-----------------------------------------------------------------------------
(* Commit: the pending writes of one request, all or none.                 *)

\* unique(production_order_number), unique(order, operation) of the FAI
\* trigger, and CHECK (produced_quantity + scrap_quantity > 0).
ConstraintFails(r) ==
  \/ (r.act = "create_production_order" /\ Exists(r.order))
  \/ (r.setFai /\ r.op \in fai)
  \/ (r.act = "record_production_log" /\ r.amount = 0)

\* inspection_time is written only where the loaded row had none.
After(now, time) == IF time >= now THEN time + 1 ELSE now

Judged(row, r) ==
  [row EXCEPT !.result = IF r.setResult = Keep THEN @ ELSE r.setResult, !.timed = TRUE,
              !.time = IF r.setTime = 0 THEN @ ELSE r.setTime]

Apply(r) ==
  /\ orderStatus' = IF r.setOrder = Keep THEN orderStatus
                    ELSE [orderStatus EXCEPT ![r.order] = r.setOrder]
  /\ opStatus' = IF r.setOp = Keep THEN opStatus
                 ELSE [opStatus EXCEPT ![r.op] = r.setOp]
  /\ fai' = IF r.setFai THEN fai \cup {r.op} ELSE fai
  /\ logged' = IF r.act = "record_production_log"
               THEN [logged EXCEPT ![r.order] = @ + r.amount] ELSE logged
  /\ reworks' = IF r.act = "close_rework_order"
                THEN [reworks EXCEPT ![r.item].status = "Closed"] ELSE reworks
  /\ inspections' = IF r.act = "complete_inprocess_inspection"
                    THEN [inspections EXCEPT ![r.op][r.item] = Judged(@, r)]
                    ELSE inspections
  /\ clock' = IF r.setTime = 0 THEN clock ELSE [clock EXCEPT ![r.op] = After(@, r.setTime)]

Commit(s) ==
  /\ req[s].phase = "decided"
  /\ ~NeedsOrder(req[s]) /\ ~NeedsOp(req[s]) /\ ~Blocked(s)
  /\ IF ConstraintFails(req[s]) THEN UNCHANGED db ELSE Apply(req[s])
  /\ req' = [req EXCEPT ![s] = Idle]
  /\ UNCHANGED plant

\* A rollback: the worker or its connection dies before the commit, or
\* PostgreSQL ends a deadlock.
Abort(s) ==
  /\ req[s] # Idle
  /\ req' = [req EXCEPT ![s] = Idle]
  /\ UNCHANGED <<db, plant>>

-----------------------------------------------------------------------------
(* Handlers in one step: they insert, and read nothing they depend on.     *)

\* The INSERTs reference the operation row and wait for a log to release it.
Insertable(s, p) ==
  req[s] = Idle /\ Exists(OrderOf[p]) /\ \A t \in Sessions : ~LocksKey(t, "op", p)

InspectionCount == FoldFunction(LAMBDA rows, n : Len(rows) + n, 0, inspections)

InsertInspection(p, result, time, timed) ==
  /\ InspectionCount < MaxInspections
  /\ inspections' = [inspections EXCEPT ![p] =
       Append(@, [result |-> result, time |-> time, timed |-> timed])]
  /\ clock' = [clock EXCEPT ![p] = @ + 1]

OpenRework(p, since) ==
  /\ Len(reworks) < MaxReworks
  /\ reworks' = Append(reworks, [op |-> p, status |-> "Open", since |-> since])

\* A Pass or Fail without inspection_time gets now; a Pending keeps null.
RecordInprocessInspection(s) ==
  \E p \in Ops, result \in InspectionResult :
    /\ Insertable(s, p)
    /\ \/ InsertInspection(p, result, clock[p], result # "Pending")
       \/ \E t \in ClientTimes : InsertInspection(p, result, t, TRUE)
    /\ IF result = "Fail" THEN OpenRework(p, Len(inspections'[p])) ELSE UNCHANGED reworks
    /\ UNCHANGED <<orderStatus, opStatus, logged, fai, plant, req>>

\* The quality module's handler.
CreateInprocessInspection(s) ==
  \E p \in Ops :
    /\ Insertable(s, p)
    /\ InsertInspection(p, "Pending", clock[p], TRUE)
    /\ UNCHANGED <<orderStatus, opStatus, reworks, logged, fai, plant, req>>

CreateReworkOrder(s) ==
  \E p \in Ops :
    /\ Insertable(s, p)
    /\ OpenRework(p, Len(inspections[p]))
    /\ UNCHANGED <<orderStatus, opStatus, inspections, clock, logged, fai, plant, req>>

(* Other modules' requests, as far as this one reads what they write.      *)

MarkObsolete(s) ==
  \E c \in RouteCards :
    /\ req[s] = Idle /\ routeCard[c] = "Released"
    /\ routeCard' = [routeCard EXCEPT ![c] = "Obsolete"]
    /\ UNCHANGED <<db, underMaintenance, req>>

ReportBreakdown(s) ==
  \E m \in Machines :
    /\ req[s] = Idle /\ m \notin underMaintenance
    /\ underMaintenance' = underMaintenance \cup {m}
    /\ UNCHANGED <<db, routeCard, req>>

ReturnToService(s) ==
  \E m \in underMaintenance :
    /\ req[s] = Idle
    /\ underMaintenance' = underMaintenance \ {m}
    /\ UNCHANGED <<db, routeCard, req>>

-----------------------------------------------------------------------------
Load(s) ==
  \/ LoadOrder(s) \/ LoadOperation(s) \/ LoadRework(s)
  \/ LoadInspection(s) \/ ReceiveLog(s)

Decide(s) ==
  \/ CreateProductionOrder(s) \/ ReleaseProductionOrder(s)
  \/ StartProductionOrder(s) \/ CompleteProductionOrder(s)
  \/ StartOperation(s) \/ CompleteOperation(s)
  \/ CloseReworkOrder(s) \/ CompleteInprocessInspection(s)
  \/ RecordProductionLog(s)

Insert(s) ==
  \/ RecordInprocessInspection(s) \/ CreateInprocessInspection(s)
  \/ CreateReworkOrder(s)

Elsewhere(s) == MarkObsolete(s) \/ ReportBreakdown(s) \/ ReturnToService(s)

Next == \E s \in Sessions :
  \/ Load(s) \/ LockOrder(s) \/ LockOperation(s) \/ Decide(s) \/ Commit(s)
  \/ Abort(s) \/ Insert(s) \/ Elsewhere(s)

Spec == Init /\ [][Next]_vars

\* A handler runs on until it raises or commits; PostgreSQL queues the
\* waiters for a row lock, so one that waits is served in the end.
Fairness == \A s \in Sessions :
  /\ WF_vars(Decide(s))
  /\ SF_vars(LockOrder(s)) /\ SF_vars(LockOperation(s)) /\ SF_vars(Commit(s))
FairSpec == Spec /\ Fairness

-----------------------------------------------------------------------------
(* Whatever the interleaving of the requests.                              *)

\* "Production log totals cannot exceed planned quantity" (SOP), however many
\* logs run at once, if every quantity sent is one its column holds exactly.
LoggedWithinPlan == \A o \in Orders : logged[o] <= Planned[o]

\* Of any quantities: each column rounds its half up after the check, which
\* takes the total past the plan by one thousandth and no further.
LoggedOvershootBounded == \A o \in Orders : logged[o] <= Planned[o] + 1

\* An order is Completed only with exactly the planned quantity logged, even
\* though neither complete handler locks anything and a log may be in flight.
CompletedReconciled ==
  \A o \in Orders : orderStatus[o] = "Completed" => logged[o] = Planned[o]

\* No log reaches an order once it is Completed: record_production_log does
\* not read the status, the reconciled total is what keeps it out.
CompletedFreezesLog ==
  [][\A o \in Orders : orderStatus[o] = "Completed" => logged'[o] = logged[o]]_vars

\* A completed first operation has its FAI trigger, whichever of several
\* racing completions created it.
FirstOpHasFai ==
  \A p \in Ops :
    /\ opStatus[p] = "Completed"
    /\ \A q \in Ops \ {p} : OrderOf[q] = OrderOf[p] => OpNumber[p] < OpNumber[q]
    => p \in fai

Circle(c) == c # {} /\ \A s \in c : \E t \in c : WaitsFor(s, t)

\* Requests wait for one another in a circle only where one of them is about
\* to insert an FAI trigger: a complete_operation that had nothing to write to
\* the order has locked its operation only, and then needs the order, which a
\* log locks first.  All other statements lock in one order.
DeadlockNeedsTrigger ==
  \A c \in SUBSET Sessions : Circle(c) => \E s \in c : InsertsTrigger(req[s])

\* Every request raises, commits or rolls back, unless it comes to that
\* deadlock, which PostgreSQL has to end: no other wait is for ever.
TriggerDeadlock ==
  \E c \in SUBSET Sessions : Circle(c) /\ \E s \in c : InsertsTrigger(req[s])
RequestsFinish == \A s \in Sessions : req[s] # Idle ~> req[s] = Idle \/ TriggerDeadlock

(* With one request at a time only.                                        *)

\* An operation has left Pending only with every lower operation completed.
SequenceControlled ==
  \A p, q \in Ops :
    /\ OrderOf[p] = OrderOf[q] /\ OpNumber[q] < OpNumber[p]
    /\ opStatus[p] # "Pending"
    => opStatus[q] = "Completed"

\* "Production operation cannot close without Pass inspection" (the quality
\* handler's refusal): no later judgement takes the last Pass away.
CompletedOpHasPass ==
  \A p \in Ops : opStatus[p] = "Completed" =>
    \E i \in DOMAIN inspections[p] : inspections[p][i].result = "Pass"

(* What the documents say and the code does not keep.                      *)

\* "Failed in-process inspection auto-creates a rework order": whichever
\* handler records the failure.
FailedInspectionHasRework ==
  \A p \in Ops :
    (\E i \in DOMAIN inspections[p] : inspections[p][i].result = "Fail")
    => \E j \in DOMAIN reworks : reworks[j].op = p

\* "Rework order closure requires a later passed inspection."
ReworkClosedByLaterPass ==
  \A j \in DOMAIN reworks : reworks[j].status = "Closed" =>
    \E i \in DOMAIN inspections[reworks[j].op] :
      inspections[reworks[j].op][i].result = "Pass" /\ i > reworks[j].since

\* "Completed operation cannot be started again": it stays Completed.
CompletedOpStays ==
  [][\A p \in Ops : opStatus[p] = "Completed" => opStatus'[p] = "Completed"]_vars
=============================================================================
