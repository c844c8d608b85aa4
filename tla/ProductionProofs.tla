-------------------------- MODULE ProductionProofs --------------------------
(***************************************************************************)
(* Proofs about Production, for every number of sessions, orders,          *)
(* operations and quantities.                                              *)
(***************************************************************************)
EXTENDS LifecycleRefinement, SequenceTheorems, TLAPS

-----------------------------------------------------------------------------
(* The inductive invariant.                                                *)

\* A log reads with both its rows locked, the other requests with none; and who
\* holds an operation has no order left to lock.
LocksInOrder(r) ==
  /\ r.act = "record_production_log" /\ r.phase # "waiting" => r.held = Rows
  /\ r.phase = "loaded" => r.held \in {{}, Rows}
  /\ "op" \in r.held => ~NeedsOrder(r)

\* What every request in progress names exists.
Wellformed(r) ==
  /\ r.phase = "idle" => r = Idle
  /\ r.phase # "idle" => r.order \in Orders
  /\ r.phase # "idle" /\ r.act \notin OrderRequests => r.op \in Ops
  /\ r.phase = "waiting" => r.act = "record_production_log"
  /\ r.phase \in {"waiting", "loaded"} => r.setOrder = Keep /\ r.setOp = Keep /\ ~r.setFai
  /\ r.act \in OrderRequests => r.setOp = Keep /\ ~r.setFai /\ r.setTime = 0
  /\ r.act = "close_rework_order" => r.item \in DOMAIN reworks
  /\ r.act = "complete_inprocess_inspection" => r.item \in DOMAIN inspections[r.op]
  /\ LocksInOrder(r)

RequestsWellformed == \A s \in Sessions : Wellformed(req[s])

TypeInv == TypeOK /\ RequestsWellformed

\* A log that has its order, FOR UPDATE: one per order.
Logging(s) == req[s].act = "record_production_log" /\ "order" \in req[s].held

LockExclusive ==
  \A s, t \in Sessions :
    s # t /\ Logging(s) /\ Logging(t) => req[s].order # req[t].order

\* Quantities a client sends are often representable in their column; the
\* total can then not pass the plan, and otherwise by one thousandth.
Representable == \A q \in LogQuantities : Stored(q) * SubUnits = q
Slack == IF Representable THEN 0 ELSE 1

LoggedWithinSlack == \A o \in Orders : logged[o] <= Planned[o] + Slack

\* The order of a checked log is short of its plan, and its amount fits.
CheckedLogFits ==
  \A s \in Sessions : Logging(s) /\ req[s].phase = "decided" =>
    /\ logged[req[s].order] < Planned[req[s].order]
    /\ logged[req[s].order] + req[s].amount <= Planned[req[s].order] + Slack

\* The order of a checked completion has its plan logged, still.
CheckedCompletionReconciled ==
  \A s \in Sessions : req[s].setOrder = "Completed" =>
    logged[req[s].order] = Planned[req[s].order]

QuantityInv ==
  /\ TypeInv /\ LockExclusive /\ CheckedLogFits /\ CheckedCompletionReconciled
  /\ LoggedWithinSlack /\ CompletedReconciled

-----------------------------------------------------------------------------
LEMMA IdleType == Idle \in Request /\ Wellformed(Idle)
  BY DEF Idle, Request, Wellformed, OrderRequests, Handlers, OpRequests, InspectionResult,
     OrderStatus, OpStatus, Keep, LocksInOrder

LEMMA InitTypeInv == ASSUME Init PROVE TypeInv
<1>1. TypeOK
  BY ProductionConstants, IdleType DEF Init, TypeOK, OrderStatus, OpStatus
<1>2. RequestsWellformed
  BY IdleType DEF Init, RequestsWellformed
<1> QED BY <1>1, <1>2 DEF TypeInv

LEMMA ReceiveTypeInv ==
  ASSUME TypeInv, NEW s \in Sessions, NEW r \in Request, Wellformed(r), Receive(s, r)
  PROVE  TypeInv'
<1>1. TypeOK'
  BY DEF TypeInv, TypeOK, Receive, db, plant
<1>2. RequestsWellformed'
  BY DEF TypeInv, TypeOK, RequestsWellformed, Wellformed, Receive, db, plant
<1> QED BY <1>1, <1>2 DEF TypeInv

LEMMA CheckTypeInv ==
  ASSUME TypeInv, NEW s \in Sessions, NEW act, NEW ok, NEW r \in Request,
         r.act = req[s].act, r.order = req[s].order, r.op = req[s].op, r.item = req[s].item,
         r.held = req[s].held,
         act \in OrderRequests => r.setOp = Keep /\ ~r.setFai /\ r.setTime = 0,
         Check(s, act, ok, r)
  PROVE  TypeInv'
<1> DEFINE d == [r EXCEPT !.phase = "decided"]
<1>0. /\ d \in Request /\ d.phase = "decided" /\ d.act = req[s].act /\ d.held = req[s].held
      /\ d.order = req[s].order /\ d.op = req[s].op /\ d.item = req[s].item
      /\ d.setOp = r.setOp /\ d.setFai = r.setFai /\ d.setTime = r.setTime
  BY DEF Request
<1>1. d \in Request /\ Wellformed(d)
  <2>0. Wellformed(req[s]) /\ req[s].phase = "loaded" /\ req[s].act = act
    BY DEF TypeInv, RequestsWellformed, Check
  <2> HIDE DEF d
  <2>1. LocksInOrder(d)
    BY <1>0, <2>0 DEF Wellformed, LocksInOrder, NeedsOrder, Rows
  <2> QED BY <1>0, <2>0, <2>1 DEF Wellformed
<1>2. req' = [req EXCEPT ![s] = IF ok THEN d ELSE Idle] /\ UNCHANGED <<db, plant>>
  BY DEF Check
<1>3. TypeOK'
  BY <1>1, <1>2, IdleType DEF TypeInv, TypeOK, db, plant
<1>4. RequestsWellformed'
  BY <1>1, <1>2, IdleType DEF TypeInv, TypeOK, RequestsWellformed, Wellformed, db, plant
<1> QED BY <1>3, <1>4 DEF TypeInv

LEMMA LoadingType ==
  ASSUME TypeOK, NEW act \in Handlers, NEW o \in Orders, NEW p \in Ops \cup {None}
  PROVE  LET r == Loading(act, o, p) IN
         /\ r \in Request
         /\ r.act = act /\ r.phase = "loaded" /\ r.order = o /\ r.op = p
         /\ r.setOrder = Keep /\ r.setOp = Keep /\ ~r.setFai /\ r.setTime = 0
<1>1. orderStatus[o] \in OrderStatus /\ (p # None => opStatus[p] \in OpStatus)
  BY ProductionConstants DEF TypeOK
<1>2. PICK so \in OrderStatus, sp \in OpStatus :
        Loading(act, o, p) = [Idle EXCEPT !.act = act, !.phase = "loaded",
          !.order = o, !.op = p, !.sawOrder = so, !.sawOp = sp]
  BY <1>1 DEF Loading, OpStatus
<1>3. Loading(act, o, p) \in Request
  <2> DEFINE l == [Idle EXCEPT !.act = act, !.phase = "loaded", !.order = o]
  <2>1. l \in Request
    BY IdleType DEF Request
  <2>2. Loading(act, o, p) = [l EXCEPT !.op = p, !.sawOrder = so, !.sawOp = sp]
    BY <1>2 DEF Idle
  <2> HIDE DEF l
  <2> QED BY <2>1, <2>2 DEF Request
<1> QED BY <1>2, <1>3 DEF Idle

LEMMA LoadingUnlocked == \A act, o, p : Loading(act, o, p).held = {}
  BY DEF Loading, Idle

LEMMA UnlockedInOrder ==
  ASSUME NEW r, r.phase = "loaded" /\ r.act # "record_production_log" /\ r.held = {}
  PROVE  LocksInOrder(r)
  BY DEF LocksInOrder

LEMMA RowType ==
  ASSUME NEW S, NEW rows \in Seq(S), NEW i \in DOMAIN rows
  PROVE  i \in Nat /\ rows[i] \in S
  OBVIOUS

LEMMA ArgumentsType ==
  ASSUME NEW r \in Request, NEW i \in Nat, NEW res \in InspectionResult,
         NEW saw \in InspectionResult, NEW b \in BOOLEAN
  PROVE  /\ [r EXCEPT !.item = i] \in Request
         /\ [r EXCEPT !.item = i, !.result = res, !.sawResult = saw, !.sawTimed = b] \in Request
  BY DEF Request

LEMMA LoadTypeInv ==
  ASSUME TypeInv, NEW s \in Sessions, Load(s)
  PROVE  TypeInv'
<1> USE DEF TypeInv
<1>1. CASE LoadOrder(s)
  <2> PICK o \in Orders, act \in OrderRequests : Receive(s, Loading(act, o, None))
    BY <1>1 DEF LoadOrder
  <2>1. Loading(act, o, None) \in Request /\ Wellformed(Loading(act, o, None))
    BY LoadingType, LoadingUnlocked DEF Handlers, OrderRequests, Wellformed, LocksInOrder
  <2> QED BY <2>1, ReceiveTypeInv
<1>2. CASE LoadOperation(s)
  <2> PICK p \in Ops, act \in OpRequests : Receive(s, Loading(act, OrderOf[p], p))
    BY <1>2 DEF LoadOperation
  <2>1. OrderOf[p] \in Orders
    BY ProductionConstants
  <2> DEFINE l == Loading(act, OrderOf[p], p)
  <2>2. /\ l \in Request /\ l.act = act /\ l.order = OrderOf[p] /\ l.op = p
        /\ l.setOrder = Keep /\ l.setOp = Keep /\ ~l.setFai /\ l.setTime = 0
        /\ l.held = {}
    BY <2>1, LoadingType, LoadingUnlocked DEF Handlers
  <2>3. Receive(s, l) /\ l.phase = "loaded"
    BY <2>1, LoadingType DEF Handlers
  <2> HIDE DEF l
  <2>4. Wellformed(l)
    BY <2>1, <2>2, <2>3, UnlockedInOrder DEF Wellformed, OpRequests, OrderRequests
  <2> QED BY <2>2, <2>3, <2>4, ReceiveTypeInv
<1>3. CASE LoadRework(s)
  <2> PICK i \in DOMAIN reworks :
        Receive(s, [Loading("close_rework_order", OrderOf[reworks[i].op], reworks[i].op)
                      EXCEPT !.item = i])
    BY <1>3 DEF LoadRework
  <2> DEFINE p == reworks[i].op
             l == Loading("close_rework_order", OrderOf[p], p)
             r == [l EXCEPT !.item = i]
  <2>1. i \in Nat /\ p \in Ops /\ OrderOf[p] \in Orders
    <3>1. i \in Nat /\ reworks[i] \in Rework
      BY RowType DEF TypeOK
    <3> QED BY <3>1, ProductionConstants DEF Rework
  <2>2. /\ l \in Request /\ l.act = "close_rework_order" /\ l.phase = "loaded"
        /\ l.order = OrderOf[p] /\ l.op = p
        /\ l.setOrder = Keep /\ l.setOp = Keep /\ ~l.setFai /\ l.held = {}
    BY <2>1, LoadingType, LoadingUnlocked DEF Handlers
  <2>3. r \in Request
    BY <2>1, <2>2, ArgumentsType DEF InspectionResult
  <2>4. Wellformed(r)
    <3> HIDE DEF l, p
    <3> QED BY <2>1, <2>2, UnlockedInOrder DEF Wellformed, OrderRequests, Request
  <2> QED BY <2>3, <2>4, ReceiveTypeInv
<1>4. CASE LoadInspection(s)
  <2> PICK p \in Ops, result \in InspectionResult : \E i \in DOMAIN inspections[p] :
        Receive(s, [Loading("complete_inprocess_inspection", OrderOf[p], p)
                      EXCEPT !.item = i, !.result = result,
                             !.sawResult = inspections[p][i].result,
                             !.sawTimed = inspections[p][i].timed])
    BY <1>4 DEF LoadInspection
  <2> PICK i \in DOMAIN inspections[p] :
        Receive(s, [Loading("complete_inprocess_inspection", OrderOf[p], p)
                      EXCEPT !.item = i, !.result = result,
                             !.sawResult = inspections[p][i].result,
                             !.sawTimed = inspections[p][i].timed])
    OBVIOUS
  <2> DEFINE l == Loading("complete_inprocess_inspection", OrderOf[p], p)
             r == [l EXCEPT !.item = i, !.result = result,
                            !.sawResult = inspections[p][i].result,
                            !.sawTimed = inspections[p][i].timed]
  <2>1. /\ i \in Nat /\ inspections[p][i].timed \in BOOLEAN /\ OrderOf[p] \in Orders
        /\ inspections[p][i].result \in InspectionResult
    <3>1. inspections[p] \in Seq(Inspection)
      BY DEF TypeOK
    <3>2. i \in Nat /\ inspections[p][i] \in Inspection
      BY <3>1, RowType
    <3> QED BY <3>2, ProductionConstants DEF Inspection
  <2>2. /\ l \in Request /\ l.act = "complete_inprocess_inspection" /\ l.phase = "loaded"
        /\ l.order = OrderOf[p] /\ l.op = p
        /\ l.setOrder = Keep /\ l.setOp = Keep /\ ~l.setFai /\ l.held = {}
    BY <2>1, LoadingType, LoadingUnlocked DEF Handlers
  <2>3. r \in Request
    BY <2>1, <2>2, ArgumentsType
  <2>4. Wellformed(r)
    <3> HIDE DEF l
    <3> QED BY <2>1, <2>2, UnlockedInOrder DEF Wellformed, OrderRequests, Request
  <2> QED BY <2>3, <2>4, ReceiveTypeInv
<1>5. CASE ReceiveLog(s)
  <2> PICK o \in Orders, p \in Ops :
        Receive(s, [Idle EXCEPT !.act = "record_production_log", !.phase = "waiting",
                                !.order = o, !.op = p])
    BY <1>5 DEF ReceiveLog
  <2> DEFINE r == [Idle EXCEPT !.act = "record_production_log", !.phase = "waiting",
                               !.order = o, !.op = p]
  <2>1. r \in Request
    BY IdleType DEF Request, Handlers
  <2>2. Wellformed(r)
    BY DEF Idle, Wellformed, LocksInOrder, OrderRequests
  <2> QED BY <2>1, <2>2, ReceiveTypeInv
<1> QED BY <1>1, <1>2, <1>3, <1>4, <1>5 DEF Load

\* What a lock does to the requests: a log that has read both its rows goes on,
\* any other request only holds one more.
LockDone(s, row, x) ==
  /\ req' = [req EXCEPT ![s] = x] /\ UNCHANGED <<db, plant>>
  /\ x \in Request /\ Wellformed(x)
  /\ x.act = req[s].act /\ x.order = req[s].order /\ x.op = req[s].op
  /\ x.setOrder = req[s].setOrder /\ x.setOp = req[s].setOp /\ x.setFai = req[s].setFai
  /\ x.held = req[s].held \cup {row}
  /\ \/ x = [Loading(req[s].act, req[s].order, req[s].op) EXCEPT !.held = Rows]
        /\ req[s].phase = "waiting" /\ x.phase = "loaded"
     \/ x = [req[s] EXCEPT !.held = @ \cup {row}] /\ x.phase = req[s].phase

LEMMA LockEffect ==
  ASSUME TypeInv, NEW s \in Sessions, NEW row \in Rows, Lock(s, row),
         (row = "order" /\ NeedsOrder(req[s])) \/ (row = "op" /\ NeedsOp(req[s]))
  PROVE  \E x : LockDone(s, row, x)
<1> DEFINE r == req[s]
<1>0. /\ TypeOK /\ r \in Request /\ Wellformed(r) /\ LocksInOrder(r)
      /\ r.phase \in {"waiting", "decided"}
  BY DEF TypeInv, TypeOK, RequestsWellformed, Wellformed, NeedsOrder, NeedsOp
<1>1. CASE r.phase = "waiting" /\ r.held \cup {row} = Rows
  <2> DEFINE l == Loading(r.act, r.order, r.op)
             x == [l EXCEPT !.held = Rows]
  <2>1. /\ r.act = "record_production_log" /\ r.order \in Orders /\ r.op \in Ops
        /\ r.setOrder = Keep /\ r.setOp = Keep /\ ~r.setFai
    BY <1>0, <1>1 DEF Wellformed, OrderRequests
  <2>2. /\ l \in Request /\ l.act = r.act /\ l.phase = "loaded" /\ l.order = r.order
        /\ l.op = r.op /\ l.setOrder = Keep /\ l.setOp = Keep /\ ~l.setFai
    BY <1>0, <2>1, LoadingType DEF Handlers
  <2>3. req' = [req EXCEPT ![s] = x] /\ UNCHANGED <<db, plant>>
    BY <1>1 DEF Lock
  <2> HIDE DEF l
  <2>4. /\ x \in Request /\ x.act = r.act /\ x.phase = "loaded" /\ x.order = r.order
        /\ x.op = r.op /\ x.setOrder = Keep /\ x.setOp = Keep /\ ~x.setFai /\ x.held = Rows
    BY <2>2 DEF Request
  <2>5. Wellformed(x)
    <3> HIDE DEF x
    <3> QED BY <2>1, <2>4 DEF Wellformed, LocksInOrder, NeedsOrder, Rows, OrderRequests
  <2>6. x.setFai = r.setFai
    BY <1>0, <2>1, <2>4 DEF Request
  <2>7. x = [Loading(r.act, r.order, r.op) EXCEPT !.held = Rows]
    BY DEF l
  <2> HIDE DEF x
  <2> QED BY <1>1, <2>1, <2>3, <2>4, <2>5, <2>6, <2>7 DEF LockDone
<1>2. CASE ~(r.phase = "waiting" /\ r.held \cup {row} = Rows)
  <2> DEFINE x == [r EXCEPT !.held = @ \cup {row}]
  <2>1. req' = [req EXCEPT ![s] = x] /\ UNCHANGED <<db, plant>>
    BY <1>2 DEF Lock
  <2>2. /\ x \in Request /\ x.act = r.act /\ x.phase = r.phase /\ x.order = r.order
        /\ x.op = r.op /\ x.setOrder = r.setOrder /\ x.setOp = r.setOp /\ x.setFai = r.setFai
        /\ x.setBy = r.setBy /\ x.setTime = r.setTime /\ x.item = r.item
        /\ x.held = r.held \cup {row}
    BY <1>0 DEF Request
  <2>3. x = [req[s] EXCEPT !.held = @ \cup {row}]
    OBVIOUS
  <2> HIDE DEF x
  <2>4. LocksInOrder(x)
    BY <1>0, <2>2 DEF LocksInOrder, NeedsOrder, NeedsOp, Rows, Request
  <2>5. Wellformed(x)
    BY <1>0, <2>2, <2>4 DEF Wellformed
  <2> QED BY <2>1, <2>2, <2>3, <2>5 DEF LockDone
<1> QED BY <1>1, <1>2

LEMMA LockingEffect ==
  ASSUME TypeInv, NEW s \in Sessions, LockOrder(s) \/ LockOperation(s)
  PROVE  \E row \in Rows : \E x : LockDone(s, row, x) /\ (row = "order" => LockOrder(s))
  BY LockEffect DEF LockOrder, LockOperation, Rows

LEMMA LockTypeInv ==
  ASSUME TypeInv, NEW s \in Sessions, LockOrder(s) \/ LockOperation(s)
  PROVE  TypeInv'
<1>1. PICK x \in Request : /\ Wellformed(x)
                           /\ req' = [req EXCEPT ![s] = x] /\ UNCHANGED <<db, plant>>
  BY LockingEffect DEF LockDone
<1>2. TypeOK'
  BY <1>1 DEF TypeInv, TypeOK, db, plant
<1>3. RequestsWellformed'
  BY <1>1 DEF TypeInv, TypeOK, RequestsWellformed, Wellformed, db, plant
<1> QED BY <1>2, <1>3 DEF TypeInv

LEMMA StoredType == ASSUME NEW x \in Nat PROVE Stored(x) \in Nat
  BY DEF Stored

LEMMA DecideTypeInv ==
  ASSUME TypeInv, NEW s \in Sessions, Decide(s)
  PROVE  TypeInv'
<1> DEFINE r == req[s]
<1>1. r \in Request /\ Wellformed(r)
  BY DEF TypeInv, TypeOK, RequestsWellformed
<1>2. CASE CreateProductionOrder(s) \/ ReleaseProductionOrder(s) \/ StartProductionOrder(s)
           \/ CompleteProductionOrder(s)
  <2>1. PICK act \in OrderRequests, ok \in BOOLEAN, st \in OrderStatus \cup {Keep} :
          Check(s, act, ok, [r EXCEPT !.setOrder = st])
    BY <1>2 DEF CreateProductionOrder, ReleaseProductionOrder, StartProductionOrder,
       CompleteProductionOrder, Write, OrderStatus, Keep, OrderRequests
  <2>2. r.act = act
    BY <2>1 DEF Check
  <2> QED BY <1>1, <2>1, <2>2, CheckTypeInv DEF Request, Wellformed
<1>3. CASE StartOperation(s)
  <2> DEFINE d == [r EXCEPT !.setOp = Write(r.sawOp, "InProgress"),
                            !.setOrder = Write(r.sawOrder, "InProgress")]
  <2>1. /\ Write(r.sawOp, "InProgress") \in OpStatus \cup {Keep}
        /\ Write(r.sawOrder, "InProgress") \in OrderStatus \cup {Keep}
    BY DEF Write, OrderStatus, OpStatus
  <2>2. d \in Request
    BY <1>1, <2>1 DEF Request
  <2> QED BY <1>1, <1>3, <2>2, CheckTypeInv DEF Request, StartOperation, OrderRequests
<1>4. CASE CompleteOperation(s)
  <2>1. PICK st, by, f, ok :
          /\ st \in OrderStatus \cup {Keep} /\ f \in BOOLEAN /\ by \in BOOLEAN
          /\ Check(s, "complete_operation", ok,
                [r EXCEPT !.setOp = "Completed", !.setOrder = st, !.setBy = by, !.setFai = f])
    BY <1>4 DEF CompleteOperation, Write, OrderStatus, Keep
  <2>2. [r EXCEPT !.setOp = "Completed", !.setOrder = st, !.setBy = by, !.setFai = f] \in Request
    BY <1>1, <2>1 DEF Request, OpStatus
  <2> QED BY <1>1, <2>1, <2>2, CheckTypeInv DEF Request, OrderRequests
<1>5. CASE CloseReworkOrder(s)
  BY <1>1, <1>5, CheckTypeInv DEF CloseReworkOrder, OrderRequests
<1>6. CASE CompleteInprocessInspection(s)
  <2>1. r.act = "complete_inprocess_inspection" /\ r.phase = "loaded" /\ r.op \in Ops
    BY <1>1, <1>6 DEF CompleteInprocessInspection, Check, Wellformed, OrderRequests
  <2>2. PICK res, t, ok :
          /\ t \in Nat /\ res \in InspectionResult \cup {Keep}
          /\ Check(s, "complete_inprocess_inspection", ok,
                   [r EXCEPT !.setResult = res, !.setTime = t])
    BY <1>1, <1>6, <2>1 DEF CompleteInprocessInspection, TypeInv, TypeOK, Write, Request
  <2>3. [r EXCEPT !.setResult = res, !.setTime = t] \in Request
    BY <1>1, <2>2 DEF Request
  <2> QED BY <1>1, <2>2, <2>3, CheckTypeInv DEF Request, OrderRequests
<1>7. CASE RecordProductionLog(s)
  <2>1. PICK n, ok : n \in Nat /\ Check(s, "record_production_log", ok, [r EXCEPT !.amount = n])
    <3>1. \A x \in LogQuantities : Stored(x) \in Nat
      BY StoredType, ProductionConstants
    <3>2. PICK a, b, ok :
            /\ a \in LogQuantities /\ b \in LogQuantities
            /\ Check(s, "record_production_log", ok, [r EXCEPT !.amount = Stored(a) + Stored(b)])
      BY <1>7 DEF RecordProductionLog
    <3>3. Stored(a) + Stored(b) \in Nat
      BY <3>1, <3>2
    <3> QED BY <3>2, <3>3
  <2> QED BY <1>1, <2>1, CheckTypeInv DEF Request, OrderRequests
<1> QED BY <1>2, <1>3, <1>4, <1>5, <1>6, <1>7 DEF Decide

\* Rows only come, they never go.
RowsGrow ==
  /\ DOMAIN reworks \subseteq DOMAIN reworks'
  /\ \A p \in Ops : DOMAIN inspections[p] \subseteq DOMAIN inspections'[p]

LEMMA WellformedKept ==
  ASSUME TypeOK, RowsGrow, NEW r, Wellformed(r)
  PROVE  Wellformed(r)'
  BY DEF Wellformed, RowsGrow, Idle, OrderRequests, LocksInOrder, NeedsOrder, Rows

LEMMA ApplyTypes ==
  ASSUME TypeInv, NEW s \in Sessions, req[s].phase = "decided", Apply(req[s])
  PROVE  /\ orderStatus' \in [Orders -> OrderStatus]
         /\ opStatus' \in [Ops -> OpStatus]
         /\ inspections' \in [Ops -> Seq(Inspection)]
         /\ clock' \in [Ops -> Nat]
         /\ reworks' \in Seq(Rework)
         /\ logged' \in [Orders -> Nat]
         /\ fai' \subseteq Ops
         /\ RowsGrow
<1> DEFINE r == req[s]
<1>1. r \in Request /\ Wellformed(r) /\ r.phase = "decided"
  BY DEF TypeInv, TypeOK, RequestsWellformed
<1>2. r.order \in Orders
  BY <1>1 DEF Wellformed
<1>3. orderStatus' \in [Orders -> OrderStatus]
  BY <1>1, <1>2 DEF Apply, TypeInv, TypeOK, Request
<1>4. r.setOp # Keep \/ r.setFai \/ r.setTime # 0 => r.op \in Ops
  BY <1>1 DEF Wellformed
<1>5. opStatus' \in [Ops -> OpStatus] /\ fai' \subseteq Ops
  BY <1>1, <1>4 DEF Apply, TypeInv, TypeOK, Request
<1>6. clock' \in [Ops -> Nat]
  <2>1. \A now \in Nat : After(now, r.setTime) \in Nat
    BY <1>1 DEF After, Request
  <2> QED BY <1>4, <2>1 DEF Apply, TypeInv, TypeOK
<1>7. logged' \in [Orders -> Nat]
  BY <1>1, <1>2 DEF Apply, TypeInv, TypeOK, Request
<1>8. reworks' \in Seq(Rework) /\ DOMAIN reworks' = DOMAIN reworks
  <2>1. CASE r.act = "close_rework_order"
    <3>1. reworks' = [reworks EXCEPT ![r.item].status = "Closed"] /\ r.item \in DOMAIN reworks
      BY <1>1, <2>1 DEF Apply, Wellformed
    <3>2. reworks \in Seq(Rework)
      BY DEF TypeInv, TypeOK
    <3>3. reworks[r.item] \in Rework
      BY <3>1, <3>2, RowType
    <3>4. [reworks[r.item] EXCEPT !.status = "Closed"] \in Rework
      BY <3>3 DEF Rework
    <3> QED BY <3>1, <3>2, <3>4
  <2> QED BY <2>1 DEF Apply, TypeInv, TypeOK
<1>9. /\ inspections' \in [Ops -> Seq(Inspection)]
      /\ \A p \in Ops : DOMAIN inspections'[p] = DOMAIN inspections[p]
  <2>1. CASE r.act = "complete_inprocess_inspection"
    <3> DEFINE row == inspections[r.op][r.item]
               rows == [inspections[r.op] EXCEPT ![r.item] = Judged(row, r)]
    <3>1. r.op \in Ops /\ r.item \in DOMAIN inspections[r.op]
      BY <1>1, <2>1 DEF Wellformed, OrderRequests
    <3>2. inspections \in [Ops -> Seq(Inspection)] /\ inspections[r.op] \in Seq(Inspection)
      BY <3>1 DEF TypeInv, TypeOK
    <3>3. row \in Inspection
      BY <3>1, <3>2, RowType
    <3>4. Judged(row, r) \in Inspection
      BY <1>1, <3>3 DEF Judged, Inspection, Request
    <3>5. rows \in Seq(Inspection) /\ DOMAIN rows = DOMAIN inspections[r.op]
      BY <3>1, <3>2, <3>4
    <3>6. inspections' = [inspections EXCEPT ![r.op] = rows]
      BY <2>1 DEF Apply
    <3> QED BY <3>1, <3>2, <3>5, <3>6
  <2> QED BY <2>1 DEF Apply, TypeInv, TypeOK
<1> QED BY <1>3, <1>5, <1>6, <1>7, <1>8, <1>9 DEF RowsGrow

LEMMA CommitTypeInv ==
  ASSUME TypeInv, NEW s \in Sessions, Commit(s)
  PROVE  TypeInv'
<1>1. TypeOK' /\ RowsGrow
  <2>1. CASE ConstraintFails(req[s])
    BY <2>1, IdleType DEF Commit, TypeInv, TypeOK, RowsGrow, db, plant
  <2>2. CASE ~ConstraintFails(req[s])
    BY <2>2, ApplyTypes, IdleType DEF Commit, TypeInv, TypeOK, plant
  <2> QED BY <2>1, <2>2
<1>2. RequestsWellformed'
  BY <1>1, WellformedKept, IdleType DEF Commit, TypeInv, TypeOK, RequestsWellformed
<1> QED BY <1>1, <1>2 DEF TypeInv

LEMMA AbortTypeInv ==
  ASSUME TypeInv, NEW s \in Sessions, Abort(s)
  PROVE  TypeInv'
  BY IdleType DEF Abort, TypeInv, TypeOK, RequestsWellformed, Wellformed, db, plant

LEMMA InsertInspectionType ==
  ASSUME TypeOK, NEW p \in Ops, NEW result \in InspectionResult, NEW time \in Nat,
         NEW timed \in BOOLEAN, InsertInspection(p, result, time, timed)
  PROVE  /\ inspections' \in [Ops -> Seq(Inspection)] /\ clock' \in [Ops -> Nat]
         /\ \A q \in Ops : DOMAIN inspections[q] \subseteq DOMAIN inspections'[q]
<1> DEFINE row == [result |-> result, time |-> time, timed |-> timed]
           rows == Append(inspections[p], row)
<1>1. row \in Inspection
  BY DEF Inspection
<1>2. inspections \in [Ops -> Seq(Inspection)] /\ inspections[p] \in Seq(Inspection)
  BY DEF TypeOK
<1>3. rows \in Seq(Inspection) /\ DOMAIN inspections[p] \subseteq DOMAIN rows
  BY <1>1, <1>2
<1>4. inspections' = [inspections EXCEPT ![p] = rows]
  BY DEF InsertInspection
<1>5. clock' \in [Ops -> Nat]
  BY DEF InsertInspection, TypeOK
<1> QED BY <1>2, <1>3, <1>4, <1>5

LEMMA OpenReworkType ==
  ASSUME reworks \in Seq(Rework), NEW p \in Ops, NEW n \in Nat, OpenRework(p, n)
  PROVE  reworks' \in Seq(Rework) /\ DOMAIN reworks \subseteq DOMAIN reworks'
<1> DEFINE row == [op |-> p, status |-> "Open", since |-> n]
<1>1. row \in Rework
  BY DEF Rework
<1> HIDE DEF row
<1>2. reworks' = Append(reworks, row)
  BY DEF OpenRework, row
<1> QED BY <1>1, <1>2

LEMMA InsertTypeInv ==
  ASSUME TypeInv, NEW s \in Sessions, Insert(s)
  PROVE  TypeInv'
<1>0. TypeOK /\ reworks \in Seq(Rework) /\ RequestsWellformed
  BY DEF TypeInv, TypeOK
<1>1. CASE RecordInprocessInspection(s)
  <2>1. PICK p \in Ops, result \in InspectionResult :
          /\ \/ InsertInspection(p, result, clock[p], result # "Pending")
             \/ \E t \in ClientTimes : InsertInspection(p, result, t, TRUE)
          /\ IF result = "Fail" THEN OpenRework(p, Len(inspections'[p]))
                                ELSE UNCHANGED reworks
          /\ UNCHANGED <<orderStatus, opStatus, logged, fai, plant, req>>
    BY <1>1 DEF RecordInprocessInspection
  <2>2. /\ inspections' \in [Ops -> Seq(Inspection)] /\ clock' \in [Ops -> Nat]
        /\ \A q \in Ops : DOMAIN inspections[q] \subseteq DOMAIN inspections'[q]
    <3>1. clock[p] \in Nat /\ ClientTimes \subseteq Nat /\ (result # "Pending") \in BOOLEAN
      BY ProductionConstants DEF TypeInv, TypeOK
    <3> QED BY <1>0, <2>1, <3>1, InsertInspectionType
  <2>3. reworks' \in Seq(Rework) /\ DOMAIN reworks \subseteq DOMAIN reworks'
    <3>1. Len(inspections'[p]) \in Nat
      BY <2>2
    <3> QED BY <1>0, <2>1, <3>1, OpenReworkType
  <2>4. TypeOK' /\ RowsGrow
    BY <1>0, <2>1, <2>2, <2>3 DEF TypeOK, RowsGrow, plant
  <2> QED BY <1>0, <2>1, <2>4, WellformedKept DEF TypeInv, RequestsWellformed
<1>2. CASE CreateInprocessInspection(s)
  <2>1. PICK p \in Ops :
          /\ InsertInspection(p, "Pending", clock[p], TRUE)
          /\ UNCHANGED <<orderStatus, opStatus, reworks, logged, fai, plant, req>>
    BY <1>2 DEF CreateInprocessInspection
  <2>2. /\ inspections' \in [Ops -> Seq(Inspection)] /\ clock' \in [Ops -> Nat]
        /\ \A q \in Ops : DOMAIN inspections[q] \subseteq DOMAIN inspections'[q]
    <3>1. clock[p] \in Nat /\ "Pending" \in InspectionResult
      BY DEF TypeInv, TypeOK, InspectionResult
    <3> QED BY <1>0, <2>1, <3>1, InsertInspectionType
  <2>3. TypeOK' /\ RowsGrow
    BY <1>0, <2>1, <2>2 DEF TypeOK, RowsGrow, plant
  <2> QED BY <1>0, <2>1, <2>3, WellformedKept DEF TypeInv, RequestsWellformed
<1>3. CASE CreateReworkOrder(s)
  <2>1. PICK p \in Ops :
          /\ OpenRework(p, Len(inspections[p]))
          /\ UNCHANGED <<orderStatus, opStatus, inspections, clock, logged, fai, plant, req>>
    BY <1>3 DEF CreateReworkOrder
  <2>2. reworks' \in Seq(Rework) /\ DOMAIN reworks \subseteq DOMAIN reworks'
    <3>1. inspections[p] \in Seq(Inspection)
      BY DEF TypeInv, TypeOK
    <3>2. Len(inspections[p]) \in Nat
      BY <3>1
    <3> QED BY <1>0, <2>1, <3>2, OpenReworkType
  <2>3. TypeOK' /\ RowsGrow
    BY <1>0, <2>1, <2>2 DEF TypeOK, RowsGrow, plant
  <2> QED BY <1>0, <2>1, <2>3, WellformedKept DEF TypeInv, RequestsWellformed
<1> QED BY <1>1, <1>2, <1>3 DEF Insert

LEMMA ElsewhereTypeInv ==
  ASSUME TypeInv, NEW s \in Sessions, Elsewhere(s)
  PROVE  TypeInv'
<1>1. TypeOK'
  BY DEF Elsewhere, MarkObsolete, ReportBreakdown, ReturnToService, TypeInv, TypeOK, db
<1>2. RequestsWellformed'
  BY DEF Elsewhere, MarkObsolete, ReportBreakdown, ReturnToService, TypeInv, TypeOK, db,
     RequestsWellformed, Wellformed
<1> QED BY <1>1, <1>2 DEF TypeInv

LEMMA NextTypeInv == TypeInv /\ [Next]_vars => TypeInv'
<1>1. ASSUME TypeInv, UNCHANGED vars PROVE TypeInv'
  BY <1>1 DEF vars, db, plant, TypeInv, TypeOK, RequestsWellformed, Wellformed
<1> QED BY <1>1, LoadTypeInv, LockTypeInv, DecideTypeInv, CommitTypeInv, AbortTypeInv, InsertTypeInv,
           ElsewhereTypeInv DEF Next

\* Every reachable state is well typed: statuses stay within their enums, rows
\* are never lost and a request only ever names rows there are.
THEOREM TypeCorrect == Spec => []TypeOK
<1>1. Spec => []TypeInv
  BY InitTypeInv, NextTypeInv, PTL DEF Spec
<1> QED BY <1>1, PTL DEF TypeInv

-----------------------------------------------------------------------------
(* Quantities.                                                             *)

\* Rounding half up adds at most half a thousandth to each column.
LEMMA StoredBound == ASSUME NEW x \in Nat PROVE Stored(x) * SubUnits <= x + 5
  BY DEF Stored, SubUnits

LEMMA InitQuantityInv == ASSUME Init PROVE QuantityInv
<1>1. TypeInv
  BY InitTypeInv
<1> QED BY <1>1, ProductionConstants
      DEF Init, QuantityInv, Slack, LockExclusive, Logging, CheckedLogFits, CheckedCompletionReconciled,
          LoggedWithinSlack, CompletedReconciled, Idle, Keep

\* A step that changes neither statuses nor totals, and that leaves each
\* request as it was, or neither a log with its order nor a completion, keeps it.
LEMMA QuietQuantityInv ==
  ASSUME QuantityInv, TypeInv',
         orderStatus' = orderStatus, logged' = logged,
         \A s \in Sessions : \/ req'[s] = req[s]
                              \/ /\ req'[s].act = "record_production_log" => req'[s].held = {}
                                 /\ req'[s].setOrder # "Completed"
  PROVE  QuantityInv'
  BY DEF QuantityInv, LockExclusive, Logging, CheckedLogFits, CheckedCompletionReconciled,
     LoggedWithinSlack, CompletedReconciled

LEMMA LockQuantityInv ==
  ASSUME QuantityInv, TypeInv', NEW s \in Sessions, LockOrder(s) \/ LockOperation(s)
  PROVE  QuantityInv'
<1>0. TypeInv /\ TypeOK /\ \A t \in Sessions : Wellformed(req[t])
  BY DEF QuantityInv, TypeInv, RequestsWellformed
<1>1. PICK row, x : row \in Rows /\ LockDone(s, row, x) /\ (row = "order" => LockOrder(s))
  BY <1>0, LockingEffect
<1>2. /\ orderStatus' = orderStatus /\ logged' = logged /\ req'[s] = x
      /\ \A t \in Sessions \ {s} : req'[t] = req[t]
  BY <1>0, <1>1 DEF LockDone, db, TypeOK
<1>3. LockExclusive'
  <2>1. CASE row = "order"
    <3>1. \A t \in Sessions \ {s} : Logging(t) => req[t].order # req[s].order
      BY <1>1, <2>1 DEF LockOrder, Lock, Blocked, WaitsFor, Locks, Logging
    <3> QED BY <1>1, <1>2, <3>1 DEF LockDone, QuantityInv, LockExclusive, Logging
  <2>2. CASE row = "op"
    BY <1>1, <1>2, <2>2 DEF LockDone, QuantityInv, LockExclusive, Logging
  <2> QED BY <1>1, <2>1, <2>2 DEF Rows
\* A log that was decided has both its rows, it locks no more.
<1>4. Logging(s)' => x.phase # "decided"
  <2>1. ASSUME Logging(s)', x.phase = "decided" PROVE FALSE
    <3>1. req[s].act = "record_production_log" /\ req[s].phase = "decided"
      BY <1>1, <1>2, <2>1 DEF LockDone, Logging
    <3>2. req[s].held = Rows
      BY <1>0, <3>1 DEF Wellformed, LocksInOrder
    <3> QED BY <3>2 DEF LockOrder, LockOperation, NeedsOrder, NeedsOp, Rows
  <2> QED BY <2>1
<1>5. CheckedLogFits'
  BY <1>2, <1>4 DEF QuantityInv, CheckedLogFits, Logging
<1>6. CheckedCompletionReconciled'
  BY <1>1, <1>2 DEF LockDone, QuantityInv, CheckedCompletionReconciled
<1> QED BY <1>2, <1>3, <1>5, <1>6 DEF QuantityInv, LoggedWithinSlack, CompletedReconciled

LEMMA LoadQuantityInv ==
  ASSUME QuantityInv, TypeInv', NEW s \in Sessions, Load(s)
  PROVE  QuantityInv'
<1>0. TypeInv /\ TypeOK
  BY DEF QuantityInv, TypeInv
<1>1. CASE ReceiveLog(s)
  <2>1. PICK o \in Orders, p \in Ops :
          Receive(s, [Idle EXCEPT !.act = "record_production_log", !.phase = "waiting",
                                  !.order = o, !.op = p])
    BY <1>1 DEF ReceiveLog
  <2>2. /\ orderStatus' = orderStatus /\ logged' = logged
        /\ \A t \in Sessions : req'[t] = req[t] \/ (req'[t].held = {} /\ req'[t].setOrder = Keep)
    BY <1>0, <2>1 DEF Receive, db, TypeOK, Idle
  <2> QED BY <2>2, QuietQuantityInv DEF Keep
<1>2. ASSUME NEW r, Receive(s, r), r.act # "record_production_log", r.setOrder = Keep
      PROVE  QuantityInv'
  <2>1. /\ orderStatus' = orderStatus /\ logged' = logged
        /\ \A t \in Sessions : req'[t] = req[t] \/ req'[t] = r
    BY <1>0, <1>2 DEF Receive, db, TypeOK
  <2>2. \A t \in Sessions : \/ req'[t] = req[t]
                             \/ /\ req'[t].act # "record_production_log"
                                /\ req'[t].setOrder # "Completed"
    BY <1>2, <2>1 DEF Keep
  <2> QED BY <2>1, <2>2, QuietQuantityInv
<1>3. CASE LoadOrder(s)
  <2> PICK o \in Orders, act \in OrderRequests : Receive(s, Loading(act, o, None))
    BY <1>3 DEF LoadOrder
  <2> DEFINE l == Loading(act, o, None)
  <2>1. l.act = act /\ l.setOrder = Keep
    BY <1>0, LoadingType DEF Handlers
  <2>2. Receive(s, l)
    OBVIOUS
  <2> HIDE DEF l
  <2>3. l.act # "record_production_log"
    BY <2>1 DEF OrderRequests
  <2> QED BY <1>2, <2>1, <2>2, <2>3
<1>4. CASE LoadOperation(s)
  <2> PICK p \in Ops, act \in OpRequests : Receive(s, Loading(act, OrderOf[p], p))
    BY <1>4 DEF LoadOperation
  <2> DEFINE l == Loading(act, OrderOf[p], p)
  <2>0. OrderOf[p] \in Orders
    BY ProductionConstants
  <2>1. l.act = act /\ l.setOrder = Keep
    BY <1>0, <2>0, LoadingType DEF Handlers
  <2>2. Receive(s, l)
    OBVIOUS
  <2> HIDE DEF l
  <2>3. l.act # "record_production_log"
    BY <2>1 DEF OpRequests
  <2> QED BY <1>2, <2>1, <2>2, <2>3
<1>5. CASE LoadRework(s)
  <2> PICK i \in DOMAIN reworks :
        Receive(s, [Loading("close_rework_order", OrderOf[reworks[i].op], reworks[i].op)
                      EXCEPT !.item = i])
    BY <1>5 DEF LoadRework
  <2> DEFINE l == Loading("close_rework_order", OrderOf[reworks[i].op], reworks[i].op)
  <2>1. reworks[i].op \in Ops /\ OrderOf[reworks[i].op] \in Orders
    <3>1. reworks[i] \in Rework
      BY <1>0, RowType DEF TypeOK
    <3> QED BY <3>1, ProductionConstants DEF Rework
  <2>2. l \in Request /\ l.act = "close_rework_order" /\ l.setOrder = Keep
    BY <1>0, <2>1, LoadingType DEF Handlers
  <2> HIDE DEF l
  <2>3. [l EXCEPT !.item = i].act = "close_rework_order" /\ [l EXCEPT !.item = i].setOrder = Keep
    BY <2>2 DEF Request
  <2>4. Receive(s, [l EXCEPT !.item = i])
    BY DEF l
  <2> QED BY <1>2, <2>3, <2>4
<1>6. CASE LoadInspection(s)
  <2> PICK p \in Ops, result \in InspectionResult : \E i \in DOMAIN inspections[p] :
        Receive(s, [Loading("complete_inprocess_inspection", OrderOf[p], p)
                      EXCEPT !.item = i, !.result = result,
                             !.sawResult = inspections[p][i].result,
                             !.sawTimed = inspections[p][i].timed])
    BY <1>6 DEF LoadInspection
  <2> DEFINE l == Loading("complete_inprocess_inspection", OrderOf[p], p)
  <2>1. PICK i, saw, b : Receive(s, [l EXCEPT !.item = i, !.result = result, !.sawResult = saw, !.sawTimed = b])
    OBVIOUS
  <2>0. OrderOf[p] \in Orders
    BY ProductionConstants
  <2>2. l \in Request /\ l.act = "complete_inprocess_inspection" /\ l.setOrder = Keep
    BY <1>0, <2>0, LoadingType DEF Handlers
  <2> HIDE DEF l
  <2> DEFINE r == [l EXCEPT !.item = i, !.result = result, !.sawResult = saw, !.sawTimed = b]
  <2>3. r.act = "complete_inprocess_inspection" /\ r.setOrder = Keep
    BY <2>2 DEF Request
  <2> QED BY <1>2, <2>1, <2>3
<1> QED BY <1>1, <1>3, <1>4, <1>5, <1>6 DEF Load

\* What a check does to the requests: an error, or the pending writes.
CheckDone(s, act, ok, r) ==
  /\ orderStatus' = orderStatus /\ logged' = logged /\ opStatus' = opStatus /\ fai' = fai
  /\ req[s].act = act /\ req[s].phase = "loaded"
  /\ \A t \in Sessions \ {s} : req'[t] = req[t]
  /\ \/ req'[s] = Idle
     \/ /\ ok
        /\ req'[s].act = r.act /\ req'[s].order = r.order /\ req'[s].op = r.op
        /\ req'[s].setOrder = r.setOrder /\ req'[s].setOp = r.setOp
        /\ req'[s].setFai = r.setFai /\ req'[s].amount = r.amount
        /\ req'[s].held = r.held
        /\ req'[s].phase = "decided"

LEMMA CheckEffect ==
  ASSUME TypeOK, NEW s \in Sessions, NEW act, NEW ok, NEW r \in Request, Check(s, act, ok, r)
  PROVE  CheckDone(s, act, ok, r)
<1>1. req \in [Sessions -> Request]
  BY DEF TypeOK
<1> QED BY <1>1 DEF Check, CheckDone, db, Request

LEMMA DecideQuantityInv ==
  ASSUME QuantityInv, TypeInv', NEW s \in Sessions, Decide(s)
  PROVE  QuantityInv'
<1> DEFINE r == req[s]
<1>0. TypeInv /\ TypeOK /\ r \in Request /\ Wellformed(r)
  BY DEF QuantityInv, TypeInv, TypeOK, RequestsWellformed
<1>1. ASSUME NEW act, NEW ok, NEW d \in Request, Check(s, act, ok, d),
             act # "record_production_log", d.act = r.act, d.order = r.order,
             ok /\ d.setOrder = "Completed" => logged[r.order] = Planned[r.order]
      PROVE  QuantityInv'
  <2>1. CheckDone(s, act, ok, d)
    BY <1>0, <1>1, CheckEffect
  <2> QED BY <1>0, <1>1, <2>1
     DEF CheckDone, QuantityInv, LockExclusive, Logging, CheckedLogFits, CheckedCompletionReconciled,
         LoggedWithinSlack, CompletedReconciled, Idle, Keep
<1>2. ASSUME NEW act, NEW ok, NEW st \in OrderStatus \cup {Keep},
             Check(s, act, ok, [r EXCEPT !.setOrder = st]), act # "record_production_log",
             ok /\ st = "Completed" => logged[r.order] = Planned[r.order]
      PROVE  QuantityInv'
  BY <1>0, <1>1, <1>2 DEF Request
<1>3. CASE CreateProductionOrder(s)
  BY <1>0, <1>2, <1>3 DEF CreateProductionOrder, OrderStatus
<1>4. CASE ReleaseProductionOrder(s)
  BY <1>0, <1>2, <1>4 DEF ReleaseProductionOrder, OrderStatus
<1>5. CASE StartProductionOrder(s)
  BY <1>0, <1>2, <1>5 DEF StartProductionOrder, OrderStatus, Write, Keep
<1>6. CASE CompleteProductionOrder(s)
  BY <1>0, <1>2, <1>6 DEF CompleteProductionOrder, OrderStatus, ReadyForCompletion
<1>7. CASE StartOperation(s)
  <2> DEFINE d == [r EXCEPT !.setOp = Write(r.sawOp, "InProgress"),
                            !.setOrder = Write(r.sawOrder, "InProgress")]
  <2>1. /\ Write(r.sawOp, "InProgress") \in OpStatus \cup {Keep}
        /\ Write(r.sawOrder, "InProgress") \in OrderStatus \cup {Keep}
        /\ Write(r.sawOrder, "InProgress") # "Completed"
    BY DEF Write, OrderStatus, OpStatus, Keep
  <2>2. d \in Request
    BY <1>0, <2>1 DEF Request
  <2>3. d.act = r.act /\ d.order = r.order /\ d.setOrder # "Completed"
    BY <1>0, <2>1 DEF Request
  <2>4. PICK ok : Check(s, "start_operation", ok, d)
    BY <1>7 DEF StartOperation
  <2> HIDE DEF d
  <2> QED BY <1>1, <2>2, <2>3, <2>4
<1>8. CASE CompleteOperation(s)
  <2> DEFINE noOtherOpen == \A q \in OpsOf(r.order) \ {r.op} : opStatus[q] = "Completed"
             next == IF noOtherOpen /\ ReadyForCompletion(r.order)
                     THEN "Completed" ELSE "InProgress"
             st == Write(r.sawOrder, next)
             f == IsFirstOp(r.op) /\ r.op \notin fai
             ok == /\ r.sawOp # "Completed" /\ Started(r.sawOp)
                   /\ LatestInspectionPassed(r.op)
  <2>0. PICK by \in BOOLEAN :
          Check(s, "complete_operation", ok,
                [r EXCEPT !.setOp = "Completed", !.setOrder = st, !.setBy = by, !.setFai = f])
    BY <1>8 DEF CompleteOperation
  <2>1. /\ st \in OrderStatus \cup {Keep} /\ f \in BOOLEAN
        /\ st = "Completed" => logged[r.order] = Planned[r.order]
    BY DEF Write, OrderStatus, Keep, ReadyForCompletion
  <2> HIDE DEF st, f, ok
  <2> DEFINE d == [r EXCEPT !.setOp = "Completed", !.setOrder = st, !.setBy = by, !.setFai = f]
  <2>2. d \in Request /\ d.act = r.act /\ d.order = r.order /\ d.setOrder = st
    <3>0. st \in OrderStatus \cup {Keep} /\ f \in BOOLEAN /\ "Completed" \in OpStatus \cup {Keep}
      BY <2>1 DEF OpStatus
    <3>1. d \in Request
      <4> HIDE DEF r
      <4> QED BY <1>0, <3>0 DEF Request
    <3> QED BY <1>0, <3>1 DEF Request
  <2> HIDE DEF d
  <2>3. Check(s, "complete_operation", ok, d)
    BY <2>0 DEF d
  <2> QED BY <1>1, <2>1, <2>2, <2>3
<1>9. CASE CloseReworkOrder(s)
  <2>1. PICK ok : Check(s, "close_rework_order", ok, r)
    BY <1>9 DEF CloseReworkOrder
  <2>2. r.setOrder = Keep
    BY <1>0, <2>1, CheckEffect DEF Wellformed, CheckDone
  <2> QED BY <1>0, <1>1, <2>1, <2>2 DEF Keep
<1>10. CASE CompleteInprocessInspection(s)
  <2>1. PICK ok, res, x : Check(s, "complete_inprocess_inspection", ok,
                                [r EXCEPT !.setResult = res, !.setTime = x])
    BY <1>10 DEF CompleteInprocessInspection
  <2>2. r.act = "complete_inprocess_inspection" /\ r.setOrder = Keep
    BY <1>0, <2>1 DEF Wellformed, Check
  <2>3. /\ orderStatus' = orderStatus /\ logged' = logged
        /\ \A u \in Sessions \ {s} : req'[u] = req[u]
        /\ req'[s].act # "record_production_log" /\ req'[s].setOrder # "Completed"
    BY <1>0, <2>1, <2>2 DEF Check, db, TypeOK, Request, Idle, Keep
  <2>4. \A t \in Sessions : \/ req'[t] = req[t]
                             \/ /\ req'[t].act # "record_production_log"
                                /\ req'[t].setOrder # "Completed"
    BY <2>3
  <2> QED BY <2>3, <2>4, QuietQuantityInv
<1>11. CASE RecordProductionLog(s)
  <2>1. PICK a, b, ok :
          /\ a \in LogQuantities /\ b \in LogQuantities
          /\ Check(s, "record_production_log", ok, [r EXCEPT !.amount = Stored(a) + Stored(b)])
          /\ ok => a + b > 0 /\ WithinPlan(r.order, a, b)
    BY <1>11 DEF RecordProductionLog
  <2> DEFINE d == [r EXCEPT !.amount = Stored(a) + Stored(b)]
  <2>2. a \in Nat /\ b \in Nat /\ Stored(a) \in Nat /\ Stored(b) \in Nat
    BY <2>1, StoredType, ProductionConstants
  <2>3. /\ d \in Request /\ d.act = r.act /\ d.order = r.order /\ d.setOrder = r.setOrder
        /\ d.amount = Stored(a) + Stored(b) /\ d.held = r.held
    BY <1>0, <2>2 DEF Request
  <2> HIDE DEF d
  <2>4. Check(s, "record_production_log", ok, d)
    BY <2>1 DEF d
  <2>5. CheckDone(s, "record_production_log", ok, d)
    BY <1>0, <2>3, <2>4, CheckEffect
  <2>6. r.act = "record_production_log" /\ r.setOrder = Keep /\ r.order \in Orders /\ Logging(s)
    BY <1>0, <2>5 DEF Wellformed, CheckDone, LocksInOrder, Logging, Rows
  <2>7. ASSUME ok
        PROVE  /\ logged[r.order] < Planned[r.order]
               /\ logged[r.order] + (Stored(a) + Stored(b)) <= Planned[r.order] + Slack
    <3>1. logged[r.order] \in Nat /\ Planned[r.order] \in Nat
      BY <1>0, <2>6, ProductionConstants DEF TypeOK
    <3>2. logged[r.order] * 10 + a + b <= Planned[r.order] * 10 /\ a + b > 0
      BY <2>1, <2>7 DEF WithinPlan, SubUnits
    <3>3. CASE Representable
      <4>1. Stored(a) * 10 = a /\ Stored(b) * 10 = b
        BY <2>1, <3>3 DEF Representable, SubUnits
      <4> QED BY <2>2, <3>1, <3>2, <3>3, <4>1 DEF Slack
    <3>4. CASE ~Representable
      <4>1. Stored(a) * 10 <= a + 5 /\ Stored(b) * 10 <= b + 5
        BY <2>2, StoredBound DEF SubUnits
      <4> QED BY <2>2, <3>1, <3>2, <3>4, <4>1 DEF Slack
    <3> QED BY <3>3, <3>4
  <2>8. LockExclusive'
    BY <1>0, <2>3, <2>6, <2>5 DEF CheckDone, QuantityInv, LockExclusive, Logging, Idle
  <2>9. CheckedLogFits'
    BY <1>0, <2>3, <2>6, <2>7, <2>5 DEF CheckDone, QuantityInv, CheckedLogFits, Logging, Idle
  <2>10. CheckedCompletionReconciled'
    BY <1>0, <2>3, <2>6, <2>5 DEF CheckDone, QuantityInv, CheckedCompletionReconciled, Idle, Keep
  <2> QED BY <1>0, <2>8, <2>9, <2>10, <2>5
        DEF CheckDone, QuantityInv, LoggedWithinSlack, CompletedReconciled
<1> QED BY <1>3, <1>4, <1>5, <1>6, <1>7, <1>8, <1>9, <1>10, <1>11 DEF Decide

LEMMA CommitQuantityInv ==
  ASSUME QuantityInv, TypeInv', NEW s \in Sessions, Commit(s)
  PROVE  QuantityInv'
<1> DEFINE r == req[s]
<1>0. /\ TypeOK /\ r \in Request /\ Wellformed(r) /\ r.phase = "decided" /\ r.order \in Orders
  BY DEF QuantityInv, TypeInv, TypeOK, RequestsWellformed, Commit, Wellformed
<1>1. /\ req'[s] = Idle
      /\ \A t \in Sessions \ {s} : req'[t] = req[t]
  BY <1>0 DEF Commit, TypeOK
<1>2. Idle.act # "record_production_log" /\ Idle.setOrder # "Completed"
  BY DEF Idle, Keep
<1>3. LockExclusive'
  BY <1>1, <1>2 DEF QuantityInv, LockExclusive, Logging
<1>4. CASE orderStatus' = orderStatus /\ logged' = logged
  BY <1>1, <1>2, <1>4, QuietQuantityInv
<1>5. CASE ~ConstraintFails(r) /\ r.act # "record_production_log"
  <2>1. logged' = logged
    BY <1>5 DEF Commit, Apply
  <2>2. \A o \in Orders : orderStatus'[o] = "Completed" =>
          orderStatus[o] = "Completed" \/ (o = r.order /\ r.setOrder = "Completed")
    BY <1>0, <1>5 DEF Commit, Apply, TypeOK
  <2>3. CompletedReconciled'
    BY <1>0, <2>1, <2>2 DEF QuantityInv, CompletedReconciled, CheckedCompletionReconciled
  <2> QED BY <1>1, <1>2, <1>3, <2>1, <2>3
        DEF QuantityInv, Logging, CheckedLogFits, CheckedCompletionReconciled,
            LoggedWithinSlack
<1>6. CASE ~ConstraintFails(r) /\ r.act = "record_production_log"
  <2>0. Logging(s)
    BY <1>0, <1>6 DEF Wellformed, LocksInOrder, Logging, Rows
  <2>1. /\ logged[r.order] \in Nat /\ Planned[r.order] \in Nat /\ r.amount \in Nat
        /\ logged[r.order] < Planned[r.order]
        /\ logged[r.order] + r.amount <= Planned[r.order] + Slack
    BY <1>0, <2>0, ProductionConstants DEF QuantityInv, CheckedLogFits, TypeOK, Request
  <2>2. /\ logged'[r.order] = logged[r.order] + r.amount
        /\ \A o \in Orders \ {r.order} : logged'[o] = logged[o]
    BY <1>0, <1>6 DEF Commit, Apply, TypeOK
  \* An order short of its plan has no checked completion and is not Completed.
  <2>3. /\ \A t \in Sessions : req[t].setOrder = "Completed" => req[t].order # r.order
        /\ orderStatus[r.order] # "Completed"
    BY <1>0, <2>1 DEF QuantityInv, CheckedCompletionReconciled, CompletedReconciled
  <2>4. orderStatus'[r.order] # "Completed" /\ \A o \in Orders : orderStatus'[o] = "Completed" => orderStatus[o] = "Completed"
    BY <1>0, <1>6, <2>3 DEF Commit, Apply, TypeOK
  <2>5. LoggedWithinSlack'
    BY <2>1, <2>2 DEF QuantityInv, LoggedWithinSlack
  <2>6. CompletedReconciled'
    BY <2>2, <2>4 DEF QuantityInv, CompletedReconciled
  \* The other logs in progress are of other orders.
  <2>7. \A t \in Sessions \ {s} : Logging(t) => req[t].order # r.order
    BY <2>0 DEF QuantityInv, LockExclusive
  <2>8. \A t \in Sessions \ {s} : Logging(t) /\ req[t].phase = "decided" => req[t].order \in Orders
    BY DEF QuantityInv, TypeInv, RequestsWellformed, Wellformed
  <2>9. CheckedLogFits'
    BY <1>1, <1>2, <2>2, <2>7, <2>8 DEF QuantityInv, CheckedLogFits, Logging
  <2>10. \A t \in Sessions : req[t].setOrder = "Completed" => req[t].order \in Orders
    BY DEF QuantityInv, TypeInv, RequestsWellformed, Wellformed, Idle, Keep
  <2>11. CheckedCompletionReconciled'
    BY <1>1, <1>2, <2>2, <2>3, <2>10 DEF QuantityInv, CheckedCompletionReconciled
  <2> QED BY <1>3, <2>5, <2>6, <2>9, <2>11 DEF QuantityInv
<1> QED BY <1>4, <1>5, <1>6 DEF Commit, db

LEMMA NextQuantityInv == QuantityInv /\ [Next]_vars => QuantityInv'
<1> SUFFICES ASSUME QuantityInv, [Next]_vars PROVE QuantityInv'
  OBVIOUS
<1>0. TypeInv' /\ TypeOK
  BY NextTypeInv DEF QuantityInv, TypeInv
<1>1. CASE UNCHANGED vars
  BY <1>0, <1>1, QuietQuantityInv DEF vars, db
<1>2. ASSUME NEW s \in Sessions, Abort(s) PROVE QuantityInv'
  <2>1. \A t \in Sessions : req'[t] = req[t] \/ req'[t] = Idle
    BY <1>0, <1>2 DEF Abort, TypeOK
  <2>2. Idle.act # "record_production_log" /\ Idle.setOrder # "Completed"
    BY DEF Idle, Keep
  <2> QED BY <1>0, <1>2, <2>1, <2>2, QuietQuantityInv DEF Abort, db
<1>3. ASSUME NEW s \in Sessions, Insert(s) PROVE QuantityInv'
  BY <1>0, <1>3, QuietQuantityInv
     DEF Insert, RecordInprocessInspection, CreateInprocessInspection, CreateReworkOrder
<1>4. ASSUME NEW s \in Sessions, Elsewhere(s) PROVE QuantityInv'
  BY <1>0, <1>4, QuietQuantityInv DEF Elsewhere, MarkObsolete, ReportBreakdown, ReturnToService, db
<1> QED BY <1>0, <1>1, <1>2, <1>3, <1>4, LoadQuantityInv, LockQuantityInv, DecideQuantityInv,
           CommitQuantityInv DEF Next

LEMMA QuantitiesKept == Spec => []QuantityInv
  BY InitQuantityInv, NextQuantityInv, PTL DEF Spec

\* Concurrent logs never take an order more than one thousandth past its plan:
\* the row lock keeps check and commit of one log together, and the excess is
\* the rounding of the last log's two columns.
THEOREM OvershootBounded == Spec => []LoggedOvershootBounded
<1>1. QuantityInv => LoggedOvershootBounded
  BY ProductionConstants
     DEF QuantityInv, LoggedWithinSlack, LoggedOvershootBounded, Slack, TypeInv, TypeOK
<1> QED BY <1>1, QuantitiesKept, PTL

\* Where every quantity sent is representable, the plan is never passed.
THEOREM WithinPlanLogged == Spec => [](Representable => LoggedWithinPlan)
<1>1. QuantityInv => (Representable => LoggedWithinPlan)
  BY ProductionConstants DEF QuantityInv, LoggedWithinSlack, LoggedWithinPlan, Slack, TypeInv, TypeOK
<1> QED BY <1>1, QuantitiesKept, PTL

\* A Completed order has exactly its plan logged: a log that was checked needs
\* room below the plan and a completion that was checked needs none left, so
\* the two are never in flight together, though completions take no lock.
THEOREM CompletionReconciles == Spec => []CompletedReconciled
<1>1. QuantityInv => CompletedReconciled
  BY DEF QuantityInv
<1> QED BY <1>1, QuantitiesKept, PTL

\* No step changes the total of a Completed order: the next state would still
\* have it Completed, with another total.
THEOREM CompletionFreezes == Spec => CompletedFreezesLog
<1> DEFINE Frozen == \A o \in Orders : orderStatus[o] = "Completed" => logged'[o] = logged[o]
<1>1. QuantityInv /\ [Next]_vars => [Frozen]_vars
  <2> SUFFICES ASSUME QuantityInv, Next PROVE Frozen
    BY DEF vars, db
  <2>1. PICK s \in Sessions :
          \/ Load(s) \/ LockOrder(s) \/ LockOperation(s) \/ Decide(s) \/ Commit(s)
          \/ Abort(s) \/ Insert(s) \/ Elsewhere(s)
    BY DEF Next
  <2>2. CASE Commit(s)
    <3> DEFINE r == req[s]
    <3>1. CASE logged' = logged
      BY <3>1
    <3>2. CASE ~ConstraintFails(r) /\ r.act = "record_production_log"
      <4>1. r.order \in Orders /\ logged \in [Orders -> Nat] /\ r.phase = "decided"
        BY <2>2 DEF QuantityInv, TypeInv, TypeOK, RequestsWellformed, Wellformed, Commit
      <4>2. logged[r.order] < Planned[r.order]
        BY <2>2, <3>2, <4>1 DEF QuantityInv, TypeInv, RequestsWellformed, Wellformed,
           LocksInOrder, Rows, CheckedLogFits, Logging
      <4>3. orderStatus[r.order] # "Completed"
        BY <4>1, <4>2, ProductionConstants DEF QuantityInv, CompletedReconciled
      <4>4. \A o \in Orders \ {r.order} : logged'[o] = logged[o]
        BY <2>2, <3>2, <4>1 DEF Commit, Apply
      <4> QED BY <4>3, <4>4
    <3> QED BY <2>2, <3>1, <3>2 DEF Commit, Apply, db
  <2>3. CASE Load(s)
    BY <2>3 DEF Load, LoadOrder, LoadOperation, LoadRework, LoadInspection, ReceiveLog, Receive, db
  <2>4. CASE Decide(s)
    BY <2>4 DEF Decide, CreateProductionOrder, ReleaseProductionOrder, StartProductionOrder,
       CompleteProductionOrder, StartOperation, CompleteOperation, CloseReworkOrder,
       CompleteInprocessInspection, RecordProductionLog, Check, db
  <2>5. CASE Abort(s)
    BY <2>5 DEF Abort, db
  <2>6. CASE Insert(s)
    BY <2>6 DEF Insert, RecordInprocessInspection, CreateInprocessInspection, CreateReworkOrder
  <2>7. CASE Elsewhere(s)
    BY <2>7 DEF Elsewhere, MarkObsolete, ReportBreakdown, ReturnToService, db
  <2>8. CASE LockOrder(s) \/ LockOperation(s)
    BY <2>8 DEF LockOrder, LockOperation, Lock, db
  <2> QED BY <2>1, <2>2, <2>3, <2>4, <2>5, <2>6, <2>7, <2>8
<1> QED BY <1>1, QuantitiesKept, PTL DEF Spec, CompletedFreezesLog

-----------------------------------------------------------------------------
(* Waiting.                                                                *)

\* No circle of waits without a request about to insert a trigger.  Who holds
\* an operation waits for nothing but to insert; who holds its order only waits
\* to insert, or for a holder of the operation, who is in the circle as well.
THEOREM NoOtherDeadlock == Spec => []DeadlockNeedsTrigger
<1>1. TypeInv => DeadlockNeedsTrigger
  <2> SUFFICES ASSUME TypeInv, NEW c \in SUBSET Sessions, Circle(c)
               PROVE  \E s \in c : InsertsTrigger(req[s])
    BY DEF DeadlockNeedsTrigger
  <2>1. \A s \in c : \E t \in c : WaitsFor(s, t)
    BY DEF Circle
  <2>2. ASSUME NEW s \in c, "op" \in req[s].held PROVE InsertsTrigger(req[s])
    <3>1. ~NeedsOrder(req[s])
      BY <2>2 DEF TypeInv, RequestsWellformed, Wellformed, LocksInOrder
    <3> QED BY <2>1, <2>2, <3>1 DEF WaitsFor, NeedsOp
  <2>3. PICK s \in c, t \in c : WaitsFor(s, t)
    BY <2>1 DEF Circle
  <2>4. "order" \in req[t].held \/ "op" \in req[t].held
    BY <2>3 DEF WaitsFor, Locks, LocksKey
  <2>5. CASE "op" \in req[t].held
    BY <2>2, <2>5
  <2>6. CASE "order" \in req[t].held
    <3>1. PICK u \in c : WaitsFor(t, u)
      BY <2>1
    <3>2. InsertsTrigger(req[t]) \/ "op" \in req[u].held
      BY <2>6, <3>1 DEF WaitsFor, NeedsOrder, Locks
    <3> QED BY <2>2, <3>2
  <2> QED BY <2>4, <2>5, <2>6
<1>2. Spec => []TypeInv
  BY InitTypeInv, NextTypeInv, PTL DEF Spec
<1> QED BY <1>1, <1>2, PTL

-----------------------------------------------------------------------------
(* First article inspection.                                               *)

\* A checked completion of a first operation inserts its trigger, or has seen it.
CheckedCompletionHasFai ==
  \A s \in Sessions : req[s].setOp = "Completed" /\ IsFirstOp(req[s].op) =>
    req[s].setFai \/ req[s].op \in fai

\* FirstOpHasFai, in the words of the handler.
FirstOpsTriggered == \A p \in Ops : opStatus[p] = "Completed" /\ IsFirstOp(p) => p \in fai

FaiInv == TypeInv /\ FirstOpsTriggered /\ CheckedCompletionHasFai

\* A step that writes no operation's status, loses no trigger and leaves each
\* request as it was, or not completing an operation, keeps the invariant.
LEMMA QuietFaiInv ==
  ASSUME FaiInv, TypeInv', opStatus' = opStatus, fai \subseteq fai',
         \A s \in Sessions : req'[s] = req[s] \/ req'[s].setOp # "Completed"
  PROVE  FaiInv'
  BY DEF FaiInv, FirstOpsTriggered, CheckedCompletionHasFai, IsFirstOp, OpsOf

LEMMA NextFaiInv == FaiInv /\ [Next]_vars => FaiInv'
<1> SUFFICES ASSUME FaiInv, [Next]_vars PROVE FaiInv'
  OBVIOUS
<1>0. TypeInv' /\ TypeInv /\ TypeOK /\ Idle.setOp # "Completed"
  BY NextTypeInv DEF FaiInv, TypeInv, Idle, Keep
<1>1. CASE UNCHANGED vars
  BY <1>0, <1>1, QuietFaiInv DEF vars, db
<1>2. ASSUME NEW s \in Sessions, Load(s) PROVE FaiInv'
  <2>1. /\ opStatus' = opStatus /\ fai' = fai
        /\ \A t \in Sessions \ {s} : req'[t] = req[t]
    <3>1. PICK r : Receive(s, r)
      BY <1>2 DEF Load, LoadOrder, LoadOperation, LoadRework, LoadInspection, ReceiveLog
    <3> QED BY <1>0, <3>1 DEF Receive, db, TypeOK
  <2>2. req'[s].setOp = Keep
    <3>0. ASSUME NEW r, Receive(s, r), r.setOp = Keep PROVE req'[s].setOp = Keep
      BY <1>0, <3>0 DEF Receive, TypeOK
    <3>1. \A act, o, p : Loading(act, o, p).setOp = Keep
      BY DEF Loading, Idle
    <3>2. CASE LoadOrder(s) \/ LoadOperation(s)
      BY <3>0, <3>1, <3>2 DEF LoadOrder, LoadOperation
    <3>5. CASE ReceiveLog(s)
      <4>1. PICK o, p :
              Receive(s, [Idle EXCEPT !.act = "record_production_log", !.phase = "waiting",
                                      !.order = o, !.op = p])
        BY <3>5 DEF ReceiveLog
      <4> QED BY <3>0, <4>1 DEF Idle
    <3>3. CASE LoadRework(s)
      <4>1. PICK act, o, p, i : Receive(s, [Loading(act, o, p) EXCEPT !.item = i])
        BY <3>3 DEF LoadRework
      <4> QED BY <3>0, <4>1 DEF Loading, Idle
    <3>4. CASE LoadInspection(s)
      <4>1. PICK act, o, p, i, x, y, b :
              Receive(s, [Loading(act, o, p) EXCEPT !.item = i, !.result = x, !.sawResult = y,
                                                    !.sawTimed = b])
        BY <3>4 DEF LoadInspection
      <4> QED BY <3>0, <4>1 DEF Loading, Idle
    <3> QED BY <1>2, <3>2, <3>3, <3>4, <3>5 DEF Load
  <2> QED BY <1>0, <2>1, <2>2, QuietFaiInv DEF Keep
<1>3. ASSUME NEW s \in Sessions, Decide(s) PROVE FaiInv'
  <2> DEFINE r == req[s]
  <2>1. /\ r \in Request /\ r.phase = "loaded" /\ Wellformed(r)
        /\ opStatus' = opStatus /\ fai' = fai
        /\ \A t \in Sessions \ {s} : req'[t] = req[t]
    BY <1>0, <1>3 DEF TypeInv, TypeOK, RequestsWellformed, Decide, CreateProductionOrder,
       ReleaseProductionOrder, StartProductionOrder, CompleteProductionOrder, StartOperation,
       CompleteOperation, CloseReworkOrder, CompleteInprocessInspection, RecordProductionLog,
       Check, db
  <2>2. CASE CompleteOperation(s)
    <3>1. \/ req'[s] = Idle
          \/ /\ req'[s].op = r.op
             /\ req'[s].setFai = (IsFirstOp(r.op) /\ r.op \notin fai)
      BY <1>0, <2>1, <2>2 DEF CompleteOperation, Check, TypeOK, Request
    <3> QED BY <1>0, <2>1, <3>1
          DEF FaiInv, FirstOpsTriggered, CheckedCompletionHasFai, IsFirstOp, OpsOf
  <2>3. CASE ~CompleteOperation(s)
    <3>1. req'[s].setOp # "Completed"
      <4>1. r.setOp = Keep
        BY <2>1 DEF Wellformed
      <4>2. ASSUME NEW act, NEW ok, NEW d, Check(s, act, ok, d), d \in Request,
                   d.setOp # "Completed"
            PROVE  req'[s].setOp # "Completed"
        BY <1>0, <4>2 DEF Check, TypeOK, Request
      <4>3. CASE StartOperation(s)
        <5> DEFINE d == [r EXCEPT !.setOp = Write(r.sawOp, "InProgress"),
                                  !.setOrder = Write(r.sawOrder, "InProgress")]
        <5>1. /\ Write(r.sawOp, "InProgress") \in (OpStatus \cup {Keep}) \ {"Completed"}
              /\ Write(r.sawOrder, "InProgress") \in OrderStatus \cup {Keep}
          BY DEF Write, OpStatus, OrderStatus, Keep
        <5>2. d \in Request /\ d.setOp # "Completed"
          BY <2>1, <5>1 DEF Request
        <5>3. PICK ok : Check(s, "start_operation", ok, d)
          BY <4>3 DEF StartOperation
        <5> HIDE DEF d
        <5> QED BY <4>2, <5>2, <5>3
      <4>4. ASSUME NEW act, NEW ok, NEW d, Check(s, act, ok, d), d.setOp = r.setOp,
                   d.phase = r.phase, DOMAIN d = DOMAIN r
            PROVE  req'[s].setOp # "Completed"
        BY <1>0, <2>1, <4>1, <4>4 DEF Check, TypeOK, Request, Keep
      <4>5. ASSUME NEW act, NEW ok, NEW v, Check(s, act, ok, [r EXCEPT !.setOrder = v])
            PROVE  req'[s].setOp # "Completed"
        BY <2>1, <4>4, <4>5 DEF Request
      <4>6. CASE CreateProductionOrder(s) \/ ReleaseProductionOrder(s)
        BY <4>5, <4>6 DEF CreateProductionOrder, ReleaseProductionOrder
      <4>7. CASE StartProductionOrder(s) \/ CompleteProductionOrder(s)
        BY <4>5, <4>7 DEF StartProductionOrder, CompleteProductionOrder
      <4>8. CASE CloseReworkOrder(s)
        BY <4>4, <4>8 DEF CloseReworkOrder
      <4>9. CASE CompleteInprocessInspection(s)
        <5>1. PICK ok, res, v : Check(s, "complete_inprocess_inspection", ok,
                                      [r EXCEPT !.setResult = res, !.setTime = v])
          BY <4>9 DEF CompleteInprocessInspection
        <5> QED BY <2>1, <4>4, <5>1 DEF Request
      <4>10. CASE RecordProductionLog(s)
        <5>1. PICK ok, v : Check(s, "record_production_log", ok, [r EXCEPT !.amount = v])
          BY <4>10 DEF RecordProductionLog
        <5> QED BY <2>1, <4>4, <5>1 DEF Request
      <4> QED BY <1>3, <2>3, <4>3, <4>6, <4>7, <4>8, <4>9, <4>10 DEF Decide
    <3> QED BY <1>0, <2>1, <3>1, QuietFaiInv
  <2> QED BY <2>2, <2>3
<1>4. ASSUME NEW s \in Sessions, Commit(s) PROVE FaiInv'
  <2> DEFINE r == req[s]
  <2>1. /\ \A t \in Sessions \ {s} : req'[t] = req[t]
        /\ req'[s] = Idle
    BY <1>0, <1>4 DEF Commit, TypeOK
  <2>2. CASE opStatus' = opStatus /\ fai' = fai
    BY <1>0, <2>1, <2>2, QuietFaiInv
  <2>3. CASE Apply(r)
    <3>1. fai \subseteq fai' /\ (r.setFai => r.op \in fai')
      BY <2>3 DEF Apply
    <3>2. \A p \in Ops : opStatus'[p] = "Completed" =>
            opStatus[p] = "Completed" \/ (p = r.op /\ r.setOp = "Completed")
      BY <1>0, <2>3 DEF Apply, TypeOK
    <3>3. FirstOpsTriggered'
      BY <3>1, <3>2 DEF FaiInv, FirstOpsTriggered, CheckedCompletionHasFai, IsFirstOp, OpsOf
    <3> QED BY <1>0, <2>1, <3>1, <3>3 DEF FaiInv, CheckedCompletionHasFai, IsFirstOp, OpsOf
  <2> QED BY <1>4, <2>2, <2>3 DEF Commit, db
<1>5. ASSUME NEW s \in Sessions, Abort(s) PROVE FaiInv'
  <2>1. \A t \in Sessions : req'[t] = req[t] \/ req'[t] = Idle
    BY <1>0, <1>5 DEF Abort, TypeOK
  <2> QED BY <1>0, <1>5, <2>1, QuietFaiInv DEF Abort, db
<1>6. ASSUME NEW s \in Sessions, Insert(s) PROVE FaiInv'
  BY <1>0, <1>6, QuietFaiInv
     DEF Insert, RecordInprocessInspection, CreateInprocessInspection, CreateReworkOrder
<1>7. ASSUME NEW s \in Sessions, Elsewhere(s) PROVE FaiInv'
  BY <1>0, <1>7, QuietFaiInv DEF Elsewhere, MarkObsolete, ReportBreakdown, ReturnToService, db
<1>8. ASSUME NEW s \in Sessions, LockOrder(s) \/ LockOperation(s) PROVE FaiInv'
  <2>1. PICK row, x : LockDone(s, row, x)
    BY <1>0, <1>8, LockingEffect
  <2>2. /\ opStatus' = opStatus /\ fai' = fai /\ opStatus \in [Ops -> OpStatus]
        /\ \A t \in Sessions : /\ req'[t].setOp = req[t].setOp /\ req'[t].op = req[t].op
                               /\ req'[t].setFai = req[t].setFai
    BY <1>0, <2>1 DEF LockDone, db, TypeOK
  <2> QED BY <1>0, <2>2 DEF FaiInv, FirstOpsTriggered, CheckedCompletionHasFai, IsFirstOp, OpsOf
<1> QED BY <1>1, <1>2, <1>3, <1>4, <1>5, <1>6, <1>7, <1>8 DEF Next

\* Whichever of several racing completions commits, a completed first
\* operation has its FAI trigger: a completion that counts on another's
\* insert has seen it committed, and one that inserts it twice is rolled back.
THEOREM FirstOperationTriggersFai == Spec => []FirstOpHasFai
<1>1. Init => FaiInv
  BY InitTypeInv, IdleType
     DEF Init, FaiInv, FirstOpsTriggered, CheckedCompletionHasFai, Idle, Keep
<1>2. FaiInv => FirstOpHasFai
  BY ProductionConstants DEF FaiInv, FirstOpsTriggered, FirstOpHasFai, IsFirstOp, OpsOf
<1> QED BY <1>1, <1>2, NextFaiInv, PTL DEF Spec

-----------------------------------------------------------------------------
(* One request at a time.                                                  *)

OneSession == \A s, t \in Sessions : s = t

\* The rows are still what the request saw of them.
SawCurrent(r) ==
  r.phase # "idle" =>
    /\ r.act \in Handlers
    /\ r.act \notin {"create_production_order", "complete_inprocess_inspection"} => Exists(r.order)
    /\ r.phase # "waiting" => r.sawOrder = orderStatus[r.order]
    /\ r.phase # "waiting" /\ r.act \notin OrderRequests => r.sawOp = opStatus[r.op]
    /\ r.act = "complete_inprocess_inspection" =>
         r.sawResult = inspections[r.op][r.item].result
    /\ r.act \notin OrderRequests \cup {"record_production_log"} => OrderOf[r.op] = r.order

LastOpen(p) == \A q \in OpsOf(OrderOf[p]) \ {p} : opStatus[q] = "Completed"

\* What the handler has decided still follows from them.
DecidedOrder(r) ==
  /\ r.act = "create_production_order" => r.sawOrder = "Absent" /\ r.setOrder = "Draft"
  /\ r.act = "release_production_order" => r.sawOrder = "Draft" /\ r.setOrder = "Released"
  /\ r.act = "start_production_order" =>
       /\ r.sawOrder \in {"Released", "InProgress"}
       /\ r.setOrder = Write(r.sawOrder, "InProgress")
  /\ r.act = "complete_production_order" =>
       /\ r.sawOrder \in {"Released", "InProgress"} /\ r.setOrder = "Completed"
       /\ ReadyForCompletion(r.order) /\ \A p \in OpsOf(r.order) : opStatus[p] = "Completed"

DecidedOp(r) ==
  /\ r.act = "start_operation" =>
       /\ r.sawOrder \in {"Released", "InProgress"} /\ r.sawOp \in {"Pending", "InProgress"}
       /\ PreviousOpsCompleted(r.op)
       /\ r.setOrder = Write(r.sawOrder, "InProgress")
       /\ r.setOp = Write(r.sawOp, "InProgress")
  /\ r.act = "complete_operation" =>
       /\ r.sawOp = "InProgress" /\ LatestInspectionPassed(r.op) /\ r.setOp = "Completed"
       /\ r.setOrder = Write(r.sawOrder,
                             IF LastOpen(r.op) /\ ReadyForCompletion(r.order)
                             THEN "Completed" ELSE "InProgress")
  /\ r.act = "complete_inprocess_inspection" =>
       /\ r.result # "Pending" /\ (r.sawOp = "Completed" => r.result = "Pass")
       /\ r.setResult = Write(r.sawResult, r.result)
  /\ r.act \in {"close_rework_order", "complete_inprocess_inspection", "record_production_log"} =>
       r.setOrder = Keep /\ r.setOp = Keep

Current(r) == SawCurrent(r) /\ (r.phase = "decided" => DecidedOrder(r) /\ DecidedOp(r))

\* The tables agree with one another.
OrdersConsistent ==
  /\ \A p \in Ops : opStatus[p] # "Pending" => orderStatus[OrderOf[p]] \in {"InProgress", "Completed"}
  /\ \A p \in Ops : orderStatus[OrderOf[p]] = "Completed" => opStatus[p] = "Completed"
  /\ \A i \in DOMAIN reworks : Exists(OrderOf[reworks[i].op])
  /\ Len(reworks) <= MaxReworks
  /\ SequenceControlled /\ CompletedOpHasPass

SerialInv == TypeInv /\ OrdersConsistent /\ \A s \in Sessions : Current(req[s])

-----------------------------------------------------------------------------
LEMMA InitSerialInv == ASSUME Init PROVE SerialInv
<1>1. TypeInv /\ \A s \in Sessions : req[s].phase = "idle"
  BY InitTypeInv DEF Init, Idle
<1>2. OrdersConsistent
  BY ProductionConstants DEF Init, OrdersConsistent, SequenceControlled, CompletedOpHasPass
<1> QED BY <1>1, <1>2 DEF SerialInv, Current, SawCurrent

LEMMA CurrentKept ==
  ASSUME UNCHANGED db, NEW r, Current(r)
  PROVE  Current(r)'
  BY DEF db, Current, SawCurrent, DecidedOrder, DecidedOp, Exists, ReadyForCompletion, HasOpenRework,
     PreviousOpsCompleted, LatestInspectionPassed, IsLatest, LastOpen, OpsOf, Write

LEMMA ConsistentKept ==
  ASSUME UNCHANGED <<orderStatus, opStatus, inspections, reworks>>, OrdersConsistent
  PROVE  OrdersConsistent'
  BY DEF OrdersConsistent, SequenceControlled, CompletedOpHasPass, Exists

LEMMA IdleCurrent == Idle.phase = "idle" /\ Idle.act = "none" /\ Current(Idle)
  BY DEF Idle, Current, SawCurrent

\* The one session has a request that is current, and nothing else has changed.
LEMMA WaitSerialInv ==
  ASSUME OneSession, SerialInv, TypeInv', NEW s \in Sessions, NEW r,
         req' = [req EXCEPT ![s] = r], UNCHANGED db, Current(r)
  PROVE  SerialInv'
<1>1. \A t \in Sessions : req'[t] = r
  BY DEF OneSession, SerialInv, TypeInv, TypeOK
<1>2. Current(r)'
  BY CurrentKept
<1>3. \A t \in Sessions : Current(req[t])'
  BY <1>1, <1>2 DEF Current, SawCurrent, DecidedOrder, DecidedOp
<1>4. OrdersConsistent'
  BY ConsistentKept DEF SerialInv, db
<1> QED BY <1>3, <1>4 DEF SerialInv

LEMMA LoadingSaw ==
  ASSUME TypeOK, NEW act, NEW o \in Orders, NEW p \in Ops \cup {None}
  PROVE  LET r == Loading(act, o, p) IN
         /\ r.act = act /\ r.phase = "loaded" /\ r.order = o /\ r.op = p
         /\ r.sawOrder = orderStatus[o] /\ (p \in Ops => r.sawOp = opStatus[p])
  BY ProductionConstants DEF Loading, Idle

LEMMA LockSerialInv ==
  ASSUME OneSession, SerialInv, TypeInv', NEW s \in Sessions, LockOrder(s) \/ LockOperation(s)
  PROVE  SerialInv'
<1> DEFINE r == req[s]
<1>0. /\ TypeInv /\ TypeOK /\ r \in Request /\ Wellformed(r) /\ Current(r)
      /\ r.phase \in {"waiting", "decided"}
  BY DEF SerialInv, TypeInv, TypeOK, RequestsWellformed, LockOrder, LockOperation, NeedsOrder, NeedsOp
<1>1. PICK row, x : LockDone(s, row, x)
  BY <1>0, LockingEffect
<1>2. CASE x = [Loading(r.act, r.order, r.op) EXCEPT !.held = Rows] /\ r.phase = "waiting"
  <2>1. r.act = "record_production_log" /\ r.order \in Orders /\ r.op \in Ops
    BY <1>0, <1>2 DEF Wellformed, OrderRequests
  <2> DEFINE l == Loading(r.act, r.order, r.op)
  <2>2. /\ l \in Request /\ l.act = r.act /\ l.phase = "loaded" /\ l.order = r.order /\ l.op = r.op
        /\ l.sawOrder = orderStatus[r.order] /\ l.sawOp = opStatus[r.op]
    <3>1. l \in Request
      BY <1>0, <2>1, LoadingType DEF Handlers
    <3> QED BY <1>0, <2>1, <3>1, LoadingSaw
  <2>3. x = [l EXCEPT !.held = Rows]
    BY <1>2
  <2> HIDE DEF l
  <2>4. /\ x.act = r.act /\ x.phase = "loaded" /\ x.order = r.order /\ x.op = r.op
        /\ x.sawOrder = orderStatus[r.order] /\ x.sawOp = opStatus[r.op]
    BY <2>2, <2>3 DEF Request
  <2>5. Current(x)
    BY <1>0, <1>2, <2>1, <2>4 DEF Current, SawCurrent, Exists
  <2> QED BY <1>1, <2>5, WaitSerialInv DEF LockDone
<1>3. CASE x = [r EXCEPT !.held = @ \cup {row}]
  <2>1. /\ x.act = r.act /\ x.phase = r.phase /\ x.order = r.order /\ x.op = r.op
        /\ x.item = r.item /\ x.result = r.result
        /\ x.sawOrder = r.sawOrder /\ x.sawOp = r.sawOp /\ x.sawResult = r.sawResult
        /\ x.setOrder = r.setOrder /\ x.setOp = r.setOp /\ x.setResult = r.setResult
    BY <1>0, <1>3 DEF Request
  <2>2. Current(x)
    BY <1>0, <2>1 DEF Current, SawCurrent, DecidedOrder, DecidedOp
  <2> QED BY <1>1, <2>2, WaitSerialInv DEF LockDone
<1> QED BY <1>1, <1>2, <1>3 DEF LockDone

LEMMA LoadSerialInv ==
  ASSUME OneSession, SerialInv, TypeInv', NEW s \in Sessions, Load(s)
  PROVE  SerialInv'
<1>0. TypeOK /\ \A i \in DOMAIN reworks : Exists(OrderOf[reworks[i].op])
  BY DEF SerialInv, TypeInv, OrdersConsistent
<1>1. ASSUME NEW r, Receive(s, r), r.phase \in {"waiting", "loaded"}, SawCurrent(r)
      PROVE  SerialInv'
  BY <1>1, WaitSerialInv DEF Receive, Current
<1>2. CASE LoadOrder(s)
  <2>1. PICK o \in Orders, act \in OrderRequests :
          /\ Exists(o) \/ act = "create_production_order"
          /\ Receive(s, Loading(act, o, None))
    BY <1>2 DEF LoadOrder
  <2> DEFINE l == Loading(act, o, None)
  <2>2. /\ l.act = act /\ l.phase = "loaded" /\ l.order = o /\ l.sawOrder = orderStatus[o]
        /\ Receive(s, l)
    BY <1>0, <2>1, LoadingSaw
  <2> HIDE DEF l
  <2> QED BY <1>1, <2>1, <2>2 DEF SawCurrent, Handlers, OrderRequests, OpRequests
<1>3. CASE LoadOperation(s)
  <2>1. PICK p \in Ops, act \in OpRequests :
          Exists(OrderOf[p]) /\ Receive(s, Loading(act, OrderOf[p], p))
    BY <1>3 DEF LoadOperation
  <2> DEFINE l == Loading(act, OrderOf[p], p)
  <2>2. /\ l.act = act /\ l.phase = "loaded" /\ l.order = OrderOf[p] /\ l.op = p
        /\ l.sawOrder = orderStatus[OrderOf[p]] /\ l.sawOp = opStatus[p]
        /\ Receive(s, l)
    BY <1>0, <2>1, LoadingSaw, ProductionConstants
  <2> HIDE DEF l
  <2> QED BY <1>1, <2>1, <2>2 DEF SawCurrent, Handlers, OrderRequests, OpRequests
<1>4. CASE LoadRework(s)
  <2>1. PICK i \in DOMAIN reworks :
          Receive(s, [Loading("close_rework_order", OrderOf[reworks[i].op], reworks[i].op)
                        EXCEPT !.item = i])
    BY <1>4 DEF LoadRework
  <2> DEFINE p == reworks[i].op
             l == Loading("close_rework_order", OrderOf[p], p)
             r == [l EXCEPT !.item = i]
  <2>2. p \in Ops /\ OrderOf[p] \in Orders /\ Exists(OrderOf[p])
    <3>1. reworks[i] \in Rework
      BY <1>0, RowType DEF TypeOK
    <3> QED BY <1>0, <3>1, ProductionConstants DEF Rework
  <2> HIDE DEF p
  <2>3. /\ l \in Request /\ l.act = "close_rework_order" /\ l.phase = "loaded" /\ l.order = OrderOf[p]
        /\ l.op = p /\ l.sawOrder = orderStatus[OrderOf[p]] /\ l.sawOp = opStatus[p]
    BY <1>0, <2>2, LoadingSaw, LoadingType DEF Handlers
  <2>4. Receive(s, r)
    BY <2>1 DEF p
  <2> HIDE DEF l
  <2>5. /\ r.act = "close_rework_order" /\ r.phase = "loaded" /\ r.order = OrderOf[p]
        /\ r.op = p /\ r.sawOrder = orderStatus[OrderOf[p]] /\ r.sawOp = opStatus[p]
    BY <2>3 DEF Request
  <2> HIDE DEF r
  <2> QED BY <1>1, <2>2, <2>4, <2>5 DEF SawCurrent, Handlers
<1>5. CASE LoadInspection(s)
  <2>1. PICK p \in Ops, result \in InspectionResult : \E i \in DOMAIN inspections[p] :
          Receive(s, [Loading("complete_inprocess_inspection", OrderOf[p], p)
                        EXCEPT !.item = i, !.result = result,
                               !.sawResult = inspections[p][i].result,
                               !.sawTimed = inspections[p][i].timed])
    BY <1>5 DEF LoadInspection
  <2> DEFINE l == Loading("complete_inprocess_inspection", OrderOf[p], p)
  <2>2. PICK i, b : Receive(s, [l EXCEPT !.item = i, !.result = result,
                                       !.sawResult = inspections[p][i].result, !.sawTimed = b])
    BY <2>1
  <2> DEFINE saw == inspections[p][i].result
  <2>3. /\ l \in Request /\ l.act = "complete_inprocess_inspection" /\ l.phase = "loaded"
        /\ l.order = OrderOf[p]
        /\ l.op = p /\ l.sawOrder = orderStatus[OrderOf[p]] /\ l.sawOp = opStatus[p]
    <3>1. OrderOf[p] \in Orders
      BY ProductionConstants
    <3> QED BY <1>0, <3>1, LoadingSaw, LoadingType DEF Handlers
  <2> HIDE DEF l
  <2> DEFINE r == [l EXCEPT !.item = i, !.result = result, !.sawResult = saw, !.sawTimed = b]
  <2>4. /\ r.act = "complete_inprocess_inspection" /\ r.phase = "loaded" /\ r.order = OrderOf[p]
        /\ r.op = p /\ r.sawOrder = orderStatus[OrderOf[p]] /\ r.sawOp = opStatus[p]
        /\ r.item = i /\ r.sawResult = inspections[p][i].result
        /\ Receive(s, r)
    BY <2>2, <2>3 DEF Request
  <2> HIDE DEF r
  <2> QED BY <1>1, <2>4 DEF SawCurrent, Handlers
<1>6. CASE ReceiveLog(s)
  <2>1. PICK o \in Orders, p \in Ops :
          /\ Exists(o)
          /\ Receive(s, [Idle EXCEPT !.act = "record_production_log", !.phase = "waiting",
                                     !.order = o, !.op = p])
    BY <1>6 DEF ReceiveLog
  <2> DEFINE l == [Idle EXCEPT !.act = "record_production_log", !.phase = "waiting",
                               !.order = o, !.op = p]
  <2>2. l.act = "record_production_log" /\ l.phase = "waiting" /\ l.order = o /\ Receive(s, l)
    BY <2>1 DEF Idle
  <2> HIDE DEF l
  <2> QED BY <1>1, <2>1, <2>2 DEF SawCurrent, Handlers
<1> QED BY <1>2, <1>3, <1>4, <1>5, <1>6 DEF Load

LEMMA DecideSerialInv ==
  ASSUME OneSession, SerialInv, TypeInv', NEW s \in Sessions, Decide(s)
  PROVE  SerialInv'
<1> DEFINE r == req[s]
<1>0. TypeOK /\ r \in Request /\ Wellformed(r) /\ SawCurrent(r)
  BY DEF SerialInv, TypeInv, TypeOK, RequestsWellformed, Current
<1>1. ASSUME NEW act, NEW ok \in BOOLEAN, NEW d \in Request, Check(s, act, ok, d),
             d.act = r.act, d.order = r.order, d.op = r.op, d.sawOrder = r.sawOrder,
             d.sawOp = r.sawOp, d.item = r.item, d.sawResult = r.sawResult,
             ok => DecidedOrder(d) /\ DecidedOp(d)
      PROVE  SerialInv'
  <2>1. /\ UNCHANGED db /\ r.phase = "loaded"
        /\ req' = [req EXCEPT ![s] = IF ok THEN [d EXCEPT !.phase = "decided"] ELSE Idle]
    BY <1>1 DEF Check
  <2>2. CASE ok
    <3> DEFINE e == [d EXCEPT !.phase = "decided"]
    <3>1. /\ e.act = d.act /\ e.order = d.order /\ e.op = d.op /\ e.phase = "decided"
          /\ e.sawOrder = d.sawOrder /\ e.sawOp = d.sawOp /\ e.setOrder = d.setOrder
          /\ e.setOp = d.setOp /\ e.result = d.result /\ e.item = d.item
          /\ e.sawResult = d.sawResult /\ e.setResult = d.setResult
      BY <1>1 DEF Request
    <3>2. req' = [req EXCEPT ![s] = e]
      BY <2>1, <2>2
    <3> HIDE DEF e
    <3>3. Current(e)
      BY <1>0, <1>1, <2>1, <2>2, <3>1 DEF Current, SawCurrent, DecidedOrder, DecidedOp
    <3> QED BY <2>1, <3>2, <3>3, WaitSerialInv
  <2>3. CASE ~ok
    BY <2>1, <2>3, IdleCurrent, WaitSerialInv
  <2> QED BY <2>2, <2>3
<1>2. ASSUME r.phase = "loaded"
      PROVE  /\ r.sawOrder = orderStatus[r.order] /\ r.order \in Orders /\ r.sawOrder \in OrderStatus
             /\ r.act \in OrderRequests /\ r.act # "create_production_order" => r.sawOrder # "Absent"
             /\ r.act \in OpRequests => /\ r.sawOrder # "Absent" /\ r.op \in Ops
                                        /\ OrderOf[r.op] = r.order /\ r.sawOp = opStatus[r.op]
             /\ r.setOrder = Keep /\ r.setOp = Keep
  BY <1>0, <1>2 DEF SawCurrent, Wellformed, Exists, OrderRequests, OpRequests, TypeOK
<1>3. ASSUME NEW st \in OrderStatus \cup {Keep}
      PROVE  LET d == [r EXCEPT !.setOrder = st] IN
             /\ d \in Request /\ d.act = r.act /\ d.order = r.order /\ d.op = r.op
             /\ d.sawOrder = r.sawOrder /\ d.sawOp = r.sawOp /\ d.setOrder = st
             /\ d.item = r.item /\ d.sawResult = r.sawResult
  BY <1>0 DEF Request
<1>4. CASE CreateProductionOrder(s)
  <2> DEFINE d == [r EXCEPT !.setOrder = "Draft"]
             ok == r.sawOrder = "Absent" /\ CardReleased(r.order)
  <2>1. Check(s, "create_production_order", ok, d) /\ r.act = "create_production_order"
    BY <1>4 DEF CreateProductionOrder, Check
  <2>2. /\ d \in Request /\ d.act = r.act /\ d.order = r.order /\ d.op = r.op
        /\ d.sawOrder = r.sawOrder /\ d.sawOp = r.sawOp /\ d.setOrder = "Draft"
        /\ d.item = r.item /\ d.sawResult = r.sawResult
    BY <1>3 DEF OrderStatus
  <2>3. ok \in BOOLEAN /\ (ok => r.sawOrder = "Absent")
    OBVIOUS
  <2> HIDE DEF d, ok
  <2> QED BY <1>1, <2>1, <2>2, <2>3 DEF DecidedOrder, DecidedOp
<1>5. CASE ReleaseProductionOrder(s)
  <2> DEFINE d == [r EXCEPT !.setOrder = "Released"]
             ok == CardReleased(r.order) /\ r.sawOrder = "Draft"
  <2>1. Check(s, "release_production_order", ok, d) /\ r.act = "release_production_order"
    BY <1>5 DEF ReleaseProductionOrder, Check
  <2>2. /\ d \in Request /\ d.act = r.act /\ d.order = r.order /\ d.op = r.op
        /\ d.sawOrder = r.sawOrder /\ d.sawOp = r.sawOp /\ d.setOrder = "Released"
        /\ d.item = r.item /\ d.sawResult = r.sawResult
    BY <1>3 DEF OrderStatus
  <2>3. ok \in BOOLEAN /\ (ok => r.sawOrder = "Draft")
    OBVIOUS
  <2> HIDE DEF d, ok
  <2> QED BY <1>1, <2>1, <2>2, <2>3 DEF DecidedOrder, DecidedOp
<1>6. CASE StartProductionOrder(s)
  <2> DEFINE st == Write(r.sawOrder, "InProgress")
             d == [r EXCEPT !.setOrder = st]
             ok == CardReleased(r.order) /\ r.sawOrder \notin {"Draft", "Completed"}
  <2>1. Check(s, "start_production_order", ok, d) /\ r.act = "start_production_order"
        /\ r.phase = "loaded"
    BY <1>6 DEF StartProductionOrder, Check
  <2>2. /\ d \in Request /\ d.act = r.act /\ d.order = r.order /\ d.op = r.op
        /\ d.sawOrder = r.sawOrder /\ d.sawOp = r.sawOp /\ d.setOrder = st
        /\ d.item = r.item /\ d.sawResult = r.sawResult
    BY <1>3 DEF OrderStatus, Write
  <2>3. ok \in BOOLEAN /\ (ok => r.sawOrder \in {"Released", "InProgress"})
    BY <1>2, <2>1 DEF OrderStatus, OrderRequests
  <2> HIDE DEF d, ok
  <2> QED BY <1>1, <2>1, <2>2, <2>3 DEF DecidedOrder, DecidedOp
<1>7. CASE CompleteProductionOrder(s)
  <2> DEFINE d == [r EXCEPT !.setOrder = "Completed"]
             ok == /\ r.sawOrder \notin {"Draft", "Completed"}
                   /\ \A p \in OpsOf(r.order) : opStatus[p] = "Completed"
                   /\ ReadyForCompletion(r.order)
  <2>1. Check(s, "complete_production_order", ok, d) /\ r.act = "complete_production_order"
        /\ r.phase = "loaded"
    BY <1>7 DEF CompleteProductionOrder, Check
  <2>2. /\ d \in Request /\ d.act = r.act /\ d.order = r.order /\ d.op = r.op
        /\ d.sawOrder = r.sawOrder /\ d.sawOp = r.sawOp /\ d.setOrder = "Completed"
        /\ d.item = r.item /\ d.sawResult = r.sawResult
    BY <1>3 DEF OrderStatus
  <2>3. /\ ok \in BOOLEAN
        /\ ok => /\ r.sawOrder \in {"Released", "InProgress"} /\ ReadyForCompletion(r.order)
                 /\ \A p \in OpsOf(r.order) : opStatus[p] = "Completed"
    BY <1>2, <2>1 DEF OrderStatus, OrderRequests
  <2> HIDE DEF d, ok
  <2> QED BY <1>1, <2>1, <2>2, <2>3 DEF DecidedOrder, DecidedOp
<1>8. CASE StartOperation(s)
  <2> DEFINE st == Write(r.sawOrder, "InProgress")
             so == Write(r.sawOp, "InProgress")
             d == [r EXCEPT !.setOp = so, !.setOrder = st]
             ok == /\ CardReleased(r.order) /\ r.sawOrder \notin {"Draft", "Completed"}
                   /\ r.sawOp # "Completed" /\ MachineAvailable(r.op) /\ PreviousOpsCompleted(r.op)
  <2>1. Check(s, "start_operation", ok, d) /\ r.act = "start_operation" /\ r.phase = "loaded"
    BY <1>8 DEF StartOperation, Check
  <2>2. st \in OrderStatus \cup {Keep} /\ so \in OpStatus \cup {Keep}
    BY DEF Write, OrderStatus, OpStatus
  <2>3. /\ d \in Request /\ d.act = r.act /\ d.order = r.order /\ d.op = r.op
        /\ d.sawOrder = r.sawOrder /\ d.sawOp = r.sawOp /\ d.setOrder = st /\ d.setOp = so
        /\ d.item = r.item /\ d.sawResult = r.sawResult
    <3> HIDE DEF st, so
    <3> QED BY <1>0, <2>2 DEF Request
  <2>4. /\ ok \in BOOLEAN
        /\ ok => /\ r.sawOrder \in {"Released", "InProgress"} /\ r.sawOp \in {"Pending", "InProgress"}
                 /\ PreviousOpsCompleted(r.op)
    BY <1>0, <1>2, <2>1 DEF OrderStatus, OpRequests, OpStatus, Request
  <2> HIDE DEF d, ok
  <2> QED BY <1>1, <2>1, <2>3, <2>4 DEF DecidedOrder, DecidedOp
<1>9. CASE CompleteOperation(s)
  <2> DEFINE noOtherOpen == \A q \in OpsOf(r.order) \ {r.op} : opStatus[q] = "Completed"
             next == IF noOtherOpen /\ ReadyForCompletion(r.order)
                     THEN "Completed" ELSE "InProgress"
             st == Write(r.sawOrder, next)
             f == IsFirstOp(r.op) /\ r.op \notin fai
             ok == /\ r.sawOp # "Completed" /\ Started(r.sawOp)
                   /\ LatestInspectionPassed(r.op)
  <2>0. PICK by \in BOOLEAN :
          Check(s, "complete_operation", ok,
                [r EXCEPT !.setOp = "Completed", !.setOrder = st, !.setBy = by, !.setFai = f])
    BY <1>9 DEF CompleteOperation
  <2> DEFINE d == [r EXCEPT !.setOp = "Completed", !.setOrder = st, !.setBy = by, !.setFai = f]
  <2>1. Check(s, "complete_operation", ok, d) /\ r.act = "complete_operation" /\ r.phase = "loaded"
    BY <2>0 DEF Check
  <2>2. /\ st \in OrderStatus \cup {Keep} /\ f \in BOOLEAN
        /\ st = Write(r.sawOrder, IF LastOpen(r.op) /\ ReadyForCompletion(r.order)
                                  THEN "Completed" ELSE "InProgress")
    BY <1>2, <2>1 DEF Write, OrderStatus, LastOpen, OpRequests
  <2>3. /\ d \in Request /\ d.act = r.act /\ d.order = r.order /\ d.op = r.op
        /\ d.sawOrder = r.sawOrder /\ d.sawOp = r.sawOp /\ d.setOrder = st /\ d.setOp = "Completed"
        /\ d.item = r.item /\ d.sawResult = r.sawResult
    <3>0. st \in OrderStatus \cup {Keep} /\ f \in BOOLEAN /\ "Completed" \in OpStatus \cup {Keep}
      BY <2>2 DEF OpStatus
    <3> HIDE DEF st, f
    <3>1. d \in Request
      <4> HIDE DEF r
      <4> QED BY <1>0, <3>0 DEF Request
    <3> QED BY <1>0, <3>1 DEF Request
  <2>4. ok \in BOOLEAN /\ (ok => r.sawOp = "InProgress" /\ LatestInspectionPassed(r.op))
    BY <1>0 DEF OpStatus, Started, Request
  <2> HIDE DEF d, ok, st
  <2> QED BY <1>1, <2>1, <2>2, <2>3, <2>4 DEF DecidedOrder, DecidedOp
<1>10. CASE CloseReworkOrder(s)
  <2>1. PICK ok \in BOOLEAN :
          Check(s, "close_rework_order", ok, r) /\ r.act = "close_rework_order" /\ r.phase = "loaded"
    BY <1>10 DEF CloseReworkOrder, Check
  <2> QED BY <1>0, <1>1, <1>2, <2>1 DEF DecidedOrder, DecidedOp
<1>11. CASE CompleteInprocessInspection(s)
  <2> DEFINE ok == r.result # "Pending" /\ (r.sawOp = "Completed" => r.result = "Pass")
             time == IF r.sawTimed THEN 0 ELSE clock[r.op]
             res == Write(r.sawResult, r.result)
             d == [r EXCEPT !.setResult = res, !.setTime = time]
  <2>1. /\ Check(s, "complete_inprocess_inspection", ok, d) /\ ok \in BOOLEAN
        /\ r.act = "complete_inprocess_inspection" /\ r.phase = "loaded"
    BY <1>11 DEF CompleteInprocessInspection, Check
  <2>2. time \in Nat /\ res \in InspectionResult \cup {Keep}
    BY <1>0, <2>1 DEF Wellformed, OrderRequests, TypeOK, Write, Request
  <2>3. /\ d \in Request /\ d.act = r.act /\ d.order = r.order /\ d.op = r.op
        /\ d.sawOrder = r.sawOrder /\ d.sawOp = r.sawOp /\ d.setOrder = r.setOrder
        /\ d.setOp = r.setOp /\ d.result = r.result
        /\ d.item = r.item /\ d.sawResult = r.sawResult /\ d.setResult = res
    <3> HIDE DEF time, res
    <3> QED BY <1>0, <2>2 DEF Request
  <2> HIDE DEF d
  <2> QED BY <1>1, <1>2, <2>1, <2>3 DEF DecidedOrder, DecidedOp
<1>12. CASE RecordProductionLog(s)
  <2>1. PICK n \in Nat, ok \in BOOLEAN : Check(s, "record_production_log", ok, [r EXCEPT !.amount = n])
    <3>1. \A x \in LogQuantities : Stored(x) \in Nat
      BY StoredType, ProductionConstants
    <3>2. PICK a \in LogQuantities, b \in LogQuantities, ok \in BOOLEAN :
            Check(s, "record_production_log", ok, [r EXCEPT !.amount = Stored(a) + Stored(b)])
      BY <1>12 DEF RecordProductionLog
    <3>3. Stored(a) + Stored(b) \in Nat
      BY <3>1
    <3> QED BY <3>2, <3>3
  <2> DEFINE d == [r EXCEPT !.amount = n]
  <2>2. /\ d \in Request /\ d.act = r.act /\ d.order = r.order /\ d.op = r.op
        /\ d.sawOrder = r.sawOrder /\ d.sawOp = r.sawOp /\ d.setOrder = r.setOrder
        /\ d.setOp = r.setOp /\ d.item = r.item /\ d.sawResult = r.sawResult
    BY <1>0, <2>1 DEF Request
  <2>3. Check(s, "record_production_log", ok, d) /\ r.act = "record_production_log" /\ r.phase = "loaded"
    BY <2>1 DEF Check
  <2> HIDE DEF d
  <2> QED BY <1>1, <1>2, <2>2, <2>3 DEF DecidedOrder, DecidedOp
<1> QED BY <1>4, <1>5, <1>6, <1>7, <1>8, <1>9, <1>10, <1>11, <1>12 DEF Decide

-----------------------------------------------------------------------------
(* What the steps of one session come to: indivisible operations on the    *)
(* tables.                                                                 *)

NoChange == UNCHANGED <<orderStatus, opStatus, inspections, reworks, logged>>

MovesOrder(o, status) ==
  /\ o \in Orders /\ orderStatus' = [orderStatus EXCEPT ![o] = status]
  /\ UNCHANGED <<opStatus, inspections, reworks, logged>>

Creates(o) == orderStatus[o] = "Absent" /\ MovesOrder(o, "Draft")
Releases(o) == orderStatus[o] = "Draft" /\ MovesOrder(o, "Released")
Begins(o) == orderStatus[o] \in {"Released", "InProgress"} /\ MovesOrder(o, "InProgress")
Completes(o) ==
  /\ orderStatus[o] \in {"Released", "InProgress"}
  /\ ReadyForCompletion(o) /\ \A p \in OpsOf(o) : opStatus[p] = "Completed"
  /\ MovesOrder(o, "Completed")

MovesOp(p, opNow, orderNow) ==
  /\ p \in Ops /\ opStatus' = [opStatus EXCEPT ![p] = opNow]
  /\ orderStatus' = [orderStatus EXCEPT ![OrderOf[p]] = orderNow]
  /\ UNCHANGED <<inspections, reworks, logged>>

StartsOp(p) ==
  /\ orderStatus[OrderOf[p]] \in {"Released", "InProgress"}
  /\ opStatus[p] \in {"Pending", "InProgress"} /\ PreviousOpsCompleted(p)
  /\ MovesOp(p, "InProgress", "InProgress")

CompletesOp(p) ==
  /\ opStatus[p] = "InProgress" /\ LatestInspectionPassed(p)
  /\ MovesOp(p, "Completed", IF LastOpen(p) /\ ReadyForCompletion(OrderOf[p])
                             THEN "Completed" ELSE "InProgress")

ClosesRework(i) ==
  /\ i \in DOMAIN reworks /\ reworks' = [reworks EXCEPT ![i].status = "Closed"]
  /\ UNCHANGED <<orderStatus, opStatus, inspections, logged>>

Judges(p, i, row) ==
  /\ p \in Ops /\ i \in DOMAIN inspections[p]
  /\ opStatus[p] = "Completed" => row.result = "Pass"
  /\ inspections' = [inspections EXCEPT ![p][i] = row]
  /\ UNCHANGED <<orderStatus, opStatus, reworks, logged>>

Logs(o) ==
  /\ o \in Orders /\ Exists(o)
  /\ \E n \in Nat : logged' = [logged EXCEPT ![o] = @ + n]
  /\ UNCHANGED <<orderStatus, opStatus, inspections, reworks>>

Opens(row) ==
  /\ row \in Rework /\ row.status = "Open" /\ Exists(OrderOf[row.op])
  /\ Len(reworks) < MaxReworks /\ reworks' = Append(reworks, row)

Inserts ==
  /\ \A p \in Ops : \A i \in DOMAIN inspections[p] :
       i \in DOMAIN inspections'[p] /\ inspections'[p][i] = inspections[p][i]
  /\ UNCHANGED reworks \/ \E row : Opens(row)
  /\ UNCHANGED <<orderStatus, opStatus, logged>>

Effect ==
  \/ NoChange \/ Inserts
  \/ \E o \in Orders : Creates(o) \/ Releases(o) \/ Begins(o) \/ Completes(o) \/ Logs(o)
  \/ \E p \in Ops : StartsOp(p) \/ CompletesOp(p) \/ \E i, row : Judges(p, i, row)
  \/ \E i \in DOMAIN reworks : ClosesRework(i)

LEMMA CommitEffect ==
  ASSUME SerialInv, NEW s \in Sessions, req[s].phase = "decided", Apply(req[s])
  PROVE  Effect
<1> DEFINE r == req[s]
           o == r.order
           p == r.op
<1>0. /\ TypeOK /\ r \in Request /\ r.phase = "decided" /\ Wellformed(r) /\ Current(r) /\ Apply(r)
      /\ o \in Orders /\ r.act \in Handlers /\ orderStatus[o] = r.sawOrder
  BY DEF SerialInv, TypeInv, TypeOK, RequestsWellformed, Wellformed, Current, SawCurrent
<1>1. r.act # "complete_inprocess_inspection" => inspections' = inspections
  BY <1>0 DEF Apply
<1>2. r.act # "close_rework_order" => reworks' = reworks
  BY <1>0 DEF Apply
<1>3. r.act # "record_production_log" => logged' = logged
  BY <1>0 DEF Apply
<1>4. ASSUME NEW status, r.setOrder = status \/ r.setOrder = Write(r.sawOrder, status),
             status \in OrderStatus
      PROVE  orderStatus' = [orderStatus EXCEPT ![o] = status]
  BY <1>0, <1>4 DEF Apply, Write, TypeOK, OrderStatus, Keep
<1>5. r.setOp = Keep => opStatus' = opStatus
  BY <1>0 DEF Apply
<1>6. r.setOrder = Keep => orderStatus' = orderStatus
  BY <1>0 DEF Apply
<1>7. CASE r.act \in OrderRequests
  <2>1. UNCHANGED <<opStatus, inspections, reworks, logged>>
    BY <1>0, <1>1, <1>2, <1>3, <1>5, <1>7 DEF Wellformed, OrderRequests
  <2>2. DecidedOrder(r)
    BY <1>0 DEF Current
  <2>3. CASE r.act = "create_production_order"
    BY <1>0, <1>4, <2>1, <2>2, <2>3 DEF DecidedOrder, Effect, Creates, MovesOrder, OrderStatus
  <2>4. CASE r.act = "release_production_order"
    BY <1>0, <1>4, <2>1, <2>2, <2>4 DEF DecidedOrder, Effect, Releases, MovesOrder, OrderStatus
  <2>5. CASE r.act = "start_production_order"
    BY <1>0, <1>4, <2>1, <2>2, <2>5 DEF DecidedOrder, Effect, Begins, MovesOrder, OrderStatus
  <2>6. CASE r.act = "complete_production_order"
    BY <1>0, <1>4, <2>1, <2>2, <2>6 DEF DecidedOrder, Effect, Completes, MovesOrder, OrderStatus
  <2> QED BY <1>7, <2>3, <2>4, <2>5, <2>6 DEF OrderRequests
<1>8. CASE r.act \in OpRequests
  <2>1. /\ UNCHANGED <<inspections, reworks, logged>> /\ p \in Ops /\ OrderOf[p] = o
        /\ opStatus[p] = r.sawOp
    BY <1>0, <1>1, <1>2, <1>3, <1>8
       DEF Wellformed, OrderRequests, OpRequests, Current, SawCurrent
  <2>2. DecidedOp(r)
    BY <1>0 DEF Current
  <2>3. ASSUME NEW status, r.setOp = status \/ r.setOp = Write(r.sawOp, status), status \in OpStatus
        PROVE  opStatus' = [opStatus EXCEPT ![p] = status]
    BY <1>0, <2>1, <2>3 DEF Apply, Write, TypeOK, OpStatus, Keep
  <2>4. CASE r.act = "start_operation"
    <3>1. opStatus' = [opStatus EXCEPT ![p] = "InProgress"]
      BY <2>2, <2>3, <2>4 DEF DecidedOp, OpStatus
    <3>2. orderStatus' = [orderStatus EXCEPT ![o] = "InProgress"]
      BY <1>4, <2>2, <2>4 DEF DecidedOp, OrderStatus
    <3>3. StartsOp(p)
      BY <1>0, <2>1, <2>2, <2>4, <3>1, <3>2 DEF DecidedOp, StartsOp, MovesOp
    <3> QED BY <2>1, <3>3 DEF Effect
  <2>5. CASE r.act = "complete_operation"
    <3> DEFINE next == IF LastOpen(p) /\ ReadyForCompletion(o) THEN "Completed" ELSE "InProgress"
    <3>1. opStatus' = [opStatus EXCEPT ![p] = "Completed"]
      BY <2>2, <2>3, <2>5 DEF DecidedOp, OpStatus
    <3>2. next \in OrderStatus /\ r.setOrder = Write(r.sawOrder, next)
      BY <2>2, <2>5 DEF DecidedOp, OrderStatus
    <3>3. orderStatus' = [orderStatus EXCEPT ![o] = next]
      <4> HIDE DEF next
      <4> QED BY <1>4, <3>2
    <3>4. CompletesOp(p)
      BY <1>0, <2>1, <2>2, <2>5, <3>1, <3>3 DEF DecidedOp, CompletesOp, MovesOp
    <3> QED BY <2>1, <3>4 DEF Effect
  <2> QED BY <1>8, <2>4, <2>5 DEF OpRequests
<1>9. CASE r.act \in {"close_rework_order", "complete_inprocess_inspection", "record_production_log"}
  <2>1. UNCHANGED <<orderStatus, opStatus>>
    BY <1>0, <1>5, <1>6, <1>9 DEF Current, DecidedOp
  <2>2. CASE r.act = "close_rework_order"
    <3>1. ClosesRework(r.item) /\ r.item \in DOMAIN reworks
      BY <1>0, <1>1, <1>3, <2>1, <2>2 DEF Apply, ClosesRework, Wellformed
    <3> QED BY <3>1 DEF Effect
  <2>3. CASE r.act = "record_production_log"
    <3>1. logged' = [logged EXCEPT ![o] = @ + r.amount] /\ r.amount \in Nat /\ Exists(o)
      BY <1>0, <2>3 DEF Apply, Request, Current, SawCurrent
    <3>2. Logs(o)
      BY <1>0, <1>1, <1>2, <2>1, <2>3, <3>1 DEF Logs
    <3> QED BY <1>0, <3>2 DEF Effect
  <2>4. CASE r.act = "complete_inprocess_inspection"
    <3> DEFINE row == Judged(inspections[p][r.item], r)
    <3>1. /\ p \in Ops /\ r.item \in DOMAIN inspections[p]
          /\ opStatus[p] = "Completed" => r.result = "Pass"
          /\ r.setResult = Write(inspections[p][r.item].result, r.result)
      BY <1>0, <2>4 DEF Wellformed, OrderRequests, Current, SawCurrent, DecidedOp
    <3>2. row.result = r.result
      <4>1. inspections[p][r.item] \in Inspection
        BY <1>0, <3>1, RowType DEF TypeOK
      <4> QED BY <1>0, <3>1, <4>1 DEF Judged, Inspection, Write, InspectionResult, Keep, Request
    <3>3. inspections' = [inspections EXCEPT ![p][r.item] = row]
      BY <1>0, <2>4 DEF Apply
    <3> HIDE DEF row
    <3>4. Judges(p, r.item, row)
      BY <1>2, <1>3, <2>1, <2>4, <3>1, <3>2, <3>3 DEF Judges
    <3> QED BY <3>1, <3>4 DEF Effect
  <2> QED BY <1>9, <2>2, <2>3, <2>4
<1> QED BY <1>0, <1>7, <1>8, <1>9 DEF Handlers

LEMMA InsertEffect ==
  ASSUME TypeOK, NEW s \in Sessions, Insert(s)
  PROVE  Inserts
<1>1. ASSUME NEW p \in Ops, NEW row, inspections' = [inspections EXCEPT ![p] = Append(@, row)]
      PROVE  \A q \in Ops : \A i \in DOMAIN inspections[q] :
               i \in DOMAIN inspections'[q] /\ inspections'[q][i] = inspections[q][i]
  <2> DEFINE rows == Append(inspections[p], row)
  <2>1. inspections \in [Ops -> Seq(Inspection)] /\ inspections[p] \in Seq(Inspection)
    BY DEF TypeOK
  <2>2. \A i \in DOMAIN inspections[p] : i \in DOMAIN rows /\ rows[i] = inspections[p][i]
    BY <2>1
  <2>3. inspections' = [inspections EXCEPT ![p] = rows]
    BY <1>1
  <2> HIDE DEF rows
  <2> QED BY <2>1, <2>2, <2>3
<1>2. ASSUME NEW p \in Ops, NEW n \in Nat, Exists(OrderOf[p]), OpenRework(p, n)
      PROVE  \E row : Opens(row)
  <2> DEFINE row == [op |-> p, status |-> "Open", since |-> n]
  <2>1. row \in Rework /\ row.status = "Open" /\ row.op = p
    BY DEF Rework
  <2>2. reworks' = Append(reworks, row) /\ Len(reworks) < MaxReworks
    BY <1>2 DEF OpenRework
  <2> HIDE DEF row
  <2> QED BY <1>2, <2>1, <2>2 DEF Opens
<1>3. CASE RecordInprocessInspection(s)
  <2>1. PICK p \in Ops, result \in InspectionResult :
          /\ Insertable(s, p)
          /\ \/ InsertInspection(p, result, clock[p], result # "Pending")
             \/ \E t \in ClientTimes : InsertInspection(p, result, t, TRUE)
          /\ IF result = "Fail" THEN OpenRework(p, Len(inspections'[p])) ELSE UNCHANGED reworks
          /\ UNCHANGED <<orderStatus, opStatus, logged, fai, plant, req>>
    BY <1>3 DEF RecordInprocessInspection
  <2>2. PICK row : inspections' = [inspections EXCEPT ![p] = Append(@, row)]
    BY <2>1 DEF InsertInspection
  <2>3. \A q \in Ops : \A i \in DOMAIN inspections[q] :
          i \in DOMAIN inspections'[q] /\ inspections'[q][i] = inspections[q][i]
    BY <1>1, <2>2
  <2>4. Len(inspections'[p]) \in Nat
    <3>1. clock[p] \in Nat /\ ClientTimes \subseteq Nat /\ (result # "Pending") \in BOOLEAN
      BY ProductionConstants DEF TypeOK
    <3>2. inspections' \in [Ops -> Seq(Inspection)]
      BY <2>1, <3>1, InsertInspectionType
    <3> QED BY <3>2
  <2> QED BY <1>2, <2>1, <2>3, <2>4 DEF Inserts, Insertable
<1>4. CASE CreateInprocessInspection(s)
  <2>1. PICK p \in Ops : \E row : inspections' = [inspections EXCEPT ![p] = Append(@, row)]
    BY <1>4 DEF CreateInprocessInspection, InsertInspection
  <2>2. PICK row : inspections' = [inspections EXCEPT ![p] = Append(@, row)]
    BY <2>1
  <2> QED BY <1>1, <1>4, <2>2 DEF Inserts, CreateInprocessInspection
<1>5. CASE CreateReworkOrder(s)
  <2>1. PICK p \in Ops : Exists(OrderOf[p]) /\ OpenRework(p, Len(inspections[p]))
    BY <1>5 DEF CreateReworkOrder, Insertable
  <2>2. Len(inspections[p]) \in Nat
    BY DEF TypeOK
  <2> QED BY <1>2, <1>5, <2>1, <2>2 DEF Inserts, CreateReworkOrder
<1> QED BY <1>3, <1>4, <1>5 DEF Insert

LEMMA SerialEffect == SerialInv /\ [Next]_vars => Effect
<1> SUFFICES ASSUME SerialInv, [Next]_vars PROVE Effect
  OBVIOUS
<1>1. UNCHANGED db => Effect
  BY DEF db, Effect, NoChange
<1>2. CASE UNCHANGED vars
  BY <1>1, <1>2 DEF vars
<1>3. ASSUME NEW s \in Sessions, Load(s) PROVE UNCHANGED db
  BY <1>3 DEF Load, LoadOrder, LoadOperation, LoadRework, LoadInspection, ReceiveLog, Receive
<1>4. ASSUME NEW s \in Sessions, Decide(s) PROVE UNCHANGED db
  BY <1>4 DEF Decide, CreateProductionOrder, ReleaseProductionOrder, StartProductionOrder,
     CompleteProductionOrder, StartOperation, CompleteOperation, CloseReworkOrder,
     CompleteInprocessInspection, RecordProductionLog, Check
<1>5. ASSUME NEW s \in Sessions, Commit(s) PROVE Effect
  BY <1>1, <1>5, CommitEffect DEF Commit
<1>6. ASSUME NEW s \in Sessions, Abort(s) \/ Elsewhere(s) PROVE UNCHANGED db
  BY <1>6 DEF Abort, Elsewhere, MarkObsolete, ReportBreakdown, ReturnToService
<1>7. ASSUME NEW s \in Sessions, Insert(s) PROVE Effect
  BY <1>7, InsertEffect DEF SerialInv, TypeInv, Effect
<1>8. ASSUME NEW s \in Sessions, LockOrder(s) \/ LockOperation(s) PROVE UNCHANGED db
  BY <1>8 DEF LockOrder, LockOperation, Lock
<1> QED BY <1>1, <1>2, <1>3, <1>4, <1>5, <1>6, <1>7, <1>8 DEF Next

-----------------------------------------------------------------------------
LEMMA EffectConsistent ==
  ASSUME SerialInv, TypeInv', Effect
  PROVE  OrdersConsistent'
<1>0. TypeOK /\ OrdersConsistent
  BY DEF SerialInv, TypeInv
<1> USE DEF Exists
<1>1. CASE NoChange
  BY <1>0, <1>1, ConsistentKept DEF NoChange
<1>2. CASE Inserts
  <2>1. SequenceControlled' /\ CompletedOpHasPass'
    BY <1>0, <1>2 DEF Inserts, OrdersConsistent, SequenceControlled, CompletedOpHasPass
  <2>2. /\ Len(reworks') <= MaxReworks
        /\ \A i \in DOMAIN reworks' : orderStatus[OrderOf[reworks'[i].op]] # "Absent"
    <3>1. CASE UNCHANGED reworks
      BY <1>0, <3>1 DEF OrdersConsistent
    <3>2. CASE \E row : Opens(row)
      <4>1. PICK row : Opens(row)
        BY <3>2
      <4>2. reworks \in Seq(Rework) /\ Len(reworks) < MaxReworks /\ MaxReworks \in Nat
        BY <1>0, <4>1, ProductionConstants DEF TypeOK, Opens
      <4>3. /\ Len(reworks') = Len(reworks) + 1
            /\ \A i \in DOMAIN reworks' :
                 reworks'[i] = row \/ (i \in DOMAIN reworks /\ reworks'[i] = reworks[i])
        BY <4>1, <4>2, AppendProperties DEF Opens
      <4>4. Len(reworks') <= MaxReworks
        BY <4>2, <4>3
      <4> QED BY <1>0, <4>1, <4>3, <4>4 DEF Opens, OrdersConsistent
    <3> QED BY <1>2, <3>1, <3>2 DEF Inserts
  <2> QED BY <1>0, <1>2, <2>1, <2>2 DEF Inserts, OrdersConsistent
<1>3. ASSUME NEW o \in Orders, NEW status \in OrderStatus, MovesOrder(o, status),
             status = "Absent" => FALSE,
             status \notin {"InProgress", "Completed"} =>
               orderStatus[o] \notin {"InProgress", "Completed"},
             status = "Completed" => \A p \in OpsOf(o) : opStatus[p] = "Completed"
      PROVE  OrdersConsistent'
  BY <1>0, <1>3, ProductionConstants
     DEF TypeOK, MovesOrder, OrdersConsistent, SequenceControlled, CompletedOpHasPass, OpsOf
<1>4. ASSUME NEW o \in Orders, Creates(o) \/ Releases(o) \/ Begins(o) \/ Completes(o)
      PROVE  OrdersConsistent'
  BY <1>3, <1>4 DEF Creates, Releases, Begins, Completes, OrderStatus
<1>5. ASSUME NEW o \in Orders, Logs(o) PROVE OrdersConsistent'
  BY <1>0, <1>5, ConsistentKept DEF Logs
<1>6. ASSUME NEW p \in Ops, StartsOp(p) PROVE OrdersConsistent'
  <2>1. /\ \A q \in Ops : opStatus'[q] = IF q = p THEN "InProgress" ELSE opStatus[q]
        /\ \A q \in Ops : orderStatus'[OrderOf[q]] =
             IF OrderOf[q] = OrderOf[p] THEN "InProgress" ELSE orderStatus[OrderOf[q]]
        /\ UNCHANGED <<inspections, reworks>>
    BY <1>0, <1>6, ProductionConstants DEF StartsOp, MovesOp, TypeOK
  <2>2. SequenceControlled'
    <3> SUFFICES ASSUME NEW q \in Ops, NEW x \in Ops, OrderOf[q] = OrderOf[x],
                        OpNumber[x] < OpNumber[q], opStatus'[q] # "Pending"
                 PROVE  opStatus'[x] = "Completed"
      BY DEF SequenceControlled
    <3>1. opStatus[x] = "Completed"
      BY <1>0, <1>6, <2>1 DEF OrdersConsistent, SequenceControlled, StartsOp,
         PreviousOpsCompleted, OpsOf
    <3>2. x # p
      BY <1>6, <3>1 DEF StartsOp
    <3> QED BY <2>1, <3>1, <3>2
  <2>3. CompletedOpHasPass'
    BY <1>0, <2>1 DEF OrdersConsistent, CompletedOpHasPass
  <2>4. \A i \in DOMAIN reworks : reworks[i].op \in Ops
    <3>1. \A i \in DOMAIN reworks : reworks[i] \in Rework
      BY <1>0, RowType DEF TypeOK
    <3> QED BY <3>1 DEF Rework
  <2> QED BY <1>0, <1>6, <2>1, <2>2, <2>3, <2>4 DEF OrdersConsistent, StartsOp
<1>7. ASSUME NEW p \in Ops, CompletesOp(p) PROVE OrdersConsistent'
  <2> DEFINE next == IF LastOpen(p) /\ ReadyForCompletion(OrderOf[p])
                     THEN "Completed" ELSE "InProgress"
  <2>1. /\ next \in {"InProgress", "Completed"} /\ (next = "Completed" => LastOpen(p))
        /\ MovesOp(p, "Completed", next)
    BY <1>7 DEF CompletesOp
  <2> HIDE DEF next
  <2>2. /\ \A q \in Ops : opStatus'[q] = IF q = p THEN "Completed" ELSE opStatus[q]
        /\ \A q \in Ops : orderStatus'[OrderOf[q]] =
             IF OrderOf[q] = OrderOf[p] THEN next ELSE orderStatus[OrderOf[q]]
        /\ UNCHANGED <<inspections, reworks>>
    BY <1>0, <2>1, ProductionConstants DEF MovesOp, TypeOK
  <2>3. SequenceControlled'
    <3> SUFFICES ASSUME NEW q \in Ops, NEW x \in Ops, OrderOf[q] = OrderOf[x],
                        OpNumber[x] < OpNumber[q], opStatus'[q] # "Pending"
                 PROVE  opStatus'[x] = "Completed"
      BY DEF SequenceControlled
    <3>1. opStatus[x] = "Completed"
      BY <1>0, <1>7, <2>2 DEF OrdersConsistent, SequenceControlled, CompletesOp
    <3> QED BY <2>2, <3>1
  <2>4. CompletedOpHasPass'
    BY <1>0, <1>7, <2>2 DEF OrdersConsistent, CompletedOpHasPass, CompletesOp, LatestInspectionPassed
  <2>5. \A q \in Ops : orderStatus'[OrderOf[q]] = "Completed" => opStatus'[q] = "Completed"
    BY <1>0, <2>1, <2>2 DEF OrdersConsistent, LastOpen, OpsOf
  <2>6. \A i \in DOMAIN reworks : reworks[i].op \in Ops
    <3>1. \A i \in DOMAIN reworks : reworks[i] \in Rework
      BY <1>0, RowType DEF TypeOK
    <3> QED BY <3>1 DEF Rework
  <2> QED BY <1>0, <2>1, <2>2, <2>3, <2>4, <2>5, <2>6 DEF OrdersConsistent
<1>8. ASSUME NEW p \in Ops, NEW i, NEW row, Judges(p, i, row) PROVE OrdersConsistent'
  <2>1. /\ inspections' = [inspections EXCEPT ![p] = [inspections[p] EXCEPT ![i] = row]]
        /\ i \in DOMAIN inspections[p] /\ UNCHANGED <<orderStatus, opStatus, reworks>>
        /\ opStatus[p] = "Completed" => row.result = "Pass"
    BY <1>8 DEF Judges
  <2>2. /\ \A q \in Ops \ {p} : inspections'[q] = inspections[q]
        /\ i \in DOMAIN inspections'[p] /\ inspections'[p][i] = row
    BY <1>0, <2>1 DEF TypeOK
  <2>3. CompletedOpHasPass'
    <3> SUFFICES ASSUME NEW q \in Ops, opStatus[q] = "Completed"
                 PROVE  \E j \in DOMAIN inspections'[q] : inspections'[q][j].result = "Pass"
      BY <2>1 DEF CompletedOpHasPass
    <3>1. CASE q = p
      BY <2>1, <2>2, <3>1
    <3>2. CASE q # p
      BY <1>0, <2>2, <3>2 DEF OrdersConsistent, CompletedOpHasPass
    <3> QED BY <3>1, <3>2
  <2> QED BY <1>0, <2>1, <2>3 DEF OrdersConsistent, SequenceControlled
<1>9. ASSUME NEW i \in DOMAIN reworks, ClosesRework(i) PROVE OrdersConsistent'
  <2>1. /\ DOMAIN reworks' = DOMAIN reworks /\ Len(reworks') = Len(reworks)
        /\ \A j \in DOMAIN reworks : reworks'[j].op = reworks[j].op
    <3> DEFINE row == [reworks[i] EXCEPT !.status = "Closed"]
    <3>1. reworks \in Seq(Rework) /\ reworks[i] \in Rework
      BY <1>0, RowType DEF TypeOK
    <3>2. row \in Rework /\ row.op = reworks[i].op
      BY <3>1 DEF Rework
    <3>3. reworks' = [reworks EXCEPT ![i] = row]
      BY <1>9 DEF ClosesRework
    <3> HIDE DEF row
    <3> QED BY <3>1, <3>2, <3>3, ExceptSeq
  <2> QED BY <1>0, <1>9, <2>1 DEF ClosesRework, OrdersConsistent, SequenceControlled, CompletedOpHasPass
<1> QED BY <1>1, <1>2, <1>4, <1>5, <1>6, <1>7, <1>8, <1>9 DEF Effect

LEMMA NextSerialInv == OneSession => (SerialInv /\ [Next]_vars => SerialInv')
<1> SUFFICES ASSUME OneSession, SerialInv, [Next]_vars PROVE SerialInv'
  OBVIOUS
<1>0. TypeInv' /\ TypeOK
  BY NextTypeInv DEF SerialInv, TypeInv
<1>1. OrdersConsistent'
  BY <1>0, SerialEffect, EffectConsistent
<1>2. CASE UNCHANGED vars
  <2>1. \A s \in Sessions : Current(req[s])'
    <3> SUFFICES ASSUME NEW s \in Sessions PROVE Current(req[s])'
      OBVIOUS
    <3>1. PICK r : r = req[s] /\ r = req'[s] /\ Current(r)
      BY <1>2 DEF SerialInv, vars
    <3>2. UNCHANGED db /\ Current(r)'
      BY <1>2, <3>1, CurrentKept DEF vars
    <3> QED BY <3>1, <3>2 DEF Current, SawCurrent, DecidedOrder, DecidedOp
  <2> QED BY <1>0, <1>1, <2>1 DEF SerialInv
\* The one session is left idle.
<1>3. ASSUME NEW s \in Sessions, req'[s] = Idle PROVE SerialInv'
  <2>1. \A t \in Sessions : req'[t].phase = "idle"
    BY <1>3, IdleCurrent DEF OneSession
  <2> QED BY <1>0, <1>1, <2>1 DEF SerialInv, Current, SawCurrent
<1>4. ASSUME NEW s \in Sessions,
             Load(s) \/ LockOrder(s) \/ LockOperation(s) \/ Decide(s)
      PROVE  SerialInv'
  BY <1>0, <1>4, LoadSerialInv, LockSerialInv, DecideSerialInv
<1>5. ASSUME NEW s \in Sessions, Commit(s) \/ Abort(s) PROVE SerialInv'
  BY <1>0, <1>3, <1>5 DEF Commit, Abort, TypeOK
<1>6. ASSUME NEW s \in Sessions, Insert(s) PROVE SerialInv'
  BY <1>3, <1>6 DEF Insert, RecordInprocessInspection, CreateInprocessInspection,
     CreateReworkOrder, Insertable
<1>7. ASSUME NEW s \in Sessions, Elsewhere(s) PROVE SerialInv'
  BY <1>3, <1>7 DEF Elsewhere, MarkObsolete, ReportBreakdown, ReturnToService
<1> QED BY <1>2, <1>4, <1>5, <1>6, <1>7 DEF Next

LEMMA SerialKept == OneSession => (Spec => []SerialInv)
<1> SUFFICES ASSUME OneSession PROVE Spec => []SerialInv
  OBVIOUS
<1>1. SerialInv /\ [Next]_vars => SerialInv'
  BY NextSerialInv
<1> QED BY <1>1, InitSerialInv, PTL DEF Spec

\* With one request at a time, start_operation and complete_operation keep the
\* operations of an order in the sequence of their numbers: what was complete
\* when the next one started stays so.
THEOREM SequenceKept == OneSession => (Spec => []SequenceControlled)
<1> SUFFICES ASSUME OneSession PROVE Spec => []SequenceControlled
  OBVIOUS
<1>1. SerialInv => SequenceControlled
  BY DEF SerialInv, OrdersConsistent
<1> QED BY <1>1, SerialKept, PTL

\* With one request at a time, a completed operation keeps a passed inspection:
\* complete_inprocess_inspection, which judges any inspection again, turns none
\* of a completed operation to Fail.
THEOREM CompletedPassed == OneSession => (Spec => []CompletedOpHasPass)
<1> SUFFICES ASSUME OneSession PROVE Spec => []CompletedOpHasPass
  OBVIOUS
<1>1. SerialInv => CompletedOpHasPass
  BY DEF SerialInv, OrdersConsistent
<1> QED BY <1>1, SerialKept, PTL

-----------------------------------------------------------------------------
(* The refinement of OrderLifecycle, operation by operation.               *)

LEMMA InitLifecycle == TheOrder \in Orders => (Init => Life!Init)
  BY DEF Init, Life!Init, OpsOf

\* An operation that leaves the order's row, its operations, its total and its
\* rework alone is a stutter.
LEMMA Stutter ==
  ASSUME orderStatus'[TheOrder] = orderStatus[TheOrder],
         \A p \in OpsOf(TheOrder) : opStatus'[p] = opStatus[p],
         logged'[TheOrder] = logged[TheOrder],
         UNCHANGED reworks
  PROVE  UNCHANGED Life!vars
  BY DEF Life!vars, OpsOf

LEMMA OrderMoveRefines ==
  ASSUME SerialInv, TheOrder \in Orders, NEW o \in Orders,
         Creates(o) \/ Releases(o) \/ Begins(o) \/ Completes(o)
  PROVE  [Life!Next]_(Life!vars)
<1>0. orderStatus \in [Orders -> OrderStatus]
  BY DEF SerialInv, TypeInv, TypeOK
<1>1. CASE o # TheOrder
  BY <1>0, <1>1, Stutter DEF Creates, Releases, Begins, Completes, MovesOrder
<1>2. CASE o = TheOrder
  <2>0. /\ UNCHANGED <<opStatus, reworks, logged>>
        /\ Creates(o) => orderStatus[o] = "Absent" /\ orderStatus'[o] = "Draft"
        /\ Releases(o) => orderStatus[o] = "Draft" /\ orderStatus'[o] = "Released"
        /\ Begins(o) => orderStatus[o] \in {"Released", "InProgress"} /\ orderStatus'[o] = "InProgress"
        /\ Completes(o) => orderStatus[o] \in {"Released", "InProgress"} /\ orderStatus'[o] = "Completed"
    BY <1>0 DEF Creates, Releases, Begins, Completes, MovesOrder
  <2>1. CASE Creates(o)
    BY <1>2, <2>0, <2>1 DEF Life!Next, Life!Create, OpsOf
  <2>2. CASE Releases(o)
    BY <1>2, <2>0, <2>2 DEF Life!Next, Life!Release, OpsOf
  <2>3. CASE Begins(o) /\ orderStatus[o] = "Released"
    BY <1>2, <2>0, <2>3 DEF Life!Next, Life!Begin, OpsOf
  <2>4. CASE Begins(o) /\ orderStatus[o] = "InProgress"
    BY <1>2, <2>0, <2>4, Stutter
  <2>5. CASE Completes(o)
    <3>1. /\ {p \in OpsOf(TheOrder) : opStatus'[p] = "Completed"} = OpsOf(TheOrder)
          /\ logged'[TheOrder] = Planned[TheOrder]
          /\ {i \in DOMAIN reworks' : OrderOf[reworks'[i].op] = TheOrder
                                      /\ reworks'[i].status # "Closed"} = {}
      BY <1>2, <2>0, <2>5 DEF Completes, ReadyForCompletion, HasOpenRework
    <3>2. Life!Finished
      BY <3>1 DEF Life!Finished, OpsOf
    <3>3. Life!Complete
      BY <1>2, <2>0, <2>5, <3>2 DEF Life!Complete, OpsOf
    <3> QED BY <3>3 DEF Life!Next
  <2> QED BY <2>0, <2>1, <2>2, <2>3, <2>4, <2>5
<1> QED BY <1>1, <1>2

LEMMA StartRefines ==
  ASSUME SerialInv, TheOrder \in Orders, NEW p \in Ops, StartsOp(p)
  PROVE  [Life!Next]_(Life!vars)
<1>0. /\ orderStatus \in [Orders -> OrderStatus] /\ opStatus \in [Ops -> OpStatus]
      /\ OrderOf[p] \in Orders
  BY ProductionConstants DEF SerialInv, TypeInv, TypeOK
<1>1. CASE OrderOf[p] # TheOrder
  <2>1. \A q \in OpsOf(TheOrder) : opStatus'[q] = opStatus[q]
    BY <1>0, <1>1 DEF StartsOp, MovesOp, OpsOf
  <2> QED BY <1>0, <1>1, <2>1, Stutter DEF StartsOp, MovesOp
<1>2. CASE OrderOf[p] = TheOrder /\ opStatus[p] = "Pending"
  <2>1. /\ orderStatus[TheOrder] \in {"Released", "InProgress"}
        /\ orderStatus'[TheOrder] = "InProgress"
        /\ opStatus' = [opStatus EXCEPT ![p] = "InProgress"]
        /\ UNCHANGED <<reworks, logged>> /\ p \in OpsOf(TheOrder)
        /\ \A q \in OpsOf(TheOrder) : OpNumber[q] < OpNumber[p] => opStatus[q] = "Completed"
    BY <1>0, <1>2 DEF StartsOp, MovesOp, OpsOf, PreviousOpsCompleted
  <2>2. /\ {q \in OpsOf(TheOrder) : opStatus'[q] # "Pending"} =
             {q \in OpsOf(TheOrder) : opStatus[q] # "Pending"} \cup {p}
        /\ {q \in OpsOf(TheOrder) : opStatus'[q] = "Completed"} =
             {q \in OpsOf(TheOrder) : opStatus[q] = "Completed"}
    BY <1>0, <1>2, <2>1 DEF OpsOf
  <2>3. Life!StartStep(p)
    BY <1>2, <2>1, <2>2 DEF Life!StartStep, Life!Earlier, OpsOf
  <2> QED BY <2>1, <2>3 DEF Life!Next
<1>3. CASE OrderOf[p] = TheOrder /\ opStatus[p] = "InProgress"
  <2>1. orderStatus[TheOrder] = "InProgress"
    BY <1>3 DEF SerialInv, OrdersConsistent, StartsOp
  <2> QED BY <1>0, <1>3, <2>1, Stutter DEF StartsOp, MovesOp, OpsOf
<1> QED BY <1>1, <1>2, <1>3 DEF StartsOp

LEMMA CompleteRefines ==
  ASSUME SerialInv, TheOrder \in Orders, NEW p \in Ops, CompletesOp(p)
  PROVE  [Life!Next]_(Life!vars)
<1> DEFINE next == IF LastOpen(p) /\ ReadyForCompletion(OrderOf[p])
                   THEN "Completed" ELSE "InProgress"
<1>0. /\ orderStatus \in [Orders -> OrderStatus] /\ opStatus \in [Ops -> OpStatus]
      /\ OrderOf[p] \in Orders
  BY ProductionConstants DEF SerialInv, TypeInv, TypeOK
<1>1. CASE OrderOf[p] # TheOrder
  <2>1. MovesOp(p, "Completed", next)
    BY DEF CompletesOp
  <2> HIDE DEF next
  <2>2. \A q \in OpsOf(TheOrder) : opStatus'[q] = opStatus[q]
    BY <1>0, <1>1, <2>1 DEF MovesOp, OpsOf
  <2> QED BY <1>0, <1>1, <2>1, <2>2, Stutter DEF MovesOp
<1>2. CASE OrderOf[p] = TheOrder
  <2> DEFINE done == {q \in OpsOf(TheOrder) : opStatus[q] = "Completed"}
             open == {i \in DOMAIN reworks : OrderOf[reworks[i].op] = TheOrder
                                             /\ reworks[i].status # "Closed"}
  <2>1. /\ orderStatus'[TheOrder] = next /\ opStatus[p] = "InProgress"
        /\ opStatus' = [opStatus EXCEPT ![p] = "Completed"]
        /\ UNCHANGED <<reworks, logged>> /\ p \in OpsOf(TheOrder)
    BY <1>0, <1>2 DEF CompletesOp, MovesOp, OpsOf
  <2>2. orderStatus[TheOrder] = "InProgress"
    BY <1>2, <2>1 DEF SerialInv, OrdersConsistent
  <2>3. /\ {q \in OpsOf(TheOrder) : opStatus'[q] # "Pending"} =
             {q \in OpsOf(TheOrder) : opStatus[q] # "Pending"}
        /\ {q \in OpsOf(TheOrder) : opStatus'[q] = "Completed"} = done \cup {p}
        /\ p \in {q \in OpsOf(TheOrder) : opStatus[q] # "Pending"} \ done
    BY <1>0, <2>1 DEF OpsOf
  <2>4. LastOpen(p) <=> done \cup {p} = OpsOf(TheOrder)
    BY <1>2, <2>1 DEF LastOpen, OpsOf
  <2>5. ReadyForCompletion(TheOrder) <=> logged[TheOrder] = Planned[TheOrder] /\ open = {}
    BY DEF ReadyForCompletion, HasOpenRework
  <2>6. Life!Finished <=> LastOpen(p) /\ ReadyForCompletion(TheOrder)
    BY <2>1, <2>3, <2>4, <2>5 DEF Life!Finished
  <2>7. orderStatus'[TheOrder] = IF Life!Finished THEN "Completed" ELSE "InProgress"
    BY <1>2, <2>1, <2>6
  <2>8. Life!CompleteStep(p)
    BY <2>1, <2>2, <2>3, <2>7 DEF Life!CompleteStep
  <2> QED BY <2>1, <2>8 DEF Life!Next
<1> QED BY <1>1, <1>2

LEMMA LogRefines ==
  ASSUME SerialInv, LoggedWithinPlan', TheOrder \in Orders, NEW o \in Orders, Logs(o)
  PROVE  [Life!Next]_(Life!vars)
<1>0. logged \in [Orders -> Nat] /\ Planned[TheOrder] \in Nat
  BY ProductionConstants DEF SerialInv, TypeInv, TypeOK
<1>1. CASE o # TheOrder
  BY <1>0, <1>1, Stutter DEF Logs
<1>2. CASE o = TheOrder
  <2>1. PICK n \in Nat : logged' = [logged EXCEPT ![o] = @ + n]
    BY DEF Logs
  <2>2. logged'[TheOrder] \in logged[TheOrder]..Planned[TheOrder]
    BY <1>0, <1>2, <2>1 DEF LoggedWithinPlan
  <2>3. Life!Log
    BY <1>2, <2>2 DEF Logs, Life!Log, Exists, OpsOf
  <2> QED BY <2>3 DEF Life!Next
<1> QED BY <1>1, <1>2

\* A rework order comes, or is closed.
LEMMA ReworkRefines ==
  ASSUME TheOrder \in Orders, orderStatus[TheOrder] # "Absent",
         UNCHANGED <<orderStatus, opStatus, logged>>, NEW n \in 1..MaxReworks,
         LET Open == {i \in DOMAIN reworks : OrderOf[reworks[i].op] = TheOrder
                                             /\ reworks[i].status # "Closed"}
         IN Open' = Open \cup {n} \/ Open' = Open \ {n}
  PROVE  Life!Next
BY DEF Life!Next, Life!Rework, OpsOf

LEMMA CloseRefines ==
  ASSUME SerialInv, TheOrder \in Orders, NEW i \in DOMAIN reworks, ClosesRework(i)
  PROVE  [Life!Next]_(Life!vars)
<1> DEFINE row == [reworks[i] EXCEPT !.status = "Closed"]
           Open == {j \in DOMAIN reworks : OrderOf[reworks[j].op] = TheOrder
                                           /\ reworks[j].status # "Closed"}
<1>0. /\ reworks \in Seq(Rework) /\ reworks[i] \in Rework /\ MaxReworks \in Nat
      /\ Len(reworks) <= MaxReworks /\ Exists(OrderOf[reworks[i].op])
  BY ProductionConstants, RowType DEF SerialInv, TypeInv, TypeOK, OrdersConsistent
<1>1. row.op = reworks[i].op /\ row.status = "Closed" /\ row \in Rework
  BY <1>0 DEF Rework
<1>2. reworks' = [reworks EXCEPT ![i] = row] /\ UNCHANGED <<orderStatus, opStatus, logged>>
  BY DEF ClosesRework
<1> HIDE DEF row
<1>3. /\ DOMAIN reworks' = DOMAIN reworks /\ reworks'[i] = row
      /\ \A j \in DOMAIN reworks \ {i} : reworks'[j] = reworks[j]
  BY <1>0, <1>1, <1>2, ExceptSeq
<1>4. Open' = Open \ {i}
  BY <1>1, <1>3
<1>5. i \in 1..MaxReworks
  BY <1>0
<1>6. CASE OrderOf[reworks[i].op] = TheOrder
  BY <1>0, <1>2, <1>4, <1>5, <1>6, ReworkRefines DEF Exists
<1>7. CASE OrderOf[reworks[i].op] # TheOrder
  <2>1. Open' = Open
    BY <1>4, <1>7
  <2> QED BY <1>2, <2>1 DEF Life!vars, OpsOf
<1> QED BY <1>6, <1>7

LEMMA InsertRefines ==
  ASSUME SerialInv, TheOrder \in Orders, Inserts
  PROVE  [Life!Next]_(Life!vars)
<1>1. CASE UNCHANGED reworks
  BY <1>1, Stutter DEF Inserts
<1>2. ASSUME NEW row, Opens(row) PROVE [Life!Next]_(Life!vars)
  <2> DEFINE n == Len(reworks) + 1
             Open == {j \in DOMAIN reworks : OrderOf[reworks[j].op] = TheOrder
                                             /\ reworks[j].status # "Closed"}
  <2>0. /\ reworks \in Seq(Rework) /\ MaxReworks \in Nat /\ Len(reworks) < MaxReworks
        /\ row \in Rework /\ UNCHANGED <<orderStatus, opStatus, logged>>
    BY <1>2, ProductionConstants DEF SerialInv, TypeInv, TypeOK, Opens, Inserts
  <2>1. /\ n \in 1..MaxReworks /\ n \notin DOMAIN reworks
        /\ DOMAIN reworks' = DOMAIN reworks \cup {n} /\ reworks'[n] = row
        /\ \A j \in DOMAIN reworks : reworks'[j] = reworks[j]
    BY <1>2, <2>0, AppendProperties DEF Opens
  <2> HIDE DEF n
  <2>2. CASE OrderOf[row.op] = TheOrder
    <3>1. Open' = Open \cup {n}
      BY <1>2, <2>1, <2>2 DEF Opens
    <3> QED BY <1>2, <2>0, <2>1, <2>2, <3>1, ReworkRefines DEF Opens, Exists
  <2>3. CASE OrderOf[row.op] # TheOrder
    <3>1. Open' = Open
      BY <2>1, <2>3
    <3> QED BY <2>0, <3>1 DEF Life!vars, OpsOf
  <2> QED BY <2>2, <2>3
<1> QED BY <1>1, <1>2 DEF Inserts

\* With one request at a time and quantities their columns can hold, every
\* order there is lives the documented life: each step of the handlers is one
\* of its indivisible operations, or nothing the order shows.
THEOREM LifecycleRefinement ==
  OneSession /\ Representable /\ TheOrder \in Orders => (Spec => ImplementsLifecycle)
<1> SUFFICES ASSUME OneSession, Representable, TheOrder \in Orders
             PROVE  Spec => ImplementsLifecycle
  OBVIOUS
<1>1. Init => Life!Init
  BY InitLifecycle
<1>2. SerialInv /\ LoggedWithinPlan' /\ [Next]_vars => [Life!Next]_(Life!vars)
  <2> SUFFICES ASSUME SerialInv, LoggedWithinPlan', [Next]_vars
               PROVE  [Life!Next]_(Life!vars)
    OBVIOUS
  <2>1. Effect
    BY SerialEffect
  <2>2. CASE NoChange
    BY <2>2, Stutter DEF NoChange
  <2>3. ASSUME NEW p \in Ops, NEW i, NEW row, Judges(p, i, row) PROVE UNCHANGED Life!vars
    BY <2>3, Stutter DEF Judges
  <2> QED BY <2>1, <2>2, <2>3, InsertRefines, OrderMoveRefines, LogRefines, StartRefines,
             CompleteRefines, CloseRefines DEF Effect
<1>3. Spec => []SerialInv
  BY SerialKept
<1>4. Spec => []LoggedWithinPlan
  <2>1. Representable
    OBVIOUS
  <2> QED BY <2>1, WithinPlanLogged, PTL
<1> QED BY <1>1, <1>2, <1>3, <1>4, PTL DEF Spec, ImplementsLifecycle, Life!Spec
=============================================================================
