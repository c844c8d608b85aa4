---------------------------- MODULE OfficesProofs ----------------------------
(***************************************************************************)
(* Proofs about Sales and Maintenance, for every number of sessions and    *)
(* records, and of what holds of MCOffices because it holds of a           *)
(* component: whatever the scene, the steps of a component are steps of    *)
(* it, and the others leave its tables alone.                              *)
(***************************************************************************)
EXTENDS MCOffices, SequenceTheorems, TLAPS

-----------------------------------------------------------------------------
(* Sales: the inductive invariant.                                         *)

\* The numbers of a table are 1, 2, 3, ... without a gap or a repetition.
Numbered(table) == Selling!NumbersOf(table) = 1 .. Len(table)

\* A number is at most one past those in use: the commits of others add rows.
NumberInReach(row, table) == row.number \in 1 .. (Len(table) + 1)

OneReviewEach ==
  \A i, j \in DOMAIN reviews : reviews[i].enquiry = reviews[j].enquiry => i = j

\* What a sales order names is there and leads to an approved review.
Traced(row) ==
  /\ row.poReview \in DOMAIN poReviews
  /\ poReviews[row.poReview].accepted /\ poReviews[row.poReview].quotation = row.quotation
  /\ row.quotation \in DOMAIN quotations
  /\ quotations[row.quotation].review = row.review
  /\ row.review \in DOMAIN reviews
  /\ reviews[row.review].status = "approved" /\ reviews[row.review].checked

\* What a handler has checked and no commit of another request undoes.
SaleSound(act, row) ==
  /\ act = "create_contract_review" => NumberInReach(row, reviews)
  /\ act = "create_quotation" => NumberInReach(row, quotations)
  /\ act = "create_customer_po_review" => NumberInReach(row, poReviews)
  /\ act = "create_sales_order" => Traced(row)

SalePending(s) ==
  /\ salesReq[s].act \in Selling!Handlers /\ salesReq[s].row \in Selling!Row(salesReq[s].act)
  /\ SaleSound(salesReq[s].act, salesReq[s].row)

SalesInv ==
  /\ DOMAIN salesReq = Sessions
  /\ enquiries \subseteq Enquiries
  /\ reviews \in Seq(Selling!ContractReview) /\ quotations \in Seq(Selling!Quotation)
  /\ poReviews \in Seq(Selling!CustomerPOReview) /\ orders \in Seq(Selling!SalesOrder)
  /\ \A s \in Sessions : salesReq[s] = Selling!Idle \/ SalePending(s)
  /\ Numbered(reviews) /\ Numbered(quotations) /\ Numbered(poReviews)
  /\ OneReviewEach
  /\ \A i \in DOMAIN orders : Traced(orders[i])

-----------------------------------------------------------------------------
(* Sales: the numbers.                                                     *)

LEMMA NextAfter == ASSUME NEW n \in Nat PROVE Selling!NextNumber(1 .. n) = n + 1
<1> DEFINE S == (1 .. n) \cup {0}
<1>1. n \in S /\ \A y \in S : n >= y
  OBVIOUS
<1>2. \A x \in S : (\A y \in S : x >= y) => x = n
  BY <1>1
<1>3. Selling!Max(S) = n
  BY <1>1, <1>2 DEF Selling!Max
<1> QED BY <1>3 DEF Selling!NextNumber

LEMMA NextInReach ==
  ASSUME NEW S, NEW table \in Seq(S), Numbered(table)
  PROVE  Selling!NextNumber(Selling!NumbersOf(table)) \in Nat
         /\ Selling!NextNumber(Selling!NumbersOf(table)) \in 1 .. (Len(table) + 1)
<1>1. Len(table) \in Nat
  OBVIOUS
<1> QED BY <1>1, NextAfter DEF Numbered

\* The unique index lets the next number in, and no other.
LEMMA NumberedAppend ==
  ASSUME NEW S, NEW table \in Seq(S), NEW row \in S, Numbered(table),
         NumberInReach(row, table), row.number \notin Selling!NumbersOf(table)
  PROVE  Numbered(Append(table, row))
<1>1. Len(table) \in Nat /\ Len(Append(table, row)) = Len(table) + 1
  OBVIOUS
<1>2. row.number = Len(table) + 1
  BY <1>1 DEF Numbered, NumberInReach
<1> DEFINE after == Append(table, row)
<1>3. Selling!NumbersOf(after) = Selling!NumbersOf(table) \cup {row.number}
  <2>1. /\ DOMAIN table = 1 .. Len(table) /\ DOMAIN after = 1 .. (Len(table) + 1)
        /\ \A i \in DOMAIN table : after[i] = table[i]
        /\ after[Len(table) + 1] = row
    BY <1>1
  <2> HIDE DEF after
  <2> QED BY <1>1, <2>1 DEF Selling!NumbersOf
<1> QED BY <1>1, <1>2, <1>3 DEF Numbered

-----------------------------------------------------------------------------
(* Sales: the handlers and the commit.                                     *)

LEMMA SaleHandled ==
  ASSUME SalesInv, NEW s \in Sessions, Selling!Handle(s)
  PROVE  \E act \in Selling!Handlers : \E row \in Selling!Row(act) :
           Selling!Pend(s, act, row) /\ SaleSound(act, row)
<1>1. CASE Selling!CreateEnquiry(s)
  BY <1>1 DEF Selling!CreateEnquiry, Selling!Handlers, Selling!Row, SaleSound, SalesInv
<1>2. CASE Selling!CreateContractReview(s)
  <2> DEFINE n == Selling!NextNumber(Selling!NumbersOf(reviews))
  <2>1. PICK e \in enquiries, status \in Selling!ContractReviewStatus, checked \in BOOLEAN :
          Selling!Pend(s, "create_contract_review",
               [number |-> n, enquiry |-> e, status |-> status, checked |-> checked])
    BY <1>2 DEF Selling!CreateContractReview
  <2>2. n \in Nat /\ n \in 1 .. (Len(reviews) + 1) /\ e \in Enquiries
    BY NextInReach DEF SalesInv
  <2> HIDE DEF n
  <2> DEFINE row == [number |-> n, enquiry |-> e, status |-> status, checked |-> checked]
  <2>3. row \in Selling!Row("create_contract_review") /\ SaleSound("create_contract_review", row)
    BY <2>2 DEF Selling!Row, Selling!ContractReview, SaleSound, NumberInReach
  <2> QED BY <2>1, <2>3 DEF Selling!Handlers
<1>3. CASE Selling!CreateQuotation(s)
  <2> DEFINE n == Selling!NextNumber(Selling!NumbersOf(quotations))
  <2>1. PICK e \in enquiries, r \in DOMAIN reviews :
          Selling!Pend(s, "create_quotation", [number |-> n, enquiry |-> e, review |-> r])
    BY <1>3 DEF Selling!CreateQuotation
  <2>2. n \in Nat /\ n \in 1 .. (Len(quotations) + 1) /\ e \in Enquiries /\ r \in Nat
    BY NextInReach DEF SalesInv
  <2> HIDE DEF n
  <2> DEFINE row == [number |-> n, enquiry |-> e, review |-> r]
  <2>3. row \in Selling!Row("create_quotation") /\ SaleSound("create_quotation", row)
    BY <2>2 DEF Selling!Row, Selling!Quotation, SaleSound, NumberInReach
  <2> QED BY <2>1, <2>3 DEF Selling!Handlers
<1>4. CASE Selling!CreateCustomerPOReview(s)
  <2> DEFINE n == Selling!NextNumber(Selling!NumbersOf(poReviews))
  <2>1. PICK q \in DOMAIN quotations, po \in CustomerPOs, accepted \in BOOLEAN :
          Selling!Pend(s, "create_customer_po_review",
               [number |-> n, quotation |-> q, po |-> po, accepted |-> accepted])
    BY <1>4 DEF Selling!CreateCustomerPOReview
  <2>2. n \in Nat /\ n \in 1 .. (Len(poReviews) + 1) /\ q \in Nat
    BY NextInReach DEF SalesInv
  <2> HIDE DEF n
  <2> DEFINE row == [number |-> n, quotation |-> q, po |-> po, accepted |-> accepted]
  <2>3. /\ row \in Selling!Row("create_customer_po_review")
        /\ SaleSound("create_customer_po_review", row)
    BY <2>2 DEF Selling!Row, Selling!CustomerPOReview, SaleSound, NumberInReach
  <2> QED BY <2>1, <2>3 DEF Selling!Handlers
<1>5. CASE Selling!CreateSalesOrder(s)
  <2>1. PICK e \in enquiries, r \in DOMAIN reviews, q \in DOMAIN quotations,
             p \in DOMAIN poReviews :
          /\ Selling!Approved(r) /\ quotations[q].review = r /\ Selling!AcceptedFor(p, q)
          /\ Selling!Pend(s, "create_sales_order",
                  [enquiry |-> e, review |-> r, quotation |-> q, poReview |-> p])
    BY <1>5 DEF Selling!CreateSalesOrder
  <2>2. e \in Enquiries /\ r \in Nat /\ q \in Nat /\ p \in Nat
    BY DEF SalesInv
  <2> DEFINE row == [enquiry |-> e, review |-> r, quotation |-> q, poReview |-> p]
  <2>3. row \in Selling!Row("create_sales_order") /\ SaleSound("create_sales_order", row)
    BY <2>1, <2>2 DEF Selling!Row, Selling!SalesOrder, SaleSound, Traced, Selling!Approved,
                      Selling!AcceptedFor
  <2> QED BY <2>1, <2>3 DEF Selling!Handlers
<1> QED BY <1>1, <1>2, <1>3, <1>4, <1>5 DEF Selling!Handle

\* A commit appends to one table and leaves the rows that are there.
LEMMA SaleApplied ==
  ASSUME SalesInv, NEW s \in Sessions, SalePending(s),
         Selling!Apply(salesReq[s]), ~Selling!ConstraintFails(salesReq[s])
  PROVE  /\ enquiries' \subseteq Enquiries
         /\ reviews' \in Seq(Selling!ContractReview) /\ quotations' \in Seq(Selling!Quotation)
         /\ poReviews' \in Seq(Selling!CustomerPOReview) /\ orders' \in Seq(Selling!SalesOrder)
         /\ Numbered(reviews') /\ Numbered(quotations') /\ Numbered(poReviews')
         /\ OneReviewEach'
         /\ Len(reviews') >= Len(reviews) /\ \A i \in DOMAIN reviews : reviews'[i] = reviews[i]
         /\ Len(quotations') >= Len(quotations)
         /\ \A i \in DOMAIN quotations : quotations'[i] = quotations[i]
         /\ Len(poReviews') >= Len(poReviews)
         /\ \A i \in DOMAIN poReviews : poReviews'[i] = poReviews[i]
         /\ \A i \in DOMAIN orders' :
              (i \in DOMAIN orders /\ orders'[i] = orders[i]) \/ Traced(orders'[i])
<1> DEFINE act == salesReq[s].act
           row == salesReq[s].row
<1>0. act \in Selling!Handlers /\ row \in Selling!Row(act) /\ SaleSound(act, row)
  BY DEF SalePending
<1>1. CASE act = "create_enquiry"
  BY <1>0, <1>1 DEF Selling!Apply, Selling!Inserted, Selling!Row, SalesInv, OneReviewEach
<1>2. CASE act = "create_contract_review"
  <2>1. /\ row \in Selling!ContractReview /\ NumberInReach(row, reviews)
        /\ row.number \notin Selling!NumbersOf(reviews)
        /\ \A i \in DOMAIN reviews : reviews[i].enquiry # row.enquiry
    BY <1>0, <1>2 DEF Selling!Row, SaleSound, Selling!ConstraintFails, Selling!NumbersOf
  <2>2. /\ reviews' = Append(reviews, row)
        /\ UNCHANGED <<enquiries, quotations, poReviews, orders>>
    BY <1>2 DEF Selling!Apply, Selling!Inserted
  <2> HIDE DEF row
  <2>3. Numbered(reviews')
    BY <2>1, <2>2, NumberedAppend DEF SalesInv
  <2>4. /\ reviews' \in Seq(Selling!ContractReview) /\ Len(reviews') = Len(reviews) + 1
        /\ reviews'[Len(reviews) + 1] = row
        /\ \A i \in DOMAIN reviews : reviews'[i] = reviews[i]
    BY <2>1, <2>2 DEF SalesInv
  <2>5. OneReviewEach'
    <3>1. DOMAIN reviews' = DOMAIN reviews \cup {Len(reviews) + 1}
      BY <2>4 DEF SalesInv
    <3>2. \A i \in DOMAIN reviews : reviews'[i].enquiry # row.enquiry
      BY <2>1, <2>4
    <3> QED BY <2>4, <3>1, <3>2 DEF SalesInv, OneReviewEach
  <2> QED BY <2>2, <2>3, <2>4, <2>5 DEF SalesInv
<1>3. CASE act = "create_quotation"
  <2>1. /\ row \in Selling!Quotation /\ NumberInReach(row, quotations)
        /\ row.number \notin Selling!NumbersOf(quotations)
    BY <1>0, <1>3 DEF Selling!Row, SaleSound, Selling!ConstraintFails
  <2>2. /\ quotations' = Append(quotations, row)
        /\ UNCHANGED <<enquiries, reviews, poReviews, orders>>
    BY <1>3 DEF Selling!Apply, Selling!Inserted
  <2> HIDE DEF row
  <2>3. Numbered(quotations')
    BY <2>1, <2>2, NumberedAppend DEF SalesInv
  <2> QED BY <2>1, <2>2, <2>3 DEF SalesInv, OneReviewEach
<1>4. CASE act = "create_customer_po_review"
  <2>1. /\ row \in Selling!CustomerPOReview /\ NumberInReach(row, poReviews)
        /\ row.number \notin Selling!NumbersOf(poReviews)
    BY <1>0, <1>4 DEF Selling!Row, SaleSound, Selling!ConstraintFails, Selling!NumbersOf
  <2>2. /\ poReviews' = Append(poReviews, row)
        /\ UNCHANGED <<enquiries, reviews, quotations, orders>>
    BY <1>4 DEF Selling!Apply, Selling!Inserted
  <2> HIDE DEF row
  <2>3. Numbered(poReviews')
    BY <2>1, <2>2, NumberedAppend DEF SalesInv
  <2> QED BY <2>1, <2>2, <2>3 DEF SalesInv, OneReviewEach
<1>5. CASE act = "create_sales_order"
  <2>1. row \in Selling!SalesOrder /\ Traced(row)
    BY <1>0, <1>5 DEF Selling!Row, SaleSound
  <2>2. /\ orders' = Append(orders, row)
        /\ UNCHANGED <<enquiries, reviews, quotations, poReviews>>
    BY <1>5 DEF Selling!Apply, Selling!Inserted
  <2> HIDE DEF row
  <2> QED BY <2>1, <2>2 DEF SalesInv, OneReviewEach
<1> QED BY <1>0, <1>1, <1>2, <1>3, <1>4, <1>5 DEF Selling!Handlers

-----------------------------------------------------------------------------
LEMMA InitSalesInv == Selling!Init => SalesInv
<1> SUFFICES ASSUME Selling!Init PROVE SalesInv
  OBVIOUS
<1>1. Numbered(<<>>)
  BY DEF Numbered, Selling!NumbersOf
<1> QED BY <1>1 DEF Selling!Init, SalesInv, OneReviewEach

LEMMA WaitSalesInv ==
  ASSUME SalesInv, UNCHANGED Selling!db, DOMAIN salesReq' = Sessions,
         \A s \in Sessions :
           \/ salesReq'[s] = salesReq[s] \/ salesReq'[s] = Selling!Idle
           \/ /\ salesReq'[s].act \in Selling!Handlers
              /\ salesReq'[s].row \in Selling!Row(salesReq'[s].act)
              /\ SaleSound(salesReq'[s].act, salesReq'[s].row)
  PROVE  SalesInv'
<1>1. \A s \in Sessions : salesReq'[s] = Selling!Idle \/ SalePending(s)'
  BY DEF SalesInv, SalePending, SaleSound, NumberInReach, Traced, Selling!db
<1> QED BY <1>1 DEF SalesInv, Numbered, Selling!NumbersOf, OneReviewEach, Traced, Selling!db

LEMMA CommitSalesInv ==
  ASSUME SalesInv, NEW s \in Sessions, Selling!Commit(s)
  PROVE  SalesInv'
<1>0. /\ SalePending(s) /\ DOMAIN salesReq = Sessions
      /\ salesReq' = [salesReq EXCEPT ![s] = Selling!Idle]
  BY DEF SalesInv, Selling!Commit
<1>1. CASE Selling!ConstraintFails(salesReq[s])
  BY <1>0, <1>1, WaitSalesInv DEF Selling!Commit
<1>2. CASE ~Selling!ConstraintFails(salesReq[s])
  <2>0. Selling!Apply(salesReq[s])
    BY <1>2 DEF Selling!Commit
  <2>1. /\ reviews \in Seq(Selling!ContractReview) /\ quotations \in Seq(Selling!Quotation)
        /\ poReviews \in Seq(Selling!CustomerPOReview)
    BY DEF SalesInv
  <2>2. /\ reviews' \in Seq(Selling!ContractReview) /\ quotations' \in Seq(Selling!Quotation)
        /\ poReviews' \in Seq(Selling!CustomerPOReview)
        /\ Len(reviews') >= Len(reviews) /\ \A i \in DOMAIN reviews : reviews'[i] = reviews[i]
        /\ Len(quotations') >= Len(quotations)
        /\ \A i \in DOMAIN quotations : quotations'[i] = quotations[i]
        /\ Len(poReviews') >= Len(poReviews)
        /\ \A i \in DOMAIN poReviews : poReviews'[i] = poReviews[i]
    BY <1>0, <1>2, <2>0, SaleApplied
  <2>3. ASSUME NEW row, Traced(row) PROVE Traced(row)'
    BY <2>1, <2>2, <2>3 DEF Traced
  <2>4. ASSUME NEW act \in Selling!Handlers, NEW row, SaleSound(act, row) PROVE SaleSound(act, row)'
    BY <2>1, <2>2, <2>3, <2>4 DEF SaleSound, NumberInReach
  <2>5. \A t \in Sessions : salesReq'[t] = Selling!Idle \/ SalePending(t)'
    <3> SUFFICES ASSUME NEW t \in Sessions, t # s, SalePending(t) PROVE SalePending(t)'
      BY <1>0 DEF SalesInv, SalePending, SaleSound, NumberInReach, Traced
    <3>1. PICK act, row :
            /\ act \in Selling!Handlers /\ act = salesReq'[t].act /\ row = salesReq'[t].row
            /\ row \in Selling!Row(act) /\ SaleSound(act, row)
      BY <1>0 DEF SalePending
    <3>2. SaleSound(act, row)'
      BY <2>4, <3>1
    <3> QED BY <3>1, <3>2 DEF SalePending, SaleSound, NumberInReach, Traced
  <2>6. \A i \in DOMAIN orders' : Traced(orders[i])'
    BY <1>0, <1>2, <2>0, <2>3, SaleApplied DEF SalesInv
  <2> QED BY <1>0, <1>2, <2>0, <2>5, <2>6, SaleApplied DEF SalesInv, Numbered, Selling!NumbersOf
<1> QED BY <1>1, <1>2

LEMMA NextSalesInv == SalesInv /\ [Selling!Next]_(Selling!vars) => SalesInv'
<1> SUFFICES ASSUME SalesInv, [Selling!Next]_(Selling!vars) PROVE SalesInv'
  OBVIOUS
<1>1. CASE UNCHANGED Selling!vars
  BY <1>1, WaitSalesInv DEF Selling!vars, SalesInv
<1>2. ASSUME NEW s \in Sessions, Selling!Handle(s) PROVE SalesInv'
  <2>0. PICK act \in Selling!Handlers :
          \E row \in Selling!Row(act) : Selling!Pend(s, act, row) /\ SaleSound(act, row)
    BY <1>2, SaleHandled
  <2>1. PICK row \in Selling!Row(act) : Selling!Pend(s, act, row) /\ SaleSound(act, row)
    BY <2>0
  <2> DEFINE r == [act |-> act, row |-> row]
  <2>2. r.act = act /\ r.row = row /\ salesReq' = [salesReq EXCEPT ![s] = r] /\ UNCHANGED Selling!db
    BY <2>1 DEF Selling!Pend
  <2> HIDE DEF r
  <2> QED BY <2>1, <2>2, WaitSalesInv DEF SalesInv
<1>3. ASSUME NEW s \in Sessions, Selling!Abort(s) PROVE SalesInv'
  BY <1>3, WaitSalesInv DEF Selling!Abort, SalesInv
<1> QED BY <1>1, <1>2, <1>3, CommitSalesInv DEF Selling!Next

LEMMA SalesKept == Selling!Spec => []SalesInv
  BY InitSalesInv, NextSalesInv, PTL DEF Selling!Spec

-----------------------------------------------------------------------------
\* Every table, and what every request is about to insert, keeps its type: a
\* document number is a number, made from those in use.
THEOREM SalesTypeCorrect == Selling!Spec => []Selling!TypeOK
<1>1. SalesInv => Selling!TypeOK
  BY DEF SalesInv, Selling!TypeOK, SalePending
<1> QED BY <1>1, SalesKept, PTL

\* Every sales order goes back to one approved contract review, the only one
\* of its enquiry: no row that its handler has seen is changed or deleted, and
\* the unique index keeps a second review out.
THEOREM SalesOrdersTraced == Selling!Spec => []Selling!OrdersTraceToApproval
<1>1. SalesInv => Selling!OrdersTraceToApproval
  BY DEF SalesInv, OneReviewEach, Traced, Selling!OrdersTraceToApproval
<1> QED BY <1>1, SalesKept, PTL

\* Contract reviews, quotations and PO reviews are numbered without a gap or a
\* repetition, though no handler locks the numbers it reads.
THEOREM NumbersGapless ==
  Selling!Spec => [](Numbered(reviews) /\ Numbered(quotations) /\ Numbered(poReviews))
<1>1. SalesInv => Numbered(reviews) /\ Numbered(quotations) /\ Numbered(poReviews)
  BY DEF SalesInv
<1> QED BY <1>1, SalesKept, PTL

-----------------------------------------------------------------------------
(* Maintenance: what a handler has checked of its request and what no      *)
(* commit of another request undoes: a row that is there stays.            *)

ChangesMachine == Plant!Handlers \ {"create_machine"}

\* The status a handler gives the machine.
Target(act) == IF act = "complete_work_order" THEN "Active" ELSE "UnderMaintenance"

\* Work order i is of breakdown b.
OnWorkOrder(i, b) == i \in DOMAIN workOrders /\ workOrders[i].breakdown = b

MachineSound(r) ==
  /\ r.act \in Plant!Handlers => r.machine \in Machines
  /\ r.act = "create_machine" =>
       r.from = None /\ r.to \in Plant!MachineStatus
  /\ r.act \in ChangesMachine =>
       /\ machines[r.machine] # None /\ r.from \in Plant!MachineStatus
       /\ r.to \in {Plant!Keep, Target(r.act)}
       /\ r.breakdown \in Breakdowns
  /\ r.act = "report_breakdown" =>
       r.report = "Assigned" /\ r.wo = Plant!NewWorkOrder(r.breakdown, r.breakdown, "Created")
  /\ r.act \in {"create_work_order", "complete_work_order"} =>
       breakdowns[r.breakdown] # None /\ breakdowns[r.breakdown].machine = r.machine
  /\ r.act = "create_work_order" =>
       r.report \in {"Assigned", Plant!Keep} /\ r.wo # None /\ r.wo.breakdown = r.breakdown
  /\ r.act = "complete_work_order" => r.wo = None /\ OnWorkOrder(r.completes, r.breakdown)
  /\ r.act \notin ChangesMachine => r.wo = None /\ r.report = Plant!Keep
  /\ r.act = None => r.to = Plant!Keep

BreakdownOnMachine ==
  \A b \in Breakdowns : breakdowns[b] # None => machines[breakdowns[b].machine] # None

WorkOrderOnBreakdown ==
  \A i \in DOMAIN workOrders : breakdowns[workOrders[i].breakdown] # None

MachineRecordsInv ==
  /\ Plant!TypeOK
  /\ \A s \in Sessions : MachineSound(plantReq[s])
  /\ BreakdownOnMachine /\ WorkOrderOnBreakdown
  /\ Plant!EveryBreakdownHasWorkOrder

-----------------------------------------------------------------------------
(* What holds of a machine as long as no two requests deal with it at once.*)

\* The status a request has read is the machine's, and where it writes none
\* the machine has it.
MachineFresh(r) ==
  r.act \in ChangesMachine =>
    /\ r.from = machines[r.machine]
    /\ r.to = Plant!Keep => machines[r.machine] = Target(r.act)

OneRequestEach ==
  \A s, t \in Sessions :
    s # t /\ plantReq[s].machine \in Machines /\ plantReq[t].machine = plantReq[s].machine =>
      plantReq[s].machine \in plantCrossed

NoRowNoHistory == \A m \in Machines \ plantCrossed : machines[m] = None => history[m] = <<>>

MachineInv ==
  /\ MachineRecordsInv
  /\ OneRequestEach
  /\ \A s \in Sessions : plantReq[s].machine \notin plantCrossed => MachineFresh(plantReq[s])
  /\ NoRowNoHistory /\ Plant!HistoryTellsStatus

-----------------------------------------------------------------------------
LEMMA MachineIdle ==
  ASSUME Plant!MaintenanceConstants
  PROVE  /\ Plant!Idle \in Plant!Request /\ Plant!Idle.act = None /\ Plant!Idle.machine = None
         /\ MachineSound(Plant!Idle) /\ MachineFresh(Plant!Idle)
  BY DEF Plant!MaintenanceConstants, Plant!Idle, Plant!Request, MachineSound, MachineFresh,
         Plant!Handlers, ChangesMachine

\* Every handler leaves a request that is sound, and fresh as long as none
\* deals with the same machine.
LEMMA MachineHandled ==
  ASSUME Plant!MaintenanceConstants, MachineRecordsInv, NEW s \in Sessions, Plant!Handle(s)
  PROVE  \E r \in Plant!Request : Plant!Pend(s, r) /\ MachineSound(r) /\ MachineFresh(r)
<1>1. CASE Plant!CreateMachine(s)
  <2>1. PICK m \in Machines, status \in Plant!MachineStatus :
          Plant!Pend(s, [Plant!Idle EXCEPT !.act = "create_machine", !.machine = m, !.to = status])
    BY <1>1 DEF Plant!CreateMachine
  <2> DEFINE r == [Plant!Idle EXCEPT !.act = "create_machine", !.machine = m, !.to = status]
  <2>2. /\ r \in Plant!Request /\ r.act = "create_machine" /\ r.machine = m /\ r.to = status
        /\ r.from = None /\ r.report = Plant!Keep /\ r.wo = None
    BY DEF Plant!Idle, Plant!Request, Plant!Handlers
  <2>3. Plant!Pend(s, r)
    BY <2>1
  <2> HIDE DEF r
  <2> QED BY <2>2, <2>3 DEF Plant!MaintenanceConstants, MachineSound, MachineFresh,
                            Plant!Handlers, ChangesMachine
<1>2. ASSUME NEW act \in ChangesMachine, NEW m \in Machines, machines[m] # None,
             NEW b \in Breakdowns, NEW w \in Plant!MaintenanceWorkOrder \cup {None}, NEW i \in Nat,
             NEW report \in Plant!BreakdownStatus \cup {Plant!Keep},
             Plant!Pend(s, Plant!OnMachine(act, Plant!SetMachineStatus(m, Target(act)), b, report,
                                           w, i)),
             act = "report_breakdown" =>
               report = "Assigned" /\ w = Plant!NewWorkOrder(b, b, "Created"),
             act # "report_breakdown" => breakdowns[b] # None /\ breakdowns[b].machine = m,
             act = "create_work_order" =>
               report \in {"Assigned", Plant!Keep} /\ w # None /\ w.breakdown = b,
             act = "complete_work_order" => w = None /\ OnWorkOrder(i, b)
      PROVE  \E r \in Plant!Request : Plant!Pend(s, r) /\ MachineSound(r) /\ MachineFresh(r)
  <2> DEFINE r == Plant!OnMachine(act, Plant!SetMachineStatus(m, Target(act)), b, report, w, i)
  <2>1. machines[m] \in Plant!MachineStatus /\ Target(act) \in Plant!MachineStatus
    BY <1>2 DEF MachineRecordsInv, Plant!TypeOK, Target, Plant!MachineStatus
  <2>2. /\ r \in Plant!Request /\ r.act = act /\ r.machine = m /\ r.from = machines[m]
        /\ r.to = IF machines[m] = Target(act) THEN Plant!Keep ELSE Target(act)
        /\ r.breakdown = b /\ r.report = report /\ r.wo = w /\ r.completes = i
    <3> HIDE DEF Target
    <3> QED BY <2>1 DEF Plant!OnMachine, Plant!SetMachineStatus, Plant!Request, ChangesMachine
  <2>3. Plant!Pend(s, r)
    BY <1>2
  <2> HIDE DEF r
  <2>4. r.to \in {Plant!Keep, Target(act)} /\ (r.to = Plant!Keep => machines[m] = Target(act))
    BY <2>2 DEF Target, Plant!Keep
  <2>5. MachineFresh(r)
    BY <2>2, <2>4 DEF MachineFresh
  <2>6. MachineSound(r)
    BY <1>2, <2>1, <2>2, <2>4
       DEF Plant!MaintenanceConstants, MachineSound, Plant!Handlers, ChangesMachine
  <2> QED BY <2>2, <2>3, <2>5, <2>6
<1>3. CASE Plant!ReportBreakdown(s)
  <2>1. PICK m \in Machines, b \in Breakdowns :
          /\ machines[m] # None
          /\ Plant!Pend(s, Plant!OnMachine("report_breakdown",
                               Plant!SetMachineStatus(m, "UnderMaintenance"),
                               b, "Assigned", Plant!NewWorkOrder(b, b, "Created"), 0))
    BY <1>3 DEF Plant!ReportBreakdown
  <2>2. Plant!NewWorkOrder(b, b, "Created") \in Plant!MaintenanceWorkOrder
    BY DEF Plant!NewWorkOrder, Plant!MaintenanceWorkOrder, Plant!WorkOrderStatus,
           Plant!MaintenanceConstants
  <2>3. "report_breakdown" \in ChangesMachine /\ "Assigned" \in Plant!BreakdownStatus
    BY DEF ChangesMachine, Plant!Handlers, Plant!BreakdownStatus
  <2>4. Target("report_breakdown") = "UnderMaintenance"
    BY DEF Target
  <2> QED BY <1>2, <2>1, <2>2, <2>3, <2>4
<1>4. CASE Plant!CreateWorkOrder(s)
  <2>1. PICK b \in Breakdowns, n \in WorkOrders, status \in Plant!WorkOrderStatus :
          /\ breakdowns[b] # None
          /\ Plant!Pend(s, Plant!OnMachine("create_work_order",
                               Plant!SetMachineStatus(breakdowns[b].machine, "UnderMaintenance"),
                               b,
                               IF breakdowns[b].status = "Open" THEN "Assigned" ELSE Plant!Keep,
                               Plant!NewWorkOrder(n, b, status), 0))
    BY <1>4 DEF Plant!CreateWorkOrder
  <2> DEFINE report == IF breakdowns[b].status = "Open" THEN "Assigned" ELSE Plant!Keep
             w == Plant!NewWorkOrder(n, b, status)
  <2>2. breakdowns[b].machine \in Machines /\ machines[breakdowns[b].machine] # None
    BY <2>1 DEF MachineRecordsInv, Plant!TypeOK, Plant!BreakdownReport, BreakdownOnMachine
  <2>3. report \in Plant!BreakdownStatus \cup {Plant!Keep} /\ report \in {"Assigned", Plant!Keep}
    BY DEF Plant!BreakdownStatus
  <2>4. w \in Plant!MaintenanceWorkOrder /\ w.breakdown = b
    BY DEF Plant!NewWorkOrder, Plant!MaintenanceWorkOrder
  <2>5. Plant!Pend(s, Plant!OnMachine("create_work_order",
                          Plant!SetMachineStatus(breakdowns[b].machine, "UnderMaintenance"),
                          b, report, w, 0))
    BY <2>1
  <2> HIDE DEF report, w
  <2>6. w # None
    BY <2>4 DEF Plant!MaintenanceConstants
  <2>7. "create_work_order" \in ChangesMachine /\ Target("create_work_order") = "UnderMaintenance"
    BY DEF ChangesMachine, Plant!Handlers, Target
  <2> QED BY <1>2, <2>1, <2>2, <2>3, <2>4, <2>5, <2>6, <2>7
<1>5. CASE Plant!CompleteWorkOrder(s)
  <2>1. PICK i \in DOMAIN workOrders, verdict \in Verdicts :
          Plant!Pend(s, Plant!OnMachine("complete_work_order",
                       Plant!SetMachineStatus(breakdowns[workOrders[i].breakdown].machine, "Active"),
                       workOrders[i].breakdown,
                       IF breakdowns[workOrders[i].breakdown].status = verdict
                       THEN Plant!Keep ELSE verdict, None, i))
    BY <1>5 DEF Plant!CompleteWorkOrder
  <2> DEFINE b == workOrders[i].breakdown
             report == IF breakdowns[b].status = verdict THEN Plant!Keep ELSE verdict
  <2>2. /\ b \in Breakdowns /\ breakdowns[b] # None /\ i \in Nat
        /\ breakdowns[b].machine \in Machines /\ machines[breakdowns[b].machine] # None
    <3>1. workOrders[i] \in Plant!MaintenanceWorkOrder /\ i \in Nat
      BY DEF MachineRecordsInv, Plant!TypeOK
    <3>2. b \in Breakdowns /\ breakdowns[b] # None
      BY <3>1 DEF Plant!MaintenanceWorkOrder, MachineRecordsInv, WorkOrderOnBreakdown
    <3> HIDE DEF b
    <3> QED BY <3>1, <3>2
            DEF MachineRecordsInv, Plant!TypeOK, Plant!BreakdownReport, BreakdownOnMachine
  <2>3. report \in Plant!BreakdownStatus \cup {Plant!Keep}
    BY DEF Plant!MaintenanceConstants
  <2>4. Plant!Pend(s, Plant!OnMachine("complete_work_order",
                          Plant!SetMachineStatus(breakdowns[b].machine, "Active"),
                          b, report, None, i))
    BY <2>1
  <2>5. OnWorkOrder(i, b)
    BY DEF OnWorkOrder
  <2> HIDE DEF report, b
  <2>6. "complete_work_order" \in ChangesMachine /\ Target("complete_work_order") = "Active"
    BY DEF ChangesMachine, Plant!Handlers, Target
  <2> QED BY <1>2, <2>1, <2>2, <2>3, <2>4, <2>5, <2>6
<1> QED BY <1>1, <1>3, <1>4, <1>5 DEF Plant!Handle

-----------------------------------------------------------------------------
(* The rows.                                                               *)

LEMMA InitRecordsInv == Plant!MaintenanceConstants => (Plant!Init => MachineRecordsInv)
<1> SUFFICES ASSUME Plant!MaintenanceConstants, Plant!Init PROVE MachineRecordsInv
  OBVIOUS
<1>1. Plant!TypeOK
  BY MachineIdle DEF Plant!Init, Plant!TypeOK
<1>2. \A s \in Sessions : MachineSound(plantReq[s])
  BY MachineIdle DEF Plant!Init
<1> QED BY <1>1, <1>2
        DEF Plant!Init, MachineRecordsInv, BreakdownOnMachine, WorkOrderOnBreakdown,
            Plant!EveryBreakdownHasWorkOrder

LEMMA WaitRecordsInv ==
  ASSUME MachineRecordsInv, UNCHANGED Plant!db, plantReq' \in [Sessions -> Plant!Request],
         plantCrossed' \subseteq Machines,
         \A s \in Sessions : plantReq'[s] = plantReq[s] \/ MachineSound(plantReq'[s])
  PROVE  MachineRecordsInv'
<1>1. \A s \in Sessions : MachineSound(plantReq'[s])
  BY DEF MachineRecordsInv
<1>2. \A s \in Sessions : MachineSound(plantReq[s])'
  BY <1>1 DEF MachineSound, OnWorkOrder, Plant!db
<1> QED BY <1>2
        DEF MachineRecordsInv, Plant!TypeOK, BreakdownOnMachine, WorkOrderOnBreakdown,
            Plant!EveryBreakdownHasWorkOrder, Plant!db

\* What a commit does to the work orders: a row keeps its number and breakdown,
\* a completed one stays so, and the row of the request is there.
LEMMA ApplyWorkOrders ==
  ASSUME Plant!MaintenanceConstants, MachineRecordsInv, NEW s \in Sessions, Plant!Apply(plantReq[s])
  PROVE  /\ workOrders' \in Seq(Plant!MaintenanceWorkOrder)
         /\ \A i \in DOMAIN workOrders :
              /\ i \in DOMAIN workOrders' /\ workOrders'[i].number = workOrders[i].number
              /\ workOrders'[i].breakdown = workOrders[i].breakdown
              /\ workOrders[i].status = "Completed" => workOrders'[i].status = "Completed"
         /\ \A i \in DOMAIN workOrders' \ DOMAIN workOrders :
              plantReq[s].wo # None /\ workOrders'[i] = plantReq[s].wo
         /\ plantReq[s].wo # None => \E i \in DOMAIN workOrders' : workOrders'[i] = plantReq[s].wo
         /\ plantReq[s].act = "complete_work_order" =>
              workOrders'[plantReq[s].completes].status = "Completed"
<1> DEFINE r == plantReq[s]
<1>0. /\ r \in Plant!Request /\ MachineSound(r) /\ workOrders' = Plant!WorkOrdersAfter(r)
      /\ workOrders \in Seq(Plant!MaintenanceWorkOrder) /\ Len(workOrders) \in Nat
      /\ DOMAIN workOrders = 1 .. Len(workOrders)
      /\ \A i \in DOMAIN workOrders : workOrders[i] \in Plant!MaintenanceWorkOrder
  BY DEF MachineRecordsInv, Plant!TypeOK, Plant!Apply
<1>1. CASE r.wo # None
  <2>1. r.act # "complete_work_order" /\ r.wo \in Plant!MaintenanceWorkOrder
    BY <1>0, <1>1 DEF MachineSound, Plant!Request
  <2>2. workOrders' = Append(workOrders, r.wo)
    BY <1>0, <1>1, <2>1 DEF Plant!WorkOrdersAfter
  <2> HIDE DEF r
  <2>3. /\ workOrders' \in Seq(Plant!MaintenanceWorkOrder) /\ Len(workOrders') = Len(workOrders) + 1
        /\ DOMAIN workOrders' = 1 .. (Len(workOrders) + 1)
        /\ \A i \in 1 .. Len(workOrders) : workOrders'[i] = workOrders[i]
        /\ workOrders'[Len(workOrders) + 1] = r.wo
    BY <1>0, <2>1, <2>2, AppendProperties
  <2>4. \A i \in DOMAIN workOrders' \ DOMAIN workOrders : i = Len(workOrders) + 1
    BY <1>0, <2>3
  <2> USE DEF r
  <2> QED BY <1>0, <1>1, <2>1, <2>3, <2>4
<1>2. CASE r.act = "complete_work_order"
  <2> DEFINE row == [workOrders[r.completes] EXCEPT !.status = "Completed"]
  <2>1. r.wo = None /\ r.completes \in DOMAIN workOrders
    BY <1>0, <1>2 DEF MachineSound, OnWorkOrder
  <2>2. /\ row \in Plant!MaintenanceWorkOrder /\ row.number = workOrders[r.completes].number
        /\ row.breakdown = workOrders[r.completes].breakdown /\ row.status = "Completed"
    BY <1>0, <2>1 DEF Plant!MaintenanceWorkOrder, Plant!WorkOrderStatus
  <2>3. workOrders' = [workOrders EXCEPT ![r.completes] = row]
    BY <1>0, <1>2, <2>1 DEF Plant!WorkOrdersAfter
  <2> HIDE DEF row
  <2>4. /\ DOMAIN workOrders' = DOMAIN workOrders /\ workOrders'[r.completes] = row
        /\ \A i \in DOMAIN workOrders : i # r.completes => workOrders'[i] = workOrders[i]
    BY <2>1, <2>3
  <2>5. workOrders' \in Seq(Plant!MaintenanceWorkOrder)
    BY <1>0, <2>1, <2>2, <2>3, ExceptSeq
  <2> QED BY <2>1, <2>2, <2>4, <2>5
<1>3. CASE r.wo = None /\ r.act # "complete_work_order"
  BY <1>0, <1>3 DEF Plant!WorkOrdersAfter
<1> QED BY <1>1, <1>2, <1>3

\* A commit keeps the types, and every row: a machine, a breakdown with its
\* machine, a work order with its breakdown.
LEMMA ApplyTypes ==
  ASSUME Plant!MaintenanceConstants, MachineRecordsInv, NEW s \in Sessions, Plant!Apply(plantReq[s])
  PROVE  /\ machines' \in [Machines -> Plant!MachineStatus \cup {None}]
         /\ history' \in [Machines -> Seq(Plant!MachineHistory)]
         /\ breakdowns' \in [Breakdowns -> Plant!BreakdownReport \cup {None}]
         /\ workOrders' \in Seq(Plant!MaintenanceWorkOrder)
<1> DEFINE r == plantReq[s]
<1>0. Plant!TypeOK /\ r \in Plant!Request /\ MachineSound(r)
  BY DEF MachineRecordsInv, Plant!TypeOK
<1>1. machines' \in [Machines -> Plant!MachineStatus \cup {None}]
  BY <1>0 DEF Plant!Apply, Plant!TypeOK, MachineSound, Plant!Request
<1>2. history' \in [Machines -> Seq(Plant!MachineHistory)]
  <2>1. CASE r.to = Plant!Keep
    BY <1>0, <2>1 DEF Plant!Apply, Plant!TypeOK
  <2>2. CASE r.to # Plant!Keep
    <3> DEFINE row == [from |-> r.from, to |-> r.to]
    <3>1. row \in Plant!MachineHistory /\ r.machine \in Machines
      BY <1>0, <2>2 DEF Plant!Request, Plant!MachineHistory, MachineSound
    <3>2. Append(history[r.machine], row) \in Seq(Plant!MachineHistory)
      <4> HIDE DEF row
      <4> QED BY <1>0, <3>1 DEF Plant!TypeOK
    <3>3. history' = [history EXCEPT ![r.machine] = Append(history[r.machine], row)]
      BY <2>2 DEF Plant!Apply
    <3> HIDE DEF row
    <3> QED BY <1>0, <3>1, <3>2, <3>3 DEF Plant!TypeOK
  <2> QED BY <2>1, <2>2
<1>3. breakdowns' \in [Breakdowns -> Plant!BreakdownReport \cup {None}]
  <2>1. CASE r.act = "report_breakdown"
    <3> DEFINE row == [machine |-> r.machine, status |-> r.report]
    <3>1. row \in Plant!BreakdownReport
      BY <1>0, <2>1 DEF MachineSound, Plant!Handlers, Plant!Request, Plant!BreakdownReport,
                        Plant!BreakdownStatus
    <3>2. breakdowns' = [breakdowns EXCEPT ![r.breakdown] = row]
      BY <2>1 DEF Plant!Apply
    <3> HIDE DEF row
    <3> QED BY <1>0, <3>1, <3>2 DEF Plant!TypeOK
  <2>2. CASE r.act # "report_breakdown" /\ r.report # Plant!Keep
    <3> DEFINE row == [breakdowns[r.breakdown] EXCEPT !.status = r.report]
    <3>1. row \in Plant!BreakdownReport
      <4>1. breakdowns[r.breakdown] \in Plant!BreakdownReport
        BY <1>0, <2>2 DEF MachineSound, Plant!Handlers, ChangesMachine, Plant!Request, Plant!TypeOK
      <4> QED BY <1>0, <2>2, <4>1 DEF Plant!BreakdownReport, Plant!Request
    <3>2. breakdowns' = [breakdowns EXCEPT ![r.breakdown] = row]
      BY <2>2 DEF Plant!Apply
    <3> HIDE DEF row
    <3> QED BY <1>0, <3>1, <3>2 DEF Plant!TypeOK
  <2> QED BY <1>0, <2>1, <2>2 DEF Plant!Apply, Plant!TypeOK
<1>4. workOrders' \in Seq(Plant!MaintenanceWorkOrder)
  BY ApplyWorkOrders
<1> QED BY <1>1, <1>2, <1>3, <1>4

LEMMA ApplyKeepsRows ==
  ASSUME Plant!MaintenanceConstants, MachineRecordsInv, NEW s \in Sessions,
         Plant!Apply(plantReq[s]),
         ~Plant!ConstraintFails(plantReq[s])
  PROVE  /\ \A m \in Machines : machines[m] # None => machines'[m] # None
         /\ \A b \in Breakdowns : breakdowns[b] # None =>
              breakdowns'[b] # None /\ breakdowns'[b].machine = breakdowns[b].machine
         /\ \A b \in Breakdowns : breakdowns[b] = None /\ breakdowns'[b] # None =>
              /\ plantReq[s].act = "report_breakdown" /\ plantReq[s].breakdown = b
              /\ breakdowns'[b].machine = plantReq[s].machine
         /\ \A b \in Breakdowns : breakdowns[b] # None =>
              \/ breakdowns'[b].status = breakdowns[b].status
              \/ /\ plantReq[s].act \in {"create_work_order", "complete_work_order"}
                 /\ plantReq[s].breakdown = b /\ breakdowns'[b].status = plantReq[s].report
         /\ plantReq[s].act = "report_breakdown" =>
              /\ breakdowns'[plantReq[s].breakdown] # None
              /\ breakdowns'[plantReq[s].breakdown].status = plantReq[s].report
<1> DEFINE r == plantReq[s]
<1>0. Plant!TypeOK /\ r \in Plant!Request /\ MachineSound(r)
  BY DEF MachineRecordsInv, Plant!TypeOK
<1>1. \A m \in Machines : machines[m] # None => machines'[m] # None
  BY <1>0 DEF Plant!Apply, Plant!TypeOK, MachineSound, Plant!Request, Plant!MaintenanceConstants
<1>2. ASSUME NEW b \in Breakdowns, breakdowns[b] # None
      PROVE  breakdowns'[b] # None /\ breakdowns'[b].machine = breakdowns[b].machine
  <2>0. breakdowns[b] \in Plant!BreakdownReport /\ ~(r.act = "report_breakdown" /\ r.breakdown = b)
    BY <1>0, <1>2 DEF Plant!TypeOK, Plant!ConstraintFails
  <2>1. CASE r.act # "report_breakdown" /\ r.report # Plant!Keep /\ r.breakdown = b
    <3> DEFINE row == [breakdowns[b] EXCEPT !.status = r.report]
    <3>1. row \in Plant!BreakdownReport /\ row.machine = breakdowns[b].machine
      BY <1>0, <2>0, <2>1 DEF Plant!BreakdownReport, Plant!Request
    <3>2. breakdowns'[b] = row
      BY <1>0, <2>1 DEF Plant!Apply, Plant!TypeOK
    <3> HIDE DEF row
    <3> QED BY <3>1, <3>2 DEF Plant!MaintenanceConstants
  <2>2. CASE ~(r.act # "report_breakdown" /\ r.report # Plant!Keep /\ r.breakdown = b)
    <3>1. breakdowns'[b] = breakdowns[b]
      BY <1>0, <2>0, <2>2 DEF Plant!Apply, Plant!TypeOK
    <3> QED BY <1>2, <3>1
  <2> QED BY <2>1, <2>2
<1>3. ASSUME NEW b \in Breakdowns, breakdowns[b] = None, breakdowns'[b] # None
      PROVE  /\ r.act = "report_breakdown" /\ r.breakdown = b
             /\ breakdowns'[b].machine = r.machine
  <2>1. CASE r.act = "report_breakdown"
    BY <1>0, <1>3, <2>1 DEF Plant!Apply, Plant!TypeOK
  <2>2. CASE r.act # "report_breakdown"
    <3>1. r.report # Plant!Keep => r.breakdown # b
      BY <1>0, <1>3, <2>2 DEF MachineSound, Plant!Handlers, ChangesMachine
    <3> QED BY <1>0, <1>3, <2>2, <3>1 DEF Plant!Apply, Plant!TypeOK
  <2> QED BY <2>1, <2>2
<1>4. ASSUME NEW b \in Breakdowns, breakdowns[b] # None
      PROVE  \/ breakdowns'[b].status = breakdowns[b].status
             \/ /\ r.act \in {"create_work_order", "complete_work_order"}
                /\ r.breakdown = b /\ breakdowns'[b].status = r.report
  <2>0. breakdowns[b] \in Plant!BreakdownReport /\ ~(r.act = "report_breakdown" /\ r.breakdown = b)
    BY <1>0, <1>4 DEF Plant!TypeOK, Plant!ConstraintFails
  <2>1. CASE r.act # "report_breakdown" /\ r.report # Plant!Keep /\ r.breakdown = b
    <3>1. r.act \in {"create_work_order", "complete_work_order"}
      BY <1>0, <2>1 DEF MachineSound, ChangesMachine, Plant!Handlers
    <3>2. breakdowns'[b] = [breakdowns[b] EXCEPT !.status = r.report]
      BY <1>0, <2>1 DEF Plant!Apply, Plant!TypeOK
    <3> QED BY <2>0, <2>1, <3>1, <3>2 DEF Plant!BreakdownReport
  <2>2. CASE ~(r.act # "report_breakdown" /\ r.report # Plant!Keep /\ r.breakdown = b)
    BY <1>0, <2>0, <2>2 DEF Plant!Apply, Plant!TypeOK
  <2> QED BY <2>1, <2>2
<1>5. ASSUME r.act = "report_breakdown"
      PROVE  breakdowns'[r.breakdown] # None /\ breakdowns'[r.breakdown].status = r.report
  <2> DEFINE report == [machine |-> r.machine, status |-> r.report]
  <2>1. report \in Plant!BreakdownReport /\ report.status = r.report /\ r.breakdown \in Breakdowns
    BY <1>0, <1>5
       DEF MachineSound, Plant!Handlers, ChangesMachine, Plant!Request, Plant!BreakdownReport,
           Plant!BreakdownStatus
  <2>2. breakdowns'[r.breakdown] = report
    BY <1>0, <1>5, <2>1 DEF Plant!Apply, Plant!TypeOK
  <2> HIDE DEF report
  <2> QED BY <2>1, <2>2 DEF Plant!MaintenanceConstants
<1> QED BY <1>1, <1>2, <1>3, <1>4, <1>5

LEMMA CommitRecordsInv ==
  ASSUME Plant!MaintenanceConstants, MachineRecordsInv, NEW s \in Sessions, Plant!Commit(s),
         plantCrossed' \subseteq Machines
  PROVE  MachineRecordsInv'
<1>0. plantReq' = [plantReq EXCEPT ![s] = Plant!Idle] /\ plantReq' \in [Sessions -> Plant!Request]
  BY MachineIdle DEF Plant!Commit, MachineRecordsInv, Plant!TypeOK
<1>1. CASE Plant!ConstraintFails(plantReq[s])
  BY <1>0, <1>1, MachineIdle, WaitRecordsInv DEF Plant!Commit, MachineRecordsInv, Plant!TypeOK
<1>2. CASE ~Plant!ConstraintFails(plantReq[s])
  <2>0. Plant!Apply(plantReq[s])
    BY <1>2 DEF Plant!Commit
  <2>1. Plant!TypeOK'
    BY <1>0, <2>0, ApplyTypes DEF Plant!TypeOK
  <2>2. \A t \in Sessions : MachineSound(plantReq[t])'
    <3> SUFFICES ASSUME NEW t \in Sessions PROVE MachineSound(plantReq[t])'
      OBVIOUS
    <3>1. PICK r \in Plant!Request : r = plantReq'[t] /\ MachineSound(r)
      BY <1>0, MachineIdle DEF MachineRecordsInv, Plant!TypeOK
    <3>2. MachineSound(r)'
      <4>1. OnWorkOrder(r.completes, r.breakdown) => OnWorkOrder(r.completes, r.breakdown)'
        BY <2>0, ApplyWorkOrders DEF OnWorkOrder
      <4> QED BY <1>2, <2>0, <3>1, <4>1, ApplyKeepsRows
              DEF MachineSound, ChangesMachine, Plant!Handlers
    <3> QED BY <3>1, <3>2 DEF MachineSound
  <2>3. BreakdownOnMachine'
    <3> SUFFICES ASSUME NEW b \in Breakdowns, breakdowns'[b] # None
                 PROVE  machines'[breakdowns'[b].machine] # None
      BY DEF BreakdownOnMachine
    <3>1. breakdowns'[b].machine \in Machines
      BY <2>1 DEF Plant!TypeOK, Plant!BreakdownReport
    <3>2. machines[breakdowns'[b].machine] # None
      <4>1. CASE breakdowns[b] # None
        BY <1>2, <2>0, <4>1, ApplyKeepsRows DEF MachineRecordsInv, BreakdownOnMachine
      <4>2. CASE breakdowns[b] = None
        BY <1>2, <2>0, <4>2, ApplyKeepsRows DEF MachineRecordsInv, MachineSound, ChangesMachine,
                                                Plant!Handlers
      <4> QED BY <4>1, <4>2
    <3> QED BY <1>2, <2>0, <3>1, <3>2, ApplyKeepsRows
  <2>4. WorkOrderOnBreakdown'
    <3> SUFFICES ASSUME NEW i \in DOMAIN workOrders'
                 PROVE  breakdowns'[workOrders'[i].breakdown] # None
      BY DEF WorkOrderOnBreakdown
    <3>1. CASE i \in DOMAIN workOrders
      <4>1. /\ workOrders'[i].breakdown = workOrders[i].breakdown
            /\ workOrders[i] \in Plant!MaintenanceWorkOrder
            /\ breakdowns[workOrders[i].breakdown] # None
        BY <2>0, <3>1, ApplyWorkOrders DEF MachineRecordsInv, WorkOrderOnBreakdown, Plant!TypeOK
      <4>2. workOrders[i].breakdown \in Breakdowns
        BY <4>1 DEF Plant!MaintenanceWorkOrder
      <4> QED BY <1>2, <2>0, <4>1, <4>2, ApplyKeepsRows
    <3>2. CASE i \notin DOMAIN workOrders
      <4> DEFINE r == plantReq[s]
      <4>1. r.wo # None /\ workOrders'[i] = r.wo /\ MachineSound(r)
        BY <2>0, <3>2, ApplyWorkOrders DEF MachineRecordsInv
      <4>2. CASE r.act = "report_breakdown"
        <5>1. r.wo.breakdown = r.breakdown
          BY <4>1, <4>2 DEF MachineSound, Plant!NewWorkOrder
        <5> QED BY <1>2, <2>0, <4>1, <4>2, <5>1, ApplyKeepsRows
      <4>3. CASE r.act = "create_work_order"
        <5>1. /\ r.breakdown \in Breakdowns /\ breakdowns[r.breakdown] # None
              /\ r.wo.breakdown = r.breakdown
          BY <4>1, <4>3 DEF MachineSound, Plant!Handlers, ChangesMachine
        <5> QED BY <1>2, <2>0, <4>1, <5>1, ApplyKeepsRows
      <4>4. r.act \in {"report_breakdown", "create_work_order"}
        BY <4>1 DEF MachineSound, Plant!Handlers, ChangesMachine
      <4> QED BY <4>2, <4>3, <4>4
    <3> QED BY <3>1, <3>2
  <2>5. Plant!EveryBreakdownHasWorkOrder'
    <3> DEFINE r == plantReq[s]
    <3> SUFFICES ASSUME NEW b \in Breakdowns, breakdowns'[b] # None
                 PROVE  /\ \E i \in DOMAIN workOrders' :
                             workOrders'[i].number = b /\ workOrders'[i].breakdown = b
                        /\ breakdowns'[b].status # "Assigned" =>
                             \E i \in DOMAIN workOrders' :
                               workOrders'[i].breakdown = b /\ workOrders'[i].status = "Completed"
      BY DEF Plant!EveryBreakdownHasWorkOrder
    <3>0. MachineSound(r)
      BY DEF MachineRecordsInv
    <3>1. CASE breakdowns[b] # None
      <4>1. PICK i \in DOMAIN workOrders : workOrders[i].number = b /\ workOrders[i].breakdown = b
        BY <3>1 DEF MachineRecordsInv, Plant!EveryBreakdownHasWorkOrder
      <4>2. i \in DOMAIN workOrders' /\ workOrders'[i].number = b /\ workOrders'[i].breakdown = b
        BY <2>0, <4>1, ApplyWorkOrders
      <4>3. ASSUME breakdowns'[b].status # "Assigned"
            PROVE  \E j \in DOMAIN workOrders' :
                     workOrders'[j].breakdown = b /\ workOrders'[j].status = "Completed"
        <5>1. CASE breakdowns'[b].status = breakdowns[b].status
          <6>1. PICK j \in DOMAIN workOrders :
                  workOrders[j].breakdown = b /\ workOrders[j].status = "Completed"
            BY <3>1, <4>3, <5>1 DEF MachineRecordsInv, Plant!EveryBreakdownHasWorkOrder
          <6> QED BY <2>0, <6>1, ApplyWorkOrders
        <5>2. CASE /\ r.act \in {"create_work_order", "complete_work_order"}
                   /\ r.breakdown = b /\ breakdowns'[b].status = r.report
                   /\ r.report # breakdowns[b].status
          <6>1. CASE r.act = "complete_work_order"
            <7>1. OnWorkOrder(r.completes, b)
              BY <3>0, <5>2, <6>1 DEF MachineSound
            <7> QED BY <2>0, <6>1, <7>1, ApplyWorkOrders DEF OnWorkOrder
          <6>2. CASE r.act = "create_work_order"
            <7>1. r.report = Plant!Keep
              BY <3>0, <4>3, <5>2, <6>2 DEF MachineSound
            <7>2. breakdowns'[b].status \in Plant!BreakdownStatus
              BY <2>1 DEF Plant!TypeOK, Plant!BreakdownReport
            <7> QED BY <5>2, <7>1, <7>2 DEF Plant!Keep, Plant!BreakdownStatus
          <6> QED BY <5>2, <6>1, <6>2
        <5> QED BY <1>2, <2>0, <3>1, <5>1, <5>2, ApplyKeepsRows
      <4> QED BY <4>2, <4>3
    <3>2. CASE breakdowns[b] = None
      <4>1. /\ r.act = "report_breakdown" /\ r.breakdown = b
            /\ breakdowns'[b].status = r.report
        BY <1>2, <2>0, <3>2, ApplyKeepsRows
      <4>2. r.report = "Assigned" /\ r.wo = Plant!NewWorkOrder(b, b, "Created")
        BY <3>0, <4>1 DEF MachineSound
      <4>3. /\ r.wo # None /\ r.wo.number = b /\ r.wo.breakdown = b
        <5>1. r.wo \in Plant!MaintenanceWorkOrder
          BY <4>2 DEF Plant!NewWorkOrder, Plant!MaintenanceWorkOrder, Plant!WorkOrderStatus,
                      Plant!MaintenanceConstants
        <5> QED BY <4>2, <5>1 DEF Plant!NewWorkOrder, Plant!MaintenanceConstants
      <4>4. PICK i \in DOMAIN workOrders' : workOrders'[i] = r.wo
        BY <2>0, <4>3, ApplyWorkOrders
      <4> QED BY <4>1, <4>2, <4>3, <4>4
    <3> QED BY <3>1, <3>2
  <2> QED BY <2>1, <2>2, <2>3, <2>4, <2>5 DEF MachineRecordsInv
<1> QED BY <1>1, <1>2

LEMMA NextRecordsInv ==
  ASSUME Plant!MaintenanceConstants, MachineRecordsInv, Plant!Next
  PROVE  MachineRecordsInv'
<1>0. plantCrossed' \subseteq Machines
  BY DEF Plant!Next, MachineRecordsInv, Plant!TypeOK
<1>1. ASSUME NEW s \in Sessions, Plant!Handle(s) PROVE MachineRecordsInv'
  <2>1. PICK r \in Plant!Request : Plant!Pend(s, r) /\ MachineSound(r)
    BY <1>1, MachineHandled
  <2> QED BY <1>0, <2>1, WaitRecordsInv DEF Plant!Pend, MachineRecordsInv, Plant!TypeOK
<1>2. ASSUME NEW s \in Sessions, Plant!Abort(s) PROVE MachineRecordsInv'
  BY <1>0, <1>2, MachineIdle, WaitRecordsInv DEF Plant!Abort, MachineRecordsInv, Plant!TypeOK
<1> QED BY <1>0, <1>1, <1>2, CommitRecordsInv DEF Plant!Next

-----------------------------------------------------------------------------
(* The machines.                                                           *)

\* A history is a chain of changes that ends in a status.
Chain(rows, status) ==
  /\ \A i \in 2..Len(rows) : rows[i].from = rows[i - 1].to
  /\ rows # <<>> /\ rows[Len(rows)].to = status

LEMMA ChainAppend ==
  ASSUME NEW rows \in Seq(Plant!MachineHistory), NEW row \in Plant!MachineHistory,
         rows = <<>> \/ Chain(rows, row.from)
  PROVE  Chain(Append(rows, row), row.to)
<1> DEFINE after == Append(rows, row)
<1>1. /\ Len(rows) \in Nat /\ after # <<>> /\ Len(after) = Len(rows) + 1
      /\ after[Len(rows) + 1] = row
      /\ \A i \in 1 .. Len(rows) : after[i] = rows[i]
  BY AppendProperties, EmptySeq
<1>2. ASSUME NEW i \in 2 .. Len(after) PROVE after[i].from = after[i - 1].to
  <2>1. CASE i \in 2 .. Len(rows)
    <3>1. after[i] = rows[i] /\ after[i - 1] = rows[i - 1] /\ rows # <<>>
      BY <1>1, <2>1
    <3> HIDE DEF after
    <3> QED BY <2>1, <3>1 DEF Chain
  <2>2. CASE i = Len(rows) + 1
    <3>1. after[i] = row /\ after[i - 1] = rows[Len(rows)] /\ rows # <<>>
      BY <1>1, <1>2, <2>2
    <3> HIDE DEF after
    <3> QED BY <3>1 DEF Chain
  <2> HIDE DEF after
  <2> QED BY <1>1, <1>2, <2>1, <2>2
<1> HIDE DEF after
<1>3. Chain(after, row.to)
  BY <1>1, <1>2 DEF Chain
<1> QED BY <1>3 DEF after

LEMMA InitMachineInv == Plant!MaintenanceConstants => (Plant!Init => MachineInv)
<1> SUFFICES ASSUME Plant!MaintenanceConstants, Plant!Init PROVE MachineInv
  OBVIOUS
<1>1. \A s \in Sessions : plantReq[s] = Plant!Idle
  BY DEF Plant!Init
<1> QED BY <1>1, InitRecordsInv, MachineIdle
        DEF Plant!Init, MachineInv, OneRequestEach, NoRowNoHistory, Plant!HistoryTellsStatus,
            Plant!MaintenanceConstants

\* From one step to the next the machines two requests deal with are crossed.
LEMMA NextOneRequestEach ==
  ASSUME MachineInv, Plant!Next
  PROVE  OneRequestEach' /\ plantCrossed \subseteq plantCrossed'
  BY DEF Plant!Next, OneRequestEach

\* A step that writes no row.
LEMMA WaitMachineInv ==
  ASSUME MachineInv, Plant!Next, UNCHANGED Plant!db, MachineRecordsInv',
         \A s \in Sessions : plantReq'[s] = plantReq[s] \/ MachineFresh(plantReq'[s])
  PROVE  MachineInv'
<1>1. OneRequestEach' /\ plantCrossed \subseteq plantCrossed'
  BY NextOneRequestEach
<1>2. \A s \in Sessions : (plantReq[s].machine \notin plantCrossed => MachineFresh(plantReq[s]))'
  <2> SUFFICES ASSUME NEW s \in Sessions, plantReq'[s].machine \notin plantCrossed'
               PROVE  MachineFresh(plantReq[s])'
    OBVIOUS
  <2>1. MachineFresh(plantReq'[s])
    BY <1>1 DEF MachineInv
  <2> QED BY <2>1 DEF MachineFresh, Plant!db
<1> QED BY <1>1, <1>2 DEF MachineInv, NoRowNoHistory, Plant!HistoryTellsStatus, Plant!db

\* What a commit does to a machine that it alone deals with.
LEMMA ApplyMachine ==
  ASSUME Plant!MaintenanceConstants, MachineInv, NEW s \in Sessions, Plant!Apply(plantReq[s]),
         ~Plant!ConstraintFails(plantReq[s]), NEW m \in Machines, m \notin plantCrossed
  PROVE  /\ machines'[m] = None => history'[m] = <<>>
         /\ machines'[m] # None => Chain(history'[m], machines'[m])
<1> DEFINE r == plantReq[s]
<1>0. /\ Plant!TypeOK /\ r \in Plant!Request /\ MachineSound(r)
      /\ history[m] \in Seq(Plant!MachineHistory)
  BY DEF MachineInv, MachineRecordsInv, Plant!TypeOK
<1>1. CASE r.to # Plant!Keep /\ r.machine = m
  <2> DEFINE row == [from |-> r.from, to |-> r.to]
  <2>1. row \in Plant!MachineHistory /\ row.from = r.from /\ row.to = r.to
    BY <1>0, <1>1 DEF Plant!Request, Plant!MachineHistory
  <2>2. /\ machines'[m] = r.to /\ history'[m] = Append(history[m], row)
    BY <1>0, <1>1 DEF Plant!Apply, Plant!TypeOK
  <2> HIDE DEF row
  <2>3. history[m] = <<>> \/ Chain(history[m], r.from)
    <3>1. CASE r.act = "create_machine"
      BY <1>1, <3>1 DEF Plant!ConstraintFails, MachineInv, NoRowNoHistory
    <3>2. CASE r.act \in ChangesMachine
      BY <1>0, <1>1, <3>2
         DEF MachineSound, ChangesMachine, MachineInv, MachineFresh, Plant!HistoryTellsStatus, Chain
    <3> QED BY <1>0, <1>1, <3>1, <3>2 DEF MachineSound, Plant!Request, ChangesMachine
  <2>4. Chain(history'[m], r.to)
    BY <1>0, <2>1, <2>2, <2>3, ChainAppend
  <2>5. r.to # None
    BY <1>0, <1>1 DEF Plant!Request, Plant!MaintenanceConstants
  <2> QED BY <2>2, <2>4, <2>5
<1>2. CASE ~(r.to # Plant!Keep /\ r.machine = m)
  <2>1. machines'[m] = machines[m] /\ history'[m] = history[m]
    BY <1>0, <1>2 DEF Plant!Apply, Plant!TypeOK
  <2> QED BY <2>1 DEF MachineInv, NoRowNoHistory, Plant!HistoryTellsStatus, Chain
<1> QED BY <1>1, <1>2

LEMMA CommitMachineInv ==
  ASSUME Plant!MaintenanceConstants, MachineInv, Plant!Next, MachineRecordsInv', NEW s \in Sessions,
         Plant!Commit(s)
  PROVE  MachineInv'
<1> DEFINE r == plantReq[s]
<1>0. /\ plantReq' = [plantReq EXCEPT ![s] = Plant!Idle]
      /\ plantReq \in [Sessions -> Plant!Request] /\ MachineSound(r) /\ Plant!TypeOK
  BY DEF Plant!Commit, MachineInv, MachineRecordsInv, Plant!TypeOK
<1>1. CASE Plant!ConstraintFails(r)
  BY <1>0, <1>1, MachineIdle, WaitMachineInv DEF Plant!Commit
<1>2. CASE ~Plant!ConstraintFails(r)
  <2>0. Plant!Apply(r)
    BY <1>2 DEF Plant!Commit
  <2>1. OneRequestEach' /\ plantCrossed \subseteq plantCrossed'
    BY NextOneRequestEach
  <2>2. \A t \in Sessions : (plantReq[t].machine \notin plantCrossed => MachineFresh(plantReq[t]))'
    <3> SUFFICES ASSUME NEW t \in Sessions, plantReq'[t].machine \notin plantCrossed'
                 PROVE  MachineFresh(plantReq[t])'
      OBVIOUS
    <3>1. CASE t = s
      <4>1. plantReq'[t] = Plant!Idle
        BY <1>0, <3>1
      <4> QED BY <4>1, MachineIdle DEF MachineFresh, ChangesMachine, Plant!Handlers,
                                       Plant!MaintenanceConstants
    <3>2. CASE t # s /\ plantReq[t].act \in ChangesMachine
      <4>1. /\ plantReq'[t] = plantReq[t] /\ plantReq[t].machine \in Machines
            /\ MachineFresh(plantReq[t])
        BY <1>0, <2>1, <3>2 DEF MachineInv, MachineRecordsInv, MachineSound, ChangesMachine
      <4>2. r.machine # plantReq[t].machine
        BY <2>1, <3>2, <4>1 DEF MachineInv, OneRequestEach
      <4>3. machines'[plantReq[t].machine] = machines[plantReq[t].machine]
        BY <1>0, <2>0, <4>1, <4>2 DEF Plant!Apply, Plant!TypeOK
      <4> QED BY <4>1, <4>3 DEF MachineFresh
    <3>3. CASE t # s /\ plantReq[t].act \notin ChangesMachine
      BY <1>0, <3>3 DEF MachineFresh
    <3> QED BY <3>1, <3>2, <3>3
  <2>3. \A m \in Machines \ plantCrossed :
          /\ machines'[m] = None => history'[m] = <<>>
          /\ machines'[m] # None => Chain(history'[m], machines'[m])
    BY <1>2, <2>0, ApplyMachine
  <2>4. NoRowNoHistory' /\ Plant!HistoryTellsStatus'
    BY <2>1, <2>3 DEF NoRowNoHistory, Plant!HistoryTellsStatus, Chain
  <2> QED BY <2>1, <2>2, <2>4 DEF MachineInv
<1> QED BY <1>1, <1>2

LEMMA NextMachineInv ==
  Plant!MaintenanceConstants => (MachineInv /\ [Plant!Next]_(Plant!vars) => MachineInv')
<1> SUFFICES ASSUME Plant!MaintenanceConstants, MachineInv, [Plant!Next]_(Plant!vars)
             PROVE  MachineInv'
  OBVIOUS
<1>1. CASE UNCHANGED Plant!vars
  <2>1. UNCHANGED <<Plant!db, plantReq, plantCrossed>>
    BY <1>1 DEF Plant!vars
  <2>2. MachineRecordsInv'
    BY <2>1, WaitRecordsInv DEF MachineInv, MachineRecordsInv, Plant!TypeOK
  <2> QED BY <2>1, <2>2
          DEF MachineInv, OneRequestEach, MachineFresh, NoRowNoHistory, Plant!HistoryTellsStatus,
              Plant!db
<1>2. CASE Plant!Next
  <2>0. MachineRecordsInv'
    BY <1>2, NextRecordsInv DEF MachineInv
  <2>1. ASSUME NEW s \in Sessions, Plant!Handle(s) PROVE MachineInv'
    <3>1. PICK r \in Plant!Request : Plant!Pend(s, r) /\ MachineFresh(r)
      BY <2>1, MachineHandled DEF MachineInv
    <3> QED BY <1>2, <2>0, <3>1, WaitMachineInv DEF Plant!Pend, MachineInv, MachineRecordsInv,
                                                    Plant!TypeOK
  <2>2. ASSUME NEW s \in Sessions, Plant!Abort(s) PROVE MachineInv'
    BY <1>2, <2>0, <2>2, MachineIdle, WaitMachineInv DEF Plant!Abort, MachineInv,
                                                         MachineRecordsInv, Plant!TypeOK
  <2> QED BY <1>2, <2>0, <2>1, <2>2, CommitMachineInv DEF Plant!Next
<1> QED BY <1>1, <1>2

LEMMA MaintenanceKept == Plant!MaintenanceConstants => (Plant!Spec => []MachineInv)
<1> SUFFICES ASSUME Plant!MaintenanceConstants PROVE Plant!Spec => []MachineInv
  OBVIOUS
<1>1. (Plant!Init => MachineInv) /\ (MachineInv /\ [Plant!Next]_(Plant!vars) => MachineInv')
  BY InitMachineInv, NextMachineInv
<1> QED BY <1>1, PTL DEF Plant!Spec

-----------------------------------------------------------------------------
\* Every row, and what every request is about to write, keeps its type: the
\* machine of a breakdown, and the breakdown of a work order, are there.
THEOREM MaintenanceTypeCorrect == Plant!MaintenanceConstants => (Plant!Spec => []Plant!TypeOK)
<1>1. MachineInv => Plant!TypeOK
  BY DEF MachineInv, MachineRecordsInv
<1> QED BY <1>1, MaintenanceKept, PTL

\* Every breakdown has the work order of its own number, whatever numbers the
\* clients give, and leaves Assigned with a completed one only: what a request
\* writes of a breakdown and of a work order is of one transaction.
THEOREM MaintenanceHasWorkOrder ==
  Plant!MaintenanceConstants => (Plant!Spec => []Plant!EveryBreakdownHasWorkOrder)
<1>1. MachineInv => Plant!EveryBreakdownHasWorkOrder
  BY DEF MachineInv, MachineRecordsInv
<1> QED BY <1>1, MaintenanceKept, PTL

\* The history of a machine that no two requests have dealt with at once is a
\* chain of changes that ends in its status.
THEOREM MaintenanceHistoryIsChain ==
  Plant!MaintenanceConstants => (Plant!Spec => []Plant!HistoryTellsStatus)
<1>1. MachineInv => Plant!HistoryTellsStatus
  BY DEF MachineInv
<1> QED BY <1>1, MaintenanceKept, PTL

\* A breakdown takes its machine down, whatever its status was, unless another
\* request deals with it: a request that writes no status has read that one.
THEOREM MaintenanceStopsMachine ==
  Plant!MaintenanceConstants => (Plant!Spec => Plant!BreakdownStopsMachine)
<1> SUFFICES ASSUME Plant!MaintenanceConstants PROVE Plant!Spec => Plant!BreakdownStopsMachine
  OBVIOUS
<1> DEFINE Stops == \A b \in Breakdowns : breakdowns[b] = None /\ breakdowns'[b] # None =>
             LET m == breakdowns'[b].machine IN
               m \in plantCrossed \/ machines'[m] = "UnderMaintenance"
<1>1. MachineInv /\ [Plant!Next]_(Plant!vars) => [Stops]_(Plant!vars)
  <2> SUFFICES ASSUME MachineInv, Plant!Next, NEW b \in Breakdowns, breakdowns[b] = None,
                      breakdowns'[b] # None, breakdowns'[b].machine \notin plantCrossed
               PROVE  machines'[breakdowns'[b].machine] = "UnderMaintenance"
    OBVIOUS
  <2>1. PICK s \in Sessions :
          /\ Plant!Commit(s)
          /\ Plant!Apply(plantReq[s]) /\ ~Plant!ConstraintFails(plantReq[s])
    <3>1. ASSUME NEW s \in Sessions, Plant!Handle(s) PROVE FALSE
      BY <3>1, MachineHandled DEF MachineInv, Plant!Pend, Plant!db
    <3> QED BY <3>1 DEF Plant!Next, Plant!Commit, Plant!Abort, Plant!db
  <2> DEFINE r == plantReq[s]
  <2>2. /\ r.act = "report_breakdown" /\ breakdowns'[b].machine = r.machine
        /\ r \in Plant!Request /\ MachineSound(r) /\ MachineFresh(r) /\ Plant!TypeOK
    BY <2>1, ApplyKeepsRows DEF MachineInv, MachineRecordsInv, Plant!TypeOK
  <2>3. /\ r.machine \in Machines /\ r.to \in {Plant!Keep, "UnderMaintenance"}
        /\ r.to = Plant!Keep => machines[r.machine] = "UnderMaintenance"
    BY <2>2 DEF MachineSound, MachineFresh, ChangesMachine, Plant!Handlers, Target
  <2>4. machines'[r.machine] = "UnderMaintenance"
    BY <2>1, <2>2, <2>3 DEF Plant!Apply, Plant!TypeOK
  <2> QED BY <2>2, <2>4
<1> QED BY <1>1, MaintenanceKept, PTL DEF Plant!Spec, Plant!BreakdownStopsMachine

-----------------------------------------------------------------------------
(* The components of MCOffices.                                            *)

\* The sales component of MCOffices is Sales.
LEMMA SalesServed == Spec => Selling!Spec
<1>1. Init => Selling!Init
  BY DEF Init
<1>2. [Next]_vars => [Selling!Next]_(Selling!vars)
  <2>1. UNCHANGED salesVars => UNCHANGED Selling!vars
    BY DEF salesVars, Selling!vars, Selling!db
  <2> QED BY <2>1 DEF Next, vars, Sell
<1> QED BY <1>1, <1>2, PTL DEF Spec, Selling!Spec

\* The maintenance component of MCOffices is Maintenance.
LEMMA MaintenanceServed == Spec => Plant!Spec
<1>1. Init => Plant!Init
  BY DEF Init
<1>2. [Next]_vars => [Plant!Next]_(Plant!vars)
  <2>1. UNCHANGED plantVars => UNCHANGED Plant!vars
    BY DEF plantVars, Plant!vars, Plant!db
  <2> QED BY <2>1 DEF Next, vars, Maintain
<1> QED BY <1>1, <1>2, PTL DEF Spec, Plant!Spec

\* The quality component of MCOffices is Quality.
LEMMA QualityServed == Spec => Inspecting!QSpec
<1>1. Init => Inspecting!QInit
  BY DEF Init
<1>2. [Next]_vars => [Inspecting!QNext]_(Inspecting!qvars)
  <2>1. UNCHANGED qualityVars => UNCHANGED Inspecting!qvars
    BY DEF qualityVars, Inspecting!qvars, Inspecting!qdb
  <2> QED BY <2>1 DEF Next, vars, Inspect
<1> QED BY <1>1, <1>2, PTL DEF Spec, Inspecting!QSpec

\* The engineering component of MCOffices is Engineering.
LEMMA EngineeringServed == Spec => Design!Spec
<1>1. Init => Design!Init
  BY DEF Init
<1>2. [Next]_vars => [Design!Next]_(Design!vars)
  <2>1. UNCHANGED designVars => UNCHANGED Design!vars
    BY DEF designVars, Design!vars, Design!db
  <2> QED BY <2>1 DEF Next, vars, Engineer
<1> QED BY <1>1, <1>2, PTL DEF Spec, Design!Spec

\* The logins and accounts of MCOffices are Auth.
LEMMA AuthServed == Spec => Access!Spec
<1>1. Init => Access!Init
  BY DEF Init
<1>2. [Next]_vars => [Access!Next]_(Access!vars)
  <2>1. UNCHANGED authVars => UNCHANGED Access!vars
    BY DEF authVars, Access!vars, Access!db
  <2> QED BY <2>1 DEF Next, vars, Admit
<1> QED BY <1>1, <1>2, PTL DEF Spec, Access!Spec

-----------------------------------------------------------------------------
\* Every table of every component keeps its type, and so does what every
\* request is about to write; the scene is one of Offices throughout.
THEOREM TypeCorrect == Spec => []TypeOK
<1>1. Spec => []Selling!TypeOK
  BY SalesServed, SalesTypeCorrect, PTL
<1>2. Spec => []Design!TypeOK
  <2>1. Design!Spec => []Design!TypeOK
    BY OfficesConstants, Design!TypeCorrect DEF OfficesConstants
  <2> QED BY EngineeringServed, <2>1, PTL
<1>3. Spec => []Plant!TypeOK
  <2>1. Plant!Spec => []Plant!TypeOK
    BY OfficesConstants, MaintenanceTypeCorrect DEF OfficesConstants
  <2> QED BY MaintenanceServed, <2>1, PTL
<1>4. Spec => []Inspecting!QTypeOK
  <2>1. Inspecting!QSpec => []Inspecting!QTypeOK
    BY OfficesConstants, Inspecting!TypeCorrect DEF OfficesConstants
  <2> QED BY QualityServed, <2>1, PTL
<1>5. Spec => []Access!TypeOK
  <2>1. Access!Spec => []Access!TypeOK
    BY OfficesConstants, Access!TypeCorrect DEF OfficesConstants
  <2> QED BY AuthServed, <2>1, PTL
<1>6. Spec => [](office \in Offices)
  <2>1. Init => office \in Offices
    BY DEF Init
  <2>2. office \in Offices /\ [Next]_vars => (office \in Offices)'
    BY DEF Next, vars
  <2> QED BY <2>1, <2>2, PTL DEF Spec
<1>7. /\ Selling!TypeOK /\ Design!TypeOK /\ Plant!TypeOK /\ Inspecting!QTypeOK /\ Access!TypeOK
      /\ office \in Offices
      => TypeOK
  BY DEF TypeOK
<1> QED BY <1>1, <1>2, <1>3, <1>4, <1>5, <1>6, <1>7, PTL

\* Every sales order goes back to one approved contract review.
THEOREM OrdersTraced == Spec => []OrdersTraceToApproval
<1>1. Selling!OrdersTraceToApproval => OrdersTraceToApproval
  BY DEF OrdersTraceToApproval
<1> QED BY SalesServed, SalesOrdersTraced, <1>1, PTL

\* The history of a machine is a chain that ends in its status, as long as no
\* two requests deal with the machine at once.
THEOREM HistoryIsChain == Spec => []HistoryTellsStatus
<1>1. Plant!HistoryTellsStatus => HistoryTellsStatus
  BY DEF HistoryTellsStatus
<1>2. Plant!Spec => []Plant!HistoryTellsStatus
  BY OfficesConstants, MaintenanceHistoryIsChain DEF OfficesConstants
<1> QED BY MaintenanceServed, <1>1, <1>2, PTL

\* A breakdown and its work order are inserted together, and a verdict on the
\* breakdown comes with the completion of one.
THEOREM BreakdownHasWorkOrder == Spec => []EveryBreakdownHasWorkOrder
<1>1. Plant!EveryBreakdownHasWorkOrder => EveryBreakdownHasWorkOrder
  BY DEF EveryBreakdownHasWorkOrder
<1>2. Plant!Spec => []Plant!EveryBreakdownHasWorkOrder
  BY OfficesConstants, MaintenanceHasWorkOrder DEF OfficesConstants
<1> QED BY MaintenanceServed, <1>1, <1>2, PTL

\* A breakdown takes its machine down, unless another request deals with it.
THEOREM MachineStopped == Spec => BreakdownStopsMachine
<1>1. Plant!Spec => Plant!BreakdownStopsMachine
  BY OfficesConstants, MaintenanceStopsMachine DEF OfficesConstants
<1> QED BY MaintenanceServed, <1>1, PTL DEF BreakdownStopsMachine

\* Repeated NCRs on one record lead to the recommendation of a CAPA.
THEOREM RecommendationInTime == Spec => []RepeatsRecommended
<1>1. Inspecting!RepeatsRecommended => RepeatsRecommended
  BY DEF RepeatsRecommended
<1>2. Inspecting!QSpec => []Inspecting!RepeatsRecommended
  BY OfficesConstants, Inspecting!RecommendationInTime DEF OfficesConstants
<1> QED BY QualityServed, <1>1, <1>2, PTL

\* A rejection and its NCR are committed by one step.
THEOREM RejectionsHaveNcr == Spec => RejectionsReported
<1>1. Inspecting!QSpec => Inspecting!RejectionsReported
  BY OfficesConstants, Inspecting!RejectionsHaveNcr DEF OfficesConstants
<1> QED BY QualityServed, <1>1, PTL DEF RejectionsReported

\* A commit that changes a drawing's current revision leaves exactly one: the
\* partial unique index refuses every other.
THEOREM OneCurrent == Spec => OneCurrentRevision
<1>1. Design!Spec => Design!OneCurrentRevision
  BY OfficesConstants, Design!OneCurrent DEF OfficesConstants
<1> QED BY EngineeringServed, <1>1, PTL DEF OneCurrentRevision

\* A released card is changed by no request, unless two deal with it at once.
THEOREM ReleasedFixed == Spec => ReleasedIsFixed
<1>1. Design!Spec => Design!ReleasedIsFixed
  BY OfficesConstants, Design!ReleasedFixed DEF OfficesConstants
<1> QED BY EngineeringServed, <1>1, PTL DEF ReleasedIsFixed

\* A user no two requests deal with at once has no more valid refresh tokens
\* than the limit, refreshes included.
THEOREM SessionLimit == Spec => []SessionLimitHolds
<1>1. Access!SessionLimitHolds => SessionLimitHolds
  BY DEF SessionLimitHolds
<1>2. Access!Spec => []Access!SessionLimitHolds
  BY OfficesConstants, Access!SessionLimit DEF OfficesConstants
<1> QED BY AuthServed, <1>1, <1>2, PTL

\* A refresh token becomes valid for a usable account only.
THEOREM IssuedUsable == Spec => IssuedToUsable
<1>1. Access!Spec => Access!IssuedToUsable
  BY OfficesConstants, Access!IssuedUsable DEF OfficesConstants
<1> QED BY AuthServed, <1>1, PTL DEF IssuedToUsable

\* Logging out from all sessions ends them all.
THEOREM LogoutAllEnds == Spec => LogoutAllEndsSessions
<1>1. Access!Spec => Access!LogoutAllEndsSessions
  BY OfficesConstants, Access!LogoutAllEnds DEF OfficesConstants
<1> QED BY AuthServed, <1>1, PTL DEF LogoutAllEndsSessions
=============================================================================
