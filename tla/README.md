# Verification of the ERP backend

TLA+ models of the manufacturing ERP (FastAPI, SQLAlchemy, PostgreSQL) in this
repository, the TLC runs that check them on small instances, and TLAPS proofs
of the properties that matter most for every instance.

## The system

All state is in PostgreSQL; the application keeps none (apart from the in-memory
rate limiter). Components interact only through each other's tables, and through
the service functions one module calls in another (production calls the quality
module's `validate_operation_inspection_required`). There are no background jobs:
every behaviour is an interleaving of HTTP requests.

What makes that hard is the database session (`app/db/session.py`): one per
request, no autoflush, READ COMMITTED. A handler reads rows, checks its rules
on what it read, and writes at its commit. Only `record_production_log` and
`perform_rmir_inspection` lock what they read (`with_for_update`); no row has a
version column; an UPDATE writes the columns that differ from what was loaded,
whatever the row holds by then. What an overlapping request did in between is
caught only by a constraint of the schema, if there is one.

| Component | State it keeps | Operations | What makes it correct | Modelled |
|---|---|---|---|---|
| Production execution | orders, operations, in-process inspections, rework orders, production logs, FAI triggers | create, release, start, complete order; start, complete operation; record inspection; open, close rework; record log | sequence of operations, quantity reconciled with the plan, Pass before completion, FAI for the first operation | `Production` |
| Quality, in-process | the same inspections | create, complete inspection | a completed operation keeps a Pass; failures get rework | `Production` |
| Stores | GRNs, items, MTC, RMIR, batch inventory, stock ledger, locations | receive, verify, inspect and post, issue, locations | inventory agrees with the ledger, posted once, no stock in a deleted location | `Stores` |
| Quality, other | incoming and final inspections, FAI reports, NCRs, CAPAs, root cause analyses, gauges | create and complete each, close an NCR | a rejection opens its NCR; repeated NCRs recommend a CAPA; the latest final inspection gates dispatch | `Quality` |
| Quality, audits | audit plans and reports, review meetings | create, list | - | no: no rule reads them |
| Dispatch | orders, items, checklist, packing list, invoice, challan | create, add, generate, verify, release | release only when everything is in place; one document of each kind | `Dispatch`, `Shipping` |
| Document numbering | none of its own (max + 1 over a unique column) | next number | no number twice, no gap | `DocumentNumbers` |
| Purchase | suppliers, purchase orders, items, stored PDFs | create, approve, update, delete; add, remove, issue, close, download | total equals the lines; items only while Draft; one open order of supplier and sales order | `Purchase` |
| Engineering | drawings, revisions, route cards, route operations | create, revise, edit, delete, release, obsolete | one current revision; a released card does not change, and has operations | `Engineering` |
| Maintenance | machines' status and history, breakdowns, work orders | create, report, plan, complete | a breakdown takes the machine down and has a work order; the history tells the status | `Maintenance` |
| Sales | enquiries, contract reviews, quotations, customer PO reviews, sales orders | each step of the chain | an order goes back to one approved review | `Sales` |
| Auth | users' lock state, refresh tokens, OAuth states | login, refresh, logout, Google login | session limit, tokens for usable accounts only, logout ends sessions | `Auth` |
| Users and roles | accounts, active roles | create, update, unlock, disable, delete | their effect on logins and sessions | `Auth` |
| Traceability, reports, dashboards, search, PDF, audit log | read-only, or append-only and never read back | queries | - | no: nothing to interleave |

The hazards, each at the line where it bites, are in `PROJECT.json`.

## Modules

| Module | What it is |
|---|---|
| `Production` | the handlers of `production_service.py` and of the quality module's in-process inspections |
| `OrderLifecycle` | abstract: one order's life, each operation indivisible, as the handlers promise it |
| `LifecycleRefinement` | the mapping of `Production` to `OrderLifecycle`, order by order |
| `MCProduction` | instances |
| `ProductionProofs` | theorems about `Production` and the refinement |
| `Stores` | the handlers of `stores_service.py` and the location endpoints; its mapping to `StockLedger` |
| `StockLedger` | abstract: what came in, what went out, what is held |
| `MCStores` | instances |
| `StoresProofs` | theorems about `Stores` and the refinement |
| `DocumentNumbers` | the next number of a kind of document |
| `Dispatch` | dispatch orders, their documents and their release |
| `Quality` | inspections, NCRs and what follows on them, gauges |
| `Shipping` | `Dispatch` and the inspections of `Quality` on one database |
| `MCShipping` | instance of `Shipping` |
| `ShippingProofs` | theorems about `Shipping`, with those of `Dispatch` they rest on |
| `Purchase`, `MCPurchase` | suppliers, purchase orders and their items; instance |
| `PurchaseProofs` | theorems about `Purchase`, and the facts about sums they need |
| `Engineering` | drawings, revisions, route cards, operations |
| `Maintenance` | machines, breakdowns, work orders |
| `Sales` | the chain from enquiry to sales order |
| `Auth` | logins, refresh tokens, OAuth states, users, roles |
| `QualityProofs`, `EngineeringProofs`, `AuthProofs` | theorems about these three |
| `MCOffices` | `Sales`, `Engineering`, `Maintenance`, `Quality` and `Auth` side by side; instances |
| `OfficesProofs` | theorems about `Sales` and `Maintenance`, and those of all five components, of the composition |

### Production

A request of session `s` is three steps, and one more for each row lock. `Load`: the rows the handler reads by
id enter the session's identity map, and `req[s]` keeps what it saw of them for
as long as the request lives. The handler's own action: its queries, against
the database as it then is, and its guards; either the pending writes in
`req[s]`, or an error, which ends the request. `Commit`: the pending writes that
differ from what was loaded, unless a unique index or CHECK refuses them, in
which case nothing is written. `Abort` is a worker or connection lost before
the commit. `RecordInprocessInspection`, `CreateInprocessInspection` and
`CreateReworkOrder` insert without reading anything they depend on and are one
step. `MarkObsolete`, `ReportBreakdown` and `ReturnToService` are what the engineering and
maintenance modules do to the two statuses this module reads.

- Row locks, statement by statement; `held` are those of a request, until it ends.
  A log request arrives (`ReceiveLog`) and waits; it reads its order
  (`LockOrder`), then its operation (`LockOperation`), each `FOR UPDATE`, and has
  loaded both when it holds both. A flush UPDATEs the order, then the operation,
  which are the same two steps for the rows that have changes, and INSERTs last.
  `WaitsFor` says whom the next statement waits for: a lock of the same row, and of
  the INSERT of an FAI trigger, which references the order and the operation, a log
  that has the order. The one-step inserts wait for a log that has their operation
  (`Insertable`).
- `updated_by` (`setBy`): a `complete_operation` that leaves the order's status as it
  was UPDATEs the order only if another user wrote it last. If it does not, and its
  operation is the order's first, it locks the operation before the order, and can
  deadlock with a log. PostgreSQL rolls one of the two back: `Abort`.
- Quantities are what a client sends, in ten-thousandths; the columns are
  `Numeric(18, 3)` and `Stored` is PostgreSQL's rounding. `logged` is the SUM
  the service computes over the log rows; the rows themselves are not kept.
- Time. "Latest" is by `inspection_time`, which the client may set and the server
  otherwise does, and then by id. `clock` counts each operation's server times
  in order of commit; `ClientTimes` holds the values clients send.
- Bounds: `MaxInspections` (of all operations together), `MaxReworks`. Logged
  quantities are bounded by the plan.
- Simplifications: the queries of one handler are made at one instant, its loads
  at an earlier one; `planned_quantity` and an order's operations do not change
  once it exists (no handler of the program changes them: operations are created
  with the order's data outside this service); users and roles are left out.

### Stores

A request is two steps: the handler, which reads, checks and leaves its pending
writes, and `Commit` (or `Abort`). A handler that raises writes nothing and is
no step. An inspection locks its item, its report and, when it posts, the
inventory row (`ItemLocked`, `InventoryLocked`); an issue's commit waits for the
latter. A ledger is kept as the sums of its two quantity columns and its last
`balance_after`. `Quantized` is Python's half-to-even, `Stored` PostgreSQL's
half-up; where they disagree the inventory and its ledger part by a thousandth.
`Legacy` are the batches whose number has the pattern the MTC rule does not
apply to. `MaxReceived` bounds what is posted to, and issued from, a batch. The
purchase order behind the GRNs is issued and closed by `MovePurchaseOrder`.

### The other components

They all have the form of `Stores`: `req[s]` (`qreq[s]` in `Quality`) is what
session `s` is about to write, a handler is one step up to its commit, `Commit`
applies it unless a unique index or a foreign key refuses it, `Abort` is a
rollback, and a refused request is no step. None of these handlers locks what it
reads. Where the ORM would write only the columns that differ from the row it
read, `set` holds only those (`Changed`, `Keep`), and `Written` is the row with
them.

- `Dispatch`. The three documents share the shape `GenerateDocument`, each with
  its own table and numbers. `finals` is read here and written by `Quality`'s
  handlers in `Shipping`. Certificates of conformance are written by no handler:
  `Certified` says which production orders have one.
- `Quality`. `ncrs` are kept by the record they are on, as `check_repeated_ncr`
  counts them. `RepeatLimit` is 3 in the code. An NCR is flushed, counted and
  committed in its caller's transaction.
- `Purchase`. The total is recomputed by a query after the flush: `TotalSeen` is
  the committed items and the request's own. The PDF's content is `pdfs`, written
  by the handler itself; the path is a column and waits for the commit.
- `Engineering`. Route cards are rows by id; their route numbers are a unique column
  that a client gives and may change (`RouteTaken`). An update may change several
  columns at once. Operation numbers are any integers, as no CHECK says otherwise:
  the one the service computes is ten past the greatest in use, below zero too. A
  route card's file is stored by a second transaction of the
  request that creates the card (`Continues`), so that a card can be without one
  for a while, or for good. A deleted operation keeps its number and its place,
  as the indexes count it.
- `Maintenance`. `Verdicts` are the statuses clients send for the breakdown when
  they complete a work order. Work orders are rows in id order; their numbers are
  unique. A breakdown's own work order has the number `WO-b` made of the breakdown's
  number `b`, and `b` stands for it in `WorkOrders`, so that a client may have used it
  for another (`CreateWorkOrder` takes any number and status).
- `Auth`. A request is a chain of transactions: a login checks the account, then
  issues its tokens; a Google login consumes its state, stores the profile, then
  issues; a deletion logs, then deletes. `IssueTokenPair` flushes the new token,
  which gives it its id, before the session limit is enforced; `flushed` and
  `lost` are tokens no other session sees. The administrator's own account is
  none of `Users`. `Expire` is time passing.

**History variables.** Nothing is checked again at a commit, so two requests on
one row can break almost every rule of one request. The properties say exactly
how far a rule goes: `crossed` collects the rows (orders, cards, machines,
accounts) that two requests ever dealt with at once, `raced` remembers that a
release overlapped another request, and a property with `\ crossed` is claimed of
all other rows, whatever else overlaps. Properties without it hold of every
interleaving, thanks to a unique index, a single transaction or the shape of the
handlers.

`create_ncr` calls `db.begin_nested()` and then `db.commit()`: the model takes the
commit to be that of the request's transaction, as in the SQLAlchemy 2.0 that
`requirements.txt` pins (`pyproject.toml` names `^1.4.27`, where a session's commit can end at
the savepoint).

## Runs

| Run | Instance | What it shows |
|---|---|---|
| `production_serial` | one session; order with operations 10 and 20, the first on a machine; plan of one thousandth; two inspections, one rework, client times before and after the server's | `TypeOK`, `SequenceControlled`, `CompletedOpHasPass`, and `ImplementsLifecycle`: every behaviour is one of `OrderLifecycle` |
| `production_concurrent` | two sessions; one operation whose inspections pass; quantities of half a thousandth, which round | `LoggedOvershootBounded`, `CompletedReconciled`, `CompletedFreezesLog`, `FirstOpHasFai`; `DeadlockNeedsTrigger`: requests wait in a circle only where an FAI trigger is about to be inserted; under fairness `RequestsFinish`: every request ends, unless it comes to that deadlock |
| `production_quality_fail` | as serial | finds a failed inspection without a rework order |
| `production_rework_close` | as serial | finds a rework order closed by a Pass older than itself |
| `production_restart` | as concurrent | finds a completed operation taken back to InProgress |
| `stores_serial` | one session; two batches, one with a legacy number; two locations; quantities with a tie and one below it | `TypeOK`, `StockCoversLedger`, `DeletedLocationEmpty`, `AcceptedHasMtc`, and `ImplementsLedger` |
| `stores_concurrent` | three sessions on one batch; quantities the columns hold exactly | `AcceptedIsPosted`, `PostsOnAcceptance`, `PostingExact` |
| `stores_over_issue` | as concurrent | finds more issued than was received |
| `shipping` | two dispatch sessions and one inspector; scenes: one order with two lines and one checklist point to its release, or two orders numbering packing lists | `TypeOK`, `DocumentsNumbered`, `ReleasedIsDocumented` in every interleaving; `ReleasedIsApproved`, `ReleasedOnPass` as long as no release overlaps another request |
| `purchase` | two sessions, one supplier; scenes: one order of up to three items, or two orders | `TypeOK`, `TotalIsSumOfItems`, `OpenOrdersConsistent`, `PdfShowsOrder`, `IssuedIsFixed` |
| `offices` | two sessions; one component, or scene of it, in a behaviour | `TypeOK`; every interleaving: `OrdersTraceToApproval`, `OneCurrentRevision`, `EveryBreakdownHasWorkOrder`, `RejectionsReported`, `RepeatsRecommended`; uncrossed rows: `ReleasedIsFixed`, `HistoryTellsStatus`, `BreakdownStopsMachine`, `SessionLimitHolds`, `IssuedToUsable`, `LogoutAllEndsSessions` |
| `route_card_without_operations` | one session, one card with one operation | finds a card released with no operation but a deleted one |

Why these bounds are enough to meet the cases: two operations are the least with
a sequence, one inspection of each result and one rework the least in which a
Pass can be older than what it is used for, and two sessions the least for every
race between a read and a commit; in stores a third lets an issue run against a
posting that runs against another. A plan of one thousandth can be met, missed and,
with half-thousandths, passed.

Scenes. `PassingSpec` of `MCProduction` leaves out what can only make a handler
refuse: inspections that fail or stay open, and obsolete route cards. The theorems
below say the same of `Next` as it is, liveness apart.
`MCShipping`, `MCPurchase` and `MCOffices` have a variable that is chosen
at the start and says which requests a behaviour contains. The components of
`MCOffices` share no table, so their steps commute, and a behaviour of all of them
is one of each side by side: checking them one at a time loses nothing. Within a
component the scenes are a bound: they leave out requests, not interleavings of
those they have (in engineering, drawings, the numbers of two cards, and the life of
one card apart; in quality, the three
kinds of record; in auth, the sessions of an account apart from its Google
logins and its role). `SYMMETRY` permutes sessions (dispatch lines, revision codes), which no
definition tells apart but by equality, and is used with invariants and action properties only.
`MaxFailed`, `MaxSessions` and `RepeatLimit` are settings of the code made small: two
failures, two sessions and one NCR are the least with a "before" and an "after".
Three revisions let one current revision be superseded twice at once.

`CHECK_DEADLOCK FALSE`: an idle system whose bounds are
used up may stop.

Properties under "one request at a time", and those of rows not `crossed` or
`raced`, are those the code keeps only then: its handlers re-check nothing at
the commit. Two violation runs show overlapping requests break a documented rule
(`production_restart`, `stores_over_issue`). Of the other rules that an overlap can
break, `CompletedOpHasPass`, `DeletedLocationEmpty`, `ReleasedIsApproved`,
`IssuedIsFixed` and `ReleasedIsFixed` among them, no run shows it: the hazards in
`PROJECT.json` name the lines, and the properties are claimed only without overlap.

### What the violation runs found

- The quality module's `complete_inprocess_inspection` records a failure without
  a rework order; README and SOP promise one of any failed inspection.
- `close_rework_order` accepts a Pass from before the rework was opened; README
  and SOP say "later".
- `start_operation` overlapping `complete_operation` reverts the completion.
- Two overlapping `issue_material_to_production` both take the same stock.
- `release_route_card` counts deleted operations: a card without any other is
  released.

### Fairness

`Fairness` assumes that a handler, once its rows are loaded, runs on (`WF` of
`Decide`), and that a statement that keeps finding its row lock free now and then
is served (`SF` of `LockOrder`, `LockOperation` and `Commit`): PostgreSQL queues the
waiters for a row lock. It is not assumed that anyone aborts: the deadlock is
left as it is, and `RequestsFinish` excepts it by name (`TriggerDeadlock`), so that
every other wait has to end by itself. Nothing is assumed of clients: no request
need ever arrive.

## Proofs

Every theorem is of the specification with its constants left open: any number
of sessions, rows, quantities, and any interleaving with any aborts, unless a
hypothesis says otherwise. What the runs find on an instance, the theorems say of
all of them.

### Assumptions and hypotheses

- Named assumptions of the modules (`ProductionConstants`, `StoresConstants`, ...)
  give constants their types. `StoresNone`, `DispatchNone` and `PurchaseNone` say
  that `None`, which stands for NULL, is no value of a column: TLC checks them on
  every run.
- `MaintenanceConstants`, `QualityConstants`, `EngineeringConstants` and `AuthConstants`
  say the same of their modules, and: that one NCR alone recommends nothing and
  sessions are finitely many (quality), that operation numbers are integers
  (engineering), that at least one session of a user is allowed (auth), and that a
  client may give any breakdown's work order number (maintenance).
  They are hypotheses of the theorems; `OfficesConstants` assumes them of
  `MCOffices`, where TLC evaluates them.
- `OneSession`: one request at a time. It is a hypothesis where the code keeps the
  property only then: nothing is checked again at a commit.
- `Representable`: every quantity sent is one its column holds exactly.

### Production

- `TypeCorrect`: inductive with `RequestsWellformed`, what a request names exists.
  Without it an update at `req[s].order` or at an inspection's index could leave
  the type.
- `OvershootBounded`, `WithinPlanLogged`, `CompletionReconciles`,
  `CompletionFreezes`, from `QuantityInv`. Its parts: `LockExclusive`, one log per
  order at a time; `CheckedLogFits`, the order of a checked log is below its plan
  and the log's amount fits, still, when it commits; `CheckedCompletionReconciled`,
  a checked completion's order has its plan logged, still. The last two contradict
  each other for one order, so a log and a completion are never in flight
  together although completions lock nothing: that is the whole argument, and
  none of it is in the code's text. `Slack` is 0 if every quantity sent is one
  its column holds exactly and 1 otherwise, so one proof gives the exact bound and
  the bound with rounding.
- `NoOtherDeadlock`, from `LocksInOrder`: who holds an operation has no order left to
  lock, so it waits for nothing but to insert its trigger; who holds only its order
  waits to insert, or for the holder of an operation. In a circle of waits, then,
  someone is about to insert.
- `FirstOperationTriggersFai`, from `FaiInv`: a checked completion of a first
  operation either inserts its trigger or has seen it, triggers are never
  removed, and the unique index rolls the second insert back whole.
- `SequenceKept`, `CompletedPassed` (`OneSession`), from `SerialInv`: the tables
  agree with one another (`OrdersConsistent`), and what the one request has read
  and decided is still so (`Current`). The part that had to be found is that an
  order is InProgress or Completed as soon as one of its operations has left
  Pending, and that a Completed order has all of them Completed.
- `LifecycleRefinement` (`OneSession`, `Representable`): what the handlers do to any
  order is a behaviour of `OrderLifecycle`. Every commit is one of its actions or
  a stutter, read off `Current`.

### Stores

- `TypeCorrect`, `AcceptedPosted`, `AcceptedCertified`, `PostedOnAcceptance`,
  `PostingsExact`, in every interleaving, from `PostingInv`: the lock of the item
  lets one inspection of a batch be in progress (`InspectionExclusive`), one that
  accepts posts unless it has seen the batch Accepted (`InspectionSound`), and the
  balance it writes is the stock as it is when it commits.
- `StockCovers`, `DeletedEmpty`, `LedgerRefinement` (`OneSession`): an issue lowers
  the stock by what it adds to the ledger, or by one thousandth less at a tie.

### Dispatch and its inspections

From `DispatchInv` and `ShippingInv`. `NumbersExact` rests on `NumberInReach`: a
number computed from the rows is at most one past those in use when it commits,
because others only add; the unique index refuses all but the next one.
`DocumentsStay` needs no more than that rows are added and never removed.
`ApprovalStays` and `PassAtRelease` hold of behaviours in which no release was
served together with another request, `raced` being what remembers it.

### Purchase

`TypeCorrect`, `TotalsExact`, `OpenConsistent`, `PdfCurrent` and `IssuedFixed`, from
`PurchaseInv`. No handler locks anything, so the invariant has to say what a
pending request may still rely on: for an order that no two requests changed at
once, that its row and items are as the handler saw them (`OrderFresh`); for a
supplier, that it is there and has no open order in the way (`SupplierFresh`).
Downloads are the exception: they overlap anything, and the proof is that one and
a change of the order exclude each other (`OthersFit`): a download needs an issued
order, a change of items a draft. An issued order's PDF, written early, is then
what the order still shows (`PdfFresh`).

The total is a fold over a set of items. What a fold computes is defined by
recursion over finite sets, and is proved here without an induction schema: a
set of which a claim about the sum fails has a least subset of which it fails
(`LeastSubset`, from the well-founded order of the finite subsets), and that one
contradicts the claim for it without one element (`SumUnique`, `SumNat`,
`SumWithout`, `SumSame`).

### Sales and maintenance

Proved in `OfficesProofs`, of the instances in `MCOffices`.

- `OrdersTraced` from `SalesInv`, what a pending row refers to exists and stays;
  `NumbersGapless` as in dispatch.
- `BreakdownHasWorkOrder`: a breakdown and its work order are inserted together or,
  when the number is taken, not at all; rows keep their number and their breakdown,
  completed ones stay so, and only a completion moves a breakdown out of Assigned
  (`ApplyWorkOrders`, `MachineSound`). `HistoryIsChain` and `MachineStopped`, from `MachineInv`, the status a request has
  read is still the machine's where no two requests deal with it.

### Quality

`RecommendationInTime`, from `LimitInView`: the NCRs of a record and the requests
about to add one that have not seen it repeated are together at most
`RepeatLimit` and one for each other session; `RejectionsHaveNcr`.

### Engineering

From `EngineeringInv`: what a request refers to is there when it commits, as rows
stay.

- `OneCurrent` holds in every interleaving: the partial unique index refuses a
  second current revision, and a commit that moves the mark leaves one.
- `ReleasedFixed`, of its number, revision, sales order and operations: as long as no two requests deal with a card at once, a pending
  change of it or of its operations has seen it not released, and it still is
  not (`Fresh`). A release is itself such a request, so no change is pending when
  a card becomes released.

### Auth

From `AuthInv`:

- `AccountRecordsInv`: the tokens a request revokes or inserts are of its user. What
  has to be carried along is which transaction of a request may follow which.
- `OneRequestPerAccount` and, of uncrossed accounts, `AccountFresh`: who is about to get a token can still
  log in, and has fewer than `MaxSessions` valid tokens besides those the request
  revokes; a pending `logout_all` covers every valid one.
- `SessionLimitHolds`, the invariant of the runs.

`SessionLimit` and `LogoutAllEnds` rest on the fact that a commit of a token pair is
the only step that makes a token valid (`OnlyCommits`, `CommitOnTokens`), and on
`RoomUnderLimit`: after the excess is revoked, oldest first, the oldest token that
remains has fewer than `MaxSessions` newer ones. That there is an oldest is
the well-foundedness of the naturals. `IssuedUsable` is an action property: a
token is inserted for an account that is active, not locked and not deleted.

### The offices together

A behaviour of `MCOffices` is one of each component (`SalesServed`,
`MaintenanceServed`, `QualityServed`, `EngineeringServed`, `AuthServed`), so that the
theorems of all five hold of it; `TypeCorrect` is their type correctness.

### Only model-checked

Every invariant, every action property and both refinements of the passing runs
are stated by a theorem. Two things are not: `RequestsFinish`, as liveness under
fairness is beyond the provers, and that the properties of the violation runs
fail, which a counterexample shows.

## Not modelled

- Roles and module access: which role may call what is a table lookup per
  request, and every handler is assumed to be called by someone who may.
- The rate limiter's counters (in memory, per process), password change and
  reset, the bootstrap of roles and of the first administrator.
- Preventive maintenance and downtime: rows that are written once and of which
  nothing but the history listing reads anything. `record_preventive_maintenance`,
  which would set a machine's status, is called by no endpoint.
- Audits, review meetings, special processes, shipment tracking, release
  records: inserted and listed, or without a handler.
- Audit log, reports, dashboards, alerts, search, traceability, PDF layout:
  read-only or append-only.
- Migrations: the schema is taken as the models declare it.
- What the components read of one another across the groups above (the route
  card of a production order, the purchase order of a GRN) is in `Production` and
  `Stores` as environment actions, not as a composition with `Engineering`,
  `Maintenance` and `Purchase`: the statuses are all that is read.

## Plan

1. Done: `Production`, `OrderLifecycle`, `ProductionProofs`; `Stores`, `StockLedger`.
2. Done: `Dispatch`, `DocumentNumbers`, `Quality`, `Shipping`; `Purchase`; `Engineering`,
   `Maintenance`, `Sales`, `Auth`.
3. Done: the theorems of every component and of their compositions, and both
   refinements.

What is left is either beyond the provers (`RequestsFinish`) or under "Not modelled".
