------------------------------- MODULE Stores -------------------------------
(***************************************************************************)
(* Receiving, inventory posting and issue: app/services/stores_service.py  *)
(* and the location endpoints of app/api/v1/endpoints/stores.py.           *)
(*                                                                         *)
(* A request is two steps of its database session: the handler, which      *)
(* reads, checks and leaves its pending writes in req[s], and Commit,      *)
(* which flushes them.  A handler that raises writes nothing and is no     *)
(* step.  Only the RMIR inspection locks the rows it reads; what the other *)
(* handlers read may be out of date by the time they commit.               *)
(***************************************************************************)
EXTENDS Naturals

CONSTANTS
  Grns, Batches, Locations,
  Sessions,      \* request sessions that may be open at once
  None,
  GrnOf,         \* [Batches -> Grns]  the GRN a batch is received on
  Legacy,        \* batches whose number is of the pattern without traceability
  Quantities,    \* quantities a client may send, in ten-thousandths
  MaxReceived    \* bound on the quantity posted, per batch

ASSUME StoresConstants ==
  /\ GrnOf \in [Batches -> Grns]
  /\ Legacy \subseteq Batches
  /\ Quantities \subseteq Nat
  /\ MaxReceived \in Nat

VARIABLES
  poStatus,    \* purchase_orders.status of the order behind the GRNs
  grns,        \* GRN numbers taken
  location,    \* storage_locations: [active, deleted], or None
  accepted,    \* grn_items.accepted_quantity in thousandths, or None
  mtc,         \* batches with an MTC verification
  rmir,        \* rmir_reports.inspection_status, or None
  place,       \* batch_inventories.storage_location_id, None before the INSERT
  stock,       \* batch_inventories.current_quantity, in thousandths
  received,    \* SUM(quantity_in) over the batch's stock_ledger rows
  issued,      \* SUM(quantity_out)
  balance,     \* balance_after of the batch's last row
  req          \* per session, the request about to commit

inventory == <<place, stock, received, issued, balance>>
db == <<grns, location, accepted, mtc, rmir, inventory>>
vars == <<poStatus, db, req>>

InspectionStatus == {"Pending", "Accepted", "Rejected"}
Handlers == {"create_grn", "add_grn_item", "create_mtc_verification",
             "perform_rmir_inspection", "issue_material_to_production",
             "update_storage_location", "delete_location"}
StorageLocation == [active : BOOLEAN, deleted : BOOLEAN]

\* NULL is no value of a column.
ASSUME StoresNone ==
  None \notin Locations \cup Batches \cup Grns \cup Nat \cup StorageLocation
              \cup InspectionStatus \cup Handlers

Request ==
  [ act : Handlers \cup {None}, grn : Grns \cup {None}, batch : Batches \cup {None},
    place : Locations \cup {None}, status : InspectionStatus,
    posts : BOOLEAN,                     \* an acceptance that posts to inventory
    quantity : Nat, balance : Nat,       \* of the ledger row
    writes : BOOLEAN,                    \* the balance differs from what was read
    wasActive : BOOLEAN ]                \* is_active as read

Idle == [ act |-> None, grn |-> None, batch |-> None, place |-> None,
          status |-> "Pending", posts |-> FALSE, quantity |-> 0, balance |-> 0,
          writes |-> FALSE, wasActive |-> FALSE ]

-----------------------------------------------------------------------------
\* Numeric(18, 3): PostgreSQL rounds half away from zero.
Stored(x) == (x + 5) \div 10
SubUnits == 10

\* Decimal.quantize(Decimal("0.001")): half to even.
Quantized(x) ==
  LET kept == x \div 10  rest == x % 10 IN
  IF rest > 5 \/ (rest = 5 /\ kept % 2 = 1) THEN kept + 1 ELSE kept

\* _get_active_storage_location
Available(l) ==
  l \in Locations /\ location[l] # None /\ ~location[l].deleted /\ location[l].active

\* Mutant: the item is read without FOR UPDATE.
ItemUnlocked(b) == FALSE

\* SELECT ... FOR UPDATE of an inspection: its item stays locked until its end.
ItemLocked(b) ==
  \E s \in Sessions : req[s].act = "perform_rmir_inspection" /\ req[s].batch = b

\* Mutant: the inventory row is read without FOR UPDATE.
InventoryUnlocked(b) == FALSE

\* A posting locks the inventory row too, when there is one.
InventoryLocked(b) ==
  place[b] # None /\ \E s \in Sessions :
    req[s].act = "perform_rmir_inspection" /\ req[s].batch = b /\ req[s].posts

-----------------------------------------------------------------------------
TypeOK ==
  /\ poStatus \in {"Draft", "Issued", "Closed"}
  /\ grns \subseteq Grns
  /\ location \in [Locations -> StorageLocation \cup {None}]
  /\ accepted \in [Batches -> Nat \cup {None}]
  /\ mtc \subseteq Batches
  /\ rmir \in [Batches -> InspectionStatus \cup {None}]
  /\ place \in [Batches -> Locations \cup {None}]
  /\ stock \in [Batches -> Nat] /\ received \in [Batches -> Nat]
  /\ issued \in [Batches -> Nat] /\ balance \in [Batches -> Nat]
  /\ req \in [Sessions -> Request]

Init ==
  /\ poStatus = "Draft"
  /\ grns = {}
  /\ location = [l \in Locations |-> None]
  /\ accepted = [b \in Batches |-> None]
  /\ mtc = {}
  /\ rmir = [b \in Batches |-> None]
  /\ place = [b \in Batches |-> None]
  /\ stock = [b \in Batches |-> 0] /\ received = [b \in Batches |-> 0]
  /\ issued = [b \in Batches |-> 0] /\ balance = [b \in Batches |-> 0]
  /\ req = [s \in Sessions |-> Idle]

-----------------------------------------------------------------------------
(* The handlers, up to their commit.                                       *)

Pend(s, r) ==
  /\ req[s] = Idle
  /\ req' = [req EXCEPT ![s] = r]
  /\ UNCHANGED <<poStatus, db>>

CreateGrn(s) ==
  \E g \in Grns \ grns, l \in Locations :
    /\ poStatus = "Issued"
    /\ Available(l)
    /\ Pend(s, [Idle EXCEPT !.act = "create_grn", !.grn = g])

\* The received quantity is the sum of the two, on the quantities as sent and,
\* by CHECK ck_grn_items_qty_balance, on the three columns as rounded.
AddGrnItem(s) ==
  \E b \in Batches, good, bad \in Quantities :
    /\ GrnOf[b] \in grns
    /\ accepted[b] = None
    /\ Stored(good + bad) > 0
    /\ Stored(good) + Stored(bad) = Stored(good + bad)
    /\ Pend(s, [Idle EXCEPT !.act = "add_grn_item", !.batch = b, !.quantity = Stored(good)])

CreateMtcVerification(s) ==
  \E b \in Batches \ mtc :
    /\ accepted[b] # None
    /\ Pend(s, [Idle EXCEPT !.act = "create_mtc_verification", !.batch = b])

\* Mutant: any earlier inspection counts as posted.
PostsFirstOnly(b, status) == status = "Accepted" /\ rmir[b] = None

\* Not again while the batch stays Accepted.
Posts(b, status) == status = "Accepted" /\ rmir[b] # "Accepted"

\* Mutant: batches without MTC are let through.
MtcIgnored(b, l) == b \notin Legacy => l # None

Certified(b, l) == b \notin Legacy => b \in mtc /\ l # None

\* Mutant: balance_after is the quantity posted.
PostedAlone(b) == accepted[b]

BalanceAfterPosting(b) == stock[b] + accepted[b]

PerformRmirInspection(s) ==
  \E b \in Batches, status \in InspectionStatus, l \in Locations \cup {None} :
    /\ accepted[b] # None
    /\ ~ItemLocked(b)
    /\ status = "Accepted" => Certified(b, l)
    /\ IF Posts(b, status)
       THEN /\ accepted[b] > 0 /\ Available(l)
            /\ received[b] + accepted[b] <= MaxReceived
            /\ Pend(s, [Idle EXCEPT !.act = "perform_rmir_inspection", !.batch = b,
                          !.status = status, !.posts = TRUE, !.place = l,
                          !.quantity = accepted[b],
                          !.balance = BalanceAfterPosting(b), !.writes = TRUE])
       ELSE Pend(s, [Idle EXCEPT !.act = "perform_rmir_inspection", !.batch = b,
                       !.status = status])

\* Mutant: the balance is truncated.
TruncatedBalance(b, q) == (stock[b] * SubUnits - q) \div SubUnits

BalanceAfterIssue(b, q) == Quantized(stock[b] * SubUnits - q)

\* Mutant: no stock check.
Unlimited(b, q) == TRUE

Sufficient(b, q) == q <= stock[b] * SubUnits

\* Reads the inventory row without locking it.  The ledger row must move
\* something once rounded (CHECK ck_stock_ledger_direction_by_txn_type).
IssueMaterialToProduction(s) ==
  \E b \in Batches, l \in Locations, q \in Quantities :
    /\ Available(l)
    /\ place[b] = l
    /\ Sufficient(b, q)
    /\ Stored(q) > 0
    /\ issued[b] + Stored(q) <= MaxReceived
    /\ Pend(s, [Idle EXCEPT !.act = "issue_material_to_production", !.batch = b,
                  !.quantity = Stored(q), !.balance = BalanceAfterIssue(b, q),
                  !.writes = BalanceAfterIssue(b, q) # stock[b]])

\* PATCH of is_active to the other value; the same value writes nothing.
UpdateStorageLocation(s) ==
  \E l \in Locations :
    /\ location[l] # None /\ ~location[l].deleted
    /\ Pend(s, [Idle EXCEPT !.act = "update_storage_location", !.place = l,
                  !.wasActive = location[l].active])

\* Mutant: stock of a batch since rejected does not count.
LiveStockOfAccepted(l) == \E b \in Batches : place[b] = l /\ stock[b] > 0 /\ rmir[b] = "Accepted"

HasLiveStock(l) == \E b \in Batches : place[b] = l /\ stock[b] > 0

DeleteLocation(s) ==
  \E l \in Locations :
    /\ location[l] # None /\ ~location[l].deleted
    /\ ~HasLiveStock(l)
    /\ Pend(s, [Idle EXCEPT !.act = "delete_location", !.place = l,
                  !.wasActive = location[l].active])

-----------------------------------------------------------------------------
\* unique(grn_number), unique(batch_number), unique(grn_item_id)
ConstraintFails(r) ==
  \/ (r.act = "create_grn" /\ r.grn \in grns)
  \/ (r.act = "add_grn_item" /\ accepted[r.batch] # None)
  \/ (r.act = "create_mtc_verification" /\ r.batch \in mtc)

\* An issue updates the inventory row, and its ledger row references it.
Blocked(r) == r.act = "issue_material_to_production" /\ InventoryLocked(r.batch)

LedgerRow(r) == r.posts \/ r.act = "issue_material_to_production"

Apply(r) ==
  /\ grns' = IF r.act = "create_grn" THEN grns \cup {r.grn} ELSE grns
  /\ accepted' = IF r.act = "add_grn_item"
                 THEN [accepted EXCEPT ![r.batch] = r.quantity] ELSE accepted
  /\ mtc' = IF r.act = "create_mtc_verification" THEN mtc \cup {r.batch} ELSE mtc
  /\ rmir' = IF r.act = "perform_rmir_inspection"
             THEN [rmir EXCEPT ![r.batch] = r.status] ELSE rmir
  /\ location' = CASE r.act = "update_storage_location" ->
                        [location EXCEPT ![r.place].active = ~r.wasActive]
                   [] r.act = "delete_location" ->
                        [location EXCEPT ![r.place] =
                           [active |-> @.active /\ ~r.wasActive, deleted |-> TRUE]]
                   [] OTHER -> location
  /\ place' = IF r.posts THEN [place EXCEPT ![r.batch] = r.place] ELSE place
  /\ received' = IF r.posts THEN [received EXCEPT ![r.batch] = @ + r.quantity] ELSE received
  /\ issued' = IF r.act = "issue_material_to_production"
               THEN [issued EXCEPT ![r.batch] = @ + r.quantity] ELSE issued
  /\ balance' = IF LedgerRow(r) THEN [balance EXCEPT ![r.batch] = r.balance] ELSE balance
  /\ stock' = IF LedgerRow(r) /\ r.writes
              THEN [stock EXCEPT ![r.batch] = r.balance] ELSE stock

Commit(s) ==
  /\ req[s] # Idle
  /\ ~Blocked(req[s])
  /\ IF ConstraintFails(req[s]) THEN UNCHANGED db ELSE Apply(req[s])
  /\ req' = [req EXCEPT ![s] = Idle]
  /\ UNCHANGED poStatus

\* The worker or its connection dies before the commit: a rollback.
Abort(s) ==
  /\ req[s] # Idle
  /\ req' = [req EXCEPT ![s] = Idle]
  /\ UNCHANGED <<poStatus, db>>

\* One insert; location_code is unique, deleted rows included.
CreateStorageLocation ==
  \E l \in Locations, active \in BOOLEAN :
    /\ location[l] = None
    /\ location' = [location EXCEPT ![l] = [active |-> active, deleted |-> FALSE]]
    /\ UNCHANGED <<poStatus, grns, accepted, mtc, rmir, inventory, req>>

\* The purchase module's part: a purchase order is issued, then closed.
MovePurchaseOrder ==
  /\ \/ (poStatus = "Draft" /\ poStatus' = "Issued")
     \/ (poStatus = "Issued" /\ poStatus' = "Closed")
  /\ UNCHANGED <<db, req>>

Handle(s) ==
  \/ CreateGrn(s) \/ AddGrnItem(s) \/ CreateMtcVerification(s)
  \/ PerformRmirInspection(s) \/ IssueMaterialToProduction(s)
  \/ UpdateStorageLocation(s) \/ DeleteLocation(s)

Next ==
  \/ \E s \in Sessions : Handle(s) \/ Commit(s) \/ Abort(s)
  \/ CreateStorageLocation
  \/ MovePurchaseOrder

Spec == Init /\ [][Next]_vars

-----------------------------------------------------------------------------
(* Whatever the interleaving of the requests.                              *)

\* Stock is posted exactly when an inspection turns Accepted and only then:
\* the item's lock keeps two inspectors who both accept from posting twice.
PostsOnAcceptance ==
  [][\A b \in Batches : received'[b] # received[b] =>
       /\ rmir[b] # "Accepted" /\ rmir'[b] = "Accepted"
       /\ received'[b] = received[b] + accepted[b]]_vars

\* A posting raises the stock by what it adds to the ledger, whatever issues
\* run against the batch meanwhile: the lock on the inventory row keeps them
\* out between its read and its write.
PostingExact ==
  [][\A b \in Batches : received'[b] # received[b] =>
       stock'[b] = stock[b] + (received'[b] - received[b])]_vars

\* An Accepted batch has been posted: it has its inventory row, whatever
\* inspections came before the one that accepted it.
AcceptedIsPosted ==
  \A b \in Batches : rmir[b] = "Accepted" => place[b] # None /\ received[b] > 0

\* "Accepted RMIR cannot proceed without MTC verification" (SOP), which the
\* code keeps for batches of the traceable format only.
AcceptedHasMtc == \A b \in Batches \ Legacy : rmir[b] = "Accepted" => b \in mtc

(* With one request at a time only.                                        *)

\* The inventory never falls below what the ledger has on hand: each issue's
\* balance is rounded half to even from the exact difference, the ledger's
\* quantity half up, and only a tie tells them apart, in the stock's favour.
StockCoversLedger == \A b \in Batches : received[b] <= stock[b] + issued[b]

\* "Location deletion is soft-delete only and blocked if stock exists" (SOP):
\* no later posting or issue leaves stock in a deleted location.
DeletedLocationEmpty ==
  \A b \in Batches : place[b] # None /\ location[place[b]].deleted => stock[b] = 0

\* The inventory and its ledger as the abstract specification sees them: the
\* handlers carry out the ledger's operations.
Ledger == INSTANCE StockLedger WITH
  Lots <- Batches, in <- received, out <- issued, held <- stock

ImplementsLedger == Ledger!Spec

(* What a test says and the code does not keep.                            *)

\* "Insufficient batch inventory quantity": no more is issued of a batch than
\* was received.
IssuedWithinReceived == \A b \in Batches : issued[b] <= received[b]
=============================================================================
