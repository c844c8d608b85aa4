------------------------------ MODULE Purchase ------------------------------
(***************************************************************************)
(* Suppliers, purchase orders and their items:                             *)
(* app/services/purchase_service.py behind                                 *)
(* app/api/v1/endpoints/purchase.py.                                       *)
(*                                                                         *)
(* A request is two steps of its database session: the handler, which      *)
(* reads, checks and leaves in req[s] what it is about to write, and       *)
(* Commit.  A handler that raises writes nothing and is no step.  Nothing  *)
(* here locks what it reads.  An order is known by its number.             *)
(***************************************************************************)
EXTENDS Naturals, Sequences, DocumentNumbers

CONSTANTS
  Sessions,     \* request sessions that may be open at once
  None,
  Suppliers,    \* supplier codes clients give
  SalesOrders,  \* None: an order for no sales order
  Amounts,      \* line totals, in hundredths
  MaxOrders, MaxItems  \* bounds on the orders, and on the items of one

ASSUME PurchaseConstants ==
  /\ Amounts \subseteq Nat
  /\ MaxOrders \in Nat /\ MaxItems \in Nat

VARIABLES
  suppliers,  \* suppliers, None before the INSERT
  orders,     \* purchase_orders by number, None before the INSERT
  items,      \* per order, its purchase_order_items, in id order
  pdfs,       \* per order, what the file exports/purchase_orders/<number>.pdf shows
  req,        \* per session, the request about to commit
  crossed     \* history: suppliers and orders two requests changed at once

db == <<suppliers, orders, items, pdfs>>
vars == <<db, req, crossed>>

PurchaseOrderStatus == {"draft", "issued", "closed"}
Supplier == [approved : BOOLEAN, acknowledged : BOOLEAN, active : BOOLEAN, deleted : BOOLEAN]
PurchaseOrder == [ supplier : Suppliers, sales : SalesOrders, status : PurchaseOrderStatus,
                   total : Nat, deleted : BOOLEAN, path : BOOLEAN ]  \* po_document_path is set
PurchaseOrderItem == [amount : Amounts, deleted : BOOLEAN]
Numbers == 1..MaxOrders

Handlers == {"create_supplier", "approve_supplier", "update_supplier", "soft_delete_supplier",
             "create_purchase_order", "add_po_item", "remove_po_item", "update_po_status",
             "soft_delete_po", "download_purchase_order_pdf"}

\* NULL is no value of a column but sales_order_id; a supplier's code is not an
\* order's number.
ASSUME PurchaseNone ==
  /\ None \in SalesOrders
  /\ None \notin Suppliers \cup Nat \cup Handlers \cup Supplier \cup PurchaseOrder
  /\ 0 \notin Suppliers

\* Columns of one row about to be written, with their values.
Columns(set) ==
  /\ DOMAIN set \subseteq {"approved", "acknowledged", "active", "deleted", "status", "total", "path"}
  /\ \A c \in DOMAIN set :
       set[c] \in CASE c = "status" -> PurchaseOrderStatus [] c = "total" -> Nat [] OTHER -> BOOLEAN

Wellformed(r) ==
  /\ r.act \in Handlers \cup {None}
  /\ r.supplier \in Suppliers \cup {None}
  /\ r.order \in Numbers \cup {0}
  /\ r.sales \in SalesOrders
  /\ r.amount \in Nat /\ r.item \in Nat
  /\ Columns(r.set)

Idle == [ act |-> None, supplier |-> None, order |-> 0, sales |-> None,
          item |-> 0, amount |-> 0, set |-> <<>> ]

\* The ORM writes the columns that differ from the row it read.
Changed(row, new) == [c \in {d \in DOMAIN new : new[d] # row[d]} |-> new[c]]

Written(row, set) == [c \in DOMAIN row |-> IF c \in DOMAIN set THEN set[c] ELSE row[c]]

-----------------------------------------------------------------------------
(* Queries of the service.                                                 *)

\* _get_supplier
LiveSupplier(v) == suppliers[v] # None /\ ~suppliers[v].deleted

\* _get_purchase_order
LiveOrder(n) == orders[n] # None /\ ~orders[n].deleted

\* Mutant: an order may be changed whatever its status.
AnyStatus(n) == LiveOrder(n)

\* _ensure_po_draft
Draft(n) == LiveOrder(n) /\ orders[n].status = "draft"

LiveItems(n) == {i \in DOMAIN items[n] : ~items[n][i].deleted}
AmountOf(rows, ids) == MapThenSumSet(LAMBDA i : rows[i].amount, ids)
SumOf(n, ids) == AmountOf(items[n], ids)

\* Mutant: only draft orders are open.
DraftOrdersOf(v) == {n \in Numbers : Draft(n) /\ orders[n].supplier = v}

\* Draft or Issued, which is as good as not Closed
OpenOrdersOf(v) ==
  {n \in Numbers : LiveOrder(n) /\ orders[n].supplier = v /\ orders[n].status # "closed"}

-----------------------------------------------------------------------------
TypeOK ==
  /\ suppliers \in [Suppliers -> Supplier \cup {None}]
  /\ orders \in [Numbers -> PurchaseOrder \cup {None}]
  /\ items \in [Numbers -> Seq(PurchaseOrderItem)]
  /\ pdfs \in [Numbers -> [items : SUBSET Nat, total : Nat] \cup {None}]
  /\ DOMAIN req = Sessions /\ \A s \in Sessions : Wellformed(req[s])
  /\ crossed \subseteq Suppliers \cup Numbers

Init ==
  /\ suppliers = [v \in Suppliers |-> None]
  /\ orders = [n \in Numbers |-> None]
  /\ items = [n \in Numbers |-> <<>>]
  /\ pdfs = [n \in Numbers |-> None]
  /\ req = [s \in Sessions |-> Idle]
  /\ crossed = {}

-----------------------------------------------------------------------------
(* The handlers, up to their commit.  Dates, remarks and the rest of the   *)
(* payload are such that they pass.                                        *)

Pend(s, r) ==
  /\ req[s] = Idle
  /\ req' = [req EXCEPT ![s] = r]
  /\ UNCHANGED <<suppliers, orders, items>>

OnSupplier(s, act, v, new) ==
  /\ Pend(s, [Idle EXCEPT !.act = act, !.supplier = v, !.set = Changed(suppliers[v], new)])
  /\ UNCHANGED pdfs

\* A client may create a supplier approved.
CreateSupplier(s) ==
  \E v \in Suppliers, approved, active \in BOOLEAN :
    /\ suppliers[v] = None
    /\ Pend(s, [Idle EXCEPT !.act = "create_supplier", !.supplier = v,
                            !.set = [approved |-> approved, active |-> active]])
    /\ UNCHANGED pdfs

\* Approved with the quality acknowledgement, which a withdrawal keeps.
ApproveSupplier(s) ==
  \E v \in Suppliers :
    /\ LiveSupplier(v)
    /\ \/ OnSupplier(s, "approve_supplier", v, [approved |-> TRUE, acknowledged |-> TRUE])
       \/ OnSupplier(s, "approve_supplier", v, [approved |-> FALSE])

UpdateSupplier(s) ==
  \E v \in Suppliers, active \in BOOLEAN :
    /\ LiveSupplier(v)
    /\ suppliers[v].active /\ ~active => OpenOrdersOf(v) = {}
    /\ OnSupplier(s, "update_supplier", v, [active |-> active])

SoftDeleteSupplier(s) ==
  \E v \in Suppliers :
    /\ LiveSupplier(v)
    /\ OpenOrdersOf(v) = {}
    /\ OnSupplier(s, "soft_delete_supplier", v, [deleted |-> TRUE])

\* Of an approved supplier, active or not.
CreatePurchaseOrder(s) ==
  \E v \in Suppliers, so \in SalesOrders :
    LET n == NextNumber({m \in Numbers : orders[m] # None}) IN
    /\ LiveSupplier(v) /\ suppliers[v].approved
    /\ \A m \in OpenOrdersOf(v) : orders[m].sales # so
    /\ n \in Numbers
    /\ Pend(s, [Idle EXCEPT !.act = "create_purchase_order", !.supplier = v,
                            !.sales = so, !.order = n])
    /\ UNCHANGED pdfs

OnOrder(s, r, n, new) ==
  /\ Pend(s, [r EXCEPT !.order = n, !.set = Changed(orders[n], new)])
  /\ UNCHANGED pdfs

\* Mutant: the total is taken before the new item is flushed.
TotalUnflushed(n, amount, removed) == SumOf(n, LiveItems(n) \ removed)

\* Mutant: the total is kept by adding and subtracting.
TotalCarried(n, amount, removed) == orders[n].total + amount - SumOf(n, removed)

\* _recalculate_po_total_amount, after the flush: the committed items, and
\* what this request adds or removes.
TotalSeen(n, amount, removed) == SumOf(n, LiveItems(n) \ removed) + amount

AddPoItem(s) ==
  \E n \in Numbers, a \in Amounts :
    /\ Draft(n)
    /\ Len(items[n]) + Cardinality({t \in Sessions : req[t].act = "add_po_item"}) < MaxItems
    /\ OnOrder(s, [Idle EXCEPT !.act = "add_po_item", !.amount = a], n,
               [total |-> TotalSeen(n, a, {})])

\* Of two removals of an item the second waits for the lock of the first, and
\* then removes the item again, to the same effect.
RemovePoItem(s) ==
  \E n \in Numbers : Draft(n) /\ \E i \in LiveItems(n) :
    OnOrder(s, [Idle EXCEPT !.act = "remove_po_item", !.item = i], n,
            [total |-> TotalSeen(n, 0, {i})])

UpdatePoStatus(s) ==
  \E n \in Numbers : LiveOrder(n) /\ \E new \in PurchaseOrderStatus :
    /\ \/ orders[n].status = "draft" /\ new = "issued" /\ LiveItems(n) # {}
       \/ orders[n].status = "issued" /\ new = "closed"
    /\ OnOrder(s, [Idle EXCEPT !.act = "update_po_status"], n, [status |-> new])

SoftDeletePo(s) ==
  \E n \in Numbers :
    /\ Draft(n)
    /\ OnOrder(s, [Idle EXCEPT !.act = "soft_delete_po"], n, [deleted |-> TRUE])

\* Mutant: a draft may be downloaded.
AnyOrder(n) == LiveOrder(n)

Downloadable(n) == LiveOrder(n) /\ orders[n].status \in {"issued", "closed"}

\* The file is written at once, its path at the commit; an order that has a
\* path is served the file as it is.
DownloadPurchaseOrderPdf(s) ==
  \E n \in Numbers :
    /\ Downloadable(n) /\ ~orders[n].path
    /\ Pend(s, [Idle EXCEPT !.act = "download_purchase_order_pdf", !.order = n,
                            !.set = [path |-> TRUE]])
    /\ pdfs' = [pdfs EXCEPT ![n] = [items |-> LiveItems(n), total |-> orders[n].total]]

-----------------------------------------------------------------------------
\* unique(supplier_code), unique(po_number)
ConstraintFails(r) ==
  \/ r.act = "create_supplier" /\ suppliers[r.supplier] # None
  \/ r.act = "create_purchase_order" /\ orders[r.order] # None

Apply(r) ==
  /\ suppliers' =
       CASE r.act = "create_supplier" ->
              [suppliers EXCEPT ![r.supplier] =
                 Written([approved |-> FALSE, acknowledged |-> FALSE,
                          active |-> TRUE, deleted |-> FALSE], r.set)]
         [] r.supplier # None /\ r.order = 0 /\ r.act # "create_supplier" ->
              [suppliers EXCEPT ![r.supplier] = Written(@, r.set)]
         [] OTHER -> suppliers
  /\ orders' =
       CASE r.act = "create_purchase_order" ->
              [orders EXCEPT ![r.order] =
                 [supplier |-> r.supplier, sales |-> r.sales, status |-> "draft",
                  total |-> 0, deleted |-> FALSE, path |-> FALSE]]
         [] r.order # 0 /\ r.act # "create_purchase_order" ->
              [orders EXCEPT ![r.order] = Written(@, r.set)]
         [] OTHER -> orders
  /\ items' =
       CASE r.act = "add_po_item" ->
              [items EXCEPT ![r.order] = Append(@, [amount |-> r.amount, deleted |-> FALSE])]
         [] r.act = "remove_po_item" -> [items EXCEPT ![r.order][r.item].deleted = TRUE]
         [] OTHER -> items

Commit(s) ==
  /\ req[s] # Idle
  /\ IF ConstraintFails(req[s]) THEN UNCHANGED <<suppliers, orders, items>> ELSE Apply(req[s])
  /\ req' = [req EXCEPT ![s] = Idle]
  /\ UNCHANGED pdfs

\* The worker or its connection dies before the commit: a rollback.
Abort(s) ==
  /\ req[s] # Idle
  /\ req' = [req EXCEPT ![s] = Idle]
  /\ UNCHANGED db

Handle(s) ==
  \/ CreateSupplier(s) \/ ApproveSupplier(s) \/ UpdateSupplier(s) \/ SoftDeleteSupplier(s)
  \/ CreatePurchaseOrder(s) \/ AddPoItem(s) \/ RemovePoItem(s) \/ UpdatePoStatus(s)
  \/ SoftDeletePo(s) \/ DownloadPurchaseOrderPdf(s)

\* What a request depends on or changes: downloads cross nothing.
Touched(r) ==
  IF r.act = "download_purchase_order_pdf" THEN {} ELSE {r.supplier, r.order} \ {None, 0}

Next ==
  /\ \E s \in Sessions : Handle(s) \/ Commit(s) \/ Abort(s)
  /\ crossed' = crossed \cup
       {x \in Suppliers \cup Numbers :
          \E s, t \in Sessions : s # t /\ x \in Touched(req'[s]) \cap Touched(req'[t])}

Spec == Init /\ [][Next]_vars

-----------------------------------------------------------------------------
(* Nothing is re-checked at a commit, so that each of these is claimed of  *)
(* the orders and suppliers no two requests changed at once, whatever else *)
(* overlaps.                                                               *)

\* The stored total of an order is the sum of its items, through every
\* sequence of additions and removals.
TotalIsSumOfItems ==
  \A n \in Numbers \ crossed : orders[n] # None => orders[n].total = SumOf(n, LiveItems(n))

\* "PurchaseOrder can be modified only in Draft status": an issued order keeps
\* its items, has one, and is never deleted.
IssuedIsFixed ==
  [][\A n \in Numbers \ crossed : orders[n] # None /\ orders[n].status # "draft" =>
       /\ items'[n] = items[n] /\ LiveItems(n) # {}
       /\ ~orders'[n].deleted]_vars

\* A supplier has one open order for a sales order, and none once deleted.
OpenOrdersConsistent ==
  LET Open == {n \in Numbers \ crossed :
                 /\ LiveOrder(n) /\ orders[n].status # "closed"
                 /\ orders[n].supplier \notin crossed}
  IN /\ \A n \in Open : LiveSupplier(orders[n].supplier)
     /\ \A m, n \in Open :
          orders[m].supplier = orders[n].supplier /\ orders[m].sales = orders[n].sales => m = n

\* The stored PDF, written once and before its path, shows the order as issued,
\* also when two downloads both write it.
PdfShowsOrder ==
  \A n \in Numbers \ crossed : orders[n] # None /\ orders[n].path =>
    pdfs[n] = [items |-> LiveItems(n), total |-> orders[n].total]
=============================================================================
