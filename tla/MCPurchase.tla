----------------------------- MODULE MCPurchase -----------------------------
(***************************************************************************)
(* A small instance of Purchase for TLC.  A behaviour plays one of two     *)
(* scenes: the items of one order, or the orders of one supplier.          *)
(***************************************************************************)
EXTENDS Purchase, TLC

VARIABLE scene

\* In "items" the supplier is settled; in "orders" an order's first item is
\* its last, and it has no PDF.
InScene(r) ==
  IF scene = "items"
  THEN /\ r.order \in {0, 1}
       /\ r.act \notin {"update_supplier", "soft_delete_supplier", "approve_supplier"}
       /\ r.act = "create_supplier" => r.set.approved /\ r.set.active
       /\ r.act = "create_purchase_order" => r.sales = None
  ELSE /\ r.act \notin {"download_purchase_order_pdf", "remove_po_item"}
       /\ r.act = "add_po_item" => items[r.order] = <<>> /\ r.amount = 0
       /\ r.act = "create_supplier" => r.set.active

SceneInit == Init /\ scene \in {"items", "orders"}
SceneNext == Next /\ UNCHANGED scene /\ \A s \in Sessions : InScene(req'[s])
SceneSpec == SceneInit /\ [][SceneNext]_<<vars, scene>>

Interchangeable == Permutations(Sessions)
=============================================================================
