--------------------------- MODULE PurchaseProofs ---------------------------
(***************************************************************************)
(* Proofs about Purchase, for every number of sessions, suppliers, orders  *)
(* and items.                                                              *)
(***************************************************************************)
EXTENDS Purchase, FiniteSetTheorems, SequenceTheorems, WellFoundedInduction, TLAPS

-----------------------------------------------------------------------------
(* The sum of the items of an order.  Sets of items are finite, so that a  *)
(* claim about all of them that fails fails of a least one.                *)

\* sum is the recursive function of the fold.
IsSum(sum, rows, ids) ==
  sum = [s \in SUBSET ids |->
           IF s = {} THEN 0
           ELSE rows[CHOOSE i \in s : TRUE].amount + sum[s \ {CHOOSE i \in s : TRUE}]]

LEMMA LeastSubset ==
  ASSUME NEW S, IsFiniteSet(S), NEW F \in SUBSET SUBSET S, F # {}
  PROVE  \E U \in F : \A V \in F : V \subseteq U => V = U
<1>1. IsWellFoundedOn(StrictSubsetOrdering(S), FiniteSubsetsOf(S))
  BY FS_StrictSubsetOrderingWellFounded
<1>2. FiniteSubsetsOf(S) = SUBSET S
  BY FS_FiniteSubsetsOfFinite
<1>3. PICK U \in F : \A V \in F : <<V, U>> \notin StrictSubsetOrdering(S)
  BY <1>1, <1>2, WFMin
<1> QED BY <1>3 DEF StrictSubsetOrdering

\* Two such functions agree on the sets they have in common.
LEMMA SumUnique ==
  ASSUME NEW rows, NEW A, NEW B, NEW g, NEW h, IsSum(g, rows, A), IsSum(h, rows, B),
         NEW S \in SUBSET (A \cap B), IsFiniteSet(S)
  PROVE  g[S] = h[S]
<1> SUFFICES ASSUME g[S] # h[S] PROVE FALSE
  OBVIOUS
<1> DEFINE F == {U \in SUBSET S : g[U] # h[U]}
<1>0. F \in SUBSET SUBSET S /\ F # {}
  OBVIOUS
<1>1. PICK U \in F : \A V \in F : V \subseteq U => V = U
  <2> HIDE DEF F
  <2> QED BY <1>0, LeastSubset
<1>2. U # {}
  BY <1>1 DEF IsSum
<1> DEFINE x == CHOOSE i \in U : TRUE
<1>3. x \in U
  BY <1>2
<1>4. g[U] = rows[x].amount + g[U \ {x}] /\ h[U] = rows[x].amount + h[U \ {x}]
  BY <1>1, <1>2 DEF IsSum
<1>5. U \ {x} \notin F
  BY <1>1, <1>3
<1> QED BY <1>1, <1>4, <1>5

\* There is one for every finite set.
LEMMA SumExists ==
  ASSUME NEW rows, NEW S, IsFiniteSet(S)
  PROVE  \E g : IsSum(g, rows, S)
<1> SUFFICES ASSUME ~\E g : IsSum(g, rows, S) PROVE FALSE
  OBVIOUS
<1> DEFINE F == {U \in SUBSET S : ~\E g : IsSum(g, rows, U)}
<1>0. F \in SUBSET SUBSET S /\ F # {}
  OBVIOUS
<1>1. PICK U \in F : \A V \in F : V \subseteq U => V = U
  <2> HIDE DEF F
  <2> QED BY <1>0, LeastSubset
<1> DEFINE sumOn(V) == CHOOSE g : IsSum(g, rows, V)
           pick(s) == CHOOSE i \in s : TRUE
           own(s) == IF s = {} THEN 0
                     ELSE rows[pick(s)].amount + sumOn(s \ {pick(s)})[s \ {pick(s)}]
           sum == [s \in SUBSET U |-> own(s)]
<1>2. \A V \in SUBSET U : V # U => IsSum(sumOn(V), rows, V)
  BY <1>1
<1>3. \A s \in SUBSET U : s # {} => pick(s) \in s
  OBVIOUS
<1>4. ASSUME NEW s \in SUBSET U, s # U
      PROVE  sum[s] = sumOn(s)[s]
  <2>1. CASE s = {}
    <3>1. IsSum(sumOn(s), rows, s)
      BY <1>2, <1>4
    <3>2. sumOn(s)[s] = 0
      <4> HIDE DEF sumOn
      <4> QED BY <2>1, <3>1 DEF IsSum
    <3> QED BY <2>1, <3>2
  <2>2. CASE s # {}
    <3> DEFINE t == s \ {pick(s)}
    <3>1. t \in SUBSET s /\ t # U
      <4> HIDE DEF pick
      <4> QED BY <1>4
    <3>1a. IsFiniteSet(t)
      BY <3>1, FS_Subset
    <3>2. IsSum(sumOn(s), rows, s) /\ IsSum(sumOn(t), rows, t)
      BY <1>2, <1>4, <3>1
    <3>3. sumOn(s)[s] = rows[pick(s)].amount + sumOn(s)[t]
      BY <2>2, <3>2 DEF IsSum
    <3>4. sumOn(s)[t] = sumOn(t)[t]
      <4> HIDE DEF sumOn, t
      <4> QED BY <3>1, <3>1a, <3>2, SumUnique
    <3> QED BY <2>2, <3>3, <3>4
  <2> QED BY <2>1, <2>2
<1>5. IsSum(sum, rows, U)
  <2>1. ASSUME NEW s \in SUBSET U, s # {}
        PROVE  own(s) = rows[pick(s)].amount + sum[s \ {pick(s)}]
    <3>1. s \ {pick(s)} \in SUBSET U /\ s \ {pick(s)} # U
      BY <1>3, <2>1
    <3> QED BY <1>4, <2>1, <3>1
  <2>2. \A s \in SUBSET U : sum[s] = IF s = {} THEN 0
                                     ELSE rows[pick(s)].amount + sum[s \ {pick(s)}]
    <3>1. \A s \in SUBSET U : sum[s] = own(s)
      <4> HIDE DEF own
      <4> QED OBVIOUS
    <3>2. own({}) = 0
      OBVIOUS
    <3> HIDE DEF sum, own, pick
    <3> QED BY <2>1, <3>1, <3>2
  <2> HIDE DEF own
  <2>3. sum = [s \in SUBSET U |-> IF s = {} THEN 0
                                  ELSE rows[pick(s)].amount + sum[s \ {pick(s)}]]
    BY <2>2
  <2> QED BY <2>3 DEF IsSum
<1> QED BY <1>1, <1>5

\* What the sum is, and that it does not matter which items come first.
LEMMA SumUnfolds ==
  ASSUME NEW rows, NEW S, IsFiniteSet(S)
  PROVE  /\ AmountOf(rows, {}) = 0
         /\ \E g : IsSum(g, rows, S) /\ \A U \in SUBSET S : g[U] = AmountOf(rows, U)
<1>1. ASSUME NEW U, IsFiniteSet(U)
      PROVE  \E g : IsSum(g, rows, U) /\ AmountOf(rows, U) = g[U]
  <2>1. AmountOf(rows, U) = (CHOOSE g : IsSum(g, rows, U))[U]
    BY DEF AmountOf, MapThenSumSet, MapThenFoldSet, IsSum
  <2>2. \E g : IsSum(g, rows, U)
    BY <1>1, SumExists
  <2> HIDE DEF IsSum
  <2> QED BY <2>1, <2>2
<1>2. AmountOf(rows, {}) = 0
  <2>1. PICK g : IsSum(g, rows, {}) /\ AmountOf(rows, {}) = g[{}]
    BY <1>1, FS_EmptySet
  <2> QED BY <2>1 DEF IsSum
<1>3. PICK g : IsSum(g, rows, S)
  BY SumExists
<1>4. ASSUME NEW U \in SUBSET S PROVE g[U] = AmountOf(rows, U)
  <2>1. IsFiniteSet(U)
    BY FS_Subset
  <2>2. PICK h : IsSum(h, rows, U) /\ AmountOf(rows, U) = h[U]
    BY <1>1, <2>1
  <2>3. U \in SUBSET (S \cap U)
    OBVIOUS
  <2> QED BY <1>3, <2>1, <2>2, <2>3, SumUnique
<1> QED BY <1>2, <1>3, <1>4

LEMMA SumNat ==
  ASSUME NEW rows, NEW S, IsFiniteSet(S), \A i \in S : rows[i].amount \in Nat
  PROVE  AmountOf(rows, S) \in Nat
<1> SUFFICES ASSUME AmountOf(rows, S) \notin Nat PROVE FALSE
  OBVIOUS
<1>1. PICK g : IsSum(g, rows, S) /\ \A U \in SUBSET S : g[U] = AmountOf(rows, U)
  BY SumUnfolds
<1> DEFINE F == {U \in SUBSET S : g[U] \notin Nat}
<1>2. F \in SUBSET SUBSET S /\ F # {}
  BY <1>1
<1>3. PICK U \in F : \A V \in F : V \subseteq U => V = U
  <2> HIDE DEF F
  <2> QED BY <1>2, LeastSubset
<1>4. U # {}
  BY <1>1, <1>3 DEF IsSum
<1> DEFINE x == CHOOSE i \in U : TRUE
<1>5. x \in U
  BY <1>4
<1>6. g[U] = rows[x].amount + g[U \ {x}]
  BY <1>1, <1>3, <1>4 DEF IsSum
<1>7. g[U \ {x}] \in Nat
  BY <1>3, <1>5
<1> QED BY <1>3, <1>5, <1>6, <1>7

\* Any item may be taken out first.
LEMMA SumWithout ==
  ASSUME NEW rows, NEW S, IsFiniteSet(S), \A i \in S : rows[i].amount \in Nat, NEW k \in S
  PROVE  AmountOf(rows, S) = AmountOf(rows, S \ {k}) + rows[k].amount
<1> SUFFICES ASSUME AmountOf(rows, S) # AmountOf(rows, S \ {k}) + rows[k].amount
             PROVE  FALSE
  OBVIOUS
<1>1. PICK g : IsSum(g, rows, S) /\ \A U \in SUBSET S : g[U] = AmountOf(rows, U)
  BY SumUnfolds
<1>2. \A U \in SUBSET S : g[U] \in Nat
  <2> SUFFICES ASSUME NEW U \in SUBSET S PROVE g[U] \in Nat
    OBVIOUS
  <2>1. IsFiniteSet(U)
    BY FS_Subset
  <2> QED BY <1>1, <2>1, SumNat
<1> DEFINE F == {U \in SUBSET S : \E i \in U : g[U] # g[U \ {i}] + rows[i].amount}
<1>3. F \in SUBSET SUBSET S /\ F # {}
  <2>1. S \in F
    BY <1>1
  <2> QED BY <2>1
<1>4. PICK U \in F : \A V \in F : V \subseteq U => V = U
  <2> HIDE DEF F
  <2> QED BY <1>3, LeastSubset
<1>5. PICK i \in U : g[U] # g[U \ {i}] + rows[i].amount
  BY <1>4
<1> DEFINE x == CHOOSE j \in U : TRUE
<1>6. x \in U /\ g[U] = rows[x].amount + g[U \ {x}]
  BY <1>1, <1>4, <1>5 DEF IsSum
<1> HIDE DEF x
<1>7. i # x
  <2>1. g[U \ {x}] \in Nat /\ rows[x].amount \in Nat
    BY <1>2, <1>4, <1>6
  <2>2. g[U] = g[U \ {x}] + rows[x].amount
    BY <1>6, <2>1
  <2> QED BY <1>5, <2>2
<1>8. /\ g[U \ {x}] = g[(U \ {x}) \ {i}] + rows[i].amount
      /\ g[U \ {i}] = g[(U \ {i}) \ {x}] + rows[x].amount
  <2>1. U \ {x} \in SUBSET S /\ U \ {x} \notin F /\ U \ {i} \in SUBSET S /\ U \ {i} \notin F
    BY <1>4, <1>5, <1>6
  <2> QED BY <1>5, <1>6, <1>7, <2>1
<1> DEFINE W == (U \ {i}) \ {x}
<1>9. (U \ {x}) \ {i} = W /\ W \in SUBSET S
  BY <1>4
<1>10. g[W] \in Nat /\ rows[i].amount \in Nat /\ rows[x].amount \in Nat
  <2> HIDE DEF W
  <2> QED BY <1>2, <1>4, <1>5, <1>6, <1>9
<1>11. g[U \ {x}] = g[W] + rows[i].amount /\ g[U \ {i}] = g[W] + rows[x].amount
  BY <1>8, <1>9
<1> HIDE DEF W
<1> QED BY <1>5, <1>6, <1>10, <1>11

\* Only the amounts count.
LEMMA SumSame ==
  ASSUME NEW rows, NEW rows2, NEW S, IsFiniteSet(S),
         \A i \in S : rows[i].amount = rows2[i].amount
  PROVE  AmountOf(rows, S) = AmountOf(rows2, S)
<1> SUFFICES ASSUME AmountOf(rows, S) # AmountOf(rows2, S) PROVE FALSE
  OBVIOUS
<1>1. PICK g : IsSum(g, rows, S) /\ \A U \in SUBSET S : g[U] = AmountOf(rows, U)
  BY SumUnfolds
<1>2. PICK h : IsSum(h, rows2, S) /\ \A U \in SUBSET S : h[U] = AmountOf(rows2, U)
  BY SumUnfolds
<1> DEFINE F == {U \in SUBSET S : g[U] # h[U]}
<1>3. F \in SUBSET SUBSET S /\ F # {}
  BY <1>1, <1>2
<1>4. PICK U \in F : \A V \in F : V \subseteq U => V = U
  <2> HIDE DEF F
  <2> QED BY <1>3, LeastSubset
<1>5. U # {}
  BY <1>1, <1>2, <1>4 DEF IsSum
<1> DEFINE x == CHOOSE j \in U : TRUE
<1>6. x \in U
  BY <1>5
<1>7. g[U] = rows[x].amount + g[U \ {x}] /\ h[U] = rows2[x].amount + h[U \ {x}]
  BY <1>1, <1>2, <1>4, <1>5 DEF IsSum
<1>8. g[U \ {x}] = h[U \ {x}]
  BY <1>4, <1>6
<1> QED BY <1>4, <1>6, <1>7, <1>8

-----------------------------------------------------------------------------
(* What a handler has checked of its request and what no commit of another *)
(* request undoes: a row that is there stays, and so does an item.         *)

OnSupplierRow == {"approve_supplier", "update_supplier", "soft_delete_supplier"}
OnOrderRow == {"add_po_item", "remove_po_item", "update_po_status", "soft_delete_po",
               "download_purchase_order_pdf"}

\* The columns a handler writes of the row it is about.
Writes(act) ==
  CASE act = "create_supplier" -> {"approved", "active"}
    [] act = "approve_supplier" -> {"approved", "acknowledged"}
    [] act = "update_supplier" -> {"active"}
    [] act \in {"soft_delete_supplier", "soft_delete_po"} -> {"deleted"}
    [] act \in {"add_po_item", "remove_po_item"} -> {"total"}
    [] act = "update_po_status" -> {"status"}
    [] act = "download_purchase_order_pdf" -> {"path"}
    [] OTHER -> {}

Sound(r) ==
  /\ DOMAIN r.set \subseteq Writes(r.act)
  /\ r.act = "create_supplier" => r.supplier \in Suppliers /\ r.order = 0
  /\ r.act \in OnSupplierRow =>
       r.supplier \in Suppliers /\ suppliers[r.supplier] # None /\ r.order = 0
  /\ r.act = "create_purchase_order" => r.supplier \in Suppliers /\ r.order \in Numbers
  /\ r.act \in OnOrderRow =>
       r.supplier = None /\ r.order \in Numbers /\ orders[r.order] # None
  /\ r.act = "add_po_item" => r.amount \in Amounts
  /\ r.act = "remove_po_item" => r.item \in DOMAIN items[r.order]
  /\ "deleted" \in DOMAIN r.set => r.set.deleted
  /\ "status" \in DOMAIN r.set => r.set.status # "draft"
  /\ r.act = None => r.supplier = None /\ r.order = 0

\* Items are of orders there are.
ItemsOfOrders == \A n \in Numbers : orders[n] = None => items[n] = <<>>

-----------------------------------------------------------------------------
(* What holds of orders and suppliers that no two requests change at once. *)

OneRequestEach ==
  \A s, t \in Sessions :
    s # t => \A x \in (Suppliers \cup Numbers) \ crossed :
               x \notin Touched(req[s]) \/ x \notin Touched(req[t])

TotalWritten(r) == Written(orders[r.order], r.set).total

\* A request finds its order as its handler has seen it.
OrderFresh(r) ==
  LET n == r.order IN
  n \in Numbers \ crossed =>
    /\ r.act \in {"add_po_item", "remove_po_item", "soft_delete_po"} => Draft(n)
    /\ r.act = "add_po_item" => TotalWritten(r) = SumOf(n, LiveItems(n)) + r.amount
    /\ r.act = "remove_po_item" =>
         r.item \in LiveItems(n) /\ TotalWritten(r) = SumOf(n, LiveItems(n) \ {r.item})
    /\ r.act = "update_po_status" =>
         LiveOrder(n) /\ orders[n].status # "closed" /\ LiveItems(n) # {}
    /\ r.act = "download_purchase_order_pdf" => Downloadable(n)

Shown(n) == [items |-> LiveItems(n), total |-> orders[n].total]

PdfFresh(r) ==
  r.act = "download_purchase_order_pdf" /\ r.order \in Numbers \ crossed => pdfs[r.order] = Shown(r.order)

\* An order of a supplier that is there, and of a sales order that has none.
SupplierFresh(r) ==
  LET v == r.supplier IN
  v \in Suppliers \ crossed =>
    /\ r.act = "create_purchase_order" =>
         /\ LiveSupplier(v)
         /\ \A m \in OpenOrdersOf(v) \ crossed : orders[m].sales # r.sales
    /\ r.act = "soft_delete_supplier" => OpenOrdersOf(v) \subseteq crossed

IssuedHasItems ==
  \A n \in Numbers \ crossed : orders[n] # None /\ orders[n].status # "draft" =>
    LiveOrder(n) /\ LiveItems(n) # {}

PathOfIssued ==
  \A n \in Numbers \ crossed : orders[n] # None /\ orders[n].path => orders[n].status # "draft"

PurchaseInv ==
  /\ TypeOK
  /\ \A s \in Sessions : Sound(req[s])
  /\ ItemsOfOrders
  /\ OneRequestEach
  /\ \A s \in Sessions : OrderFresh(req[s]) /\ PdfFresh(req[s]) /\ SupplierFresh(req[s])
  /\ IssuedHasItems /\ PathOfIssued
  /\ TotalIsSumOfItems /\ OpenOrdersConsistent /\ PdfShowsOrder

-----------------------------------------------------------------------------
LEMMA IdleFields ==
  /\ Idle.act = None /\ Idle.supplier = None /\ Idle.order = 0
  /\ Wellformed(Idle) /\ Touched(Idle) = {}
  /\ Sound(Idle) /\ OrderFresh(Idle) /\ PdfFresh(Idle) /\ SupplierFresh(Idle)
<1>1. /\ Idle.act = None /\ Idle.supplier = None /\ Idle.order = 0 /\ Idle.sales = None
      /\ Idle.item = 0 /\ Idle.amount = 0 /\ DOMAIN Idle.set = {}
  BY DEF Idle
<1> HIDE DEF Idle
<1>2. Wellformed(Idle)
  BY <1>1, PurchaseNone DEF Wellformed, Columns
<1> QED BY <1>1, <1>2, PurchaseNone
        DEF Touched, Sound, OrderFresh, PdfFresh, SupplierFresh, OnSupplierRow, OnOrderRow,
            Handlers, Numbers

\* A row keeps its type, and the columns that are not written.
LEMMA WrittenSupplier ==
  ASSUME NEW row \in Supplier, NEW set, Columns(set)
  PROVE  /\ Written(row, set) \in Supplier
         /\ "deleted" \notin DOMAIN set => Written(row, set).deleted = row.deleted
<1>1. \A c \in {"approved", "acknowledged", "active", "deleted"} :
        c \in DOMAIN set => set[c] \in BOOLEAN
  BY DEF Columns
<1> QED BY <1>1 DEF Written, Supplier

LEMMA WrittenOrder ==
  ASSUME NEW row \in PurchaseOrder, NEW set, Columns(set)
  PROVE  /\ Written(row, set) \in PurchaseOrder
         /\ Written(row, set).supplier = row.supplier /\ Written(row, set).sales = row.sales
         /\ \A c \in {"status", "total", "deleted", "path"} :
              Written(row, set)[c] = IF c \in DOMAIN set THEN set[c] ELSE row[c]
<1>1. /\ "status" \in DOMAIN set => set.status \in PurchaseOrderStatus
      /\ "total" \in DOMAIN set => set.total \in Nat
      /\ "deleted" \in DOMAIN set => set.deleted \in BOOLEAN
      /\ "path" \in DOMAIN set => set.path \in BOOLEAN
  BY DEF Columns
<1>2. "supplier" \notin DOMAIN set /\ "sales" \notin DOMAIN set
  BY DEF Columns
<1> QED BY <1>1, <1>2 DEF Written, PurchaseOrder

LEMMA ChangedColumns ==
  ASSUME NEW row, NEW new
  PROVE  /\ DOMAIN Changed(row, new) \subseteq DOMAIN new
         /\ \A c \in DOMAIN Changed(row, new) : Changed(row, new)[c] = new[c]
         /\ \A c \in DOMAIN row \cap DOMAIN new : Written(row, Changed(row, new))[c] = new[c]
  BY DEF Changed, Written

\* The items of an order are finitely many, and their amounts numbers.
LEMMA ItemsFinite ==
  ASSUME TypeOK, NEW n \in Numbers
  PROVE  /\ Len(items[n]) \in Nat /\ items[n] \in Seq(PurchaseOrderItem)
         /\ IsFiniteSet(DOMAIN items[n]) /\ LiveItems(n) \subseteq DOMAIN items[n]
         /\ \A i \in DOMAIN items[n] : i \in Nat /\ items[n][i].amount \in Nat
         /\ \A ids : SumOf(n, ids) = AmountOf(items[n], ids)
         /\ \A ids \in SUBSET DOMAIN items[n] : IsFiniteSet(ids) /\ SumOf(n, ids) \in Nat
<1>1. items[n] \in Seq(PurchaseOrderItem) /\ Len(items[n]) \in Nat
  BY DEF TypeOK
<1>2. IsFiniteSet(DOMAIN items[n])
  <2>1. DOMAIN items[n] = 1 .. Len(items[n])
    BY <1>1, LenProperties
  <2>2. IsFiniteSet(1 .. Len(items[n]))
    BY <1>1, FS_Interval
  <2> QED BY <2>1, <2>2
<1>3. ASSUME NEW i \in DOMAIN items[n] PROVE i \in Nat /\ items[n][i].amount \in Nat
  <2>1. i \in 1 .. Len(items[n]) /\ items[n][i] \in PurchaseOrderItem
    BY <1>1, LenProperties, ElementOfSeq
  <2>2. items[n][i].amount \in Amounts
    BY <2>1 DEF PurchaseOrderItem
  <2>3. items[n][i].amount \in Nat
    BY <2>2, PurchaseConstants
  <2>4. i \in Nat
    BY <1>1, <2>1
  <2> QED BY <2>3, <2>4
<1>4. \A ids : SumOf(n, ids) = AmountOf(items[n], ids)
  BY DEF SumOf
<1>5. ASSUME NEW ids \in SUBSET DOMAIN items[n]
      PROVE  IsFiniteSet(ids) /\ AmountOf(items[n], ids) \in Nat
  <2>1. IsFiniteSet(ids)
    BY <1>2, FS_Subset
  <2> QED BY <1>3, <2>1, SumNat
<1> QED BY <1>1, <1>2, <1>3, <1>4, <1>5 DEF LiveItems

-----------------------------------------------------------------------------
(* The handlers.                                                           *)

Downloading(r) == r.act = "download_purchase_order_pdf"

\* What a handler leaves.
Prepared(s, r) ==
  /\ Pend(s, r)
  /\ Wellformed(r) /\ Sound(r) /\ OrderFresh(r) /\ SupplierFresh(r)
  /\ IF Downloading(r) THEN pdfs' = [pdfs EXCEPT ![r.order] = Shown(r.order)]
     ELSE UNCHANGED pdfs

LEMMA SupplierPrepared ==
  ASSUME PurchaseInv, NEW s \in Sessions, NEW act \in OnSupplierRow, NEW v \in Suppliers,
         LiveSupplier(v), NEW new, OnSupplier(s, act, v, new), DOMAIN new \subseteq Writes(act),
         \A c \in DOMAIN new : new[c] \in BOOLEAN,
         "deleted" \in DOMAIN new => new.deleted,
         act = "soft_delete_supplier" => OpenOrdersOf(v) = {}
  PROVE  \E r : Prepared(s, r)
<1> DEFINE set == Changed(suppliers[v], new)
           r == [Idle EXCEPT !.act = act, !.supplier = v, !.set = set]
<1>1. /\ r.act = act /\ r.supplier = v /\ r.order = 0 /\ r.sales = None
      /\ r.item = 0 /\ r.amount = 0 /\ r.set = set
  BY DEF Idle
<1>2. Pend(s, r) /\ UNCHANGED pdfs
  BY DEF OnSupplier
<1> HIDE DEF r
<1>3. DOMAIN set \subseteq DOMAIN new /\ \A c \in DOMAIN set : set[c] = new[c]
  BY ChangedColumns
<1> HIDE DEF set
<1>4. DOMAIN set \subseteq {"approved", "acknowledged", "active", "deleted"} /\ Columns(set)
  BY <1>3 DEF Columns, Writes, OnSupplierRow
<1>5. act \in Handlers /\ ~Downloading(r) /\ 0 \notin Numbers
  BY <1>1 DEF Handlers, OnSupplierRow, Downloading, Numbers
<1>6. Wellformed(r)
  BY <1>1, <1>4, <1>5, PurchaseNone DEF Wellformed
<1>7. Sound(r)
  BY <1>1, <1>3, <1>4, <1>5, PurchaseNone DEF Sound, OnSupplierRow, OnOrderRow, LiveSupplier
<1>8. OrderFresh(r) /\ SupplierFresh(r)
  BY <1>1, <1>5 DEF OrderFresh, SupplierFresh, OnSupplierRow
<1> QED BY <1>2, <1>5, <1>6, <1>7, <1>8 DEF Prepared

\* A request about a purchase order's row.
OrderRequest(r, act, n, i, a, set) ==
  /\ r.act = act /\ r.supplier = None /\ r.order = n /\ r.sales = None
  /\ r.item = i /\ r.amount = a /\ r.set = set

LEMMA OrderPrepared ==
  ASSUME PurchaseInv, NEW s \in Sessions, NEW act \in OnOrderRow, NEW n \in Numbers, LiveOrder(n),
         NEW i \in Nat, NEW a \in Nat, NEW set, Columns(set), NEW r, OrderRequest(r, act, n, i, a, set), Pend(s, r),
         IF act = "download_purchase_order_pdf" THEN pdfs' = [pdfs EXCEPT ![n] = Shown(n)]
         ELSE UNCHANGED pdfs,
         DOMAIN set \subseteq Writes(act),
         "deleted" \in DOMAIN set => set.deleted,
         "status" \in DOMAIN set => set.status # "draft",
         act \in {"add_po_item", "remove_po_item", "soft_delete_po"} => Draft(n),
         act = "add_po_item" =>
           a \in Amounts /\ Written(orders[n], set).total = SumOf(n, LiveItems(n)) + a,
         act = "remove_po_item" =>
           i \in LiveItems(n) /\ Written(orders[n], set).total = SumOf(n, LiveItems(n) \ {i}),
         act = "update_po_status" =>
           orders[n].status # "closed" /\ (n \notin crossed => LiveItems(n) # {}),
         act = "download_purchase_order_pdf" => Downloadable(n)
  PROVE  Prepared(s, r)
<1>1. /\ r.act = act /\ r.supplier = None /\ r.order = n /\ r.sales = None
      /\ r.item = i /\ r.amount = a /\ r.set = set
  BY DEF OrderRequest
<1>2. Pend(s, r)
  OBVIOUS
<1>3. act \in Handlers /\ act # None
  BY PurchaseNone DEF Handlers, OnOrderRow
<1>4. Wellformed(r)
  BY <1>1, <1>3, PurchaseNone DEF Wellformed
<1>5. Sound(r)
  BY <1>1, <1>3, ItemsFinite DEF Sound, OnSupplierRow, OnOrderRow, LiveOrder, PurchaseInv
<1>6. OrderFresh(r)
  BY <1>1 DEF OrderFresh, TotalWritten
<1>7. SupplierFresh(r)
  BY <1>1, PurchaseNone DEF SupplierFresh
<1> QED BY <1>1, <1>2, <1>4, <1>5, <1>6, <1>7 DEF Prepared, Downloading

LEMMA CreationsPrepared ==
  ASSUME PurchaseInv, NEW s \in Sessions, CreateSupplier(s) \/ CreatePurchaseOrder(s)
  PROVE  \E r : Prepared(s, r)
<1> USE DEF Downloading
<1>1. CASE CreateSupplier(s)
  <2>1. PICK v \in Suppliers, approved \in BOOLEAN, active \in BOOLEAN :
          /\ Pend(s, [Idle EXCEPT !.act = "create_supplier", !.supplier = v,
                                  !.set = [approved |-> approved, active |-> active]])
          /\ UNCHANGED pdfs
    BY <1>1 DEF CreateSupplier
  <2> DEFINE set == [approved |-> approved, active |-> active]
             r == [Idle EXCEPT !.act = "create_supplier", !.supplier = v, !.set = set]
  <2>2. /\ r.act = "create_supplier" /\ r.supplier = v /\ r.order = 0 /\ r.sales = None
        /\ r.item = 0 /\ r.amount = 0 /\ r.set = set
    BY DEF Idle
  <2>3. Pend(s, r)
    BY <2>1
  <2> HIDE DEF r
  <2>4. DOMAIN set = {"approved", "active"} /\ Columns(set)
    BY DEF Columns
  <2> HIDE DEF set
  <2>5. Wellformed(r)
    BY <2>2, <2>4, PurchaseNone DEF Wellformed, Handlers
  <2>6. Sound(r)
    BY <2>2, <2>4, PurchaseNone DEF Sound, OnSupplierRow, OnOrderRow, Writes, Handlers
  <2>7. OrderFresh(r) /\ SupplierFresh(r)
    BY <2>2 DEF OrderFresh, SupplierFresh, Numbers
  <2> QED BY <2>1, <2>2, <2>3, <2>5, <2>6, <2>7 DEF Prepared
<1>2. CASE CreatePurchaseOrder(s)
  <2> DEFINE n == NextNumber({m \in Numbers : orders[m] # None})
  <2>1. PICK v \in Suppliers, so \in SalesOrders :
          /\ LiveSupplier(v)
          /\ \A m \in OpenOrdersOf(v) : orders[m].sales # so
          /\ n \in Numbers
          /\ Pend(s, [Idle EXCEPT !.act = "create_purchase_order", !.supplier = v,
                                  !.sales = so, !.order = n])
          /\ UNCHANGED pdfs
    BY <1>2 DEF CreatePurchaseOrder
  <2> HIDE DEF n
  <2> DEFINE r == [Idle EXCEPT !.act = "create_purchase_order", !.supplier = v,
                               !.sales = so, !.order = n]
  <2>2. /\ r.act = "create_purchase_order" /\ r.supplier = v /\ r.order = n /\ r.sales = so
        /\ r.item = 0 /\ r.amount = 0 /\ DOMAIN r.set = {}
    BY DEF Idle
  <2>3. Pend(s, r)
    BY <2>1
  <2> HIDE DEF r
  <2>4. Wellformed(r)
    BY <2>1, <2>2, PurchaseNone DEF Wellformed, Handlers, Columns
  <2>5. Sound(r)
    BY <2>1, <2>2, PurchaseNone DEF Sound, OnSupplierRow, OnOrderRow, Handlers
  <2>6. OrderFresh(r)
    BY <2>2 DEF OrderFresh
  <2>7. SupplierFresh(r)
    BY <2>1, <2>2 DEF SupplierFresh
  <2> QED BY <2>1, <2>2, <2>3, <2>4, <2>5, <2>6, <2>7 DEF Prepared
<1> QED BY <1>1, <1>2

\* The total that a handler of items writes.
LEMMA TotalPrepared ==
  ASSUME PurchaseInv, NEW n \in Numbers, LiveOrder(n), NEW a \in Nat, NEW removed
  PROVE  LET set == Changed(orders[n], [total |-> TotalSeen(n, a, removed)]) IN
         /\ Columns(set) /\ DOMAIN set \subseteq {"total"}
         /\ Written(orders[n], set).total = SumOf(n, LiveItems(n) \ removed) + a
<1> DEFINE new == [total |-> TotalSeen(n, a, removed)]
           set == Changed(orders[n], new)
<1>1. TotalSeen(n, a, removed) = SumOf(n, LiveItems(n) \ removed) + a
  BY DEF TotalSeen
<1>2. TotalSeen(n, a, removed) \in Nat
  <2>1. SumOf(n, LiveItems(n) \ removed) \in Nat
    BY ItemsFinite DEF PurchaseInv
  <2> QED BY <1>1, <2>1
<1>3. DOMAIN new = {"total"} /\ new["total"] = TotalSeen(n, a, removed)
  OBVIOUS
<1>4. orders[n] \in PurchaseOrder
  BY DEF PurchaseInv, TypeOK, LiveOrder
<1>5. "total" \in DOMAIN orders[n]
  BY <1>4 DEF PurchaseOrder
<1> HIDE DEF new
<1>6. /\ DOMAIN set \subseteq DOMAIN new /\ \A c \in DOMAIN set : set[c] = new[c]
      /\ Written(orders[n], set)["total"] = new["total"]
  BY <1>3, <1>5, ChangedColumns
<1> HIDE DEF set
<1>7. Columns(set)
  BY <1>2, <1>3, <1>6 DEF Columns
<1>8. QED
  BY <1>1, <1>3, <1>6, <1>7 DEF new, set

LEMMA HandlePrepared ==
  ASSUME PurchaseInv, NEW s \in Sessions, Handle(s)
  PROVE  \E r : Prepared(s, r)
<1>1. CASE CreateSupplier(s) \/ CreatePurchaseOrder(s)
  BY <1>1, CreationsPrepared
<1>2. CASE ApproveSupplier(s)
  <2>1. PICK v \in Suppliers :
          /\ LiveSupplier(v)
          /\ \/ OnSupplier(s, "approve_supplier", v, [approved |-> TRUE, acknowledged |-> TRUE])
             \/ OnSupplier(s, "approve_supplier", v, [approved |-> FALSE])
    BY <1>2 DEF ApproveSupplier
  <2>2. CASE OnSupplier(s, "approve_supplier", v, [approved |-> TRUE, acknowledged |-> TRUE])
    <3> DEFINE new == [approved |-> TRUE, acknowledged |-> TRUE]
    <3>1. DOMAIN new = {"approved", "acknowledged"} /\ \A c \in DOMAIN new : new[c] = TRUE
      OBVIOUS
    <3>2. OnSupplier(s, "approve_supplier", v, new)
      BY <2>2
    <3> HIDE DEF new
    <3> QED BY <2>1, <3>1, <3>2, SupplierPrepared DEF OnSupplierRow, Writes
  <2>3. CASE OnSupplier(s, "approve_supplier", v, [approved |-> FALSE])
    <3> DEFINE new == [approved |-> FALSE]
    <3>1. DOMAIN new = {"approved"} /\ \A c \in DOMAIN new : new[c] = FALSE
      OBVIOUS
    <3>2. OnSupplier(s, "approve_supplier", v, new)
      BY <2>3
    <3> HIDE DEF new
    <3> QED BY <2>1, <3>1, <3>2, SupplierPrepared DEF OnSupplierRow, Writes
  <2> QED BY <2>1, <2>2, <2>3
<1>3. CASE UpdateSupplier(s)
  <2>1. PICK v \in Suppliers, active \in BOOLEAN :
          LiveSupplier(v) /\ OnSupplier(s, "update_supplier", v, [active |-> active])
    BY <1>3 DEF UpdateSupplier
  <2> DEFINE new == [active |-> active]
  <2>2. DOMAIN new = {"active"} /\ \A c \in DOMAIN new : new[c] \in BOOLEAN
    OBVIOUS
  <2>3. OnSupplier(s, "update_supplier", v, new)
    BY <2>1
  <2> HIDE DEF new
  <2> QED BY <2>1, <2>2, <2>3, SupplierPrepared DEF OnSupplierRow, Writes
<1>4. CASE SoftDeleteSupplier(s)
  <2>1. PICK v \in Suppliers :
          /\ LiveSupplier(v) /\ OpenOrdersOf(v) = {}
          /\ OnSupplier(s, "soft_delete_supplier", v, [deleted |-> TRUE])
    BY <1>4 DEF SoftDeleteSupplier
  <2> DEFINE new == [deleted |-> TRUE]
  <2>2. DOMAIN new = {"deleted"} /\ \A c \in DOMAIN new : new[c] = TRUE
    OBVIOUS
  <2>3. OnSupplier(s, "soft_delete_supplier", v, new)
    BY <2>1
  <2> HIDE DEF new
  <2> QED BY <2>1, <2>2, <2>3, SupplierPrepared DEF OnSupplierRow, Writes
<1>5. CASE AddPoItem(s)
  <2>1. PICK n \in Numbers, a \in Amounts :
          /\ Draft(n)
          /\ OnOrder(s, [Idle EXCEPT !.act = "add_po_item", !.amount = a], n,
                     [total |-> TotalSeen(n, a, {})])
    BY <1>5 DEF AddPoItem
  <2> DEFINE set == Changed(orders[n], [total |-> TotalSeen(n, a, {})])
  <2>2. a \in Nat /\ LiveOrder(n)
    BY <2>1, PurchaseConstants DEF Draft
  <2> DEFINE r == [[Idle EXCEPT !.act = "add_po_item", !.amount = a] EXCEPT !.order = n, !.set = set]
  <2>3. OrderRequest(r, "add_po_item", n, 0, a, set)
    BY DEF OrderRequest, Idle
  <2>4. Pend(s, r) /\ UNCHANGED pdfs
    BY <2>1 DEF OnOrder
  <2> HIDE DEF r
  <2>5. /\ Columns(set) /\ DOMAIN set \subseteq {"total"}
        /\ Written(orders[n], set).total = SumOf(n, LiveItems(n) \ {}) + a
    BY <2>2, TotalPrepared
  <2>6. LiveItems(n) \ {} = LiveItems(n)
    OBVIOUS
  <2> HIDE DEF set
  <2> QED BY <2>1, <2>2, <2>3, <2>4, <2>5, <2>6, OrderPrepared DEF OnOrderRow, Writes
<1>6. CASE RemovePoItem(s)
  <2>0. PICK n \in Numbers : /\ Draft(n)
                             /\ \E i \in LiveItems(n) :
                                  OnOrder(s, [Idle EXCEPT !.act = "remove_po_item", !.item = i], n,
                                          [total |-> TotalSeen(n, 0, {i})])
    BY <1>6 DEF RemovePoItem
  <2>1. PICK i \in LiveItems(n) :
          OnOrder(s, [Idle EXCEPT !.act = "remove_po_item", !.item = i], n,
                  [total |-> TotalSeen(n, 0, {i})])
    BY <2>0
  <2> DEFINE set == Changed(orders[n], [total |-> TotalSeen(n, 0, {i})])
  <2>2. i \in Nat /\ LiveOrder(n)
    BY <2>0, ItemsFinite DEF Draft, PurchaseInv
  <2> DEFINE r == [[Idle EXCEPT !.act = "remove_po_item", !.item = i] EXCEPT !.order = n, !.set = set]
  <2>3. OrderRequest(r, "remove_po_item", n, i, 0, set)
    BY DEF OrderRequest, Idle
  <2>4. Pend(s, r) /\ UNCHANGED pdfs
    BY <2>1 DEF OnOrder
  <2> HIDE DEF r
  <2>5. /\ Columns(set) /\ DOMAIN set \subseteq {"total"}
        /\ Written(orders[n], set).total = SumOf(n, LiveItems(n) \ {i}) + 0
    BY <2>2, TotalPrepared
  <2>6. SumOf(n, LiveItems(n) \ {i}) \in Nat
    BY ItemsFinite DEF PurchaseInv
  <2> HIDE DEF set
  <2>7. Written(orders[n], set).total = SumOf(n, LiveItems(n) \ {i})
    BY <2>5, <2>6
  <2> QED BY <2>0, <2>2, <2>3, <2>4, <2>5, <2>7, OrderPrepared DEF OnOrderRow, Writes
<1>7. CASE UpdatePoStatus(s)
  <2>1. PICK n \in Numbers, new \in PurchaseOrderStatus :
          /\ LiveOrder(n)
          /\ \/ orders[n].status = "draft" /\ new = "issued" /\ LiveItems(n) # {}
             \/ orders[n].status = "issued" /\ new = "closed"
          /\ OnOrder(s, [Idle EXCEPT !.act = "update_po_status"], n, [status |-> new])
    BY <1>7 DEF UpdatePoStatus
  <2> DEFINE row == [status |-> new]
             set == Changed(orders[n], row)
  <2>2. DOMAIN row = {"status"} /\ row["status"] = new
    OBVIOUS
  <2> DEFINE r == [[Idle EXCEPT !.act = "update_po_status"] EXCEPT !.order = n, !.set = set]
  <2>3. OrderRequest(r, "update_po_status", n, 0, 0, set)
    BY DEF OrderRequest, Idle
  <2>4. Pend(s, r) /\ UNCHANGED pdfs
    BY <2>1 DEF OnOrder
  <2> HIDE DEF r
  <2> HIDE DEF row
  <2>5. DOMAIN set \subseteq {"status"} /\ \A c \in DOMAIN set : set[c] = new
    BY <2>2, ChangedColumns
  <2> HIDE DEF set
  <2>6. Columns(set)
    BY <2>5 DEF Columns
  <2>7. n \notin crossed /\ orders[n].status = "issued" => LiveItems(n) # {}
    BY <2>1 DEF PurchaseInv, IssuedHasItems, LiveOrder
  <2> QED
    BY <2>1, <2>3, <2>4, <2>5, <2>6, <2>7, OrderPrepared DEF OnOrderRow, Writes, PurchaseOrderStatus
<1>8. CASE SoftDeletePo(s)
  <2>1. PICK n \in Numbers :
          Draft(n) /\ OnOrder(s, [Idle EXCEPT !.act = "soft_delete_po"], n, [deleted |-> TRUE])
    BY <1>8 DEF SoftDeletePo
  <2> DEFINE row == [deleted |-> TRUE]
             set == Changed(orders[n], row)
  <2>2. DOMAIN row = {"deleted"} /\ row["deleted"] = TRUE
    OBVIOUS
  <2> DEFINE r == [[Idle EXCEPT !.act = "soft_delete_po"] EXCEPT !.order = n, !.set = set]
  <2>3. OrderRequest(r, "soft_delete_po", n, 0, 0, set)
    BY DEF OrderRequest, Idle
  <2>4. Pend(s, r) /\ UNCHANGED pdfs
    BY <2>1 DEF OnOrder
  <2> HIDE DEF r
  <2> HIDE DEF row
  <2>5. DOMAIN set \subseteq {"deleted"} /\ \A c \in DOMAIN set : set[c] = TRUE
    BY <2>2, ChangedColumns
  <2> HIDE DEF set
  <2>6. Columns(set)
    BY <2>5 DEF Columns
  <2> QED BY <2>1, <2>3, <2>4, <2>5, <2>6, OrderPrepared DEF OnOrderRow, Writes, Draft
<1>9. CASE DownloadPurchaseOrderPdf(s)
  <2>1. PICK n \in Numbers :
          /\ Downloadable(n)
          /\ Pend(s, [Idle EXCEPT !.act = "download_purchase_order_pdf", !.order = n,
                                  !.set = [path |-> TRUE]])
          /\ pdfs' = [pdfs EXCEPT ![n] = Shown(n)]
    BY <1>9 DEF DownloadPurchaseOrderPdf, Shown
  <2> DEFINE set == [path |-> TRUE]
  <2>2. DOMAIN set = {"path"} /\ set["path"] = TRUE
    OBVIOUS
  <2> DEFINE r == [Idle EXCEPT !.act = "download_purchase_order_pdf", !.order = n, !.set = set]
  <2>3. OrderRequest(r, "download_purchase_order_pdf", n, 0, 0, set)
    BY DEF OrderRequest, Idle
  <2>4. Pend(s, r)
    BY <2>1
  <2> HIDE DEF r
  <2> HIDE DEF set
  <2>5. Columns(set)
    BY <2>2 DEF Columns
  <2> QED BY <2>1, <2>2, <2>3, <2>4, <2>5, OrderPrepared DEF OnOrderRow, Writes, Downloadable
<1> QED BY <1>1, <1>2, <1>3, <1>4, <1>5, <1>6, <1>7, <1>8, <1>9 DEF Handle

-----------------------------------------------------------------------------
(* What an added and a removed item do to the sum.                         *)

LiveOf(rows) == {i \in DOMAIN rows : ~rows[i].deleted}

LEMMA RowsFinite ==
  ASSUME NEW rows \in Seq(PurchaseOrderItem)
  PROVE  /\ IsFiniteSet(LiveOf(rows)) /\ Len(rows) \in Nat /\ DOMAIN rows = 1 .. Len(rows)
         /\ \A i \in DOMAIN rows : rows[i].amount \in Nat /\ rows[i] \in PurchaseOrderItem
<1>1. Len(rows) \in Nat /\ DOMAIN rows = 1 .. Len(rows)
  BY LenProperties
<1>2. IsFiniteSet(1 .. Len(rows))
  BY <1>1, FS_Interval
<1>3. IsFiniteSet(LiveOf(rows))
  BY <1>1, <1>2, FS_Subset DEF LiveOf
<1>4. ASSUME NEW i \in DOMAIN rows PROVE rows[i].amount \in Nat /\ rows[i] \in PurchaseOrderItem
  <2>1. rows[i] \in PurchaseOrderItem
    BY <1>1, ElementOfSeq
  <2>2. rows[i].amount \in Amounts
    BY <2>1 DEF PurchaseOrderItem
  <2> QED BY <2>1, <2>2, PurchaseConstants
<1> QED BY <1>1, <1>3, <1>4

LEMMA SumAppended ==
  ASSUME NEW rows \in Seq(PurchaseOrderItem), NEW a \in Amounts
  PROVE  LET new == Append(rows, [amount |-> a, deleted |-> FALSE]) IN
         /\ new \in Seq(PurchaseOrderItem) /\ DOMAIN rows \subseteq DOMAIN new
         /\ AmountOf(new, LiveOf(new)) = AmountOf(rows, LiveOf(rows)) + a
<1> DEFINE item == [amount |-> a, deleted |-> FALSE]
           new == Append(rows, item)
           k == Len(rows) + 1
<1>1. item \in PurchaseOrderItem /\ item.amount = a /\ ~item.deleted
  BY DEF PurchaseOrderItem
<1> HIDE DEF item
<1>2. Len(rows) \in Nat /\ DOMAIN rows = 1 .. Len(rows)
  BY RowsFinite
<1>3. /\ new \in Seq(PurchaseOrderItem) /\ Len(new) = k /\ new[k] = item
      /\ \A i \in 1 .. Len(rows) : new[i] = rows[i]
  BY <1>1, AppendProperties
<1> HIDE DEF new
<1>4. DOMAIN new = 1 .. k
  BY <1>3, RowsFinite
<1>5. LiveOf(new) = LiveOf(rows) \cup {k} /\ k \notin LiveOf(rows)
  BY <1>1, <1>2, <1>3, <1>4 DEF LiveOf
<1>6. AmountOf(new, LiveOf(new)) = AmountOf(new, LiveOf(new) \ {k}) + new[k].amount
  <2>1. IsFiniteSet(LiveOf(new)) /\ \A i \in LiveOf(new) : new[i].amount \in Nat
    BY <1>3, RowsFinite DEF LiveOf
  <2> QED BY <1>5, <2>1, SumWithout
<1>7. LiveOf(new) \ {k} = LiveOf(rows)
  BY <1>5
<1>8. AmountOf(new, LiveOf(rows)) = AmountOf(rows, LiveOf(rows))
  <2>1. IsFiniteSet(LiveOf(rows)) /\ \A i \in LiveOf(rows) : new[i].amount = rows[i].amount
    BY <1>2, <1>3, RowsFinite DEF LiveOf
  <2> QED BY <2>1, SumSame
<1>9. DOMAIN rows \subseteq DOMAIN new
  BY <1>2, <1>4
<1> QED BY <1>1, <1>3, <1>6, <1>7, <1>8, <1>9 DEF new, item

LEMMA SumRemoved ==
  ASSUME NEW rows \in Seq(PurchaseOrderItem), NEW k \in DOMAIN rows
  PROVE  LET new == [rows EXCEPT ![k].deleted = TRUE] IN
         /\ new \in Seq(PurchaseOrderItem) /\ DOMAIN new = DOMAIN rows
         /\ AmountOf(new, LiveOf(new)) = AmountOf(rows, LiveOf(rows) \ {k})
<1> DEFINE item == [rows[k] EXCEPT !.deleted = TRUE]
           new == [rows EXCEPT ![k] = item]
<1>1. rows[k] \in PurchaseOrderItem
  BY RowsFinite
<1>2. item \in PurchaseOrderItem /\ item.amount = rows[k].amount /\ item.deleted
  BY <1>1 DEF PurchaseOrderItem
<1> HIDE DEF item
<1>3. /\ new \in Seq(PurchaseOrderItem) /\ DOMAIN new = DOMAIN rows
      /\ \A i \in DOMAIN rows : new[i] = IF i = k THEN item ELSE rows[i]
  <2>1. Len(rows) \in Nat /\ DOMAIN rows = 1 .. Len(rows)
    BY RowsFinite
  <2> QED BY <1>2, <2>1, ExceptSeq
<1>4. new = [rows EXCEPT ![k].deleted = TRUE]
  BY DEF item
<1> HIDE DEF new
<1>5. LiveOf(new) = LiveOf(rows) \ {k}
  BY <1>2, <1>3 DEF LiveOf
<1>6. AmountOf(new, LiveOf(rows) \ {k}) = AmountOf(rows, LiveOf(rows) \ {k})
  <2>1. IsFiniteSet(LiveOf(rows) \ {k})
    BY RowsFinite, FS_RemoveElement
  <2>2. \A i \in LiveOf(rows) \ {k} : new[i].amount = rows[i].amount
    BY <1>3 DEF LiveOf
  <2> QED BY <2>1, <2>2, SumSame
<1> QED BY <1>3, <1>4, <1>5, <1>6

-----------------------------------------------------------------------------
(* The same of the rows themselves, old or new.                            *)

OpenRow(row) == row # None /\ ~row.deleted /\ row.status # "closed"

RowShown(row, rows) == [items |-> LiveOf(rows), total |-> row.total]

\* A request fits an order's row and its items.
Fits(r, row, rows) ==
  /\ r.act \in {"add_po_item", "remove_po_item", "soft_delete_po"} =>
       row # None /\ ~row.deleted /\ row.status = "draft"
  /\ r.act = "add_po_item" =>
       Written(row, r.set).total = AmountOf(rows, LiveOf(rows)) + r.amount
  /\ r.act = "remove_po_item" =>
       /\ r.item \in LiveOf(rows)
       /\ Written(row, r.set).total = AmountOf(rows, LiveOf(rows) \ {r.item})
  /\ r.act = "update_po_status" =>
       row # None /\ ~row.deleted /\ row.status # "closed" /\ LiveOf(rows) # {}
  /\ Downloading(r) => row # None /\ ~row.deleted /\ row.status \in {"issued", "closed"}

PdfFits(r, row, rows, pdf) == Downloading(r) => pdf = RowShown(row, rows)

Good(row, rows, pdf) ==
  row # None =>
    /\ row.status # "draft" => ~row.deleted /\ LiveOf(rows) # {}
    /\ row.total = AmountOf(rows, LiveOf(rows))
    /\ row.path => row.status # "draft" /\ pdf = RowShown(row, rows)

OrdersGood == \A n \in Numbers \ crossed : Good(orders[n], items[n], pdfs[n])

RequestFits(s) ==
  LET n == req[s].order IN
  n \in Numbers \ crossed =>
    Fits(req[s], orders[n], items[n]) /\ PdfFits(req[s], orders[n], items[n], pdfs[n])

LEMMA LiveSum ==
  /\ \A n : LiveItems(n) = LiveOf(items[n]) /\ LiveItems(n)' = LiveOf(items'[n])
  /\ \A n, ids : SumOf(n, ids) = AmountOf(items[n], ids)
  /\ \A n : SumOf(n, LiveItems(n))' = AmountOf(items'[n], LiveOf(items'[n]))
  /\ \A n, i : SumOf(n, LiveItems(n) \ {i})' = AmountOf(items'[n], LiveOf(items'[n]) \ {i})
<1>1. \A n : LiveItems(n) = LiveOf(items[n])
  BY DEF LiveItems, LiveOf
<1>2. \A n : LiveItems(n)' = LiveOf(items'[n])
  BY DEF LiveItems, LiveOf
<1>3. \A n, ids : SumOf(n, ids) = AmountOf(items[n], ids)
  BY DEF SumOf
<1>4. \A n : SumOf(n, LiveItems(n))' = AmountOf(items'[n], LiveOf(items'[n]))
  BY DEF SumOf, LiveItems, LiveOf
<1>5. \A n, i : SumOf(n, LiveItems(n) \ {i})' = AmountOf(items'[n], LiveOf(items'[n]) \ {i})
  BY DEF SumOf, LiveItems, LiveOf
<1> QED BY <1>1, <1>2, <1>3, <1>4, <1>5

LEMMA OrdersAsRows ==
  /\ OrdersGood <=> IssuedHasItems /\ PathOfIssued /\ TotalIsSumOfItems /\ PdfShowsOrder
  /\ OrdersGood' <=> IssuedHasItems' /\ PathOfIssued' /\ TotalIsSumOfItems' /\ PdfShowsOrder'
<1>1. OrdersGood <=> IssuedHasItems /\ PathOfIssued /\ TotalIsSumOfItems /\ PdfShowsOrder
  BY LiveSum DEF OrdersGood, Good, IssuedHasItems, PathOfIssued, TotalIsSumOfItems,
                 PdfShowsOrder, RowShown, LiveOrder
<1>2. OrdersGood' <=> IssuedHasItems' /\ PathOfIssued' /\ TotalIsSumOfItems' /\ PdfShowsOrder'
  BY LiveSum DEF OrdersGood, Good, IssuedHasItems, PathOfIssued, TotalIsSumOfItems,
                 PdfShowsOrder, RowShown, LiveOrder
<1> QED BY <1>1, <1>2

LEMMA RequestsAsRows ==
  ASSUME NEW s
  PROVE  /\ RequestFits(s) <=> OrderFresh(req[s]) /\ PdfFresh(req[s])
         /\ RequestFits(s)' <=> OrderFresh(req[s])' /\ PdfFresh(req[s])'
<1>1. RequestFits(s) <=> OrderFresh(req[s]) /\ PdfFresh(req[s])
  BY LiveSum DEF RequestFits, OrderFresh, PdfFresh, Fits, PdfFits, TotalWritten, Downloading,
                 Draft, Downloadable, LiveOrder, Shown, RowShown
<1>2. RequestFits(s)' <=> OrderFresh(req[s])' /\ PdfFresh(req[s])'
  BY LiveSum DEF RequestFits, OrderFresh, PdfFresh, Fits, PdfFits, TotalWritten, Downloading,
                 Draft, Downloadable, LiveOrder, Shown, RowShown
<1> QED BY <1>1, <1>2

-----------------------------------------------------------------------------
(* What the commit of a request does to the row and the items of its order *)
(* and to the other requests on it.                                        *)

RowsAfter(r, rows) ==
  CASE r.act = "add_po_item" -> Append(rows, [amount |-> r.amount, deleted |-> FALSE])
    [] r.act = "remove_po_item" -> [rows EXCEPT ![r.item].deleted = TRUE]
    [] OTHER -> rows

\* A request on a row of its order.
OnRow(r, rows) ==
  /\ r.act \in OnOrderRow /\ Columns(r.set) /\ DOMAIN r.set \subseteq Writes(r.act)
  /\ r.act = "add_po_item" => r.amount \in Amounts
  /\ r.act = "remove_po_item" => r.item \in DOMAIN rows
  /\ "deleted" \in DOMAIN r.set => r.set.deleted
  /\ "status" \in DOMAIN r.set => r.set.status # "draft"

LEMMA RowsWritten ==
  ASSUME NEW rows \in Seq(PurchaseOrderItem), NEW r, OnRow(r, rows)
  PROVE  /\ RowsAfter(r, rows) \in Seq(PurchaseOrderItem)
         /\ DOMAIN rows \subseteq DOMAIN RowsAfter(r, rows)
         /\ r.act \notin {"add_po_item", "remove_po_item"} => RowsAfter(r, rows) = rows
<1> DEFINE rows2 == RowsAfter(r, rows)
<1>1. CASE r.act = "add_po_item"
  <2>1. rows2 = Append(rows, [amount |-> r.amount, deleted |-> FALSE])
    BY <1>1 DEF RowsAfter
  <2> QED BY <1>1, <2>1, SumAppended DEF OnRow
<1>2. CASE r.act = "remove_po_item"
  <2>1. rows2 = [rows EXCEPT ![r.item].deleted = TRUE]
    BY <1>2 DEF RowsAfter
  <2> QED BY <1>2, <2>1, SumRemoved DEF OnRow
<1>3. CASE r.act \notin {"add_po_item", "remove_po_item"}
  BY <1>3 DEF RowsAfter
<1> QED BY <1>1, <1>2, <1>3

\* The columns of its order a request leaves as they are.
LEMMA OrderColumns ==
  ASSUME NEW row \in PurchaseOrder, NEW rows, NEW r, OnRow(r, rows)
  PROVE  LET new == Written(row, r.set) IN
         /\ new \in PurchaseOrder /\ new # None /\ row # None
         /\ new.supplier = row.supplier /\ new.sales = row.sales
         /\ new.status # row.status => r.act = "update_po_status" /\ new.status # "draft"
         /\ new.total # row.total => r.act \in {"add_po_item", "remove_po_item"}
         /\ new.deleted # row.deleted => r.act = "soft_delete_po"
         /\ row.deleted => new.deleted
         /\ new.path # row.path => Downloading(r)
<1> DEFINE new == Written(row, r.set)
<1>1. /\ new \in PurchaseOrder /\ new.supplier = row.supplier /\ new.sales = row.sales
      /\ \A c \in {"status", "total", "deleted", "path"} :
           new[c] = IF c \in DOMAIN r.set THEN r.set[c] ELSE row[c]
  BY WrittenOrder DEF OnRow
<1>2. new # None /\ row # None
  BY <1>1, PurchaseNone
<1> HIDE DEF new
<1>3. new.status # row.status => "status" \in DOMAIN r.set /\ new.status = r.set.status
  BY <1>1
<1>4. new.total # row.total => "total" \in DOMAIN r.set
  BY <1>1
<1>5. new.deleted # row.deleted => "deleted" \in DOMAIN r.set
  BY <1>1
<1>6. row.deleted => new.deleted
  BY <1>1 DEF OnRow
<1>7. new.path # row.path => "path" \in DOMAIN r.set
  BY <1>1
<1> USE DEF OnRow, OnOrderRow, Writes, Downloading
<1>8. new.status # row.status => r.act = "update_po_status" /\ new.status # "draft"
  BY <1>3
<1>9. new.total # row.total => r.act \in {"add_po_item", "remove_po_item"}
  BY <1>4
<1>10. new.deleted # row.deleted => r.act = "soft_delete_po"
  BY <1>5
<1>11. new.path # row.path => Downloading(r)
  BY <1>7
<1> QED BY <1>1, <1>2, <1>6, <1>8, <1>9, <1>10, <1>11 DEF new

\* An order stays good, and none is opened.
LEMMA OrderWritten ==
  ASSUME NEW row \in PurchaseOrder, NEW rows \in Seq(PurchaseOrderItem), NEW pdf, NEW r,
         OnRow(r, rows), Good(row, rows, pdf), Fits(r, row, rows), PdfFits(r, row, rows, pdf)
  PROVE  /\ Good(Written(row, r.set), RowsAfter(r, rows), pdf)
         /\ OpenRow(Written(row, r.set)) => OpenRow(row)
<1> DEFINE new == Written(row, r.set)
           rows2 == RowsAfter(r, rows)
<1>1. /\ new \in PurchaseOrder /\ new # None /\ row # None
      /\ new.status # row.status => r.act = "update_po_status" /\ new.status # "draft"
      /\ new.total # row.total => r.act \in {"add_po_item", "remove_po_item"}
      /\ new.deleted # row.deleted => r.act = "soft_delete_po"
      /\ row.deleted => new.deleted
      /\ new.path # row.path => Downloading(r)
  BY OrderColumns
<1>2. /\ rows2 \in Seq(PurchaseOrderItem)
      /\ r.act \notin {"add_po_item", "remove_po_item"} => rows2 = rows
  BY RowsWritten
<1>3. r.act \in {"add_po_item", "remove_po_item"} => new.total = AmountOf(rows2, LiveOf(rows2))
  <2>1. CASE r.act = "add_po_item"
    <3>1. rows2 = Append(rows, [amount |-> r.amount, deleted |-> FALSE])
      BY <2>1 DEF RowsAfter
    <3>2. AmountOf(rows2, LiveOf(rows2)) = AmountOf(rows, LiveOf(rows)) + r.amount
      BY <2>1, <3>1, SumAppended DEF OnRow
    <3> QED BY <2>1, <3>2 DEF Fits
  <2>2. CASE r.act = "remove_po_item"
    <3>1. rows2 = [rows EXCEPT ![r.item].deleted = TRUE]
      BY <2>2 DEF RowsAfter
    <3>2. AmountOf(rows2, LiveOf(rows2)) = AmountOf(rows, LiveOf(rows) \ {r.item})
      BY <2>2, <3>1, SumRemoved DEF OnRow
    <3> QED BY <2>2, <3>2 DEF Fits
  <2> QED BY <2>1, <2>2
<1> HIDE DEF new, rows2
<1>4. new.total = AmountOf(rows2, LiveOf(rows2))
  BY <1>1, <1>2, <1>3 DEF Good
<1>5. OpenRow(new) => OpenRow(row)
  BY <1>1 DEF OpenRow, Fits
<1>6. CASE r.act \in {"add_po_item", "remove_po_item", "soft_delete_po"}
  <2>1. row.status = "draft" /\ ~row.path
    BY <1>1, <1>6 DEF Fits, Good
  <2>2. new.status = "draft" /\ ~new.path
    BY <1>1, <1>6, <2>1 DEF Downloading, PurchaseOrder
  <2> QED BY <1>4, <1>5, <2>2 DEF Good, new, rows2
<1>7. CASE r.act = "update_po_status"
  <2>1. rows2 = rows /\ new.total = row.total /\ new.deleted = row.deleted /\ new.path = row.path
    BY <1>1, <1>2, <1>7 DEF Downloading
  <2>2. ~row.deleted /\ LiveOf(rows) # {}
    BY <1>7 DEF Fits
  <2>3. row.path => new.status # "draft"
    BY <1>1 DEF Good
  <2> QED BY <1>1, <1>4, <1>5, <2>1, <2>2, <2>3 DEF Good, RowShown, new, rows2
<1>8. CASE Downloading(r)
  <2>1. rows2 = rows /\ new.total = row.total /\ new.deleted = row.deleted
        /\ new.status = row.status
    BY <1>1, <1>2, <1>8 DEF Downloading
  <2>2. row.status # "draft" /\ pdf = RowShown(row, rows)
    BY <1>8 DEF Fits, PdfFits
  <2> QED BY <1>1, <1>4, <1>5, <2>1, <2>2 DEF Good, RowShown, new, rows2
<1> QED BY <1>6, <1>7, <1>8 DEF OnRow, OnOrderRow, Downloading

\* A download and another request do not disturb each other.
LEMMA OthersFit ==
  ASSUME NEW row \in PurchaseOrder, NEW rows \in Seq(PurchaseOrderItem), NEW pdf,
         NEW r, OnRow(r, rows), Fits(r, row, rows),
         NEW q, Fits(q, row, rows), PdfFits(q, row, rows, pdf), Downloading(q) \/ Downloading(r)
  PROVE  /\ Fits(q, Written(row, r.set), RowsAfter(r, rows))
         /\ PdfFits(q, Written(row, r.set), RowsAfter(r, rows), pdf)
<1> DEFINE new == Written(row, r.set)
           rows2 == RowsAfter(r, rows)
<1>1. /\ new \in PurchaseOrder /\ new # None /\ row # None
      /\ new.status # row.status => r.act = "update_po_status" /\ new.status # "draft"
      /\ new.total # row.total => r.act \in {"add_po_item", "remove_po_item"}
      /\ new.deleted # row.deleted => r.act = "soft_delete_po"
      /\ new.path # row.path => Downloading(r)
  BY OrderColumns
<1>2. r.act \notin {"add_po_item", "remove_po_item"} => rows2 = rows
  BY RowsWritten
<1>3. row.status # "draft"
  BY DEF Fits
<1>4. r.act \notin {"add_po_item", "remove_po_item", "soft_delete_po"}
      /\ q.act \notin {"add_po_item", "remove_po_item", "soft_delete_po"}
  BY <1>3 DEF Fits
<1> HIDE DEF new, rows2
<1>5. rows2 = rows /\ new.total = row.total /\ new.deleted = row.deleted
  BY <1>1, <1>2, <1>4
<1>6. CASE Downloading(q)
  <2>1. new.status \in {"issued", "closed"}
    BY <1>1, <1>3 DEF PurchaseOrder, PurchaseOrderStatus
  <2> QED BY <1>1, <1>4, <1>5, <1>6, <2>1 DEF Fits, PdfFits, RowShown, Downloading, new, rows2
<1>7. CASE ~Downloading(q)
  <2>1. new.status = row.status
    BY <1>1, <1>7 DEF Downloading
  <2> QED BY <1>1, <1>4, <1>5, <1>7, <2>1 DEF Fits, PdfFits, new, rows2
<1> QED BY <1>6, <1>7

-----------------------------------------------------------------------------
(* The steps.                                                              *)

\* The second conjunct of Next.
Crossing ==
  crossed' = crossed \cup
    {x \in Suppliers \cup Numbers :
       \E s, t \in Sessions : s # t /\ x \in Touched(req'[s]) \cap Touched(req'[t])}

LEMMA CrossedGrows ==
  ASSUME TypeOK, Crossing
  PROVE  crossed \subseteq crossed' /\ crossed' \subseteq Suppliers \cup Numbers /\ OneRequestEach'
<1>1. crossed \subseteq crossed' /\ crossed' \subseteq Suppliers \cup Numbers
  BY DEF Crossing, TypeOK
<1>2. ASSUME NEW s \in Sessions, NEW t \in Sessions, s # t,
             NEW x \in (Suppliers \cup Numbers) \ crossed'
      PROVE  x \notin Touched(req'[s]) \/ x \notin Touched(req'[t])
  BY <1>2 DEF Crossing
<1>3. OneRequestEach'
  BY <1>2 DEF OneRequestEach
<1> QED BY <1>1, <1>3

Open(n) == OpenRow(orders[n])

LEMMA OpenOrders ==
  /\ \A n : Open(n) <=> LiveOrder(n) /\ orders[n].status # "closed"
  /\ \A n : Open(n)' <=> LiveOrder(n)' /\ orders'[n].status # "closed"
  /\ \A v : OpenOrdersOf(v) = {n \in Numbers : Open(n) /\ orders[n].supplier = v}
  /\ \A v : OpenOrdersOf(v)' = {n \in Numbers : Open(n)' /\ orders'[n].supplier = v}
  /\ \A v : LiveSupplier(v) <=> suppliers[v] # None /\ ~suppliers[v].deleted
  /\ \A v : LiveSupplier(v)' <=> suppliers'[v] # None /\ ~suppliers'[v].deleted
  BY DEF Open, OpenRow, OpenOrdersOf, LiveOrder, LiveSupplier

\* Every open order was open before.
NoneOpened ==
  \A n \in Numbers \ crossed' :
    Open(n)' => /\ Open(n) /\ orders'[n].supplier = orders[n].supplier
                /\ orders'[n].sales = orders[n].sales

\* Two forms of the claims of suppliers, for two states.
LEMMA ConsistentForm ==
  /\ OpenOrdersConsistent <=>
       \A n \in Numbers \ crossed : Open(n) /\ orders[n].supplier \notin crossed =>
         /\ LiveSupplier(orders[n].supplier)
         /\ \A m \in Numbers \ crossed :
              Open(m) /\ orders[m].supplier = orders[n].supplier /\ orders[m].sales = orders[n].sales
                => m = n
  /\ OpenOrdersConsistent' <=>
       \A n \in Numbers \ crossed' : Open(n)' /\ orders'[n].supplier \notin crossed' =>
         /\ LiveSupplier(orders[n].supplier)'
         /\ \A m \in Numbers \ crossed' :
              Open(m)' /\ orders'[m].supplier = orders'[n].supplier
                /\ orders'[m].sales = orders'[n].sales => m = n
<1>1. OpenOrdersConsistent <=>
       \A n \in Numbers \ crossed : Open(n) /\ orders[n].supplier \notin crossed =>
         /\ LiveSupplier(orders[n].supplier)
         /\ \A m \in Numbers \ crossed :
              Open(m) /\ orders[m].supplier = orders[n].supplier /\ orders[m].sales = orders[n].sales
                => m = n
  BY DEF OpenOrdersConsistent, Open, OpenRow, LiveOrder
<1>2. OpenOrdersConsistent' <=>
       \A n \in Numbers \ crossed' : Open(n)' /\ orders'[n].supplier \notin crossed' =>
         /\ LiveSupplier(orders[n].supplier)'
         /\ \A m \in Numbers \ crossed' :
              Open(m)' /\ orders'[m].supplier = orders'[n].supplier
                /\ orders'[m].sales = orders'[n].sales => m = n
  BY DEF OpenOrdersConsistent, Open, OpenRow, LiveOrder
<1> QED BY <1>1, <1>2

LEMMA ConsistentKept ==
  ASSUME OpenOrdersConsistent, crossed \subseteq crossed', NoneOpened,
         \A n \in Numbers \ crossed' :
           Open(n) /\ orders[n].supplier \notin crossed' /\ LiveSupplier(orders[n].supplier) =>
             LiveSupplier(orders[n].supplier)'
  PROVE  OpenOrdersConsistent'
<1> SUFFICES ASSUME NEW n \in Numbers \ crossed', Open(n)', orders'[n].supplier \notin crossed'
             PROVE  /\ LiveSupplier(orders[n].supplier)'
                    /\ \A m \in Numbers \ crossed' :
                         Open(m)' /\ orders'[m].supplier = orders'[n].supplier
                           /\ orders'[m].sales = orders'[n].sales => m = n
  BY ConsistentForm
<1>1. /\ Open(n) /\ orders'[n].supplier = orders[n].supplier
      /\ orders'[n].sales = orders[n].sales
  BY DEF NoneOpened
<1>2. n \notin crossed /\ orders[n].supplier \notin crossed
  BY <1>1
<1>3. /\ LiveSupplier(orders[n].supplier)
      /\ \A m \in Numbers \ crossed :
           Open(m) /\ orders[m].supplier = orders[n].supplier /\ orders[m].sales = orders[n].sales
             => m = n
  BY <1>1, <1>2, ConsistentForm
<1>4. suppliers'[orders[n].supplier] # None /\ ~suppliers'[orders[n].supplier].deleted
  BY <1>1, <1>2, <1>3 DEF LiveSupplier
<1>5. LiveSupplier(orders[n].supplier)'
  BY <1>1, <1>4 DEF LiveSupplier
<1>6. ASSUME NEW m \in Numbers \ crossed', Open(m)', orders'[m].supplier = orders'[n].supplier,
             orders'[m].sales = orders'[n].sales
      PROVE  m = n
  BY <1>1, <1>3, <1>6 DEF NoneOpened
<1> QED BY <1>5, <1>6

\* A request keeps finding its supplier, where orders of it only close.
LEMMA SupplierFreshKept ==
  ASSUME NEW t \in Sessions, req'[t] = req[t], SupplierFresh(req[t]), crossed \subseteq crossed',
         \A n \in Numbers \ crossed' : Open(n)' /\ orders'[n].supplier = req[t].supplier =>
           /\ Open(n) /\ orders'[n].supplier = orders[n].supplier
           /\ orders'[n].sales = orders[n].sales,
         req[t].supplier \in Suppliers \ crossed' =>
           (LiveSupplier(req[t].supplier) => LiveSupplier(req[t].supplier)')
  PROVE  SupplierFresh(req[t])'
<1> DEFINE v == req[t].supplier
<1> SUFFICES ASSUME v \in Suppliers \ crossed'
             PROVE  /\ req[t].act = "create_purchase_order" =>
                         /\ suppliers'[v] # None /\ ~suppliers'[v].deleted
                         /\ \A m \in Numbers \ crossed' : Open(m)' /\ orders'[m].supplier = v =>
                              orders'[m].sales # req[t].sales
                    /\ req[t].act = "soft_delete_supplier" =>
                         \A m \in Numbers : Open(m)' /\ orders'[m].supplier = v => m \in crossed'
  BY DEF SupplierFresh, LiveSupplier, OpenOrdersOf, Open, OpenRow, LiveOrder
<1>1. v \in Suppliers \ crossed
  OBVIOUS
<1>2. /\ req[t].act = "create_purchase_order" =>
           /\ LiveSupplier(v)
           /\ \A m \in OpenOrdersOf(v) \ crossed : orders[m].sales # req[t].sales
      /\ req[t].act = "soft_delete_supplier" => OpenOrdersOf(v) \subseteq crossed
  BY <1>1 DEF SupplierFresh
<1>3. LiveSupplier(v) => suppliers'[v] # None /\ ~suppliers'[v].deleted
  BY DEF LiveSupplier
<1>4. ASSUME NEW m \in Numbers \ crossed', Open(m)', orders'[m].supplier = v
      PROVE  m \in OpenOrdersOf(v) \ crossed /\ orders'[m].sales = orders[m].sales
  BY <1>4, OpenOrders
<1> QED BY <1>2, <1>3, <1>4

\* The parts of the invariant that the lemmas above restate.
LEMMA InvariantParts ==
  ASSUME TypeOK', \A s \in Sessions : Sound(req[s])', ItemsOfOrders', OneRequestEach',
         OrdersGood', OpenOrdersConsistent',
         \A s \in Sessions : RequestFits(s)' /\ SupplierFresh(req[s])'
  PROVE  PurchaseInv'
<1>1. \A s \in Sessions : OrderFresh(req[s])' /\ PdfFresh(req[s])' /\ SupplierFresh(req[s])'
  BY RequestsAsRows
<1>2. IssuedHasItems' /\ PathOfIssued' /\ TotalIsSumOfItems' /\ PdfShowsOrder'
  BY OrdersAsRows
<1> QED BY <1>1, <1>2 DEF PurchaseInv

\* A handler's step, and one that gives its request up.
LEMMA RequestStep ==
  ASSUME PurchaseInv, Crossing, NEW s \in Sessions, NEW r,
         req' = [req EXCEPT ![s] = r], UNCHANGED <<suppliers, orders, items>>,
         Wellformed(r), Sound(r), OrderFresh(r), SupplierFresh(r),
         IF Downloading(r) THEN pdfs' = [pdfs EXCEPT ![r.order] = Shown(r.order)]
         ELSE UNCHANGED pdfs
  PROVE  PurchaseInv'
<1>0. crossed \subseteq crossed' /\ crossed' \subseteq Suppliers \cup Numbers /\ OneRequestEach'
  BY CrossedGrows DEF PurchaseInv
<1>1. req'[s] = r /\ \A t \in Sessions \ {s} : req'[t] = req[t]
  BY DEF PurchaseInv, TypeOK
<1>2. \A n \in Numbers : pdfs'[n] = IF Downloading(r) /\ n = r.order THEN Shown(n) ELSE pdfs[n]
  BY DEF PurchaseInv, TypeOK
<1>3. Downloading(r) => r.order \in Numbers /\ orders[r.order] # None
  BY DEF Downloading, Sound, OnOrderRow
<1>4. TypeOK'
  <2>1. \A t \in Sessions : Wellformed(req'[t])
    BY <1>1 DEF PurchaseInv, TypeOK
  <2>2. ASSUME NEW n \in Numbers, orders[n] # None
        PROVE  Shown(n) \in [items : SUBSET Nat, total : Nat]
    <3>1. LiveItems(n) \in SUBSET Nat
      BY ItemsFinite DEF PurchaseInv
    <3>2. orders[n].total \in Nat
      BY <2>2 DEF PurchaseInv, TypeOK, PurchaseOrder
    <3> QED BY <3>1, <3>2 DEF Shown
  <2>3. pdfs' \in [Numbers -> [items : SUBSET Nat, total : Nat] \cup {None}]
    BY <1>3, <2>2 DEF PurchaseInv, TypeOK
  <2>4. DOMAIN req' = Sessions
    BY DEF PurchaseInv, TypeOK
  <2> QED BY <1>0, <2>1, <2>3, <2>4 DEF PurchaseInv, TypeOK, Wellformed, Columns
<1>5. ASSUME NEW t \in Sessions PROVE Sound(req[t])'
  <2>1. CASE t = s
    BY <1>1, <2>1 DEF Sound
  <2>2. CASE t # s
    <3>1. Sound(req[t]) /\ req'[t] = req[t]
      BY <1>1, <2>2 DEF PurchaseInv
    <3> QED BY <3>1 DEF Sound
  <2> QED BY <2>1, <2>2
<1>6. ItemsOfOrders'
  BY DEF PurchaseInv, ItemsOfOrders
<1>7. \A n \in Numbers : Shown(n) = RowShown(orders[n], items[n])
  BY LiveSum DEF Shown, RowShown
<1>8. Fits(r, orders[r.order], items[r.order]) \/ r.order \notin Numbers \ crossed
  BY LiveSum DEF OrderFresh, Fits, TotalWritten, Draft, Downloadable, LiveOrder, Downloading
<1>9. ASSUME NEW t \in Sessions PROVE RequestFits(t)'
  <2>1. CASE t = s
    <3>1. PdfFits(r, orders[r.order], items[r.order], pdfs'[r.order])
      BY <1>2, <1>3, <1>7 DEF PdfFits
    <3> QED BY <1>0, <1>1, <1>8, <2>1, <3>1 DEF RequestFits
  <2>2. CASE t # s
    <3>1. req'[t] = req[t] /\ RequestFits(t)
      BY <1>1, <2>2, RequestsAsRows DEF PurchaseInv
    <3>2. ASSUME NEW n \in Numbers, PdfFits(req[t], orders[n], items[n], pdfs[n])
          PROVE  PdfFits(req[t], orders[n], items[n], pdfs'[n])
      BY <1>2, <1>7, <3>2 DEF PdfFits
    <3> QED BY <1>0, <3>1, <3>2 DEF RequestFits
  <2> QED BY <2>1, <2>2
<1>10. OrdersGood'
  <2>1. OrdersGood
    BY OrdersAsRows DEF PurchaseInv
  <2>2. ASSUME NEW n \in Numbers \ crossed'
        PROVE  Good(orders[n], items[n], pdfs'[n])
    <3>1. Good(orders[n], items[n], pdfs[n])
      BY <1>0, <2>1 DEF OrdersGood
    <3> QED BY <1>2, <1>7, <3>1 DEF Good
  <2> QED BY <2>2 DEF OrdersGood
<1>11. OpenOrdersConsistent'
  <2>1. NoneOpened
    BY DEF NoneOpened, Open, OpenRow
  <2>2. \A v : LiveSupplier(v) => suppliers'[v] # None /\ ~suppliers'[v].deleted
    BY DEF LiveSupplier
  <2> QED BY <1>0, <2>1, <2>2, ConsistentKept DEF PurchaseInv, LiveSupplier
<1>12. ASSUME NEW t \in Sessions PROVE SupplierFresh(req[t])'
  <2>1. CASE t = s
    BY <1>0, <1>1, <2>1 DEF SupplierFresh, LiveSupplier, OpenOrdersOf, LiveOrder
  <2>2. CASE t # s
    <3>1. req'[t] = req[t] /\ SupplierFresh(req[t])
      BY <1>1, <2>2 DEF PurchaseInv
    <3> QED BY <1>0, <3>1 DEF SupplierFresh, LiveSupplier, OpenOrdersOf, LiveOrder
  <2> QED BY <2>1, <2>2
<1> QED BY <1>0, <1>4, <1>5, <1>6, <1>9, <1>10, <1>11, <1>12, InvariantParts

\* The columns of a supplier that a commit leaves as they are.
LEMMA SupplierWritten ==
  ASSUME NEW row \in Supplier, NEW r, Columns(r.set), DOMAIN r.set \subseteq Writes(r.act),
         r.act \in OnSupplierRow
  PROVE  LET new == Written(row, r.set) IN
         /\ new \in Supplier /\ new # None
         /\ r.act # "soft_delete_supplier" => new.deleted = row.deleted
<1>1. /\ Written(row, r.set) \in Supplier
      /\ "deleted" \notin DOMAIN r.set => Written(row, r.set).deleted = row.deleted
  BY WrittenSupplier
<1>2. r.act # "soft_delete_supplier" => "deleted" \notin DOMAIN r.set
  BY DEF OnSupplierRow, Writes
<1>3. Written(row, r.set) # None
  BY <1>1, PurchaseNone
<1> QED BY <1>1, <1>2, <1>3

\* What the commit of a request on a supplier's row does.
SupplierCommitted(s, v, row) ==
  /\ suppliers' = [suppliers EXCEPT ![v] = row] /\ row \in Supplier
  /\ UNCHANGED <<orders, items, pdfs>>
  /\ req' = [req EXCEPT ![s] = Idle]
  /\ v \in Touched(req[s])
  /\ suppliers[v] # None => ~row.deleted \/ suppliers[v].deleted
                             \/ v \in crossed \/ OpenOrdersOf(v) \subseteq crossed

LEMMA SupplierCommit ==
  ASSUME PurchaseInv, Crossing, NEW s \in Sessions, NEW v \in Suppliers, NEW row,
         SupplierCommitted(s, v, row)
  PROVE  PurchaseInv'
<1> USE DEF SupplierCommitted
<1>0. crossed \subseteq crossed' /\ crossed' \subseteq Suppliers \cup Numbers /\ OneRequestEach'
  BY CrossedGrows DEF PurchaseInv
<1>1. req'[s] = Idle /\ \A t \in Sessions \ {s} : req'[t] = req[t]
  BY DEF PurchaseInv, TypeOK
<1>2. \A w \in Suppliers : suppliers'[w] = IF w = v THEN row ELSE suppliers[w]
  BY DEF PurchaseInv, TypeOK
<1>3. row # None
  BY PurchaseNone
<1>4. TypeOK'
  <2>1. \A t \in Sessions : Wellformed(req'[t])
    BY <1>1, IdleFields DEF PurchaseInv, TypeOK
  <2>2. suppliers' \in [Suppliers -> Supplier \cup {None}]
    BY DEF PurchaseInv, TypeOK
  <2>3. DOMAIN req' = Sessions
    BY DEF PurchaseInv, TypeOK
  <2> QED BY <1>0, <2>1, <2>2, <2>3 DEF PurchaseInv, TypeOK, Wellformed, Columns
<1>5. ASSUME NEW t \in Sessions PROVE Sound(req[t])'
  <2>1. CASE t = s
    BY <1>1, <2>1, IdleFields, PurchaseNone DEF Sound, OnSupplierRow, OnOrderRow, Handlers, Idle
  <2>2. CASE t # s
    <3>1. Sound(req[t]) /\ req'[t] = req[t]
      BY <1>1, <2>2 DEF PurchaseInv
    <3> QED BY <1>2, <1>3, <3>1 DEF Sound
  <2> QED BY <2>1, <2>2
<1>6. ItemsOfOrders'
  BY DEF PurchaseInv, ItemsOfOrders
<1>7. ASSUME NEW t \in Sessions PROVE RequestFits(t)'
  <2>1. CASE t = s
    BY <1>1, <2>1, IdleFields DEF RequestFits, Numbers
  <2>2. CASE t # s
    <3>1. req'[t] = req[t] /\ RequestFits(t)
      BY <1>1, <2>2, RequestsAsRows DEF PurchaseInv
    <3> QED BY <1>0, <3>1 DEF RequestFits
  <2> QED BY <2>1, <2>2
<1>8. OrdersGood'
  <2>1. OrdersGood
    BY OrdersAsRows DEF PurchaseInv
  <2> QED BY <1>0, <2>1 DEF OrdersGood
<1>9. NoneOpened
  BY DEF NoneOpened, Open, OpenRow
<1>10. \A w \in Suppliers \ {v} : LiveSupplier(w) => suppliers'[w] # None /\ ~suppliers'[w].deleted
  BY <1>2 DEF LiveSupplier
<1>11. \/ LiveSupplier(v) => suppliers'[v] # None /\ ~suppliers'[v].deleted
       \/ v \in crossed \/ OpenOrdersOf(v) \subseteq crossed
  BY <1>2, <1>3 DEF LiveSupplier
<1>12. OpenOrdersConsistent'
  <2>1. ASSUME NEW n \in Numbers \ crossed', Open(n), orders[n].supplier \notin crossed',
               LiveSupplier(orders[n].supplier)
        PROVE  LiveSupplier(orders[n].supplier)'
    <3>1. orders[n].supplier \in Suppliers
      BY <2>1 DEF PurchaseInv, TypeOK, Open, OpenRow, PurchaseOrder
    <3>2. n \in OpenOrdersOf(orders[n].supplier) /\ n \notin crossed
      BY <1>0, <2>1, OpenOrders
    <3>3. suppliers'[orders[n].supplier] # None /\ ~suppliers'[orders[n].supplier].deleted
      BY <1>0, <1>10, <1>11, <2>1, <3>1, <3>2
    <3> QED BY <3>3 DEF LiveSupplier
  <2> QED BY <1>0, <1>9, <2>1, ConsistentKept DEF PurchaseInv
<1>13. ASSUME NEW t \in Sessions PROVE SupplierFresh(req[t])'
  <2>1. CASE t = s
    BY <1>1, <2>1, IdleFields, PurchaseNone DEF SupplierFresh
  <2>2. CASE t # s
    <3>1. req'[t] = req[t] /\ SupplierFresh(req[t])
      BY <1>1, <2>2 DEF PurchaseInv
    <3>2. CASE req[t].supplier = v /\ v \notin crossed'
      <4>1. v \notin Touched(req[t])
        BY <1>0, <2>2, <3>2 DEF PurchaseInv, OneRequestEach
      <4>2. Downloading(req[t])
        BY <3>2, <4>1, PurchaseNone DEF Touched, Downloading
      <4> QED BY <1>1, <2>2, <4>2 DEF SupplierFresh, Downloading
    <3>3. CASE req[t].supplier # v \/ v \in crossed'
      <4>1. req[t].supplier \in Suppliers \ crossed' =>
              (LiveSupplier(req[t].supplier) => LiveSupplier(req[t].supplier)')
        BY <1>10, <3>1, <3>3 DEF LiveSupplier
      <4>2. \A n \in Numbers \ crossed' : Open(n)' => Open(n)
        BY <1>9 DEF NoneOpened
      <4> QED BY <1>0, <3>1, <4>1, <4>2, SupplierFreshKept
    <3> QED BY <3>2, <3>3
  <2> QED BY <2>1, <2>2
<1> QED BY <1>0, <1>4, <1>5, <1>6, <1>7, <1>8, <1>12, <1>13, InvariantParts

\* The commit of a request on an order's row.
LEMMA OrderCommit ==
  ASSUME PurchaseInv, Crossing, NEW s \in Sessions, req[s].act \in OnOrderRow,
         orders' = [orders EXCEPT ![req[s].order] = Written(@, req[s].set)],
         items' = [items EXCEPT ![req[s].order] = RowsAfter(req[s], @)],
         req' = [req EXCEPT ![s] = Idle], UNCHANGED <<suppliers, pdfs>>
  PROVE  PurchaseInv'
<1> DEFINE r == req[s]
           k == r.order
<1>0. crossed \subseteq crossed' /\ crossed' \subseteq Suppliers \cup Numbers /\ OneRequestEach'
  BY CrossedGrows DEF PurchaseInv
<1>1. req'[s] = Idle /\ \A t \in Sessions \ {s} : req'[t] = req[t]
  BY DEF PurchaseInv, TypeOK
<1>2. r.supplier = None /\ k \in Numbers /\ orders[k] # None
  BY DEF PurchaseInv, Sound
<1>3. OnRow(r, items[k])
  BY DEF PurchaseInv, TypeOK, Sound, Wellformed, OnRow
<1>4. orders[k] \in PurchaseOrder /\ items[k] \in Seq(PurchaseOrderItem)
  BY <1>2 DEF PurchaseInv, TypeOK
<1>5. \A n \in Numbers :
        /\ orders'[n] = IF n = k THEN Written(orders[n], r.set) ELSE orders[n]
        /\ items'[n] = IF n = k THEN RowsAfter(r, items[n]) ELSE items[n]
  BY DEF PurchaseInv, TypeOK
<1>6. /\ orders'[k] \in PurchaseOrder /\ orders'[k] # None
      /\ orders'[k].supplier = orders[k].supplier /\ orders'[k].sales = orders[k].sales
  BY <1>2, <1>3, <1>4, <1>5, OrderColumns
<1>7. items'[k] \in Seq(PurchaseOrderItem) /\ DOMAIN items[k] \subseteq DOMAIN items'[k]
  BY <1>2, <1>3, <1>4, <1>5, RowsWritten
<1>8. k \notin crossed =>
        /\ Good(orders[k], items[k], pdfs[k])
        /\ Fits(r, orders[k], items[k]) /\ PdfFits(r, orders[k], items[k], pdfs[k])
  <2>1. OrdersGood /\ RequestFits(s)
    BY OrdersAsRows, RequestsAsRows DEF PurchaseInv
  <2> QED BY <1>2, <2>1 DEF OrdersGood, RequestFits
<1>9. k \notin crossed => /\ Good(orders'[k], items'[k], pdfs[k])
                          /\ OpenRow(orders'[k]) => OpenRow(orders[k])
  BY <1>2, <1>3, <1>4, <1>5, <1>8, OrderWritten
<1>10. TypeOK'
  <2>1. \A t \in Sessions : Wellformed(req'[t])
    BY <1>1, IdleFields DEF PurchaseInv, TypeOK
  <2>2. orders' \in [Numbers -> PurchaseOrder \cup {None}]
    BY <1>2, <1>5, <1>6 DEF PurchaseInv, TypeOK
  <2>3. items' \in [Numbers -> Seq(PurchaseOrderItem)]
    BY <1>2, <1>5, <1>7 DEF PurchaseInv, TypeOK
  <2>4. DOMAIN req' = Sessions
    BY DEF PurchaseInv, TypeOK
  <2> QED BY <1>0, <2>1, <2>2, <2>3, <2>4 DEF PurchaseInv, TypeOK, Wellformed, Columns
<1>11. ASSUME NEW t \in Sessions PROVE Sound(req[t])'
  <2>1. CASE t = s
    BY <1>1, <2>1, IdleFields, PurchaseNone DEF Sound, OnSupplierRow, OnOrderRow, Handlers, Idle
  <2>2. CASE t # s
    <3>1. Sound(req[t]) /\ req'[t] = req[t]
      BY <1>1, <2>2 DEF PurchaseInv
    <3>2. \A n \in Numbers : /\ orders[n] # None => orders'[n] # None
                             /\ DOMAIN items[n] \subseteq DOMAIN items'[n]
      BY <1>5, <1>6, <1>7
    <3> QED BY <3>1, <3>2 DEF Sound, OnOrderRow
  <2> QED BY <2>1, <2>2
<1>12. ItemsOfOrders'
  BY <1>5, <1>6 DEF PurchaseInv, ItemsOfOrders
<1>13. ASSUME NEW t \in Sessions PROVE RequestFits(t)'
  <2>1. CASE t = s
    BY <1>1, <2>1, IdleFields DEF RequestFits, Numbers
  <2>2. CASE t # s
    <3>1. req'[t] = req[t] /\ RequestFits(t)
      BY <1>1, <2>2, RequestsAsRows DEF PurchaseInv
    <3>2. CASE req[t].order # k
      BY <1>0, <1>5, <3>1, <3>2 DEF RequestFits
    <3>3. CASE req[t].order = k /\ k \notin crossed'
      <4>1. k \notin Touched(r) \/ k \notin Touched(req[t])
        BY <1>0, <1>2, <2>2, <3>3 DEF PurchaseInv, OneRequestEach
      <4>2. k # 0 /\ k # None
        BY <1>2, PurchaseNone DEF Numbers
      <4>3. Downloading(r) \/ Downloading(req[t])
        BY <3>3, <4>1, <4>2 DEF Touched, Downloading
      <4>4. Fits(req[t], orders[k], items[k]) /\ PdfFits(req[t], orders[k], items[k], pdfs[k])
        BY <1>0, <1>2, <3>1, <3>3 DEF RequestFits
      <4>5. /\ Fits(req[t], orders'[k], items'[k])
            /\ PdfFits(req[t], orders'[k], items'[k], pdfs[k])
        BY <1>0, <1>2, <1>3, <1>4, <1>5, <1>8, <3>3, <4>3, <4>4, OthersFit
      <4> QED BY <3>1, <3>3, <4>5 DEF RequestFits
    <3>4. CASE req[t].order = k /\ k \in crossed'
      BY <3>1, <3>4 DEF RequestFits
    <3> QED BY <3>2, <3>3, <3>4
  <2> QED BY <2>1, <2>2
<1>14. OrdersGood'
  <2>1. OrdersGood
    BY OrdersAsRows DEF PurchaseInv
  <2>2. \A n \in Numbers \ crossed' : Good(orders'[n], items'[n], pdfs[n])
    BY <1>0, <1>5, <1>9, <2>1 DEF OrdersGood
  <2> QED BY <2>2 DEF OrdersGood
<1>15. NoneOpened
  BY <1>0, <1>5, <1>6, <1>9 DEF NoneOpened, Open
<1>16. \A v : LiveSupplier(v) => suppliers'[v] # None /\ ~suppliers'[v].deleted
  BY DEF LiveSupplier
<1>17. OpenOrdersConsistent'
  <2>1. ASSUME NEW n \in Numbers \ crossed', LiveSupplier(orders[n].supplier)
        PROVE  LiveSupplier(orders[n].supplier)'
    <3>1. orders'[n].supplier = orders[n].supplier
      BY <1>5, <1>6
    <3> QED BY <1>16, <2>1, <3>1 DEF LiveSupplier
  <2> QED BY <1>0, <1>15, <2>1, ConsistentKept DEF PurchaseInv
<1>18. ASSUME NEW t \in Sessions PROVE SupplierFresh(req[t])'
  <2>1. CASE t = s
    BY <1>1, <2>1, IdleFields, PurchaseNone DEF SupplierFresh
  <2>2. CASE t # s
    <3>1. req'[t] = req[t] /\ SupplierFresh(req[t])
      BY <1>1, <2>2 DEF PurchaseInv
    <3>2. LiveSupplier(req[t].supplier) => LiveSupplier(req[t].supplier)'
      BY <3>1 DEF LiveSupplier
    <3>3. \A n \in Numbers \ crossed' :
            Open(n)' => /\ Open(n) /\ orders'[n].supplier = orders[n].supplier
                        /\ orders'[n].sales = orders[n].sales
      BY <1>15 DEF NoneOpened
    <3> QED BY <1>0, <3>1, <3>2, <3>3, SupplierFreshKept
  <2> QED BY <2>1, <2>2
<1> QED BY <1>0, <1>10, <1>11, <1>12, <1>13, <1>14, <1>17, <1>18, InvariantParts

\* The commit of a new order: another with its number that comes later fails.
LEMMA CreateCommit ==
  ASSUME PurchaseInv, Crossing, NEW s \in Sessions, req[s].act = "create_purchase_order",
         orders[req[s].order] = None, NEW row,
         orders' = [orders EXCEPT ![req[s].order] = row],
         row = [supplier |-> req[s].supplier, sales |-> req[s].sales, status |-> "draft",
                total |-> 0, deleted |-> FALSE, path |-> FALSE],
         req' = [req EXCEPT ![s] = Idle], UNCHANGED <<suppliers, items, pdfs>>
  PROVE  PurchaseInv'
<1> DEFINE r == req[s]
           k == r.order
           v == r.supplier
<1>0. crossed \subseteq crossed' /\ crossed' \subseteq Suppliers \cup Numbers /\ OneRequestEach'
  BY CrossedGrows DEF PurchaseInv
<1>1. req'[s] = Idle /\ \A t \in Sessions \ {s} : req'[t] = req[t]
  BY DEF PurchaseInv, TypeOK
<1>2. v \in Suppliers /\ k \in Numbers /\ items[k] = <<>> /\ r.sales \in SalesOrders
  BY DEF PurchaseInv, Sound, ItemsOfOrders, TypeOK, Wellformed
<1>3. row \in PurchaseOrder /\ row # None
  <2>1. row \in PurchaseOrder
    BY <1>2 DEF PurchaseOrder, PurchaseOrderStatus
  <2> QED BY <2>1, PurchaseNone
<1>4. \A n \in Numbers : orders'[n] = IF n = k THEN row ELSE orders[n]
  BY DEF PurchaseInv, TypeOK
<1>5. v \in Touched(r) /\ k \in Touched(r)
  BY <1>2, PurchaseNone DEF Touched, Numbers
<1>6. \A t \in Sessions \ {s} : v \in Touched(req[t]) => v \in crossed
  BY <1>2, <1>5 DEF PurchaseInv, OneRequestEach
<1>7. TypeOK'
  <2>1. \A t \in Sessions : Wellformed(req'[t])
    BY <1>1, IdleFields DEF PurchaseInv, TypeOK
  <2>2. orders' \in [Numbers -> PurchaseOrder \cup {None}]
    BY <1>3, <1>4 DEF PurchaseInv, TypeOK
  <2>3. DOMAIN req' = Sessions
    BY DEF PurchaseInv, TypeOK
  <2> QED BY <1>0, <2>1, <2>2, <2>3 DEF PurchaseInv, TypeOK, Wellformed, Columns
<1>8. ASSUME NEW t \in Sessions PROVE Sound(req[t])'
  <2>1. CASE t = s
    BY <1>1, <2>1, IdleFields, PurchaseNone DEF Sound, OnSupplierRow, OnOrderRow, Handlers, Idle
  <2>2. CASE t # s
    <3>1. Sound(req[t]) /\ req'[t] = req[t]
      BY <1>1, <2>2 DEF PurchaseInv
    <3> QED BY <1>3, <1>4, <3>1 DEF Sound
  <2> QED BY <2>1, <2>2
<1>9. ItemsOfOrders'
  BY <1>3, <1>4 DEF PurchaseInv, ItemsOfOrders
<1>10. ASSUME NEW t \in Sessions PROVE RequestFits(t)'
  <2>1. CASE t = s
    BY <1>1, <2>1, IdleFields DEF RequestFits, Numbers
  <2>2. CASE t # s
    <3>1. req'[t] = req[t] /\ RequestFits(t) /\ Sound(req[t])
      BY <1>1, <2>2, RequestsAsRows DEF PurchaseInv
    <3>2. CASE req[t].order # k
      BY <1>0, <1>4, <3>1, <3>2 DEF RequestFits
    <3>3. CASE req[t].order = k
      <4>1. req[t].act \notin OnOrderRow
        BY <3>1, <3>3 DEF Sound
      <4> QED BY <3>1, <4>1 DEF RequestFits, Fits, PdfFits, Downloading, OnOrderRow
    <3> QED BY <3>2, <3>3
  <2> QED BY <2>1, <2>2
<1>11. OrdersGood'
  <2>1. OrdersGood
    BY OrdersAsRows DEF PurchaseInv
  <2>2. LiveOf(items[k]) = {}
    BY <1>2 DEF LiveOf
  <2>3. AmountOf(items[k], {}) = 0
    BY FS_EmptySet, SumUnfolds
  <2>4. Good(row, items[k], pdfs[k])
    BY <2>2, <2>3 DEF Good
  <2>5. \A n \in Numbers \ crossed' : Good(orders'[n], items[n], pdfs[n])
    BY <1>0, <1>4, <2>1, <2>4 DEF OrdersGood
  <2> QED BY <2>5 DEF OrdersGood
<1>12. \A w : LiveSupplier(w) => suppliers'[w] # None /\ ~suppliers'[w].deleted
  BY DEF LiveSupplier
<1>13. \A n \in Numbers \ {k} : /\ orders'[n] = orders[n] /\ Open(n)' <=> Open(n)
  BY <1>4 DEF Open, OpenRow
<1>14. v \notin crossed =>
         /\ LiveSupplier(v)
         /\ \A m \in Numbers \ crossed : Open(m) /\ orders[m].supplier = v => orders[m].sales # r.sales
  BY <1>2, OpenOrders DEF PurchaseInv, SupplierFresh
<1>15. orders'[k].supplier = v /\ orders'[k].sales = r.sales
  BY <1>2, <1>4
<1>16. OpenOrdersConsistent'
  <2> SUFFICES ASSUME NEW n \in Numbers \ crossed', Open(n)', orders'[n].supplier \notin crossed'
               PROVE  /\ LiveSupplier(orders[n].supplier)'
                      /\ \A m \in Numbers \ crossed' :
                           Open(m)' /\ orders'[m].supplier = orders'[n].supplier
                             /\ orders'[m].sales = orders'[n].sales => m = n
    BY ConsistentForm
  <2>1. CASE n = k
    <3>1. suppliers'[orders'[n].supplier] # None /\ ~suppliers'[orders'[n].supplier].deleted
      BY <1>0, <1>12, <1>14, <1>15, <2>1
    <3>2. ASSUME NEW m \in Numbers \ crossed', Open(m)', orders'[m].supplier = orders'[n].supplier,
                 orders'[m].sales = orders'[n].sales, m # k
          PROVE  FALSE
      BY <1>0, <1>13, <1>14, <1>15, <2>1, <3>2
    <3> QED BY <2>1, <3>1, <3>2 DEF LiveSupplier
  <2>2. CASE n # k
    <3>1. orders'[n] = orders[n] /\ Open(n)
      BY <1>13, <2>2
    <3>2. /\ LiveSupplier(orders[n].supplier)
          /\ \A m \in Numbers \ crossed :
               Open(m) /\ orders[m].supplier = orders[n].supplier /\ orders[m].sales = orders[n].sales
                 => m = n
      BY <1>0, <3>1, ConsistentForm DEF PurchaseInv
    <3>3. suppliers'[orders'[n].supplier] # None /\ ~suppliers'[orders'[n].supplier].deleted
      BY <1>12, <3>1, <3>2
    <3>4. ASSUME NEW m \in Numbers \ crossed', Open(m)', orders'[m].supplier = orders'[n].supplier,
                 orders'[m].sales = orders'[n].sales
          PROVE  m = n
      <4>1. CASE m = k
        BY <1>0, <1>14, <1>15, <3>1, <3>4, <4>1
      <4>2. CASE m # k
        BY <1>0, <1>13, <3>1, <3>2, <3>4, <4>2
      <4> QED BY <4>1, <4>2
    <3> QED BY <3>3, <3>4 DEF LiveSupplier
  <2> QED BY <2>1, <2>2
<1>17. ASSUME NEW t \in Sessions PROVE SupplierFresh(req[t])'
  <2>1. CASE t = s
    BY <1>1, <2>1, IdleFields, PurchaseNone DEF SupplierFresh
  <2>2. CASE t # s
    <3>1. req'[t] = req[t] /\ SupplierFresh(req[t])
      BY <1>1, <2>2 DEF PurchaseInv
    <3>2. CASE req[t].supplier = v /\ v \notin crossed'
      <4>1. v \notin Touched(req[t])
        BY <1>0, <1>6, <2>2, <3>2
      <4>2. Downloading(req[t])
        BY <1>2, <3>2, <4>1, PurchaseNone DEF Touched, Downloading
      <4> QED BY <3>1, <4>2 DEF SupplierFresh, Downloading
    <3>3. CASE req[t].supplier = v /\ v \in crossed'
      BY <3>1, <3>3 DEF SupplierFresh
    <3>4. CASE req[t].supplier # v
      <4>1. LiveSupplier(req[t].supplier) => LiveSupplier(req[t].supplier)'
        BY <3>1 DEF LiveSupplier
      <4>2. \A n \in Numbers \ crossed' : Open(n)' /\ orders'[n].supplier = req[t].supplier =>
              /\ Open(n) /\ orders'[n].supplier = orders[n].supplier
              /\ orders'[n].sales = orders[n].sales
        BY <1>13, <1>15, <3>4
      <4> QED BY <1>0, <3>1, <4>1, <4>2, SupplierFreshKept
    <3> QED BY <3>2, <3>3, <3>4
  <2> QED BY <2>1, <2>2
<1> QED BY <1>0, <1>7, <1>8, <1>9, <1>10, <1>11, <1>16, <1>17, InvariantParts

\* What a commit does, by its handler.
LEMMA CommitStep ==
  ASSUME PurchaseInv, Crossing, NEW s \in Sessions, Commit(s)
  PROVE  PurchaseInv'
<1> DEFINE r == req[s]
<1>1. Sound(r) /\ Wellformed(r) /\ Columns(r.set) /\ SupplierFresh(r)
  BY DEF PurchaseInv, TypeOK, Wellformed
<1>2. req' = [req EXCEPT ![s] = Idle] /\ UNCHANGED pdfs
  BY DEF Commit
<1>3. CASE ConstraintFails(r)
  <2>1. UNCHANGED <<suppliers, orders, items>>
    BY <1>3 DEF Commit
  <2>2. ~Downloading(Idle)
    BY IdleFields, PurchaseNone DEF Downloading, Handlers
  <2> QED BY <1>2, <2>1, <2>2, IdleFields, RequestStep
<1>4. CASE ~ConstraintFails(r)
  <2>1. Apply(r)
    BY <1>4 DEF Commit
  <2>2. r.act \in Handlers \cup {None} /\ None \notin Handlers
    BY <1>1, PurchaseNone DEF Wellformed
  <2>3. CASE r.act = "create_supplier"
    <3> DEFINE row == Written([approved |-> FALSE, acknowledged |-> FALSE,
                               active |-> TRUE, deleted |-> FALSE], r.set)
    <3>1. r.supplier \in Suppliers /\ r.order = 0 /\ suppliers[r.supplier] = None
      BY <1>1, <1>4, <2>3 DEF Sound, ConstraintFails
    <3>2. /\ suppliers' = [suppliers EXCEPT ![r.supplier] = row]
          /\ UNCHANGED <<orders, items>>
      BY <2>1, <2>3, <3>1 DEF Apply
    <3>3. [approved |-> FALSE, acknowledged |-> FALSE,
           active |-> TRUE, deleted |-> FALSE] \in Supplier
      BY DEF Supplier
    <3>4. row \in Supplier
      BY <1>1, <3>3, WrittenSupplier
    <3>5. r.supplier \in Touched(r)
      BY <2>3, <3>1, PurchaseNone DEF Touched
    <3> HIDE DEF row
    <3>6. SupplierCommitted(s, r.supplier, row)
      BY <1>2, <3>1, <3>2, <3>4, <3>5 DEF SupplierCommitted
    <3> QED BY <3>1, <3>6, SupplierCommit
  <2>4. CASE r.act \in OnSupplierRow
    <3> DEFINE v == r.supplier
               row == Written(suppliers[v], r.set)
    <3>1. v \in Suppliers /\ r.order = 0 /\ suppliers[v] # None /\ v # None
      BY <1>1, <2>4, PurchaseNone DEF Sound
    <3>2. suppliers' = [suppliers EXCEPT ![v] = row] /\ UNCHANGED <<orders, items>>
      BY <2>1, <2>4, <3>1 DEF Apply, OnSupplierRow
    <3>3. suppliers[v] \in Supplier
      BY <3>1 DEF PurchaseInv, TypeOK
    <3>4. row \in Supplier /\ (r.act # "soft_delete_supplier" => row.deleted = suppliers[v].deleted)
      BY <1>1, <2>4, <3>3, SupplierWritten DEF Sound
    <3>5. v \in Touched(r)
      BY <2>4, <3>1, PurchaseNone DEF Touched, OnSupplierRow
    <3>6. r.act = "soft_delete_supplier" => v \in crossed \/ OpenOrdersOf(v) \subseteq crossed
      BY <1>1, <3>1 DEF SupplierFresh
    <3> HIDE DEF row
    <3>7. SupplierCommitted(s, v, row)
      BY <1>2, <3>2, <3>3, <3>4, <3>5, <3>6 DEF SupplierCommitted, Supplier
    <3> QED BY <3>1, <3>7, SupplierCommit
  <2>5. CASE r.act = "create_purchase_order"
    <3>1. orders[r.order] = None /\ r.order \in Numbers
      BY <1>1, <1>4, <2>5 DEF ConstraintFails, Sound
    <3> DEFINE row == [supplier |-> r.supplier, sales |-> r.sales, status |-> "draft",
                       total |-> 0, deleted |-> FALSE, path |-> FALSE]
    <3>2. orders' = [orders EXCEPT ![r.order] = row] /\ UNCHANGED <<suppliers, items>>
      BY <2>1, <2>5, <3>1 DEF Apply, Numbers
    <3> QED BY <1>2, <2>5, <3>1, <3>2, CreateCommit
  <2>6. CASE r.act \in OnOrderRow
    <3>1. r.order \in Numbers /\ r.order # 0 /\ r.supplier = None
      BY <1>1, <2>6 DEF Sound, Numbers
    <3>2. orders' = [orders EXCEPT ![r.order] = Written(@, r.set)] /\ UNCHANGED suppliers
      BY <2>1, <2>6, <3>1 DEF Apply, OnOrderRow
    <3>3. items' = [items EXCEPT ![r.order] = RowsAfter(r, @)]
      <4>1. items = [items EXCEPT ![r.order] = items[r.order]]
        BY <3>1 DEF PurchaseInv, TypeOK
      <4>2. CASE r.act = "add_po_item"
        BY <2>1, <4>2 DEF Apply, RowsAfter
      <4>3. CASE r.act = "remove_po_item"
        BY <2>1, <4>3 DEF Apply, RowsAfter
      <4>4. CASE r.act \notin {"add_po_item", "remove_po_item"}
        BY <2>1, <4>1, <4>4 DEF Apply, RowsAfter
      <4> QED BY <4>2, <4>3, <4>4
    <3> QED BY <1>2, <2>6, <3>2, <3>3, OrderCommit
  <2>7. CASE r.act = None
    <3>1. UNCHANGED <<suppliers, orders, items>>
      BY <1>1, <2>1, <2>2, <2>7 DEF Apply, Sound, Handlers
    <3>2. ~Downloading(Idle)
      BY IdleFields, PurchaseNone DEF Downloading, Handlers
    <3> QED BY <1>2, <3>1, <3>2, IdleFields, RequestStep
  <2> QED BY <2>2, <2>3, <2>4, <2>5, <2>6, <2>7 DEF Handlers, OnSupplierRow, OnOrderRow
<1> QED BY <1>3, <1>4

LEMMA InitPurchaseInv ==
  ASSUME Init
  PROVE  PurchaseInv
<1>1. TypeOK
  <2>1. items \in [Numbers -> Seq(PurchaseOrderItem)]
    BY DEF Init
  <2> QED BY <2>1, IdleFields DEF Init, TypeOK
<1>2. \A s \in Sessions : req[s] = Idle
  BY DEF Init
<1>3. \A n \in Numbers : orders[n] = None /\ items[n] = <<>>
  BY DEF Init
<1>4. \A s \in Sessions : /\ Sound(req[s]) /\ Touched(req[s]) = {}
                          /\ OrderFresh(req[s]) /\ PdfFresh(req[s]) /\ SupplierFresh(req[s])
  BY <1>2, IdleFields
<1>5. ItemsOfOrders /\ OneRequestEach
  BY <1>3, <1>4 DEF ItemsOfOrders, OneRequestEach
<1>6. /\ IssuedHasItems /\ PathOfIssued
      /\ TotalIsSumOfItems /\ OpenOrdersConsistent /\ PdfShowsOrder
  BY <1>3 DEF IssuedHasItems, PathOfIssued, TotalIsSumOfItems, OpenOrdersConsistent,
              PdfShowsOrder, LiveOrder
<1> QED BY <1>1, <1>4, <1>5, <1>6 DEF PurchaseInv

LEMMA NextPurchaseInv ==
  ASSUME PurchaseInv, [Next]_vars
  PROVE  PurchaseInv'
<1>1. CASE Next
  <2>1. Crossing
    BY <1>1 DEF Next, Crossing
  <2>2. PICK s \in Sessions : Handle(s) \/ Commit(s) \/ Abort(s)
    BY <1>1 DEF Next
  <2>3. CASE Handle(s)
    <3>1. PICK r : Prepared(s, r)
      BY <2>3, HandlePrepared
    <3> QED BY <2>1, <3>1, RequestStep DEF Prepared, Pend
  <2>4. CASE Commit(s)
    BY <2>1, <2>4, CommitStep
  <2>5. CASE Abort(s)
    <3>1. ~Downloading(Idle)
      BY IdleFields, PurchaseNone DEF Downloading, Handlers
    <3> QED BY <2>1, <2>5, <3>1, IdleFields, RequestStep DEF Abort, db
  <2> QED BY <2>2, <2>3, <2>4, <2>5
<1>2. CASE UNCHANGED vars
  <2> USE <1>2 DEF vars, db
  <2>1. TypeOK'
    BY DEF PurchaseInv, TypeOK, Wellformed, Columns
  <2>2. \A s \in Sessions : Sound(req[s])'
    BY DEF PurchaseInv, Sound
  <2>3. ItemsOfOrders' /\ OneRequestEach'
    BY DEF PurchaseInv, ItemsOfOrders, OneRequestEach, Touched
  <2>4. OrdersGood' /\ \A s \in Sessions : RequestFits(s)'
    BY OrdersAsRows, RequestsAsRows DEF PurchaseInv, OrdersGood, RequestFits
  <2>5. OpenOrdersConsistent'
    BY DEF PurchaseInv, OpenOrdersConsistent, LiveOrder, LiveSupplier
  <2>6. \A s \in Sessions : SupplierFresh(req[s])'
    BY DEF PurchaseInv, SupplierFresh, LiveSupplier, OpenOrdersOf, LiveOrder
  <2> QED BY <2>1, <2>2, <2>3, <2>4, <2>5, <2>6, InvariantParts
<1> QED BY <1>1, <1>2

-----------------------------------------------------------------------------
(* The theorems: for any requests, in any interleaving, with any aborts.   *)

\* PurchaseInv is inductive.
THEOREM Inductive == Spec => []PurchaseInv
  BY InitPurchaseInv, NextPurchaseInv, PTL DEF Spec

\* Every row, PDF and pending request has the columns and values of its table.
THEOREM TypeCorrect == Spec => []TypeOK
<1>1. PurchaseInv => TypeOK
  BY DEF PurchaseInv
<1> QED BY <1>1, Inductive, PTL

\* An order's stored total is the sum of its items, whatever was added and
\* removed, in any order: _recalculate_po_total_amount.
THEOREM TotalsExact == Spec => []TotalIsSumOfItems
<1>1. PurchaseInv => TotalIsSumOfItems
  BY DEF PurchaseInv
<1> QED BY <1>1, Inductive, PTL

\* A supplier has one open order for a sales order, and none once it is
\* deleted: create_purchase_order, soft_delete_supplier.
THEOREM OpenConsistent == Spec => []OpenOrdersConsistent
<1>1. PurchaseInv => OpenOrdersConsistent
  BY DEF PurchaseInv
<1> QED BY <1>1, Inductive, PTL

\* The stored PDF of an order shows the order, although it is written before
\* its path and by every request that finds none: download_purchase_order_pdf.
THEOREM PdfCurrent == Spec => []PdfShowsOrder
<1>1. PurchaseInv => PdfShowsOrder
  BY DEF PurchaseInv
<1> QED BY <1>1, Inductive, PTL

\* No step changes an issued order's items or deletes it: a request that would
\* has found it draft, and no other request has come between.
LEMMA IssuedStep ==
  ASSUME PurchaseInv, [Next]_vars, NEW n \in Numbers \ crossed,
         orders[n] # None, orders[n].status # "draft"
  PROVE  items'[n] = items[n] /\ LiveItems(n) # {} /\ ~orders'[n].deleted
<1>1. ~orders[n].deleted /\ LiveItems(n) # {}
  BY DEF PurchaseInv, IssuedHasItems, LiveOrder
<1> SUFFICES ASSUME orders'[n] # orders[n] \/ items'[n] # items[n]
             PROVE  items'[n] = items[n] /\ ~orders'[n].deleted
  BY <1>1
<1>2. Next
  BY DEF vars, db
<1>3. PICK s \in Sessions : Handle(s) \/ Commit(s) \/ Abort(s)
  BY <1>2 DEF Next
<1>4. CASE Handle(s)
  <2>1. PICK r : Prepared(s, r)
    BY <1>4, HandlePrepared
  <2> QED BY <2>1 DEF Prepared, Pend
<1>5. CASE Abort(s)
  BY <1>5 DEF Abort, db
<1>6. CASE Commit(s)
  <2> DEFINE r == req[s]
  <2>1. Apply(r) /\ Sound(r) /\ Wellformed(r) /\ ~ConstraintFails(r)
    BY <1>6 DEF Commit, PurchaseInv, TypeOK
  <2>2. r.order = n /\ r.act # "create_purchase_order"
    <3>1. CASE r.act = "create_purchase_order"
      <4>1. orders[r.order] = None
        BY <2>1, <3>1 DEF ConstraintFails
      <4> QED BY <2>1, <3>1, <4>1 DEF Apply, PurchaseInv, TypeOK
    <3>2. CASE r.act # "create_purchase_order" /\ r.order # n
      <4>1. orders'[n] = orders[n]
        BY <2>1, <3>2 DEF Apply, PurchaseInv, TypeOK
      <4>2. items'[n] = items[n]
        BY <2>1, <3>2 DEF Apply, PurchaseInv, TypeOK
      <4> QED BY <4>1, <4>2
    <3> QED BY <3>1, <3>2
  <2>3. n # 0 /\ r.act \in OnOrderRow
    <3>1. n # 0
      BY DEF Numbers
    <3>2. r.act \notin OnSupplierRow \cup {"create_supplier", None}
      BY <2>1, <2>2, <3>1 DEF Sound
    <3> QED BY <2>1, <2>2, <3>1, <3>2 DEF Wellformed, Handlers, OnSupplierRow, OnOrderRow
  <2>4. r.act \notin {"add_po_item", "remove_po_item", "soft_delete_po"}
    BY <2>2 DEF PurchaseInv, OrderFresh, Draft
  <2>5. items' = items
    BY <2>1, <2>4 DEF Apply
  <2>6. orders'[n] = Written(orders[n], r.set)
    BY <2>1, <2>2, <2>3 DEF Apply, PurchaseInv, TypeOK
  <2>7. OnRow(r, items[n]) /\ orders[n] \in PurchaseOrder
    BY <2>1, <2>2, <2>3 DEF OnRow, Sound, Wellformed, PurchaseInv, TypeOK
  <2>8. orders'[n].deleted = orders[n].deleted
    BY <2>4, <2>6, <2>7, OrderColumns
  <2> QED BY <1>1, <2>5, <2>8
<1> QED BY <1>3, <1>4, <1>5, <1>6

\* "PurchaseOrder can be modified only in Draft status": an issued order keeps
\* its items, has one, and is never deleted: _ensure_po_draft, update_po_status.
THEOREM IssuedFixed == Spec => IssuedIsFixed
<1> DEFINE A == \A n \in Numbers \ crossed : orders[n] # None /\ orders[n].status # "draft" =>
                  /\ items'[n] = items[n] /\ LiveItems(n) # {}
                  /\ ~orders'[n].deleted
<1>1. PurchaseInv /\ [Next]_vars => A
  BY IssuedStep
<1>2. PurchaseInv /\ [Next]_vars => [A]_vars
  BY <1>1
<1>3. IssuedIsFixed <=> [][A]_vars
  BY DEF IssuedIsFixed
<1> HIDE DEF A
<1> QED BY <1>2, <1>3, Inductive, PTL DEF Spec
=============================================================================
