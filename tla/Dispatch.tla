------------------------------ MODULE Dispatch ------------------------------
(***************************************************************************)
(* Dispatch orders, their documents and their release:                     *)
(* app/modules/dispatch/services.py behind app/modules/dispatch/routers.py.*)
(*                                                                         *)
(* A request is two steps of its database session: the handler, which      *)
(* reads, checks and leaves in req[s] what it is about to write, and       *)
(* Commit.  A handler that raises writes nothing and is no step.  Nothing  *)
(* here locks a row.  What the final inspections say is the quality        *)
(* module's to change: Shipping composes the two.                          *)
(***************************************************************************)
EXTENDS Naturals, Sequences, DocumentNumbers

CONSTANTS
  Dispatches,      \* dispatch numbers clients give
  Prods,           \* production orders
  Lines,           \* line numbers clients give, greater than zero
  Points,          \* checklist items clients name
  Sessions, None,
  SalesOf,         \* [Dispatches -> sales orders]  sales_order_id
  SalesOfProd,     \* [Prods -> sales orders]
  Certified,       \* production orders with a certificate of conformance
  Verdicts,        \* checklist statuses clients send
  MaxChecks        \* bound on the checklist rows of an order

Kind == {"PL", "INV", "DC"}   \* prefixes of the three documents' numbers
CheckStatus == {"pending", "completed", "failed", "waived"}

ASSUME DispatchConstants ==
  /\ Certified \subseteq Prods
  /\ Verdicts \subseteq CheckStatus
  /\ MaxChecks \in Nat

VARIABLES
  dispatch,    \* dispatch_orders, None before the INSERT
  items,       \* per order, its dispatch_items
  checklist,   \* per order, its dispatch_checklists, in id order
  documents,   \* per kind, packing_lists, dispatch_invoices, delivery_challans
  finals,      \* final_inspections, in id order
  req          \* per session, the request about to commit

db == <<dispatch, items, checklist, documents>>
vars == <<db, finals, req>>

DispatchStatus == {"draft", "reviewed", "released", "hold", "cancelled"}
Keep == "Keep"

DispatchOrder == [status : DispatchStatus, certificate : Prods \cup {None}]
DispatchItem == [line : Lines, prod : Prods]
DispatchChecklist == [point : Points, status : CheckStatus]
Document == [order : Dispatches, number : Nat]
FinalInspection == [prod : Prods, result : {"Pass", "Fail"}]

Handlers == {"create_dispatch_order", "add_dispatch_item", "verify_dispatch_checklist",
             "generate_document", "complete_dispatch"}

\* NULL is no value of a column.
ASSUME DispatchNone ==
  None \notin Dispatches \cup Prods \cup Lines \cup Points \cup Kind \cup DispatchOrder
              \cup Handlers

Request ==
  [ act : Handlers \cup {None}, order : Dispatches \cup {None},
    prod : Prods \cup {None},            \* of the item, or of the certificate
    line : Lines \cup {None}, point : Points \cup {None},
    row : Nat,                           \* checklist row updated; 0: one is inserted
    set : CheckStatus \cup {Keep},
    kind : Kind \cup {None}, number : Nat ]

Idle == [ act |-> None, order |-> None, prod |-> None, line |-> None, point |-> None,
          row |-> 0, set |-> Keep, kind |-> None, number |-> 0 ]

-----------------------------------------------------------------------------
(* Queries of the service.                                                 *)

\* _get_latest_final_inspection: inspection_date is the day of the INSERT, so
\* the latest by (inspection_date, id) is the last by id.
\* validate_final_inspection_required
FinalPassed(p) ==
  \E i \in DOMAIN finals :
    /\ finals[i] = [prod |-> p, result |-> "Pass"]
    /\ \A j \in DOMAIN finals : finals[j].prod = p => j <= i

\* Mutant: the release does not close the order.
AlwaysOpen(d) == dispatch[d] # None

\* _get_dispatch_order, _ensure_dispatch_not_completed
OpenForChange(d) == dispatch[d] # None /\ dispatch[d].status # "released"

HasDocument(kind, d) == \E x \in documents[kind] : x.order = d
NumbersUsed(kind) == {x.number : x \in documents[kind]}

\* _checklist_is_approved
ChecklistApproved(d) ==
  /\ checklist[d] # <<>>
  /\ \A i \in DOMAIN checklist[d] : checklist[d][i].status \in {"completed", "waived"}

\* Mutant: an order without a certificate is let through.
CertificateOptional(d) ==
  \E x \in items[d] : dispatch[d].certificate \in {x.prod, None}

\* _ensure_coc_exists_for_dispatch
CertificateOfItems(d) == \E x \in items[d] : x.prod = dispatch[d].certificate

\* Mutant: an inspection that passed once is enough.
ItemsPassedOnce(d) ==
  /\ items[d] # {}
  /\ \A x \in items[d] : [prod |-> x.prod, result |-> "Pass"] \in Range(finals)

\* _ensure_final_inspection_passed
ItemsInspected(d) == items[d] # {} /\ \A x \in items[d] : FinalPassed(x.prod)

-----------------------------------------------------------------------------
TypeOK ==
  /\ dispatch \in [Dispatches -> DispatchOrder \cup {None}]
  /\ items \in [Dispatches -> SUBSET DispatchItem]
  /\ checklist \in [Dispatches -> Seq(DispatchChecklist)]
  /\ documents \in [Kind -> SUBSET Document]
  /\ req \in [Sessions -> Request]

Init ==
  /\ dispatch = [d \in Dispatches |-> None]
  /\ items = [d \in Dispatches |-> {}]
  /\ checklist = [d \in Dispatches |-> <<>>]
  /\ documents = [k \in Kind |-> {}]
  /\ finals = <<>>
  /\ req = [s \in Sessions |-> Idle]

-----------------------------------------------------------------------------
(* The handlers, up to their commit.                                       *)

Pend(s, r) ==
  /\ req[s] = Idle
  /\ req' = [req EXCEPT ![s] = r]
  /\ UNCHANGED <<db, finals>>

\* A client may name a certificate, of whatever production order.
CreateDispatchOrder(s) ==
  \E d \in Dispatches, p \in Certified \cup {None} :
    /\ dispatch[d] = None
    /\ Pend(s, [Idle EXCEPT !.act = "create_dispatch_order", !.order = d, !.prod = p])

AddDispatchItem(s) ==
  \E d \in Dispatches, p \in Prods, n \in Lines :
    /\ OpenForChange(d)
    /\ SalesOfProd[p] = SalesOf[d]
    /\ Pend(s, [Idle EXCEPT !.act = "add_dispatch_item", !.order = d, !.prod = p, !.line = n])

\* The row of the named item is updated, whichever the query returns first
\* where there are several; without one, a row is inserted.
VerifyDispatchChecklist(s) ==
  \E d \in Dispatches, x \in Points, status \in Verdicts :
    LET rows == {i \in DOMAIN checklist[d] : checklist[d][i].point = x}
        request == [Idle EXCEPT !.act = "verify_dispatch_checklist", !.order = d, !.point = x]
    IN /\ OpenForChange(d)
       /\ IF rows = {}
          THEN /\ Len(checklist[d]) < MaxChecks
               /\ Pend(s, [request EXCEPT !.set = status])
          ELSE \E i \in rows :
                 Pend(s, [request EXCEPT !.row = i,
                            !.set = IF checklist[d][i].status = status THEN Keep ELSE status])

\* The shape the three document handlers share.
GenerateDocument(s, kind) ==
  \E d \in Dispatches :
    /\ OpenForChange(d)
    /\ ~HasDocument(kind, d)
    /\ Pend(s, [Idle EXCEPT !.act = "generate_document", !.order = d, !.kind = kind,
                  !.number = NextNumber(NumbersUsed(kind))])

GeneratePackingList(s) == GenerateDocument(s, "PL")
GenerateInvoice(s) == GenerateDocument(s, "INV")
GenerateDeliveryChallan(s) == GenerateDocument(s, "DC")

CompleteDispatch(s) ==
  \E d \in Dispatches :
    /\ OpenForChange(d)
    /\ ItemsInspected(d)
    /\ CertificateOfItems(d)
    /\ ChecklistApproved(d)
    /\ \A kind \in Kind : HasDocument(kind, d)
    /\ Pend(s, [Idle EXCEPT !.act = "complete_dispatch", !.order = d])

-----------------------------------------------------------------------------
\* Mutant: the numbers have no unique index.
NumbersNotUnique(r) ==
  /\ r.act = "generate_document"
  /\ \E x \in documents[r.kind] : x.order = r.order

\* unique(dispatch_number), unique(dispatch_order_id, line_number), and of
\* each document unique(number) and unique(dispatch_order_id)
ConstraintFails(r) ==
  \/ r.act = "create_dispatch_order" /\ dispatch[r.order] # None
  \/ r.act = "add_dispatch_item" /\ \E x \in items[r.order] : x.line = r.line
  \/ /\ r.act = "generate_document"
     /\ \E x \in documents[r.kind] : x.order = r.order \/ x.number = r.number

\* Mutant: an unchanged status is written too.
WrittenAnyhow(rows, r) ==
  IF r.row = 0 THEN Append(rows, [point |-> r.point, status |-> r.set])
  ELSE [rows EXCEPT ![r.row].status = r.set]

\* The rows as flushed: a column is written where it differs from what was read.
Checked(rows, r) ==
  CASE r.row = 0 -> Append(rows, [point |-> r.point, status |-> r.set])
    [] r.row # 0 /\ r.set # Keep -> [rows EXCEPT ![r.row].status = r.set]
    [] OTHER -> rows

Apply(r) ==
  /\ dispatch' =
       CASE r.act = "create_dispatch_order" ->
              [dispatch EXCEPT ![r.order] = [status |-> "draft", certificate |-> r.prod]]
         [] r.act = "complete_dispatch" -> [dispatch EXCEPT ![r.order].status = "released"]
         [] OTHER -> dispatch
  /\ items' = IF r.act = "add_dispatch_item"
              THEN [items EXCEPT ![r.order] = @ \cup {[line |-> r.line, prod |-> r.prod]}]
              ELSE items
  /\ checklist' = IF r.act = "verify_dispatch_checklist"
                  THEN [checklist EXCEPT ![r.order] = Checked(@, r)] ELSE checklist
  /\ documents' = IF r.act = "generate_document"
                  THEN [documents EXCEPT ![r.kind] =
                          @ \cup {[order |-> r.order, number |-> r.number]}]
                  ELSE documents

Commit(s) ==
  /\ req[s] # Idle
  /\ IF ConstraintFails(req[s]) THEN UNCHANGED db ELSE Apply(req[s])
  /\ req' = [req EXCEPT ![s] = Idle]
  /\ UNCHANGED finals

\* The worker or its connection dies before the commit: a rollback.
Abort(s) ==
  /\ req[s] # Idle
  /\ req' = [req EXCEPT ![s] = Idle]
  /\ UNCHANGED <<db, finals>>

Handle(s) ==
  \/ CreateDispatchOrder(s) \/ AddDispatchItem(s) \/ VerifyDispatchChecklist(s)
  \/ GeneratePackingList(s) \/ GenerateInvoice(s) \/ GenerateDeliveryChallan(s)
  \/ CompleteDispatch(s)

Next == \E s \in Sessions : Handle(s) \/ Commit(s) \/ Abort(s)

-----------------------------------------------------------------------------
Released(d) == dispatch[d] # None /\ dispatch[d].status = "released"

(* Whatever the interleaving of the requests.                              *)

\* Each kind is numbered 1, 2, 3, ... without a gap or a repetition, and an
\* order has one document of a kind, though two requests may compute the same
\* number, or both find that the order has none, and one of them then fails.
DocumentsNumbered ==
  \A k \in Kind :
    /\ NumbersUsed(k) = 1 .. Cardinality(documents[k])
    /\ \A x, y \in documents[k] : x.order = y.order => x = y

\* A released order keeps what its release rested on: its three documents, and
\* a certificate of a production order that it dispatches.
ReleasedIsDocumented ==
  \A d \in Dispatches : Released(d) =>
    /\ \E x \in items[d] : x.prod = dispatch[d].certificate
    /\ \A k \in Kind : HasDocument(k, d)
    /\ checklist[d] # <<>>
=============================================================================
