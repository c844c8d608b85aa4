-------------------------------- MODULE Sales --------------------------------
(***************************************************************************)
(* Enquiry, contract review, quotation, customer PO review, sales order:   *)
(* app/services/sales_service.py and app/api/v1/endpoints/sales.py.        *)
(*                                                                         *)
(* A request is two steps of its database session: the handler, which      *)
(* reads, checks and leaves in req[s] what it is about to write, and       *)
(* Commit.  A handler that raises writes nothing and is no step.  Every    *)
(* handler inserts one row; none changes or deletes one.                   *)
(***************************************************************************)
EXTENDS Naturals, Sequences, DocumentNumbers

CONSTANTS
  Sessions,    \* request sessions that may be open at once
  None,
  Enquiries,   \* enquiry numbers clients give
  CustomerPOs, \* customer PO numbers clients give
  MaxDocuments \* bound on the rows of a table

VARIABLES
  enquiries,   \* numbers of the enquiries
  reviews,     \* contract_reviews, in id order
  quotations,  \* quotations, in id order
  poReviews,   \* customer_po_reviews, in id order
  orders,      \* sales_orders, in id order
  req          \* per session, the request about to commit

db == <<enquiries, reviews, quotations, poReviews, orders>>
vars == <<db, req>>

ContractReviewStatus == {"pending", "approved", "rejected"}

\* checked: all five feasibility checks are true
ContractReview == [number : Nat, enquiry : Enquiries, status : ContractReviewStatus,
                   checked : BOOLEAN]
Quotation == [number : Nat, enquiry : Enquiries, review : Nat]
CustomerPOReview == [number : Nat, quotation : Nat, po : CustomerPOs, accepted : BOOLEAN]
SalesOrder == [enquiry : Enquiries, review : Nat, quotation : Nat, poReview : Nat]

Handlers == {"create_enquiry", "create_contract_review", "create_quotation",
             "create_customer_po_review", "create_sales_order"}

\* A row of one of the tables, by the handler that inserts it.
Row(act) ==
  CASE act = "create_enquiry" -> Enquiries
    [] act = "create_contract_review" -> ContractReview
    [] act = "create_quotation" -> Quotation
    [] act = "create_customer_po_review" -> CustomerPOReview
    [] act = "create_sales_order" -> SalesOrder

Idle == [act |-> None, row |-> None]

TypeOK ==
  /\ enquiries \subseteq Enquiries
  /\ reviews \in Seq(ContractReview)
  /\ quotations \in Seq(Quotation)
  /\ poReviews \in Seq(CustomerPOReview)
  /\ orders \in Seq(SalesOrder)
  /\ \A s \in Sessions : req[s] = Idle \/ (req[s].act \in Handlers /\ req[s].row \in Row(req[s].act))

Init ==
  /\ enquiries = {} /\ reviews = <<>> /\ quotations = <<>>
  /\ poReviews = <<>> /\ orders = <<>>
  /\ req = [s \in Sessions |-> Idle]

-----------------------------------------------------------------------------
(* The handlers, up to their commit.                                       *)

Pend(s, act, row) ==
  /\ req[s] = Idle
  /\ req' = [req EXCEPT ![s] = [act |-> act, row |-> row]]
  /\ UNCHANGED db

\* The bound counts the rows about to be committed.
Room(act, table) ==
  Len(table) + Cardinality({s \in Sessions : req[s].act = act}) < MaxDocuments

NumbersOf(table) == {table[i].number : i \in DOMAIN table}

CreateEnquiry(s) == \E e \in Enquiries : Pend(s, "create_enquiry", e)

\* An enquiry has one review; status and checks are as the client sends them.
CreateContractReview(s) ==
  \E e \in enquiries, status \in ContractReviewStatus, checked \in BOOLEAN :
    /\ Room("create_contract_review", reviews)
    /\ \A i \in DOMAIN reviews : reviews[i].enquiry # e
    /\ Pend(s, "create_contract_review",
            [number |-> NextNumber(NumbersOf(reviews)), enquiry |-> e,
             status |-> status, checked |-> checked])

\* validate_contract_review_for_quotation: the checks, not the status.  The
\* client names the enquiry apart from the review.
CreateQuotation(s) ==
  \E e \in enquiries, r \in DOMAIN reviews :
    /\ Room("create_quotation", quotations)
    /\ reviews[r].checked
    /\ Pend(s, "create_quotation",
            [number |-> NextNumber(NumbersOf(quotations)), enquiry |-> e, review |-> r])

CreateCustomerPOReview(s) ==
  \E q \in DOMAIN quotations, po \in CustomerPOs, accepted \in BOOLEAN :
    /\ Room("create_customer_po_review", poReviews)
    /\ reviews[quotations[q].review].checked
    /\ Pend(s, "create_customer_po_review",
            [number |-> NextNumber(NumbersOf(poReviews)), quotation |-> q, po |-> po,
             accepted |-> accepted])

\* Mutant: the feasibility checks stand for the approval.
CheckedOnly(r) == reviews[r].checked

\* validate_sales_order_creation, of the contract review
Approved(r) == reviews[r].status = "approved" /\ reviews[r].checked

\* Mutant: the PO review need not be of the quotation.
Accepted(p, q) == poReviews[p].accepted

\* validate_sales_order_creation, of the PO review
AcceptedFor(p, q) == poReviews[p].accepted /\ poReviews[p].quotation = q

CreateSalesOrder(s) ==
  \E e \in enquiries, r \in DOMAIN reviews, q \in DOMAIN quotations, p \in DOMAIN poReviews :
    /\ Room("create_sales_order", orders)
    /\ Approved(r)
    /\ quotations[q].review = r
    /\ AcceptedFor(p, q)
    /\ Pend(s, "create_sales_order", [enquiry |-> e, review |-> r, quotation |-> q, poReview |-> p])

-----------------------------------------------------------------------------
\* unique(enquiry_number), unique(enquiry_id) of the reviews,
\* unique(document_number) of the three documents,
\* uq_customer_po_reviews_quotation_po
ConstraintFails(r) ==
  \/ r.act = "create_enquiry" /\ r.row \in enquiries
  \/ /\ r.act = "create_contract_review"
     /\ \E i \in DOMAIN reviews :
          reviews[i].enquiry = r.row.enquiry \/ reviews[i].number = r.row.number
  \/ r.act = "create_quotation" /\ r.row.number \in NumbersOf(quotations)
  \/ /\ r.act = "create_customer_po_review"
     /\ \E i \in DOMAIN poReviews :
          \/ poReviews[i].number = r.row.number
          \/ poReviews[i].quotation = r.row.quotation /\ poReviews[i].po = r.row.po

Inserted(table, act, r) == IF r.act = act THEN Append(table, r.row) ELSE table

Apply(r) ==
  /\ enquiries' = IF r.act = "create_enquiry" THEN enquiries \cup {r.row} ELSE enquiries
  /\ reviews' = Inserted(reviews, "create_contract_review", r)
  /\ quotations' = Inserted(quotations, "create_quotation", r)
  /\ poReviews' = Inserted(poReviews, "create_customer_po_review", r)
  /\ orders' = Inserted(orders, "create_sales_order", r)

Commit(s) ==
  /\ req[s] # Idle
  /\ IF ConstraintFails(req[s]) THEN UNCHANGED db ELSE Apply(req[s])
  /\ req' = [req EXCEPT ![s] = Idle]

\* The worker or its connection dies before the commit: a rollback.
Abort(s) ==
  /\ req[s] # Idle
  /\ req' = [req EXCEPT ![s] = Idle]
  /\ UNCHANGED db

Handle(s) ==
  \/ CreateEnquiry(s) \/ CreateContractReview(s) \/ CreateQuotation(s)
  \/ CreateCustomerPOReview(s) \/ CreateSalesOrder(s)

Next == \E s \in Sessions : Handle(s) \/ Commit(s) \/ Abort(s)

Spec == Init /\ [][Next]_vars

-----------------------------------------------------------------------------
\* Each sales order goes back, over its PO review and its quotation, to one
\* contract review that was approved with all its checks, the only one of its
\* enquiry, whatever requests overlapped on the way.
OrdersTraceToApproval ==
  \A i \in DOMAIN orders :
    LET q == poReviews[orders[i].poReview].quotation
        r == quotations[q].review
    IN /\ poReviews[orders[i].poReview].accepted
       /\ orders[i].quotation = q /\ orders[i].review = r
       /\ reviews[r].status = "approved" /\ reviews[r].checked
       /\ \A j \in DOMAIN reviews : reviews[j].enquiry = reviews[r].enquiry => j = r
=============================================================================
