------------------------------ MODULE MCOffices ------------------------------
(***************************************************************************)
(* Small instances of the components that share no table: Sales,           *)
(* Engineering, Maintenance, Quality and Auth.  As their steps commute, a  *)
(* behaviour plays one of them, or one scene of it; the others rest.       *)
(***************************************************************************)
EXTENDS Integers, Sequences, FiniteSets, TLC

CONSTANTS
  Sessions, None,
  Enquiries, CustomerPOs, MaxDocuments,
  Drawings, Codes, Cards, RouteNumbers, SalesOrders, Numbers, Places, MaxRevisions, MaxOps,
  Machines, Breakdowns, WorkOrders, Verdicts, MaxHistory,
  GrnItems, Prods, Linked, GaugeCodes, RepeatLimit, MaxInspections, MaxNcrs,
  Users, Roles, OAuthStates, MaxFailed, MaxSessions, MaxTokens, MaxCount

VARIABLES
  office,
  enquiries, reviews, quotations, poReviews, orders, salesReq,
  drawings, revisions, cards, operations, designReq, designCrossed,
  machines, history, breakdowns, workOrders, plantReq, plantCrossed,
  incoming, finals, faiReports, ncrs, recommended, capas, analyses, gauges, qreq,
  users, roles, tokens, oauth, authReq, authCrossed

Selling == INSTANCE Sales WITH req <- salesReq
Design == INSTANCE EngineeringProofs WITH req <- designReq, crossed <- designCrossed
Plant == INSTANCE Maintenance WITH req <- plantReq, crossed <- plantCrossed
Inspecting == INSTANCE QualityProofs
Access == INSTANCE AuthProofs WITH req <- authReq, crossed <- authCrossed

salesVars == <<enquiries, reviews, quotations, poReviews, orders, salesReq>>
designVars == <<drawings, revisions, cards, operations, designReq, designCrossed>>
plantVars == <<machines, history, breakdowns, workOrders, plantReq, plantCrossed>>
qualityVars == <<incoming, finals, faiReports, ncrs, recommended, capas, analyses, gauges, qreq>>
authVars == <<users, roles, tokens, oauth, authReq, authCrossed>>
vars == <<office, salesVars, designVars, plantVars, qualityVars, authVars>>

\* What the components assume of their constants.
ASSUME OfficesConstants ==
  /\ Design!EngineeringConstants /\ Plant!MaintenanceConstants
  /\ Inspecting!QualityConstants /\ Access!AuthConstants
  /\ MaxFailed > 0

Offices == {"sales", "drawings", "routes", "cards", "maintenance", "incoming", "final",
            "fai", "logins", "accounts"}

\* An operation number is any integer.
BelowZero == {-20}

-----------------------------------------------------------------------------
(* The scenes: what the requests of a component are about.                 *)

\* One sales order of up to two of each document before it.
OneOrder(r) ==
  r.act = "create_sales_order" => orders = <<>> /\ Len(poReviews) = 2

\* Revisions of a drawing, more than a scene with route cards can have.
DrawingsOnly(r) == r.card = None

\* One card, on one of two revisions; an operation is changed while it is the
\* only one.
OneCard(r) ==
  /\ r.act # "update_revision"
  /\ r.act = "create_revision" => Len(revisions) < 2 /\ r.set.current /\ r.set.approved
  /\ r.card \in {None, CHOOSE c \in Cards : TRUE}
  /\ r.act = "update_route_operation" => Len(operations[r.card]) = 1
  /\ r.act = "add_route_operation" =>
       r.set.place = Len(operations[r.card]) + 1 /\ r.set.number \notin Numbers

\* Two cards, which may be given the same number.
RouteNumbersOnly(r) ==
  /\ r.act \notin {"update_revision", "add_route_operation"}
  /\ r.act = "create_revision" => revisions = <<>> /\ r.set.current /\ r.set.approved

Incoming == {"create_incoming_inspection", "update_incoming_inspection_result", "close_ncr",
             "create_gauge"}
Final == {"create_final_inspection", "complete_final_inspection", "close_ncr"}
Fai == {"create_fai_report", "create_ncr", "close_ncr", "create_capa",
        "create_root_cause_analysis"}

\* Refresh tokens of a local account, which may be locked or disabled.
Logins(r) ==
  /\ r.act \notin {"google_login", "consume_state", "update_role", "log_deletion"}
  /\ r.act = "create_user" => r.set.provider = "local"
  /\ r.act = "update_user" => DOMAIN r.set = {"active"} \/ "failed" \in DOMAIN r.set

\* What administrators and Google do to an account with at most one token.
Accounts(r) ==
  /\ r.act \notin {"login", "refresh_token", "logout", "logout_all"}
  /\ r.inserts <= 1

TypeOK ==
  /\ Selling!TypeOK /\ Design!TypeOK /\ Plant!TypeOK /\ Inspecting!QTypeOK /\ Access!TypeOK
  /\ office \in Offices

Init ==
  /\ Selling!Init /\ Design!Init /\ Plant!Init /\ Inspecting!QInit /\ Access!Init
  /\ office \in Offices

Sell ==
  /\ office = "sales"
  /\ Selling!Next
  /\ \A s \in Sessions : salesReq'[s] # salesReq[s] => OneOrder(salesReq'[s])

Engineer ==
  /\ office \in {"drawings", "routes", "cards"}
  /\ Design!Next
  /\ \A s \in Sessions : designReq'[s] # designReq[s] =>
       CASE office = "drawings" -> DrawingsOnly(designReq'[s])
         [] office = "routes" -> RouteNumbersOnly(designReq'[s])
         [] office = "cards" -> OneCard(designReq'[s])

Maintain == office = "maintenance" /\ Plant!Next

Inspect ==
  /\ office \in {"incoming", "final", "fai"}
  /\ Inspecting!QNext
  /\ \A s \in Sessions :
       qreq'[s].act \in {None} \cup CASE office = "incoming" -> Incoming
                                      [] office = "final" -> Final
                                      [] office = "fai" -> Fai

Admit ==
  /\ office \in {"logins", "accounts"}
  /\ Access!Next
  /\ \A s \in Sessions :
       IF office = "logins" THEN Logins(authReq'[s]) ELSE Accounts(authReq'[s])

Next ==
  \/ Sell /\ UNCHANGED <<office, designVars, plantVars, qualityVars, authVars>>
  \/ Engineer /\ UNCHANGED <<office, salesVars, plantVars, qualityVars, authVars>>
  \/ Maintain /\ UNCHANGED <<office, salesVars, designVars, qualityVars, authVars>>
  \/ Inspect /\ UNCHANGED <<office, salesVars, designVars, plantVars, authVars>>
  \/ Admit /\ UNCHANGED <<office, salesVars, designVars, plantVars, qualityVars>>

Spec == Init /\ [][Next]_vars

Interchangeable == Permutations(Sessions) \cup Permutations(Codes)

-----------------------------------------------------------------------------
\* Sales: a sales order goes back to one approved contract review.
OrdersTraceToApproval == Selling!OrdersTraceToApproval

\* Engineering: a change of a drawing's current revision leaves exactly one.
OneCurrentRevision == Design!OneCurrentRevision

\* Engineering: a released card keeps its revision, order and operations.
ReleasedIsFixed == Design!ReleasedIsFixed

\* Maintenance: a machine's history is a chain that ends in its status.
HistoryTellsStatus == Plant!HistoryTellsStatus

\* Maintenance: a breakdown takes its machine down.
BreakdownStopsMachine == Plant!BreakdownStopsMachine

\* Maintenance: a breakdown has its work order, and its verdict a completed one.
EveryBreakdownHasWorkOrder == Plant!EveryBreakdownHasWorkOrder

\* Quality: a rejection opens its NCR in the same step.
RejectionsReported == Inspecting!RejectionsReported

\* Quality: repeated NCRs on one record lead to the recommendation of a CAPA.
RepeatsRecommended == Inspecting!RepeatsRecommended

\* Auth: the limit on valid refresh tokens holds, refreshes included.
SessionLimitHolds == Access!SessionLimitHolds

\* Auth: refresh tokens are issued for usable accounts only.
IssuedToUsable == Access!IssuedToUsable

\* Auth: logging out from all sessions leaves no valid refresh token.
LogoutAllEndsSessions == Access!LogoutAllEndsSessions
=============================================================================
