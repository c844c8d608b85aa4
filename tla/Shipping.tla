------------------------------ MODULE Shipping ------------------------------
(***************************************************************************)
(* Dispatch and the final inspections of Quality, on one database: the     *)
(* inspections a release rests on go on being decided while it is made.    *)
(***************************************************************************)
EXTENDS Dispatch

CONSTANTS Inspectors, MaxInspections, MaxNcrs

VARIABLES
  incoming, faiReports, ncrs, recommended, capas, analyses, gauges, qreq,
  raced   \* history: a release has been served together with another request

Quality == INSTANCE Quality WITH
  Sessions <- Inspectors, GrnItems <- {}, GaugeCodes <- {}, Linked <- {}, RepeatLimit <- 3

quality == <<incoming, faiReports, ncrs, recommended, capas, analyses, gauges, qreq>>
allVars == <<vars, quality, raced>>

\* A release is being served together with another request.
Racing ==
  \E s \in Sessions :
    /\ req[s].act = "complete_dispatch"
    /\ \/ \E t \in Sessions \ {s} : req[t] # Idle
       \/ \E t \in Inspectors : qreq[t] # Quality!QIdle

ShippingInit == Init /\ Quality!QInit /\ raced = FALSE

\* What follows on an NCR is of no concern to dispatch, and left out.
InspectionStep ==
  \E s \in Inspectors : Quality!Inspect(s) \/ Quality!QCommit(s) \/ Quality!QAbort(s)

ShippingNext ==
  /\ \/ Next /\ UNCHANGED quality
     \/ InspectionStep /\ UNCHANGED <<db, req>>
  /\ raced' = (raced \/ Racing')

ShippingSpec == ShippingInit /\ [][ShippingNext]_allVars

-----------------------------------------------------------------------------
(* As long as no release is served together with another request, whatever *)
(* the interleaving of the others.                                         *)

\* "Dispatch orders cannot be modified after terminal release state" (SOP):
\* no later request adds an unapproved check, or reopens one.
ReleasedIsApproved ==
  ~raced => \A d \in Dispatches : Released(d) => ChecklistApproved(d)

\* "every linked production order has passed final inspection" (SOP), in its
\* latest inspection and at the moment of the release.
ReleasedOnPass ==
  [][\A d \in Dispatches : ~raced /\ ~Released(d) /\ Released(d)' =>
       \A x \in items[d] : FinalPassed(x.prod)]_allVars
=============================================================================
