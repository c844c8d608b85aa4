------------------------------- MODULE Quality -------------------------------
(***************************************************************************)
(* Inspections, nonconformance and gauges: app/modules/quality/services.py *)
(* (the in-process inspections are in Production).                         *)
(*                                                                         *)
(* A request is two steps of its database session: the handler, which      *)
(* reads, checks and leaves in qreq[s] what it is about to write, and      *)
(* Commit.  A handler that raises writes nothing and is no step.           *)
(***************************************************************************)
EXTENDS Naturals, Sequences, FiniteSets

CONSTANTS
  Sessions,      \* request sessions that may be open at once
  None,
  GrnItems,      \* goods receipt items
  Prods,         \* production orders
  Linked,        \* those whose sales order, quotation and PO review agree
  GaugeCodes,
  RepeatLimit,   \* NCRs on one record before a CAPA is recommended: 3 in the code
  MaxInspections, MaxNcrs  \* bounds: inspections of a kind, NCRs on one record

VARIABLES
  incoming,     \* incoming_inspections, in id order
  finals,       \* final_inspections, in id order
  faiReports,   \* production orders of the fai_reports, in id order
  ncrs,         \* per record, the status of the NCRs on it, in id order
  recommended,  \* records a CAPA_RECOMMENDED entry was logged for
  capas,        \* <<record, n>>: a CAPA exists for the record's n-th NCR
  analyses,     \* <<record, n>>: a root cause analysis exists for it
  gauges,       \* gauge rows
  qreq          \* per session, the request about to commit

qdb == <<incoming, finals, faiReports, ncrs, recommended, capas, analyses, gauges>>
qvars == <<qdb, qreq>>

IncomingStatus == {"Pending", "Accepted", "Rejected"}
FinalResult == {"Pass", "Fail"}
NcrStatus == {"Open", "Investigating", "Closed"}
GaugeStatus == {"Valid", "Expired"}
IncomingInspection == [item : GrnItems, status : IncomingStatus]
FinalInspection == [prod : Prods, result : FinalResult]
Gauge == [code : GaugeCodes, status : GaugeStatus]

\* What an NCR is about: reference_type and reference_id.
Record == {"IncomingInspection", "FinalInspection", "FAIReport"} \X (1..MaxInspections)
Ref(type, i) == <<type, i>>

Handlers == {"create_incoming_inspection", "update_incoming_inspection_result",
             "create_final_inspection", "complete_final_inspection",
             "create_fai_report", "create_ncr", "close_ncr", "create_capa",
             "create_root_cause_analysis", "create_gauge"}
Keep == "Keep"

Request ==
  [ act : Handlers \cup {None}, id : Nat, on : GrnItems \cup Prods \cup GaugeCodes \cup {None},
    set : IncomingStatus \cup FinalResult \cup NcrStatus \cup GaugeStatus \cup {Keep},
    ncr : Record \cup {None},    \* the record an NCR is opened or handled on
    recommends : BOOLEAN ]       \* with a CAPA_RECOMMENDED entry

QIdle == [ act |-> None, id |-> 0, on |-> None, set |-> Keep, ncr |-> None,
           recommends |-> FALSE ]

-----------------------------------------------------------------------------
QTypeOK ==
  /\ incoming \in Seq(IncomingInspection)
  /\ finals \in Seq(FinalInspection)
  /\ faiReports \in Seq(Prods)
  /\ ncrs \in [Record -> Seq(NcrStatus)]
  /\ recommended \subseteq Record
  /\ capas \subseteq Record \X Nat
  /\ analyses \subseteq Record \X Nat
  /\ gauges \subseteq Gauge
  /\ qreq \in [Sessions -> Request]

QInit ==
  /\ incoming = <<>> /\ finals = <<>> /\ faiReports = <<>>
  /\ ncrs = [r \in Record |-> <<>>]
  /\ recommended = {} /\ capas = {} /\ analyses = {} /\ gauges = {}
  /\ qreq = [s \in Sessions |-> QIdle]

-----------------------------------------------------------------------------
(* The handlers, up to their commit.                                       *)

QPend(s, r) ==
  /\ qreq[s] = QIdle
  /\ qreq' = [qreq EXCEPT ![s] = r]
  /\ UNCHANGED qdb

\* The ORM writes a status only where it differs from the one read.
Written(saw, new) == IF new = saw THEN Keep ELSE new

\* Mutant: the count leaves out the NCR being created.
CountsOthers(r) == Len(ncrs[r]) > RepeatLimit

\* check_repeated_ncr, after the flush: the committed NCRs and the new one.
Repeated(r) == Len(ncrs[r]) + 1 > RepeatLimit

\* Mutant: a rejection opens no NCR when its record has one.
FirstNcrOnly(request, r) ==
  IF Len(ncrs[r]) > 0 THEN request
  ELSE [request EXCEPT !.ncr = r, !.recommends = Repeated(r)]

\* _create_ncr_record: in the transaction of its caller.
WithNcr(request, r) == [request EXCEPT !.ncr = r, !.recommends = Repeated(r)]

\* The bounds count the rows about to be committed.
Opening(act) == Cardinality({s \in Sessions : qreq[s].act = act})
NcrsOpening(r) == Cardinality({s \in Sessions : qreq[s].ncr = r})
Room(r) == Len(ncrs[r]) + NcrsOpening(r) < MaxNcrs

CreateIncomingInspection(s) ==
  \E g \in GrnItems :
    /\ Len(incoming) + Opening("create_incoming_inspection") < MaxInspections
    /\ QPend(s, [QIdle EXCEPT !.act = "create_incoming_inspection", !.on = g])

\* An inspection is decided again as often as a client asks.
UpdateIncomingInspectionResult(s) ==
  \E i \in DOMAIN incoming, result \in IncomingStatus \ {"Pending"} :
    LET r == Ref("IncomingInspection", i)
        request == [QIdle EXCEPT !.act = "update_incoming_inspection_result", !.id = i,
                                 !.set = Written(incoming[i].status, result)]
    IN IF result = "Rejected"
       THEN Room(r) /\ QPend(s, WithNcr(request, r))
       ELSE QPend(s, request)

\* Created as Fail, to keep a release blocked until it is completed.
CreateFinalInspection(s) ==
  \E p \in Prods :
    /\ Len(finals) + Opening("create_final_inspection") < MaxInspections
    /\ QPend(s, [QIdle EXCEPT !.act = "create_final_inspection", !.on = p])

CompleteFinalInspection(s) ==
  \E i \in DOMAIN finals, result \in FinalResult :
    LET r == Ref("FinalInspection", i)
        request == [QIdle EXCEPT !.act = "complete_final_inspection", !.id = i,
                                 !.set = Written(finals[i].result, result)]
    IN IF result = "Fail"
       THEN Room(r) /\ QPend(s, WithNcr(request, r))
       ELSE QPend(s, request)

\* _validate_sales_document_linkage_for_production_order
CreateFaiReport(s) ==
  \E p \in Linked :
    /\ Len(faiReports) + Opening("create_fai_report") < MaxInspections
    /\ QPend(s, [QIdle EXCEPT !.act = "create_fai_report", !.on = p])

\* Clients open NCRs on FAI reports only.
CreateNcr(s) ==
  \E i \in DOMAIN faiReports : LET r == Ref("FAIReport", i) IN
    /\ faiReports[i] \in Linked
    /\ Room(r)
    /\ QPend(s, WithNcr([QIdle EXCEPT !.act = "create_ncr"], r))

\* Whatever its status, and with or without a CAPA.
CloseNcr(s) ==
  \E r \in Record : \E n \in DOMAIN ncrs[r] :
    QPend(s, [QIdle EXCEPT !.act = "close_ncr", !.ncr = r, !.id = n,
                           !.set = Written(ncrs[r][n], "Closed")])

CreateCapa(s) ==
  \E i \in DOMAIN faiReports : LET r == Ref("FAIReport", i) IN
    \E n \in DOMAIN ncrs[r] :
      /\ faiReports[i] \in Linked
      /\ QPend(s, [QIdle EXCEPT !.act = "create_capa", !.ncr = r, !.id = n])

CreateRootCauseAnalysis(s) ==
  \E r \in Record : \E n \in DOMAIN ncrs[r] :
    QPend(s, [QIdle EXCEPT !.act = "create_root_cause_analysis", !.ncr = r, !.id = n])

\* Expired when its next calibration is due before today; nothing ages it later.
CreateGauge(s) ==
  \E c \in GaugeCodes, status \in GaugeStatus :
    /\ \A g \in gauges : g.code # c
    /\ QPend(s, [QIdle EXCEPT !.act = "create_gauge", !.on = c, !.set = status])

-----------------------------------------------------------------------------
\* unique(gauge_code)
GaugeCodeTaken(r) == r.act = "create_gauge" /\ \E g \in gauges : g.code = r.on

OpensNcr(r) ==
  r.ncr # None /\ r.act \in {"create_ncr", "update_incoming_inspection_result",
                             "complete_final_inspection"}

QApply(r) ==
  /\ incoming' = CASE r.act = "create_incoming_inspection" ->
                        Append(incoming, [item |-> r.on, status |-> "Pending"])
                   [] r.act = "update_incoming_inspection_result" /\ r.set # Keep ->
                        [incoming EXCEPT ![r.id].status = r.set]
                   [] OTHER -> incoming
  /\ finals' = CASE r.act = "create_final_inspection" ->
                      Append(finals, [prod |-> r.on, result |-> "Fail"])
                 [] r.act = "complete_final_inspection" /\ r.set # Keep ->
                      [finals EXCEPT ![r.id].result = r.set]
                 [] OTHER -> finals
  /\ faiReports' = IF r.act = "create_fai_report" THEN Append(faiReports, r.on) ELSE faiReports
  /\ ncrs' = CASE OpensNcr(r) -> [ncrs EXCEPT ![r.ncr] = Append(@, "Open")]
               [] r.act = "close_ncr" /\ r.set # Keep -> [ncrs EXCEPT ![r.ncr][r.id] = r.set]
               [] OTHER -> ncrs
  /\ recommended' = IF r.recommends THEN recommended \cup {r.ncr} ELSE recommended
  /\ capas' = IF r.act = "create_capa" THEN capas \cup {<<r.ncr, r.id>>} ELSE capas
  /\ analyses' = IF r.act = "create_root_cause_analysis"
                 THEN analyses \cup {<<r.ncr, r.id>>} ELSE analyses
  /\ gauges' = IF r.act = "create_gauge"
               THEN gauges \cup {[code |-> r.on, status |-> r.set]} ELSE gauges

QCommit(s) ==
  /\ qreq[s] # QIdle
  /\ IF GaugeCodeTaken(qreq[s]) THEN UNCHANGED qdb ELSE QApply(qreq[s])
  /\ qreq' = [qreq EXCEPT ![s] = QIdle]

\* The worker or its connection dies before the commit: a rollback, of the
\* flushed NCR too.
QAbort(s) ==
  /\ qreq[s] # QIdle
  /\ qreq' = [qreq EXCEPT ![s] = QIdle]
  /\ UNCHANGED qdb

Inspect(s) ==
  \/ CreateIncomingInspection(s) \/ UpdateIncomingInspectionResult(s)
  \/ CreateFinalInspection(s) \/ CompleteFinalInspection(s)

Correct(s) ==
  \/ CreateFaiReport(s) \/ CreateNcr(s) \/ CloseNcr(s) \/ CreateCapa(s)
  \/ CreateRootCauseAnalysis(s) \/ CreateGauge(s)

QNext == \E s \in Sessions : Inspect(s) \/ Correct(s) \/ QCommit(s) \/ QAbort(s)

QSpec == QInit /\ [][QNext]_qvars

-----------------------------------------------------------------------------
\* No rejection goes unreported: the NCR is in the transaction that rejects
\* the material or fails what had passed, whatever commits before it.
RejectionsReported ==
  [][/\ \A i \in DOMAIN incoming :
          incoming[i].status # "Rejected" /\ incoming'[i].status = "Rejected" =>
            LET r == Ref("IncomingInspection", i) IN Len(ncrs'[r]) = Len(ncrs[r]) + 1
     /\ \A i \in DOMAIN finals :
          finals[i].result = "Pass" /\ finals'[i].result = "Fail" =>
            LET r == Ref("FinalInspection", i) IN Len(ncrs'[r]) = Len(ncrs[r]) + 1]_qvars

\* "Repeated defect detected more than 3 times. CAPA recommended.": requests
\* that open NCRs on one record at the same time do not see one another's, so
\* the recommendation comes late, by one NCR for each session but one.
RepeatsRecommended ==
  \A r \in Record :
    Len(ncrs[r]) > RepeatLimit + Cardinality(Sessions) - 1 => r \in recommended
=============================================================================
