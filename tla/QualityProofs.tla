---------------------------- MODULE QualityProofs ----------------------------
(***************************************************************************)
(* Proofs about Quality, for every finite number of sessions and every     *)
(* number of inspections and NCRs.                                         *)
(***************************************************************************)
EXTENDS Quality, FiniteSetTheorems, SequenceTheorems, TLAPS

\* What the proofs assume of the constants: NULL is no value of a column, and
\* one NCR alone recommends nothing.
QualityConstants ==
  /\ IsFiniteSet(Sessions)
  /\ Linked \subseteq Prods
  /\ RepeatLimit \in Nat \ {0} /\ MaxInspections \in Nat
  /\ None \notin Handlers \cup Record

-----------------------------------------------------------------------------
(* What a handler has checked of its request and what no commit of another *)
(* request undoes: a row that is there stays.                              *)

\* What a request names is there.
Named(r) ==
  /\ r.act = "create_incoming_inspection" => r.on \in GrnItems
  /\ r.act = "update_incoming_inspection_result" =>
       r.id \in DOMAIN incoming /\ r.set \in IncomingStatus \cup {Keep}
  /\ r.act \in {"create_final_inspection", "create_fai_report"} => r.on \in Prods
  /\ r.act = "complete_final_inspection" =>
       r.id \in DOMAIN finals /\ r.set \in FinalResult \cup {Keep}
  /\ r.act \in {"close_ncr", "create_capa", "create_root_cause_analysis"} => r.ncr \in Record
  /\ r.act = "close_ncr" => r.id \in DOMAIN ncrs[r.ncr] /\ r.set \in NcrStatus \cup {Keep}
  /\ r.act = "create_gauge" => r.on \in GaugeCodes /\ r.set \in GaugeStatus

\* A rejection carries its NCR, and only an NCR being opened a recommendation.
Reports(r) ==
  /\ r.act = "update_incoming_inspection_result" /\ r.set = "Rejected" =>
       r.ncr = Ref("IncomingInspection", r.id) /\ r.ncr \in Record
  /\ r.act = "complete_final_inspection" /\ r.set = "Fail" =>
       r.ncr = Ref("FinalInspection", r.id) /\ r.ncr \in Record
  /\ r.recommends => OpensNcr(r)

Sound(r) == Named(r) /\ Reports(r)

\* Rows and rows about to be committed, of one kind.
WithinBound(table, act) == Len(table) + Opening(act) <= MaxInspections

\* The requests that open an NCR on a record and have not seen it repeated.
Unaware(x) == {s \in Sessions : OpensNcr(qreq[s]) /\ qreq[s].ncr = x /\ ~qreq[s].recommends}

\* As long as no CAPA is recommended on a record, each of them began when the
\* limit was not reached.
LimitInView(x) ==
  x \notin recommended =>
    Len(ncrs[x]) + Cardinality(Unaware(x)) <= RepeatLimit + Cardinality(Sessions) - 1

QualityInv ==
  /\ QTypeOK
  /\ \A s \in Sessions : Sound(qreq[s])
  /\ WithinBound(incoming, "create_incoming_inspection")
  /\ WithinBound(finals, "create_final_inspection")
  /\ WithinBound(faiReports, "create_fai_report")
  /\ \A x \in Record : LimitInView(x)

\* What a handler has seen when it leaves its request.
Fresh(r) ==
  /\ r.act = "create_incoming_inspection" => Len(incoming) + Opening(r.act) < MaxInspections
  /\ r.act = "create_final_inspection" => Len(finals) + Opening(r.act) < MaxInspections
  /\ r.act = "create_fai_report" => Len(faiReports) + Opening(r.act) < MaxInspections
  /\ OpensNcr(r) => (r.recommends <=> Repeated(r.ncr))

-----------------------------------------------------------------------------
LEMMA IdleFields ==
  ASSUME QualityConstants
  PROVE  /\ QIdle \in Request /\ QIdle.act = None /\ QIdle.ncr = None /\ ~QIdle.recommends
         /\ QIdle.set = Keep /\ QIdle.id = 0
         /\ Sound(QIdle) /\ ~OpensNcr(QIdle)
  BY DEF QualityConstants, QIdle, Request, Sound, Named, Reports, OpensNcr, Handlers

\* A record of an inspection or FAI report that is there.
LEMMA RefIsRecord ==
  ASSUME QualityConstants, QualityInv
  PROVE  /\ \A i \in DOMAIN incoming : Ref("IncomingInspection", i) \in Record
         /\ \A i \in DOMAIN finals : Ref("FinalInspection", i) \in Record
         /\ \A i \in DOMAIN faiReports : Ref("FAIReport", i) \in Record
<1>1. \A act \in Handlers : Opening(act) \in Nat
  BY FS_Subset, FS_CardinalityType DEF QualityConstants, Opening
<1>2. Len(incoming) <= MaxInspections /\ Len(finals) <= MaxInspections
      /\ Len(faiReports) <= MaxInspections
  BY <1>1 DEF QualityInv, QTypeOK, WithinBound, QualityConstants, Handlers
<1> QED BY <1>2 DEF QualityInv, QTypeOK, QualityConstants, Ref, Record

LEMMA HandleSound ==
  ASSUME QualityConstants, QualityInv, NEW s \in Sessions, Inspect(s) \/ Correct(s)
  PROVE  \E r \in Request : QPend(s, r) /\ Sound(r) /\ Fresh(r)
<1> USE DEF Sound, Named, Reports, Fresh
<1>1. CASE CreateIncomingInspection(s)
  <2>1. PICK g \in GrnItems :
          /\ Len(incoming) + Opening("create_incoming_inspection") < MaxInspections
          /\ QPend(s, [QIdle EXCEPT !.act = "create_incoming_inspection", !.on = g])
    BY <1>1 DEF CreateIncomingInspection
  <2> DEFINE r == [QIdle EXCEPT !.act = "create_incoming_inspection", !.on = g]
  <2>2. r \in Request /\ r.act = "create_incoming_inspection" /\ r.on = g /\ ~r.recommends
    BY IdleFields DEF Request, Handlers
  <2>3. QPend(s, r)
    BY <2>1
  <2> HIDE DEF r
  <2> QED BY <2>1, <2>2, <2>3 DEF OpensNcr
<1>2. CASE CreateFinalInspection(s)
  <2>1. PICK p \in Prods :
          /\ Len(finals) + Opening("create_final_inspection") < MaxInspections
          /\ QPend(s, [QIdle EXCEPT !.act = "create_final_inspection", !.on = p])
    BY <1>2 DEF CreateFinalInspection
  <2> DEFINE r == [QIdle EXCEPT !.act = "create_final_inspection", !.on = p]
  <2>2. r \in Request /\ r.act = "create_final_inspection" /\ r.on = p /\ ~r.recommends
    BY IdleFields DEF Request, Handlers
  <2>3. QPend(s, r)
    BY <2>1
  <2> HIDE DEF r
  <2> QED BY <2>1, <2>2, <2>3 DEF OpensNcr
<1>3. CASE CreateFaiReport(s)
  <2>1. PICK p \in Linked :
          /\ Len(faiReports) + Opening("create_fai_report") < MaxInspections
          /\ QPend(s, [QIdle EXCEPT !.act = "create_fai_report", !.on = p])
    BY <1>3 DEF CreateFaiReport
  <2> DEFINE r == [QIdle EXCEPT !.act = "create_fai_report", !.on = p]
  <2>2. r \in Request /\ r.act = "create_fai_report" /\ r.on = p /\ p \in Prods /\ ~r.recommends
    BY IdleFields DEF Request, Handlers, QualityConstants
  <2>3. QPend(s, r)
    BY <2>1
  <2> HIDE DEF r
  <2> QED BY <2>1, <2>2, <2>3 DEF OpensNcr
<1>4. CASE UpdateIncomingInspectionResult(s)
  <2>1. PICK i \in DOMAIN incoming, result \in IncomingStatus \ {"Pending"} :
          LET x == Ref("IncomingInspection", i)
              request == [QIdle EXCEPT !.act = "update_incoming_inspection_result", !.id = i,
                                       !.set = Written(incoming[i].status, result)]
          IN IF result = "Rejected" THEN QPend(s, WithNcr(request, x)) ELSE QPend(s, request)
    BY <1>4 DEF UpdateIncomingInspectionResult
  <2> DEFINE x == Ref("IncomingInspection", i)
             set == Written(incoming[i].status, result)
             rec == Repeated(x)
             q == [QIdle EXCEPT !.act = "update_incoming_inspection_result", !.id = i, !.set = set]
             r == [QIdle EXCEPT !.act = "update_incoming_inspection_result", !.id = i, !.set = set,
                                !.ncr = x, !.recommends = rec]
  <2>2. /\ i \in Nat /\ x \in Record /\ set \in IncomingStatus \cup {Keep} /\ set \in {result, Keep}
        /\ rec \in BOOLEAN /\ x # None
    BY RefIsRecord DEF QualityInv, QTypeOK, Written, QualityConstants, Repeated
  <2>3. IF result = "Rejected" THEN QPend(s, r) ELSE QPend(s, q)
    BY <2>1 DEF WithNcr
  <2>4. /\ q \in Request /\ q.act = "update_incoming_inspection_result" /\ q.id = i /\ q.set = set
        /\ q.ncr = None /\ ~q.recommends
    <3> HIDE DEF set, x, rec
    <3> QED BY <2>2, IdleFields DEF Request, Handlers
  <2>5. /\ r \in Request /\ r.act = "update_incoming_inspection_result" /\ r.id = i /\ r.set = set
        /\ r.ncr = x /\ r.recommends = rec
    <3> HIDE DEF set, x, rec
    <3> QED BY <2>2, IdleFields DEF Request, Handlers
  <2> HIDE DEF q, r
  <2>6. Sound(r) /\ Fresh(r)
    BY <2>2, <2>5 DEF OpensNcr
  <2>7. result # "Rejected" => Sound(q) /\ Fresh(q)
    BY <2>2, <2>4 DEF OpensNcr, Keep
  <2> QED BY <2>3, <2>4, <2>5, <2>6, <2>7
<1>5. CASE CompleteFinalInspection(s)
  <2>1. PICK i \in DOMAIN finals, result \in FinalResult :
          LET x == Ref("FinalInspection", i)
              request == [QIdle EXCEPT !.act = "complete_final_inspection", !.id = i,
                                       !.set = Written(finals[i].result, result)]
          IN IF result = "Fail" THEN QPend(s, WithNcr(request, x)) ELSE QPend(s, request)
    BY <1>5 DEF CompleteFinalInspection
  <2> DEFINE x == Ref("FinalInspection", i)
             set == Written(finals[i].result, result)
             rec == Repeated(x)
             q == [QIdle EXCEPT !.act = "complete_final_inspection", !.id = i, !.set = set]
             r == [QIdle EXCEPT !.act = "complete_final_inspection", !.id = i, !.set = set,
                                !.ncr = x, !.recommends = rec]
  <2>2. /\ i \in Nat /\ x \in Record /\ set \in FinalResult \cup {Keep} /\ set \in {result, Keep}
        /\ rec \in BOOLEAN /\ x # None
    BY RefIsRecord DEF QualityInv, QTypeOK, Written, QualityConstants, Repeated
  <2>3. IF result = "Fail" THEN QPend(s, r) ELSE QPend(s, q)
    BY <2>1 DEF WithNcr
  <2>4. /\ q \in Request /\ q.act = "complete_final_inspection" /\ q.id = i /\ q.set = set
        /\ q.ncr = None /\ ~q.recommends
    <3> HIDE DEF set, x, rec
    <3> QED BY <2>2, IdleFields DEF Request, Handlers
  <2>5. /\ r \in Request /\ r.act = "complete_final_inspection" /\ r.id = i /\ r.set = set
        /\ r.ncr = x /\ r.recommends = rec
    <3> HIDE DEF set, x, rec
    <3> QED BY <2>2, IdleFields DEF Request, Handlers
  <2> HIDE DEF q, r
  <2>6. Sound(r) /\ Fresh(r)
    BY <2>2, <2>5 DEF OpensNcr
  <2>7. result # "Fail" => Sound(q) /\ Fresh(q)
    BY <2>2, <2>4 DEF OpensNcr, Keep
  <2> QED BY <2>3, <2>4, <2>5, <2>6, <2>7
<1>6. CASE CreateNcr(s)
  <2>1. PICK i \in DOMAIN faiReports :
          QPend(s, WithNcr([QIdle EXCEPT !.act = "create_ncr"], Ref("FAIReport", i)))
    BY <1>6 DEF CreateNcr
  <2> DEFINE x == Ref("FAIReport", i)
             rec == Repeated(x)
             r == [QIdle EXCEPT !.act = "create_ncr", !.ncr = x, !.recommends = rec]
  <2>2. x \in Record /\ rec \in BOOLEAN /\ x # None
    BY RefIsRecord DEF QualityConstants, Repeated
  <2>3. QPend(s, r)
    BY <2>1 DEF WithNcr
  <2>4. r \in Request /\ r.act = "create_ncr" /\ r.ncr = x /\ r.recommends = rec
    <3> HIDE DEF x, rec
    <3> QED BY <2>2, IdleFields DEF Request, Handlers
  <2> HIDE DEF r
  <2> QED BY <2>2, <2>3, <2>4 DEF OpensNcr
<1>7. CASE CloseNcr(s)
  <2>1. PICK x \in Record : \E n \in DOMAIN ncrs[x] :
          QPend(s, [QIdle EXCEPT !.act = "close_ncr", !.ncr = x, !.id = n,
                                 !.set = Written(ncrs[x][n], "Closed")])
    BY <1>7 DEF CloseNcr
  <2>2. PICK n \in DOMAIN ncrs[x] :
          QPend(s, [QIdle EXCEPT !.act = "close_ncr", !.ncr = x, !.id = n,
                                 !.set = Written(ncrs[x][n], "Closed")])
    BY <2>1
  <2> DEFINE set == Written(ncrs[x][n], "Closed")
             r == [QIdle EXCEPT !.act = "close_ncr", !.ncr = x, !.id = n, !.set = set]
  <2>3. n \in Nat /\ set \in NcrStatus \cup {Keep}
    BY DEF QualityInv, QTypeOK, Written, NcrStatus
  <2>4. QPend(s, r)
    BY <2>2
  <2>5. r \in Request /\ r.act = "close_ncr" /\ r.ncr = x /\ r.id = n /\ r.set = set /\ ~r.recommends
    <3> HIDE DEF set
    <3> QED BY <2>3, IdleFields DEF Request, Handlers
  <2> HIDE DEF r
  <2> QED BY <2>3, <2>4, <2>5 DEF OpensNcr
<1>8. ASSUME NEW act \in {"create_capa", "create_root_cause_analysis"}, NEW x \in Record,
             NEW n \in Nat, QPend(s, [QIdle EXCEPT !.act = act, !.ncr = x, !.id = n])
      PROVE  \E r \in Request : QPend(s, r) /\ Sound(r) /\ Fresh(r)
  <2> DEFINE r == [QIdle EXCEPT !.act = act, !.ncr = x, !.id = n]
  <2>1. r \in Request /\ r.act = act /\ r.ncr = x /\ ~r.recommends
    BY IdleFields DEF Request, Handlers
  <2>2. QPend(s, r)
    BY <1>8
  <2> HIDE DEF r
  <2> QED BY <2>1, <2>2 DEF OpensNcr
<1>9. CASE CreateCapa(s)
  <2>1. PICK i \in DOMAIN faiReports : \E n \in DOMAIN ncrs[Ref("FAIReport", i)] :
          QPend(s, [QIdle EXCEPT !.act = "create_capa", !.ncr = Ref("FAIReport", i), !.id = n])
    BY <1>9 DEF CreateCapa
  <2> DEFINE x == Ref("FAIReport", i)
  <2>2. PICK n \in DOMAIN ncrs[x] : QPend(s, [QIdle EXCEPT !.act = "create_capa", !.ncr = x, !.id = n])
    BY <2>1
  <2>3. x \in Record /\ n \in Nat
    BY RefIsRecord DEF QualityInv, QTypeOK
  <2> HIDE DEF x
  <2> QED BY <1>8, <2>2, <2>3
<1>10. CASE CreateRootCauseAnalysis(s)
  <2>1. PICK x \in Record : \E n \in DOMAIN ncrs[x] :
          QPend(s, [QIdle EXCEPT !.act = "create_root_cause_analysis", !.ncr = x, !.id = n])
    BY <1>10 DEF CreateRootCauseAnalysis
  <2>2. DOMAIN ncrs[x] \subseteq Nat
    BY DEF QualityInv, QTypeOK
  <2> QED BY <1>8, <2>1, <2>2
<1>11. CASE CreateGauge(s)
  <2>1. PICK c \in GaugeCodes, status \in GaugeStatus :
          QPend(s, [QIdle EXCEPT !.act = "create_gauge", !.on = c, !.set = status])
    BY <1>11 DEF CreateGauge
  <2> DEFINE r == [QIdle EXCEPT !.act = "create_gauge", !.on = c, !.set = status]
  <2>2. r \in Request /\ r.act = "create_gauge" /\ r.on = c /\ r.set = status /\ ~r.recommends
    BY IdleFields DEF Request, Handlers
  <2>3. QPend(s, r)
    BY <2>1
  <2> HIDE DEF r
  <2> QED BY <2>2, <2>3 DEF OpensNcr
<1> QED BY <1>1, <1>2, <1>3, <1>4, <1>5, <1>6, <1>7, <1>9, <1>10, <1>11 DEF Inspect, Correct

-----------------------------------------------------------------------------
(* Counting the requests of a kind.                                        *)

LEMMA CountChange ==
  ASSUME NEW S, IsFiniteSet(S), NEW A \in SUBSET S, NEW B \in SUBSET S, NEW s \in S,
         \A t \in S \ {s} : t \in A <=> t \in B
  PROVE  /\ Cardinality(A) \in Nat /\ Cardinality(B) \in Nat
         /\ Cardinality(B) <= Cardinality(S) /\ Cardinality(S) \in Nat
         /\ (s \in A <=> s \in B) => Cardinality(B) = Cardinality(A)
         /\ s \notin A /\ s \in B => Cardinality(B) = Cardinality(A) + 1
         /\ s \in A /\ s \notin B => Cardinality(A) = Cardinality(B) + 1
<1>1. IsFiniteSet(A) /\ IsFiniteSet(B) /\ Cardinality(B) <= Cardinality(S)
  BY FS_Subset
<1>2. Cardinality(A) \in Nat /\ Cardinality(B) \in Nat /\ Cardinality(S) \in Nat
  BY <1>1, FS_CardinalityType
<1>3. CASE s \in A <=> s \in B
  <2>1. A = B
    BY <1>3
  <2> QED BY <1>1, <1>2, <1>3, <2>1
<1>4. CASE s \notin A /\ s \in B
  <2>1. B = A \cup {s}
    BY <1>4
  <2>2. Cardinality(B) = Cardinality(A) + 1
    BY <1>1, <1>4, <2>1, FS_AddElement
  <2> QED BY <1>1, <1>2, <1>4, <2>2
<1>5. CASE s \in A /\ s \notin B
  <2>1. A = B \cup {s}
    BY <1>5
  <2>2. Cardinality(A) = Cardinality(B) + 1
    BY <1>1, <1>5, <2>1, FS_AddElement
  <2> QED BY <1>1, <1>2, <1>5, <2>2
<1> QED BY <1>3, <1>4, <1>5

LEMMA OpeningChange ==
  ASSUME QualityConstants, QTypeOK, NEW s \in Sessions, NEW r \in Request,
         qreq' = [qreq EXCEPT ![s] = r], NEW act
  PROVE  /\ Opening(act) \in Nat /\ Opening(act)' \in Nat
         /\ (qreq[s].act = act <=> r.act = act) => Opening(act)' = Opening(act)
         /\ qreq[s].act # act /\ r.act = act => Opening(act)' = Opening(act) + 1
         /\ qreq[s].act = act /\ r.act # act => Opening(act) = Opening(act)' + 1
<1> DEFINE A == {t \in Sessions : qreq[t].act = act}
           B == {t \in Sessions : qreq'[t].act = act}
<1>1. /\ A \in SUBSET Sessions /\ B \in SUBSET Sessions /\ IsFiniteSet(Sessions)
      /\ \A t \in Sessions \ {s} : t \in A <=> t \in B
      /\ (s \in A <=> qreq[s].act = act) /\ (s \in B <=> r.act = act)
  BY DEF QTypeOK, QualityConstants
<1>2. Opening(act) = Cardinality(A) /\ Opening(act)' = Cardinality(B)
  BY DEF Opening
<1> HIDE DEF A, B
<1> QED BY <1>1, <1>2, CountChange

OpensUnaware(r, x) == OpensNcr(r) /\ r.ncr = x /\ ~r.recommends

LEMMA UnawareChange ==
  ASSUME QualityConstants, QTypeOK, NEW s \in Sessions, NEW r \in Request,
         qreq' = [qreq EXCEPT ![s] = r], NEW x
  PROVE  LET n == Cardinality(Unaware(x))
             m == Cardinality(Unaware(x)')
         IN /\ n \in Nat /\ m \in Nat
            /\ m <= Cardinality(Sessions) /\ Cardinality(Sessions) \in Nat
            /\ (OpensUnaware(qreq[s], x) <=> OpensUnaware(r, x)) => m = n
            /\ ~OpensUnaware(qreq[s], x) /\ OpensUnaware(r, x) => m = n + 1
            /\ OpensUnaware(qreq[s], x) /\ ~OpensUnaware(r, x) => n = m + 1
<1> DEFINE A == {t \in Sessions : OpensUnaware(qreq[t], x)}
           B == {t \in Sessions : OpensUnaware(qreq'[t], x)}
<1>1. /\ A \in SUBSET Sessions /\ B \in SUBSET Sessions /\ IsFiniteSet(Sessions)
      /\ \A t \in Sessions \ {s} : t \in A <=> t \in B
      /\ (s \in A <=> OpensUnaware(qreq[s], x)) /\ (s \in B <=> OpensUnaware(r, x))
  BY DEF QTypeOK, QualityConstants
<1>2. Unaware(x) = A /\ Unaware(x)' = B
  BY DEF Unaware, OpensUnaware, OpensNcr
<1> HIDE DEF A, B
<1> QED BY <1>1, <1>2, CountChange

-----------------------------------------------------------------------------
LEMMA InitQualityInv == QualityConstants => (QInit => QualityInv)
<1> SUFFICES ASSUME QualityConstants, QInit PROVE QualityInv
  OBVIOUS
<1>1. QTypeOK
  BY IdleFields DEF QInit, QTypeOK
<1>2. \A s \in Sessions : qreq[s] = QIdle /\ Sound(qreq[s])
  BY IdleFields DEF QInit
<1>3. \A act \in Handlers : Opening(act) = 0
  <2>1. \A act \in Handlers : {s \in Sessions : qreq[s].act = act} = {}
    BY <1>2, IdleFields DEF QualityConstants
  <2> QED BY <2>1, FS_EmptySet DEF Opening
<1>4. \A x \in Record : LimitInView(x)
  <2> SUFFICES ASSUME NEW x \in Record
               PROVE  Len(ncrs[x]) + Cardinality(Unaware(x)) <= RepeatLimit + Cardinality(Sessions) - 1
    BY DEF LimitInView
  <2>1. Unaware(x) = {}
    BY <1>2, IdleFields DEF Unaware
  <2>2. Cardinality(Unaware(x)) = 0 /\ Cardinality(Sessions) \in Nat
    BY <2>1, FS_EmptySet, FS_CardinalityType DEF QualityConstants
  <2>3. Len(ncrs[x]) = 0
    BY DEF QInit
  <2> QED BY <2>2, <2>3 DEF QualityConstants
<1> QED BY <1>1, <1>2, <1>3, <1>4 DEF QInit, QualityInv, WithinBound, QualityConstants, Handlers

\* A step that writes no row.
LEMMA WaitTypes ==
  ASSUME QualityInv, NEW s \in Sessions, NEW r \in Request, Sound(r),
         qreq' = [qreq EXCEPT ![s] = r], UNCHANGED qdb
  PROVE  QTypeOK' /\ \A t \in Sessions : Sound(qreq[t])'
<1>1. QTypeOK'
  BY DEF QualityInv, QTypeOK, qdb
<1>2. \A t \in Sessions : Sound(qreq'[t])
  BY DEF QualityInv, QTypeOK
<1>3. \A t \in Sessions : Sound(qreq[t])'
  BY <1>2 DEF Sound, Named, Reports, OpensNcr, qdb
<1> QED BY <1>1, <1>3

LEMMA PendQualityInv ==
  ASSUME QualityConstants, QualityInv, NEW s \in Sessions, NEW r \in Request,
         QPend(s, r), Sound(r), Fresh(r)
  PROVE  QualityInv'
<1>0. /\ qreq[s] = QIdle /\ qreq' = [qreq EXCEPT ![s] = r] /\ UNCHANGED qdb
      /\ QTypeOK /\ QIdle.act = None /\ ~OpensNcr(QIdle)
  BY IdleFields DEF QPend, QualityInv
<1>1. QTypeOK' /\ \A t \in Sessions : Sound(qreq[t])'
  BY <1>0, WaitTypes
<1>2. ASSUME NEW act \in Handlers
      PROVE  /\ Opening(act) \in Nat
             /\ r.act = act => Opening(act)' = Opening(act) + 1
             /\ r.act # act => Opening(act)' = Opening(act)
  <2>1. qreq[s].act # act
    BY <1>0 DEF QualityConstants
  <2> QED BY <1>0, <2>1, OpeningChange
<1>3. /\ WithinBound(incoming, "create_incoming_inspection")'
      /\ WithinBound(finals, "create_final_inspection")'
      /\ WithinBound(faiReports, "create_fai_report")'
  <2>1. /\ "create_incoming_inspection" \in Handlers /\ "create_final_inspection" \in Handlers
        /\ "create_fai_report" \in Handlers
    BY DEF Handlers
  <2>2. Len(incoming) \in Nat /\ Len(finals) \in Nat /\ Len(faiReports) \in Nat
        /\ MaxInspections \in Nat
    BY <1>0 DEF QTypeOK, QualityConstants
  <2> QED BY <1>0, <1>2, <2>1, <2>2 DEF QualityInv, WithinBound, Fresh, qdb
<1>4. ASSUME NEW x \in Record PROVE LimitInView(x)'
  <2> SUFFICES ASSUME x \notin recommended
               PROVE  Len(ncrs[x]) + Cardinality(Unaware(x)') <= RepeatLimit + Cardinality(Sessions) - 1
    BY <1>0 DEF LimitInView, qdb
  <2>1. Len(ncrs[x]) \in Nat /\ RepeatLimit \in Nat
        /\ Len(ncrs[x]) + Cardinality(Unaware(x)) <= RepeatLimit + Cardinality(Sessions) - 1
    BY DEF QualityInv, QTypeOK, LimitInView, QualityConstants
  <2>2. ~OpensUnaware(qreq[s], x)
    BY <1>0 DEF OpensUnaware
  <2>3. CASE OpensUnaware(r, x)
    <3>1. Len(ncrs[x]) + 1 <= RepeatLimit
      BY <2>1, <2>3 DEF OpensUnaware, Fresh, Repeated
    <3>2. Cardinality(Unaware(x)') <= Cardinality(Sessions) /\ Cardinality(Sessions) \in Nat
          /\ Cardinality(Unaware(x)') \in Nat
      BY <1>0, UnawareChange
    <3> QED BY <2>1, <3>1, <3>2
  <2>4. CASE ~OpensUnaware(r, x)
    <3>1. Cardinality(Unaware(x)') = Cardinality(Unaware(x))
      BY <1>0, <2>2, <2>4, UnawareChange
    <3> QED BY <2>1, <3>1
  <2> QED BY <2>3, <2>4
<1> QED BY <1>1, <1>3, <1>4 DEF QualityInv

\* A request is answered without a row: a rollback, or a gauge code in use.
LEMMA SettledQualityInv ==
  ASSUME QualityConstants, QualityInv, NEW s \in Sessions,
         qreq' = [qreq EXCEPT ![s] = QIdle], UNCHANGED qdb
  PROVE  QualityInv'
<1>0. QTypeOK /\ QIdle \in Request /\ QIdle.act = None /\ ~OpensNcr(QIdle)
  BY IdleFields DEF QualityInv
<1>1. QTypeOK' /\ \A t \in Sessions : Sound(qreq[t])'
  BY IdleFields, WaitTypes
<1>2. ASSUME NEW act \in Handlers
      PROVE  Opening(act) \in Nat /\ Opening(act)' \in Nat /\ Opening(act)' <= Opening(act)
  <2>1. QIdle.act # act
    BY <1>0 DEF QualityConstants
  <2>2. /\ Opening(act) \in Nat /\ Opening(act)' \in Nat
        /\ qreq[s].act # act => Opening(act)' = Opening(act)
        /\ qreq[s].act = act => Opening(act) = Opening(act)' + 1
    BY <1>0, <2>1, OpeningChange
  <2> HIDE DEF Opening
  <2> QED BY <2>2
<1>3. /\ WithinBound(incoming, "create_incoming_inspection")'
      /\ WithinBound(finals, "create_final_inspection")'
      /\ WithinBound(faiReports, "create_fai_report")'
  <2>1. /\ "create_incoming_inspection" \in Handlers /\ "create_final_inspection" \in Handlers
        /\ "create_fai_report" \in Handlers
    BY DEF Handlers
  <2>2. Len(incoming) \in Nat /\ Len(finals) \in Nat /\ Len(faiReports) \in Nat
        /\ MaxInspections \in Nat
    BY <1>0 DEF QTypeOK, QualityConstants
  <2> QED BY <1>2, <2>1, <2>2 DEF QualityInv, WithinBound, qdb
<1>4. ASSUME NEW x \in Record PROVE LimitInView(x)'
  <2>1. /\ Cardinality(Unaware(x)) \in Nat /\ Cardinality(Unaware(x)') \in Nat
        /\ Cardinality(Unaware(x)') <= Cardinality(Unaware(x)) /\ Cardinality(Sessions) \in Nat
    <3>1. ~OpensUnaware(QIdle, x)
      BY <1>0 DEF OpensUnaware
    <3>2. /\ Cardinality(Unaware(x)) \in Nat /\ Cardinality(Unaware(x)') \in Nat
          /\ Cardinality(Sessions) \in Nat
          /\ ~OpensUnaware(qreq[s], x) => Cardinality(Unaware(x)') = Cardinality(Unaware(x))
          /\ OpensUnaware(qreq[s], x) => Cardinality(Unaware(x)) = Cardinality(Unaware(x)') + 1
      BY <1>0, <3>1, UnawareChange
    <3> QED BY <3>2
  <2>2. Len(ncrs[x]) \in Nat /\ RepeatLimit \in Nat
    BY <1>0 DEF QTypeOK, QualityConstants
  <2> QED BY <2>1, <2>2 DEF QualityInv, LimitInView, qdb
<1> QED BY <1>1, <1>3, <1>4 DEF QualityInv

-----------------------------------------------------------------------------
(* Writing rows: tables only grow, and a commit of another session takes no *)
(* row away from a request.                                                *)

LEMMA SetStatus ==
  ASSUME NEW S, NEW seq \in Seq(S), NEW i \in DOMAIN seq, NEW e \in S
  PROVE  LET new == [seq EXCEPT ![i] = e]
         IN new \in Seq(S) /\ Len(new) = Len(seq) /\ DOMAIN new = DOMAIN seq
BY ExceptSeq

LEMMA AddRow ==
  ASSUME NEW S, NEW seq \in Seq(S), NEW e \in S
  PROVE  LET new == Append(seq, e)
         IN /\ new \in Seq(S) /\ Len(new) = Len(seq) + 1 /\ DOMAIN seq \subseteq DOMAIN new
            /\ \A i \in DOMAIN seq : new[i] = seq[i]
BY AppendProperties

LEMMA IncomingRows ==
  ASSUME QualityInv, NEW r \in Request, Sound(r), QApply(r)
  PROVE  /\ incoming' \in Seq(IncomingInspection) /\ DOMAIN incoming \subseteq DOMAIN incoming'
         /\ Len(incoming') = IF r.act = "create_incoming_inspection" THEN Len(incoming) + 1
                             ELSE Len(incoming)
<1>0. incoming \in Seq(IncomingInspection) /\ Len(incoming) \in Nat
  BY DEF QualityInv, QTypeOK
<1>1. CASE r.act = "create_incoming_inspection"
  <2>1. [item |-> r.on, status |-> "Pending"] \in IncomingInspection
    BY <1>1 DEF Sound, Named, IncomingInspection, IncomingStatus
  <2>2. incoming' = Append(incoming, [item |-> r.on, status |-> "Pending"])
    BY <1>1 DEF QApply
  <2> QED BY <1>0, <1>1, <2>1, <2>2, AddRow
<1>2. CASE r.act = "update_incoming_inspection_result" /\ r.set # Keep
  <2> DEFINE row == [incoming[r.id] EXCEPT !.status = r.set]
  <2>1. r.id \in DOMAIN incoming /\ r.set \in IncomingStatus
    BY <1>2 DEF Sound, Named
  <2>2. row \in IncomingInspection
    <3>1. incoming[r.id] \in IncomingInspection
      BY <1>0, <2>1
    <3> QED BY <2>1, <3>1 DEF IncomingInspection
  <2>3. incoming' = [incoming EXCEPT ![r.id] = row]
    BY <1>2 DEF QApply
  <2> HIDE DEF row
  <2> QED BY <1>0, <1>2, <2>1, <2>2, <2>3, SetStatus
<1>3. CASE ~(r.act = "create_incoming_inspection")
           /\ ~(r.act = "update_incoming_inspection_result" /\ r.set # Keep)
  BY <1>0, <1>3 DEF QApply
<1> QED BY <1>1, <1>2, <1>3

LEMMA FinalRows ==
  ASSUME QualityInv, NEW r \in Request, Sound(r), QApply(r)
  PROVE  /\ finals' \in Seq(FinalInspection) /\ DOMAIN finals \subseteq DOMAIN finals'
         /\ Len(finals') = IF r.act = "create_final_inspection" THEN Len(finals) + 1
                           ELSE Len(finals)
<1>0. finals \in Seq(FinalInspection) /\ Len(finals) \in Nat
  BY DEF QualityInv, QTypeOK
<1>1. CASE r.act = "create_final_inspection"
  <2>1. [prod |-> r.on, result |-> "Fail"] \in FinalInspection
    BY <1>1 DEF Sound, Named, FinalInspection, FinalResult
  <2>2. finals' = Append(finals, [prod |-> r.on, result |-> "Fail"])
    BY <1>1 DEF QApply
  <2> QED BY <1>0, <1>1, <2>1, <2>2, AddRow
<1>2. CASE r.act = "complete_final_inspection" /\ r.set # Keep
  <2> DEFINE row == [finals[r.id] EXCEPT !.result = r.set]
  <2>1. r.id \in DOMAIN finals /\ r.set \in FinalResult
    BY <1>2 DEF Sound, Named
  <2>2. row \in FinalInspection
    <3>1. finals[r.id] \in FinalInspection
      BY <1>0, <2>1
    <3> QED BY <2>1, <3>1 DEF FinalInspection
  <2>3. finals' = [finals EXCEPT ![r.id] = row]
    BY <1>2 DEF QApply
  <2> HIDE DEF row
  <2> QED BY <1>0, <1>2, <2>1, <2>2, <2>3, SetStatus
<1>3. CASE ~(r.act = "create_final_inspection")
           /\ ~(r.act = "complete_final_inspection" /\ r.set # Keep)
  BY <1>0, <1>3 DEF QApply
<1> QED BY <1>1, <1>2, <1>3

LEMMA FaiRows ==
  ASSUME QualityInv, NEW r \in Request, Sound(r), QApply(r)
  PROVE  /\ faiReports' \in Seq(Prods) /\ DOMAIN faiReports \subseteq DOMAIN faiReports'
         /\ Len(faiReports') = IF r.act = "create_fai_report" THEN Len(faiReports) + 1
                               ELSE Len(faiReports)
<1>0. faiReports \in Seq(Prods) /\ Len(faiReports) \in Nat
  BY DEF QualityInv, QTypeOK
<1>1. CASE r.act = "create_fai_report"
  BY <1>0, <1>1, AddRow DEF QApply, Sound, Named
<1>2. CASE r.act # "create_fai_report"
  BY <1>0, <1>2 DEF QApply
<1> QED BY <1>1, <1>2

LEMMA NcrRows ==
  ASSUME QualityConstants, QualityInv, NEW r \in Request, Sound(r), QApply(r)
  PROVE  /\ ncrs' \in [Record -> Seq(NcrStatus)]
         /\ \A x \in Record :
              /\ DOMAIN ncrs[x] \subseteq DOMAIN ncrs'[x]
              /\ Len(ncrs'[x]) = IF OpensNcr(r) /\ r.ncr = x THEN Len(ncrs[x]) + 1
                                 ELSE Len(ncrs[x])
<1>0. ncrs \in [Record -> Seq(NcrStatus)] /\ \A x \in Record : Len(ncrs[x]) \in Nat
  BY DEF QualityInv, QTypeOK
<1>1. CASE OpensNcr(r)
  <2> DEFINE new == Append(ncrs[r.ncr], "Open")
  <2>1. r.ncr \in Record /\ "Open" \in NcrStatus
    BY <1>1 DEF OpensNcr, Request, NcrStatus
  <2>2. ncrs' = [ncrs EXCEPT ![r.ncr] = new]
    BY <1>1 DEF QApply, OpensNcr
  <2>3. /\ new \in Seq(NcrStatus) /\ Len(new) = Len(ncrs[r.ncr]) + 1
        /\ DOMAIN ncrs[r.ncr] \subseteq DOMAIN new
    BY <1>0, <2>1, AddRow
  <2> HIDE DEF new
  <2> QED BY <1>0, <1>1, <2>1, <2>2, <2>3
<1>2. CASE r.act = "close_ncr" /\ r.set # Keep
  <2> DEFINE new == [ncrs[r.ncr] EXCEPT ![r.id] = r.set]
  <2>1. r.ncr \in Record /\ r.id \in DOMAIN ncrs[r.ncr] /\ r.set \in NcrStatus /\ ~OpensNcr(r)
    BY <1>2 DEF Sound, Named, OpensNcr
  <2>2. ncrs' = [ncrs EXCEPT ![r.ncr] = new]
    BY <1>2, <2>1 DEF QApply
  <2>3. new \in Seq(NcrStatus) /\ Len(new) = Len(ncrs[r.ncr]) /\ DOMAIN new = DOMAIN ncrs[r.ncr]
    BY <1>0, <2>1, SetStatus
  <2> HIDE DEF new
  <2> QED BY <1>0, <2>1, <2>2, <2>3
<1>3. CASE ~OpensNcr(r) /\ ~(r.act = "close_ncr" /\ r.set # Keep)
  BY <1>0, <1>3 DEF QApply
<1> QED BY <1>1, <1>2, <1>3

LEMMA CommitQualityInv ==
  ASSUME QualityConstants, QualityInv, NEW s \in Sessions, QApply(qreq[s]),
         qreq' = [qreq EXCEPT ![s] = QIdle]
  PROVE  QualityInv'
<1> DEFINE r == qreq[s]
<1>0. /\ QTypeOK /\ r \in Request /\ Sound(r) /\ QApply(r)
      /\ (OpensNcr(r) => r.ncr \in Record)
      /\ QIdle \in Request /\ QIdle.act = None /\ ~OpensNcr(QIdle) /\ Sound(QIdle)
  BY IdleFields DEF QualityInv, QTypeOK, OpensNcr, Request
<1> HIDE DEF r
<1>1. QTypeOK'
  <2>1. recommended' \subseteq Record
    BY <1>0 DEF QTypeOK, QApply, Sound, Reports
  <2>2. capas' \subseteq Record \X Nat /\ analyses' \subseteq Record \X Nat
    BY <1>0 DEF QTypeOK, QApply, Sound, Named, Request
  <2>3. gauges' \subseteq Gauge
    BY <1>0 DEF QTypeOK, QApply, Sound, Named, Gauge
  <2>4. qreq' \in [Sessions -> Request]
    BY <1>0 DEF QTypeOK
  <2> QED BY <1>0, <2>1, <2>2, <2>3, <2>4, IncomingRows, FinalRows, FaiRows, NcrRows DEF QTypeOK
<1>2. ASSUME NEW t \in Sessions PROVE Sound(qreq[t])'
  <2>1. PICK q \in Request : q = qreq'[t] /\ Sound(q)
    BY <1>0 DEF QualityInv, QTypeOK
  <2>2. Named(q)' /\ Reports(q)'
    BY <1>0, <2>1, IncomingRows, FinalRows, NcrRows DEF Sound, Named, Reports, OpensNcr
  <2> QED BY <2>1, <2>2 DEF Sound, Named, Reports, OpensNcr
<1>3. ASSUME NEW act \in Handlers
      PROVE  /\ Opening(act) \in Nat /\ Opening(act)' \in Nat
             /\ r.act = act => Opening(act) = Opening(act)' + 1
             /\ r.act # act => Opening(act)' = Opening(act)
  <2>1. QIdle.act # act
    BY <1>0 DEF QualityConstants
  <2> QED BY <1>0, <2>1, OpeningChange DEF r
<1>4. /\ WithinBound(incoming, "create_incoming_inspection")'
      /\ WithinBound(finals, "create_final_inspection")'
      /\ WithinBound(faiReports, "create_fai_report")'
  <2>1. /\ "create_incoming_inspection" \in Handlers /\ "create_final_inspection" \in Handlers
        /\ "create_fai_report" \in Handlers
    BY DEF Handlers
  <2>2. Len(incoming) \in Nat /\ Len(finals) \in Nat /\ Len(faiReports) \in Nat
        /\ MaxInspections \in Nat
    BY <1>0 DEF QTypeOK, QualityConstants
  <2>3. WithinBound(incoming, "create_incoming_inspection")'
    <3> DEFINE act == "create_incoming_inspection"
    <3>1. /\ r.act = act => Len(incoming') = Len(incoming) + 1
          /\ r.act # act => Len(incoming') = Len(incoming)
      BY <1>0, IncomingRows
    <3>2. Len(incoming) + Opening(act) <= MaxInspections
      BY DEF QualityInv, WithinBound
    <3> QED BY <1>3, <2>1, <2>2, <3>1, <3>2 DEF WithinBound
  <2>4. WithinBound(finals, "create_final_inspection")'
    <3> DEFINE act == "create_final_inspection"
    <3>1. /\ r.act = act => Len(finals') = Len(finals) + 1
          /\ r.act # act => Len(finals') = Len(finals)
      BY <1>0, FinalRows
    <3>2. Len(finals) + Opening(act) <= MaxInspections
      BY DEF QualityInv, WithinBound
    <3> QED BY <1>3, <2>1, <2>2, <3>1, <3>2 DEF WithinBound
  <2>5. WithinBound(faiReports, "create_fai_report")'
    <3> DEFINE act == "create_fai_report"
    <3>1. /\ r.act = act => Len(faiReports') = Len(faiReports) + 1
          /\ r.act # act => Len(faiReports') = Len(faiReports)
      BY <1>0, FaiRows
    <3>2. Len(faiReports) + Opening(act) <= MaxInspections
      BY DEF QualityInv, WithinBound
    <3> QED BY <1>3, <2>1, <2>2, <3>1, <3>2 DEF WithinBound
  <2> QED BY <2>3, <2>4, <2>5
<1>5. ASSUME NEW x \in Record PROVE LimitInView(x)'
  <2> SUFFICES ASSUME x \notin recommended'
               PROVE  Len(ncrs'[x]) + Cardinality(Unaware(x)') <= RepeatLimit + Cardinality(Sessions) - 1
    BY DEF LimitInView
  <2>1. /\ x \notin recommended /\ ~(r.recommends /\ r.ncr = x)
    BY <1>0 DEF QApply
  <2>2. Len(ncrs[x]) \in Nat /\ RepeatLimit \in Nat
        /\ Len(ncrs[x]) + Cardinality(Unaware(x)) <= RepeatLimit + Cardinality(Sessions) - 1
    BY <1>0, <2>1 DEF QualityInv, QTypeOK, LimitInView, QualityConstants
  <2>3. /\ Cardinality(Unaware(x)) \in Nat /\ Cardinality(Unaware(x)') \in Nat
        /\ Cardinality(Sessions) \in Nat
        /\ ~OpensUnaware(r, x) => Cardinality(Unaware(x)') = Cardinality(Unaware(x))
        /\ OpensUnaware(r, x) => Cardinality(Unaware(x)) = Cardinality(Unaware(x)') + 1
    <3>1. ~OpensUnaware(QIdle, x)
      BY <1>0 DEF OpensUnaware
    <3> QED BY <1>0, <3>1, UnawareChange DEF r
  <2>4. OpensUnaware(r, x) <=> OpensNcr(r) /\ r.ncr = x
    BY <2>1 DEF OpensUnaware
  <2>5. Len(ncrs'[x]) = IF OpensNcr(r) /\ r.ncr = x THEN Len(ncrs[x]) + 1 ELSE Len(ncrs[x])
    BY <1>0, NcrRows
  <2> QED BY <2>2, <2>3, <2>4, <2>5
<1> QED BY <1>1, <1>2, <1>4, <1>5 DEF QualityInv

LEMMA NextQualityInv == QualityConstants /\ QualityInv /\ [QNext]_qvars => QualityInv'
<1> SUFFICES ASSUME QualityConstants, QualityInv, [QNext]_qvars PROVE QualityInv'
  OBVIOUS
<1>1. ASSUME NEW s \in Sessions, Inspect(s) \/ Correct(s) PROVE QualityInv'
  BY <1>1, HandleSound, PendQualityInv
<1>2. ASSUME NEW s \in Sessions, QCommit(s) PROVE QualityInv'
  BY <1>2, CommitQualityInv, SettledQualityInv DEF QCommit
<1>3. ASSUME NEW s \in Sessions, QAbort(s) PROVE QualityInv'
  BY <1>3, SettledQualityInv DEF QAbort
<1>4. CASE UNCHANGED qvars
  <2>1. UNCHANGED <<incoming, finals, faiReports, ncrs, recommended, capas, analyses, gauges, qreq>>
    BY <1>4 DEF qvars, qdb
  <2> QED BY <2>1 DEF QualityInv, QTypeOK, Sound, Named, Reports, OpensNcr, WithinBound, Opening,
                      LimitInView, Unaware
<1> QED BY <1>1, <1>2, <1>3, <1>4 DEF QNext

LEMMA QualityKept == QualityConstants => (QSpec => []QualityInv)
<1> SUFFICES ASSUME QualityConstants PROVE QSpec => []QualityInv
  OBVIOUS
<1>1. QInit => QualityInv
  BY InitQualityInv
<1>2. QualityInv /\ [QNext]_qvars => QualityInv'
  BY NextQualityInv
<1> QED BY <1>1, <1>2, PTL DEF QSpec

-----------------------------------------------------------------------------
\* Type correctness of every table of quality/services.py and of every
\* request about to commit, in any interleaving.
THEOREM TypeCorrect == QualityConstants => (QSpec => []QTypeOK)
<1> SUFFICES ASSUME QualityConstants PROVE QSpec => []QTypeOK
  OBVIOUS
<1>1. QualityInv => QTypeOK
  BY DEF QualityInv
<1> QED BY <1>1, QualityKept, PTL

\* check_repeated_ncr recommends a CAPA, late by at most one NCR for each
\* other session that opens one at the same time.
THEOREM RecommendationInTime == QualityConstants => (QSpec => []RepeatsRecommended)
<1> SUFFICES ASSUME QualityConstants PROVE QSpec => []RepeatsRecommended
  OBVIOUS
<1>1. QualityInv => RepeatsRecommended
  <2> SUFFICES ASSUME QualityInv, NEW x \in Record, x \notin recommended
               PROVE  Len(ncrs[x]) <= RepeatLimit + Cardinality(Sessions) - 1
    BY FS_CardinalityType DEF RepeatsRecommended, QualityInv, QTypeOK, QualityConstants
  <2>1. Cardinality(Unaware(x)) \in Nat /\ Cardinality(Sessions) \in Nat
    BY FS_Subset, FS_CardinalityType DEF QualityConstants, Unaware
  <2> QED BY <2>1 DEF QualityInv, QTypeOK, LimitInView, QualityConstants
<1> QED BY <1>1, QualityKept, PTL

\* update_incoming_inspection_result and complete_final_inspection never
\* reject without the NCR that says so: both rows are of one transaction.
THEOREM RejectionsHaveNcr == QualityConstants => (QSpec => RejectionsReported)
<1> SUFFICES ASSUME QualityConstants PROVE QSpec => RejectionsReported
  OBVIOUS
<1> DEFINE Reported ==
      /\ \A i \in DOMAIN incoming :
           incoming[i].status # "Rejected" /\ incoming'[i].status = "Rejected" =>
             LET r == Ref("IncomingInspection", i) IN Len(ncrs'[r]) = Len(ncrs[r]) + 1
      /\ \A i \in DOMAIN finals :
           finals[i].result = "Pass" /\ finals'[i].result = "Fail" =>
             LET r == Ref("FinalInspection", i) IN Len(ncrs'[r]) = Len(ncrs[r]) + 1
<1>1. QualityInv /\ [QNext]_qvars => [Reported]_qvars
  <2> SUFFICES ASSUME QualityInv, QNext PROVE Reported
    OBVIOUS
  <2>1. CASE UNCHANGED qdb
    BY <2>1 DEF qdb
  <2>2. ASSUME NEW r \in Request, Sound(r), QApply(r) PROVE Reported
    <3>0. incoming \in Seq(IncomingInspection) /\ finals \in Seq(FinalInspection)
      BY DEF QualityInv, QTypeOK
    <3>1. ASSUME NEW i \in DOMAIN incoming,
                 incoming[i].status # "Rejected", incoming'[i].status = "Rejected"
          PROVE  LET x == Ref("IncomingInspection", i) IN Len(ncrs'[x]) = Len(ncrs[x]) + 1
      <4>1. r.act = "update_incoming_inspection_result" /\ r.id = i /\ r.set = "Rejected"
        <5>1. r.act # "create_incoming_inspection"
          <6> SUFFICES ASSUME r.act = "create_incoming_inspection" PROVE FALSE
            OBVIOUS
          <6> DEFINE row == [item |-> r.on, status |-> "Pending"]
          <6>1. row \in IncomingInspection /\ incoming' = Append(incoming, row)
            BY <2>2 DEF QApply, Sound, Named, IncomingInspection, IncomingStatus
          <6> HIDE DEF row
          <6>2. incoming'[i] = incoming[i]
            BY <3>0, <6>1, AddRow
          <6> QED BY <3>1, <6>2
        <5> QED BY <2>2, <3>0, <3>1, <5>1 DEF QApply, Sound, Named, Keep, IncomingInspection
      <4>2. r.ncr = Ref("IncomingInspection", i) /\ r.ncr \in Record /\ OpensNcr(r)
        BY <2>2, <4>1 DEF Sound, Reports, OpensNcr, QualityConstants
      <4> QED BY <2>2, <4>2, NcrRows
    <3>2. ASSUME NEW i \in DOMAIN finals, finals[i].result = "Pass", finals'[i].result = "Fail"
          PROVE  LET x == Ref("FinalInspection", i) IN Len(ncrs'[x]) = Len(ncrs[x]) + 1
      <4>1. r.act = "complete_final_inspection" /\ r.id = i /\ r.set = "Fail"
        <5>1. r.act # "create_final_inspection"
          <6> SUFFICES ASSUME r.act = "create_final_inspection" PROVE FALSE
            OBVIOUS
          <6> DEFINE row == [prod |-> r.on, result |-> "Fail"]
          <6>1. row \in FinalInspection /\ finals' = Append(finals, row)
            BY <2>2 DEF QApply, Sound, Named, FinalInspection, FinalResult
          <6> HIDE DEF row
          <6>2. finals'[i] = finals[i]
            BY <3>0, <6>1, AddRow
          <6> QED BY <3>2, <6>2
        <5> QED BY <2>2, <3>0, <3>2, <5>1 DEF QApply, Sound, Named, Keep, FinalInspection
      <4>2. r.ncr = Ref("FinalInspection", i) /\ r.ncr \in Record /\ OpensNcr(r)
        BY <2>2, <4>1 DEF Sound, Reports, OpensNcr, QualityConstants
      <4> QED BY <2>2, <4>2, NcrRows
    <3> QED BY <3>1, <3>2
  <2>3. ASSUME NEW s \in Sessions, QApply(qreq[s]) PROVE Reported
    BY <2>2, <2>3 DEF QualityInv, QTypeOK
  <2>4. ASSUME NEW s \in Sessions, Inspect(s) \/ Correct(s) PROVE UNCHANGED qdb
    BY <2>4, HandleSound DEF QPend
  <2> QED BY <2>1, <2>3, <2>4 DEF QNext, QCommit, QAbort
<1> QED BY <1>1, QualityKept, PTL DEF QSpec, RejectionsReported
=============================================================================
