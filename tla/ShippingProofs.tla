--------------------------- MODULE ShippingProofs ---------------------------
(***************************************************************************)
(* Proofs about Dispatch and Shipping, for every number of sessions,       *)
(* dispatch orders, items, documents and inspections.                      *)
(***************************************************************************)
EXTENDS Shipping, FiniteSetTheorems, SequenceTheorems, TLAPS

-----------------------------------------------------------------------------
(* What a handler has checked of its request and what no commit of another *)
(* request undoes: rows are added, never removed.                          *)

\* What a release rests on, but for what may change.
Documented(d) ==
  /\ dispatch[d] # None
  /\ CertificateOfItems(d)
  /\ \A k \in Kind : HasDocument(k, d)
  /\ checklist[d] # <<>>

\* A row that is updated exists, and one that is inserted has a status.
CheckNamed(r) ==
  /\ r.point \in Points
  /\ r.row = 0 => r.set \in CheckStatus
  /\ r.row # 0 => r.row \in DOMAIN checklist[r.order]

\* A number is at most one past those in use: the commits of others add to
\* them.
NumberInReach(r) ==
  r.kind \in Kind /\ r.number \in 1 .. (Cardinality(documents[r.kind]) + 1)

Sound(r) ==
  /\ r.act \in Handlers => r.order \in Dispatches
  /\ r.act = "add_dispatch_item" => r.prod \in Prods /\ r.line \in Lines
  /\ r.act = "verify_dispatch_checklist" => CheckNamed(r)
  /\ r.act = "generate_document" => NumberInReach(r)
  /\ r.act = "complete_dispatch" => Documented(r.order)

DispatchInv ==
  /\ TypeOK
  /\ \A s \in Sessions : Sound(req[s])
  /\ \A k \in Kind : IsFiniteSet(documents[k])
  /\ DocumentsNumbered
  /\ \A d \in Dispatches : Released(d) => Documented(d)

-----------------------------------------------------------------------------
(* What a handler has checked and another request may undo before its      *)
(* commit.                                                                 *)

Fresh(r) ==
  /\ r.act = "verify_dispatch_checklist" => ~Released(r.order)
  /\ r.act = "complete_dispatch" => ItemsInspected(r.order) /\ ChecklistApproved(r.order)

ShippingInv ==
  /\ DispatchInv
  /\ Racing => raced
  /\ ~raced => \A s \in Sessions : Fresh(req[s])
  /\ ReleasedIsApproved

-----------------------------------------------------------------------------
\* The number after 1, ..., n is n + 1.
LEMMA NextAfter == ASSUME NEW n \in Nat PROVE NextNumber(1 .. n) = n + 1
<1> DEFINE S == (1 .. n) \cup {0}
<1>1. n \in S /\ \A y \in S : n >= y
  OBVIOUS
<1>2. \A x \in S : (\A y \in S : x >= y) => x = n
  BY <1>1
<1>3. Max(S) = n
  BY <1>1, <1>2 DEF Max
<1> QED BY <1>3 DEF NextNumber

LEMMA IdleFields ==
  /\ Idle \in Request /\ Idle.act = None /\ Idle.row = 0 /\ Idle.set = Keep
  /\ Sound(Idle) /\ Fresh(Idle)
  BY DispatchNone DEF Idle, Request, Sound, Fresh, Handlers

\* Every handler leaves a request that is sound, whatever commits before it,
\* and fresh as long as none does.
LEMMA HandleSound ==
  ASSUME DispatchInv, NEW s \in Sessions, Handle(s)
  PROVE  \E r \in Request : Pend(s, r) /\ Sound(r) /\ Fresh(r)
<1> USE DEF Sound, Fresh
<1>1. CASE CreateDispatchOrder(s)
  <2>1. PICK d \in Dispatches, p \in Certified \cup {None} :
          Pend(s, [Idle EXCEPT !.act = "create_dispatch_order", !.order = d, !.prod = p])
    BY <1>1 DEF CreateDispatchOrder
  <2> DEFINE r == [Idle EXCEPT !.act = "create_dispatch_order", !.order = d, !.prod = p]
  <2>2. r \in Request /\ r.act = "create_dispatch_order" /\ r.order = d
    BY IdleFields, DispatchConstants DEF Request, Handlers
  <2>3. Pend(s, r)
    BY <2>1
  <2> HIDE DEF r
  <2> QED BY <2>2, <2>3
<1>2. CASE AddDispatchItem(s)
  <2>1. PICK d \in Dispatches, p \in Prods, n \in Lines :
          Pend(s, [Idle EXCEPT !.act = "add_dispatch_item", !.order = d, !.prod = p, !.line = n])
    BY <1>2 DEF AddDispatchItem
  <2> DEFINE r == [Idle EXCEPT !.act = "add_dispatch_item", !.order = d, !.prod = p, !.line = n]
  <2>2. r \in Request /\ r.act = "add_dispatch_item" /\ r.order = d /\ r.prod = p /\ r.line = n
    BY IdleFields DEF Request, Handlers
  <2>3. Pend(s, r)
    BY <2>1
  <2> HIDE DEF r
  <2> QED BY <2>2, <2>3
<1>3. CASE VerifyDispatchChecklist(s)
  <2>1. PICK d \in Dispatches, x \in Points, status \in Verdicts :
          LET rows == {i \in DOMAIN checklist[d] : checklist[d][i].point = x}
              request == [Idle EXCEPT !.act = "verify_dispatch_checklist", !.order = d, !.point = x]
          IN /\ OpenForChange(d)
             /\ IF rows = {}
                THEN Pend(s, [request EXCEPT !.set = status])
                ELSE \E i \in rows :
                       Pend(s, [request EXCEPT !.row = i,
                                  !.set = IF checklist[d][i].status = status THEN Keep ELSE status])
    BY <1>3 DEF VerifyDispatchChecklist
  <2>2. status \in CheckStatus /\ DOMAIN checklist[d] \subseteq Nat \ {0}
    BY DispatchConstants DEF DispatchInv, TypeOK
  <2>3. ~Released(d)
    BY <2>1 DEF OpenForChange, Released
  <2>4. CASE Pend(s, [Idle EXCEPT !.act = "verify_dispatch_checklist", !.order = d, !.point = x,
                        !.set = status])
    <3> DEFINE r == [Idle EXCEPT !.act = "verify_dispatch_checklist", !.order = d, !.point = x,
                       !.set = status]
    <3>1. /\ r \in Request /\ r.act = "verify_dispatch_checklist" /\ r.order = d /\ r.point = x
          /\ r.row = 0 /\ r.set = status
      BY <2>2, IdleFields DEF Request, Handlers
    <3>2. Pend(s, r)
      BY <2>4
    <3> HIDE DEF r
    <3> QED BY <2>2, <2>3, <3>1, <3>2 DEF CheckNamed
  <2>5. ASSUME NEW i \in DOMAIN checklist[d], NEW set \in CheckStatus \cup {Keep},
               Pend(s, [Idle EXCEPT !.act = "verify_dispatch_checklist", !.order = d, !.point = x,
                          !.row = i, !.set = set])
        PROVE  \E r \in Request : Pend(s, r) /\ Sound(r) /\ Fresh(r)
    <3> DEFINE r == [Idle EXCEPT !.act = "verify_dispatch_checklist", !.order = d, !.point = x,
                       !.row = i, !.set = set]
    <3>0. i \in Nat /\ i # 0
      BY <2>2
    <3>1. /\ r \in Request /\ r.act = "verify_dispatch_checklist" /\ r.order = d /\ r.point = x
          /\ r.row = i /\ r.set = set
      BY <3>0, IdleFields DEF Request, Handlers
    <3>2. Pend(s, r)
      BY <2>5
    <3> HIDE DEF r
    <3> QED BY <2>3, <3>0, <3>1, <3>2 DEF CheckNamed
  <2> QED BY <2>1, <2>2, <2>4, <2>5
<1>4. ASSUME NEW kind \in Kind, GenerateDocument(s, kind)
      PROVE  \E r \in Request : Pend(s, r) /\ Sound(r) /\ Fresh(r)
  <2>1. PICK d \in Dispatches :
          Pend(s, [Idle EXCEPT !.act = "generate_document", !.order = d, !.kind = kind,
                     !.number = NextNumber(NumbersUsed(kind))])
    BY <1>4 DEF GenerateDocument
  <2> DEFINE n == NextNumber(NumbersUsed(kind))
             r == [Idle EXCEPT !.act = "generate_document", !.order = d, !.kind = kind, !.number = n]
  <2>2. Cardinality(documents[kind]) \in Nat
    BY FS_CardinalityType DEF DispatchInv
  <2>3. n \in Nat /\ n \in 1 .. (Cardinality(documents[kind]) + 1)
    BY <2>2, NextAfter DEF DispatchInv, DocumentsNumbered
  <2> HIDE DEF n
  <2>4. r \in Request /\ r.act = "generate_document" /\ r.order = d /\ r.kind = kind /\ r.number = n
    BY <2>3, IdleFields DEF Request, Handlers
  <2>5. Pend(s, r)
    BY <2>1 DEF n
  <2> HIDE DEF r
  <2> QED BY <2>3, <2>4, <2>5 DEF NumberInReach
<1>5. CASE CompleteDispatch(s)
  <2>1. PICK d \in Dispatches :
          /\ OpenForChange(d) /\ ItemsInspected(d) /\ CertificateOfItems(d) /\ ChecklistApproved(d)
          /\ \A kind \in Kind : HasDocument(kind, d)
          /\ Pend(s, [Idle EXCEPT !.act = "complete_dispatch", !.order = d])
    BY <1>5 DEF CompleteDispatch
  <2> DEFINE r == [Idle EXCEPT !.act = "complete_dispatch", !.order = d]
  <2>2. r \in Request /\ r.act = "complete_dispatch" /\ r.order = d
    BY IdleFields DEF Request, Handlers
  <2>3. Pend(s, r)
    BY <2>1
  <2> HIDE DEF r
  <2>4. Documented(d)
    BY <2>1 DEF Documented, OpenForChange, ChecklistApproved
  <2> QED BY <2>1, <2>2, <2>3, <2>4
<1> QED BY <1>1, <1>2, <1>3, <1>4, <1>5
        DEF Handle, GeneratePackingList, GenerateInvoice, GenerateDeliveryChallan, Kind

-----------------------------------------------------------------------------
(* A commit.                                                               *)

LEMMA ApplyTypes ==
  ASSUME DispatchInv, NEW s \in Sessions, Apply(req[s])
  PROVE  /\ dispatch' \in [Dispatches -> DispatchOrder \cup {None}]
         /\ items' \in [Dispatches -> SUBSET DispatchItem]
         /\ checklist' \in [Dispatches -> Seq(DispatchChecklist)]
         /\ documents' \in [Kind -> SUBSET Document]
<1> DEFINE r == req[s]
<1>1. TypeOK /\ r \in Request /\ Sound(r)
  BY DEF DispatchInv, TypeOK
<1>2. dispatch' \in [Dispatches -> DispatchOrder \cup {None}]
  <2>1. CASE r.act = "create_dispatch_order"
    <3> DEFINE row == [status |-> "draft", certificate |-> r.prod]
    <3>1. row \in DispatchOrder
      BY <1>1 DEF Request, DispatchOrder, DispatchStatus
    <3>2. dispatch' = [dispatch EXCEPT ![r.order] = row]
      BY <2>1 DEF Apply
    <3> QED BY <1>1, <3>1, <3>2 DEF TypeOK
  <2>2. CASE r.act = "complete_dispatch"
    <3> DEFINE row == [dispatch[r.order] EXCEPT !.status = "released"]
    <3>1. row \in DispatchOrder
      <4>1. dispatch[r.order] \in DispatchOrder
        BY <1>1, <2>2 DEF Sound, Documented, Handlers, TypeOK
      <4> QED BY <4>1 DEF DispatchOrder, DispatchStatus
    <3>2. dispatch' = [dispatch EXCEPT ![r.order] = row]
      BY <2>2 DEF Apply
    <3> QED BY <1>1, <3>1, <3>2 DEF TypeOK
  <2> QED BY <1>1, <2>1, <2>2 DEF Apply, TypeOK
<1>3. items' \in [Dispatches -> SUBSET DispatchItem]
  <2>1. CASE r.act = "add_dispatch_item"
    <3> DEFINE row == [line |-> r.line, prod |-> r.prod]
    <3>1. row \in DispatchItem
      BY <1>1, <2>1 DEF Sound, DispatchItem
    <3>2. items' = [items EXCEPT ![r.order] = @ \cup {row}]
      BY <2>1 DEF Apply
    <3> QED BY <1>1, <3>1, <3>2 DEF TypeOK
  <2> QED BY <1>1, <2>1 DEF Apply, TypeOK
<1>4. checklist' \in [Dispatches -> Seq(DispatchChecklist)]
  <2>1. CASE r.act = "verify_dispatch_checklist"
    <3>1. r.order \in Dispatches /\ CheckNamed(r)
      BY <1>1, <2>1 DEF Sound, Handlers
    <3> DEFINE rows == checklist[r.order]
    <3>2. rows \in Seq(DispatchChecklist)
      BY <1>1, <3>1 DEF TypeOK
    <3>3. Checked(rows, r) \in Seq(DispatchChecklist)
      <4>1. CASE r.row = 0
        <5> DEFINE row == [point |-> r.point, status |-> r.set]
        <5>1. row \in DispatchChecklist
          BY <3>1, <4>1 DEF CheckNamed, DispatchChecklist
        <5>2. Checked(rows, r) = Append(rows, row)
          BY <4>1 DEF Checked
        <5> HIDE DEF row, rows
        <5> QED BY <3>2, <5>1, <5>2
      <4>2. CASE r.row # 0 /\ r.set # Keep
        <5> DEFINE row == [rows[r.row] EXCEPT !.status = r.set]
        <5>1. row \in DispatchChecklist
          <6>1. rows[r.row] \in DispatchChecklist
            BY <3>1, <3>2, <4>2 DEF CheckNamed
          <6> QED BY <1>1, <4>2, <6>1 DEF DispatchChecklist, Request
        <5>2. Checked(rows, r) = [rows EXCEPT ![r.row] = row]
          BY <4>2 DEF Checked
        <5>3. r.row \in 1 .. Len(rows)
          BY <3>1, <3>2, <4>2 DEF CheckNamed
        <5> HIDE DEF row, rows
        <5> QED BY <3>2, <5>1, <5>2, <5>3, ExceptSeq
      <4> QED BY <3>2, <4>1, <4>2 DEF Checked
    <3>4. checklist' = [checklist EXCEPT ![r.order] = Checked(rows, r)]
      BY <2>1 DEF Apply
    <3> HIDE DEF rows
    <3> QED BY <1>1, <3>3, <3>4 DEF TypeOK
  <2> QED BY <1>1, <2>1 DEF Apply, TypeOK
<1>5. documents' \in [Kind -> SUBSET Document]
  <2>1. CASE r.act = "generate_document"
    <3> DEFINE row == [order |-> r.order, number |-> r.number]
    <3>1. row \in Document
      BY <1>1, <2>1 DEF Sound, Handlers, Request, Document
    <3>2. documents' = [documents EXCEPT ![r.kind] = @ \cup {row}]
      BY <2>1 DEF Apply
    <3> QED BY <1>1, <3>1, <3>2 DEF TypeOK
  <2> QED BY <1>1, <2>1 DEF Apply, TypeOK
<1> QED BY <1>2, <1>3, <1>4, <1>5

\* What a commit changes of an order that is there: nothing is taken away, and
\* its certificate stays.
LEMMA ApplyGrows ==
  ASSUME DispatchInv, NEW s \in Sessions, Apply(req[s]), ~ConstraintFails(req[s])
  PROVE  /\ \A d \in Dispatches : dispatch[d] # None =>
              /\ dispatch'[d] # None
              /\ dispatch'[d].certificate = dispatch[d].certificate
              /\ ~Released(d) /\ Released(d)' =>
                   req[s].act = "complete_dispatch" /\ req[s].order = d
         /\ \A d \in Dispatches : items[d] \subseteq items'[d]
         /\ \A d \in Dispatches : DOMAIN checklist[d] \subseteq DOMAIN checklist'[d]
         /\ \A k \in Kind : documents[k] \subseteq documents'[k]
<1> DEFINE r == req[s]
<1>1. TypeOK /\ r \in Request /\ Sound(r)
  BY DEF DispatchInv, TypeOK
<1>2. ASSUME NEW d \in Dispatches, dispatch[d] # None
      PROVE  /\ dispatch'[d] # None
             /\ dispatch'[d].certificate = dispatch[d].certificate
             /\ ~Released(d) /\ Released(d)' => r.act = "complete_dispatch" /\ r.order = d
  <2>1. dispatch[d] \in DispatchOrder
    BY <1>1, <1>2 DEF TypeOK
  <2>2. CASE r.act = "complete_dispatch" /\ r.order = d
    <3> DEFINE row == [dispatch[d] EXCEPT !.status = "released"]
    <3>1. row \in DispatchOrder /\ row.certificate = dispatch[d].certificate
      BY <2>1 DEF DispatchOrder, DispatchStatus
    <3>2. dispatch'[d] = row
      BY <1>1, <2>2 DEF Apply, TypeOK
    <3> HIDE DEF row
    <3> QED BY <2>2, <3>1, <3>2, DispatchNone
  <2>3. CASE ~(r.act = "complete_dispatch" /\ r.order = d)
    <3>1. dispatch'[d] = dispatch[d]
      BY <1>1, <1>2, <2>3 DEF Apply, ConstraintFails, TypeOK
    <3> QED BY <1>2, <3>1 DEF Released
  <2> QED BY <2>2, <2>3
<1>3. ASSUME NEW d \in Dispatches
      PROVE  items[d] \subseteq items'[d] /\ DOMAIN checklist[d] \subseteq DOMAIN checklist'[d]
  <2>1. items[d] \subseteq items'[d]
    BY <1>1 DEF Apply, TypeOK
  <2>2. DOMAIN checklist[d] \subseteq DOMAIN checklist'[d]
    <3>1. CASE r.act = "verify_dispatch_checklist" /\ r.order = d
      <4>1. checklist'[d] = Checked(checklist[d], r) /\ checklist[d] \in Seq(DispatchChecklist)
        BY <1>1, <3>1 DEF Apply, TypeOK
      <4> QED BY <4>1 DEF Checked
    <3>2. CASE ~(r.act = "verify_dispatch_checklist" /\ r.order = d)
      BY <1>1, <3>2 DEF Apply, TypeOK
    <3> QED BY <3>1, <3>2
  <2> QED BY <2>1, <2>2
<1>4. \A k \in Kind : documents[k] \subseteq documents'[k]
  BY <1>1 DEF Apply, TypeOK
<1> QED BY <1>2, <1>3, <1>4

\* An order is released by the commit of its release.
LEMMA ReleasedByRelease ==
  ASSUME DispatchInv, NEW s \in Sessions, Apply(req[s]), ~ConstraintFails(req[s]),
         NEW d \in Dispatches, ~Released(d), Released(d)'
  PROVE  req[s].act = "complete_dispatch" /\ req[s].order = d
<1>1. CASE dispatch[d] # None
  BY <1>1, ApplyGrows
<1>2. CASE dispatch[d] = None
  <2>1. req[s] \in Request /\ Sound(req[s]) /\ TypeOK
    BY DEF DispatchInv, TypeOK
  <2>2. req[s].act = "complete_dispatch" => req[s].order \in Dispatches /\ req[s].order # d
    BY <1>2, <2>1 DEF Sound, Documented, Handlers
  <2>3. dispatch'[d] = None \/ dispatch'[d].status = "draft"
    BY <1>2, <2>1, <2>2 DEF Apply, TypeOK
  <2> QED BY <2>3 DEF Released
<1> QED BY <1>1, <1>2

\* What a release rests on stays.
LEMMA DocumentedKept ==
  ASSUME DispatchInv, NEW s \in Sessions, Apply(req[s]), ~ConstraintFails(req[s]),
         NEW d \in Dispatches, Documented(d)
  PROVE  Documented(d)'
<1>1. dispatch'[d] # None /\ dispatch'[d].certificate = dispatch[d].certificate
  BY ApplyGrows DEF Documented
<1>2. CertificateOfItems(d)'
  BY <1>1, ApplyGrows DEF Documented, CertificateOfItems
<1>3. \A k \in Kind : HasDocument(k, d)'
  BY ApplyGrows DEF Documented, HasDocument
<1>4. checklist'[d] # <<>>
  <2>1. checklist[d] \in Seq(DispatchChecklist) /\ checklist[d] # <<>>
    BY DEF DispatchInv, TypeOK, Documented
  <2>2. Len(checklist[d]) \in Nat \ {0}
    BY <2>1, EmptySeq, Zenon
  <2>3. 1 \in DOMAIN checklist[d]
    BY <2>1, <2>2
  <2>4. 1 \in DOMAIN checklist'[d]
    BY <2>3, ApplyGrows
  <2> QED BY <2>4
<1> QED BY <1>1, <1>2, <1>3, <1>4 DEF Documented

\* The numbers of a kind, and its orders, after one more document: the index
\* on the number lets only the next one in.
LEMMA NumberedAfter ==
  ASSUME NEW k \in Kind, NEW x, NEW n \in Nat,
         documents[k] \in SUBSET Document, IsFiniteSet(documents[k]),
         n = Cardinality(documents[k]), NumbersUsed(k) = 1 .. n,
         x \in Document, x.number \in 1 .. (n + 1), x.number \notin NumbersUsed(k)
  PROVE  LET S == documents[k] \cup {x} IN
         /\ IsFiniteSet(S)
         /\ Cardinality(S) = n + 1
         /\ {y.number : y \in S} = 1 .. (n + 1)
<1>1. x.number = n + 1
  OBVIOUS
<1>2. x \notin documents[k]
  BY DEF NumbersUsed
<1>3. IsFiniteSet(documents[k] \cup {x}) /\ Cardinality(documents[k] \cup {x}) = n + 1
  BY <1>2, FS_AddElement
<1>4. {y.number : y \in documents[k] \cup {x}} = NumbersUsed(k) \cup {n + 1}
  BY <1>1 DEF NumbersUsed
<1>5. {y.number : y \in documents[k] \cup {x}} = 1 .. (n + 1)
  BY <1>4
<1> QED BY <1>3, <1>5

LEMMA ApplyNumbers ==
  ASSUME DispatchInv, NEW s \in Sessions, Apply(req[s]), ~ConstraintFails(req[s])
  PROVE  /\ \A k \in Kind : IsFiniteSet(documents[k])'
         /\ \A k \in Kind : Cardinality(documents'[k]) >= Cardinality(documents[k])
         /\ DocumentsNumbered'
<1> DEFINE r == req[s]
<1>1. TypeOK /\ r \in Request /\ Sound(r)
  BY DEF DispatchInv, TypeOK
<1> SUFFICES ASSUME NEW k \in Kind
             PROVE  /\ IsFiniteSet(documents'[k])
                    /\ Cardinality(documents'[k]) >= Cardinality(documents[k])
                    /\ NumbersUsed(k)' = 1 .. Cardinality(documents'[k])
                    /\ \A x, y \in documents'[k] : x.order = y.order => x = y
  BY DEF DocumentsNumbered
<1> DEFINE n == Cardinality(documents[k])
<1>2. /\ documents[k] \in SUBSET Document /\ IsFiniteSet(documents[k])
      /\ NumbersUsed(k) = 1 .. n /\ n \in Nat
      /\ \A x, y \in documents[k] : x.order = y.order => x = y
  BY FS_CardinalityType DEF DispatchInv, TypeOK, DocumentsNumbered
<1>3. CASE r.act = "generate_document" /\ r.kind = k
  <2> DEFINE x == [order |-> r.order, number |-> r.number]
  <2>1. /\ x \in Document /\ x.number \in 1 .. (n + 1) /\ x.number \notin NumbersUsed(k)
        /\ \A y \in documents[k] : y.order # x.order
    BY <1>1, <1>3
       DEF Sound, Handlers, NumberInReach, Request, Document, ConstraintFails, NumbersUsed
  <2>2. documents'[k] = documents[k] \cup {x}
    BY <1>1, <1>3 DEF Apply, TypeOK
  <2> HIDE DEF x
  <2> DEFINE S == documents[k] \cup {x}
  <2>3. /\ IsFiniteSet(S) /\ Cardinality(S) = n + 1
        /\ {y.number : y \in S} = 1 .. (n + 1)
    <3> HIDE DEF n
    <3> QED BY <1>2, <2>1, NumberedAfter DEF n
  <2>4. documents'[k] = S /\ NumbersUsed(k)' = {y.number : y \in S}
    BY <2>2 DEF NumbersUsed
  <2>5. \A y, z \in S : y.order = z.order => y = z
    BY <1>2, <2>1
  <2> HIDE DEF S
  <2> QED BY <1>2, <2>3, <2>4, <2>5
<1>4. CASE ~(r.act = "generate_document" /\ r.kind = k)
  <2>1. documents'[k] = documents[k]
    BY <1>1, <1>4 DEF Apply, TypeOK
  <2> QED BY <1>2, <2>1 DEF NumbersUsed
<1> QED BY <1>3, <1>4

\* What a request has checked stays, whichever request commits.
LEMMA SoundKept ==
  ASSUME DispatchInv, NEW s \in Sessions, Apply(req[s]), ~ConstraintFails(req[s]),
         NEW r \in Request, Sound(r)
  PROVE  Sound(r)'
<1>1. r.act = "verify_dispatch_checklist" => CheckNamed(r)'
  BY ApplyGrows DEF Sound, CheckNamed, Handlers
<1>2. r.act = "generate_document" => NumberInReach(r)'
  <2> SUFFICES ASSUME r.act = "generate_document" PROVE NumberInReach(r)'
    OBVIOUS
  <2>1. r.kind \in Kind /\ r.number \in 1 .. (Cardinality(documents[r.kind]) + 1)
    BY DEF Sound, NumberInReach
  <2>2. /\ Cardinality(documents[r.kind]) \in Nat /\ Cardinality(documents'[r.kind]) \in Nat
        /\ Cardinality(documents'[r.kind]) >= Cardinality(documents[r.kind])
    BY <2>1, ApplyNumbers, FS_CardinalityType DEF DispatchInv
  <2> QED BY <2>1, <2>2 DEF NumberInReach
<1>3. r.act = "complete_dispatch" => Documented(r.order)'
  BY DocumentedKept DEF Sound, Handlers
<1> QED BY <1>1, <1>2, <1>3 DEF Sound

-----------------------------------------------------------------------------
LEMMA InitDispatchInv == Init => DispatchInv
<1> SUFFICES ASSUME Init PROVE DispatchInv
  OBVIOUS
<1>1. TypeOK
  BY IdleFields DEF Init, TypeOK
<1>2. \A k \in Kind : IsFiniteSet(documents[k]) /\ Cardinality(documents[k]) = 0
  BY FS_EmptySet DEF Init
<1>3. DocumentsNumbered
  BY <1>2 DEF Init, DocumentsNumbered, NumbersUsed
<1>4. \A s \in Sessions : Sound(req[s])
  BY IdleFields DEF Init
<1> QED BY <1>1, <1>2, <1>3, <1>4 DEF Init, DispatchInv, Released

\* A step that writes no row.
LEMMA WaitDispatchInv ==
  ASSUME DispatchInv, NEW s \in Sessions, NEW r \in Request, Sound(r),
         req' = [req EXCEPT ![s] = r], UNCHANGED db
  PROVE  DispatchInv'
<1>1. TypeOK'
  BY DEF DispatchInv, TypeOK, db
<1>2. /\ \A d \in Dispatches : Documented(d)' <=> Documented(d)
      /\ \A d \in Dispatches : Released(d)' <=> Released(d)
  BY DEF Documented, CertificateOfItems, HasDocument, Released, db
<1>3. \A t \in Sessions : Sound(req[t])'
  <2> SUFFICES ASSUME NEW t \in Sessions PROVE Sound(req[t])'
    OBVIOUS
  <2>1. PICK q \in Request : q = req'[t] /\ Sound(q)
    BY DEF DispatchInv, TypeOK
  <2>2. Sound(q)'
    BY <1>2, <2>1 DEF Sound, CheckNamed, NumberInReach, db, Handlers
  <2> QED BY <2>1, <2>2 DEF Sound, CheckNamed, NumberInReach, Documented, CertificateOfItems, HasDocument
<1>4. /\ DocumentsNumbered'
      /\ \A k \in Kind : IsFiniteSet(documents[k])'
      /\ \A d \in Dispatches : (Released(d) => Documented(d))'
  BY <1>2 DEF DispatchInv, DocumentsNumbered, NumbersUsed, db
<1> QED BY <1>1, <1>3, <1>4 DEF DispatchInv

LEMMA CommitDispatchInv ==
  ASSUME DispatchInv, NEW s \in Sessions, Commit(s)
  PROVE  DispatchInv'
<1> DEFINE r == req[s]
<1>1. CASE ConstraintFails(r)
  BY <1>1, IdleFields, WaitDispatchInv DEF Commit
<1>2. CASE ~ConstraintFails(r)
  <2>0. Apply(r) /\ req' = [req EXCEPT ![s] = Idle]
    BY <1>2 DEF Commit
  <2>1. TypeOK'
    BY <2>0, ApplyTypes, IdleFields DEF DispatchInv, TypeOK
  <2>2. \A t \in Sessions : Sound(req[t])'
    <3> SUFFICES ASSUME NEW t \in Sessions PROVE Sound(req[t])'
      OBVIOUS
    <3>1. PICK q \in Request : q = req'[t] /\ Sound(q)
      BY <2>0, IdleFields DEF DispatchInv, TypeOK
    <3>2. Sound(q)'
      BY <1>2, <2>0, <3>1, SoundKept
    <3> QED BY <3>1, <3>2 DEF Sound, CheckNamed, NumberInReach, Documented, CertificateOfItems, HasDocument
  <2>3. DocumentsNumbered' /\ \A k \in Kind : IsFiniteSet(documents[k])'
    BY <1>2, <2>0, ApplyNumbers
  <2>4. ASSUME NEW d \in Dispatches, Released(d)' PROVE Documented(d)'
    <3>1. CASE Documented(d)
      BY <1>2, <2>0, <3>1, DocumentedKept
    <3>2. CASE ~Documented(d)
      <4>1. ~Released(d)
        BY <3>2 DEF DispatchInv
      <4>2. r.act = "complete_dispatch" /\ r.order = d
        BY <1>2, <2>0, <2>4, <4>1, ReleasedByRelease
      <4> QED BY <3>2, <4>2 DEF DispatchInv, Sound
    <3> QED BY <3>1, <3>2
  <2> QED BY <2>1, <2>2, <2>3, <2>4 DEF DispatchInv
<1> QED BY <1>1, <1>2

LEMMA NextDispatchInv ==
  ASSUME DispatchInv, Next
  PROVE  DispatchInv'
<1>1. ASSUME NEW s \in Sessions, Handle(s) PROVE DispatchInv'
  BY <1>1, HandleSound, WaitDispatchInv DEF Pend
<1>2. ASSUME NEW s \in Sessions, Abort(s) PROVE DispatchInv'
  BY <1>2, IdleFields, WaitDispatchInv DEF Abort
<1> QED BY <1>1, <1>2, CommitDispatchInv DEF Next

-----------------------------------------------------------------------------
(* A release and the requests it is served together with.                  *)

LEMMA InitShippingInv == ShippingInit => ShippingInv
<1> SUFFICES ASSUME ShippingInit PROVE ShippingInv
  OBVIOUS
<1>1. Init
  BY DEF ShippingInit
<1>2. \A s \in Sessions : req[s] = Idle
  BY <1>1 DEF Init
<1>3. ~Racing
  BY <1>2, IdleFields, DispatchNone DEF Racing, Handlers
<1>4. ReleasedIsApproved
  BY <1>1 DEF Init, ReleasedIsApproved, Released
<1> QED BY <1>1, <1>2, <1>3, <1>4, IdleFields, InitDispatchInv DEF ShippingInv

\* Whether a request is fresh is about the rows it reads.
LEMMA FreshKept ==
  ASSUME NEW r \in Request, Fresh(r), UNCHANGED <<db, finals>>
  PROVE  Fresh(r)'
  BY DEF Fresh, Released, ItemsInspected, FinalPassed, ChecklistApproved, db

\* A release that no other request is served with is alone.
Alone(s) == (\A t \in Sessions \ {s} : req[t] = Idle) /\ \A t \in Inspectors : qreq[t] = Quality!QIdle

LEMMA AloneUnraced ==
  ASSUME ShippingInv, ~raced, NEW s \in Sessions, req[s].act = "complete_dispatch"
  PROVE  Alone(s)
  BY DEF ShippingInv, Racing, Alone

LEMMA InspectKeepsFinals ==
  ASSUME NEW i \in Inspectors, Quality!Inspect(i)
  PROVE  UNCHANGED finals
  BY DEF Quality!Inspect, Quality!CreateIncomingInspection, Quality!UpdateIncomingInspectionResult,
         Quality!CreateFinalInspection, Quality!CompleteFinalInspection, Quality!QPend, Quality!qdb

\* A step that releases an order is the commit of its release.
LEMMA ReleaseStep ==
  ASSUME DispatchInv, ShippingNext, NEW d \in Dispatches, ~Released(d), Released(d)'
  PROVE  \E s \in Sessions : req[s].act = "complete_dispatch" /\ req[s].order = d
<1>1. Next
  BY DEF ShippingNext, Released, db
<1>2. PICK s \in Sessions : Commit(s)
  <2>1. ASSUME NEW s \in Sessions, Handle(s) PROVE FALSE
    BY <2>1, HandleSound DEF Pend, db, Released
  <2> QED BY <1>1, <2>1 DEF Next, Abort, db, Released
<1>3. Apply(req[s]) /\ ~ConstraintFails(req[s])
  BY <1>2 DEF Commit, Released, db
<1> QED BY <1>3, ReleasedByRelease

\* Steps of the requests, as long as no release is raced.

LEMMA HandleFresh ==
  ASSUME ShippingInv, ~raced, NEW s \in Sessions, Handle(s)
  PROVE  (\A t \in Sessions : Fresh(req[t])') /\ ReleasedIsApproved'
<1>1. PICK r \in Request : Pend(s, r) /\ Fresh(r)
  BY HandleSound DEF ShippingInv
<1>2. UNCHANGED <<db, finals>> /\ req' = [req EXCEPT ![s] = r]
  BY <1>1 DEF Pend
<1>3. ASSUME NEW t \in Sessions PROVE Fresh(req[t])'
  <2>1. PICK q \in Request : q = req'[t] /\ Fresh(q)
    BY <1>1, <1>2 DEF ShippingInv, DispatchInv, TypeOK
  <2>2. Fresh(q)'
    BY <1>2, <2>1, FreshKept
  <2> QED BY <2>1, <2>2 DEF Fresh, Released, ItemsInspected, FinalPassed, ChecklistApproved
<1>4. ReleasedIsApproved'
  BY <1>2 DEF ShippingInv, ReleasedIsApproved, Released, ChecklistApproved, db
<1> QED BY <1>3, <1>4

LEMMA SettledFresh ==
  ASSUME ShippingInv, ~raced, NEW s \in Sessions, req' = [req EXCEPT ![s] = Idle],
         UNCHANGED <<db, finals>>
  PROVE  (\A t \in Sessions : Fresh(req[t])') /\ ReleasedIsApproved'
<1>1. ASSUME NEW t \in Sessions PROVE Fresh(req[t])'
  <2>1. PICK q \in Request : q = req'[t] /\ Fresh(q)
    BY IdleFields DEF ShippingInv, DispatchInv, TypeOK
  <2>2. Fresh(q)'
    BY <2>1, FreshKept
  <2> QED BY <2>1, <2>2 DEF Fresh, Released, ItemsInspected, FinalPassed, ChecklistApproved
<1>2. ReleasedIsApproved'
  BY DEF ShippingInv, ReleasedIsApproved, Released, ChecklistApproved, db
<1> QED BY <1>1, <1>2

LEMMA CommitFresh ==
  ASSUME ShippingInv, ~raced, NEW s \in Sessions, Commit(s)
  PROVE  (\A t \in Sessions : Fresh(req[t])') /\ ReleasedIsApproved'
<1> DEFINE r == req[s]
<1>0. /\ DispatchInv /\ TypeOK /\ r \in Request /\ Sound(r) /\ Fresh(r) /\ r # Idle
      /\ req' = [req EXCEPT ![s] = Idle]
  BY DEF ShippingInv, DispatchInv, TypeOK, Commit
<1>1. CASE ConstraintFails(r)
  BY <1>1, SettledFresh DEF Commit
<1>2. CASE ~ConstraintFails(r) /\ r.act = "complete_dispatch"
  <2>1. Apply(r) /\ Alone(s)
    BY <1>2, AloneUnraced DEF Commit
  <2>2. \A t \in Sessions : req'[t] = Idle
    BY <1>0, <2>1 DEF Alone, TypeOK
  <2>3. \A t \in Sessions : Fresh(req[t])'
    BY <2>2, IdleFields, DispatchNone DEF Fresh, Handlers
  <2>4. ASSUME NEW d \in Dispatches, Released(d)' PROVE ChecklistApproved(d)'
    <3>1. UNCHANGED checklist
      BY <1>2, <2>1 DEF Apply
    <3>2. ChecklistApproved(d)
      <4>1. CASE Released(d)
        BY <4>1 DEF ShippingInv, ReleasedIsApproved
      <4>2. CASE ~Released(d)
        BY <1>0, <1>2, <2>1, <2>4, <4>2, ReleasedByRelease DEF Fresh
      <4> QED BY <4>1, <4>2
    <3> QED BY <3>1, <3>2 DEF ChecklistApproved
  <2> QED BY <2>3, <2>4 DEF ReleasedIsApproved
<1>3. CASE ~ConstraintFails(r) /\ r.act # "complete_dispatch"
  <2>0. Apply(r) /\ UNCHANGED finals
    BY <1>3 DEF Commit
  <2>1. \A d \in Dispatches : Released(d)' => Released(d)
    BY <1>0, <1>3, <2>0, ReleasedByRelease
  <2>2. ASSUME NEW t \in Sessions PROVE Fresh(req[t])'
    <3>1. req[t].act # "complete_dispatch"
      BY <1>0, <1>3, AloneUnraced DEF Alone
    <3>2. PICK q \in Request :
            q = req'[t] /\ Sound(q) /\ Fresh(q) /\ q.act # "complete_dispatch"
      BY <1>0, <3>1, IdleFields, DispatchNone DEF ShippingInv, DispatchInv, TypeOK, Handlers
    <3>3. Fresh(q)'
      BY <2>1, <3>2 DEF Fresh, Sound, Handlers
    <3> QED BY <3>2, <3>3 DEF Fresh, Released, ItemsInspected, FinalPassed, ChecklistApproved
  <2>3. ASSUME NEW d \in Dispatches, Released(d)' PROVE ChecklistApproved(d)'
    <3>1. Released(d) /\ ChecklistApproved(d)
      BY <2>1, <2>3 DEF ShippingInv, ReleasedIsApproved
    <3>2. ~(r.act = "verify_dispatch_checklist" /\ r.order = d)
      BY <1>0, <3>1 DEF Fresh
    <3>3. checklist'[d] = checklist[d]
      BY <1>0, <2>0, <3>2 DEF Apply, TypeOK
    <3> QED BY <3>1, <3>3 DEF ChecklistApproved
  <2> QED BY <2>2, <2>3 DEF ReleasedIsApproved
<1> QED BY <1>1, <1>2, <1>3

\* An inspection that commits decides no inspection of a release being served.
LEMMA InspectionFresh ==
  ASSUME ShippingInv, ~raced, InspectionStep, UNCHANGED <<db, req>>
  PROVE  (\A t \in Sessions : Fresh(req[t])') /\ ReleasedIsApproved'
<1>1. PICK i \in Inspectors : Quality!Inspect(i) \/ Quality!QCommit(i) \/ Quality!QAbort(i)
  BY DEF InspectionStep
<1>2. ASSUME NEW t \in Sessions, req[t].act = "complete_dispatch" PROVE UNCHANGED finals
  BY <1>1, <1>2, AloneUnraced, InspectKeepsFinals DEF Alone, Quality!QCommit, Quality!QAbort
<1>3. ASSUME NEW t \in Sessions PROVE Fresh(req[t])'
  <2>1. PICK q \in Request : q = req[t] /\ q = req'[t] /\ Fresh(q)
    BY DEF ShippingInv, DispatchInv, TypeOK
  <2>2. Fresh(q)'
    <3>1. CASE q.act = "complete_dispatch"
      BY <1>2, <2>1, <3>1, FreshKept
    <3>2. CASE q.act # "complete_dispatch"
      BY <2>1, <3>2 DEF Fresh, Released, db
    <3> QED BY <3>1, <3>2
  <2> QED BY <2>1, <2>2 DEF Fresh, Released, ItemsInspected, FinalPassed, ChecklistApproved
<1>4. ReleasedIsApproved'
  BY DEF ShippingInv, ReleasedIsApproved, Released, ChecklistApproved, db
<1> QED BY <1>3, <1>4

LEMMA StutterDispatchInv == ASSUME DispatchInv, UNCHANGED <<db, req>> PROVE DispatchInv'
  BY DEF DispatchInv, TypeOK, Sound, CheckNamed, NumberInReach, Documented, CertificateOfItems,
         HasDocument, Released, DocumentsNumbered, NumbersUsed, db

LEMMA NextShippingInv == ShippingInv /\ [ShippingNext]_allVars => ShippingInv'
<1> SUFFICES ASSUME ShippingInv, [ShippingNext]_allVars PROVE ShippingInv'
  OBVIOUS
<1>1. CASE UNCHANGED allVars
  <2>0. UNCHANGED <<db, finals, req, qreq, raced>>
    BY <1>1 DEF allVars, vars, quality
  <2>1. DispatchInv'
    BY <2>0, StutterDispatchInv DEF ShippingInv
  <2>2. (Racing => raced)' /\ ReleasedIsApproved'
    BY <2>0 DEF ShippingInv, Racing, ReleasedIsApproved, Released, ChecklistApproved, db
  <2>3. ASSUME ~raced', NEW t \in Sessions PROVE Fresh(req[t])'
    <3>1. PICK q \in Request : q = req'[t] /\ Fresh(q)
      BY <2>0, <2>3 DEF ShippingInv, DispatchInv, TypeOK
    <3>2. Fresh(q)'
      BY <2>0, <3>1, FreshKept
    <3> QED BY <3>1, <3>2 DEF Fresh, Released, ItemsInspected, FinalPassed, ChecklistApproved
  <2> QED BY <2>1, <2>2, <2>3 DEF ShippingInv
<1>2. CASE ShippingNext
  <2>1. DispatchInv'
    BY <1>2, NextDispatchInv, StutterDispatchInv DEF ShippingNext, ShippingInv
  <2>2. Racing' => raced'
    BY <1>2 DEF ShippingNext
  <2>3. ASSUME ~raced'
        PROVE  (\A s \in Sessions : Fresh(req[s])') /\ ReleasedIsApproved'
    <3>0. ~raced
      BY <1>2, <2>3 DEF ShippingNext
    <3>1. ASSUME NEW s \in Sessions, Abort(s)
          PROVE  (\A t \in Sessions : Fresh(req[t])') /\ ReleasedIsApproved'
      BY <3>0, <3>1, SettledFresh DEF Abort
    <3> QED BY <1>2, <3>0, <3>1, HandleFresh, CommitFresh, InspectionFresh DEF ShippingNext, Next
  <2> QED BY <2>1, <2>2, <2>3 DEF ShippingInv, ReleasedIsApproved
<1> QED BY <1>1, <1>2

LEMMA ShippingKept == ShippingSpec => []ShippingInv
  BY InitShippingInv, NextShippingInv, PTL DEF ShippingSpec

-----------------------------------------------------------------------------
(* Whatever the interleaving of the requests.                              *)

\* Every column, and what every request is about to write, keeps its type: a
\* certificate stays with its order, a check is updated where there is one.
THEOREM TypeCorrect == ShippingSpec => []TypeOK
<1>1. ShippingInv => TypeOK
  BY DEF ShippingInv, DispatchInv
<1> QED BY <1>1, ShippingKept, PTL

\* Documents are numbered without a gap and without a repetition, one of a kind
\* for an order, though no handler locks what it reads: of the requests that
\* compute the same number the unique index lets one through, and it is the
\* next one.
THEOREM NumbersExact == ShippingSpec => []DocumentsNumbered
<1>1. ShippingInv => DocumentsNumbered
  BY DEF ShippingInv, DispatchInv
<1> QED BY <1>1, ShippingKept, PTL

\* A released order has its three documents, a certificate of what it
\* dispatches and a checklist: whatever commits between the release's checks
\* and its commit only adds rows.
THEOREM DocumentsStay == ShippingSpec => []ReleasedIsDocumented
<1>1. ShippingInv => ReleasedIsDocumented
  BY DEF ShippingInv, DispatchInv, Documented, CertificateOfItems, ReleasedIsDocumented
<1> QED BY <1>1, ShippingKept, PTL

-----------------------------------------------------------------------------
(* As long as no release is served together with another request.          *)

\* The checklist of a released order stays approved: no request that could
\* reopen it is in progress when it is released, and none begins afterwards.
THEOREM ApprovalStays == ShippingSpec => []ReleasedIsApproved
<1>1. ShippingInv => ReleasedIsApproved
  BY DEF ShippingInv
<1> QED BY <1>1, ShippingKept, PTL

\* An order is released with every item's latest final inspection passed.
THEOREM PassAtRelease == ShippingSpec => ReleasedOnPass
<1> DEFINE OnPass == \A d \in Dispatches : ~raced /\ ~Released(d) /\ Released(d)' =>
             \A x \in items[d] : FinalPassed(x.prod)
<1>1. ShippingInv /\ [ShippingNext]_allVars => [OnPass]_allVars
  <2> SUFFICES ASSUME ShippingInv, ShippingNext, NEW d \in Dispatches,
                      ~raced, ~Released(d), Released(d)'
               PROVE  \A x \in items[d] : FinalPassed(x.prod)
    OBVIOUS
  <2>1. ItemsInspected(d)
    BY ReleaseStep DEF ShippingInv, Fresh
  <2> QED BY <2>1 DEF ItemsInspected
<1> QED BY <1>1, ShippingKept, PTL DEF ShippingSpec, ReleasedOnPass
=============================================================================
