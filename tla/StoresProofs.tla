---------------------------- MODULE StoresProofs ----------------------------
(***************************************************************************)
(* Proofs about Stores, for every number of sessions, batches, locations   *)
(* and quantities.                                                         *)
(***************************************************************************)
EXTENDS Stores, TLAPS

Inspecting(r) == r.act = "perform_rmir_inspection"
Issuing(r) == r.act = "issue_material_to_production"
ChangesLocation(r) == r.act \in {"update_storage_location", "delete_location"}
OnBatch(r) ==
  r.act \in {"add_grn_item", "create_mtc_verification", "perform_rmir_inspection",
             "issue_material_to_production"}

-----------------------------------------------------------------------------
(* What a handler has checked of its request and what no commit of another *)
(* request undoes.                                                         *)

\* What a request names exists.
Named(r) ==
  /\ r.act = "create_grn" => r.grn \in Grns
  /\ OnBatch(r) => r.batch \in Batches
  /\ ChangesLocation(r) \/ r.posts => r.place \in Locations /\ location[r.place] # None

\* An acceptance is certified, and posts unless the batch is Accepted already,
\* exactly what was accepted, on top of the stock as it is.
InspectionSound(r) ==
  /\ r.posts => /\ Inspecting(r) /\ r.status = "Accepted" /\ r.writes
                /\ r.quantity > 0 /\ r.quantity = accepted[r.batch]
                /\ r.balance = stock[r.batch] + r.quantity
  /\ Inspecting(r) /\ r.status = "Accepted" =>
       /\ r.posts <=> rmir[r.batch] # "Accepted"
       /\ r.batch \notin Legacy => r.batch \in mtc

\* Stock is issued from an inventory row.
IssueSound(r) == Issuing(r) => place[r.batch] # None

Sound(r) == Named(r) /\ InspectionSound(r) /\ IssueSound(r)

\* SELECT ... FOR UPDATE of the item: one inspection of a batch at a time.
InspectionExclusive ==
  \A s, t \in Sessions :
    s # t /\ Inspecting(req[s]) /\ Inspecting(req[t]) => req[s].batch # req[t].batch

PlaceExists == \A b \in Batches : place[b] # None => location[place[b]] # None

PostingInv ==
  /\ TypeOK
  /\ \A s \in Sessions : Sound(req[s])
  /\ InspectionExclusive
  /\ PlaceExists /\ AcceptedIsPosted /\ AcceptedHasMtc

-----------------------------------------------------------------------------
(* What a handler has checked and another request may undo before its      *)
(* commit.                                                                 *)

\* An issue takes what is there and leaves the rest, to within a tie.
IssueFresh(r) ==
  Issuing(r) =>
    /\ 0 < r.quantity /\ r.quantity <= stock[r.batch]
    /\ r.balance = stock[r.batch] - r.quantity \/ r.balance = stock[r.batch] - r.quantity + 1
    /\ ~r.writes => r.balance = stock[r.batch]

\* Stock moves in locations that are not deleted; an empty one is deleted.
LocationFresh(r) ==
  /\ Issuing(r) => ~location[place[r.batch]].deleted
  /\ r.posts => ~location[r.place].deleted
  /\ r.act = "delete_location" => ~HasLiveStock(r.place)

Fresh(r) == IssueFresh(r) /\ LocationFresh(r)

-----------------------------------------------------------------------------
LEMMA StoredType == ASSUME NEW x \in Nat PROVE Stored(x) \in Nat
  BY DEF Stored

\* What is issued, rounded half up, and the balance, rounded half to even from
\* the exact difference, add up to the stock or, at a tie, to one more.
LEMMA RoundingOfIssue ==
  ASSUME NEW x \in Nat, NEW q \in Nat, q <= x * SubUnits
  PROVE  LET n == Quantized(x * SubUnits - q) IN
         /\ Stored(q) \in Nat /\ n \in Nat /\ Stored(q) <= x
         /\ n = x - Stored(q) \/ n = x - Stored(q) + 1
<1> DEFINE k == q \div 10
           d == q % 10
           y == x * 10 - q
<1>1. k \in Nat /\ d \in 0..9 /\ q = 10 * k + d
  OBVIOUS
<1>2. y \in Nat /\ y = 10 * (x - k) - d
  BY <1>1 DEF SubUnits
<1>3. CASE d = 0
  <2>1. y \div 10 = x - k /\ y % 10 = 0
    BY <1>1, <1>2, <1>3
  <2>2. Stored(q) = k
    BY <1>1, <1>3 DEF Stored
  <2> QED BY <1>1, <1>2, <2>1, <2>2 DEF Quantized, SubUnits
<1>4. CASE d # 0
  <2>1. y \div 10 = x - k - 1 /\ y % 10 = 10 - d
    BY <1>1, <1>2, <1>4
  <2>2. Stored(q) = IF d >= 5 THEN k + 1 ELSE k
    BY <1>1 DEF Stored
  <2>3. x - k - 1 >= 0
    BY <1>1, <1>2, <1>4
  <2>4. Quantized(y) = IF 10 - d > 5 \/ (10 - d = 5 /\ (x - k - 1) % 2 = 1)
                       THEN x - k ELSE x - k - 1
    BY <1>1, <2>1 DEF Quantized
  <2> QED BY <1>1, <1>2, <2>2, <2>3, <2>4 DEF SubUnits
<1> QED BY <1>1, <1>3, <1>4

LEMMA IdleFields ==
  /\ Idle \in Request
  /\ Idle.act = None /\ Idle.status = "Pending" /\ ~Idle.posts
  BY StoresNone DEF Idle, Request, InspectionStatus

LEMMA IdleSound == Idle \in Request /\ Sound(Idle) /\ ~Inspecting(Idle) /\ ~Issuing(Idle)
  BY StoresNone
     DEF Idle, Request, Sound, Named, InspectionSound, IssueSound, Inspecting, Issuing,
         ChangesLocation, OnBatch, InspectionStatus, Handlers

\* Every handler leaves a sound request, an inspection with its item locked.
LEMMA HandleSound ==
  ASSUME TypeOK, NEW s \in Sessions, Handle(s)
  PROVE  \E r \in Request :
           Pend(s, r) /\ Sound(r) /\ Fresh(r) /\ (Inspecting(r) => ~ItemLocked(r.batch))
<1> USE DEF Sound, Named, InspectionSound, IssueSound, Inspecting, Issuing, ChangesLocation, OnBatch,
            Fresh, IssueFresh, LocationFresh
<1>1. CASE CreateGrn(s)
  <2>1. PICK g \in Grns : Pend(s, [Idle EXCEPT !.act = "create_grn", !.grn = g])
    BY <1>1 DEF CreateGrn
  <2> DEFINE r == [Idle EXCEPT !.act = "create_grn", !.grn = g]
  <2>2. r \in Request /\ r.act = "create_grn" /\ r.grn = g /\ ~r.posts
    BY IdleFields DEF Request, Handlers
  <2>3. Pend(s, r)
    BY <2>1
  <2> HIDE DEF r
  <2> QED BY <2>2, <2>3
<1>2. CASE AddGrnItem(s)
  <2>1. PICK b \in Batches, good \in Quantities :
          Pend(s, [Idle EXCEPT !.act = "add_grn_item", !.batch = b, !.quantity = Stored(good)])
    BY <1>2 DEF AddGrnItem
  <2> DEFINE r == [Idle EXCEPT !.act = "add_grn_item", !.batch = b, !.quantity = Stored(good)]
  <2>2. r \in Request /\ r.act = "add_grn_item" /\ r.batch = b /\ ~r.posts
    <3>1. Stored(good) \in Nat
      BY StoredType, StoresConstants
    <3> QED BY <3>1, IdleFields DEF Request, Handlers
  <2>3. Pend(s, r)
    BY <2>1
  <2> HIDE DEF r
  <2> QED BY <2>2, <2>3
<1>3. CASE CreateMtcVerification(s)
  <2>1. PICK b \in Batches : Pend(s, [Idle EXCEPT !.act = "create_mtc_verification", !.batch = b])
    BY <1>3 DEF CreateMtcVerification
  <2> DEFINE r == [Idle EXCEPT !.act = "create_mtc_verification", !.batch = b]
  <2>2. r \in Request /\ r.act = "create_mtc_verification" /\ r.batch = b /\ ~r.posts
    BY IdleFields DEF Request, Handlers
  <2>3. Pend(s, r)
    BY <2>1
  <2> HIDE DEF r
  <2> QED BY <2>2, <2>3
<1>4. CASE PerformRmirInspection(s)
  <2>1. PICK b \in Batches, status \in InspectionStatus, l \in Locations \cup {None} :
          /\ accepted[b] # None
          /\ ~ItemLocked(b)
          /\ status = "Accepted" => Certified(b, l)
          /\ IF Posts(b, status)
             THEN /\ accepted[b] > 0 /\ Available(l)
                  /\ Pend(s, [Idle EXCEPT !.act = "perform_rmir_inspection", !.batch = b,
                                !.status = status, !.posts = TRUE, !.place = l,
                                !.quantity = accepted[b],
                                !.balance = BalanceAfterPosting(b), !.writes = TRUE])
             ELSE Pend(s, [Idle EXCEPT !.act = "perform_rmir_inspection", !.batch = b,
                             !.status = status])
    BY <1>4 DEF PerformRmirInspection
  <2>2. CASE Posts(b, status)
    <3> DEFINE q == accepted[b]
               n == BalanceAfterPosting(b)
               r == [Idle EXCEPT !.act = "perform_rmir_inspection", !.batch = b,
                       !.status = status, !.posts = TRUE, !.place = l,
                       !.quantity = q, !.balance = n, !.writes = TRUE]
    <3>1. /\ q \in Nat /\ n = stock[b] + q /\ n \in Nat
          /\ l \in Locations /\ location[l] # None /\ ~location[l].deleted
      BY <2>1, <2>2 DEF TypeOK, BalanceAfterPosting, Available
    <3>2. /\ r \in Request
          /\ r.act = "perform_rmir_inspection" /\ r.batch = b /\ r.status = status
          /\ r.posts /\ r.place = l /\ r.quantity = q /\ r.balance = n /\ r.writes
      <4> HIDE DEF q, n
      <4> QED BY <2>1, <3>1, IdleFields DEF Request, Handlers
    <3>3. Pend(s, r)
      BY <2>1, <2>2
    <3> HIDE DEF r
    <3>4. Sound(r) /\ Fresh(r)
      BY <2>1, <2>2, <3>1, <3>2 DEF Posts, Certified
    <3> QED BY <2>1, <3>2, <3>3, <3>4
  <2>3. CASE ~Posts(b, status)
    <3> DEFINE r == [Idle EXCEPT !.act = "perform_rmir_inspection", !.batch = b, !.status = status]
    <3>1. /\ r \in Request
          /\ r.act = "perform_rmir_inspection" /\ r.batch = b /\ r.status = status /\ ~r.posts
      BY IdleFields DEF Request, Handlers
    <3>2. Pend(s, r)
      BY <2>1, <2>3
    <3> HIDE DEF r
    <3> QED BY <2>1, <2>3, <3>1, <3>2 DEF Posts, Certified
  <2> QED BY <2>2, <2>3
<1>5. CASE IssueMaterialToProduction(s)
  <2>1. PICK b \in Batches, q \in Quantities :
          /\ place[b] \in Locations /\ ~location[place[b]].deleted
          /\ Sufficient(b, q) /\ Stored(q) > 0
          /\ Pend(s, [Idle EXCEPT !.act = "issue_material_to_production", !.batch = b,
                        !.quantity = Stored(q), !.balance = BalanceAfterIssue(b, q),
                        !.writes = BalanceAfterIssue(b, q) # stock[b]])
    BY <1>5 DEF IssueMaterialToProduction, Available
  <2> DEFINE n == BalanceAfterIssue(b, q)
             w == n # stock[b]
             r == [Idle EXCEPT !.act = "issue_material_to_production", !.batch = b,
                     !.quantity = Stored(q), !.balance = n, !.writes = w]
  <2>2. /\ Stored(q) \in Nat /\ n \in Nat /\ Stored(q) <= stock[b]
        /\ n = stock[b] - Stored(q) \/ n = stock[b] - Stored(q) + 1
    <3>1. q \in Nat /\ stock[b] \in Nat /\ q <= stock[b] * SubUnits
      BY <2>1, StoresConstants DEF TypeOK, Sufficient
    <3> QED BY <3>1, RoundingOfIssue DEF BalanceAfterIssue
  <2>3. /\ r \in Request /\ r.act = "issue_material_to_production" /\ r.batch = b /\ ~r.posts
        /\ r.quantity = Stored(q) /\ r.balance = n /\ r.writes = w
    <3>1. w \in BOOLEAN
      OBVIOUS
    <3> HIDE DEF n, w
    <3> QED BY <2>1, <2>2, <3>1, IdleFields DEF Request, Handlers
  <2>4. Pend(s, r)
    BY <2>1
  <2> HIDE DEF r
  <2> HIDE DEF n
  <2> QED BY <2>1, <2>2, <2>3, <2>4, StoresNone
<1>6. CASE UpdateStorageLocation(s) \/ DeleteLocation(s)
  <2>1. PICK act \in {"update_storage_location", "delete_location"}, l \in Locations :
          /\ location[l] # None /\ (act = "delete_location" => ~HasLiveStock(l))
          /\ Pend(s, [Idle EXCEPT !.act = act, !.place = l, !.wasActive = location[l].active])
    BY <1>6 DEF UpdateStorageLocation, DeleteLocation
  <2> DEFINE active == location[l].active
             r == [Idle EXCEPT !.act = act, !.place = l, !.wasActive = active]
  <2>2. r \in Request /\ r.act = act /\ r.place = l /\ ~r.posts
    <3>1. active \in BOOLEAN
      BY <2>1 DEF TypeOK, StorageLocation
    <3> HIDE DEF active
    <3> QED BY <2>1, <3>1, IdleFields DEF Request, Handlers
  <2>3. Pend(s, r)
    BY <2>1
  <2> HIDE DEF r
  <2> QED BY <2>1, <2>2, <2>3
<1> QED BY <1>1, <1>2, <1>3, <1>4, <1>5, <1>6 DEF Handle

LEMMA InitPostingInv == Init => PostingInv
  BY IdleSound, StoresNone
     DEF Init, PostingInv, TypeOK, InspectionExclusive, PlaceExists, AcceptedIsPosted,
         AcceptedHasMtc, InspectionStatus

\* A step that changes no table but replaces requests by sound ones.
LEMMA PendPostingInv ==
  ASSUME PostingInv, NEW s \in Sessions, Handle(s)
  PROVE  PostingInv'
<1>1. PICK r \in Request : Pend(s, r) /\ Sound(r) /\ (Inspecting(r) => ~ItemLocked(r.batch))
  BY HandleSound DEF PostingInv
<1>2. UNCHANGED <<poStatus, db>> /\ req' = [req EXCEPT ![s] = r]
  BY <1>1 DEF Pend
<1>3. TypeOK'
  BY <1>2 DEF PostingInv, TypeOK, db, inventory
<1>4. \A t \in Sessions : Sound(req[t])'
  BY <1>1, <1>2, <1>3
     DEF PostingInv, TypeOK, Sound, Named, InspectionSound, IssueSound, Inspecting, Issuing,
         ChangesLocation, OnBatch, db, inventory
<1>5. InspectionExclusive'
  BY <1>1, <1>2 DEF PostingInv, TypeOK, InspectionExclusive, Inspecting, ItemLocked
<1>6. (PlaceExists /\ AcceptedIsPosted /\ AcceptedHasMtc)'
  BY <1>2 DEF PostingInv, PlaceExists, AcceptedIsPosted, AcceptedHasMtc, db, inventory
<1> QED BY <1>3, <1>4, <1>5, <1>6 DEF PostingInv

LEMMA AbortPostingInv ==
  ASSUME PostingInv, NEW s \in Sessions, req' = [req EXCEPT ![s] = Idle],
         UNCHANGED <<poStatus, db>>
  PROVE  PostingInv'
<1>1. TypeOK'
  BY IdleFields DEF PostingInv, TypeOK, db, inventory
<1>2. \A t \in Sessions : Sound(req[t])'
  BY <1>1, IdleSound
     DEF PostingInv, TypeOK, Sound, Named, InspectionSound, IssueSound, Inspecting, Issuing,
         ChangesLocation, OnBatch, db, inventory
<1>3. InspectionExclusive'
  BY IdleSound DEF PostingInv, TypeOK, InspectionExclusive, Inspecting
<1>4. (PlaceExists /\ AcceptedIsPosted /\ AcceptedHasMtc)'
  BY DEF PostingInv, PlaceExists, AcceptedIsPosted, AcceptedHasMtc, db, inventory
<1> QED BY <1>1, <1>2, <1>3, <1>4 DEF PostingInv

LEMMA ApplyTypes ==
  ASSUME PostingInv, NEW s \in Sessions, req[s] # Idle, Apply(req[s])
  PROVE  /\ grns' \subseteq Grns
         /\ location' \in [Locations -> StorageLocation \cup {None}]
         /\ \A l \in Locations : location'[l] = location[l] \/ location'[l] \in StorageLocation
         /\ accepted' \in [Batches -> Nat \cup {None}]
         /\ mtc' \subseteq Batches
         /\ rmir' \in [Batches -> InspectionStatus \cup {None}]
         /\ place' \in [Batches -> Locations \cup {None}]
         /\ stock' \in [Batches -> Nat] /\ received' \in [Batches -> Nat]
         /\ issued' \in [Batches -> Nat] /\ balance' \in [Batches -> Nat]
<1> DEFINE r == req[s]
<1>1. r \in Request /\ Named(r)
  BY DEF PostingInv, TypeOK, Sound
<1>2. grns' \subseteq Grns /\ mtc' \subseteq Batches
  BY <1>1 DEF Apply, PostingInv, TypeOK, Named, OnBatch
<1>3. /\ location' \in [Locations -> StorageLocation \cup {None}]
      /\ \A l \in Locations : location'[l] = location[l] \/ location'[l] \in StorageLocation
  <2>1. CASE ChangesLocation(r)
    <3>1. r.place \in Locations /\ location[r.place] \in StorageLocation
      BY <1>1, <2>1 DEF Named, PostingInv, TypeOK
    <3>2. PICK row \in StorageLocation : location' = [location EXCEPT ![r.place] = row]
      <4>1. CASE r.act = "update_storage_location"
        <5> DEFINE row == [location[r.place] EXCEPT !.active = ~r.wasActive]
        <5>1. row \in StorageLocation
          BY <3>1 DEF StorageLocation
        <5> QED BY <4>1, <5>1 DEF Apply
      <4>2. CASE r.act = "delete_location"
        <5> DEFINE row == [active |-> location[r.place].active /\ ~r.wasActive, deleted |-> TRUE]
        <5>1. row \in StorageLocation
          BY DEF StorageLocation
        <5> QED BY <4>2, <5>1 DEF Apply
      <4> QED BY <2>1, <4>1, <4>2 DEF ChangesLocation
    <3> QED BY <3>2 DEF PostingInv, TypeOK
  <2>2. CASE ~ChangesLocation(r)
    BY <2>2 DEF Apply, ChangesLocation, PostingInv, TypeOK
  <2> QED BY <2>1, <2>2
<1>4. /\ accepted' \in [Batches -> Nat \cup {None}]
      /\ rmir' \in [Batches -> InspectionStatus \cup {None}]
      /\ place' \in [Batches -> Locations \cup {None}]
  BY <1>1 DEF Apply, PostingInv, TypeOK, Request, Named
<1>5. /\ stock' \in [Batches -> Nat] /\ received' \in [Batches -> Nat]
      /\ issued' \in [Batches -> Nat] /\ balance' \in [Batches -> Nat]
  <2>1. LedgerRow(r) => r.batch \in Batches
    BY <1>1 DEF LedgerRow, Named, OnBatch, Inspecting, InspectionSound, PostingInv, Sound
  <2>2. r.quantity \in Nat /\ r.balance \in Nat
    BY <1>1 DEF Request
  <2>3. received' \in [Batches -> Nat]
    BY <2>1, <2>2 DEF Apply, LedgerRow, PostingInv, TypeOK
  <2>4. issued' \in [Batches -> Nat]
    BY <2>1, <2>2 DEF Apply, LedgerRow, PostingInv, TypeOK
  <2>5. balance' \in [Batches -> Nat] /\ stock' \in [Batches -> Nat]
    BY <2>1, <2>2 DEF Apply, LedgerRow, PostingInv, TypeOK
  <2> QED BY <2>3, <2>4, <2>5
<1> QED BY <1>2, <1>3, <1>4, <1>5

\* What a commit leaves of the other rows, and what it never takes away.
LEMMA ApplyKeeps ==
  ASSUME PostingInv, NEW s \in Sessions, req[s] # Idle, Apply(req[s]), ~ConstraintFails(req[s])
  PROVE  LET r == req[s] IN
         /\ \A l \in Locations : location[l] # None => location'[l] # None
         /\ mtc \subseteq mtc'
         /\ \A b \in Batches :
              /\ accepted[b] # None => accepted'[b] = accepted[b]
              /\ place[b] # None => place'[b] # None
              /\ ~(Inspecting(r) /\ r.batch = b) => rmir'[b] = rmir[b]
              /\ ~(r.posts /\ r.batch = b) => place'[b] = place[b] /\ received'[b] = received[b]
              /\ ~(LedgerRow(r) /\ r.batch = b) => stock'[b] = stock[b]
<1> DEFINE r == req[s]
<1>1. r \in Request /\ Sound(r)
  BY DEF PostingInv, TypeOK
<1>2. \A l \in Locations : location[l] # None => location'[l] # None
  BY StoresNone, ApplyTypes
<1>3. mtc \subseteq mtc'
  BY DEF Apply
<1>4. \A b \in Batches : accepted[b] # None => accepted'[b] = accepted[b]
  BY DEF Apply, ConstraintFails, PostingInv, TypeOK
<1>5. \A b \in Batches : place[b] # None => place'[b] # None
  BY <1>1, StoresNone DEF Apply, PostingInv, TypeOK, Sound, Named
<1>6. \A b \in Batches : ~(Inspecting(r) /\ r.batch = b) => rmir'[b] = rmir[b]
  BY DEF Apply, PostingInv, TypeOK, Inspecting
<1>7. \A b \in Batches :
        ~(r.posts /\ r.batch = b) => place'[b] = place[b] /\ received'[b] = received[b]
  BY DEF Apply, PostingInv, TypeOK
<1>8. \A b \in Batches : ~(LedgerRow(r) /\ r.batch = b) => stock'[b] = stock[b]
  BY DEF Apply, PostingInv, TypeOK
<1> QED BY <1>2, <1>3, <1>4, <1>5, <1>6, <1>7, <1>8

\* Another request stays sound when one commits: the locks of an inspection
\* keep the rows it read as they were.
LEMMA OthersSound ==
  ASSUME PostingInv, NEW s \in Sessions, NEW t \in Sessions \ {s},
         req[s] # Idle, ~Blocked(req[s]), Apply(req[s]), ~ConstraintFails(req[s]),
         req'[t] = req[t]
  PROVE  Sound(req[t])'
<1> DEFINE r == req[s]
           q == req[t]
<1>0. /\ r \in Request /\ Sound(r) /\ q \in Request /\ Sound(q)
      /\ Inspecting(r) /\ Inspecting(q) => r.batch # q.batch
  BY DEF PostingInv, TypeOK, InspectionExclusive
<1>1. Named(q)'
  BY <1>0, ApplyKeeps DEF Sound, Named, ChangesLocation, OnBatch
<1>2. InspectionSound(q)'
  <2>1. CASE Inspecting(q)
    <3>1. /\ q.batch \in Batches /\ rmir'[q.batch] = rmir[q.batch]
          /\ place'[q.batch] = place[q.batch]
      BY <1>0, <2>1, ApplyKeeps DEF Sound, Named, InspectionSound, OnBatch, Inspecting
    <3>2. CASE q.posts
      \* An issue finds the inventory row locked, or found none to issue from.
      <4>1. ~(LedgerRow(r) /\ r.batch = q.batch)
        <5>1. SUFFICES ASSUME Issuing(r), r.batch = q.batch PROVE FALSE
          BY <1>0, <2>1 DEF LedgerRow, Issuing, Inspecting, Sound, InspectionSound
        <5>2. place[q.batch] # None
          BY <1>0, <5>1 DEF Sound, IssueSound
        <5> QED BY <2>1, <3>2, <5>1, <5>2 DEF Blocked, InventoryLocked, Issuing, Inspecting
      <4>2. stock'[q.batch] = stock[q.batch]
        BY <3>1, <4>1, ApplyKeeps
      <4>3. accepted[q.batch] = q.quantity /\ q.quantity \in Nat
        BY <1>0, <3>2 DEF Sound, InspectionSound, Request
      <4>4. accepted'[q.batch] = accepted[q.batch]
        BY <3>1, <4>3, ApplyKeeps, StoresNone
      <4> QED BY <1>0, <2>1, <3>1, <4>2, <4>4, ApplyKeeps DEF Sound, InspectionSound, Inspecting
    <3>3. CASE ~q.posts
      BY <1>0, <2>1, <3>1, <3>3, ApplyKeeps DEF Sound, InspectionSound, Inspecting
    <3> QED BY <3>2, <3>3
  <2>2. CASE ~Inspecting(q)
    BY <1>0, <2>2 DEF Sound, InspectionSound, Inspecting
  <2> QED BY <2>1, <2>2
<1>3. IssueSound(q)'
  BY <1>0, ApplyKeeps DEF Sound, IssueSound, Issuing, Named, OnBatch
<1> QED BY <1>1, <1>2, <1>3 DEF Sound

LEMMA CommitPostingInv ==
  ASSUME PostingInv, NEW s \in Sessions, Commit(s)
  PROVE  PostingInv'
<1> DEFINE r == req[s]
<1>0. req[s] # Idle /\ ~Blocked(r) /\ req' = [req EXCEPT ![s] = Idle] /\ poStatus' = poStatus
  BY DEF Commit
<1>1. CASE ConstraintFails(r)
  BY <1>0, <1>1, AbortPostingInv DEF Commit
<1>2. CASE ~ConstraintFails(r)
  <2>0. Apply(r) /\ r \in Request /\ Sound(r)
    BY <1>2 DEF Commit, PostingInv, TypeOK
  <2>1. TypeOK'
    BY <1>0, <2>0, ApplyTypes, IdleFields DEF PostingInv, TypeOK
  <2>2. /\ req'[s] = Idle
        /\ \A t \in Sessions \ {s} : req'[t] = req[t]
    BY <1>0 DEF PostingInv, TypeOK
  <2>3. \A t \in Sessions : Sound(req[t])'
    <3>1. Sound(Idle)'
      BY IdleSound, IdleFields, StoresNone
         DEF Sound, Named, InspectionSound, IssueSound, Inspecting, Issuing, ChangesLocation,
             OnBatch, Handlers
    <3>2. Sound(req[s])'
      BY <2>2, <3>1 DEF Sound, Named, InspectionSound, IssueSound, Inspecting, Issuing,
         ChangesLocation, OnBatch
    <3>3. \A t \in Sessions \ {s} : Sound(req[t])'
      BY <1>0, <1>2, <2>0, <2>2, OthersSound
    <3> QED BY <3>2, <3>3
  <2>4. InspectionExclusive'
    BY <2>2, IdleSound DEF PostingInv, InspectionExclusive, Inspecting
  <2>5. PlaceExists'
    <3> SUFFICES ASSUME NEW b \in Batches, place'[b] # None PROVE location'[place'[b]] # None
      BY DEF PlaceExists
    <3>1. \/ place'[b] = place[b]
          \/ r.posts /\ place'[b] = r.place
      BY <2>0 DEF Apply, PostingInv, TypeOK
    <3>2. place'[b] \in Locations /\ location[place'[b]] # None
      BY <2>0, <2>1, <3>1 DEF PostingInv, PlaceExists, TypeOK, Sound, Named
    <3> QED BY <1>0, <1>2, <2>0, <3>2, ApplyKeeps
  <2>6. AcceptedIsPosted'
    <3> SUFFICES ASSUME NEW b \in Batches, rmir'[b] = "Accepted"
                 PROVE  place'[b] # None /\ received'[b] > 0
      BY DEF AcceptedIsPosted
    <3>1. CASE r.posts /\ r.batch = b
      <4>1. place'[b] = r.place /\ received'[b] = received[b] + r.quantity
        BY <2>0, <3>1 DEF Apply, PostingInv, TypeOK
      <4>2. r.place \in Locations /\ r.quantity > 0 /\ r.quantity \in Nat /\ received[b] \in Nat
        BY <2>0, <3>1 DEF Sound, Named, InspectionSound, PostingInv, TypeOK, Request
      <4> QED BY <4>1, <4>2, StoresNone
    <3>2. CASE ~(r.posts /\ r.batch = b)
      <4>1. rmir[b] = "Accepted"
        BY <2>0, <3>2 DEF Apply, PostingInv, TypeOK, Sound, InspectionSound, Inspecting
      <4>2. place'[b] = place[b] /\ received'[b] = received[b]
        BY <1>0, <1>2, <2>0, <3>2, ApplyKeeps
      <4> QED BY <4>1, <4>2 DEF PostingInv, AcceptedIsPosted
    <3> QED BY <3>1, <3>2
  <2>7. AcceptedHasMtc'
    <3> SUFFICES ASSUME NEW b \in Batches \ Legacy, rmir'[b] = "Accepted" PROVE b \in mtc
      BY <1>0, <1>2, <2>0, ApplyKeeps DEF AcceptedHasMtc
    <3>1. CASE rmir[b] = "Accepted"
      BY <3>1 DEF PostingInv, AcceptedHasMtc
    <3>2. CASE rmir[b] # "Accepted"
      BY <2>0, <3>2 DEF Apply, PostingInv, TypeOK, Sound, InspectionSound, Inspecting
    <3> QED BY <3>1, <3>2
  <2> QED BY <2>1, <2>3, <2>4, <2>5, <2>6, <2>7 DEF PostingInv
<1> QED BY <1>1, <1>2

LEMMA EnvironmentPostingInv ==
  ASSUME PostingInv, CreateStorageLocation \/ MovePurchaseOrder
  PROVE  PostingInv'
<1>1. CASE CreateStorageLocation
  <2>1. PICK l \in Locations, active \in BOOLEAN :
          /\ location[l] = None
          /\ location' = [location EXCEPT ![l] = [active |-> active, deleted |-> FALSE]]
    BY <1>1 DEF CreateStorageLocation
  <2>2. UNCHANGED <<poStatus, grns, accepted, mtc, rmir, inventory, req>>
    BY <1>1 DEF CreateStorageLocation
  <2> DEFINE row == [active |-> active, deleted |-> FALSE]
  <2>3. row \in StorageLocation
    BY DEF StorageLocation
  <2>4. location' = [location EXCEPT ![l] = row]
    BY <2>1
  <2> HIDE DEF row
  <2>5. /\ location' \in [Locations -> StorageLocation \cup {None}]
        /\ \A k \in Locations : location[k] # None => location'[k] # None
    BY <2>3, <2>4, StoresNone DEF PostingInv, TypeOK
  <2>6. TypeOK'
    BY <2>2, <2>5 DEF PostingInv, TypeOK, inventory
  <2>7. \A s \in Sessions : Sound(req[s])'
    BY <2>2, <2>5 DEF PostingInv, Sound, Named, InspectionSound, IssueSound, inventory
  <2>8. (InspectionExclusive /\ PlaceExists /\ AcceptedIsPosted /\ AcceptedHasMtc)'
    BY <2>2, <2>5
       DEF PostingInv, TypeOK, InspectionExclusive, PlaceExists, AcceptedIsPosted,
           AcceptedHasMtc, inventory
  <2> QED BY <2>6, <2>7, <2>8 DEF PostingInv
<1>2. CASE MovePurchaseOrder
  BY <1>2
     DEF MovePurchaseOrder, PostingInv, TypeOK, Sound, Named, InspectionSound, IssueSound,
         InspectionExclusive, PlaceExists, AcceptedIsPosted, AcceptedHasMtc, db, inventory
<1> QED BY <1>1, <1>2

LEMMA NextPostingInv == PostingInv /\ [Next]_vars => PostingInv'
<1> SUFFICES ASSUME PostingInv, [Next]_vars PROVE PostingInv'
  OBVIOUS
<1>1. CASE UNCHANGED vars
  BY <1>1
     DEF PostingInv, TypeOK, Sound, Named, InspectionSound, IssueSound, InspectionExclusive,
         PlaceExists, AcceptedIsPosted, AcceptedHasMtc, vars, db, inventory
<1>2. ASSUME NEW s \in Sessions, Abort(s) PROVE PostingInv'
  BY <1>2, AbortPostingInv DEF Abort
<1> QED BY <1>1, <1>2, PendPostingInv, CommitPostingInv, EnvironmentPostingInv DEF Next

LEMMA PostingsKept == Spec => []PostingInv
  BY InitPostingInv, NextPostingInv, PTL DEF Spec

-----------------------------------------------------------------------------
(* Whatever the interleaving of the requests.                              *)

\* Every column, and what every request is about to write, keeps its type: the
\* balance of an issue is never negative, though it is a difference.
THEOREM TypeCorrect == Spec => []TypeOK
<1>1. PostingInv => TypeOK
  BY DEF PostingInv
<1> QED BY <1>1, PostingsKept, PTL

\* An Accepted batch has been posted, whatever inspections came before: one
\* that accepts it without posting has seen it Accepted, and holds its item's
\* lock.
THEOREM AcceptedPosted == Spec => []AcceptedIsPosted
<1>1. PostingInv => AcceptedIsPosted
  BY DEF PostingInv
<1> QED BY <1>1, PostingsKept, PTL

\* An Accepted batch of the traceable format has its MTC verification: the
\* handler has seen it, and none is ever removed.
THEOREM AcceptedCertified == Spec => []AcceptedHasMtc
<1>1. PostingInv => AcceptedHasMtc
  BY DEF PostingInv
<1> QED BY <1>1, PostingsKept, PTL

\* A step that posts to a batch is the commit of an inspection of it.
LEMMA PostingStep ==
  ASSUME PostingInv, [Next]_vars, NEW b \in Batches, received'[b] # received[b]
  PROVE  \E s \in Sessions :
           /\ req[s].posts /\ req[s].batch = b /\ Sound(req[s]) /\ req[s] \in Request
           /\ Apply(req[s])
<1>1. PICK s \in Sessions : Commit(s)
  <2>1. ASSUME NEW s \in Sessions, Handle(s) PROVE received' = received
    BY <2>1, HandleSound DEF PostingInv, Pend, db, inventory
  <2> QED BY <2>1 DEF Next, Abort, CreateStorageLocation, MovePurchaseOrder, vars, db, inventory
<1>2. Apply(req[s]) /\ ~ConstraintFails(req[s]) /\ req[s] # Idle
  BY <1>1 DEF Commit, db, inventory
<1>3. req[s].posts /\ req[s].batch = b
  BY <1>2, ApplyKeeps
<1> QED BY <1>2, <1>3 DEF PostingInv, TypeOK

\* A batch is posted to exactly when an inspection turns it Accepted, and by
\* what was accepted: two inspectors who both accept never post twice.
THEOREM PostedOnAcceptance == Spec => PostsOnAcceptance
<1> DEFINE Posted == \A b \in Batches : received'[b] # received[b] =>
             /\ rmir[b] # "Accepted" /\ rmir'[b] = "Accepted"
             /\ received'[b] = received[b] + accepted[b]
<1>1. PostingInv /\ [Next]_vars => [Posted]_vars
  <2> SUFFICES ASSUME PostingInv, [Next]_vars, NEW b \in Batches, received'[b] # received[b]
               PROVE  /\ rmir[b] # "Accepted" /\ rmir'[b] = "Accepted"
                      /\ received'[b] = received[b] + accepted[b]
    OBVIOUS
  <2>1. PICK s \in Sessions :
          /\ req[s].posts /\ req[s].batch = b /\ Sound(req[s]) /\ req[s] \in Request
          /\ Apply(req[s])
    BY PostingStep
  <2> QED BY <2>1 DEF Apply, Sound, InspectionSound, Inspecting, PostingInv, TypeOK
<1> QED BY <1>1, PostingsKept, PTL DEF Spec, PostsOnAcceptance

\* A posting raises the stock by what it adds to the ledger: no issue commits
\* between its read of the inventory row and its write.
THEOREM PostingsExact == Spec => PostingExact
<1> DEFINE Exact == \A b \in Batches : received'[b] # received[b] =>
             stock'[b] = stock[b] + (received'[b] - received[b])
<1>1. PostingInv /\ [Next]_vars => [Exact]_vars
  <2> SUFFICES ASSUME PostingInv, [Next]_vars, NEW b \in Batches, received'[b] # received[b]
               PROVE  stock'[b] = stock[b] + (received'[b] - received[b])
    OBVIOUS
  <2>1. PICK s \in Sessions :
          /\ req[s].posts /\ req[s].batch = b /\ Sound(req[s]) /\ req[s] \in Request
          /\ Apply(req[s])
    BY PostingStep
  <2>2. received'[b] = received[b] + req[s].quantity /\ stock'[b] = stock[b] + req[s].quantity
    BY <2>1 DEF Apply, LedgerRow, Sound, InspectionSound, PostingInv, TypeOK
  <2> QED BY <2>1, <2>2 DEF PostingInv, TypeOK, Request
<1> QED BY <1>1, PostingsKept, PTL DEF Spec, PostingExact

-----------------------------------------------------------------------------
(* With one request at a time.                                             *)

OneSession == \A s, t \in Sessions : s = t

SerialInv ==
  /\ PostingInv
  /\ \A s \in Sessions : Fresh(req[s])
  /\ StockCoversLedger /\ DeletedLocationEmpty

LEMMA IdleFresh == Fresh(Idle)
  BY IdleFields, StoresNone
     DEF Fresh, IssueFresh, LocationFresh, Issuing, Handlers

LEMMA InitSerialInv == Init => SerialInv
<1> SUFFICES ASSUME Init PROVE SerialInv
  OBVIOUS
<1>1. \A s \in Sessions : Fresh(req[s])
  BY IdleFresh DEF Init
<1> QED BY <1>1, InitPostingInv DEF Init, SerialInv, StockCoversLedger, DeletedLocationEmpty

LEMMA HandleSerialInv ==
  ASSUME OneSession, SerialInv, NEW s \in Sessions, Handle(s)
  PROVE  SerialInv'
<1>0. PostingInv'
  BY PendPostingInv DEF SerialInv
<1>1. PICK r \in Request : Pend(s, r) /\ Fresh(r)
  BY HandleSound DEF SerialInv, PostingInv
<1>2. UNCHANGED db /\ req'[s] = r /\ \A t \in Sessions : t = s
  BY <1>1 DEF Pend, SerialInv, PostingInv, TypeOK, OneSession
<1>3. \A t \in Sessions : Fresh(req[t])'
  BY <1>1, <1>2 DEF Fresh, IssueFresh, LocationFresh, Issuing, HasLiveStock, db, inventory
<1> QED BY <1>0, <1>2, <1>3 DEF SerialInv, StockCoversLedger, DeletedLocationEmpty, db, inventory

\* A step after which no request is in flight.
LEMMA SettledSerialInv ==
  ASSUME OneSession, SerialInv, NEW s \in Sessions, req' = [req EXCEPT ![s] = Idle],
         PostingInv', (StockCoversLedger /\ DeletedLocationEmpty)'
  PROVE  SerialInv'
<1>1. \A t \in Sessions : req'[t] = Idle
  BY DEF OneSession, SerialInv, PostingInv, TypeOK
<1>2. \A t \in Sessions : Fresh(req[t])'
  BY <1>1, IdleFields, StoresNone DEF Fresh, IssueFresh, LocationFresh, Issuing, Handlers
<1> QED BY <1>2 DEF SerialInv

LEMMA CommitSerialInv ==
  ASSUME OneSession, SerialInv, NEW s \in Sessions, Commit(s)
  PROVE  SerialInv'
<1> DEFINE r == req[s]
<1>0. PostingInv' /\ PostingInv /\ req' = [req EXCEPT ![s] = Idle]
  BY CommitPostingInv DEF SerialInv, Commit
<1>1. CASE ConstraintFails(r)
  BY <1>0, <1>1, SettledSerialInv
     DEF Commit, SerialInv, StockCoversLedger, DeletedLocationEmpty, db, inventory
<1>2. CASE ~ConstraintFails(r)
  <2>0. Apply(r) /\ r \in Request /\ Sound(r) /\ Fresh(r) /\ req[s] # Idle
    BY <1>0, <1>2 DEF Commit, PostingInv, TypeOK, SerialInv
  <2>1. StockCoversLedger'
    <3> SUFFICES ASSUME NEW b \in Batches PROVE received'[b] <= stock'[b] + issued'[b]
      BY DEF StockCoversLedger
    <3>0. /\ received[b] \in Nat /\ stock[b] \in Nat /\ issued[b] \in Nat
          /\ r.quantity \in Nat /\ r.balance \in Nat
          /\ received[b] <= stock[b] + issued[b]
      BY <1>0, <2>0 DEF PostingInv, TypeOK, SerialInv, StockCoversLedger, Request
    <3>1. CASE ~(LedgerRow(r) /\ r.batch = b)
      BY <1>0, <2>0, <3>0, <3>1 DEF Apply, LedgerRow, PostingInv, TypeOK
    <3>2. CASE r.posts /\ r.batch = b
      <4>1. received'[b] = received[b] + r.quantity /\ stock'[b] = stock[b] + r.quantity
            /\ issued'[b] = issued[b]
        BY <1>0, <2>0, <3>2
           DEF Apply, LedgerRow, PostingInv, TypeOK, Sound, InspectionSound, Inspecting
      <4> QED BY <3>0, <4>1
    <3>3. CASE Issuing(r) /\ r.batch = b
      <4>1. received'[b] = received[b] /\ stock'[b] = r.balance
            /\ issued'[b] = issued[b] + r.quantity
        BY <1>0, <2>0, <3>3
           DEF Apply, LedgerRow, PostingInv, TypeOK, Sound, InspectionSound, Inspecting, Issuing,
               Fresh, IssueFresh
      <4>2. r.balance >= stock[b] - r.quantity
        BY <2>0, <3>0, <3>3 DEF Fresh, IssueFresh
      <4> QED BY <3>0, <4>1, <4>2
    <3> QED BY <3>1, <3>2, <3>3 DEF LedgerRow, Issuing
  <2>2. DeletedLocationEmpty'
    <3> SUFFICES ASSUME NEW b \in Batches, place'[b] # None, location'[place'[b]].deleted
                 PROVE  stock'[b] = 0
      BY DEF DeletedLocationEmpty
    <3>0. place'[b] \in Locations /\ stock[b] \in Nat
      BY <1>0 DEF PostingInv, TypeOK
    <3>1. CASE LedgerRow(r)
      <4>1. location' = location
        BY <2>0, <3>1 DEF Apply, LedgerRow, Sound, InspectionSound, Inspecting
      <4>2. ~(r.posts /\ r.batch = b)
        BY <1>0, <2>0, <4>1 DEF Apply, PostingInv, TypeOK, Fresh, LocationFresh
      <4>3. place'[b] = place[b]
        BY <1>0, <1>2, <2>0, <4>2, ApplyKeeps
      <4>4. ~(Issuing(r) /\ r.batch = b)
        BY <2>0, <4>1, <4>3 DEF Fresh, LocationFresh
      <4>5. stock'[b] = stock[b]
        BY <1>0, <1>2, <2>0, <4>2, <4>4, ApplyKeeps DEF LedgerRow, Issuing
      <4> QED BY <4>1, <4>3, <4>5 DEF SerialInv, DeletedLocationEmpty
    <3>2. CASE ~LedgerRow(r)
      <4>1. place'[b] = place[b] /\ stock'[b] = stock[b]
        BY <1>0, <1>2, <2>0, <3>2, ApplyKeeps DEF LedgerRow
      <4>2. CASE r.act = "delete_location" /\ r.place = place[b]
        BY <2>0, <3>0, <4>1, <4>2 DEF Fresh, LocationFresh, HasLiveStock
      <4>3. CASE ~(r.act = "delete_location" /\ r.place = place[b])
        <5>1. location'[place[b]].deleted = location[place[b]].deleted
          <6>1. location[place[b]] \in StorageLocation /\ place[b] \in Locations
            BY <1>0, <3>0, <4>1 DEF PostingInv, PlaceExists, TypeOK
          <6>2. CASE r.act = "update_storage_location"
            BY <1>0, <2>0, <6>1, <6>2 DEF Apply, PostingInv, TypeOK, StorageLocation
          <6>3. CASE r.act # "update_storage_location"
            BY <1>0, <2>0, <4>3, <6>1, <6>3 DEF Apply, PostingInv, TypeOK
          <6> QED BY <6>2, <6>3
        <5> QED BY <4>1, <5>1 DEF SerialInv, DeletedLocationEmpty
      <4> QED BY <4>2, <4>3
    <3> QED BY <3>1, <3>2
  <2> QED BY <1>0, <2>1, <2>2, SettledSerialInv
<1> QED BY <1>1, <1>2

LEMMA NextSerialInv == OneSession => (SerialInv /\ [Next]_vars => SerialInv')
<1> SUFFICES ASSUME OneSession, SerialInv, [Next]_vars PROVE SerialInv'
  OBVIOUS
<1>0. PostingInv'
  BY NextPostingInv DEF SerialInv
<1>1. CASE UNCHANGED vars
  BY <1>0, <1>1
     DEF SerialInv, Fresh, IssueFresh, LocationFresh, Issuing, HasLiveStock, StockCoversLedger,
         DeletedLocationEmpty, vars, db, inventory
<1>2. ASSUME NEW s \in Sessions, Abort(s) PROVE SerialInv'
  BY <1>0, <1>2, SettledSerialInv
     DEF Abort, SerialInv, StockCoversLedger, DeletedLocationEmpty, db, inventory
<1>3. CASE MovePurchaseOrder
  BY <1>0, <1>3
     DEF MovePurchaseOrder, SerialInv, Fresh, IssueFresh, LocationFresh, Issuing, HasLiveStock,
         StockCoversLedger, DeletedLocationEmpty, db, inventory
<1>4. CASE CreateStorageLocation
  <2>1. UNCHANGED <<inventory, req>>
    BY <1>4 DEF CreateStorageLocation
  <2>2. \A l \in Locations : location[l] # None => location'[l] = location[l]
    BY <1>4 DEF CreateStorageLocation, SerialInv, PostingInv, TypeOK
  <2>3. \A b \in Batches : place[b] # None => location'[place[b]] = location[place[b]]
    BY <2>2 DEF SerialInv, PostingInv, PlaceExists, TypeOK
  <2>4. \A s \in Sessions : Fresh(req[s])'
    <3> SUFFICES ASSUME NEW s \in Sessions PROVE Fresh(req[s])'
      OBVIOUS
    <3>1. Sound(req[s]) /\ Fresh(req[s])
      BY DEF SerialInv, PostingInv
    <3> QED BY <2>1, <2>2, <2>3, <3>1
            DEF Sound, Named, IssueSound, OnBatch, Issuing, Fresh, IssueFresh, LocationFresh,
                HasLiveStock, inventory
  <2> QED BY <1>0, <2>1, <2>3, <2>4
          DEF SerialInv, StockCoversLedger, DeletedLocationEmpty, inventory
<1> QED BY <1>1, <1>2, <1>3, <1>4, HandleSerialInv, CommitSerialInv DEF Next

LEMMA SerialKept == OneSession => (Spec => []SerialInv)
<1> SUFFICES ASSUME OneSession PROVE Spec => []SerialInv
  OBVIOUS
<1>1. SerialInv /\ [Next]_vars => SerialInv'
  BY NextSerialInv
<1> QED BY <1>1, InitSerialInv, PTL DEF Spec

\* The stock covers what the ledger has on hand: an issue lowers it by the
\* quantity as rounded, and by one less at a tie, never by more.
THEOREM StockCovers == OneSession => (Spec => []StockCoversLedger)
<1>1. SerialInv => StockCoversLedger
  BY DEF SerialInv
<1> QED BY <1>1, SerialKept, PTL

\* A deleted location holds no stock: it is deleted empty, and what is posted
\* or issued in it afterwards has seen it as it is.
THEOREM DeletedEmpty == OneSession => (Spec => []DeletedLocationEmpty)
<1>1. SerialInv => DeletedLocationEmpty
  BY DEF SerialInv
<1> QED BY <1>1, SerialKept, PTL

-----------------------------------------------------------------------------
(* The inventory and its ledger implement the abstract ledger.             *)

\* A commit that posts is the ledger's Post, one that issues its Take, and any
\* other leaves the ledger alone.
LEMMA CommitTakesLedgerStep ==
  ASSUME SerialInv, NEW s \in Sessions, Commit(s)
  PROVE  Ledger!Next \/ UNCHANGED Ledger!vars
<1> DEFINE r == req[s]
           b == r.batch
<1>1. CASE ConstraintFails(r)
  BY <1>1 DEF Commit, db, inventory, Ledger!vars
<1>2. CASE ~ConstraintFails(r) /\ ~LedgerRow(r)
  BY <1>2 DEF Commit, Apply, LedgerRow, Ledger!vars
<1>3. CASE ~ConstraintFails(r) /\ LedgerRow(r)
  <2>0. Apply(r) /\ r \in Request /\ Sound(r) /\ Fresh(r) /\ TypeOK
    BY <1>3 DEF Commit, SerialInv, PostingInv, TypeOK
  <2>1. /\ b \in Batches /\ received[b] \in Nat /\ stock[b] \in Nat /\ issued[b] \in Nat
        /\ r.quantity \in Nat /\ r.balance \in Nat
    BY <1>3, <2>0
       DEF TypeOK, Request, LedgerRow, Sound, Named, InspectionSound, OnBatch, Inspecting
  <2>2. CASE r.posts
    <3>1. /\ received' = [received EXCEPT ![b] = @ + r.quantity]
          /\ stock' = [stock EXCEPT ![b] = @ + r.quantity]
          /\ UNCHANGED issued /\ r.quantity > 0
      BY <2>0, <2>2 DEF Apply, LedgerRow, Sound, InspectionSound, Inspecting
    <3>2. received'[b] > received[b] /\ received'[b] - received[b] = r.quantity
      BY <2>0, <2>1, <3>1 DEF TypeOK
    <3> QED BY <2>1, <3>1, <3>2 DEF Ledger!Next, Ledger!Post
  <2>3. CASE Issuing(r)
    <3>1. ~r.posts
      BY <2>0, <2>3 DEF Sound, InspectionSound, Issuing, Inspecting
    <3>2. /\ issued' = [issued EXCEPT ![b] = @ + r.quantity]
          /\ stock' = IF r.writes THEN [stock EXCEPT ![b] = r.balance] ELSE stock
          /\ UNCHANGED received
      BY <2>0, <2>3, <3>1 DEF Apply, LedgerRow, Issuing
    <3>3. PICK kept \in {0, 1} : r.balance = (stock[b] - r.quantity) + kept
      BY <2>0, <2>1, <2>3 DEF Fresh, IssueFresh
    <3>4. 0 < r.quantity /\ r.quantity <= stock[b]
      BY <2>0, <2>3 DEF Fresh, IssueFresh
    <3>5. stock' = [stock EXCEPT ![b] = (@ - r.quantity) + kept]
      BY <2>0, <2>1, <2>3, <3>2, <3>3 DEF Fresh, IssueFresh, TypeOK
    <3>6. issued'[b] > issued[b] /\ issued'[b] - issued[b] = r.quantity
      BY <2>0, <2>1, <3>2, <3>4 DEF TypeOK
    <3> QED BY <2>1, <3>2, <3>4, <3>5, <3>6 DEF Ledger!Next, Ledger!Take
  <2> QED BY <1>3, <2>2, <2>3 DEF LedgerRow, Issuing
<1> QED BY <1>1, <1>2, <1>3

LEMMA NextTakesLedgerStep == SerialInv /\ [Next]_vars => [Ledger!Next]_(Ledger!vars)
<1> SUFFICES ASSUME SerialInv, [Next]_vars PROVE Ledger!Next \/ UNCHANGED Ledger!vars
  OBVIOUS
<1>1. CASE UNCHANGED vars
  BY <1>1 DEF vars, db, inventory, Ledger!vars
<1>2. ASSUME NEW s \in Sessions, Handle(s) PROVE UNCHANGED Ledger!vars
  BY <1>2, HandleSound DEF SerialInv, PostingInv, Pend, db, inventory, Ledger!vars
<1>3. ASSUME NEW s \in Sessions, Abort(s) PROVE UNCHANGED Ledger!vars
  BY <1>3 DEF Abort, db, inventory, Ledger!vars
<1>4. CASE CreateStorageLocation \/ MovePurchaseOrder
  BY <1>4 DEF CreateStorageLocation, MovePurchaseOrder, db, inventory, Ledger!vars
<1> QED BY <1>1, <1>2, <1>3, <1>4, CommitTakesLedgerStep DEF Next

\* With one request at a time every behaviour of the handlers is one of the
\* abstract ledger: nothing goes out that is not there, and the stock is what
\* came in less what went out, to within the tie of each issue.
THEOREM LedgerRefinement == OneSession => (Spec => ImplementsLedger)
<1> SUFFICES ASSUME OneSession PROVE Spec => ImplementsLedger
  OBVIOUS
<1>1. Init => Ledger!Init
  BY DEF Init, Ledger!Init
<1>2. SerialInv /\ [Next]_vars => [Ledger!Next]_(Ledger!vars)
  BY NextTakesLedgerStep
<1> QED BY <1>1, <1>2, SerialKept, PTL DEF Spec, ImplementsLedger, Ledger!Spec
=============================================================================
