-------------------------- MODULE EngineeringProofs --------------------------
(***************************************************************************)
(* Proofs about Engineering, for every number of sessions, drawings,       *)
(* revisions, route cards and operations.                                  *)
(***************************************************************************)
EXTENDS Engineering, FiniteSetTheorems, SequenceTheorems, WellFoundedInduction, TLAPS

\* What the proofs assume of the constants: NULL is no value of a column, and
\* a client sends numbers.
EngineeringConstants ==
  /\ Numbers \subseteq Int
  /\ None \notin Drawings \cup Cards \cup Handlers \cup RouteCard

-----------------------------------------------------------------------------
(* What a handler has checked of its request and what no commit of another *)
(* request undoes: a row that is there stays.                              *)

OnCards == {"create_route_card", "attach_document", "update_route_card",
            "add_route_operation", "update_route_operation"}

Typed(r) ==
  /\ r.act \in Handlers \cup {None}
  /\ r.drawing \in Drawings \cup {None}
  /\ r.card \in Cards \cup {None}
  /\ r.id \in Nat
  /\ r.supersedes \subseteq DOMAIN revisions
  /\ Columns(r.set)

Sound(r) ==
  /\ r.act = None => r = Idle
  /\ r.act \in {"create_drawing", "create_revision"} => r.drawing \in Drawings
  /\ r.act = "create_revision" =>
       /\ DOMAIN r.set = {"code", "current", "approved"}
       /\ \A i \in r.supersedes : revisions[i].drawing = r.drawing
       /\ ~r.set.current => r.supersedes = {}
  /\ r.act = "update_revision" => r.id \in DOMAIN revisions /\ "current" \notin DOMAIN r.set
  /\ r.act \in OnCards => r.card \in Cards
  /\ r.act \in OnCards \ {"create_route_card"} => cards[r.card] # None
  /\ r.act = "create_route_card" => r.id \in DOMAIN revisions /\ DOMAIN r.set = {"route", "sales"}
  /\ r.act = "attach_document" => DOMAIN r.set = {"file"}
  /\ r.act = "update_route_card" /\ "revision" \in DOMAIN r.set =>
       r.set.revision \in DOMAIN revisions
  /\ r.act = "add_route_operation" => DOMAIN r.set = {"number", "place"}
  /\ r.act = "update_route_operation" => r.id \in DOMAIN operations[r.card]

RecordsInv ==
  /\ TypeOK
  /\ req = [s \in Sessions |-> req[s]]
  /\ \A s \in Sessions : Sound(req[s])

-----------------------------------------------------------------------------
(* What holds of a card as long as no two requests deal with it at once.   *)

\* The status that let the handler write what it is about to write.
Fresh(r) ==
  /\ r.act = "create_route_card" => cards[r.card] = None
  /\ r.act = "update_route_card" /\ DOMAIN r.set \cap {"route", "revision", "sales"} # {} =>
       Draft(r.card)
  /\ r.act = "add_route_operation" => cards[r.card].status # "released"
  /\ r.act = "update_route_operation" => Draft(r.card)

OneRequestEach ==
  \A s, t \in Sessions :
    s # t /\ req[s].card \in Cards /\ req[t].card = req[s].card => req[s].card \in crossed

EngineeringInv ==
  /\ RecordsInv
  /\ OneRequestEach
  /\ \A s \in Sessions : req[s].card \notin crossed => Fresh(req[s])

-----------------------------------------------------------------------------
LEMMA IdleFields ==
  ASSUME EngineeringConstants
  PROVE  Idle.act = None /\ Idle.card = None /\ Typed(Idle) /\ Sound(Idle) /\ Fresh(Idle)
<1>1. /\ Idle.act = None /\ Idle.drawing = None /\ Idle.card = None /\ Idle.id = 0
      /\ Idle.supersedes = {} /\ Idle.set = <<>> /\ DOMAIN Idle.set = {}
  BY DEF Idle
<1> HIDE DEF Idle
<1> QED BY <1>1 DEF EngineeringConstants, Typed, Columns, Sound, Fresh, Handlers, OnCards

\* A finite set of numbers that is not empty has a greatest one: of the sets
\* that had none, a least one would have one without one of its elements.
LEMMA GreatestNumber ==
  ASSUME NEW S \in SUBSET Int, IsFiniteSet(S), S # {}
  PROVE  Max(S) \in S
<1> DEFINE Has(U) == \E x \in U : \A y \in U : x >= y
           F == {U \in SUBSET S : U # {} /\ ~Has(U)}
<1>1. F = {}
  <2> SUFFICES ASSUME F # {} PROVE FALSE
    OBVIOUS
  <2>1. IsWellFoundedOn(StrictSubsetOrdering(S), SUBSET S)
    BY FS_StrictSubsetOrderingWellFounded, FS_FiniteSubsetsOfFinite
  <2>2. PICK U \in F : \A V \in F : <<V, U>> \notin StrictSubsetOrdering(S)
    <3>1. F \subseteq SUBSET S
      OBVIOUS
    <3> HIDE DEF F
    <3> QED BY <2>1, <3>1, WFMin
  <2>3. PICK x \in U : TRUE
    OBVIOUS
  <2> DEFINE V == U \ {x}
  <2>4. V \notin F
    BY <2>2, <2>3 DEF StrictSubsetOrdering
  <2>5. CASE V = {}
    BY <2>3, <2>5
  <2>6. CASE Has(V)
    <3>1. PICK y \in V : \A z \in V : y >= z
      BY <2>6
    <3>2. x \in Int /\ y \in Int /\ U \subseteq Int
      BY <2>3
    <3>3. Has(U)
      <4>1. CASE x >= y
        BY <2>3, <3>1, <3>2, <4>1
      <4>2. CASE y >= x
        BY <2>3, <3>1, <3>2, <4>2
      <4> QED BY <3>2, <4>1, <4>2
    <3> QED BY <3>3
  <2> QED BY <2>4, <2>5, <2>6
<1>2. Has(S)
  BY <1>1
<1> QED BY <1>2 DEF Max

LEMMA NextOperationInt ==
  ASSUME TypeOK, NEW c \in Cards
  PROVE  NextOperation(c) \in Int
<1> DEFINE ops == operations[c]
           used == {ops[k].number : k \in DOMAIN ops}
<1>1. ops \in Seq(RouteOperation) /\ DOMAIN ops = 1 .. Len(ops) /\ Len(ops) \in Nat
  BY DEF TypeOK
<1>2. used \in SUBSET Int
  <2> HIDE DEF ops
  <2>0. \A k \in DOMAIN ops : ops[k] \in RouteOperation
    BY <1>1
  <2>1. \A k \in DOMAIN ops : ops[k].number \in Int
    BY <2>0 DEF RouteOperation
  <2> QED BY <2>1
<1>3. IsFiniteSet(used)
  <2>1. IsFiniteSet(DOMAIN ops)
    BY <1>1, FS_Interval
  <2> DEFINE f == [k \in DOMAIN ops |-> ops[k].number]
  <2>2. f \in Surjection(DOMAIN ops, used)
    BY DEF Surjection
  <2> QED BY <2>1, <2>2, FS_Surjection
<1>4. used # {} => Max(used) \in Int
  <2> HIDE DEF used
  <2> QED BY <1>2, <1>3, GreatestNumber
<1>5. NextOperation(c) = (IF used = {} THEN 0 ELSE Max(used)) + 10
  BY DEF NextOperation
<1> HIDE DEF used
<1> QED BY <1>4, <1>5

-----------------------------------------------------------------------------
\* What an update writes are columns of its own.
LEMMA ChangedColumns ==
  ASSUME NEW row, NEW new, Columns(new)
  PROVE  /\ DOMAIN Changed(row, new) \subseteq DOMAIN new
         /\ \A c \in DOMAIN Changed(row, new) : Changed(row, new)[c] = new[c]
         /\ Columns(Changed(row, new))
<1>1. /\ DOMAIN Changed(row, new) \subseteq DOMAIN new
      /\ \A c \in DOMAIN Changed(row, new) : Changed(row, new)[c] = new[c]
  BY DEF Changed
<1> QED BY <1>1 DEF Columns

-----------------------------------------------------------------------------
LEMMA FlagColumns ==
  \A b \in BOOLEAN :
    Columns([approved |-> b]) /\ Columns([deleted |-> b]) /\ Columns([file |-> b])
  BY DEF Columns

LEMMA DesignPrepared ==
  ASSUME EngineeringConstants, RecordsInv, NEW s \in Sessions,
         CreateDrawing(s) \/ CreateRevision(s) \/ UpdateDrawingRevision(s)
           \/ DeleteDrawingRevision(s)
  PROVE  \E r : Pend(s, r) /\ Typed(r) /\ Sound(r) /\ Fresh(r)
<1>1. CASE CreateDrawing(s)
  <2>1. PICK d \in Drawings :
          Pend(s, [Idle EXCEPT !.act = "create_drawing", !.drawing = d])
    BY <1>1 DEF CreateDrawing
  <2> DEFINE r == [Idle EXCEPT !.act = "create_drawing", !.drawing = d]
  <2>2. /\ r.act = "create_drawing" /\ r.drawing = d /\ r.card = None /\ r.id = 0
        /\ r.supersedes = {} /\ DOMAIN r.set = {}
    BY DEF Idle
  <2>3. Pend(s, r)
    BY <2>1
  <2> HIDE DEF r
  <2>4. Typed(r)
    BY <2>2 DEF Typed, Columns, Handlers
  <2>5. Sound(r) /\ Fresh(r)
    BY <2>2 DEF EngineeringConstants, Sound, Fresh, OnCards, Handlers
  <2> QED BY <2>3, <2>4, <2>5
<1>2. CASE CreateRevision(s)
  <2>1. PICK d \in drawings, code \in Codes, current \in BOOLEAN, approved \in BOOLEAN :
          Pend(s, [Idle EXCEPT !.act = "create_revision", !.drawing = d,
                     !.supersedes = Superseded(d, current),
                     !.set = [code |-> code, current |-> current, approved |-> approved]])
    BY <1>2 DEF CreateRevision
  <2> DEFINE r == [Idle EXCEPT !.act = "create_revision", !.drawing = d,
                     !.supersedes = Superseded(d, current),
                     !.set = [code |-> code, current |-> current, approved |-> approved]]
  <2>2. /\ r.act = "create_revision" /\ r.drawing = d /\ r.card = None /\ r.id = 0
        /\ r.supersedes = Superseded(d, current)
        /\ DOMAIN r.set = {"code", "current", "approved"}
        /\ r.set.code = code /\ r.set.current = current /\ r.set.approved = approved
    BY DEF Idle
  <2>3. Pend(s, r)
    BY <2>1
  <2> HIDE DEF r
  <2>4. /\ Superseded(d, current) \subseteq DOMAIN revisions
        /\ \A i \in Superseded(d, current) : revisions[i].drawing = d
        /\ ~current => Superseded(d, current) = {}
    BY DEF Superseded, CurrentOf
  <2>5. d \in Drawings
    BY DEF RecordsInv, TypeOK
  <2>6. Typed(r)
    <3>1. Columns(r.set)
      BY <2>2 DEF Columns
    <3> QED BY <2>2, <2>4, <2>5, <3>1 DEF Typed, Handlers
  <2>7. Sound(r) /\ Fresh(r)
    BY <2>2, <2>4, <2>5 DEF EngineeringConstants, Sound, Fresh, OnCards, Handlers
  <2> QED BY <2>3, <2>6, <2>7
<1>3. ASSUME NEW i \in DOMAIN revisions, NEW new, OnRevision(s, i, new), Columns(new),
             "current" \notin DOMAIN new
      PROVE  \E r : Pend(s, r) /\ Typed(r) /\ Sound(r) /\ Fresh(r)
  <2> DEFINE set == Changed(revisions[i], new)
             r == [Idle EXCEPT !.act = "update_revision", !.id = i, !.set = set]
  <2>1. Columns(set) /\ "current" \notin DOMAIN set
    BY <1>3, ChangedColumns
  <2>2. /\ r.act = "update_revision" /\ r.drawing = None /\ r.card = None /\ r.id = i
        /\ r.supersedes = {} /\ r.set = set
    BY DEF Idle
  <2>3. Pend(s, r)
    BY <1>3 DEF OnRevision
  <2>4. i \in Nat
    BY DEF RecordsInv, TypeOK
  <2> HIDE DEF r, set
  <2>5. Typed(r)
    BY <2>1, <2>2, <2>4 DEF Typed, Handlers
  <2>6. Sound(r) /\ Fresh(r)
    BY <2>1, <2>2 DEF EngineeringConstants, Sound, Fresh, OnCards, Handlers
  <2> QED BY <2>3, <2>5, <2>6
<1>4. CASE UpdateDrawingRevision(s)
  <2>1. PICK i \in DOMAIN revisions, code \in Codes, approved \in BOOLEAN :
          OnRevision(s, i, [code |-> code, approved |-> approved])
    BY <1>4 DEF UpdateDrawingRevision
  <2> DEFINE new == [code |-> code, approved |-> approved]
  <2>2. Columns(new) /\ "current" \notin DOMAIN new
    BY DEF Columns
  <2> HIDE DEF new
  <2>3. OnRevision(s, i, new)
    BY <2>1 DEF new
  <2> QED BY <1>3, <2>2, <2>3
<1>5. CASE DeleteDrawingRevision(s)
  <2>1. PICK i \in DOMAIN revisions : OnRevision(s, i, [deleted |-> TRUE])
    BY <1>5 DEF DeleteDrawingRevision
  <2>2. Columns([deleted |-> TRUE]) /\ "current" \notin DOMAIN [deleted |-> TRUE]
    BY FlagColumns
  <2> QED BY <1>3, <2>1, <2>2
<1> QED BY <1>1, <1>2, <1>4, <1>5

LEMMA CardPrepared ==
  ASSUME EngineeringConstants, RecordsInv, NEW s \in Sessions,
         CreateRouteCard(s) \/ UpdateRouteCard(s) \/ DeleteRouteCard(s)
           \/ ReleaseRouteCard(s) \/ MarkRouteCardObsolete(s)
  PROVE  \E r : Pend(s, r) /\ Typed(r) /\ Sound(r) /\ Fresh(r)
<1>0. revisions \in Seq(DrawingRevision) /\ DOMAIN revisions \subseteq Nat
  BY DEF RecordsInv, TypeOK
<1>1. CASE CreateRouteCard(s)
  <2>1. PICK c \in Cards, n \in RouteNumbers, i \in DOMAIN revisions, so \in SalesOrders :
          /\ cards[c] = None
          /\ Pend(s, [Idle EXCEPT !.act = "create_route_card", !.card = c, !.id = i,
                                  !.set = [route |-> n, sales |-> so]])
    BY <1>1 DEF CreateRouteCard
  <2> DEFINE r == [Idle EXCEPT !.act = "create_route_card", !.card = c, !.id = i,
                               !.set = [route |-> n, sales |-> so]]
  <2>2. /\ r.act = "create_route_card" /\ r.drawing = None /\ r.card = c /\ r.id = i
        /\ r.supersedes = {} /\ DOMAIN r.set = {"route", "sales"}
        /\ r.set.route = n /\ r.set.sales = so
    BY DEF Idle
  <2>3. Pend(s, r)
    BY <2>1
  <2> HIDE DEF r
  <2>4. Typed(r)
    <3>1. Columns(r.set)
      BY <2>2 DEF Columns
    <3> QED BY <1>0, <2>2, <3>1 DEF Typed, Handlers
  <2>5. Sound(r) /\ Fresh(r)
    BY <2>1, <2>2 DEF EngineeringConstants, Sound, Fresh, OnCards, Handlers
  <2> QED BY <2>3, <2>4, <2>5
<1>2. ASSUME NEW c \in Cards, cards[c] # None, NEW new, OnCard(s, c, new), Columns(new),
             "revision" \in DOMAIN new => new.revision \in DOMAIN revisions,
             DOMAIN new \cap {"route", "revision", "sales"} # {} => Draft(c)
      PROVE  \E r : Pend(s, r) /\ Typed(r) /\ Sound(r) /\ Fresh(r)
  <2> DEFINE set == Changed(cards[c], new)
             r == [Idle EXCEPT !.act = "update_route_card", !.card = c,
                               !.id = cards[c].revision, !.set = set]
  <2>1. /\ Columns(set) /\ DOMAIN set \subseteq DOMAIN new
        /\ "revision" \in DOMAIN set => set["revision"] \in DOMAIN revisions
    BY <1>2, ChangedColumns
  <2>2. /\ r.act = "update_route_card" /\ r.drawing = None /\ r.card = c
        /\ r.id = cards[c].revision /\ r.supersedes = {} /\ r.set = set
    BY DEF Idle
  <2>3. Pend(s, r)
    BY <1>2 DEF OnCard
  <2>4. cards[c].revision \in Nat
    BY <1>0, <1>2 DEF RecordsInv, TypeOK
  <2> HIDE DEF r, set
  <2>5. Typed(r)
    BY <2>1, <2>2, <2>4 DEF Typed, Handlers
  <2>6. Sound(r) /\ Fresh(r)
    BY <1>2, <2>1, <2>2 DEF EngineeringConstants, Sound, Fresh, OnCards, Handlers
  <2> QED BY <2>3, <2>5, <2>6
<1>3. CASE UpdateRouteCard(s)
  <2>1. PICK c \in Cards, n \in RouteNumbers, so \in SalesOrders :
          /\ Draft(c)
          /\ \E i \in DOMAIN revisions : OnCard(s, c, [route |-> n, revision |-> i, sales |-> so])
    BY <1>3 DEF UpdateRouteCard
  <2>2. PICK i \in DOMAIN revisions : OnCard(s, c, [route |-> n, revision |-> i, sales |-> so])
    BY <2>1
  <2> DEFINE new == [route |-> n, revision |-> i, sales |-> so]
  <2>3. Columns(new) /\ new.revision = i
    BY <1>0 DEF Columns
  <2> HIDE DEF new
  <2>4. OnCard(s, c, new)
    BY <2>2 DEF new
  <2> QED BY <1>2, <2>1, <2>3, <2>4 DEF Draft
<1>4. CASE DeleteRouteCard(s)
  <2>1. PICK c \in Cards : cards[c] # None /\ OnCard(s, c, [deleted |-> TRUE])
    BY <1>4 DEF DeleteRouteCard, Draft
  <2>2. Columns([deleted |-> TRUE])
    BY FlagColumns
  <2> QED BY <1>2, <2>1, <2>2
<1>5. ASSUME NEW status \in {"released", "obsolete"}, NEW c \in Cards, cards[c] # None,
             OnCard(s, c, [status |-> status])
      PROVE  \E r : Pend(s, r) /\ Typed(r) /\ Sound(r) /\ Fresh(r)
  <2>1. Columns([status |-> status])
    BY <1>5 DEF Columns, RouteCardStatus
  <2> QED BY <1>2, <1>5, <2>1
<1>6. CASE ReleaseRouteCard(s)
  BY <1>5, <1>6 DEF ReleaseRouteCard, Draft
<1>7. CASE MarkRouteCardObsolete(s)
  BY <1>5, <1>7 DEF MarkRouteCardObsolete
<1> QED BY <1>1, <1>3, <1>4, <1>6, <1>7

LEMMA OperationPrepared ==
  ASSUME EngineeringConstants, RecordsInv, NEW s \in Sessions,
         AddRouteOperation(s) \/ UpdateRouteOperation(s) \/ DeleteRouteOperation(s)
  PROVE  \E r : Pend(s, r) /\ Typed(r) /\ Sound(r) /\ Fresh(r)
<1>1. CASE AddRouteOperation(s)
  <2>1. PICK c \in Cards : \E number \in Numbers \cup {NextOperation(c)}, p \in Places :
          /\ cards[c] # None /\ cards[c].status # "released"
          /\ Pend(s, [Idle EXCEPT !.act = "add_route_operation", !.card = c,
                                  !.set = [number |-> number, place |-> p]])
    BY <1>1 DEF AddRouteOperation
  <2>0. PICK number \in Numbers \cup {NextOperation(c)}, p \in Places :
          /\ cards[c] # None /\ cards[c].status # "released"
          /\ Pend(s, [Idle EXCEPT !.act = "add_route_operation", !.card = c,
                                  !.set = [number |-> number, place |-> p]])
    BY <2>1
  <2> DEFINE r == [Idle EXCEPT !.act = "add_route_operation", !.card = c,
                               !.set = [number |-> number, place |-> p]]
  <2>2. /\ r.act = "add_route_operation" /\ r.drawing = None /\ r.card = c /\ r.id = 0
        /\ r.supersedes = {} /\ DOMAIN r.set = {"number", "place"}
        /\ r.set.number = number /\ r.set.place = p
    BY DEF Idle
  <2>3. Pend(s, r)
    BY <2>0
  <2>4. number \in Int
    BY NextOperationInt DEF RecordsInv, EngineeringConstants
  <2> HIDE DEF r
  <2>5. Typed(r)
    <3>1. Columns(r.set)
      BY <2>2, <2>4 DEF Columns
    <3> QED BY <2>2, <3>1 DEF Typed, Handlers
  <2>6. Sound(r) /\ Fresh(r)
    BY <2>0, <2>2 DEF EngineeringConstants, Sound, Fresh, OnCards, Handlers
  <2> QED BY <2>3, <2>5, <2>6
<1>2. ASSUME NEW c \in Cards, NEW k \in DOMAIN operations[c], NEW new,
             OnOperation(s, c, k, new), Columns(new)
      PROVE  \E r : Pend(s, r) /\ Typed(r) /\ Sound(r) /\ Fresh(r)
  <2> DEFINE set == Changed(operations[c][k], new)
             r == [Idle EXCEPT !.act = "update_route_operation", !.card = c, !.id = k,
                               !.set = set]
  <2>1. Columns(set)
    BY <1>2, ChangedColumns
  <2>2. /\ r.act = "update_route_operation" /\ r.drawing = None /\ r.card = c /\ r.id = k
        /\ r.supersedes = {} /\ r.set = set
    BY DEF Idle
  <2>3. Pend(s, r) /\ Draft(c)
    BY <1>2 DEF OnOperation
  <2>4. k \in Nat
    <3>1. operations[c] \in Seq(RouteOperation)
      BY DEF RecordsInv, TypeOK
    <3> QED BY <3>1
  <2> HIDE DEF r, set
  <2>5. Typed(r)
    BY <2>1, <2>2, <2>4 DEF Typed, Handlers
  <2>6. Sound(r) /\ Fresh(r)
    BY <2>1, <2>2, <2>3 DEF EngineeringConstants, Sound, Fresh, OnCards, Handlers, Draft
  <2> QED BY <2>3, <2>5, <2>6
<1>3. CASE UpdateRouteOperation(s)
  <2>1. PICK c \in Cards : \E k \in DOMAIN operations[c] :
          \E n \in Numbers \cup {operations[c][k].number}, p \in Places :
            OnOperation(s, c, k, [number |-> n, place |-> p])
    BY <1>3 DEF UpdateRouteOperation
  <2>2. PICK k \in DOMAIN operations[c] :
          \E n \in Numbers \cup {operations[c][k].number}, p \in Places :
            OnOperation(s, c, k, [number |-> n, place |-> p])
    BY <2>1
  <2>3. PICK n \in Numbers \cup {operations[c][k].number}, p \in Places :
          OnOperation(s, c, k, [number |-> n, place |-> p])
    BY <2>2
  <2>4. n \in Int
    <3>1. operations[c] \in Seq(RouteOperation)
      BY DEF RecordsInv, TypeOK
    <3>2. operations[c][k] \in RouteOperation
      BY <3>1
    <3> QED BY <3>2 DEF RouteOperation, EngineeringConstants
  <2> DEFINE new == [number |-> n, place |-> p]
  <2>5. Columns(new)
    BY <2>4 DEF Columns
  <2> HIDE DEF new
  <2>6. OnOperation(s, c, k, new)
    BY <2>3 DEF new
  <2> QED BY <1>2, <2>5, <2>6
<1>4. CASE DeleteRouteOperation(s)
  <2>1. PICK c \in Cards : \E k \in DOMAIN operations[c] :
          OnOperation(s, c, k, [deleted |-> TRUE])
    BY <1>4 DEF DeleteRouteOperation
  <2>2. Columns([deleted |-> TRUE])
    BY FlagColumns
  <2> QED BY <1>2, <2>1, <2>2
<1> QED BY <1>1, <1>3, <1>4

\* Every handler leaves a request that is typed and sound, and fresh as long
\* as none deals with the same card.
LEMMA HandlePrepared ==
  ASSUME EngineeringConstants, RecordsInv, NEW s \in Sessions, Handle(s)
  PROVE  \E r : Pend(s, r) /\ Typed(r) /\ Sound(r) /\ Fresh(r)
  BY DesignPrepared, CardPrepared, OperationPrepared DEF Handle

-----------------------------------------------------------------------------
(* What a commit does to the rows.                                         *)

LEMMA RequestTyped ==
  ASSUME RecordsInv, NEW s \in Sessions
  PROVE  Typed(req[s]) /\ Sound(req[s])
  BY DEF RecordsInv, TypeOK, Typed

\* The row an INSERT of create_revision adds.
NewRevision(r) ==
  [drawing |-> r.drawing, code |-> r.set.code, current |-> r.set.current,
   approved |-> r.set.approved, deleted |-> FALSE]

LEMMA RevisionCreated ==
  ASSUME RecordsInv, NEW s \in Sessions, Apply(req[s]), req[s].act = "create_revision"
  PROVE  /\ revisions' \in Seq(DrawingRevision) /\ Len(revisions') = Len(revisions) + 1
         /\ \A i \in DOMAIN revisions :
              revisions'[i] = IF i \in req[s].supersedes
                              THEN [revisions[i] EXCEPT !.current = FALSE] ELSE revisions[i]
         /\ revisions'[Len(revisions) + 1] = NewRevision(req[s])
<1> DEFINE r == req[s]
           rows == [i \in DOMAIN revisions |->
                      IF i \in r.supersedes THEN [revisions[i] EXCEPT !.current = FALSE]
                      ELSE revisions[i]]
           row == NewRevision(r)
<1>0. Typed(r) /\ Sound(r)
  BY RequestTyped
<1>1. /\ revisions \in Seq(DrawingRevision) /\ Len(revisions) \in Nat
      /\ DOMAIN revisions = 1 .. Len(revisions)
  BY DEF RecordsInv, TypeOK
<1>2. rows \in Seq(DrawingRevision) /\ Len(rows) = Len(revisions)
  <2>1. \A i \in DOMAIN revisions : revisions[i] \in DrawingRevision
    BY <1>1
  <2>2. \A i \in DOMAIN revisions : rows[i] \in DrawingRevision
    BY <2>1 DEF DrawingRevision
  <2>3. rows \in [1 .. Len(revisions) -> DrawingRevision]
    <3>1. rows = [i \in 1 .. Len(revisions) |-> rows[i]]
      BY <1>1
    <3> HIDE DEF rows
    <3> QED BY <1>1, <2>2, <3>1
  <2> HIDE DEF rows
  <2> QED BY <1>1, <2>3
<1>3. row \in DrawingRevision
  <2>1. r.set.code \in Codes /\ r.set.current \in BOOLEAN /\ r.set.approved \in BOOLEAN
    BY <1>0 DEF Typed, Columns, Sound
  <2> QED BY <1>0, <2>1 DEF NewRevision, DrawingRevision, Sound
<1>4. revisions' = Append(rows, row)
  BY DEF Apply, RevisionsAfter, NewRevision
<1>5. \A i \in DOMAIN revisions :
        rows[i] = IF i \in r.supersedes THEN [revisions[i] EXCEPT !.current = FALSE]
                  ELSE revisions[i]
  OBVIOUS
<1> HIDE DEF rows, row
<1>6. /\ revisions' \in Seq(DrawingRevision) /\ Len(revisions') = Len(rows) + 1
      /\ \A i \in 1 .. Len(rows) : revisions'[i] = rows[i]
      /\ revisions'[Len(rows) + 1] = row
  BY <1>2, <1>3, <1>4, AppendProperties
<1> QED BY <1>1, <1>2, <1>5, <1>6 DEF row

LEMMA ApplyRevisions ==
  ASSUME RecordsInv, NEW s \in Sessions, Apply(req[s])
  PROVE  /\ revisions' \in Seq(DrawingRevision)
         /\ DOMAIN revisions \subseteq DOMAIN revisions'
         /\ \A i \in DOMAIN revisions : revisions'[i].drawing = revisions[i].drawing
         /\ req[s].act # "create_revision" =>
              /\ DOMAIN revisions' = DOMAIN revisions
              /\ \A i \in DOMAIN revisions : revisions'[i].current = revisions[i].current
<1> DEFINE r == req[s]
<1>0. Typed(r) /\ Sound(r)
  BY RequestTyped
<1>1. /\ revisions \in Seq(DrawingRevision) /\ Len(revisions) \in Nat
      /\ DOMAIN revisions = 1 .. Len(revisions)
      /\ \A i \in DOMAIN revisions : revisions[i] \in DrawingRevision
  BY DEF RecordsInv, TypeOK
<1>2. CASE r.act = "create_revision"
  <2>1. /\ revisions' \in Seq(DrawingRevision) /\ Len(revisions') = Len(revisions) + 1
        /\ \A i \in DOMAIN revisions :
             revisions'[i] = IF i \in r.supersedes
                             THEN [revisions[i] EXCEPT !.current = FALSE] ELSE revisions[i]
    BY <1>2, RevisionCreated
  <2>2. DOMAIN revisions \subseteq DOMAIN revisions'
    BY <1>1, <2>1
  <2> QED BY <1>1, <1>2, <2>1, <2>2 DEF DrawingRevision
<1>3. CASE r.act = "update_revision"
  <2> DEFINE row == Written(revisions[r.id], r.set)
  <2>0. r.id \in DOMAIN revisions /\ "current" \notin DOMAIN r.set /\ Columns(r.set)
    BY <1>0, <1>3 DEF Sound, Typed
  <2>1. /\ row \in DrawingRevision /\ row.drawing = revisions[r.id].drawing
        /\ row.current = revisions[r.id].current
    <3>1. /\ "code" \in DOMAIN r.set => r.set.code \in Codes
          /\ "approved" \in DOMAIN r.set => r.set.approved \in BOOLEAN
          /\ "deleted" \in DOMAIN r.set => r.set.deleted \in BOOLEAN
          /\ "drawing" \notin DOMAIN r.set
      BY <2>0 DEF Columns
    <3>2. revisions[r.id] \in DrawingRevision
      BY <1>1, <2>0
    <3> QED BY <2>0, <3>1, <3>2 DEF Written, DrawingRevision
  <2>2. revisions' = [revisions EXCEPT ![r.id] = row]
    BY <1>3 DEF Apply, RevisionsAfter
  <2> HIDE DEF row
  <2>3. revisions' \in [1 .. Len(revisions) -> DrawingRevision]
    BY <1>1, <2>0, <2>1, <2>2
  <2>4. revisions' \in Seq(DrawingRevision) /\ DOMAIN revisions' = DOMAIN revisions
    BY <1>1, <2>3
  <2> QED BY <1>1, <1>3, <2>0, <2>1, <2>2, <2>4
<1>4. CASE r.act \notin {"create_revision", "update_revision"}
  <2>1. revisions' = revisions
    BY <1>4 DEF Apply, RevisionsAfter
  <2> QED BY <1>1, <2>1
<1> QED BY <1>2, <1>3, <1>4

LEMMA ApplyCards ==
  ASSUME EngineeringConstants, RecordsInv, NEW s \in Sessions, Apply(req[s])
  PROVE  /\ cards' \in [Cards -> RouteCard \cup {None}]
         /\ \A c \in Cards : cards[c] # None => cards'[c] # None
         /\ \A c \in Cards : cards'[c] # None => cards'[c].revision \in DOMAIN revisions
         /\ \A c \in Cards : c # req[s].card => cards'[c] = cards[c]
         /\ req[s].act = "create_route_card" => cards'[req[s].card] # None
<1> DEFINE r == req[s]
<1>0. /\ Typed(r) /\ Sound(r) /\ cards \in [Cards -> RouteCard \cup {None}]
      /\ \A c \in Cards : cards[c] # None => cards[c].revision \in DOMAIN revisions
  BY RequestTyped DEF RecordsInv, TypeOK
<1>1. ASSUME NEW row \in RouteCard, row.revision \in DOMAIN revisions, r.card \in Cards,
             cards' = [cards EXCEPT ![r.card] = row]
      PROVE  /\ cards' \in [Cards -> RouteCard \cup {None}]
             /\ \A c \in Cards : cards[c] # None => cards'[c] # None
             /\ \A c \in Cards : cards'[c] # None => cards'[c].revision \in DOMAIN revisions
             /\ \A c \in Cards : c # req[s].card => cards'[c] = cards[c]
             /\ cards'[r.card] # None
  <2>1. row # None
    BY DEF EngineeringConstants
  <2> QED BY <1>0, <1>1, <2>1
<1>2. CASE r.act = "create_route_card"
  <2> DEFINE row == [route |-> r.set.route, revision |-> r.id, sales |-> r.set.sales,
                     status |-> "draft", file |-> FALSE, deleted |-> FALSE]
  <2>1. /\ r.id \in DOMAIN revisions /\ r.id \in Nat /\ r.set.sales \in SalesOrders
        /\ r.set.route \in RouteNumbers /\ r.card \in Cards
    BY <1>0, <1>2 DEF Sound, Typed, Columns, OnCards
  <2>2. row \in RouteCard /\ row.revision = r.id
    BY <2>1 DEF RouteCard, RouteCardStatus
  <2>3. cards' = [cards EXCEPT ![r.card] = row]
    BY <1>2 DEF Apply
  <2> HIDE DEF row
  <2> QED BY <1>1, <2>1, <2>2, <2>3
<1>3. CASE r.act \in {"attach_document", "update_route_card"}
  <2> DEFINE row == Written(cards[r.card], r.set)
  <2>1. /\ r.card \in Cards /\ cards[r.card] # None /\ Columns(r.set)
        /\ "revision" \in DOMAIN r.set => r.set.revision \in DOMAIN revisions
    BY <1>0, <1>3 DEF Sound, Typed, OnCards
  <2>2. cards[r.card] \in RouteCard /\ cards[r.card].revision \in DOMAIN revisions
    BY <1>0, <2>1
  <2>3. row \in RouteCard /\ row.revision \in DOMAIN revisions
    <3>1. /\ "revision" \in DOMAIN r.set => r.set.revision \in Nat
          /\ "route" \in DOMAIN r.set => r.set.route \in RouteNumbers
          /\ "sales" \in DOMAIN r.set => r.set.sales \in SalesOrders
          /\ "status" \in DOMAIN r.set => r.set.status \in RouteCardStatus
          /\ "file" \in DOMAIN r.set => r.set.file \in BOOLEAN
          /\ "deleted" \in DOMAIN r.set => r.set.deleted \in BOOLEAN
      BY <2>1 DEF Columns
    <3> QED BY <2>1, <2>2, <3>1 DEF Written, RouteCard
  <2>4. cards' = [cards EXCEPT ![r.card] = row]
    BY <1>3 DEF Apply
  <2> HIDE DEF row
  <2> QED BY <1>1, <1>3, <2>1, <2>3, <2>4
<1>4. CASE r.act \notin {"create_route_card", "attach_document", "update_route_card"}
  <2>1. cards' = cards
    BY <1>4 DEF Apply
  <2> QED BY <1>0, <1>4, <2>1
<1> QED BY <1>2, <1>3, <1>4

LEMMA ApplyOperations ==
  ASSUME RecordsInv, NEW s \in Sessions, Apply(req[s])
  PROVE  /\ operations' \in [Cards -> Seq(RouteOperation)]
         /\ \A c \in Cards : DOMAIN operations[c] \subseteq DOMAIN operations'[c]
         /\ \A c \in Cards : c # req[s].card => operations'[c] = operations[c]
         /\ req[s].act \notin {"add_route_operation", "update_route_operation"} =>
              operations' = operations
<1> DEFINE r == req[s]
<1>0. /\ Typed(r) /\ Sound(r) /\ operations \in [Cards -> Seq(RouteOperation)]
  BY RequestTyped DEF RecordsInv, TypeOK
<1>1. ASSUME NEW rows \in Seq(RouteOperation), r.card \in Cards,
             DOMAIN operations[r.card] \subseteq DOMAIN rows,
             operations' = [operations EXCEPT ![r.card] = rows]
      PROVE  /\ operations' \in [Cards -> Seq(RouteOperation)]
             /\ \A c \in Cards : DOMAIN operations[c] \subseteq DOMAIN operations'[c]
             /\ \A c \in Cards : c # r.card => operations'[c] = operations[c]
  BY <1>0, <1>1
<1>2. CASE r.act = "add_route_operation"
  <2> DEFINE row == [number |-> r.set.number, place |-> r.set.place, deleted |-> FALSE]
             rows == Append(operations[r.card], row)
  <2>1. r.card \in Cards /\ r.set.number \in Int /\ r.set.place \in Places
    BY <1>0, <1>2 DEF Sound, Typed, Columns, OnCards
  <2>2. row \in RouteOperation
    BY <2>1 DEF RouteOperation
  <2>3. operations[r.card] \in Seq(RouteOperation)
    BY <1>0, <2>1
  <2>4. operations' = [operations EXCEPT ![r.card] = rows]
    BY <1>2 DEF Apply, OperationsAfter
  <2> HIDE DEF row
  <2>5. /\ rows \in Seq(RouteOperation)
        /\ DOMAIN operations[r.card] \subseteq DOMAIN rows
    BY <2>2, <2>3
  <2> HIDE DEF rows
  <2> QED BY <1>1, <1>2, <2>1, <2>4, <2>5
<1>3. CASE r.act = "update_route_operation"
  <2> DEFINE ops == operations[r.card]
             row == Written(ops[r.id], r.set)
             rows == [ops EXCEPT ![r.id] = row]
  <2>1. r.card \in Cards /\ r.id \in DOMAIN ops /\ Columns(r.set)
    BY <1>0, <1>3 DEF Sound, Typed, OnCards
  <2>2. ops \in Seq(RouteOperation) /\ ops[r.id] \in RouteOperation
    <3>1. ops \in Seq(RouteOperation)
      BY <1>0, <2>1
    <3> HIDE DEF ops
    <3> QED BY <2>1, <3>1
  <2>3. row \in RouteOperation
    <3>1. /\ "number" \in DOMAIN r.set => r.set.number \in Int
          /\ "place" \in DOMAIN r.set => r.set.place \in Places
          /\ "deleted" \in DOMAIN r.set => r.set.deleted \in BOOLEAN
      BY <2>1 DEF Columns
    <3> HIDE DEF ops
    <3> QED BY <2>2, <3>1 DEF Written, RouteOperation
  <2>4. operations' = [operations EXCEPT ![r.card] = rows]
    BY <1>3 DEF Apply, OperationsAfter
  <2>5. rows \in Seq(RouteOperation) /\ DOMAIN rows = DOMAIN ops
    <3> HIDE DEF ops, row
    <3>1. DOMAIN ops = 1 .. Len(ops) /\ Len(ops) \in Nat
      BY <2>2
    <3>2. rows \in [1 .. Len(ops) -> RouteOperation]
      BY <2>1, <2>2, <2>3, <3>1
    <3> HIDE DEF rows
    <3> QED BY <3>1, <3>2
  <2> HIDE DEF rows, row
  <2> QED BY <1>1, <1>3, <2>1, <2>4, <2>5
<1>4. CASE r.act \notin {"add_route_operation", "update_route_operation"}
  <2>1. operations' = operations
    BY <1>4 DEF Apply, OperationsAfter
  <2> QED BY <1>0, <2>1
<1> QED BY <1>2, <1>3, <1>4

-----------------------------------------------------------------------------
(* The invariant.                                                          *)

LEMMA InitEngineeringInv == EngineeringConstants => (Init => EngineeringInv)
<1> SUFFICES ASSUME EngineeringConstants, Init PROVE EngineeringInv
  OBVIOUS
<1>1. \A s \in Sessions : req[s] = Idle
  BY DEF Init
<1>2. TypeOK
  BY <1>1, IdleFields DEF Init, TypeOK, Typed
<1>3. req = [s \in Sessions |-> req[s]]
  BY DEF Init
<1> QED BY <1>1, <1>2, <1>3, IdleFields
        DEF EngineeringInv, RecordsInv, OneRequestEach, EngineeringConstants

\* Whatever two requests deal with from one step to the next is crossed.
LEMMA NextCrossed ==
  ASSUME EngineeringInv, Next
  PROVE  /\ OneRequestEach' /\ crossed \subseteq crossed'
         /\ crossed' \subseteq Cards \cup DOMAIN revisions
<1>1. OneRequestEach' /\ crossed \subseteq crossed'
  BY DEF Next, OneRequestEach, Touches
<1>2. crossed' \subseteq Cards \cup DOMAIN revisions
  BY DEF Next, EngineeringInv, RecordsInv, TypeOK
<1> QED BY <1>1, <1>2

\* A step that writes no row, and leaves one request idle or as it was
\* prepared.
LEMMA WaitEngineeringInv ==
  ASSUME EngineeringInv, Next, UNCHANGED db, NEW s \in Sessions, NEW r,
         Typed(r), Sound(r), Fresh(r), req' = [req EXCEPT ![s] = r]
  PROVE  EngineeringInv'
<1>1. /\ OneRequestEach' /\ crossed \subseteq crossed'
      /\ crossed' \subseteq Cards \cup DOMAIN revisions
  BY NextCrossed
<1>2. req' = [t \in Sessions |-> req'[t]]
      /\ \A t \in Sessions : req'[t] = IF t = s THEN r ELSE req[t]
  BY DEF EngineeringInv, RecordsInv
<1>3. \A t \in Sessions : Typed(req'[t]) /\ Sound(req'[t])
  BY <1>2, RequestTyped DEF EngineeringInv
<1>4. \A t \in Sessions : Typed(req[t])' /\ Sound(req[t])'
  BY <1>3 DEF Typed, Sound, db
<1>5. \A t \in Sessions : (req[t].card \notin crossed => Fresh(req[t]))'
  <2> SUFFICES ASSUME NEW t \in Sessions, req'[t].card \notin crossed' PROVE Fresh(req[t])'
    OBVIOUS
  <2>1. Fresh(req'[t])
    BY <1>1, <1>2 DEF EngineeringInv
  <2> QED BY <2>1 DEF Fresh, Draft, db
<1>6. TypeOK'
  BY <1>1, <1>4 DEF EngineeringInv, RecordsInv, TypeOK, Typed, db
<1> QED BY <1>1, <1>2, <1>4, <1>5, <1>6 DEF EngineeringInv, RecordsInv

\* What a request relies on survives the commit of another.
LEMMA SoundKept ==
  ASSUME EngineeringConstants, RecordsInv, NEW s \in Sessions, Apply(req[s]),
         NEW r, Typed(r), Sound(r)
  PROVE  Typed(r)' /\ Sound(r)'
<1>1. Typed(r)'
  BY ApplyRevisions DEF Typed
<1>2. Sound(r)'
  BY ApplyRevisions, ApplyCards, ApplyOperations DEF Sound, Typed, OnCards
<1> QED BY <1>1, <1>2

LEMMA ContinuesPrepared ==
  ASSUME EngineeringConstants, RecordsInv, NEW s \in Sessions, Apply(req[s]),
         NEW r, r = Continues(req[s])
  PROVE  Typed(r)' /\ Sound(r)' /\ Fresh(r)'
<1>1. CASE r = Idle
  <2>1. Typed(Idle)' /\ Sound(Idle)'
    BY IdleFields, SoundKept
  <2>2. Fresh(Idle)'
    BY IdleFields DEF Fresh, EngineeringConstants, Handlers
  <2> QED BY <1>1, <2>1, <2>2
<1>2. CASE r # Idle
  <2>1. /\ req[s].act = "create_route_card"
        /\ r = [Idle EXCEPT !.act = "attach_document", !.card = req[s].card,
                            !.set = [file |-> TRUE]]
    BY <1>2 DEF Continues
  <2>2. /\ r.act = "attach_document" /\ r.drawing = None /\ r.card = req[s].card /\ r.id = 0
        /\ r.supersedes = {} /\ r.set = [file |-> TRUE] /\ DOMAIN r.set = {"file"}
    BY <2>1 DEF Idle
  <2>3. r.card \in Cards /\ cards'[r.card] # None
    BY <2>1, <2>2, RequestTyped, ApplyCards DEF Sound, OnCards
  <2>4. Columns(r.set)
    BY <2>2, FlagColumns
  <2>5. Typed(r)'
    BY <2>2, <2>3, <2>4 DEF Typed, Handlers
  <2>6. Sound(r)' /\ Fresh(r)'
    BY <2>2, <2>3 DEF EngineeringConstants, Sound, Fresh, OnCards, Handlers
  <2> QED BY <2>5, <2>6
<1> QED BY <1>1, <1>2

LEMMA CommitEngineeringInv ==
  ASSUME EngineeringConstants, EngineeringInv, Next, NEW s \in Sessions, Commit(s)
  PROVE  EngineeringInv'
<1>n. PICK next : next = Continues(req[s])
  OBVIOUS
<1>0. RecordsInv /\ req' = [req EXCEPT ![s] = next]
  BY <1>n DEF EngineeringInv, Commit
<1>1. CASE ConstraintFails(req[s])
  <2>1. UNCHANGED db /\ next = Idle
    BY <1>n, <1>1 DEF Commit, Continues
  <2> QED BY <1>0, <2>1, IdleFields, WaitEngineeringInv
<1>2. CASE ~ConstraintFails(req[s])
  <2>0. Apply(req[s])
    BY <1>2 DEF Commit
  <2>1. /\ OneRequestEach' /\ crossed \subseteq crossed'
        /\ crossed' \subseteq Cards \cup DOMAIN revisions
    BY NextCrossed
  <2>2. Typed(next)' /\ Sound(next)' /\ Fresh(next)'
    BY <1>n, <1>0, <2>0, ContinuesPrepared
  <2>3. req' = [t \in Sessions |-> req'[t]]
        /\ \A t \in Sessions : req'[t] = IF t = s THEN next ELSE req[t]
    BY <1>0 DEF RecordsInv
  <2>4. \A t \in Sessions : Typed(req[t])' /\ Sound(req[t])'
    <3> SUFFICES ASSUME NEW t \in Sessions PROVE Typed(req[t])' /\ Sound(req[t])'
      OBVIOUS
    <3>1. CASE t = s
      BY <2>2, <2>3, <3>1 DEF Typed, Sound
    <3>2. CASE t # s
      <4>1. Typed(req[t]) /\ Sound(req[t])
        BY <1>0, RequestTyped
      <4>2. PICK x : x = req[t]
        OBVIOUS
      <4>3. Typed(x)' /\ Sound(x)'
        BY <1>0, <2>0, <4>1, <4>2, SoundKept
      <4> QED BY <2>3, <3>2, <4>2, <4>3 DEF Typed, Sound
    <3> QED BY <3>1, <3>2
  <2>5. \A t \in Sessions : (req[t].card \notin crossed => Fresh(req[t]))'
    <3> SUFFICES ASSUME NEW t \in Sessions, req'[t].card \notin crossed'
                 PROVE  Fresh(req[t])'
      OBVIOUS
    <3>1. CASE t = s
      BY <2>2, <2>3, <3>1 DEF Fresh, Draft
    <3>2. CASE t # s /\ req[t].card \in Cards
      <4>1. req'[t] = req[t] /\ Fresh(req[t])
        BY <2>1, <2>3, <3>2 DEF EngineeringInv
      <4>2. req[t].card # req[s].card
        BY <2>1, <3>2, <4>1 DEF EngineeringInv, OneRequestEach
      <4>3. cards'[req[t].card] = cards[req[t].card]
        BY <1>0, <2>0, <3>2, <4>2, ApplyCards
      <4> QED BY <4>1, <4>3 DEF Fresh, Draft
    <3>3. CASE t # s /\ req[t].card \notin Cards
      BY <1>0, <2>3, <3>3, RequestTyped DEF Fresh, Sound, OnCards
    <3> QED BY <3>1, <3>2, <3>3
  <2>6. TypeOK'
    <3>1. drawings' \subseteq Drawings
      BY <1>0, <2>0, RequestTyped DEF Apply, RecordsInv, TypeOK, Sound
    <3>2. crossed' \subseteq Cards \cup DOMAIN revisions'
      BY <1>0, <2>0, <2>1, ApplyRevisions
    <3> QED BY <1>0, <2>0, <2>4, <3>1, <3>2, ApplyRevisions, ApplyCards, ApplyOperations
            DEF TypeOK, Typed
  <2> QED BY <2>1, <2>3, <2>4, <2>5, <2>6 DEF EngineeringInv, RecordsInv
<1> QED BY <1>1, <1>2

LEMMA NextEngineeringInv ==
  EngineeringConstants => (EngineeringInv /\ [Next]_vars => EngineeringInv')
<1> SUFFICES ASSUME EngineeringConstants, EngineeringInv, [Next]_vars PROVE EngineeringInv'
  OBVIOUS
<1>1. CASE UNCHANGED vars
  <2>1. UNCHANGED <<drawings, revisions, cards, operations, req, crossed>>
    BY <1>1 DEF vars, db
  <2> QED BY <2>1
          DEF EngineeringInv, RecordsInv, TypeOK, Sound, OneRequestEach, Fresh, Draft
<1>2. CASE Next
  <2>1. ASSUME NEW s \in Sessions, Handle(s) PROVE EngineeringInv'
    <3>1. PICK r : Pend(s, r) /\ Typed(r) /\ Sound(r) /\ Fresh(r)
      BY <2>1, HandlePrepared DEF EngineeringInv
    <3> QED BY <1>2, <3>1, WaitEngineeringInv DEF Pend
  <2>2. ASSUME NEW s \in Sessions, Abort(s) PROVE EngineeringInv'
    BY <1>2, <2>2, IdleFields, WaitEngineeringInv DEF Abort
  <2> QED BY <1>2, <2>1, <2>2, CommitEngineeringInv DEF Next
<1> QED BY <1>1, <1>2

LEMMA DesignKept == EngineeringConstants => (Spec => []EngineeringInv)
<1> SUFFICES ASSUME EngineeringConstants PROVE Spec => []EngineeringInv
  OBVIOUS
<1>1. (Init => EngineeringInv) /\ (EngineeringInv /\ [Next]_vars => EngineeringInv')
  BY InitEngineeringInv, NextEngineeringInv
<1> QED BY <1>1, PTL DEF Spec

-----------------------------------------------------------------------------
\* Every row, and what every request is about to write, keeps its type; the
\* revision of a route card is there.
THEOREM TypeCorrect == EngineeringConstants => (Spec => []TypeOK)
<1>1. EngineeringInv => TypeOK
  BY DEF EngineeringInv, RecordsInv
<1> QED BY <1>1, DesignKept, PTL

\* A step that writes a row is a commit that no index refuses.
LEMMA WritesAtCommit ==
  ASSUME EngineeringConstants, EngineeringInv, Next, ~UNCHANGED db
  PROVE  \E s \in Sessions : Apply(req[s]) /\ ~ConstraintFails(req[s])
<1>1. ASSUME NEW s \in Sessions, Handle(s) PROVE UNCHANGED db
  BY <1>1, HandlePrepared DEF EngineeringInv, Pend
<1> QED BY <1>1 DEF Next, Abort, Commit

\* Only the INSERT of a current revision changes which one is, and the unique
\* index refuses it as long as another of the drawing is current.
LEMMA CurrentReplaced ==
  ASSUME EngineeringConstants, EngineeringInv, [Next]_vars, NEW d \in Drawings,
         CurrentOf(d)' # CurrentOf(d)
  PROVE  Cardinality(CurrentOf(d)') = 1
<1>1. ~UNCHANGED db
  BY DEF db, CurrentOf
<1>2. PICK s \in Sessions : Apply(req[s]) /\ ~ConstraintFails(req[s])
  BY <1>1, WritesAtCommit DEF vars
<1> DEFINE r == req[s]
           n == Len(revisions) + 1
<1>3. RecordsInv /\ Typed(r) /\ Sound(r)
  BY RequestTyped DEF EngineeringInv
<1>4. /\ revisions \in Seq(DrawingRevision) /\ Len(revisions) \in Nat
      /\ DOMAIN revisions = 1 .. Len(revisions)
      /\ \A i \in DOMAIN revisions : revisions[i] \in DrawingRevision
  BY <1>3 DEF RecordsInv, TypeOK
<1>5. r.act = "create_revision"
  BY <1>2, <1>3, ApplyRevisions DEF CurrentOf
<1>6. /\ revisions' \in Seq(DrawingRevision) /\ Len(revisions') = n
      /\ \A i \in DOMAIN revisions :
           revisions'[i] = IF i \in r.supersedes
                           THEN [revisions[i] EXCEPT !.current = FALSE] ELSE revisions[i]
      /\ revisions'[n] = NewRevision(r)
  BY <1>2, <1>3, <1>5, RevisionCreated
<1>7. /\ revisions'[n].drawing = r.drawing /\ revisions'[n].current = r.set.current
      /\ DOMAIN revisions' = DOMAIN revisions \cup {n} /\ n \notin DOMAIN revisions
      /\ n \in Nat
  BY <1>4, <1>6 DEF NewRevision
<1>8. \A i \in DOMAIN revisions :
        /\ revisions'[i].drawing = revisions[i].drawing
        /\ i \notin r.supersedes => revisions'[i].current = revisions[i].current
  BY <1>4, <1>6 DEF DrawingRevision
<1>9. \A i \in r.supersedes : revisions[i].drawing = r.drawing
  BY <1>3, <1>5 DEF Sound
<1>10. d = r.drawing /\ r.set.current
  <2>1. CASE d # r.drawing
    <3>1. CurrentOf(d)' = CurrentOf(d)
      BY <1>7, <1>8, <1>9, <2>1 DEF CurrentOf
    <3> QED BY <3>1
  <2>2. CASE ~r.set.current
    <3>1. r.supersedes = {}
      BY <1>3, <1>5, <2>2 DEF Sound
    <3>2. CurrentOf(d)' = CurrentOf(d)
      BY <1>7, <1>8, <2>2, <3>1 DEF CurrentOf
    <3> QED BY <3>2
  <2> QED BY <2>1, <2>2
<1>11. \A i \in DOMAIN revisions : revisions'[i].drawing = d => ~revisions'[i].current
  <2>1. RevisionsAfter(r) = revisions'
    BY <1>2 DEF Apply
  <2>2. ~\E i, j \in DOMAIN revisions' :
          i < j /\ revisions'[i].drawing = revisions'[j].drawing
            /\ RevisionsClash(revisions'[i], revisions'[j])
    BY <1>2, <2>1 DEF ConstraintFails
  <2>3. \A i \in DOMAIN revisions : i < n /\ i \in DOMAIN revisions' /\ n \in DOMAIN revisions'
    BY <1>4, <1>7
  <2> QED BY <1>7, <1>10, <2>2, <2>3 DEF RevisionsClash
<1>12. CurrentOf(d)' = {n}
  BY <1>7, <1>10, <1>11 DEF CurrentOf
<1> QED BY <1>12, FS_Singleton

\* Whatever changes a drawing's current revision leaves exactly one, also when
\* two create_revision requests supersede the same one.
THEOREM OneCurrent == EngineeringConstants => (Spec => OneCurrentRevision)
<1> SUFFICES ASSUME EngineeringConstants PROVE Spec => OneCurrentRevision
  OBVIOUS
<1>1. EngineeringInv /\ [Next]_vars =>
        [\A d \in Drawings : CurrentOf(d)' # CurrentOf(d) => Cardinality(CurrentOf(d)') = 1]_vars
  BY CurrentReplaced
<1> QED BY <1>1, DesignKept, PTL DEF Spec, OneCurrentRevision

\* A request that is about to change a card or its operations has seen it not
\* released, and nothing else has touched the card since.
LEMMA ReleasedKept ==
  ASSUME EngineeringConstants, EngineeringInv, [Next]_vars, NEW c \in Cards \ crossed,
         cards[c] # None, cards[c].status = "released"
  PROVE  /\ cards'[c].route = cards[c].route /\ cards'[c].revision = cards[c].revision
         /\ cards'[c].sales = cards[c].sales
         /\ operations'[c] = operations[c]
<1>1. CASE UNCHANGED db
  BY <1>1 DEF db
<1>2. CASE ~UNCHANGED db
  <2>1. PICK s \in Sessions : Apply(req[s]) /\ ~ConstraintFails(req[s])
    BY <1>2, WritesAtCommit DEF vars
  <2> DEFINE r == req[s]
  <2>2. /\ RecordsInv /\ Typed(r) /\ Sound(r) /\ TypeOK
        /\ cards \in [Cards -> RouteCard \cup {None}] /\ cards[c] \in RouteCard
    BY RequestTyped DEF EngineeringInv, RecordsInv, TypeOK
  <2>3. CASE r.card # c
    BY <2>1, <2>2, <2>3, ApplyCards, ApplyOperations
  <2>4. CASE r.card = c
    <3>1. Fresh(r)
      BY <2>4 DEF EngineeringInv
    <3>2. r.act \notin {"add_route_operation", "update_route_operation", "create_route_card"}
      BY <2>1, <2>4, <3>1 DEF Fresh, Draft, ConstraintFails
    <3>3. operations'[c] = operations[c]
      BY <2>1, <2>2, <3>2, ApplyOperations
    <3>4. CASE r.act \in {"attach_document", "update_route_card"}
      <4>1. DOMAIN r.set \cap {"route", "revision", "sales"} = {}
        BY <2>2, <2>4, <3>1, <3>4 DEF Fresh, Draft, Sound
      <4>2. cards'[c] = Written(cards[c], r.set)
        BY <2>1, <2>2, <2>4, <3>4 DEF Apply
      <4> QED BY <2>2, <3>3, <4>1, <4>2 DEF Written, RouteCard
    <3>5. CASE r.act \notin {"attach_document", "update_route_card"}
      <4>1. cards' = cards
        BY <2>1, <3>2, <3>5 DEF Apply
      <4> QED BY <3>3, <4>1
    <3> QED BY <3>4, <3>5
  <2> QED BY <2>3, <2>4
<1> QED BY <1>1, <1>2

\* A released card that no two requests deal with at once keeps its number, its
\* revision, its sales order and its operations.
THEOREM ReleasedFixed == EngineeringConstants => (Spec => ReleasedIsFixed)
<1> SUFFICES ASSUME EngineeringConstants PROVE Spec => ReleasedIsFixed
  OBVIOUS
<1>1. EngineeringInv /\ [Next]_vars =>
        [\A c \in Cards \ crossed : cards[c] # None /\ cards[c].status = "released" =>
           /\ cards'[c].route = cards[c].route /\ cards'[c].revision = cards[c].revision
           /\ cards'[c].sales = cards[c].sales
           /\ operations'[c] = operations[c]]_vars
  BY ReleasedKept
<1> QED BY <1>1, DesignKept, PTL DEF Spec, ReleasedIsFixed
=============================================================================
