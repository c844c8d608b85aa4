----------------------------- MODULE Engineering -----------------------------
(***************************************************************************)
(* Drawings, their revisions, route cards and route operations:            *)
(* app/services/engineering_service.py and                                 *)
(* app/api/v1/endpoints/engineering.py.                                    *)
(*                                                                         *)
(* A request is two steps of its database session: the handler, which      *)
(* reads, checks and leaves in req[s] what it is about to write, and       *)
(* Commit.  A handler that raises writes nothing and is no step.  Nothing  *)
(* here locks what it reads.                                               *)
(***************************************************************************)
EXTENDS Integers, Sequences, FiniteSetsExt

CONSTANTS
  Sessions,     \* request sessions that may be open at once
  None,
  Drawings,     \* drawing numbers clients give
  Codes,        \* revision codes clients give
  Cards,        \* ids of route cards
  RouteNumbers, \* route numbers clients give
  SalesOrders,  \* existing sales orders
  Numbers,      \* operation numbers clients give
  Places,       \* sequence orders clients give
  MaxRevisions, MaxOps  \* bounds on the revisions, and on the operations of a card

VARIABLES
  drawings,    \* numbers of the drawings
  revisions,   \* drawing_revisions, in id order
  cards,       \* route_cards by id, None before the INSERT
  operations,  \* per card, its route_operations, in id order
  req,         \* per session, the request about to commit
  crossed      \* history: cards and revisions two requests dealt with at once

db == <<drawings, revisions, cards, operations>>
vars == <<db, req, crossed>>

RouteCardStatus == {"draft", "released", "obsolete"}
DrawingRevision == [ drawing : Drawings, code : Codes, current : BOOLEAN,
                     approved : BOOLEAN, deleted : BOOLEAN ]
RouteCard == [ route : RouteNumbers, revision : Nat, sales : SalesOrders,
               status : RouteCardStatus,
               file : BOOLEAN,      \* route_card_file_path is set
               deleted : BOOLEAN ]
RouteOperation == [number : Int, place : Places, deleted : BOOLEAN]

Handlers == {"create_drawing", "create_revision", "update_revision", "create_route_card",
             "attach_document", "update_route_card", "add_route_operation",
             "update_route_operation"}

\* Columns of one row about to be written, with their values.
Columns(set) ==
  \A c \in DOMAIN set :
    CASE c \in {"current", "approved", "deleted", "file"} -> set[c] \in BOOLEAN
      [] c = "code" -> set[c] \in Codes
      [] c = "status" -> set[c] \in RouteCardStatus
      [] c = "revision" -> set[c] \in Nat
      [] c = "route" -> set[c] \in RouteNumbers
      [] c = "sales" -> set[c] \in SalesOrders
      [] c = "number" -> set[c] \in Int
      [] c = "place" -> set[c] \in Places
      [] OTHER -> FALSE

Idle == [ act |-> None, drawing |-> None, card |-> None, id |-> 0,
          supersedes |-> {}, set |-> <<>> ]

\* The ORM writes the columns that differ from the row it read.
Changed(row, new) == [c \in {d \in DOMAIN new : new[d] # row[d]} |-> new[c]]

\* The row after an UPDATE of the columns of set.
Written(row, set) == [c \in DOMAIN row |-> IF c \in DOMAIN set THEN set[c] ELSE row[c]]

-----------------------------------------------------------------------------
CurrentOf(d) == {i \in DOMAIN revisions : revisions[i].drawing = d /\ revisions[i].current}

TypeOK ==
  /\ drawings \subseteq Drawings
  /\ revisions \in Seq(DrawingRevision)
  /\ cards \in [Cards -> RouteCard \cup {None}]
  /\ \A c \in Cards : cards[c] # None => cards[c].revision \in DOMAIN revisions
  /\ operations \in [Cards -> Seq(RouteOperation)]
  /\ \A s \in Sessions :
       /\ req[s].act \in Handlers \cup {None}
       /\ req[s].drawing \in Drawings \cup {None}
       /\ req[s].card \in Cards \cup {None}
       /\ req[s].id \in Nat
       /\ req[s].supersedes \subseteq DOMAIN revisions
       /\ Columns(req[s].set)
  /\ crossed \subseteq Cards \cup DOMAIN revisions

Init ==
  /\ drawings = {} /\ revisions = <<>>
  /\ cards = [c \in Cards |-> None]
  /\ operations = [c \in Cards |-> <<>>]
  /\ req = [s \in Sessions |-> Idle]
  /\ crossed = {}

-----------------------------------------------------------------------------
(* The handlers, up to their commit.                                       *)

Pend(s, r) ==
  /\ req[s] = Idle
  /\ req' = [req EXCEPT ![s] = r]
  /\ UNCHANGED db

InFlight(act) == Cardinality({s \in Sessions : req[s].act = act})

CreateDrawing(s) ==
  \E d \in Drawings \ drawings : Pend(s, [Idle EXCEPT !.act = "create_drawing", !.drawing = d])

\* create_revision: previous_current
Superseded(d, current) == IF current THEN CurrentOf(d) ELSE {}

CreateRevision(s) ==
  \E d \in drawings, code \in Codes, current, approved \in BOOLEAN :
    /\ Len(revisions) + InFlight("create_revision") < MaxRevisions
    /\ Pend(s, [Idle EXCEPT !.act = "create_revision", !.drawing = d,
                  !.supersedes = Superseded(d, current),
                  !.set = [code |-> code, current |-> current, approved |-> approved]])

\* "Current revision cannot be edited", "Approved revision cannot be edited"
Editable(i) == ~revisions[i].deleted /\ ~revisions[i].current /\ ~revisions[i].approved

OnRevision(s, i, new) ==
  /\ Editable(i)
  /\ Pend(s, [Idle EXCEPT !.act = "update_revision", !.id = i,
                          !.set = Changed(revisions[i], new)])

UpdateDrawingRevision(s) ==
  \E i \in DOMAIN revisions, code \in Codes, approved \in BOOLEAN :
    OnRevision(s, i, [code |-> code, approved |-> approved])

DeleteDrawingRevision(s) == \E i \in DOMAIN revisions : OnRevision(s, i, [deleted |-> TRUE])

\* The uploaded document is stored by a second transaction of the same request.
CreateRouteCard(s) ==
  \E c \in Cards, n \in RouteNumbers, i \in DOMAIN revisions, so \in SalesOrders :
    /\ cards[c] = None /\ \A t \in Sessions : req[t].card # c    \* a new id
    /\ revisions[i].current
    /\ Pend(s, [Idle EXCEPT !.act = "create_route_card", !.card = c, !.id = i,
                            !.set = [route |-> n, sales |-> so]])

\* Mutant: a card may be changed whatever its status.
CardExists(c) == cards[c] # None

Draft(c) == cards[c] # None /\ cards[c].status = "draft"

OnCard(s, c, new) ==
  Pend(s, [Idle EXCEPT !.act = "update_route_card", !.card = c, !.id = cards[c].revision,
                       !.set = Changed(cards[c], new)])

\* A revision that is given must be current, also when it is the card's.
UpdateRouteCard(s) ==
  \E c \in Cards, n \in RouteNumbers, so \in SalesOrders :
    /\ Draft(c) /\ ~cards[c].deleted
    /\ \E i \in DOMAIN revisions :
         /\ revisions[i].current \/ i = cards[c].revision
         /\ OnCard(s, c, [route |-> n, revision |-> i, sales |-> so])

DeleteRouteCard(s) ==
  \E c \in Cards : Draft(c) /\ ~cards[c].deleted /\ OnCard(s, c, [deleted |-> TRUE])

\* Neither a deleted card nor deleted operations are told from others here.
ReleaseRouteCard(s) ==
  \E c \in Cards :
    /\ Draft(c)
    /\ cards[c].file
    /\ operations[c] # <<>>
    /\ revisions[cards[c].revision].current
    /\ OnCard(s, c, [status |-> "released"])

MarkRouteCardObsolete(s) ==
  \E c \in Cards :
    /\ cards[c] # None /\ cards[c].status = "released"
    /\ OnCard(s, c, [status |-> "obsolete"])

\* max_op, or 0 of a card without operations, and ten more
NextOperation(c) ==
  LET used == {operations[c][k].number : k \in DOMAIN operations[c]} IN
  (IF used = {} THEN 0 ELSE Max(used)) + 10

\* Refused on a released card; on an obsolete one it is not.
AddRouteOperation(s) ==
  \E c \in Cards : \E number \in Numbers \cup {NextOperation(c)}, p \in Places :
    /\ cards[c] # None /\ cards[c].status # "released"
    /\ Len(operations[c]) + InFlight("add_route_operation") < MaxOps
    /\ \A k \in DOMAIN operations[c] :
         operations[c][k].number # number /\ operations[c][k].place # p
    /\ Pend(s, [Idle EXCEPT !.act = "add_route_operation", !.card = c,
                            !.set = [number |-> number, place |-> p]])

OnOperation(s, c, k, new) ==
  /\ Draft(c) /\ ~operations[c][k].deleted
  /\ Pend(s, [Idle EXCEPT !.act = "update_route_operation", !.card = c, !.id = k,
                          !.set = Changed(operations[c][k], new)])

UpdateRouteOperation(s) ==
  \E c \in Cards : \E k \in DOMAIN operations[c] :
    \E n \in Numbers \cup {operations[c][k].number}, p \in Places :
      OnOperation(s, c, k, [number |-> n, place |-> p])

DeleteRouteOperation(s) ==
  \E c \in Cards : \E k \in DOMAIN operations[c] : OnOperation(s, c, k, [deleted |-> TRUE])

-----------------------------------------------------------------------------
\* The tables as the transaction would leave them.
RevisionsAfter(r) ==
  CASE r.act = "create_revision" ->
         Append([i \in DOMAIN revisions |->
                   IF i \in r.supersedes THEN [revisions[i] EXCEPT !.current = FALSE]
                   ELSE revisions[i]],
                [drawing |-> r.drawing, code |-> r.set.code, current |-> r.set.current,
                 approved |-> r.set.approved, deleted |-> FALSE])
    [] r.act = "update_revision" -> [revisions EXCEPT ![r.id] = Written(@, r.set)]
    [] OTHER -> revisions

OperationsAfter(r) ==
  CASE r.act = "add_route_operation" ->
         [operations EXCEPT ![r.card] =
            Append(@, [number |-> r.set.number, place |-> r.set.place, deleted |-> FALSE])]
    [] r.act = "update_route_operation" -> [operations EXCEPT ![r.card][r.id] = Written(@, r.set)]
    [] OTHER -> operations

\* Mutant: no index keeps the current revision of a drawing unique.
CodesOnly(i, j) == i.code = j.code

\* uq_drawing_revisions_drawing_revision_code, uq_drawing_revisions_current_per_drawing
RevisionsClash(i, j) == i.code = j.code \/ (i.current /\ j.current)

\* unique(route_number)
RouteTaken(r) ==
  /\ r.act \in {"create_route_card", "update_route_card"} /\ "route" \in DOMAIN r.set
  /\ \E c \in Cards \ {r.card} : cards[c] # None /\ cards[c].route = r.set.route

\* Those, unique(drawing_number), and the two indexes of the operations of a card
ConstraintFails(r) ==
  \/ r.act = "create_drawing" /\ r.drawing \in drawings
  \/ RouteTaken(r)
  \/ LET rows == RevisionsAfter(r) IN
       \E i, j \in DOMAIN rows :
         i < j /\ rows[i].drawing = rows[j].drawing /\ RevisionsClash(rows[i], rows[j])
  \/ r.card # None /\ LET rows == OperationsAfter(r)[r.card] IN
       \E k, l \in DOMAIN rows :
         k < l /\ (rows[k].number = rows[l].number \/ rows[k].place = rows[l].place)

Apply(r) ==
  /\ drawings' = IF r.act = "create_drawing" THEN drawings \cup {r.drawing} ELSE drawings
  /\ revisions' = RevisionsAfter(r)
  /\ operations' = OperationsAfter(r)
  /\ cards' =
       CASE r.act = "create_route_card" ->
              [cards EXCEPT ![r.card] =
                 [route |-> r.set.route, revision |-> r.id, sales |-> r.set.sales,
                  status |-> "draft", file |-> FALSE, deleted |-> FALSE]]
         [] r.act \in {"attach_document", "update_route_card"} ->
              [cards EXCEPT ![r.card] = Written(@, r.set)]
         [] OTHER -> cards

\* What the request does after its commit: a route card's document follows.
Continues(r) ==
  IF r.act = "create_route_card" /\ ~ConstraintFails(r)
  THEN [Idle EXCEPT !.act = "attach_document", !.card = r.card, !.set = [file |-> TRUE]]
  ELSE Idle

Commit(s) ==
  /\ req[s] # Idle
  /\ IF ConstraintFails(req[s]) THEN UNCHANGED db ELSE Apply(req[s])
  /\ req' = [req EXCEPT ![s] = Continues(req[s])]

\* The worker or its connection dies before the commit: a rollback.
Abort(s) ==
  /\ req[s] # Idle
  /\ req' = [req EXCEPT ![s] = Idle]
  /\ UNCHANGED db

Handle(s) ==
  \/ CreateDrawing(s) \/ CreateRevision(s) \/ UpdateDrawingRevision(s)
  \/ DeleteDrawingRevision(s) \/ CreateRouteCard(s) \/ UpdateRouteCard(s)
  \/ DeleteRouteCard(s) \/ ReleaseRouteCard(s) \/ MarkRouteCardObsolete(s)
  \/ AddRouteOperation(s) \/ UpdateRouteOperation(s) \/ DeleteRouteOperation(s)

\* x: the card a request is about, or a revision it changes or relies on
Touches(r, x) ==
  \/ r.card = x
  \/ x \in r.supersedes
  \/ r.id = x /\ r.act \in {"update_revision", "create_route_card", "update_route_card"}

Next ==
  /\ \E s \in Sessions : Handle(s) \/ Commit(s) \/ Abort(s)
  /\ crossed' = crossed \cup
       {x \in Cards \cup DOMAIN revisions :
          \E s, t \in Sessions : s # t /\ Touches(req'[s], x) /\ Touches(req'[t], x)}

Spec == Init /\ [][Next]_vars

-----------------------------------------------------------------------------
\* Whenever a drawing's current revision changes, exactly one is current
\* afterwards, also when two requests supersede the same one.
OneCurrentRevision ==
  [][\A d \in Drawings : CurrentOf(d)' # CurrentOf(d) => Cardinality(CurrentOf(d)') = 1]_vars

\* "Released RouteCard cannot be edited": a released card keeps its number, its
\* revision, its sales order and its operations, as long as no two requests
\* deal with the card at once.
ReleasedIsFixed ==
  [][\A c \in Cards \ crossed : cards[c] # None /\ cards[c].status = "released" =>
       /\ cards'[c].route = cards[c].route /\ cards'[c].revision = cards[c].revision
       /\ cards'[c].sales = cards[c].sales
       /\ operations'[c] = operations[c]]_vars

\* "RouteCard cannot be released without operations": of the operations a
\* released card has, one is not deleted.
ReleasedHasOperations ==
  \A c \in Cards \ crossed : cards[c] # None /\ cards[c].status = "released" =>
    \E k \in DOMAIN operations[c] : ~operations[c][k].deleted
=============================================================================
