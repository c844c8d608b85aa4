------------------------------ MODULE AuthProofs ------------------------------
(***************************************************************************)
(* Proofs about Auth, for every number of sessions, users, roles, refresh  *)
(* tokens and OAuth states.                                                *)
(***************************************************************************)
EXTENDS Auth, FiniteSetTheorems, SequenceTheorems, WellFoundedInduction, TLAPS

\* What the proofs assume of the constants: NULL is no value of a column, and
\* a user may have at least one session.
AuthConstants ==
  /\ MaxSessions \in Nat \ {0}
  /\ None \notin Users \cup Acts \cup User

\* What a request names is there; tokens it revokes or inserts are its user's.
OnTokens == {"issue_token_pair", "refresh_token", "logout", "logout_all"}
OnAccounts == OnTokens \cup {"create_user", "update_user", "delete_user", "log_deletion", "login",
                             "google_profile"}

AccountTyped(r) ==
  /\ r.act \in Acts \cup {None}
  /\ r.user \in Users \cup {None}
  /\ Columns(r.set)
  /\ r.role \in Roles \cup {None}
  /\ r.inserts \in {0} \cup DOMAIN tokens
  /\ r.revokes \subseteq DOMAIN tokens
  /\ r.state \in OAuthStates \cup {None}
  /\ r.next \in {None, "issue_token_pair", "google_profile"}

AccountSound(r) ==
  /\ r.act \in OnAccounts \/ r.next = "issue_token_pair" => r.user \in Users
  /\ \A i \in r.revokes : tokens[i].user = r.user
  /\ r.act \notin OnTokens => r.revokes = {}
  /\ r.act = "issue_token_pair" => r.inserts # 0
  /\ r.inserts # 0 => r.act = "issue_token_pair" /\ tokens[r.inserts].user = r.user
  /\ r.act = "create_user" =>
       r.set \in User /\ r.set.active /\ ~r.set.locked /\ ~r.set.deleted
  /\ r.act = "update_role" => r.role \in Roles /\ r.set.active \in BOOLEAN
  /\ r.act \in {"google_login", "consume_state"} => r.state \in OAuthStates
  /\ r.next = "issue_token_pair" => r.act \in {None, "login", "google_profile", "create_user"}
  /\ r.next = "google_profile" => r.act \in {None, "consume_state"}
  /\ r.next = "issue_token_pair" /\ r.act \in {"login", "google_profile"} =>
       DOMAIN r.set \cap {"active", "locked", "deleted"} = {}

AccountRecordsInv ==
  /\ TypeOK
  /\ req = [s \in Sessions |-> req[s]]
  /\ \A s \in Sessions : AccountSound(req[s])

\* What holds of a user as long as no two requests deal with the account: one
\* that gets a token stays usable, there is room for the token, and all valid
\* tokens of one who logs out are about to be revoked.
Usable(u) == Exists(u) /\ users[u].active /\ ~users[u].locked

Issues(r) == r.act \in {"issue_token_pair", "refresh_token"}

AccountFresh(r) ==
  /\ Issues(r) \/ (r.next = "issue_token_pair" /\ r.act # "create_user") => Usable(r.user)
  /\ Issues(r) => Cardinality(ValidOf(r.user) \ r.revokes) < MaxSessions
  /\ r.act = "logout_all" => ValidOf(r.user) \subseteq r.revokes

OneRequestPerAccount ==
  \A s, t \in Sessions :
    s # t /\ req[s].user \in Users /\ req[t].user = req[s].user => req[s].user \in crossed

AuthInv ==
  /\ AccountRecordsInv
  /\ OneRequestPerAccount
  /\ \A s \in Sessions : req[s].user \notin crossed => AccountFresh(req[s])
  /\ SessionLimitHolds

-----------------------------------------------------------------------------
\* All but the newest: of the tokens that are left, the oldest has fewer than
\* MaxSessions newer ones, the new one included.
LEMMA RoomUnderLimit ==
  ASSUME AuthConstants, NEW n \in Nat, NEW ids \in SUBSET (1 .. n)
  PROVE  Cardinality(ids \ OverLimit(ids, n + 1)) < MaxSessions
<1> DEFINE new == n + 1
           newer(i) == {j \in ids \cup {new} : j > i}
           left == ids \ OverLimit(ids, new)
<1>0. MaxSessions \in Nat /\ MaxSessions > 0
  BY DEF AuthConstants
<1>1. /\ \A S \in SUBSET (ids \cup {new}) : IsFiniteSet(S)
      /\ left \subseteq ids /\ ids \subseteq Nat
  <2>1. IsFiniteSet(1 .. (n + 1))
    BY FS_Interval
  <2>2. ids \cup {new} \subseteq 1 .. (n + 1)
    OBVIOUS
  <2>3. left \subseteq ids /\ ids \subseteq Nat
    OBVIOUS
  <2> HIDE DEF new, left
  <2>4. ASSUME NEW S \in SUBSET (ids \cup {new}) PROVE IsFiniteSet(S)
    BY <2>1, <2>2, FS_Subset
  <2> QED BY <2>3, <2>4
<1>2. \A i \in left : Cardinality(newer(i)) < MaxSessions
  <2> SUFFICES ASSUME NEW i \in left PROVE Cardinality(newer(i)) < MaxSessions
    OBVIOUS
  <2>1. ~(Cardinality(newer(i)) >= MaxSessions)
    BY DEF OverLimit
  <2>2. Cardinality(newer(i)) \in Nat
    <3>1. newer(i) \in SUBSET (ids \cup {new})
      OBVIOUS
    <3> HIDE DEF newer, new
    <3> QED BY <1>1, <3>1, FS_CardinalityType
  <2> HIDE DEF newer
  <2> QED BY <1>0, <2>1, <2>2
<1>3. CASE left = {}
  <2>1. Cardinality(left) = 0
    <3> HIDE DEF left
    <3> QED BY <1>3, FS_EmptySet
  <2> QED BY <1>0, <2>1
<1>4. CASE left # {}
  <2>1. PICK m \in left : \A j \in left : ~(j < m)
    <3>1. IsWellFoundedOn(OpToRel(<, Nat), Nat)
      BY NatLessThanWellFounded
    <3>2. left \subseteq Nat
      BY <1>1
    <3> HIDE DEF left
    <3>3. PICK m \in left : \A j \in left : <<j, m>> \notin OpToRel(<, Nat)
      BY <1>4, <3>1, <3>2, WFMin
    <3> QED BY <3>2, <3>3 DEF OpToRel
  <2> DEFINE others == left \ {m}
  <2>2. others \cup {new} \subseteq newer(m)
    <3>1. m \in 1 .. n /\ \A j \in others : j > m /\ j \in ids
      BY <1>1, <2>1
    <3> HIDE DEF others, left
    <3> QED BY <3>1
  <2>3. /\ IsFiniteSet(left) /\ IsFiniteSet(others) /\ IsFiniteSet(newer(m))
        /\ new \notin others
    <3>1. left \in SUBSET (ids \cup {new}) /\ newer(m) \in SUBSET (ids \cup {new})
      OBVIOUS
    <3>2. new \notin others
      BY <1>1
    <3> HIDE DEF left, newer, new
    <3> QED BY <1>1, <3>1, <3>2
  <2>4. Cardinality(newer(m)) < MaxSessions
    BY <1>2
  <2> HIDE DEF newer, new, left
  <2>5. Cardinality(others) = Cardinality(left) - 1 /\ Cardinality(left) \in Nat
    BY <2>3, FS_RemoveElement, FS_CardinalityType
  <2>6. Cardinality(others \cup {new}) = Cardinality(others) + 1
    <3> HIDE DEF others
    <3> QED BY <2>3, FS_AddElement
  <2>7. Cardinality(others \cup {new}) <= Cardinality(newer(m))
    <3> HIDE DEF others
    <3> QED BY <2>2, <2>3, FS_Subset
  <2>8. Cardinality(newer(m)) \in Nat
    BY <2>3, FS_CardinalityType
  <2>9. Cardinality(left) < MaxSessions
    BY <1>0, <2>4, <2>5, <2>6, <2>7, <2>8
  <2> QED BY <2>9 DEF left, new
<1> QED BY <1>3, <1>4

LEMMA TokensFinite ==
  ASSUME TypeOK
  PROVE  /\ tokens \in Seq(RefreshToken) /\ Len(tokens) \in Nat
         /\ DOMAIN tokens = 1 .. Len(tokens)
         /\ \A i \in DOMAIN tokens : tokens[i] \in RefreshToken
         /\ \A u \in Users : ValidOf(u) \subseteq DOMAIN tokens
         /\ \A S \in SUBSET DOMAIN tokens : IsFiniteSet(S) /\ Cardinality(S) \in Nat
<1>1. /\ tokens \in Seq(RefreshToken) /\ Len(tokens) \in Nat
      /\ DOMAIN tokens = 1 .. Len(tokens)
      /\ \A i \in DOMAIN tokens : tokens[i] \in RefreshToken
  BY DEF TypeOK
<1>2. IsFiniteSet(DOMAIN tokens)
  BY <1>1, FS_Interval
<1> QED BY <1>1, <1>2, FS_Subset, FS_CardinalityType DEF ValidOf

LEMMA AccountIdle ==
  ASSUME AuthConstants
  PROVE  /\ Idle.act = None /\ Idle.user = None /\ Idle.inserts = 0 /\ Idle.revokes = {}
         /\ Idle.next = None
         /\ AccountTyped(Idle) /\ AccountSound(Idle) /\ AccountFresh(Idle)
<1>1. /\ Idle.act = None /\ Idle.user = None /\ Idle.set = <<>> /\ DOMAIN Idle.set = {}
      /\ Idle.role = None /\ Idle.inserts = 0 /\ Idle.revokes = {} /\ Idle.state = None
      /\ Idle.next = None
  BY DEF Idle
<1> HIDE DEF Idle
<1>2. AccountTyped(Idle)
  BY <1>1 DEF AccountTyped, Columns
<1> QED BY <1>1, <1>2
        DEF AuthConstants, AccountSound, AccountFresh, Issues, Acts, OnAccounts, OnTokens

LEMMA ChangedAccount ==
  ASSUME NEW row, NEW new, Columns(new)
  PROVE  /\ DOMAIN Changed(row, new) \subseteq DOMAIN new
         /\ \A c \in DOMAIN Changed(row, new) : Changed(row, new)[c] = new[c]
         /\ Columns(Changed(row, new))
<1>1. /\ DOMAIN Changed(row, new) \subseteq DOMAIN new
      /\ \A c \in DOMAIN Changed(row, new) : Changed(row, new)[c] = new[c]
  BY DEF Changed
<1> QED BY <1>1 DEF Columns

LEMMA LoginColumns ==
  ASSUME NEW n \in Nat
  PROVE  /\ Columns([failed |-> n])
         /\ \A b \in BOOLEAN : Columns([failed |-> n, locked |-> b])
         /\ \A provider \in Provider :
              /\ Columns([failed |-> n, provider |-> provider])
              /\ \A role \in Roles : Columns([failed |-> n, role |-> role, provider |-> provider])
  BY DEF Columns

-----------------------------------------------------------------------------
(* The handlers.                                                           *)

Prepared(s, r) == req' = [req EXCEPT ![s] = r] /\ UNCHANGED db
Good(r) == AccountTyped(r) /\ AccountSound(r) /\ (r.user \notin crossed => AccountFresh(r))

LEMMA TokenRequests ==
  ASSUME AuthConstants, AuthInv, NEW s \in Sessions, Refresh(s) \/ Logout(s) \/ LogoutAll(s)
  PROVE  \E r : Prepared(s, r) /\ Good(r)
<1>0. /\ TypeOK /\ DOMAIN tokens \subseteq Nat
      /\ \A i \in DOMAIN tokens : tokens[i] \in RefreshToken
      /\ \A u \in Users : ValidOf(u) \subseteq DOMAIN tokens
      /\ \A S \in SUBSET DOMAIN tokens : IsFiniteSet(S) /\ Cardinality(S) \in Nat
  BY TokensFinite DEF AuthInv, AccountRecordsInv
<1>1. ASSUME NEW act \in {"refresh_token", "logout", "logout_all"}, NEW u \in Users,
             NEW ids \in SUBSET DOMAIN tokens, \A i \in ids : tokens[i].user = u,
             Pend(s, [Idle EXCEPT !.act = act, !.user = u, !.revokes = ids]),
             act = "refresh_token" =>
               /\ Usable(u)
               /\ u \notin crossed => Cardinality(ValidOf(u) \ ids) < MaxSessions,
             act = "logout_all" => ValidOf(u) \subseteq ids
      PROVE  \E r : Prepared(s, r) /\ Good(r)
  <2> DEFINE r == [Idle EXCEPT !.act = act, !.user = u, !.revokes = ids]
  <2>1. /\ r.act = act /\ r.user = u /\ r.set = <<>> /\ DOMAIN r.set = {} /\ r.role = None
        /\ r.inserts = 0 /\ r.revokes = ids /\ r.state = None /\ r.next = None
    BY DEF Idle
  <2>2. Prepared(s, r)
    BY <1>1 DEF Pend, Prepared
  <2> HIDE DEF r
  <2>3. AccountTyped(r)
    BY <1>1, <2>1 DEF AccountTyped, Columns, Acts
  <2>4. AccountSound(r)
    BY <1>1, <2>1 DEF AuthConstants, AccountSound, Acts, OnAccounts, OnTokens
  <2>5. r.user \notin crossed => AccountFresh(r)
    BY <1>1, <2>1 DEF AuthConstants, AccountFresh, Issues, Acts
  <2> QED BY <2>2, <2>3, <2>4, <2>5 DEF Good
<1>2. CASE Refresh(s)
  <2>1. PICK i \in DOMAIN tokens :
          /\ tokens[i].status = "valid" /\ MayRefresh(tokens[i].user)
          /\ Pend(s, [Idle EXCEPT !.act = "refresh_token", !.user = tokens[i].user, !.revokes = {i}])
    BY <1>2 DEF Refresh
  <2>2. PICK u : u = tokens[i].user
    OBVIOUS
  <2>3. u \in Users /\ Usable(u) /\ i \in ValidOf(u)
    BY <1>0, <2>1, <2>2 DEF RefreshToken, MayRefresh, Usable, ValidOf
  <2>4. u \notin crossed => Cardinality(ValidOf(u) \ {i}) < MaxSessions
    <3> SUFFICES ASSUME u \notin crossed PROVE Cardinality(ValidOf(u) \ {i}) < MaxSessions
      OBVIOUS
    <3>1. Cardinality(ValidOf(u)) <= MaxSessions /\ MaxSessions \in Nat
      BY <2>3 DEF AuthInv, SessionLimitHolds, AuthConstants
    <3>2. IsFiniteSet(ValidOf(u)) /\ Cardinality(ValidOf(u)) \in Nat
      BY <1>0, <2>3
    <3>3. Cardinality(ValidOf(u) \ {i}) = Cardinality(ValidOf(u)) - 1
      BY <2>3, <3>2, FS_RemoveElement
    <3> QED BY <3>1, <3>2, <3>3
  <2>5. PICK ids : ids = {i}
    OBVIOUS
  <2>6. Pend(s, [Idle EXCEPT !.act = "refresh_token", !.user = u, !.revokes = ids])
    BY <2>1, <2>2, <2>5
  <2>7. ids \in SUBSET DOMAIN tokens /\ \A j \in ids : tokens[j].user = u
    BY <2>2, <2>5
  <2> QED BY <1>1, <2>3, <2>4, <2>5, <2>6, <2>7
<1>3. CASE Logout(s)
  <2>1. PICK i \in DOMAIN tokens :
          Pend(s, [Idle EXCEPT !.act = "logout", !.user = tokens[i].user, !.revokes = {i}])
    BY <1>3 DEF Logout
  <2>2. PICK u \in Users : u = tokens[i].user
    BY <1>0, <2>1 DEF RefreshToken
  <2>3. PICK ids : ids = {i}
    OBVIOUS
  <2>4. Pend(s, [Idle EXCEPT !.act = "logout", !.user = u, !.revokes = ids])
    BY <2>1, <2>2, <2>3
  <2>5. ids \in SUBSET DOMAIN tokens /\ \A j \in ids : tokens[j].user = u
    BY <2>2, <2>3
  <2> QED BY <1>1, <2>4, <2>5
<1>4. CASE LogoutAll(s)
  <2>1. PICK u \in Users :
          Pend(s, [Idle EXCEPT !.act = "logout_all", !.user = u, !.revokes = ValidOf(u)])
    BY <1>4 DEF LogoutAll, Ends
  <2>2. ValidOf(u) \in SUBSET DOMAIN tokens /\ \A i \in ValidOf(u) : tokens[i].user = u
    BY <1>0 DEF ValidOf
  <2>3. PICK ids : ids = ValidOf(u)
    OBVIOUS
  <2> QED BY <1>1, <2>1, <2>2, <2>3
<1> QED BY <1>2, <1>3, <1>4

LEMMA LoginRequests ==
  ASSUME AuthConstants, AuthInv, NEW s \in Sessions,
         Login(s) \/ GoogleProfile(s) \/ GoogleProvision(s) \/ CreateUser(s)
  PROVE  \E r : Prepared(s, r) /\ Good(r)
<1>0. TypeOK /\ users \in [Users -> User \cup {None}]
  BY DEF AuthInv, AccountRecordsInv, TypeOK
<1>1. ASSUME NEW act \in {"login", "google_profile"}, NEW u \in Users, Usable(u),
             NEW next \in {None, "issue_token_pair"}, NEW new, Columns(new),
             next = "issue_token_pair" => DOMAIN new \cap {"active", "locked", "deleted"} = {},
             Prepared(s, [Idle EXCEPT !.act = act, !.user = u,
                            !.set = Changed(users[u], new), !.next = next])
      PROVE  \E r : Prepared(s, r) /\ Good(r)
  <2> DEFINE set == Changed(users[u], new)
             r == [Idle EXCEPT !.act = act, !.user = u, !.set = set, !.next = next]
  <2>1. Columns(set) /\ DOMAIN set \subseteq DOMAIN new
    BY <1>1, ChangedAccount
  <2>2. /\ r.act = act /\ r.user = u /\ r.set = set /\ r.role = None
        /\ r.inserts = 0 /\ r.revokes = {} /\ r.state = None /\ r.next = next
    BY DEF Idle
  <2>3. Prepared(s, r)
    BY <1>1
  <2> HIDE DEF r, set
  <2>4. AccountTyped(r)
    BY <1>1, <2>1, <2>2 DEF AccountTyped, Acts
  <2>5. AccountSound(r)
    BY <1>1, <2>1, <2>2 DEF AuthConstants, AccountSound, Acts, OnAccounts, OnTokens
  <2>6. AccountFresh(r)
    BY <1>1, <2>2 DEF AuthConstants, AccountFresh, Issues, Acts
  <2> QED BY <2>3, <2>4, <2>5, <2>6 DEF Good
<1>2. ASSUME NEW u \in Users, NEW role \in Roles, NEW provider \in Provider, NEW r,
             r.act = "create_user", r.user = u, r.set = NewUser(role, provider), r.role = None,
             r.inserts = 0, r.revokes = {}, r.state = None, r.next \in {None, "issue_token_pair"},
             Prepared(s, r)
      PROVE  \E x : Prepared(s, x) /\ Good(x)
  <2>1. /\ r.set \in User /\ r.set.active /\ ~r.set.locked /\ ~r.set.deleted
    BY <1>2 DEF NewUser, User
  <2>2. Columns(r.set)
    <3>1. /\ DOMAIN r.set = {"role", "provider", "active", "locked", "failed", "deleted"}
          /\ r.set.role \in Roles /\ r.set.provider \in Provider /\ r.set.active \in BOOLEAN
          /\ r.set.locked \in BOOLEAN /\ r.set.failed \in Nat /\ r.set.deleted \in BOOLEAN
      BY <2>1 DEF User
    <3> QED BY <3>1 DEF Columns
  <2>3. AccountTyped(r)
    BY <1>2, <2>2 DEF AccountTyped, Acts
  <2>4. AccountSound(r)
    BY <1>2, <2>1 DEF AuthConstants, AccountSound, Acts, OnAccounts, OnTokens
  <2>5. AccountFresh(r)
    BY <1>2 DEF AuthConstants, AccountFresh, Issues, Acts
  <2> QED BY <1>2, <2>3, <2>4, <2>5 DEF Good
<1>3. CASE Login(s)
  <2>1. PICK u \in Users, right \in BOOLEAN :
          /\ Authorized(u)
          /\ LET n == users[u].failed + 1 IN
               Pend(s, [Idle EXCEPT !.act = "login", !.user = u,
                          !.set = Changed(users[u],
                                    IF right THEN [failed |-> 0]
                                    ELSE IF n >= MaxFailed THEN [failed |-> n, locked |-> TRUE]
                                    ELSE [failed |-> n]),
                          !.next = IF right THEN "issue_token_pair" ELSE None])
    BY <1>3 DEF Login
  <2> DEFINE n == users[u].failed + 1
             new == IF right THEN [failed |-> 0]
                    ELSE IF n >= MaxFailed THEN [failed |-> n, locked |-> TRUE]
                    ELSE [failed |-> n]
             next == IF right THEN "issue_token_pair" ELSE None
  <2>2. users[u] # None /\ Usable(u)
    BY <2>1 DEF Authorized, Exists, Usable
  <2>3. n \in Nat
    BY <1>0, <2>2 DEF User
  <2>4. Columns(new)
    <3> HIDE DEF n
    <3>1. CASE right
      BY <3>1, LoginColumns
    <3>2. CASE ~right /\ n >= MaxFailed
      BY <2>3, <3>2, LoginColumns
    <3>3. CASE ~right /\ ~(n >= MaxFailed)
      BY <2>3, <3>3, LoginColumns
    <3> QED BY <3>1, <3>2, <3>3
  <2>5. next \in {None, "issue_token_pair"}
    OBVIOUS
  <2>6. next = "issue_token_pair" => DOMAIN new \cap {"active", "locked", "deleted"} = {}
    BY DEF AuthConstants, Acts
  <2>7. Prepared(s, [Idle EXCEPT !.act = "login", !.user = u,
                       !.set = Changed(users[u], new), !.next = next])
    BY <2>1 DEF Pend, Prepared
  <2> HIDE DEF new, next
  <2> QED BY <1>1, <2>2, <2>4, <2>5, <2>6, <2>7
<1>4. CASE GoogleProfile(s)
  <2>1. PICK u \in Users, admin \in BOOLEAN, role \in Roles :
          /\ Usable(u)
          /\ LET new == IF admin THEN [failed |-> 0, role |-> role, provider |-> "both"]
                        ELSE IF users[u].provider = "local"
                             THEN [failed |-> 0, provider |-> "both"]
                        ELSE [failed |-> 0]
             IN req' = [req EXCEPT ![s] = [Idle EXCEPT !.act = "google_profile", !.user = u,
                          !.set = Changed(users[u], new), !.next = "issue_token_pair"]]
          /\ UNCHANGED db
    BY <1>4 DEF GoogleProfile, Usable
  <2> DEFINE new == IF admin THEN [failed |-> 0, role |-> role, provider |-> "both"]
                    ELSE IF users[u].provider = "local" THEN [failed |-> 0, provider |-> "both"]
                    ELSE [failed |-> 0]
  <2>2. Columns(new)
    BY LoginColumns DEF Provider
  <2>3. DOMAIN new \cap {"active", "locked", "deleted"} = {}
    OBVIOUS
  <2>4. Prepared(s, [Idle EXCEPT !.act = "google_profile", !.user = u,
                       !.set = Changed(users[u], new), !.next = "issue_token_pair"])
    BY <2>1 DEF Prepared
  <2> HIDE DEF new
  <2> QED BY <1>1, <2>1, <2>2, <2>3, <2>4
<1>5. CASE GoogleProvision(s)
  <2>1. PICK u \in Users, admin \in BOOLEAN, role \in Roles :
          Prepared(s, [Idle EXCEPT !.act = "create_user", !.user = u,
                         !.set = NewUser(role, IF admin THEN "both" ELSE "google"),
                         !.next = "issue_token_pair"])
    BY <1>5 DEF GoogleProvision, Prepared
  <2>2. PICK provider \in Provider : provider = IF admin THEN "both" ELSE "google"
    BY DEF Provider
  <2>3. PICK set : set = NewUser(role, provider)
    OBVIOUS
  <2> DEFINE r == [Idle EXCEPT !.act = "create_user", !.user = u, !.set = set,
                               !.next = "issue_token_pair"]
  <2>4. /\ r.act = "create_user" /\ r.user = u /\ r.set = set /\ r.role = None
        /\ r.inserts = 0 /\ r.revokes = {} /\ r.state = None /\ r.next = "issue_token_pair"
    BY DEF Idle
  <2>5. Prepared(s, r)
    BY <2>1, <2>2, <2>3
  <2> HIDE DEF r
  <2> QED BY <1>2, <2>3, <2>4, <2>5
<1>6. CASE CreateUser(s)
  <2>1. PICK u \in Users, role \in Roles, provider \in Provider :
          Pend(s, [Idle EXCEPT !.act = "create_user", !.user = u,
                               !.set = NewUser(role, provider)])
    BY <1>6 DEF CreateUser
  <2>2. PICK set : set = NewUser(role, provider)
    OBVIOUS
  <2> DEFINE r == [Idle EXCEPT !.act = "create_user", !.user = u, !.set = set]
  <2>3. /\ r.act = "create_user" /\ r.user = u /\ r.set = set /\ r.role = None
        /\ r.inserts = 0 /\ r.revokes = {} /\ r.state = None /\ r.next = None
    BY DEF Idle
  <2>4. Prepared(s, r)
    BY <2>1, <2>2 DEF Pend, Prepared
  <2> HIDE DEF r
  <2> QED BY <1>2, <2>2, <2>3, <2>4
<1> QED BY <1>3, <1>4, <1>5, <1>6

LEMMA OtherRequests ==
  ASSUME AuthConstants, AuthInv, NEW s \in Sessions,
         \/ GoogleLogin(s) \/ ConsumeState(s)
         \/ UpdateUser(s) \/ UnlockUser(s) \/ DisableUser(s) \/ EnableUser(s) \/ SoftDeleteUser(s)
         \/ DeleteUser(s) \/ UpdateRole(s)
  PROVE  \E r : Prepared(s, r) /\ Good(r)
<1>0. TypeOK /\ roles \in [Roles -> BOOLEAN]
  BY DEF AuthInv, AccountRecordsInv, TypeOK
<1>1. ASSUME NEW u \in Users, NEW new, Columns(new), OnUser(s, u, new)
      PROVE  \E r : Prepared(s, r) /\ Good(r)
  <2> DEFINE set == Changed(users[u], new)
             r == [Idle EXCEPT !.act = "update_user", !.user = u, !.set = set]
  <2>1. Columns(set)
    BY <1>1, ChangedAccount
  <2>2. /\ r.act = "update_user" /\ r.user = u /\ r.set = set /\ r.role = None
        /\ r.inserts = 0 /\ r.revokes = {} /\ r.state = None /\ r.next = None
    BY DEF Idle
  <2>3. Prepared(s, r)
    BY <1>1 DEF OnUser, Pend, Prepared
  <2> HIDE DEF r, set
  <2>4. AccountTyped(r)
    BY <1>1, <2>1, <2>2 DEF AccountTyped, Acts
  <2>5. AccountSound(r) /\ AccountFresh(r)
    BY <1>1, <2>2
       DEF AuthConstants, AccountSound, AccountFresh, Issues, Acts, OnAccounts, OnTokens
  <2> QED BY <2>3, <2>4, <2>5 DEF Good
<1>2. CASE UpdateUser(s)
  <2>1. PICK u \in Users :
          \/ \E role \in Roles : OnUser(s, u, [role |-> role])
          \/ \E active \in BOOLEAN : OnUser(s, u, [active |-> active])
          \/ \E locked \in BOOLEAN : OnUser(s, u, [locked |-> locked])
    BY <1>2 DEF UpdateUser
  <2>2. CASE \E role \in Roles : OnUser(s, u, [role |-> role])
    BY <1>1, <2>2 DEF Columns
  <2>3. CASE \E active \in BOOLEAN : OnUser(s, u, [active |-> active])
    BY <1>1, <2>3 DEF Columns
  <2>4. CASE \E locked \in BOOLEAN : OnUser(s, u, [locked |-> locked])
    BY <1>1, <2>4 DEF Columns
  <2> QED BY <2>1, <2>2, <2>3, <2>4
<1>3. CASE UnlockUser(s)
  <2>1. PICK u \in Users : \E b \in BOOLEAN : OnUser(s, u, [locked |-> b, failed |-> 0])
    BY <1>3 DEF UnlockUser
  <2>2. PICK b \in BOOLEAN : OnUser(s, u, [locked |-> b, failed |-> 0])
    BY <2>1
  <2>3. Columns([locked |-> b, failed |-> 0])
    BY DEF Columns
  <2> QED BY <1>1, <2>2, <2>3
<1>4. CASE DisableUser(s) \/ EnableUser(s)
  <2>1. PICK u \in Users : \E b \in BOOLEAN : OnUser(s, u, [active |-> b])
    BY <1>4 DEF DisableUser, EnableUser
  <2>2. PICK b \in BOOLEAN : OnUser(s, u, [active |-> b])
    BY <2>1
  <2>3. Columns([active |-> b])
    BY DEF Columns
  <2> QED BY <1>1, <2>2, <2>3
<1>5. CASE SoftDeleteUser(s)
  <2>1. PICK u \in Users : \E b, c \in BOOLEAN : OnUser(s, u, [deleted |-> b, active |-> c])
    BY <1>5 DEF SoftDeleteUser
  <2>2. PICK b \in BOOLEAN, c \in BOOLEAN : OnUser(s, u, [deleted |-> b, active |-> c])
    BY <2>1
  <2>3. Columns([deleted |-> b, active |-> c])
    BY DEF Columns
  <2> QED BY <1>1, <2>2, <2>3
<1>6. CASE DeleteUser(s)
  <2>1. PICK u \in Users : Pend(s, [Idle EXCEPT !.act = "log_deletion", !.user = u])
    BY <1>6 DEF DeleteUser
  <2> DEFINE r == [Idle EXCEPT !.act = "log_deletion", !.user = u]
  <2>2. /\ r.act = "log_deletion" /\ r.user = u /\ DOMAIN r.set = {} /\ r.role = None
        /\ r.inserts = 0 /\ r.revokes = {} /\ r.state = None /\ r.next = None
    BY DEF Idle
  <2>3. Prepared(s, r)
    BY <2>1 DEF Pend, Prepared
  <2> HIDE DEF r
  <2>4. AccountTyped(r) /\ AccountSound(r) /\ AccountFresh(r)
    BY <2>2 DEF AuthConstants, AccountTyped, Columns, AccountSound, AccountFresh, Issues, Acts,
                OnAccounts, OnTokens
  <2> QED BY <2>3, <2>4 DEF Good
<1>7. CASE UpdateRole(s)
  <2>1. PICK role \in Roles :
          Pend(s, [Idle EXCEPT !.act = "update_role", !.role = role,
                               !.set = [active |-> ~roles[role]]])
    BY <1>7 DEF UpdateRole
  <2>2. PICK b \in BOOLEAN : b = ~roles[role]
    OBVIOUS
  <2> DEFINE set == [active |-> b]
             r == [Idle EXCEPT !.act = "update_role", !.role = role, !.set = set]
  <2>3. Columns(set) /\ set.active \in BOOLEAN
    BY DEF Columns
  <2>4. Prepared(s, r)
    BY <2>1, <2>2 DEF Pend, Prepared
  <2>5. /\ r.act = "update_role" /\ r.user = None /\ r.set = set /\ r.role = role
        /\ r.inserts = 0 /\ r.revokes = {} /\ r.state = None /\ r.next = None
    BY DEF Idle
  <2> HIDE DEF r, set
  <2>6. AccountTyped(r) /\ AccountSound(r) /\ AccountFresh(r)
    BY <2>3, <2>5 DEF AuthConstants, AccountTyped, AccountSound, AccountFresh, Issues, Acts,
                      OnAccounts, OnTokens
  <2> QED BY <2>4, <2>6 DEF Good
<1>8. CASE GoogleLogin(s)
  <2>1. PICK o \in OAuthStates : Pend(s, [Idle EXCEPT !.act = "google_login", !.state = o])
    BY <1>8 DEF GoogleLogin
  <2> DEFINE r == [Idle EXCEPT !.act = "google_login", !.state = o]
  <2>2. /\ r.act = "google_login" /\ r.user = None /\ DOMAIN r.set = {} /\ r.role = None
        /\ r.inserts = 0 /\ r.revokes = {} /\ r.state = o /\ r.next = None
    BY DEF Idle
  <2>3. Prepared(s, r)
    BY <2>1 DEF Pend, Prepared
  <2> HIDE DEF r
  <2>4. AccountTyped(r) /\ AccountSound(r) /\ AccountFresh(r)
    BY <2>2 DEF AuthConstants, AccountTyped, Columns, AccountSound, AccountFresh, Issues, Acts,
                OnAccounts, OnTokens
  <2> QED BY <2>3, <2>4 DEF Good
<1>9. CASE ConsumeState(s)
  <2>1. PICK o \in OAuthStates :
          Pend(s, [Idle EXCEPT !.act = "consume_state", !.state = o, !.next = "google_profile"])
    BY <1>9 DEF ConsumeState
  <2> DEFINE r == [Idle EXCEPT !.act = "consume_state", !.state = o, !.next = "google_profile"]
  <2>2. /\ r.act = "consume_state" /\ r.user = None /\ DOMAIN r.set = {} /\ r.role = None
        /\ r.inserts = 0 /\ r.revokes = {} /\ r.state = o /\ r.next = "google_profile"
    BY DEF Idle
  <2>3. Prepared(s, r)
    BY <2>1 DEF Pend, Prepared
  <2> HIDE DEF r
  <2>4. AccountTyped(r) /\ AccountSound(r) /\ AccountFresh(r)
    BY <2>2 DEF AuthConstants, AccountTyped, Columns, AccountSound, AccountFresh, Issues, Acts,
                OnAccounts, OnTokens
  <2> QED BY <2>3, <2>4 DEF Good
<1> QED BY <1>2, <1>3, <1>4, <1>5, <1>6, <1>7, <1>8, <1>9

\* Every handler leaves a request that is typed and sound, and fresh as long
\* as none deals with the same account.
LEMMA RequestPrepared ==
  ASSUME AuthConstants, AuthInv, NEW s \in Sessions, UsersRequest(s) \/ AdminsRequest(s)
  PROVE  IssueTokenPair(s) \/ \E r : Prepared(s, r) /\ Good(r)
  BY TokenRequests, LoginRequests, OtherRequests DEF UsersRequest, AdminsRequest

-----------------------------------------------------------------------------
(* What a step of one session leaves of the others' requests.               *)

\* The rows stay typed, and no refresh token changes its user.
RowsKept ==
  /\ users' \in [Users -> User \cup {None}]
  /\ roles' \in [Roles -> BOOLEAN]
  /\ oauth' \in [OAuthStates -> OAuthState]
  /\ tokens' \in Seq(RefreshToken)
  /\ DOMAIN tokens \subseteq DOMAIN tokens'
  /\ \A i \in DOMAIN tokens : tokens'[i].user = tokens[i].user

LEMMA SoundKept ==
  ASSUME NEW r, AccountTyped(r), AccountSound(r), RowsKept
  PROVE  AccountTyped(r)' /\ AccountSound(r)'
<1>1. AccountTyped(r)'
  BY DEF AccountTyped, RowsKept, Columns
<1>2. \A i \in r.revokes : tokens'[i].user = r.user
  BY DEF AccountTyped, AccountSound, RowsKept
<1>3. r.inserts # 0 => tokens'[r.inserts].user = r.user
  BY DEF AccountTyped, AccountSound, RowsKept
<1> QED BY <1>1, <1>2, <1>3 DEF AccountSound

LEMMA FreshKept ==
  ASSUME TypeOK, NEW r, AccountSound(r), AccountFresh(r),
         r.user \in Users =>
           users'[r.user] = users[r.user] /\ ValidOf(r.user)' \subseteq ValidOf(r.user),
         MaxSessions \in Nat
  PROVE  AccountFresh(r)'
<1>1. CASE Issues(r) \/ r.next = "issue_token_pair" \/ r.act = "logout_all"
  <2>1. PICK u \in Users : u = r.user
    BY <1>1 DEF AccountSound, Issues, OnAccounts, OnTokens
  <2>2. Usable(u) => Usable(u)'
    BY <2>1 DEF Usable, Exists
  <2>3. Cardinality(ValidOf(u) \ r.revokes) < MaxSessions =>
          Cardinality(ValidOf(u)' \ r.revokes) < MaxSessions
    <3>1. ValidOf(u)' \ r.revokes \subseteq ValidOf(u) \ r.revokes
      BY <2>1
    <3>2. ValidOf(u) \ r.revokes \subseteq DOMAIN tokens
      BY <2>1, TokensFinite
    <3>3. PICK S : S = ValidOf(u) \ r.revokes
      OBVIOUS
    <3>4. PICK S2 : S2 = ValidOf(u)' \ r.revokes
      OBVIOUS
    <3>5. IsFiniteSet(S) /\ Cardinality(S) \in Nat
      BY <3>2, <3>3, TokensFinite
    <3>6. Cardinality(S2) \in Nat /\ Cardinality(S2) <= Cardinality(S)
      BY <3>1, <3>3, <3>4, <3>5, FS_Subset, FS_CardinalityType
    <3> QED BY <3>3, <3>4, <3>5, <3>6
  <2> QED BY <2>1, <2>2, <2>3 DEF AccountFresh, Issues
<1>2. CASE ~(Issues(r) \/ r.next = "issue_token_pair" \/ r.act = "logout_all")
  BY <1>2 DEF AccountFresh, Issues
<1> QED BY <1>1, <1>2

LEMMA FewerValid ==
  ASSUME TypeOK, SessionLimitHolds, MaxSessions \in Nat, NEW u \in Users \ crossed,
         ValidOf(u)' \subseteq ValidOf(u)
  PROVE  Cardinality(ValidOf(u)') <= MaxSessions
<1>1. PICK S : S = ValidOf(u)
  OBVIOUS
<1>2. PICK left : left = ValidOf(u)'
  OBVIOUS
<1>3. IsFiniteSet(S) /\ Cardinality(S) \in Nat
  BY <1>1, TokensFinite
<1>4. Cardinality(S) <= MaxSessions
  BY <1>1 DEF SessionLimitHolds
<1>5. Cardinality(left) \in Nat /\ Cardinality(left) <= Cardinality(S)
  BY <1>1, <1>2, <1>3, FS_Subset, FS_CardinalityType
<1> QED BY <1>2, <1>3, <1>4, <1>5

\* Two requests that deal with one account make it crossed, for good.
LEMMA NextCrossed ==
  ASSUME AccountRecordsInv, Next, req' = [t \in Sessions |-> req'[t]]
  PROVE  OneRequestPerAccount' /\ crossed \subseteq crossed' /\ crossed' \subseteq Users
  BY DEF AccountRecordsInv, TypeOK, OneRequestPerAccount, Next

\* A step of session s, which leaves it with request r.  It may change only
\* the rows of the account it deals with, which no other session deals with
\* or which is crossed; other users lose valid tokens at most.
LEMMA SessionStep ==
  ASSUME AuthConstants, AuthInv, Next, NEW s \in Sessions, NEW r,
         req' = [req EXCEPT ![s] = r], RowsKept,
         \A u \in Users : u # req[s].user =>
           users'[u] = users[u] /\ ValidOf(u)' \subseteq ValidOf(u),
         AccountTyped(r)', AccountSound(r)', r.user \notin crossed => AccountFresh(r)',
         \A u \in Users \ crossed : u = req[s].user =>
           Cardinality(ValidOf(u)') <= MaxSessions
  PROVE  AuthInv'
<1>0. /\ TypeOK /\ AccountRecordsInv /\ MaxSessions \in Nat
      /\ req = [t \in Sessions |-> req[t]]
      /\ \A t \in Sessions : AccountTyped(req[t]) /\ AccountSound(req[t])
  BY DEF AuthInv, AccountRecordsInv, TypeOK, AccountTyped, AuthConstants
<1>1. /\ req' = [t \in Sessions |-> req'[t]] /\ req'[s] = r
      /\ \A t \in Sessions \ {s} : req'[t] = req[t]
  BY <1>0
<1>2. OneRequestPerAccount' /\ crossed \subseteq crossed' /\ crossed' \subseteq Users
  BY <1>0, <1>1, NextCrossed
<1>3. ASSUME NEW t \in Sessions
      PROVE  \E x : /\ x = req'[t] /\ AccountTyped(x)' /\ AccountSound(x)'
                    /\ x.user \notin crossed' => AccountFresh(x)'
  <2>1. CASE t = s
    BY <1>1, <1>2, <2>1
  <2>2. CASE t # s
    <3>1. PICK x : x = req[t]
      OBVIOUS
    <3>2. AccountTyped(x) /\ AccountSound(x)
      BY <1>0, <3>1
    <3>3. AccountTyped(x)' /\ AccountSound(x)'
      BY <3>2, SoundKept
    <3>4. ASSUME x.user \notin crossed' PROVE AccountFresh(x)'
      <4>1. x.user \notin crossed /\ AccountFresh(x)
        BY <1>2, <3>1, <3>4 DEF AuthInv
      <4>2. x.user \in Users => x.user # req[s].user
        BY <2>2, <3>1, <4>1 DEF AuthInv, OneRequestPerAccount
      <4> QED BY <1>0, <3>2, <4>1, <4>2, FreshKept
    <3> QED BY <1>1, <2>2, <3>1, <3>3, <3>4
  <2> QED BY <2>1, <2>2
<1>4. \A t \in Sessions :
        /\ AccountTyped(req[t])' /\ AccountSound(req[t])'
        /\ (req[t].user \notin crossed)' => AccountFresh(req[t])'
  <2> SUFFICES ASSUME NEW t \in Sessions
               PROVE  /\ AccountTyped(req[t])' /\ AccountSound(req[t])'
                      /\ (req[t].user \notin crossed)' => AccountFresh(req[t])'
    OBVIOUS
  <2>1. PICK x : /\ x = req'[t] /\ AccountTyped(x)' /\ AccountSound(x)'
                 /\ x.user \notin crossed' => AccountFresh(x)'
    BY <1>3
  <2>2. AccountTyped(req[t])'
    BY <2>1 DEF AccountTyped
  <2>3. AccountSound(req[t])'
    BY <2>1 DEF AccountSound
  <2>4. (req[t].user \notin crossed)' => AccountFresh(req[t])'
    BY <2>1 DEF AccountFresh, Issues, Usable, Exists, ValidOf
  <2> QED BY <2>2, <2>3, <2>4
<1>5. TypeOK'
  BY <1>2, <1>4 DEF RowsKept, TypeOK, AccountTyped
<1>6. SessionLimitHolds'
  <2> SUFFICES ASSUME NEW u \in Users, u \notin crossed'
               PROVE  Cardinality(ValidOf(u)') <= MaxSessions
    BY DEF SessionLimitHolds
  <2>1. CASE u = req[s].user
    BY <1>2, <2>1
  <2>2. CASE u # req[s].user
    BY <1>0, <1>2, <2>2, FewerValid DEF AuthInv
  <2> QED BY <2>1, <2>2
<1> QED BY <1>1, <1>2, <1>4, <1>5, <1>6 DEF AuthInv, AccountRecordsInv

-----------------------------------------------------------------------------
(* The commit.                                                             *)

LEMMA WrittenAccount ==
  ASSUME NEW row \in User, NEW set, Columns(set)
  PROVE  /\ Written(row, set) \in User
         /\ \A c \in {"active", "locked", "deleted"} :
              c \notin DOMAIN set => Written(row, set)[c] = row[c]
<1>1. DOMAIN row = {"role", "provider", "active", "locked", "failed", "deleted"}
  BY DEF User
<1>2. row.role \in Roles /\ row.provider \in Provider /\ row.failed \in Nat
  BY DEF User
<1>3. row.active \in BOOLEAN /\ row.locked \in BOOLEAN /\ row.deleted \in BOOLEAN
  BY DEF User
<1>4. /\ "role" \in DOMAIN set => set.role \in Roles
      /\ "provider" \in DOMAIN set => set.provider \in Provider
      /\ "failed" \in DOMAIN set => set.failed \in Nat
  BY DEF Columns
<1>5. /\ "active" \in DOMAIN set => set.active \in BOOLEAN
      /\ "locked" \in DOMAIN set => set.locked \in BOOLEAN
      /\ "deleted" \in DOMAIN set => set.deleted \in BOOLEAN
  BY DEF Columns
<1>6. PICK w : w = Written(row, set)
  OBVIOUS
<1>7. /\ w = [c \in DOMAIN row |-> w[c]]
      /\ \A c \in DOMAIN row : w[c] = IF c \in DOMAIN set THEN set[c] ELSE row[c]
  BY <1>6 DEF Written
<1>8. w.role \in Roles /\ w.provider \in Provider /\ w.failed \in Nat
  BY <1>1, <1>2, <1>4, <1>7
<1>9. w.active \in BOOLEAN /\ w.locked \in BOOLEAN /\ w.deleted \in BOOLEAN
  BY <1>1, <1>3, <1>5, <1>7
<1>10. w \in User
  BY <1>1, <1>7, <1>8, <1>9 DEF User
<1> QED BY <1>1, <1>6, <1>7, <1>10

\* What a committed transaction leaves of the refresh tokens.
LEMMA TokensApplied ==
  ASSUME AuthConstants, TypeOK, NEW r, AccountTyped(r), AccountSound(r), r.act # None, Apply(r)
  PROVE  /\ tokens' \in Seq(RefreshToken) /\ DOMAIN tokens \subseteq DOMAIN tokens'
         /\ \A i \in DOMAIN tokens :
              /\ tokens'[i].user = tokens[i].user
              /\ tokens'[i].status = IF i \in r.revokes THEN Reason(r.act)
                                     ELSE IF i = r.inserts THEN "valid" ELSE tokens[i].status
         /\ \A i \in DOMAIN tokens' \ DOMAIN tokens :
              /\ i = Len(tokens) + 1 /\ r.act = "refresh_token" /\ tokens'[i].user = r.user
<1>0. /\ tokens \in Seq(RefreshToken) /\ Len(tokens) \in Nat
      /\ DOMAIN tokens = 1 .. Len(tokens)
      /\ \A i \in DOMAIN tokens :
           tokens[i] = [user |-> tokens[i].user, status |-> tokens[i].status]
           /\ tokens[i].user \in Users /\ tokens[i].status \in TokenStatus
  BY TokensFinite DEF RefreshToken
<1> DEFINE status(i) == IF i \in r.revokes THEN Reason(r.act)
                        ELSE IF i = r.inserts THEN "valid" ELSE tokens[i].status
           old == [i \in DOMAIN tokens |->
                     IF i \in r.revokes THEN [tokens[i] EXCEPT !.status = Reason(r.act)]
                     ELSE IF i = r.inserts THEN [tokens[i] EXCEPT !.status = "valid"]
                     ELSE tokens[i]]
           new == IF r.act = "refresh_token" THEN <<[user |-> r.user, status |-> "valid"]>> ELSE <<>>
<1>1. r.revokes # {} => Reason(r.act) \in TokenStatus
  BY DEF AccountSound, OnTokens, Reason, TokenStatus
<1>2. ASSUME NEW i \in DOMAIN tokens
      PROVE  old[i] = [user |-> tokens[i].user, status |-> status(i)] /\ old[i] \in RefreshToken
  <2>1. old[i] = [user |-> tokens[i].user, status |-> status(i)]
    BY <1>0
  <2>2. status(i) \in TokenStatus
    BY <1>0, <1>1 DEF TokenStatus
  <2> QED BY <1>0, <2>1, <2>2 DEF RefreshToken
<1>3. old \in Seq(RefreshToken) /\ Len(old) = Len(tokens)
  BY <1>0, <1>2
<1>4. new \in Seq(RefreshToken) /\ Len(new) \in {0, 1}
  <2>1. CASE r.act = "refresh_token"
    <3>1. PICK u \in Users : u = r.user
      BY <2>1 DEF AccountSound, OnAccounts, OnTokens
    <3>2. [user |-> u, status |-> "valid"] \in RefreshToken
      BY DEF RefreshToken, TokenStatus
    <3>3. new = <<[user |-> u, status |-> "valid"]>>
      BY <2>1, <3>1
    <3> HIDE DEF new
    <3> QED BY <3>2, <3>3
  <2>2. CASE r.act # "refresh_token"
    BY <2>2
  <2> QED BY <2>1, <2>2
<1>5. tokens' = old \o new
  BY DEF Apply
<1>6. \A i \in DOMAIN tokens : old[i].user = tokens[i].user /\ old[i].status = status(i)
  BY <1>2
<1>7. Len(new) = 1 => r.act = "refresh_token" /\ new[1].user = r.user
  OBVIOUS
<1> HIDE DEF old, new, status
<1>8. tokens' \in Seq(RefreshToken) /\ Len(tokens') = Len(tokens) + Len(new)
  BY <1>3, <1>4, <1>5
<1>9. \A i \in DOMAIN tokens : tokens'[i] = old[i]
  BY <1>0, <1>3, <1>4, <1>5
<1>10. \A i \in DOMAIN tokens' \ DOMAIN tokens :
         i = Len(tokens) + 1 /\ Len(new) = 1 /\ tokens'[i] = new[1]
  BY <1>0, <1>3, <1>4, <1>5, <1>8
<1>11. DOMAIN tokens \subseteq DOMAIN tokens'
  BY <1>0, <1>4, <1>8
<1> QED BY <1>6, <1>7, <1>8, <1>9, <1>10, <1>11 DEF status

\* The id of the token a transaction makes valid.
NewIds(r) ==
  CASE r.act = "issue_token_pair" -> {r.inserts}
    [] r.act = "refresh_token" -> {Len(tokens) + 1}
    [] OTHER -> {}

LEMMA ValidApplied ==
  ASSUME AuthConstants, TypeOK, NEW r, AccountTyped(r), AccountSound(r), r.act # None, Apply(r)
  PROVE  /\ \A u \in Users : u # r.user => ValidOf(u)' \subseteq ValidOf(u)
         /\ r.user \in Users =>
              ValidOf(r.user)' \subseteq (ValidOf(r.user) \ r.revokes) \cup NewIds(r)
         /\ \A i \in DOMAIN tokens :
              tokens'[i].status = "logout_all" =>
                tokens[i].status = "logout_all" \/ (i \in r.revokes /\ r.act = "logout_all")
<1>1. /\ DOMAIN tokens \subseteq DOMAIN tokens'
      /\ \A i \in DOMAIN tokens :
           /\ tokens'[i].user = tokens[i].user
           /\ tokens'[i].status = IF i \in r.revokes THEN Reason(r.act)
                                  ELSE IF i = r.inserts THEN "valid" ELSE tokens[i].status
      /\ \A i \in DOMAIN tokens' \ DOMAIN tokens :
           /\ i = Len(tokens) + 1 /\ r.act = "refresh_token" /\ tokens'[i].user = r.user
  BY TokensApplied
<1>2. \A i \in r.revokes : Reason(r.act) # "valid" /\ tokens[i].user = r.user
  BY DEF AccountSound, OnTokens, Reason
<1>3. \A i \in r.revokes : Reason(r.act) = "logout_all" => r.act = "logout_all"
  BY DEF AccountSound, OnTokens, Reason
<1>4. r.inserts \in DOMAIN tokens => tokens[r.inserts].user = r.user /\ r.act = "issue_token_pair"
  <2>1. 0 \notin DOMAIN tokens
    BY TokensFinite
  <2> QED BY <2>1 DEF AccountSound
<1>5. ASSUME NEW u \in Users, NEW i \in ValidOf(u)'
      PROVE  \/ i \in ValidOf(u) /\ i \notin r.revokes
             \/ u = r.user /\ i \in NewIds(r)
  <2>1. i \in DOMAIN tokens' /\ tokens'[i].user = u /\ tokens'[i].status = "valid"
    BY DEF ValidOf
  <2>2. CASE i \in DOMAIN tokens
    BY <1>1, <1>2, <1>4, <2>1, <2>2 DEF ValidOf, NewIds
  <2>3. CASE i \notin DOMAIN tokens
    BY <1>1, <2>1, <2>3 DEF NewIds
  <2> QED BY <2>2, <2>3
<1> QED BY <1>1, <1>3, <1>5

\* What it leaves of the users, roles and OAuth states.
LEMMA AccountsApplied ==
  ASSUME AuthConstants, TypeOK, NEW r, AccountTyped(r), AccountSound(r), r.act # None, Apply(r),
         ~ConstraintFails(r)
  PROVE  /\ users' \in [Users -> User \cup {None}]
         /\ roles' \in [Roles -> BOOLEAN]
         /\ oauth' \in [OAuthStates -> OAuthState]
         /\ \A u \in Users : u # r.user => users'[u] = users[u]
         /\ r.next = "issue_token_pair" /\ (r.act # "create_user" => Usable(r.user)) =>
              Usable(r.user)'
<1>0. /\ users \in [Users -> User \cup {None}]
      /\ roles \in [Roles -> BOOLEAN]
      /\ oauth \in [OAuthStates -> OAuthState]
  BY DEF TypeOK
<1>1. roles' \in [Roles -> BOOLEAN]
  BY <1>0 DEF Apply, AccountSound
<1>2. oauth' \in [OAuthStates -> OAuthState]
  BY <1>0 DEF Apply, AccountSound, OAuthState
<1>3. CASE r.act = "create_user"
  <2>1. r.user \in Users /\ users' = [users EXCEPT ![r.user] = r.set] /\ r.set \in User
    BY <1>3 DEF Apply, AccountSound, OnAccounts
  <2>2. Usable(r.user)'
    BY <1>0, <1>3, <2>1 DEF Usable, Exists, AuthConstants, AccountSound
  <2> QED BY <1>0, <1>1, <1>2, <2>1, <2>2
<1>4. CASE r.act \in {"update_user", "login", "google_profile"} /\ r.set # <<>>
  <2>1. PICK u \in Users : u = r.user
    BY <1>4 DEF AccountSound, OnAccounts
  <2>2. users[u] \in User
    BY <1>0, <1>4, <2>1 DEF ConstraintFails
  <2>3. PICK w : w = Written(users[u], r.set)
    OBVIOUS
  <2>4. w \in User
    BY <2>2, <2>3, WrittenAccount DEF AccountTyped
  <2>5. users' = [users EXCEPT ![u] = w]
    BY <1>4, <2>1, <2>3 DEF Apply
  <2>6. r.next = "issue_token_pair" =>
          /\ {"active", "locked", "deleted"} \cap DOMAIN r.set = {}
          /\ r.act # "create_user"
    BY <1>4 DEF AccountSound
  <2>7. r.next = "issue_token_pair" =>
          w.active = users[u].active /\ w.locked = users[u].locked /\ w.deleted = users[u].deleted
    BY <2>2, <2>3, <2>6, WrittenAccount DEF AccountTyped
  <2>8. r.next = "issue_token_pair" /\ Usable(u) => Usable(u)'
    BY <1>0, <2>4, <2>5, <2>7 DEF Usable, Exists, AuthConstants
  <2> QED BY <1>0, <1>1, <1>2, <2>1, <2>4, <2>5, <2>6, <2>8
<1>5. CASE r.act = "delete_user"
  <2>1. r.user \in Users /\ users' = [users EXCEPT ![r.user] = None]
    BY <1>5 DEF Apply, AccountSound, OnAccounts
  <2>2. r.next # "issue_token_pair"
    BY <1>5 DEF AccountSound, AuthConstants, Acts
  <2> QED BY <1>0, <1>1, <1>2, <2>1, <2>2
<1>6. CASE /\ r.act # "create_user" /\ r.act # "delete_user"
           /\ ~(r.act \in {"update_user", "login", "google_profile"} /\ r.set # <<>>)
  <2>1. users' = users
    BY <1>6 DEF Apply
  <2> QED BY <1>0, <1>1, <1>2, <1>6, <2>1 DEF Usable, Exists
<1> QED BY <1>3, <1>4, <1>5, <1>6

LEMMA RolledBack ==
  ASSUME TypeOK, NEW r, AccountTyped(r), AccountSound(r), RollBack(r)
  PROVE  RowsKept /\ UNCHANGED users /\ \A u \in Users : ValidOf(u)' \subseteq ValidOf(u)
<1>0. /\ tokens \in Seq(RefreshToken) /\ Len(tokens) \in Nat
      /\ DOMAIN tokens = 1 .. Len(tokens)
      /\ \A i \in DOMAIN tokens :
           /\ tokens[i] = [user |-> tokens[i].user, status |-> tokens[i].status]
           /\ tokens[i] \in RefreshToken /\ tokens[i].user \in Users
  BY TokensFinite DEF RefreshToken
<1>1. /\ tokens' = [i \in DOMAIN tokens |-> tokens'[i]]
      /\ \A i \in DOMAIN tokens :
           tokens'[i] = [user |-> tokens[i].user,
                         status |-> IF i = r.inserts THEN "lost" ELSE tokens[i].status]
  BY <1>0 DEF RollBack
<1>2. \A i \in DOMAIN tokens :
        /\ tokens'[i] \in RefreshToken /\ tokens'[i].user = tokens[i].user
        /\ tokens'[i].status = "valid" => tokens[i].status = "valid"
  BY <1>0, <1>1 DEF RefreshToken, TokenStatus
<1>3. tokens' \in Seq(RefreshToken) /\ DOMAIN tokens' = DOMAIN tokens
  BY <1>0, <1>1, <1>2
<1>4. RowsKept
  BY <1>2, <1>3 DEF RowsKept, RollBack, TypeOK
<1> QED BY <1>2, <1>3, <1>4 DEF RollBack, ValidOf

-----------------------------------------------------------------------------
(* The steps.                                                              *)

LEMMA StateFacts ==
  ASSUME AuthConstants, AuthInv
  PROVE  /\ TypeOK /\ SessionLimitHolds /\ MaxSessions \in Nat
         /\ \A s \in Sessions :
              /\ AccountTyped(req[s]) /\ AccountSound(req[s])
              /\ req[s].user \notin crossed => AccountFresh(req[s])
  BY DEF AuthInv, AccountRecordsInv, TypeOK, AccountTyped, AuthConstants

LEMMA HandlerStep ==
  ASSUME AuthConstants, AuthInv, Next, NEW s \in Sessions, NEW r, Prepared(s, r), Good(r)
  PROVE  AuthInv'
<1>1. /\ UNCHANGED <<users, roles, tokens, oauth>>
      /\ req' = [req EXCEPT ![s] = r]
  BY DEF Prepared, db
<1>2. RowsKept
  BY <1>1, StateFacts DEF RowsKept, TypeOK
<1>3. \A u \in Users : users'[u] = users[u] /\ ValidOf(u)' \subseteq ValidOf(u)
  BY <1>1 DEF ValidOf
<1>4. AccountTyped(r)' /\ AccountSound(r)'
  BY <1>2, SoundKept DEF Good
<1>5. r.user \notin crossed => AccountFresh(r)'
  BY <1>3, StateFacts, FreshKept DEF Good
<1>6. \A u \in Users \ crossed : Cardinality(ValidOf(u)') <= MaxSessions
  BY <1>3, StateFacts, FewerValid
<1> QED BY <1>1, <1>2, <1>3, <1>4, <1>5, <1>6, SessionStep

LEMMA IssueStep ==
  ASSUME AuthConstants, AuthInv, Next, NEW s \in Sessions, IssueTokenPair(s)
  PROVE  AuthInv' /\ \A u \in Users : ValidOf(u)' \subseteq ValidOf(u)
<1> DEFINE new == Len(tokens) + 1
<1>0. /\ tokens \in Seq(RefreshToken) /\ Len(tokens) \in Nat
      /\ DOMAIN tokens = 1 .. Len(tokens)
      /\ \A u \in Users : ValidOf(u) \subseteq DOMAIN tokens
  BY TokensFinite, StateFacts
<1>1. PICK u \in Users : u = req[s].user
  BY StateFacts DEF IssueTokenPair, AccountSound
<1>2. PICK old : old = OverLimit(ValidOf(u), new)
  OBVIOUS
<1>3. PICK r : r = [Idle EXCEPT !.act = "issue_token_pair", !.user = u,
                                !.inserts = new, !.revokes = old]
  OBVIOUS
<1>4. /\ req[s].act = None /\ req[s].next = "issue_token_pair"
      /\ tokens' = Append(tokens, [user |-> u, status |-> "flushed"])
      /\ req' = [req EXCEPT ![s] = r]
      /\ UNCHANGED <<users, roles, oauth>>
  BY <1>1, <1>2, <1>3 DEF IssueTokenPair
<1>5. /\ r.act = "issue_token_pair" /\ r.user = u /\ DOMAIN r.set = {} /\ r.role = None
      /\ r.inserts = new /\ r.revokes = old /\ r.state = None /\ r.next = None
  BY <1>3 DEF Idle
<1>6. old \subseteq ValidOf(u) /\ \A i \in old : i \in DOMAIN tokens /\ tokens[i].user = u
  BY <1>2 DEF OverLimit, ValidOf
<1>7. [user |-> u, status |-> "flushed"] \in RefreshToken
  BY DEF RefreshToken, TokenStatus
<1>8. /\ tokens' \in Seq(RefreshToken) /\ DOMAIN tokens' = DOMAIN tokens \cup {new}
      /\ new \notin DOMAIN tokens /\ new # 0
      /\ \A i \in DOMAIN tokens : tokens'[i] = tokens[i]
      /\ tokens'[new].user = u /\ tokens'[new].status = "flushed"
  BY <1>0, <1>4, <1>7
<1> HIDE DEF new
<1>9. RowsKept
  BY <1>4, <1>8, StateFacts DEF RowsKept, TypeOK
<1>10. \A v \in Users : users'[v] = users[v] /\ ValidOf(v)' \subseteq ValidOf(v)
  BY <1>4, <1>8 DEF ValidOf
<1>11. AccountTyped(r)'
  BY <1>5, <1>6, <1>8 DEF AccountTyped, Columns, Acts
<1>12. AccountSound(r)'
  BY <1>5, <1>6, <1>8 DEF AuthConstants, AccountSound, Acts, OnAccounts, OnTokens
<1>13. ASSUME u \notin crossed PROVE AccountFresh(r)'
  <2>1. Usable(u)
    BY <1>1, <1>4, <1>13, StateFacts DEF AccountFresh, AuthConstants, Acts
  <2>2. Usable(u)'
    BY <1>4, <2>1 DEF Usable, Exists
  <2>3. Cardinality(ValidOf(u) \ old) < MaxSessions
    BY <1>0, <1>2, RoomUnderLimit DEF new
  <2>4. Cardinality(ValidOf(u)' \ old) < MaxSessions
    <3>1. PICK S : S = ValidOf(u) \ old
      OBVIOUS
    <3>2. PICK left : left = ValidOf(u)' \ old
      OBVIOUS
    <3>3. IsFiniteSet(S) /\ Cardinality(S) \in Nat
      BY <1>0, <3>1, TokensFinite, StateFacts
    <3>4. left \subseteq S
      BY <1>10, <3>1, <3>2
    <3>5. Cardinality(left) \in Nat /\ Cardinality(left) <= Cardinality(S)
      BY <3>3, <3>4, FS_Subset, FS_CardinalityType
    <3> QED BY <2>3, <3>1, <3>2, <3>3, <3>5, StateFacts
  <2> QED BY <1>5, <2>2, <2>4 DEF AuthConstants, AccountFresh, Issues, Acts
<1>14. \A v \in Users \ crossed : Cardinality(ValidOf(v)') <= MaxSessions
  BY <1>10, StateFacts, FewerValid
<1> QED BY <1>4, <1>5, <1>9, <1>10, <1>11, <1>12, <1>13, <1>14, SessionStep

LEMMA AbortStep ==
  ASSUME AuthConstants, AuthInv, Next, NEW s \in Sessions,
         RollBack(req[s]), req' = [req EXCEPT ![s] = Idle]
  PROVE  AuthInv' /\ \A u \in Users : ValidOf(u)' \subseteq ValidOf(u)
<1>1. RowsKept /\ UNCHANGED users /\ \A u \in Users : ValidOf(u)' \subseteq ValidOf(u)
  BY RolledBack, StateFacts
<1>2. PICK r : r = Idle
  OBVIOUS
<1>3. AccountTyped(r) /\ AccountSound(r) /\ AccountFresh(r) /\ r.user \notin Users
  BY <1>2, AccountIdle DEF AuthConstants
<1>4. AccountTyped(r)' /\ AccountSound(r)' /\ AccountFresh(r)'
  BY <1>1, <1>3, SoundKept, FreshKept, StateFacts
<1>5. \A u \in Users \ crossed : Cardinality(ValidOf(u)') <= MaxSessions
  BY <1>1, StateFacts, FewerValid
<1> QED BY <1>1, <1>2, <1>4, <1>5, SessionStep

\* What the code goes on with after a commit.
LEMMA ContinuesGood ==
  ASSUME AuthConstants, TypeOK, NEW r, AccountTyped(r), AccountSound(r), r.act # None, Apply(r),
         ~ConstraintFails(r), RowsKept, NEW x, x = Continues(r)
  PROVE  /\ AccountTyped(x)' /\ AccountSound(x)'
         /\ (r.next = "issue_token_pair" => Usable(r.user)') => AccountFresh(x)'
         /\ x.user \in {r.user, None}
<1>1. CASE r.act = "log_deletion"
  <2>1. x = [Idle EXCEPT !.act = "delete_user", !.user = r.user]
    <3>1. r.next = None
      BY <1>1 DEF AccountTyped, AccountSound, AuthConstants, Acts
    <3> QED BY <1>1, <3>1 DEF Continues
  <2>2. /\ x.act = "delete_user" /\ x.user = r.user /\ DOMAIN x.set = {} /\ x.role = None
        /\ x.inserts = 0 /\ x.revokes = {} /\ x.state = None /\ x.next = None
    BY <2>1 DEF Idle
  <2>3. AccountTyped(x) /\ AccountSound(x)
    BY <1>1, <2>2 DEF AuthConstants, AccountTyped, Columns, AccountSound, Acts, OnAccounts, OnTokens
  <2>4. AccountFresh(x)'
    BY <2>2 DEF AuthConstants, AccountFresh, Issues, Acts
  <2> QED BY <2>2, <2>3, <2>4, SoundKept
<1>2. CASE r.act # "log_deletion" /\ r.next # None
  <2>1. x = Waiting(r.next, r.user)
    BY <1>2 DEF Continues
  <2>2. /\ x.act = None /\ x.user = r.user /\ DOMAIN x.set = {} /\ x.role = None
        /\ x.inserts = 0 /\ x.revokes = {} /\ x.state = None /\ x.next = r.next
    BY <2>1 DEF Idle, Waiting
  <2>3. AccountTyped(x)
    BY <1>2, <2>2 DEF AccountTyped, Columns
  <2>4. AccountSound(x)
    BY <1>2, <2>2 DEF AuthConstants, AccountSound, Acts, OnAccounts, OnTokens
  <2>5. (r.next = "issue_token_pair" => Usable(r.user)') => AccountFresh(x)'
    BY <2>2 DEF AuthConstants, AccountFresh, Issues, Acts, Usable, Exists
  <2> QED BY <2>2, <2>3, <2>4, <2>5, SoundKept
<1>3. CASE r.act # "log_deletion" /\ r.next = None
  <2>1. x = Idle
    BY <1>3 DEF Continues
  <2>2. x.user = None /\ x.act = None /\ x.next = None /\ AccountTyped(x) /\ AccountSound(x)
    BY <2>1, AccountIdle
  <2>3. AccountFresh(x)'
    BY <2>2 DEF AuthConstants, AccountFresh, Issues, Acts
  <2> QED BY <2>2, <2>3, SoundKept
<1> QED BY <1>1, <1>2, <1>3

\* A commit that gives its user a token leaves no more than the limit.
LEMMA LimitApplied ==
  ASSUME AuthConstants, TypeOK, SessionLimitHolds, NEW r, AccountTyped(r), AccountSound(r),
         AccountFresh(r), r.act # None, Apply(r), r.user \in Users \ crossed
  PROVE  Cardinality(ValidOf(r.user)') <= MaxSessions
<1>0. MaxSessions \in Nat
  BY DEF AuthConstants
<1>1. ValidOf(r.user)' \subseteq (ValidOf(r.user) \ r.revokes) \cup NewIds(r)
  BY ValidApplied
<1>2. CASE Issues(r)
  <2>1. PICK k : NewIds(r) = {k}
    BY <1>2 DEF NewIds, Issues
  <2>2. PICK left : left = ValidOf(r.user) \ r.revokes
    OBVIOUS
  <2>3. PICK now : now = ValidOf(r.user)'
    OBVIOUS
  <2>4. PICK all : all = left \cup {k}
    OBVIOUS
  <2>5. IsFiniteSet(left) /\ Cardinality(left) \in Nat /\ Cardinality(left) < MaxSessions
    <3>1. left \in SUBSET DOMAIN tokens
      BY <2>2, TokensFinite
    <3> QED BY <1>2, <2>2, <3>1, TokensFinite DEF AccountFresh
  <2>6. IsFiniteSet(all) /\ Cardinality(all) <= MaxSessions
    BY <1>0, <2>4, <2>5, FS_AddElement
  <2>7. now \subseteq all
    BY <1>1, <2>1, <2>2, <2>3, <2>4
  <2>8. Cardinality(now) \in Nat /\ Cardinality(all) \in Nat
        /\ Cardinality(now) <= Cardinality(all)
    BY <2>6, <2>7, FS_Subset, FS_CardinalityType
  <2> QED BY <1>0, <2>3, <2>6, <2>8
<1>3. CASE ~Issues(r)
  <2>1. NewIds(r) = {}
    BY <1>3 DEF NewIds, Issues
  <2>2. PICK u \in Users \ crossed : u = r.user
    OBVIOUS
  <2>3. ValidOf(u)' \subseteq ValidOf(u)
    BY <1>1, <2>1, <2>2 DEF ValidOf
  <2>4. Cardinality(ValidOf(u)') <= MaxSessions
    BY <1>0, <2>3, FewerValid
  <2> QED BY <2>2, <2>4 DEF ValidOf
<1> QED BY <1>2, <1>3

LEMMA CommitStep ==
  ASSUME AuthConstants, AuthInv, Next, NEW s \in Sessions, Commit(s)
  PROVE  AuthInv'
<1>1. PICK r : r = req[s]
  OBVIOUS
<1>2. /\ r.act # None /\ TypeOK /\ SessionLimitHolds /\ AccountTyped(r) /\ AccountSound(r)
      /\ r.user \notin crossed => AccountFresh(r)
  BY <1>1, StateFacts DEF Commit
<1>3. CASE ConstraintFails(r)
  <2>1. RollBack(req[s]) /\ req' = [req EXCEPT ![s] = Idle]
    BY <1>1, <1>3 DEF Commit, Continues
  <2> QED BY <2>1, AbortStep
<1>4. CASE ~ConstraintFails(r)
  <2>1. PICK x : x = Continues(r)
    OBVIOUS
  <2>2. Apply(r) /\ req' = [req EXCEPT ![s] = x]
    BY <1>1, <1>4, <2>1 DEF Commit
  <2>3. RowsKept
    BY <1>2, <1>4, <2>2, TokensApplied, AccountsApplied DEF RowsKept
  <2>4. \A u \in Users : u # r.user => users'[u] = users[u] /\ ValidOf(u)' \subseteq ValidOf(u)
    BY <1>2, <1>4, <2>2, ValidApplied, AccountsApplied
  <2>5. /\ AccountTyped(x)' /\ AccountSound(x)' /\ x.user \in {r.user, None}
        /\ (r.next = "issue_token_pair" => Usable(r.user)') => AccountFresh(x)'
    BY <1>2, <1>4, <2>1, <2>2, <2>3, ContinuesGood
  <2>6. ASSUME x.user \notin crossed PROVE AccountFresh(x)'
    <3>1. CASE x.user = r.user
      <4>1. r.next = "issue_token_pair" /\ r.act # "create_user" => Usable(r.user)
        BY <1>2, <2>6, <3>1 DEF AccountFresh
      <4>2. r.next = "issue_token_pair" => Usable(r.user)'
        BY <1>2, <1>4, <2>2, <4>1, AccountsApplied
      <4> QED BY <2>5, <4>2
    <3>2. CASE x.user = None
      <4>1. AccountSound(x)' /\ None \notin Users
        BY <2>5 DEF AuthConstants
      <4> QED BY <3>2, <4>1 DEF AccountSound, AccountFresh, Issues, OnAccounts, OnTokens
    <3> QED BY <2>5, <3>1, <3>2
  <2>7. \A u \in Users \ crossed : u = r.user => Cardinality(ValidOf(u)') <= MaxSessions
    <3> SUFFICES ASSUME NEW u \in Users \ crossed, u = r.user
                 PROVE  Cardinality(ValidOf(u)') <= MaxSessions
      OBVIOUS
    <3>1. Cardinality(ValidOf(r.user)') <= MaxSessions
      BY <1>2, <2>2, LimitApplied
    <3> QED BY <3>1 DEF ValidOf
  <2> QED BY <1>1, <2>2, <2>3, <2>4, <2>5, <2>6, <2>7, SessionStep
<1> QED BY <1>3, <1>4

LEMMA ExpireStep ==
  ASSUME AuthConstants, AuthInv, Next, Expire
  PROVE  AuthInv' /\ \A u \in Users : ValidOf(u)' \subseteq ValidOf(u)
<1>0. /\ tokens \in Seq(RefreshToken) /\ Len(tokens) \in Nat
      /\ DOMAIN tokens = 1 .. Len(tokens)
      /\ \A i \in DOMAIN tokens : tokens[i] \in RefreshToken
      /\ TypeOK /\ SessionLimitHolds /\ MaxSessions \in Nat /\ AccountRecordsInv
  BY TokensFinite, StateFacts DEF AuthInv
<1>1. UNCHANGED <<users, roles, req>> /\ oauth' \in [OAuthStates -> OAuthState]
  BY StateFacts DEF Expire, TypeOK, OAuthState
<1>2. /\ tokens' \in Seq(RefreshToken) /\ DOMAIN tokens' = DOMAIN tokens
      /\ \A i \in DOMAIN tokens :
           /\ tokens'[i].user = tokens[i].user
           /\ tokens'[i].status \in {tokens[i].status, "expired"}
  <2>1. CASE UNCHANGED tokens
    BY <1>0, <2>1
  <2>2. CASE \E i \in DOMAIN tokens : tokens' = [tokens EXCEPT ![i].status = "expired"]
    <3>1. PICK k \in DOMAIN tokens : tokens' = [tokens EXCEPT ![k].status = "expired"]
      BY <2>2
    <3>2. PICK row : row = [tokens[k] EXCEPT !.status = "expired"]
      OBVIOUS
    <3>3. row \in RefreshToken /\ row.user = tokens[k].user /\ row.status = "expired"
      BY <1>0, <3>2 DEF RefreshToken, TokenStatus
    <3>4. tokens' = [tokens EXCEPT ![k] = row]
      BY <3>1, <3>2
    <3> QED BY <1>0, <3>3, <3>4
  <2> QED BY <2>1, <2>2 DEF Expire
<1>3. RowsKept
  BY <1>0, <1>1, <1>2 DEF RowsKept, TypeOK
<1>4. \A u \in Users : users'[u] = users[u] /\ ValidOf(u)' \subseteq ValidOf(u)
  BY <1>1, <1>2 DEF ValidOf
<1>5. OneRequestPerAccount' /\ crossed \subseteq crossed' /\ crossed' \subseteq Users
  BY <1>0, <1>1, NextCrossed DEF AccountRecordsInv
<1>6. ASSUME NEW s \in Sessions
      PROVE  /\ AccountTyped(req[s])' /\ AccountSound(req[s])'
             /\ (req[s].user \notin crossed)' => AccountFresh(req[s])'
  <2>1. PICK r : r = req[s]
    OBVIOUS
  <2>2. /\ AccountTyped(r) /\ AccountSound(r) /\ r = req'[s]
        /\ r.user \notin crossed => AccountFresh(r)
    BY <1>1, <2>1, StateFacts
  <2>3. AccountTyped(r)' /\ AccountSound(r)'
    BY <1>3, <2>2, SoundKept
  <2>4. r.user \notin crossed => AccountFresh(r)'
    BY <1>0, <1>4, <2>2, FreshKept
  <2>5. AccountTyped(req[s])'
    BY <2>2, <2>3 DEF AccountTyped
  <2>6. AccountSound(req[s])'
    BY <2>2, <2>3 DEF AccountSound
  <2>7. (req[s].user \notin crossed)' => AccountFresh(req[s])'
    BY <1>5, <2>2, <2>4 DEF AccountFresh, Issues, Usable, Exists, ValidOf
  <2> QED BY <2>5, <2>6, <2>7
<1>7. TypeOK'
  BY <1>3, <1>5, <1>6 DEF RowsKept, TypeOK, AccountTyped
<1>8. SessionLimitHolds'
  <2> SUFFICES ASSUME NEW u \in Users, u \notin crossed'
               PROVE  Cardinality(ValidOf(u)') <= MaxSessions
    BY DEF SessionLimitHolds
  <2> QED BY <1>0, <1>4, <1>5, FewerValid
<1>9. req' = [s \in Sessions |-> req'[s]]
  BY <1>0, <1>1 DEF AccountRecordsInv
<1> QED BY <1>4, <1>5, <1>6, <1>7, <1>8, <1>9 DEF AuthInv, AccountRecordsInv

-----------------------------------------------------------------------------
(* The theorems.                                                           *)

LEMMA AuthStarts ==
  ASSUME AuthConstants, Init
  PROVE  AuthInv
<1>1. \A s \in Sessions : req[s] = Idle
  BY DEF Init
<1>2. \A s \in Sessions :
        /\ AccountTyped(req[s]) /\ AccountSound(req[s]) /\ AccountFresh(req[s])
        /\ req[s].user = None
  BY <1>1, AccountIdle
<1>3. TypeOK
  BY <1>2 DEF Init, TypeOK, AccountTyped, OAuthState
<1>4. \A u \in Users : ValidOf(u) = {}
  BY DEF Init, ValidOf
<1>5. SessionLimitHolds
  <2> SUFFICES ASSUME NEW u \in Users PROVE Cardinality(ValidOf(u)) <= MaxSessions
    BY DEF SessionLimitHolds
  <2>1. Cardinality(ValidOf(u)) = 0
    BY <1>4, FS_EmptySet
  <2> QED BY <2>1 DEF AuthConstants
<1>6. OneRequestPerAccount
  BY <1>2 DEF OneRequestPerAccount, AuthConstants
<1>7. req = [s \in Sessions |-> req[s]]
  BY DEF Init
<1> QED BY <1>2, <1>3, <1>5, <1>6, <1>7 DEF AuthInv, AccountRecordsInv

\* A step is one of these.
LEMMA AuthSteps ==
  ASSUME AuthConstants, AuthInv, Next
  PROVE  \/ Expire
         \/ \E s \in Sessions : IssueTokenPair(s)
         \/ \E s \in Sessions : \E r : Prepared(s, r) /\ Good(r)
         \/ \E s \in Sessions : Commit(s)
         \/ \E s \in Sessions : Abort(s)
<1>1. CASE \E s \in Sessions : UsersRequest(s) \/ AdminsRequest(s)
  BY <1>1, RequestPrepared
<1>2. CASE ~\E s \in Sessions : UsersRequest(s) \/ AdminsRequest(s)
  BY <1>2 DEF Next
<1> QED BY <1>1, <1>2

LEMMA AuthKept ==
  ASSUME AuthConstants, AuthInv, [Next]_vars
  PROVE  AuthInv'
<1>1. CASE Next
  <2>1. CASE Expire
    BY <1>1, <2>1, ExpireStep
  <2>2. CASE \E s \in Sessions : IssueTokenPair(s)
    BY <1>1, <2>2, IssueStep
  <2>3. CASE \E s \in Sessions : \E r : Prepared(s, r) /\ Good(r)
    BY <1>1, <2>3, HandlerStep
  <2>4. CASE \E s \in Sessions : Commit(s)
    BY <1>1, <2>4, CommitStep
  <2>5. CASE \E s \in Sessions : Abort(s)
    BY <1>1, <2>5, AbortStep DEF Abort
  <2> QED BY <1>1, <2>1, <2>2, <2>3, <2>4, <2>5, AuthSteps
<1>2. CASE UNCHANGED vars
  <2>1. UNCHANGED <<users, roles, tokens, oauth, req, crossed>>
    BY <1>2 DEF vars, db
  <2>2. \A u \in Users : ValidOf(u)' = ValidOf(u)
    BY <2>1 DEF ValidOf
  <2>3. TypeOK' /\ SessionLimitHolds' /\ OneRequestPerAccount'
    BY <2>1, <2>2 DEF AuthInv, AccountRecordsInv, TypeOK, SessionLimitHolds, OneRequestPerAccount
  <2>4. \A s \in Sessions : AccountSound(req[s])'
    BY <2>1 DEF AuthInv, AccountRecordsInv, AccountSound
  <2>5. \A s \in Sessions : (req[s].user \notin crossed)' => AccountFresh(req[s])'
    BY <2>1 DEF AuthInv, AccountFresh, Issues, Usable, Exists, ValidOf
  <2> QED BY <2>1, <2>3, <2>4, <2>5 DEF AuthInv, AccountRecordsInv
<1> QED BY <1>1, <1>2

LEMMA AuthInvariant == AuthConstants => (Spec => []AuthInv)
<1> SUFFICES ASSUME AuthConstants PROVE Spec => []AuthInv
  OBVIOUS
<1>1. Init => AuthInv
  BY AuthStarts
<1>2. AuthInv /\ [Next]_vars => AuthInv'
  BY AuthKept
<1> QED BY <1>1, <1>2, PTL DEF Spec

\* Every refresh token, pending request and OAuth state stays typed.
THEOREM TypeCorrect == AuthConstants => (Spec => []TypeOK)
<1>1. AuthInv => TypeOK
  BY DEF AuthInv, AccountRecordsInv
<1> QED BY <1>1, AuthInvariant, PTL

\* _enforce_active_session_limit, called by logins alone, suffices: a refresh
\* trades one valid token for another.
THEOREM SessionLimit == AuthConstants => (Spec => []SessionLimitHolds)
<1>1. AuthInv => SessionLimitHolds
  BY DEF AuthInv
<1> QED BY <1>1, AuthInvariant, PTL

\* Only a commit makes tokens valid or ends all of a user's sessions.
LEMMA OnlyCommits ==
  ASSUME AuthConstants, AuthInv, Next, ~\E s \in Sessions : Commit(s)
  PROVE  /\ \A u \in Users : ValidOf(u)' \subseteq ValidOf(u)
         /\ \A u \in Users : \A i \in ValidOf(u) : tokens'[i].status # "logout_all"
<1>1. ASSUME UNCHANGED tokens
      PROVE  /\ \A u \in Users : ValidOf(u)' \subseteq ValidOf(u)
             /\ \A i \in DOMAIN tokens : tokens'[i] = tokens[i]
  BY <1>1 DEF ValidOf
<1>2. TypeOK
  BY StateFacts
<1>3. ASSUME \A i \in DOMAIN tokens : tokens[i].status = "valid" => tokens'[i].status # "logout_all"
      PROVE  \A u \in Users : \A i \in ValidOf(u) : tokens'[i].status # "logout_all"
  BY <1>3 DEF ValidOf
<1>4. CASE Expire
  <2>1. \A i \in DOMAIN tokens : tokens[i].status = "valid" => tokens'[i].status # "logout_all"
    <3>1. CASE UNCHANGED tokens
      BY <3>1
    <3>2. CASE \E k \in DOMAIN tokens : tokens' = [tokens EXCEPT ![k].status = "expired"]
      <4>1. PICK k \in DOMAIN tokens : tokens' = [tokens EXCEPT ![k].status = "expired"]
        BY <3>2
      <4>2. tokens'[k] = [tokens[k] EXCEPT !.status = "expired"]
            /\ \A i \in DOMAIN tokens \ {k} : tokens'[i] = tokens[i]
        BY <4>1
      <4>3. tokens[k] \in RefreshToken
        BY <1>2, TokensFinite
      <4>4. tokens'[k].status = "expired"
        BY <4>2, <4>3 DEF RefreshToken
      <4> QED BY <4>2, <4>4
    <3> QED BY <1>4, <3>1, <3>2 DEF Expire
  <2> QED BY <1>3, <1>4, <2>1, ExpireStep
<1>5. CASE \E s \in Sessions : IssueTokenPair(s)
  <2>1. PICK s \in Sessions : IssueTokenPair(s)
    BY <1>5
  <2>2. \A i \in DOMAIN tokens : tokens'[i] = tokens[i]
    <3>1. tokens \in Seq(RefreshToken)
      BY <1>2, TokensFinite
    <3> QED BY <2>1, <3>1 DEF IssueTokenPair
  <2> QED BY <1>3, <2>1, <2>2, IssueStep
<1>6. CASE \E s \in Sessions : \E r : Prepared(s, r) /\ Good(r)
  BY <1>1, <1>3, <1>6 DEF Prepared, db
<1>7. CASE \E s \in Sessions : Abort(s)
  <2>1. PICK s \in Sessions : RollBack(req[s]) /\ req' = [req EXCEPT ![s] = Idle]
    BY <1>7 DEF Abort
  <2>2. \A i \in DOMAIN tokens : tokens[i].status = "valid" => tokens'[i].status # "logout_all"
    <3>1. \A i \in DOMAIN tokens : tokens[i] \in RefreshToken
      BY <1>2, TokensFinite
    <3>2. \A i \in DOMAIN tokens :
            tokens'[i] = IF i = req[s].inserts THEN [tokens[i] EXCEPT !.status = "lost"]
                         ELSE tokens[i]
      BY <2>1 DEF RollBack
    <3> QED BY <3>1, <3>2 DEF RefreshToken
  <2> QED BY <1>3, <2>1, <2>2, AbortStep
<1> QED BY <1>4, <1>5, <1>6, <1>7, AuthSteps

\* What the commit of a request alone does to a user's tokens.
LEMMA CommitOnTokens ==
  ASSUME AuthConstants, AuthInv, NEW s \in Sessions, Commit(s), NEW u \in Users \ crossed
  PROVE  /\ ValidOf(u)' \ ValidOf(u) # {} => Usable(u)
         /\ (\E i \in ValidOf(u) : tokens'[i].status = "logout_all") => ValidOf(u)' = {}
<1>1. PICK r : r = req[s]
  OBVIOUS
<1>2. /\ r.act # None /\ TypeOK /\ AccountTyped(r) /\ AccountSound(r)
      /\ r.user \notin crossed => AccountFresh(r)
  BY <1>1, StateFacts DEF Commit
<1>3. CASE ConstraintFails(r)
  <2>1. RollBack(r)
    BY <1>1, <1>3 DEF Commit
  <2>2. ValidOf(u)' \subseteq ValidOf(u)
    BY <1>2, <2>1, RolledBack
  <2>3. \A i \in DOMAIN tokens : tokens[i].status = "valid" => tokens'[i].status # "logout_all"
    <3>1. \A i \in DOMAIN tokens : tokens[i] \in RefreshToken
      BY <1>2, TokensFinite
    <3>2. \A i \in DOMAIN tokens :
            tokens'[i] = IF i = r.inserts THEN [tokens[i] EXCEPT !.status = "lost"] ELSE tokens[i]
      BY <2>1 DEF RollBack
    <3> QED BY <3>1, <3>2 DEF RefreshToken
  <2> QED BY <2>2, <2>3 DEF ValidOf
<1>4. CASE ~ConstraintFails(r)
  <2>1. Apply(r)
    BY <1>1, <1>4 DEF Commit
  <2>2. /\ u # r.user => ValidOf(u)' \subseteq ValidOf(u)
        /\ r.user \in Users =>
             ValidOf(r.user)' \subseteq (ValidOf(r.user) \ r.revokes) \cup NewIds(r)
        /\ \A i \in DOMAIN tokens :
             tokens'[i].status = "logout_all" =>
               tokens[i].status = "logout_all" \/ (i \in r.revokes /\ r.act = "logout_all")
    BY <1>2, <2>1, ValidApplied
  <2>3. u = r.user =>
          /\ ValidOf(u)' \subseteq (ValidOf(u) \ r.revokes) \cup NewIds(r)
          /\ AccountFresh(r)
    BY <1>2, <2>2 DEF ValidOf
  <2>4. ASSUME ValidOf(u)' \ ValidOf(u) # {} PROVE Usable(u)
    <3>1. u = r.user /\ NewIds(r) # {}
      BY <2>2, <2>3, <2>4
    <3> QED BY <2>3, <3>1 DEF NewIds, AccountFresh, Issues
  <2>5. ASSUME NEW i \in ValidOf(u), tokens'[i].status = "logout_all" PROVE ValidOf(u)' = {}
    <3>1. i \in r.revokes /\ r.act = "logout_all" /\ tokens[i].user = u
      BY <2>2, <2>5 DEF ValidOf
    <3>2. u = r.user
      BY <1>2, <3>1 DEF AccountSound
    <3>3. ValidOf(u) \subseteq r.revokes
      BY <2>3, <3>1, <3>2 DEF AccountFresh, ValidOf
    <3>4. NewIds(r) = {}
      BY <3>1 DEF NewIds
    <3> QED BY <2>3, <3>2, <3>3, <3>4
  <2> QED BY <2>4, <2>5
<1> QED BY <1>3, <1>4

\* Between authenticate_user, or refresh_token's checks, and the commit that
\* issues the token only another request can make the account unusable.
THEOREM IssuedUsable == AuthConstants => (Spec => IssuedToUsable)
<1> SUFFICES ASSUME AuthConstants PROVE Spec => IssuedToUsable
  OBVIOUS
<1>1. AuthInv /\ [Next]_vars =>
        [\A u \in Users \ crossed : ValidOf(u)' \ ValidOf(u) # {} =>
           Exists(u) /\ users[u].active /\ ~users[u].locked]_vars
  <2> SUFFICES ASSUME AuthInv, Next, NEW u \in Users \ crossed, ValidOf(u)' \ ValidOf(u) # {}
               PROVE  Exists(u) /\ users[u].active /\ ~users[u].locked
    OBVIOUS
  <2>1. \E s \in Sessions : Commit(s)
    BY OnlyCommits
  <2> QED BY <2>1, CommitOnTokens DEF Usable
<1> QED BY <1>1, AuthInvariant, PTL DEF Spec, IssuedToUsable

\* logout_all revokes what it read; only another request of the same account
\* can add a token before it commits.
THEOREM LogoutAllEnds == AuthConstants => (Spec => LogoutAllEndsSessions)
<1> SUFFICES ASSUME AuthConstants PROVE Spec => LogoutAllEndsSessions
  OBVIOUS
<1>1. AuthInv /\ [Next]_vars =>
        [\A u \in Users \ crossed :
           (\E i \in ValidOf(u) : tokens'[i].status = "logout_all") => ValidOf(u)' = {}]_vars
  <2> SUFFICES ASSUME AuthInv, Next, NEW u \in Users \ crossed,
                      NEW i \in ValidOf(u), tokens'[i].status = "logout_all"
               PROVE  ValidOf(u)' = {}
    OBVIOUS
  <2>1. \E s \in Sessions : Commit(s)
    BY OnlyCommits
  <2> QED BY <2>1, CommitOnTokens
<1> QED BY <1>1, AuthInvariant, PTL DEF Spec, LogoutAllEndsSessions
=============================================================================
