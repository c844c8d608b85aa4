--------------------------------- MODULE Auth ---------------------------------
(***************************************************************************)
(* Logins, refresh tokens, OAuth states, users and roles:                  *)
(* app/api/v1/endpoints/auth.py, users.py and roles.py, and                *)
(* app/services/auth_service.py.                                           *)
(*                                                                         *)
(* A request is a chain of transactions of one database session.  Each is  *)
(* two steps: the code up to the commit, which reads, checks and leaves in *)
(* req[s] what is about to be written, and Commit; what the code does      *)
(* after a commit is in Continues.  A request that is refused writes       *)
(* nothing and is no step; any may be, by the rate limiter.                *)
(***************************************************************************)
EXTENDS Naturals, Sequences, FiniteSets

CONSTANTS
  Sessions,     \* request sessions that may be open at once
  None,
  Users,        \* user names (and their e-mail addresses) clients give
  Roles,        \* existing roles
  OAuthStates,  \* state values a Google login is started with
  MaxFailed,    \* MAX_FAILED_ATTEMPTS: 5 in the code
  MaxSessions,  \* AUTH_MAX_ACTIVE_SESSIONS: 5 by default
  MaxTokens,    \* bound on the rows of refresh_tokens
  MaxCount      \* bound on a count of failures, which a lifted lock leaves

VARIABLES
  users,    \* rows of the users, None before the INSERT and after a DELETE
  roles,    \* per role, is_active
  tokens,   \* refresh_tokens, in id order
  oauth,    \* the oauth_states
  req,      \* per session, the transaction about to commit
  crossed   \* history: users two requests dealt with at once

db == <<users, roles, tokens, oauth>>
vars == <<db, req, crossed>>

Provider == {"local", "google", "both"}
User == [ role : Roles, provider : Provider, active : BOOLEAN, locked : BOOLEAN,
          failed : Nat, deleted : BOOLEAN ]

\* flushed: in a transaction that is open; lost: in one that was rolled back
\* (its id stays used).  The others: valid, or why it is not.
TokenStatus == {"flushed", "lost", "valid", "expired", "rotated", "session_limit", "logout",
                "logout_all"}
RefreshToken == [user : Users, status : TokenStatus]
OAuthState == {"unused", "issued", "consumed", "expired"}

\* A transaction changes columns of a user or a role, inserts a token and
\* revokes others, or changes an OAuth state.
Acts == {"create_user", "update_user", "delete_user", "log_deletion", "update_role",
         "login", "google_profile", "issue_token_pair", "refresh_token", "logout",
         "logout_all", "google_login", "consume_state"}

Idle == [ act |-> None, user |-> None, set |-> <<>>, role |-> None,
          inserts |-> 0, revokes |-> {}, state |-> None, next |-> None ]

\* Between two transactions of a request.
Waiting(next, u) == [Idle EXCEPT !.next = next, !.user = u]

Columns(set) ==
  \A c \in DOMAIN set :
    CASE c = "role" -> set[c] \in Roles
      [] c = "provider" -> set[c] \in Provider
      [] c \in {"active", "locked", "deleted"} -> set[c] \in BOOLEAN
      [] c = "failed" -> set[c] \in Nat
      [] OTHER -> FALSE

TypeOK ==
  /\ users \in [Users -> User \cup {None}]
  /\ roles \in [Roles -> BOOLEAN]
  /\ tokens \in Seq(RefreshToken)
  /\ oauth \in [OAuthStates -> OAuthState]
  /\ \A s \in Sessions :
       /\ req[s].act \in Acts \cup {None}
       /\ req[s].user \in Users \cup {None}
       /\ Columns(req[s].set)
       /\ req[s].role \in Roles \cup {None}
       /\ req[s].inserts \in {0} \cup DOMAIN tokens
       /\ req[s].revokes \subseteq DOMAIN tokens
       /\ req[s].state \in OAuthStates \cup {None}
       /\ req[s].next \in {None, "issue_token_pair", "google_profile"}
  /\ crossed \subseteq Users

Init ==
  /\ users = [u \in Users |-> None]
  /\ roles = [r \in Roles |-> TRUE]
  /\ tokens = <<>>
  /\ oauth = [o \in OAuthStates |-> "unused"]
  /\ req = [s \in Sessions |-> Idle]
  /\ crossed = {}

-----------------------------------------------------------------------------
Pend(s, r) ==
  /\ req[s] = Idle
  /\ req' = [req EXCEPT ![s] = r]
  /\ UNCHANGED db

\* The ORM writes the columns that differ from the row it read.
Changed(row, new) == [c \in {d \in DOMAIN new : new[d] # row[d]} |-> new[c]]

\* The row after an UPDATE of the columns of set.
Written(row, set) == [c \in DOMAIN row |-> IF c \in DOMAIN set THEN set[c] ELSE row[c]]

Exists(u) == users[u] # None /\ ~users[u].deleted

\* Mutant: the count of failures has no default.
WithoutDefault(role, provider) ==
  [ role |-> role, provider |-> provider, active |-> TRUE, locked |-> FALSE,
    failed |-> None, deleted |-> FALSE ]

\* The row of a new account.
NewUser(role, provider) ==
  [ role |-> role, provider |-> provider, active |-> TRUE, locked |-> FALSE,
    failed |-> 0, deleted |-> FALSE ]

\* Mutant: the account is not looked at again.
AnyUser(u) == users[u] # None

\* refresh_token: the user's state, not the role's
MayRefresh(u) == Exists(u) /\ users[u].active /\ ~users[u].locked

\* get_current_user, for a request of the user's own
Authorized(u) ==
  Exists(u) /\ users[u].active /\ ~users[u].locked /\ roles[users[u].role]

-----------------------------------------------------------------------------
(* Tokens.                                                                 *)

ValidOf(u) == {i \in DOMAIN tokens : tokens[i].user = u /\ tokens[i].status = "valid"}

\* Mutant: the limit is enforced before the flush.
BeforeFlush(ids, new) ==
  {i \in ids : Cardinality({j \in ids : j > i}) >= MaxSessions}

\* _enforce_active_session_limit: all but the newest, the new one included
OverLimit(ids, new) ==
  {i \in ids : Cardinality({j \in ids \cup {new} : j > i}) >= MaxSessions}

Room == Len(tokens) + Cardinality({s \in Sessions : req[s].act = "refresh_token"}) < MaxTokens

\* The last transaction of a login.  The user is not read again, but has to
\* be there for the flush, which gives the token its id; other sessions see
\* the row from the commit on.
IssueTokenPair(s) ==
  /\ req[s].act = None /\ req[s].next = "issue_token_pair"
  /\ LET u == req[s].user
         new == Len(tokens) + 1
     IN /\ users[u] # None /\ Room
        /\ tokens' = Append(tokens, [user |-> u, status |-> "flushed"])
        /\ req' = [req EXCEPT ![s] = [Idle EXCEPT !.act = "issue_token_pair", !.user = u,
                                        !.inserts = new, !.revokes = OverLimit(ValidOf(u), new)]]
        /\ UNCHANGED <<users, roles, oauth>>

\* The new token is inserted at the commit; the session limit is not enforced.
Refresh(s) ==
  \E i \in DOMAIN tokens :
    /\ tokens[i].status = "valid"
    /\ MayRefresh(tokens[i].user) /\ Room
    /\ Pend(s, [Idle EXCEPT !.act = "refresh_token", !.user = tokens[i].user, !.revokes = {i}])

Logout(s) ==
  \E i \in DOMAIN tokens :
    /\ tokens[i].status = "valid" /\ Authorized(tokens[i].user)
    /\ Pend(s, [Idle EXCEPT !.act = "logout", !.user = tokens[i].user, !.revokes = {i}])

\* Mutant: the newest session, taken for the caller's, is kept.
EndsOthers(u) == {i \in ValidOf(u) : \E j \in ValidOf(u) : j > i}

Ends(u) == ValidOf(u)

LogoutAll(s) ==
  \E u \in Users :
    /\ Authorized(u) /\ ValidOf(u) # {}
    /\ Pend(s, [Idle EXCEPT !.act = "logout_all", !.user = u, !.revokes = Ends(u)])

-----------------------------------------------------------------------------
(* Logins.                                                                 *)

\* authenticate_user: a wrong password counts, a right one clears the count.
Login(s) ==
  \E u \in Users, right \in BOOLEAN :
    /\ Authorized(u) /\ users[u].provider # "google"
    /\ LET n == users[u].failed + 1 IN
         /\ right \/ n <= MaxCount
         /\ Pend(s, [Idle EXCEPT !.act = "login", !.user = u,
                       !.set = Changed(users[u],
                                 IF right THEN [failed |-> 0]
                                 ELSE IF n >= MaxFailed THEN [failed |-> n, locked |-> TRUE]
                                 ELSE [failed |-> n]),
                       !.next = IF right THEN "issue_token_pair" ELSE None])

GoogleLogin(s) ==
  \E o \in OAuthStates :
    Pend(s, [Idle EXCEPT !.act = "google_login", !.state = o])

\* google_callback up to its first commit
ConsumeState(s) ==
  \E o \in OAuthStates :
    /\ oauth[o] = "issued"
    /\ Pend(s, [Idle EXCEPT !.act = "consume_state", !.state = o, !.next = "google_profile"])

\* google_callback up to its second commit, for the account Google names:
\* one that exists keeps its role, unless its address is an administrator's ...
GoogleProfile(s) ==
  \E u \in Users, admin \in BOOLEAN, role \in Roles :
    /\ req[s].act = None /\ req[s].next = "google_profile"
    /\ Exists(u) /\ users[u].active /\ ~users[u].locked
    /\ LET new == IF admin THEN [failed |-> 0, role |-> role, provider |-> "both"]
                  ELSE IF users[u].provider = "local" THEN [failed |-> 0, provider |-> "both"]
                  ELSE [failed |-> 0]
       IN req' = [req EXCEPT ![s] = [Idle EXCEPT !.act = "google_profile", !.user = u,
                    !.set = Changed(users[u], new), !.next = "issue_token_pair"]]
    /\ UNCHANGED db

\* ... or is created; role: Admin for the configured addresses, else Sales.
GoogleProvision(s) ==
  \E u \in Users, admin \in BOOLEAN, role \in Roles :
    /\ req[s].act = None /\ req[s].next = "google_profile"
    /\ ~Exists(u)
    /\ req' = [req EXCEPT ![s] = [Idle EXCEPT !.act = "create_user", !.user = u,
                 !.set = NewUser(role, IF admin THEN "both" ELSE "google"),
                 !.next = "issue_token_pair"]]
    /\ UNCHANGED db

-----------------------------------------------------------------------------
(* What an administrator does, whose own account is none of Users.         *)

CreateUser(s) ==
  \E u \in Users, role \in Roles, provider \in Provider :
    /\ users[u] = None
    /\ Pend(s, [Idle EXCEPT !.act = "create_user", !.user = u,
                            !.set = NewUser(role, provider)])

OnUser(s, u, new) ==
  /\ Exists(u)
  /\ Pend(s, [Idle EXCEPT !.act = "update_user", !.user = u, !.set = Changed(users[u], new)])

\* A lock lifted here leaves the count of failures.
UpdateUser(s) ==
  \E u \in Users :
    \/ \E role \in Roles : OnUser(s, u, [role |-> role])
    \/ \E active \in BOOLEAN : OnUser(s, u, [active |-> active])
    \/ \E locked \in BOOLEAN : OnUser(s, u, [locked |-> locked])

UnlockUser(s) == \E u \in Users : OnUser(s, u, [locked |-> FALSE, failed |-> 0])
DisableUser(s) == \E u \in Users : OnUser(s, u, [active |-> FALSE])
EnableUser(s) == \E u \in Users : OnUser(s, u, [active |-> TRUE])
SoftDeleteUser(s) == \E u \in Users : OnUser(s, u, [deleted |-> TRUE, active |-> FALSE])

\* The audit entry is committed first, the row goes in a second transaction.
DeleteUser(s) ==
  \E u \in Users :
    users[u] # None /\ Pend(s, [Idle EXCEPT !.act = "log_deletion", !.user = u])

\* update_role, deactivate_role
UpdateRole(s) ==
  \E r \in Roles :
    Pend(s, [Idle EXCEPT !.act = "update_role", !.role = r, !.set = [active |-> ~roles[r]]])

-----------------------------------------------------------------------------
\* unique(username), unique(email), unique(state), refresh_tokens.user_id
ConstraintFails(r) ==
  \/ r.act = "create_user" /\ users[r.user] # None
  \/ r.act = "google_login" /\ oauth[r.state] # "unused"
  \/ r.act = "delete_user" /\ \E i \in DOMAIN tokens :
                                tokens[i].user = r.user /\ tokens[i].status # "lost"
  \* an UPDATE of no row
  \/ r.act \in {"update_user", "login", "google_profile"} /\ r.set # <<>> /\ users[r.user] = None

\* revoked_reason
Reason(act) ==
  CASE act = "refresh_token" -> "rotated"
    [] act = "issue_token_pair" -> "session_limit"
    [] OTHER -> act

Apply(r) ==
  /\ users' = CASE r.act = "create_user" -> [users EXCEPT ![r.user] = r.set]
                [] r.act \in {"update_user", "login", "google_profile"} /\ r.set # <<>> ->
                     [users EXCEPT ![r.user] = Written(@, r.set)]
                [] r.act = "delete_user" -> [users EXCEPT ![r.user] = None]
                [] OTHER -> users
  /\ roles' = IF r.act = "update_role" THEN [roles EXCEPT ![r.role] = r.set.active] ELSE roles
  /\ tokens' =
       [i \in DOMAIN tokens |->
          IF i \in r.revokes THEN [tokens[i] EXCEPT !.status = Reason(r.act)]
          ELSE IF i = r.inserts THEN [tokens[i] EXCEPT !.status = "valid"]
          ELSE tokens[i]]
       \o IF r.act = "refresh_token" THEN <<[user |-> r.user, status |-> "valid"]>> ELSE <<>>
  /\ oauth' = CASE r.act = "google_login" -> [oauth EXCEPT ![r.state] = "issued"]
                [] r.act = "consume_state" -> [oauth EXCEPT ![r.state] = "consumed"]
                [] OTHER -> oauth

\* What was flushed is gone.
RollBack(r) ==
  /\ tokens' = [i \in DOMAIN tokens |->
                  IF i = r.inserts THEN [tokens[i] EXCEPT !.status = "lost"] ELSE tokens[i]]
  /\ UNCHANGED <<users, roles, oauth>>

Continues(r) ==
  CASE ConstraintFails(r) -> Idle
    [] ~ConstraintFails(r) /\ r.act = "log_deletion" ->
         [Idle EXCEPT !.act = "delete_user", !.user = r.user]
    [] ~ConstraintFails(r) /\ r.next # None -> Waiting(r.next, r.user)
    [] OTHER -> Idle

Commit(s) ==
  /\ req[s].act # None
  /\ IF ConstraintFails(req[s]) THEN RollBack(req[s]) ELSE Apply(req[s])
  /\ req' = [req EXCEPT ![s] = Continues(req[s])]

\* The worker, its connection or the call to Google fails: a rollback.
Abort(s) ==
  /\ req[s] # Idle
  /\ RollBack(req[s])
  /\ req' = [req EXCEPT ![s] = Idle]

\* Refresh tokens and OAuth states age, the older first.
Expire ==
  \/ \E i \in DOMAIN tokens :
       /\ tokens[i].status = "valid"
       /\ \A j \in 1..(i - 1) : tokens[j].status # "valid"
       /\ tokens' = [tokens EXCEPT ![i].status = "expired"]
       /\ UNCHANGED <<users, roles, oauth, req>>
  \/ \E o \in OAuthStates :
       /\ oauth[o] = "issued"
       /\ oauth' = [oauth EXCEPT ![o] = "expired"]
       /\ UNCHANGED <<users, roles, tokens, req>>

UsersRequest(s) ==
  \/ Login(s) \/ Refresh(s) \/ Logout(s) \/ LogoutAll(s)
  \/ GoogleLogin(s) \/ ConsumeState(s) \/ GoogleProfile(s) \/ GoogleProvision(s)
  \/ IssueTokenPair(s)

AdminsRequest(s) ==
  \/ CreateUser(s) \/ UpdateUser(s) \/ UnlockUser(s) \/ DisableUser(s) \/ EnableUser(s)
  \/ SoftDeleteUser(s) \/ DeleteUser(s) \/ UpdateRole(s)

Next ==
  /\ Expire \/ \E s \in Sessions : UsersRequest(s) \/ AdminsRequest(s) \/ Commit(s) \/ Abort(s)
  /\ crossed' = crossed \cup
       {u \in Users : \E s, t \in Sessions :
                        s # t /\ req'[s].user = u /\ req'[t].user = u}

Spec == Init /\ [][Next]_vars

-----------------------------------------------------------------------------
\* "AUTH_MAX_ACTIVE_SESSIONS": a user no two requests dealt with at once has no
\* more valid refresh tokens than that, though only logins enforce it.
SessionLimitHolds ==
  \A u \in Users \ crossed : Cardinality(ValidOf(u)) <= MaxSessions

\* A refresh token is issued only for an account that exists, is active and
\* is not locked, unless another request deals with that account.
IssuedToUsable ==
  [][\A u \in Users \ crossed : ValidOf(u)' \ ValidOf(u) # {} =>
       Exists(u) /\ users[u].active /\ ~users[u].locked]_vars

\* "Logged out from all sessions": afterwards no refresh token of the user is
\* valid, unless another request deals with the account.
LogoutAllEndsSessions ==
  [][\A u \in Users \ crossed :
       (\E i \in ValidOf(u) : tokens'[i].status = "logout_all") => ValidOf(u)' = {}]_vars
=============================================================================
