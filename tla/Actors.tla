--------------------------------- MODULE Actors ---------------------------------
(***************************************************************************)
(* Users and agents of an instance: their roles, their grants in one       *)
(* vault, and the tokens that authenticate as them or that they minted.    *)
(*                                                                         *)
(* Sources: internal/server/handle_users.go, handle_agents.go,             *)
(* handle_vaults.go, handle_sessions.go, handle_auth.go, server.go and the *)
(* methods of internal/store/sqlite.go they call.                          *)
(*                                                                         *)
(* A worker is a goroutine serving one request; pc names its next store    *)
(* call.  Store calls are atomic (one SQLite connection); between two of   *)
(* them any other worker may run.  req[w] is the request with what the     *)
(* handler has read: the caller's role when it was authorised, then the    *)
(* creator it writes on a scoped token.                                    *)
(*                                                                         *)
(* Tokens are counted, not named: tokens[a] authenticate as a, minted[a]   *)
(* are vault-scoped and carry a as their creator.  A scoped token has the  *)
(* role proxy and is refused by every operation below.                     *)
(***************************************************************************)
EXTENDS Naturals, FiniteSets

CONSTANTS
  Users, Agents,
  NoActor,        \* an empty created_by
  Workers,
  Requests,       \* what clients send: records of RequestType
  MaxTokens       \* bound of the model: no login or mint starts beyond it

Actors == Users \cup Agents
Roles == {"owner", "member", "no-access"}
VaultRoles == {"proxy", "member", "admin"}
Grants == VaultRoles \cup {"none"}

UserOps == {"setRole", "deleteUser", "vaultRemove", "vaultSetRole", "vaultAdd"}
AgentOps == {"setRole", "create", "revoke", "rotate", "vaultRemove", "vaultSetRole", "vaultAdd"}
OwnOps == {"deleteAccount", "login", "mint", "join"}   \* no target but the caller

Op(op, target, role, grant) ==
  [op |-> op, target |-> target, role |-> role, grant |-> grant]

RequestType ==
  [op : UserOps, target : Users, role : Roles, grant : Grants]
    \cup [op : AgentOps, target : Agents, role : Roles, grant : Grants]
    \cup [op : OwnOps, target : {NoActor}, role : Roles, grant : Grants]

ASSUME ActorsFinite == IsFiniteSet(Users) /\ IsFiniteSet(Agents) /\ Users # {}
ASSUME WorkersFinite == IsFiniteSet(Workers) /\ Workers # {}
ASSUME ActorsApart == Users \cap Agents = {} /\ NoActor \notin Actors
ASSUME RequestsType == Requests \subseteq RequestType
ASSUME MaxTokensType == MaxTokens \in Nat \ {0}

(* handleVaultUserAdd and handleVaultUserSetRole take no proxy role. *)
ASSUME GrantsOfRequests ==
  \A r \in Requests :
    r.op \in {"vaultAdd", "vaultSetRole"} =>
      r.grant \in IF r.target \in Users THEN {"member", "admin"} ELSE VaultRoles

VARIABLES
  status,   \* the row: "active", "revoked" (agents) or "absent"
  role,     \* instance role
  grant,    \* vault_grants of the vault; "none" is no row
  by,       \* agents.created_by
  tokens, minted,
  pc, req

rows == <<status, role, grant, by, tokens, minted>>
vars == <<status, role, grant, by, tokens, minted, pc, req>>

Idle == [op |-> "none"]

Active(a) == a \in Actors /\ status[a] = "active"
Exists(a) == a \in Actors /\ status[a] # "absent"

(* CountAllOwners and CountVaultAdmins.  The second counts grants, whatever
   became of the actor that holds one. *)
Owners == {a \in Actors : status[a] = "active" /\ role[a] = "owner"}
Admins == {a \in Actors : grant[a] = "admin"}

(* Users are registered, verified and logged in; one at least is an owner and
   one at least administers the vault; no agent has been created. *)
Init ==
  /\ status = [a \in Actors |-> IF a \in Users THEN "active" ELSE "absent"]
  /\ role \in {r \in [Actors -> Roles] :
                 /\ \A a \in Agents : r[a] = "no-access"
                 /\ \E u \in Users : r[u] = "owner"}
  /\ grant \in {g \in [Actors -> Grants] :
                  /\ \A a \in Agents : g[a] = "none"
                  /\ \A u \in Users : g[u] # "proxy"
                  /\ \E u \in Users : g[u] = "admin"}
  /\ by = [a \in Agents |-> NoActor]
  /\ tokens = [a \in Actors |-> IF a \in Users THEN 1 ELSE 0]
  /\ minted = [a \in Actors \cup {NoActor} |-> 0]
  /\ pc = [w \in Workers |-> "idle"]
  /\ req = [w \in Workers |-> Idle]

--------------------------------------------------------------------------------
GoTo(w, label) == pc' = [pc EXCEPT ![w] = label]

Done(w) == GoTo(w, "idle") /\ req' = [req EXCEPT ![w] = Idle]

Respond(w) == Done(w) /\ UNCHANGED rows

Proceed(w, label) == GoTo(w, label) /\ UNCHANGED <<rows, req>>

(* requireAuth finds the caller's session.  Login needs none.  The bound
   keeps the counts of tokens finite. *)
Begin(w, r, c) ==
  /\ pc[w] = "idle"
  /\ IF r.op = "login" THEN c \in Users /\ Exists(c) /\ tokens[c] < MaxTokens
                       ELSE tokens[c] > 0
  /\ (r.op = "mint") => \A a \in DOMAIN minted : minted[a] < MaxTokens
  /\ GoTo(w, "authorize")
  /\ req' = [req EXCEPT ![w] =
               [op |-> r.op, caller |-> c, as |-> "no-access",
                target |-> IF r.op \in OwnOps THEN c ELSE r.target,
                role |-> r.role, grant |-> r.grant]]
  /\ UNCHANGED rows

(***************************************************************************)
(* requireOwnerActor, requireInstanceMember, requireVaultAdmin,            *)
(* requireVaultMember, and the checks of the handlers on the caller.  The  *)
(* actor's row must exist; a revoked agent's does.                         *)
(***************************************************************************)
Permitted(r) ==
  CASE r.op \in {"deleteUser", "join"} -> role[r.caller] = "owner"
    [] r.op = "setRole" -> role[r.caller] = "owner"
    [] r.op \in {"revoke", "rotate"} -> role[r.caller] # "no-access"
    [] r.op = "create" ->
         /\ role[r.caller] # "no-access"
         /\ r.role = "owner" => role[r.caller] = "owner"
         /\ r.grant # "none" => role[r.caller] = "owner" \/ grant[r.caller] = "admin"
    [] r.op \in {"vaultAdd", "vaultSetRole", "vaultRemove"} -> grant[r.caller] = "admin"
    [] r.op = "mint" -> grant[r.caller] \in {"member", "admin"}
    [] r.op = "deleteAccount" -> r.caller \in Users /\ role[r.caller] # "owner"
    [] OTHER -> TRUE

NextStep(op) ==
  CASE op \in {"deleteAccount"} -> "sessions"
    [] op \in {"create", "login"} -> "write"
    [] OTHER -> "target"

Authorize(w) ==
  /\ pc[w] = "authorize"
  /\ IF Exists(req[w].caller) /\ Permitted(req[w])
     THEN /\ GoTo(w, NextStep(req[w].op))
          /\ req' = [req EXCEPT ![w].as = role[req[w].caller]]
          /\ UNCHANGED rows
     ELSE Respond(w)

(***************************************************************************)
(* The target's row (and its grant), read once: every later step relies on *)
(* this reading.                                                           *)
(***************************************************************************)
AcceptableRevoked(r) ==
  /\ Exists(r.target)
  /\ r.op \in {"revoke", "rotate"} => r.as = "owner" \/ by[r.target] = r.caller
  /\ r.op \in {"vaultAdd", "join"} => grant[r.target] = "none"
  /\ r.op = "vaultSetRole" => grant[r.target] # "none"

Acceptable(r) ==
  /\ Exists(r.target)
  /\ r.target \in Agents /\ r.op \in {"setRole", "revoke", "rotate", "vaultAdd"}
       => Active(r.target)
  /\ r.op \in {"revoke", "rotate"} => r.as = "owner" \/ by[r.target] = r.caller
  /\ r.op \in {"vaultAdd", "join"} => grant[r.target] = "none"
  /\ r.op = "vaultSetRole" => grant[r.target] # "none"

OwnerLeaves(r) ==
  /\ role[r.target] = "owner"
  /\ r.op \in {"deleteUser", "revoke"} \/ (r.op = "setRole" /\ r.role # "owner")

AdminLeaves(r) ==
  /\ r.target \in Users
  /\ grant[r.target] = "admin"
  /\ r.op = "vaultRemove" \/ (r.op = "vaultSetRole" /\ r.grant = "member")

Last(op) == IF op = "deleteUser" THEN "sessions" ELSE "write"

ReadTarget(w) ==
  /\ pc[w] = "target"
  /\ req[w].op # "mint"
  /\ IF Acceptable(req[w])
     THEN Proceed(w, CASE OwnerLeaves(req[w]) -> "owners"
                       [] AdminLeaves(req[w]) -> "admins"
                       [] OTHER -> Last(req[w].op))
     ELSE Respond(w)

(* The handlers that drop the error of HasVaultAccess or of GetVaultRole take
   a reading that failed for "no grant": they add one over the grant there is,
   and remove one without the guard on the last admin. *)
TargetUnread(w) ==
  /\ pc[w] = "target"
  /\ req[w].op \in {"vaultAdd", "vaultRemove"}
  /\ Exists(req[w].target)
  /\ req[w].op = "vaultAdd" => Active(req[w].target)
  /\ Proceed(w, "write")

(* handleScopedSession resolves the caller a second time; when that fails, or
   the row is gone, the token is minted without a creator. *)
ReadCreator(w) ==
  /\ pc[w] = "target"
  /\ req[w].op = "mint"
  /\ \E creator \in {NoActor} \cup {a \in {req[w].caller} : Exists(a)} :
       req' = [req EXCEPT ![w].target = creator]
  /\ GoTo(w, "write")
  /\ UNCHANGED rows

GuardLastOwnerOffByOne(w) ==
  /\ pc[w] = "owners"
  /\ IF Cardinality(Owners) >= 1 THEN Proceed(w, Last(req[w].op)) ELSE Respond(w)

(* guardLastOwner *)
GuardLastOwner(w) ==
  /\ pc[w] = "owners"
  /\ IF Cardinality(Owners) > 1 THEN Proceed(w, Last(req[w].op)) ELSE Respond(w)

GuardLastAdminOffByOne(w) ==
  /\ pc[w] = "admins"
  /\ IF Cardinality(Admins) >= 1 THEN Proceed(w, "write") ELSE Respond(w)

GuardLastAdmin(w) ==
  /\ pc[w] = "admins"
  /\ IF Cardinality(Admins) > 1 THEN Proceed(w, "write") ELSE Respond(w)

(* DeleteUserSessions, before DeleteUser; its error is ignored. *)
DropSessions(w) ==
  /\ pc[w] = "sessions"
  /\ tokens' \in {tokens, [tokens EXCEPT ![req[w].target] = 0]}
  /\ GoTo(w, "write")
  /\ UNCHANGED <<status, role, grant, by, minted, req>>

--------------------------------------------------------------------------------
(* The writes.  A statement that finds no row changes nothing. *)
At(w, op) == pc[w] = "write" /\ req[w].op = op

(* UpdateUserRole, UpdateAgentRole: by id, whatever the status. *)
SetRole(w) ==
  /\ At(w, "setRole")
  /\ role' = IF Exists(req[w].target)
             THEN [role EXCEPT ![req[w].target] = req[w].role] ELSE role
  /\ UNCHANGED <<status, grant, by, tokens, minted>>
  /\ Done(w)

(* DeleteUser: the row, its sessions by the foreign key, its grants and the
   scoped tokens it minted, in one transaction. *)
DeleteUser(w) ==
  LET u == req[w].target
  IN /\ pc[w] = "write"
     /\ req[w].op \in {"deleteUser", "deleteAccount"}
     /\ IF Exists(u)
        THEN /\ status' = [status EXCEPT ![u] = "absent"]
             /\ grant' = [grant EXCEPT ![u] = "none"]
             /\ tokens' = [tokens EXCEPT ![u] = 0]
             /\ minted' = [minted EXCEPT ![u] = 0]
        ELSE UNCHANGED <<status, grant, tokens, minted>>
     /\ UNCHANGED <<role, by>>
     /\ Done(w)

(* CreateAgentWithGrantsAndToken; the name is unique among all rows. *)
CreateAgent(w) ==
  LET a == req[w].target
  IN /\ At(w, "create")
     /\ IF status[a] = "absent"
        THEN /\ status' = [status EXCEPT ![a] = "active"]
             /\ role' = [role EXCEPT ![a] = req[w].role]
             /\ grant' = [grant EXCEPT ![a] = req[w].grant]
             /\ by' = [by EXCEPT ![a] = req[w].caller]
             /\ tokens' = [tokens EXCEPT ![a] = 1]
        ELSE UNCHANGED <<status, role, grant, by, tokens>>
     /\ UNCHANGED minted
     /\ Done(w)

RevokeKeepsMinted(w) ==
  LET a == req[w].target
  IN /\ At(w, "revoke")
     /\ IF Active(a)
        THEN /\ status' = [status EXCEPT ![a] = "revoked"]
             /\ tokens' = [tokens EXCEPT ![a] = 0]
        ELSE UNCHANGED <<status, tokens>>
     /\ UNCHANGED <<role, grant, by, minted>>
     /\ Done(w)

(* RevokeAgent: role and grants stay with the row. *)
RevokeAgent(w) ==
  LET a == req[w].target
  IN /\ At(w, "revoke")
     /\ IF Active(a)
        THEN /\ status' = [status EXCEPT ![a] = "revoked"]
             /\ tokens' = [tokens EXCEPT ![a] = 0]
             /\ minted' = [minted EXCEPT ![a] = 0]
        ELSE UNCHANGED <<status, tokens, minted>>
     /\ UNCHANGED <<role, grant, by>>
     /\ Done(w)

(* RotateAgentToken deletes and inserts; it does not look at the status. *)
RotateAgentToken(w) ==
  LET a == req[w].target
  IN /\ At(w, "rotate")
     /\ tokens' = [tokens EXCEPT ![a] = 1]
     /\ UNCHANGED <<status, role, grant, by, minted>>
     /\ Done(w)

(* GrantVaultRole is an upsert without a foreign key to the actor. *)
GrantVaultRole(w) ==
  /\ pc[w] = "write"
  /\ req[w].op \in {"vaultAdd", "vaultSetRole", "join"}
  /\ grant' = [grant EXCEPT ![req[w].target] =
                 IF req[w].op = "join" THEN "admin" ELSE req[w].grant]
  /\ UNCHANGED <<status, role, by, tokens, minted>>
  /\ Done(w)

RevokeVaultAccess(w) ==
  /\ At(w, "vaultRemove")
  /\ grant' = [grant EXCEPT ![req[w].target] = "none"]
  /\ UNCHANGED <<status, role, by, tokens, minted>>
  /\ Done(w)

(* CreateUserSession: the foreign key refuses a user that is gone. *)
CreateUserSession(w) ==
  LET u == req[w].target
  IN /\ At(w, "login")
     /\ tokens' = IF Exists(u) THEN [tokens EXCEPT ![u] = tokens[u] + 1] ELSE tokens
     /\ UNCHANGED <<status, role, grant, by, minted>>
     /\ Done(w)

(* CreateScopedSession: created_by_actor_id refers to nothing. *)
CreateScopedSession(w) ==
  LET a == req[w].target
  IN /\ At(w, "mint")
     /\ minted' = [minted EXCEPT ![a] = minted[a] + 1]
     /\ UNCHANGED <<status, role, grant, by, tokens>>
     /\ Done(w)

(* A store error, a cancelled request or a crash of the server: the handler
   stops between two of its store calls. *)
Fail(w) == pc[w] # "idle" /\ Respond(w)

Step(w) ==
  \/ \E r \in Requests, c \in Actors : Begin(w, r, c)
  \/ Authorize(w)
  \/ ReadTarget(w)
  \/ ReadCreator(w)
  \/ GuardLastOwner(w)
  \/ GuardLastAdmin(w)
  \/ DropSessions(w)
  \/ SetRole(w)
  \/ DeleteUser(w)
  \/ CreateAgent(w)
  \/ RevokeAgent(w)
  \/ RotateAgentToken(w)
  \/ GrantVaultRole(w)
  \/ RevokeVaultAccess(w)
  \/ CreateUserSession(w)
  \/ CreateScopedSession(w)
  \/ Fail(w)

Next == \E w \in Workers : Step(w) \/ TargetUnread(w)

Spec == Init /\ [][Next]_vars

--------------------------------------------------------------------------------
PCs == {"idle", "authorize", "target", "owners", "admins", "sessions", "write"}

(* Reachable values of a request in a worker. *)
InFlight ==
  [op : UserOps \cup AgentOps \cup OwnOps, caller : Actors, as : Roles,
   target : Actors \cup {NoActor}, role : Roles, grant : Grants]

(* Type invariant: a request runs iff its worker is busy, users are never
   "revoked" and agents that do not exist have neither grants nor tokens. *)
TypeOK ==
  /\ status \in [Actors -> {"active", "revoked", "absent"}]
  /\ role \in [Actors -> Roles]
  /\ grant \in [Actors -> Grants]
  /\ by \in [Agents -> Actors \cup {NoActor}]
  /\ tokens \in [Actors -> Nat]
  /\ minted \in [Actors \cup {NoActor} -> Nat]
  /\ pc \in [Workers -> PCs]
  /\ DOMAIN req = Workers
  /\ \A w \in Workers : IF pc[w] = "idle" THEN req[w] = Idle ELSE req[w] \in InFlight

(* A deleted user has no session left, however its deletion met a login or a
   second deletion: DeleteUserSessions runs before the row goes, so only the
   cascade of the foreign key closes the gap between the two. *)
NoSessionOfDeletedUser == \A u \in Users : status[u] = "absent" => tokens[u] = 0

(* An agent never has two tokens: RotateAgentToken replaces in one
   transaction, so two rotations that meet leave one. *)
OneTokenPerAgent == \A a \in Agents : tokens[a] <= 1

(* A request that mints in the name of a. *)
Minting(a) == {w \in Workers : pc[w] # "idle" /\ req[w].op = "mint" /\ req[w].target = a}

(* DeleteUser and RevokeAgent remove the scoped tokens the actor minted.  One
   that is minted meanwhile survives its creator, for good: at most one for
   every other request in flight, because no more can begin. *)
OrphansBounded ==
  \A a \in Actors : status[a] # "active" /\ tokens[a] = 0 =>
    minted[a] + Cardinality(Minting(a)) < Cardinality(Workers)

(* The last instance owner cannot be demoted, removed or revoked. *)
LastOwnerStays == Owners # {}

(* Nothing authenticates as a revoked agent. *)
RevokedAgentHasNoToken == \A a \in Agents : status[a] = "revoked" => tokens[a] = 0

(* Every scoped token has a creator that is still there to be deleted. *)
ScopedTokenHasCreator ==
  /\ minted[NoActor] = 0
  /\ \A a \in Actors : minted[a] > 0 => Active(a)

(* A step takes the admin role from a user that stays in the instance. *)
UserLosesAdmin ==
  \E u \in Users : grant[u] = "admin" /\ grant'[u] # "admin" /\ status'[u] = status[u]

LiveAdmins == {a \in Admins : status[a] = "active"}

(* A vault keeps somebody who can administer it. *)
RemovalLeavesLiveAdmin == [][UserLosesAdmin => LiveAdmins' # {}]_vars

================================================================================
