------------------------------ MODULE ActorsProofs ------------------------------
(***************************************************************************)
(* Theorems about Actors and its history, for any users, agents, requests  *)
(* and workers, whatever overlaps.                                         *)
(***************************************************************************)
EXTENDS ActorsHistory, FiniteSetTheorems, TLAPS

(* What the target of a request can be, by operation and step.             *)
Kinds ==
  \A w \in Workers : pc[w] # "idle" =>
    LET r == req[w]
    IN /\ r.op \in {"create", "revoke", "rotate"} => r.target \in Agents
       /\ r.op \in {"deleteUser", "login"} => r.target \in Users
       /\ r.op # "mint" => r.target \in Actors
       /\ r.op \in {"deleteAccount", "login", "join"} => r.target = r.caller
       /\ r.op = "deleteAccount" /\ pc[w] \in {"sessions", "write"} => r.target \in Users
       /\ pc[w] = "target" => r.op \notin {"deleteAccount", "create", "login"}
       /\ pc[w] = "sessions" => r.op \in {"deleteUser", "deleteAccount"}
       /\ pc[w] = "owners" => r.op \in {"deleteUser", "setRole", "revoke"}
       /\ pc[w] = "admins" => r.op \in {"vaultRemove", "vaultSetRole"}
       /\ r.op = "mint" /\ pc[w] # "write" => r.target = r.caller

Bound == /\ NoSessionOfDeletedUser
         /\ OneTokenPerAgent
         /\ \A u \in Users : status[u] # "revoked"

(* Every action keeps the types. *)
LEMMA TypeStep == TypeOK /\ Kinds /\ [Next]_vars => TypeOK'
<1> SUFFICES ASSUME TypeOK /\ Kinds, [Next]_vars PROVE TypeOK'
  OBVIOUS
<1> USE DEF Kinds, TypeOK, PCs, InFlight, Grants, VaultRoles, Roles, Actors, UserOps, AgentOps, OwnOps, Idle, GoTo, Done, Respond, Proceed, rows, Exists, Active
<1>1. CASE UNCHANGED vars
  BY <1>1 DEF vars
<1>2. ASSUME NEW w \in Workers, NEW r \in Requests, NEW c \in Actors, Begin(w, r, c)
      PROVE TypeOK'
  BY <1>2, RequestsType DEF Begin, RequestType
<1>3. ASSUME NEW w \in Workers, Authorize(w) PROVE TypeOK'
  BY <1>3 DEF Authorize, Permitted, NextStep
<1>4. ASSUME NEW w \in Workers, ReadTarget(w) PROVE TypeOK'
  BY <1>4 DEF ReadTarget, Acceptable, OwnerLeaves, AdminLeaves, Last
<1>5. ASSUME NEW w \in Workers, ReadCreator(w) PROVE TypeOK'
  BY <1>5 DEF ReadCreator
<1>6. ASSUME NEW w \in Workers, GuardLastOwner(w) PROVE TypeOK'
  BY <1>6 DEF GuardLastOwner, Last
<1>7. ASSUME NEW w \in Workers, GuardLastAdmin(w) PROVE TypeOK'
  BY <1>7 DEF GuardLastAdmin
<1>8. ASSUME NEW w \in Workers, DropSessions(w) PROVE TypeOK'
  BY <1>8 DEF DropSessions
<1>9. ASSUME NEW w \in Workers, SetRole(w) PROVE TypeOK'
  BY <1>9 DEF SetRole, At
<1>10. ASSUME NEW w \in Workers, DeleteUser(w) PROVE TypeOK'
  BY <1>10 DEF DeleteUser
<1>11. ASSUME NEW w \in Workers, CreateAgent(w) PROVE TypeOK'
  BY <1>11 DEF CreateAgent, At
<1>12. ASSUME NEW w \in Workers, RevokeAgent(w) PROVE TypeOK'
  BY <1>12 DEF RevokeAgent, At
<1>13. ASSUME NEW w \in Workers, RotateAgentToken(w) PROVE TypeOK'
  BY <1>13 DEF RotateAgentToken, At
<1>14. ASSUME NEW w \in Workers, GrantVaultRole(w) PROVE TypeOK'
  BY <1>14 DEF GrantVaultRole
<1>15. ASSUME NEW w \in Workers, RevokeVaultAccess(w) PROVE TypeOK'
  BY <1>15 DEF RevokeVaultAccess, At
<1>16. ASSUME NEW w \in Workers, CreateUserSession(w) PROVE TypeOK'
  BY <1>16 DEF CreateUserSession, At
<1>17. ASSUME NEW w \in Workers, CreateScopedSession(w) PROVE TypeOK'
  BY <1>17 DEF CreateScopedSession, At
<1>18. ASSUME NEW w \in Workers, Fail(w) PROVE TypeOK'
  BY <1>18 DEF Fail
<1>19. ASSUME NEW w \in Workers, TargetUnread(w) PROVE TypeOK'
  BY <1>19 DEF TargetUnread
<1> QED
  BY <1>1, <1>2, <1>3, <1>4, <1>5, <1>6, <1>7, <1>8, <1>9, <1>10, <1>11, <1>12, <1>13, <1>14, <1>15, <1>16, <1>17, <1>18, <1>19 DEF Next, Step

(* Every action keeps the kinds of targets. *)
LEMMA KindsStep == TypeOK /\ Kinds /\ [Next]_vars => Kinds'
<1> SUFFICES ASSUME TypeOK /\ Kinds, [Next]_vars PROVE Kinds'
  OBVIOUS
<1> USE DEF Kinds, TypeOK, PCs, InFlight, Grants, VaultRoles, Roles, Actors, UserOps, AgentOps, OwnOps, Idle, GoTo, Done, Respond, Proceed, rows, Exists, Active
<1>1. CASE UNCHANGED vars
  BY <1>1 DEF vars
<1>2. ASSUME NEW w \in Workers, NEW r \in Requests, NEW c \in Actors, Begin(w, r, c)
      PROVE Kinds'
  BY <1>2, RequestsType DEF Begin, RequestType
<1>3. ASSUME NEW w \in Workers, Authorize(w) PROVE Kinds'
  BY <1>3 DEF Authorize, Permitted, NextStep
<1>4. ASSUME NEW w \in Workers, ReadTarget(w) PROVE Kinds'
  BY <1>4 DEF ReadTarget, Acceptable, OwnerLeaves, AdminLeaves, Last
<1>5. ASSUME NEW w \in Workers, ReadCreator(w) PROVE Kinds'
  BY <1>5 DEF ReadCreator
<1>6. ASSUME NEW w \in Workers, GuardLastOwner(w) PROVE Kinds'
  BY <1>6 DEF GuardLastOwner, Last
<1>7. ASSUME NEW w \in Workers, GuardLastAdmin(w) PROVE Kinds'
  BY <1>7 DEF GuardLastAdmin
<1>8. ASSUME NEW w \in Workers, DropSessions(w) PROVE Kinds'
  BY <1>8 DEF DropSessions
<1>9. ASSUME NEW w \in Workers, SetRole(w) PROVE Kinds'
  BY <1>9 DEF SetRole, At
<1>10. ASSUME NEW w \in Workers, DeleteUser(w) PROVE Kinds'
  BY <1>10 DEF DeleteUser
<1>11. ASSUME NEW w \in Workers, CreateAgent(w) PROVE Kinds'
  BY <1>11 DEF CreateAgent, At
<1>12. ASSUME NEW w \in Workers, RevokeAgent(w) PROVE Kinds'
  BY <1>12 DEF RevokeAgent, At
<1>13. ASSUME NEW w \in Workers, RotateAgentToken(w) PROVE Kinds'
  BY <1>13 DEF RotateAgentToken, At
<1>14. ASSUME NEW w \in Workers, GrantVaultRole(w) PROVE Kinds'
  BY <1>14 DEF GrantVaultRole
<1>15. ASSUME NEW w \in Workers, RevokeVaultAccess(w) PROVE Kinds'
  BY <1>15 DEF RevokeVaultAccess, At
<1>16. ASSUME NEW w \in Workers, CreateUserSession(w) PROVE Kinds'
  BY <1>16 DEF CreateUserSession, At
<1>17. ASSUME NEW w \in Workers, CreateScopedSession(w) PROVE Kinds'
  BY <1>17 DEF CreateScopedSession, At
<1>18. ASSUME NEW w \in Workers, Fail(w) PROVE Kinds'
  BY <1>18 DEF Fail
<1>19. ASSUME NEW w \in Workers, TargetUnread(w) PROVE Kinds'
  BY <1>19 DEF TargetUnread
<1> QED
  BY <1>1, <1>2, <1>3, <1>4, <1>5, <1>6, <1>7, <1>8, <1>9, <1>10, <1>11, <1>12, <1>13, <1>14, <1>15, <1>16, <1>17, <1>18, <1>19 DEF Next, Step

(* Sessions of deleted users and tokens of agents. *)
LEMMA BoundStep == TypeOK /\ Kinds /\ Bound /\ [Next]_vars => Bound'
<1> SUFFICES ASSUME TypeOK /\ Kinds /\ Bound, [Next]_vars PROVE Bound'
  OBVIOUS
<1> USE ActorsApart DEF Bound, NoSessionOfDeletedUser, OneTokenPerAgent, Kinds, TypeOK, PCs, InFlight, Grants, VaultRoles, Roles, Actors, UserOps, AgentOps, OwnOps, Idle, GoTo, Done, Respond, Proceed, rows, Exists, Active
<1>1. CASE UNCHANGED vars
  BY <1>1 DEF vars
<1>2. ASSUME NEW w \in Workers, NEW r \in Requests, NEW c \in Actors, Begin(w, r, c)
      PROVE Bound'
  BY <1>2, RequestsType DEF Begin, RequestType
<1>3. ASSUME NEW w \in Workers, Authorize(w) PROVE Bound'
  BY <1>3 DEF Authorize, Permitted, NextStep
<1>4. ASSUME NEW w \in Workers, ReadTarget(w) PROVE Bound'
  BY <1>4 DEF ReadTarget, Acceptable, OwnerLeaves, AdminLeaves, Last
<1>5. ASSUME NEW w \in Workers, ReadCreator(w) PROVE Bound'
  BY <1>5 DEF ReadCreator
<1>6. ASSUME NEW w \in Workers, GuardLastOwner(w) PROVE Bound'
  BY <1>6 DEF GuardLastOwner, Last
<1>7. ASSUME NEW w \in Workers, GuardLastAdmin(w) PROVE Bound'
  BY <1>7 DEF GuardLastAdmin
<1>8. ASSUME NEW w \in Workers, DropSessions(w) PROVE Bound'
  BY <1>8 DEF DropSessions
<1>9. ASSUME NEW w \in Workers, SetRole(w) PROVE Bound'
  BY <1>9 DEF SetRole, At
<1>10. ASSUME NEW w \in Workers, DeleteUser(w) PROVE Bound'
  BY <1>10 DEF DeleteUser
<1>11. ASSUME NEW w \in Workers, CreateAgent(w) PROVE Bound'
  BY <1>11 DEF CreateAgent, At
<1>12. ASSUME NEW w \in Workers, RevokeAgent(w) PROVE Bound'
  BY <1>12 DEF RevokeAgent, At
<1>13. ASSUME NEW w \in Workers, RotateAgentToken(w) PROVE Bound'
  BY <1>13 DEF RotateAgentToken, At
<1>14. ASSUME NEW w \in Workers, GrantVaultRole(w) PROVE Bound'
  BY <1>14 DEF GrantVaultRole
<1>15. ASSUME NEW w \in Workers, RevokeVaultAccess(w) PROVE Bound'
  BY <1>15 DEF RevokeVaultAccess, At
<1>16. ASSUME NEW w \in Workers, CreateUserSession(w) PROVE Bound'
  BY <1>16 DEF CreateUserSession, At
<1>17. ASSUME NEW w \in Workers, CreateScopedSession(w) PROVE Bound'
  BY <1>17 DEF CreateScopedSession, At
<1>18. ASSUME NEW w \in Workers, Fail(w) PROVE Bound'
  BY <1>18 DEF Fail
<1>19. ASSUME NEW w \in Workers, TargetUnread(w) PROVE Bound'
  BY <1>19 DEF TargetUnread
<1> QED
  BY <1>1, <1>2, <1>3, <1>4, <1>5, <1>6, <1>7, <1>8, <1>9, <1>10, <1>11, <1>12, <1>13, <1>14, <1>15, <1>16, <1>17, <1>18, <1>19 DEF Next, Step

--------------------------------------------------------------------------------
(***************************************************************************)
(* Scoped tokens of actors that are gone.                                  *)
(***************************************************************************)
(* Workers are finitely many, and so are those that mint for one actor.    *)
LEMMA MintingFinite ==
  ASSUME NEW a
  PROVE  /\ IsFiniteSet(Minting(a)) /\ Cardinality(Minting(a)) \in Nat
         /\ Minting(a) \subseteq Workers
         /\ Cardinality(Workers) \in Nat
<1>1. Minting(a) \subseteq Workers
  BY DEF Minting
<1>2. IsFiniteSet(Minting(a))
  BY <1>1, WorkersFinite, FS_Subset
<1> QED BY <1>1, <1>2, WorkersFinite, FS_CardinalityType

(* A step after which no more mint for a than before, and the minted are no
   more.                                                                   *)
LEMMA FewerMint ==
  ASSUME TypeOK, TypeOK', NEW a \in Actors, Minting(a)' \subseteq Minting(a),
         minted'[a] <= minted[a],
         minted[a] + Cardinality(Minting(a)) < Cardinality(Workers)
  PROVE  minted'[a] + Cardinality(Minting(a)') < Cardinality(Workers)
<1> DEFINE M == Minting(a)
           N == Minting(a)'
           m == minted[a]
           n == minted'[a]
           k == Cardinality(Workers)
<1>1. IsFiniteSet(M) /\ Cardinality(M) \in Nat /\ k \in Nat
  BY MintingFinite
<1>2. N \subseteq M
  OBVIOUS
<1>3. IsFiniteSet(N) /\ Cardinality(N) <= Cardinality(M)
  <2> HIDE DEF M, N
  <2> QED BY <1>1, <1>2, FS_Subset
<1>4. Cardinality(N) \in Nat
  BY <1>3, FS_CardinalityType
<1>5. m \in Nat /\ n \in Nat
  BY DEF TypeOK
<1>6. n <= m /\ m + Cardinality(M) < k
  OBVIOUS
<1>7. n + Cardinality(N) < k
  <2> DEFINE p == Cardinality(M)
             q == Cardinality(N)
  <2>1. p \in Nat /\ q \in Nat /\ q <= p
    BY <1>1, <1>3, <1>4
  <2>2. m + p < k
    BY <1>6
  <2>3. n <= m
    BY <1>6
  <2> HIDE DEF p, q, m, n, k, M, N
  <2>4. n + q < k
    BY <2>1, <2>2, <2>3, <1>1, <1>5
  <2> QED BY <2>4 DEF p, q
<1> QED BY <1>7

(* The worker that deletes or revokes a does not mint for it.              *)
LEMMA NoneMinted ==
  ASSUME NEW a \in Actors, NEW w \in Workers, w \notin Minting(a)', minted'[a] = 0
  PROVE  minted'[a] + Cardinality(Minting(a)') < Cardinality(Workers)
<1> DEFINE N == Minting(a)'
<1>1. N \subseteq Workers
  BY DEF Minting
<1>2. IsFiniteSet(Workers)
  BY WorkersFinite
<1>3. w \notin N
  OBVIOUS
<1> HIDE DEF N
<1>4. IsFiniteSet(N) /\ Cardinality(N) < Cardinality(Workers)
  <2>1. N # Workers
    BY <1>3
  <2>2. IsFiniteSet(N) /\ Cardinality(N) <= Cardinality(Workers)
         /\ (Cardinality(N) = Cardinality(Workers) => N = Workers)
    BY <1>1, <1>2, FS_Subset
  <2>3. Cardinality(N) \in Nat /\ Cardinality(Workers) \in Nat
    BY <2>2, <1>2, FS_CardinalityType
  <2> QED BY <2>1, <2>2, <2>3
<1>5. Cardinality(N) \in Nat
  BY <1>4, FS_CardinalityType
<1>6. 0 + Cardinality(N) < Cardinality(Workers)
  BY <1>4, <1>5
<1> QED BY <1>6 DEF N

(* The token is minted and the request is over.                            *)
LEMMA OneMinted ==
  ASSUME TypeOK, NEW a \in Actors, NEW w \in Minting(a), Minting(a)' = Minting(a) \ {w},
         minted'[a] = minted[a] + 1,
         minted[a] + Cardinality(Minting(a)) < Cardinality(Workers)
  PROVE  minted'[a] + Cardinality(Minting(a)') < Cardinality(Workers)
<1>1. IsFiniteSet(Minting(a)) /\ Cardinality(Minting(a)) \in Nat /\ Cardinality(Workers) \in Nat
  BY MintingFinite
<1>2. Cardinality(Minting(a) \ {w}) = Cardinality(Minting(a)) - 1
  BY <1>1, FS_RemoveElement
<1>3. minted[a] \in Nat
  BY DEF TypeOK
<1> DEFINE p == Cardinality(Minting(a))
           q == Cardinality(Minting(a)')
           k == Cardinality(Workers)
           m == minted[a]
<1>4. q = p - 1 /\ p \in Nat /\ k \in Nat /\ m \in Nat /\ m + p < k
  BY <1>1, <1>2, <1>3
<1> HIDE DEF p, q, k, m
<1>5. (m + 1) + q < k
  BY <1>4
<1> QED BY <1>5 DEF p, q, k, m

(* Every action keeps the bound on the scoped tokens of the gone.           *)
LEMMA OrphanStep ==
  TypeOK /\ TypeOK' /\ Kinds /\ Bound /\ OrphansBounded /\ [Next]_vars => OrphansBounded'
<1> SUFFICES ASSUME TypeOK, TypeOK', Kinds, Bound, OrphansBounded, [Next]_vars,
                    NEW a \in Actors, status'[a] # "active", tokens'[a] = 0
             PROVE  minted'[a] + Cardinality(Minting(a)') < Cardinality(Workers)
  BY DEF OrphansBounded
<1> DEFINE Few == minted'[a] + Cardinality(Minting(a)') < Cardinality(Workers)
<1> USE ActorsApart DEF Bound, NoSessionOfDeletedUser, Kinds, TypeOK, PCs, InFlight, Grants, VaultRoles, Roles, Actors, UserOps, AgentOps, OwnOps, Idle, GoTo, Done, Respond, Proceed, rows, Exists, Active
<1>1. CASE UNCHANGED vars
  <2>1. Minting(a)' \subseteq Minting(a)
    BY <1>1 DEF Minting, vars
  <2>2. minted'[a] <= minted[a] /\ status[a] # "active" /\ tokens[a] = 0
    BY <1>1 DEF vars
  <2> QED BY <2>1, <2>2, FewerMint DEF OrphansBounded
<1>2. ASSUME NEW w \in Workers, NEW r \in Requests, NEW c \in Actors, Begin(w, r, c)
      PROVE Few
  <2>1. Minting(a)' \subseteq Minting(a)
    BY <1>2, RequestsType DEF Minting, Begin, RequestType
  <2>2. minted'[a] <= minted[a] /\ status[a] # "active" /\ tokens[a] = 0
    BY <1>2, RequestsType DEF Begin, RequestType
  <2> QED BY <2>1, <2>2, FewerMint DEF OrphansBounded
<1>3. ASSUME NEW w \in Workers, Authorize(w) PROVE Few
  <2>1. Minting(a)' \subseteq Minting(a)
    BY <1>3 DEF Minting, Authorize, Permitted, NextStep
  <2>2. minted'[a] <= minted[a] /\ status[a] # "active" /\ tokens[a] = 0
    BY <1>3 DEF Authorize, Permitted, NextStep
  <2> QED BY <2>1, <2>2, FewerMint DEF OrphansBounded
<1>4. ASSUME NEW w \in Workers, ReadTarget(w) PROVE Few
  <2>1. Minting(a)' \subseteq Minting(a)
    BY <1>4 DEF Minting, ReadTarget, Acceptable, OwnerLeaves, AdminLeaves, Last
  <2>2. minted'[a] <= minted[a] /\ status[a] # "active" /\ tokens[a] = 0
    BY <1>4 DEF ReadTarget, Acceptable, OwnerLeaves, AdminLeaves, Last
  <2> QED BY <2>1, <2>2, FewerMint DEF OrphansBounded
<1>5. ASSUME NEW w \in Workers, ReadCreator(w) PROVE Few
  <2>1. Minting(a)' \subseteq Minting(a)
    BY <1>5 DEF Minting, ReadCreator
  <2>2. minted'[a] <= minted[a] /\ status[a] # "active" /\ tokens[a] = 0
    BY <1>5 DEF ReadCreator
  <2> QED BY <2>1, <2>2, FewerMint DEF OrphansBounded
<1>6. ASSUME NEW w \in Workers, GuardLastOwner(w) PROVE Few
  <2>1. Minting(a)' \subseteq Minting(a)
    BY <1>6 DEF Minting, GuardLastOwner, Last
  <2>2. minted'[a] <= minted[a] /\ status[a] # "active" /\ tokens[a] = 0
    BY <1>6 DEF GuardLastOwner, Last
  <2> QED BY <2>1, <2>2, FewerMint DEF OrphansBounded
<1>7. ASSUME NEW w \in Workers, GuardLastAdmin(w) PROVE Few
  <2>1. Minting(a)' \subseteq Minting(a)
    BY <1>7 DEF Minting, GuardLastAdmin
  <2>2. minted'[a] <= minted[a] /\ status[a] # "active" /\ tokens[a] = 0
    BY <1>7 DEF GuardLastAdmin
  <2> QED BY <2>1, <2>2, FewerMint DEF OrphansBounded
<1>8. ASSUME NEW w \in Workers, DropSessions(w) PROVE Few
  <2>1. Minting(a)' \subseteq Minting(a)
    BY <1>8 DEF Minting, DropSessions
  <2>2. minted'[a] <= minted[a] /\ status[a] # "active" /\ tokens[a] = 0
    BY <1>8 DEF DropSessions
  <2> QED BY <2>1, <2>2, FewerMint DEF OrphansBounded
<1>9. ASSUME NEW w \in Workers, SetRole(w) PROVE Few
  <2>1. Minting(a)' \subseteq Minting(a)
    BY <1>9 DEF Minting, SetRole, At
  <2>2. minted'[a] <= minted[a] /\ status[a] # "active" /\ tokens[a] = 0
    BY <1>9 DEF SetRole, At
  <2> QED BY <2>1, <2>2, FewerMint DEF OrphansBounded
<1>10. ASSUME NEW w \in Workers, DeleteUser(w) PROVE Few
  <2>1. CASE a = req[w].target /\ Exists(a)
    <3>1. w \notin Minting(a)' /\ minted'[a] = 0
      BY <1>10, <2>1 DEF Minting, DeleteUser
    <3> QED BY <3>1, NoneMinted
  <2>2. CASE ~(a = req[w].target /\ Exists(a))
    <3>1. Minting(a)' \subseteq Minting(a)
      BY <1>10 DEF Minting, DeleteUser
    <3>2. minted'[a] <= minted[a] /\ status[a] # "active" /\ tokens[a] = 0
      BY <1>10, <2>2 DEF DeleteUser
    <3> QED BY <3>1, <3>2, FewerMint DEF OrphansBounded
  <2> QED BY <2>1, <2>2
<1>11. ASSUME NEW w \in Workers, CreateAgent(w) PROVE Few
  <2>1. Minting(a)' \subseteq Minting(a)
    BY <1>11 DEF Minting, CreateAgent, At
  <2>2. minted'[a] <= minted[a] /\ status[a] # "active" /\ tokens[a] = 0
    BY <1>11 DEF CreateAgent, At
  <2> QED BY <2>1, <2>2, FewerMint DEF OrphansBounded
<1>12. ASSUME NEW w \in Workers, RevokeAgent(w) PROVE Few
  <2>1. CASE a = req[w].target /\ Active(a)
    <3>1. w \notin Minting(a)' /\ minted'[a] = 0
      BY <1>12, <2>1 DEF Minting, RevokeAgent, At
    <3> QED BY <3>1, NoneMinted
  <2>2. CASE ~(a = req[w].target /\ Active(a))
    <3>1. Minting(a)' \subseteq Minting(a)
      BY <1>12 DEF Minting, RevokeAgent, At
    <3>2. minted'[a] <= minted[a] /\ status[a] # "active" /\ tokens[a] = 0
      BY <1>12, <2>2 DEF RevokeAgent, At
    <3> QED BY <3>1, <3>2, FewerMint DEF OrphansBounded
  <2> QED BY <2>1, <2>2
<1>13. ASSUME NEW w \in Workers, RotateAgentToken(w) PROVE Few
  <2>1. Minting(a)' \subseteq Minting(a)
    BY <1>13 DEF Minting, RotateAgentToken, At
  <2>2. minted'[a] <= minted[a] /\ status[a] # "active" /\ tokens[a] = 0
    BY <1>13 DEF RotateAgentToken, At
  <2> QED BY <2>1, <2>2, FewerMint DEF OrphansBounded
<1>14. ASSUME NEW w \in Workers, GrantVaultRole(w) PROVE Few
  <2>1. Minting(a)' \subseteq Minting(a)
    BY <1>14 DEF Minting, GrantVaultRole
  <2>2. minted'[a] <= minted[a] /\ status[a] # "active" /\ tokens[a] = 0
    BY <1>14 DEF GrantVaultRole
  <2> QED BY <2>1, <2>2, FewerMint DEF OrphansBounded
<1>15. ASSUME NEW w \in Workers, RevokeVaultAccess(w) PROVE Few
  <2>1. Minting(a)' \subseteq Minting(a)
    BY <1>15 DEF Minting, RevokeVaultAccess, At
  <2>2. minted'[a] <= minted[a] /\ status[a] # "active" /\ tokens[a] = 0
    BY <1>15 DEF RevokeVaultAccess, At
  <2> QED BY <2>1, <2>2, FewerMint DEF OrphansBounded
<1>16. ASSUME NEW w \in Workers, CreateUserSession(w) PROVE Few
  <2>1. Minting(a)' \subseteq Minting(a)
    BY <1>16 DEF Minting, CreateUserSession, At
  <2>2. minted'[a] <= minted[a] /\ status[a] # "active" /\ tokens[a] = 0
    BY <1>16 DEF CreateUserSession, At
  <2> QED BY <2>1, <2>2, FewerMint DEF OrphansBounded
<1>17. ASSUME NEW w \in Workers, CreateScopedSession(w) PROVE Few
  <2>1. CASE a = req[w].target
    <3>1. w \in Minting(a) /\ Minting(a)' = Minting(a) \ {w}
      BY <1>17, <2>1 DEF Minting, CreateScopedSession, At
    <3>2. minted'[a] = minted[a] + 1 /\ status[a] # "active" /\ tokens[a] = 0
      BY <1>17, <2>1 DEF CreateScopedSession, At
    <3> QED BY <3>1, <3>2, OneMinted DEF OrphansBounded
  <2>2. CASE a # req[w].target
    <3>1. Minting(a)' \subseteq Minting(a)
      BY <1>17 DEF Minting, CreateScopedSession, At
    <3>2. minted'[a] <= minted[a] /\ status[a] # "active" /\ tokens[a] = 0
      BY <1>17, <2>2 DEF CreateScopedSession, At
    <3> QED BY <3>1, <3>2, FewerMint DEF OrphansBounded
  <2> QED BY <2>1, <2>2
<1>18. ASSUME NEW w \in Workers, Fail(w) PROVE Few
  <2>1. Minting(a)' \subseteq Minting(a)
    BY <1>18 DEF Minting, Fail
  <2>2. minted'[a] <= minted[a] /\ status[a] # "active" /\ tokens[a] = 0
    BY <1>18 DEF Fail
  <2> QED BY <2>1, <2>2, FewerMint DEF OrphansBounded
<1>19. ASSUME NEW w \in Workers, TargetUnread(w) PROVE Few
  <2>1. Minting(a)' \subseteq Minting(a)
    BY <1>19 DEF Minting, TargetUnread
  <2>2. minted'[a] <= minted[a] /\ status[a] # "active" /\ tokens[a] = 0
    BY <1>19 DEF TargetUnread
  <2> QED BY <2>1, <2>2, FewerMint DEF OrphansBounded
<1> QED
  BY <1>1, <1>2, <1>3, <1>4, <1>5, <1>6, <1>7, <1>8, <1>9, <1>10, <1>11, <1>12, <1>13, <1>14, <1>15, <1>16, <1>17, <1>18, <1>19 DEF Next, Step

--------------------------------------------------------------------------------
(***************************************************************************)
(* What a request that nothing overtook still knows when it writes.        *)
(***************************************************************************)
(* guardLastOwner found another owner, or the target was none.             *)
OwnerKnown(w) ==
     /\ pc[w] \in {"sessions", "write"}
     /\ \/ req[w].op \in {"deleteUser", "deleteAccount", "revoke"}
        \/ req[w].op = "setRole" /\ req[w].role # "owner"
     /\ "actors" \notin overtaken[w]
     /\ req[w].target \in Owners
  => \E o \in Owners : o # req[w].target

(* The same of the admins of the vault.                                     *)
AdminKnown(w) ==
     /\ pc[w] = "write"
     /\ \/ req[w].op = "vaultRemove"
        \/ req[w].op \in {"vaultSetRole", "vaultAdd"} /\ req[w].grant # "admin"
     /\ overtaken[w] \cap {"grants", "unread"} = {}
     /\ req[w].target \in Users /\ req[w].target \in Admins
  => \E o \in Admins : o # req[w].target

(* The agent whose token is rotated is active.                              *)
StatusKnown(w) ==
  pc[w] = "write" /\ req[w].op = "rotate" /\ "actors" \notin overtaken[w]
    => status[req[w].target] = "active"

(* What the handlers of users let through (GrantsOfRequests).               *)
GrantKnown(w) ==
  pc[w] # "idle" /\ req[w].target \in Users /\ req[w].op \in {"vaultAdd", "vaultSetRole"}
    => req[w].grant \in {"member", "admin"}

Known(w) == OwnerKnown(w) /\ AdminKnown(w) /\ StatusKnown(w) /\ GrantKnown(w)

HInv == HistoryTypeOK /\ TypeOK /\ Kinds /\ \A w \in Workers : Known(w)

(* A set of more than one element has one other than x.                     *)
LEMMA Another ==
  ASSUME NEW S, IsFiniteSet(S), Cardinality(S) > 1, NEW x
  PROVE  \E y \in S : y # x
<1> SUFFICES ASSUME \A y \in S : y = x PROVE FALSE
  OBVIOUS
<1>1. CASE S = {}
  BY <1>1, FS_EmptySet
<1>2. CASE S = {x}
  BY <1>2, FS_Singleton
<1> QED BY <1>1, <1>2

(* There are finitely many owners and admins to count.                      *)
LEMMA CountsFinite == IsFiniteSet(Owners) /\ IsFiniteSet(Admins)
<1>1. IsFiniteSet(Actors)
  BY ActorsFinite, FS_Union DEF Actors
<1>2. Owners \subseteq Actors /\ Admins \subseteq Actors
  BY DEF Owners, Admins
<1> QED BY <1>1, <1>2, FS_Subset

(* A step of one worker leaves the others where they are.                   *)
LEMMA StepIsLocal ==
  ASSUME TypeOK, NEW w \in Workers, Step(w) \/ TargetUnread(w), NEW v \in Workers, v # w
  PROVE  pc'[v] = pc[v] /\ req'[v] = req[v]
<1> USE DEF TypeOK, Idle, GoTo, Done, Respond, Proceed, rows, Exists, Active
<1>1. ASSUME NEW r \in Requests, NEW c \in Actors, Begin(w, r, c)
      PROVE pc'[v] = pc[v] /\ req'[v] = req[v]
  BY <1>1 DEF Begin
<1>2. CASE Authorize(w)
  BY <1>2 DEF Authorize, Permitted, NextStep
<1>3. CASE ReadTarget(w)
  BY <1>3 DEF ReadTarget, Acceptable, OwnerLeaves, AdminLeaves, Last
<1>4. CASE ReadCreator(w)
  BY <1>4 DEF ReadCreator
<1>5. CASE GuardLastOwner(w)
  BY <1>5 DEF GuardLastOwner, Last
<1>6. CASE GuardLastAdmin(w)
  BY <1>6 DEF GuardLastAdmin
<1>7. CASE DropSessions(w)
  BY <1>7 DEF DropSessions
<1>8. CASE SetRole(w)
  BY <1>8 DEF SetRole, At
<1>9. CASE DeleteUser(w)
  BY <1>9 DEF DeleteUser
<1>10. CASE CreateAgent(w)
  BY <1>10 DEF CreateAgent, At
<1>11. CASE RevokeAgent(w)
  BY <1>11 DEF RevokeAgent, At
<1>12. CASE RotateAgentToken(w)
  BY <1>12 DEF RotateAgentToken, At
<1>13. CASE GrantVaultRole(w)
  BY <1>13 DEF GrantVaultRole
<1>14. CASE RevokeVaultAccess(w)
  BY <1>14 DEF RevokeVaultAccess, At
<1>15. CASE CreateUserSession(w)
  BY <1>15 DEF CreateUserSession, At
<1>16. CASE CreateScopedSession(w)
  BY <1>16 DEF CreateScopedSession, At
<1>17. CASE Fail(w)
  BY <1>17 DEF Fail
<1>18. CASE TargetUnread(w)
  BY <1>18 DEF TargetUnread
<1> QED
  BY <1>1, <1>2, <1>3, <1>4, <1>5, <1>6, <1>7, <1>8, <1>9, <1>10, <1>11, <1>12, <1>13, <1>14, <1>15, <1>16, <1>17, <1>18 DEF Step

(* Of more owners than one there is one other than x.                       *)
LEMMA AnotherOwner == ASSUME NEW x, Cardinality(Owners) > 1 PROVE \E o \in Owners : o # x
BY CountsFinite, Another

(* And an admin other than x.                                               *)
LEMMA AnotherAdmin == ASSUME NEW x, Cardinality(Admins) > 1 PROVE \E o \in Admins : o # x
BY CountsFinite, Another

(* What the others know survives it: what changes is recorded.              *)
LEMMA OthersKnow ==
  ASSUME HInv, NEW w \in Workers, Step(w) \/ TargetUnread(w), NEW own, Overtakes(w, own),
         NEW v \in Workers, v # w
  PROVE  Known(v)'
<1>1. pc'[v] = pc[v] /\ req'[v] = req[v]
  BY StepIsLocal DEF HInv
<1>2. pc[v] # "idle" => overtaken'[v] = overtaken[v] \cup Written
  BY DEF Overtakes
<1>3. pc[v] # "idle" /\ "actors" \notin overtaken'[v]
         => "actors" \notin overtaken[v] /\ status' = status /\ role' = role
  BY <1>2 DEF Written
<1>4. pc[v] # "idle" /\ overtaken'[v] \cap {"grants", "unread"} = {}
         => overtaken[v] \cap {"grants", "unread"} = {} /\ grant' = grant
  BY <1>2 DEF Written
<1>5. OwnerKnown(v)'
  BY <1>1, <1>3 DEF HInv, Known, OwnerKnown, Owners
<1>6. AdminKnown(v)'
  BY <1>1, <1>4 DEF HInv, Known, AdminKnown, Admins
<1>7. StatusKnown(v)'
  BY <1>1, <1>3 DEF HInv, Known, StatusKnown
<1>8. GrantKnown(v)'
  BY <1>1 DEF HInv, Known, GrantKnown
<1> QED BY <1>5, <1>6, <1>7, <1>8 DEF Known

(* A worker's own steps keep what it knows.                                 *)
LEMMA SelfKnows ==
  ASSUME HInv, NEW w \in Workers,
         \/ Step(w) /\ Overtakes(w, {})
         \/ TargetUnread(w) /\ Overtakes(w, {"unread"})
  PROVE  Known(w)'
<1>1. /\ Cardinality(Owners) > 1 => \E o \in Owners : o # req[w].target
      /\ Cardinality(Admins) > 1 => \E o \in Admins : o # req[w].target
  BY AnotherOwner, AnotherAdmin
<1> USE ActorsApart DEF HInv, HistoryTypeOK, Known, OwnerKnown, AdminKnown, StatusKnown, GrantKnown, Owners, Admins, Kinds, TypeOK, PCs, InFlight, Grants, VaultRoles, Roles, Actors, UserOps, AgentOps, OwnOps, Idle, GoTo, Done, Respond, Proceed, rows, Exists, Active, Overtakes
<1>2. ASSUME NEW r \in Requests, NEW c \in Actors, Begin(w, r, c), Overtakes(w, {})
      PROVE Known(w)'
  BY <1>2, RequestsType, GrantsOfRequests DEF Begin, RequestType
<1>3. ASSUME Authorize(w), Overtakes(w, {})
      PROVE Known(w)'
  BY <1>3 DEF Authorize, Permitted, NextStep
<1>4. ASSUME ReadTarget(w), Overtakes(w, {})
      PROVE Known(w)'
  BY <1>4 DEF ReadTarget, Acceptable, OwnerLeaves, AdminLeaves, Last
<1>5. ASSUME ReadCreator(w), Overtakes(w, {})
      PROVE Known(w)'
  BY <1>5 DEF ReadCreator
<1>6. ASSUME GuardLastOwner(w), Overtakes(w, {})
      PROVE Known(w)'
  BY <1>6, <1>1 DEF GuardLastOwner, Last
<1>7. ASSUME GuardLastAdmin(w), Overtakes(w, {})
      PROVE Known(w)'
  BY <1>7, <1>1 DEF GuardLastAdmin
<1>8. ASSUME DropSessions(w), Overtakes(w, {})
      PROVE Known(w)'
  BY <1>8 DEF DropSessions
<1>9. ASSUME SetRole(w), Overtakes(w, {})
      PROVE Known(w)'
  BY <1>9 DEF SetRole, At
<1>10. ASSUME DeleteUser(w), Overtakes(w, {})
      PROVE Known(w)'
  BY <1>10 DEF DeleteUser
<1>11. ASSUME CreateAgent(w), Overtakes(w, {})
      PROVE Known(w)'
  BY <1>11 DEF CreateAgent, At
<1>12. ASSUME RevokeAgent(w), Overtakes(w, {})
      PROVE Known(w)'
  BY <1>12 DEF RevokeAgent, At
<1>13. ASSUME RotateAgentToken(w), Overtakes(w, {})
      PROVE Known(w)'
  BY <1>13 DEF RotateAgentToken, At
<1>14. ASSUME GrantVaultRole(w), Overtakes(w, {})
      PROVE Known(w)'
  BY <1>14 DEF GrantVaultRole
<1>15. ASSUME RevokeVaultAccess(w), Overtakes(w, {})
      PROVE Known(w)'
  BY <1>15 DEF RevokeVaultAccess, At
<1>16. ASSUME CreateUserSession(w), Overtakes(w, {})
      PROVE Known(w)'
  BY <1>16 DEF CreateUserSession, At
<1>17. ASSUME CreateScopedSession(w), Overtakes(w, {})
      PROVE Known(w)'
  BY <1>17 DEF CreateScopedSession, At
<1>18. ASSUME Fail(w), Overtakes(w, {})
      PROVE Known(w)'
  BY <1>18 DEF Fail
<1>19. ASSUME TargetUnread(w), Overtakes(w, {"unread"})
      PROVE Known(w)'
  BY <1>19 DEF TargetUnread
<1> QED
  BY <1>2, <1>3, <1>4, <1>5, <1>6, <1>7, <1>8, <1>9, <1>10, <1>11, <1>12, <1>13, <1>14, <1>15, <1>16, <1>17, <1>18, <1>19 DEF Step

(* Only writes take an owner, an admin or give a token, and only one that
   something overtook takes the last.                                       *)
Excused ==
  /\ Owners # {} /\ Owners' = {} => WriteOvertaken({"actors"})
  /\ UserLosesAdmin /\ Admins' = {} => WriteOvertaken({"grants", "unread"})
  /\ \A a \in Agents :
       status[a] = "revoked" /\ tokens'[a] > tokens[a] => WriteOvertaken({"actors"})

LEMMA WritesExcused == HInv /\ [HistoryNext]_historyVars => Excused
<1> SUFFICES ASSUME HInv, [HistoryNext]_historyVars PROVE Excused
  OBVIOUS
<1> USE ActorsApart DEF Excused, WriteOvertaken, UserLosesAdmin, HInv, HistoryTypeOK, Known, OwnerKnown, AdminKnown, StatusKnown, GrantKnown, Owners, Admins, Kinds, TypeOK, PCs, InFlight, Grants, VaultRoles, Roles, Actors, UserOps, AgentOps, OwnOps, Idle, GoTo, Done, Respond, Proceed, rows, Exists, Active
<1>1. CASE UNCHANGED historyVars
  BY <1>1 DEF historyVars, vars
<1>2. ASSUME NEW w \in Workers, NEW r \in Requests, NEW c \in Actors, Begin(w, r, c)
      PROVE Excused
  BY <1>2, RequestsType DEF Begin, RequestType
<1>3. ASSUME NEW w \in Workers, Authorize(w)
      PROVE Excused
  BY <1>3 DEF Authorize, Permitted, NextStep
<1>4. ASSUME NEW w \in Workers, ReadTarget(w)
      PROVE Excused
  BY <1>4 DEF ReadTarget, Acceptable, OwnerLeaves, AdminLeaves, Last
<1>5. ASSUME NEW w \in Workers, ReadCreator(w)
      PROVE Excused
  BY <1>5 DEF ReadCreator
<1>6. ASSUME NEW w \in Workers, GuardLastOwner(w)
      PROVE Excused
  BY <1>6 DEF GuardLastOwner, Last
<1>7. ASSUME NEW w \in Workers, GuardLastAdmin(w)
      PROVE Excused
  BY <1>7 DEF GuardLastAdmin
<1>8. ASSUME NEW w \in Workers, DropSessions(w)
      PROVE Excused
  BY <1>8 DEF DropSessions
<1>9. ASSUME NEW w \in Workers, SetRole(w)
      PROVE Excused
  BY <1>9 DEF SetRole, At
<1>10. ASSUME NEW w \in Workers, DeleteUser(w)
      PROVE Excused
  BY <1>10 DEF DeleteUser
<1>11. ASSUME NEW w \in Workers, CreateAgent(w)
      PROVE Excused
  BY <1>11 DEF CreateAgent, At
<1>12. ASSUME NEW w \in Workers, RevokeAgent(w)
      PROVE Excused
  BY <1>12 DEF RevokeAgent, At
<1>13. ASSUME NEW w \in Workers, RotateAgentToken(w)
      PROVE Excused
  BY <1>13 DEF RotateAgentToken, At
<1>14. ASSUME NEW w \in Workers, GrantVaultRole(w)
      PROVE Excused
  BY <1>14 DEF GrantVaultRole
<1>15. ASSUME NEW w \in Workers, RevokeVaultAccess(w)
      PROVE Excused
  BY <1>15 DEF RevokeVaultAccess, At
<1>16. ASSUME NEW w \in Workers, CreateUserSession(w)
      PROVE Excused
  BY <1>16 DEF CreateUserSession, At
<1>17. ASSUME NEW w \in Workers, CreateScopedSession(w)
      PROVE Excused
  BY <1>17 DEF CreateScopedSession, At
<1>18. ASSUME NEW w \in Workers, Fail(w)
      PROVE Excused
  BY <1>18 DEF Fail
<1>19. ASSUME NEW w \in Workers, TargetUnread(w)
      PROVE Excused
  BY <1>19 DEF TargetUnread
<1> QED
  BY <1>1, <1>2, <1>3, <1>4, <1>5, <1>6, <1>7, <1>8, <1>9, <1>10, <1>11, <1>12, <1>13, <1>14, <1>15, <1>16, <1>17, <1>18, <1>19 DEF HistoryNext, Step

(* Every step of the history keeps the invariant.                           *)
LEMMA HistoryStep == HInv /\ [HistoryNext]_historyVars => HInv'
<1> SUFFICES ASSUME HInv, [HistoryNext]_historyVars PROVE HInv'
  OBVIOUS
<1>1. [Next]_vars
  BY DEF HistoryNext, Next, historyVars
<1>2. TypeOK' /\ Kinds'
  BY <1>1, TypeStep, KindsStep DEF HInv
<1>3. CASE UNCHANGED historyVars
  BY <1>3, <1>2 DEF historyVars, vars, HInv, HistoryTypeOK, Known, OwnerKnown, AdminKnown, StatusKnown, GrantKnown, Owners, Admins
<1>4. ASSUME NEW w \in Workers,
             \/ Step(w) /\ Overtakes(w, {})
             \/ TargetUnread(w) /\ Overtakes(w, {"unread"})
      PROVE  HInv'
  <2>1. HistoryTypeOK'
    BY <1>4 DEF HInv, HistoryTypeOK, Overtakes, Written
  <2>2. Known(w)'
    BY <1>4, SelfKnows
  <2>3. ASSUME NEW v \in Workers, v # w PROVE Known(v)'
    BY <1>4, <2>3, OthersKnow
  <2> QED BY <1>2, <2>1, <2>2, <2>3 DEF HInv
<1> QED BY <1>3, <1>4 DEF HistoryNext

--------------------------------------------------------------------------------
(***************************************************************************)
(* The initial states, and the theorems.                                   *)
(***************************************************************************)
LEMMA InitHolds == Init => TypeOK /\ Kinds /\ Bound /\ OrphansBounded
<1> SUFFICES ASSUME Init PROVE TypeOK /\ Kinds /\ Bound /\ OrphansBounded
  OBVIOUS
<1> USE ActorsApart DEF Init, Idle, Actors, Roles, Grants, VaultRoles
<1>1. TypeOK
  BY DEF TypeOK, PCs
<1>2. Kinds
  BY DEF Kinds
<1>3. Bound
  BY DEF Bound, NoSessionOfDeletedUser, OneTokenPerAgent
<1>4. OrphansBounded
  <2>1. ASSUME NEW a \in Actors PROVE minted[a] + Cardinality(Minting(a)) < Cardinality(Workers)
    <3>1. Minting(a) = {} /\ minted[a] = 0
      BY DEF Minting
    <3>2. Cardinality(Workers) \in Nat /\ Cardinality(Workers) # 0
      BY WorkersFinite, FS_CardinalityType, FS_EmptySet
    <3>3. Cardinality(Minting(a)) = 0
      BY <3>1, FS_EmptySet
    <3> QED BY <3>1, <3>2, <3>3
  <2> QED BY <2>1 DEF OrphansBounded
<1> QED BY <1>1, <1>2, <1>3, <1>4

(* Types: the state of the actors and of every request in flight.          *)
THEOREM ActorsTypes == Spec => [](TypeOK /\ Kinds)
<1>1. Init => TypeOK /\ Kinds
  BY InitHolds
<1>2. TypeOK /\ Kinds /\ [Next]_vars => (TypeOK /\ Kinds)'
  BY TypeStep, KindsStep
<1> QED BY <1>1, <1>2, PTL DEF Spec

(* What Bound says holds always.                                           *)
LEMMA BoundHolds == Spec => []Bound
<1>1. Init => Bound
  BY InitHolds
<1>2. TypeOK /\ Kinds /\ Bound /\ [Next]_vars => Bound'
  BY BoundStep
<1> QED BY <1>1, <1>2, ActorsTypes, PTL DEF Spec

(* handleUserDelete, handleLogin: whatever overlaps, a deleted user has no
   session.                                                                *)
THEOREM DeletedHaveNoSession == Spec => []NoSessionOfDeletedUser
<1>1. Bound => NoSessionOfDeletedUser
  BY DEF Bound
<1> QED BY <1>1, BoundHolds, PTL

(* RotateAgentToken, RevokeAgent: an agent never has two tokens.           *)
THEOREM TokensBounded == Spec => []OneTokenPerAgent
<1>1. Bound => OneTokenPerAgent
  BY DEF Bound
<1> QED BY <1>1, BoundHolds, PTL

(* DeleteUser, RevokeAgent, handleScopedSession: the scoped tokens that
   survive their creator are fewer than the requests the server can serve
   at once.                                                                *)
THEOREM OrphansAreFew == Spec => []OrphansBounded
<1>1. Init => OrphansBounded
  BY InitHolds
<1>2. TypeOK /\ TypeOK' /\ Kinds /\ Bound /\ OrphansBounded /\ [Next]_vars => OrphansBounded'
  BY OrphanStep
<1> QED BY <1>1, <1>2, BoundHolds, ActorsTypes, PTL DEF Spec

(* The history keeps what an undisturbed request knows.                    *)
LEMMA HistoryHolds == HistorySpec => []HInv
<1>1. HistoryInit => HInv
  <2> SUFFICES ASSUME HistoryInit PROVE HInv
    OBVIOUS
  <2>1. TypeOK /\ Kinds
    BY InitHolds DEF HistoryInit
  <2>2. HistoryTypeOK
    BY DEF HistoryInit, HistoryTypeOK
  <2>3. ASSUME NEW w \in Workers PROVE Known(w)
    <3>1. pc[w] = "idle"
      BY DEF HistoryInit, Init
    <3> QED BY <3>1 DEF Known, OwnerKnown, AdminKnown, StatusKnown, GrantKnown
  <2> QED BY <2>1, <2>2, <2>3 DEF HInv
<1>2. HInv /\ [HistoryNext]_historyVars => HInv'
  BY HistoryStep
<1> QED BY <1>1, <1>2, PTL DEF HistorySpec

(* guardLastOwner holds for every request that no other overtakes: the
   last owner goes only to an overlap.                                     *)
THEOREM OwnerGoesToOverlap == HistorySpec => LastOwnerNeedsOverlap
<1>1. HInv /\ [HistoryNext]_historyVars
        => [Owners # {} /\ Owners' = {} => WriteOvertaken({"actors"})]_historyVars
  BY WritesExcused DEF Excused
<1> QED BY <1>1, HistoryHolds, PTL DEF HistorySpec, LastOwnerNeedsOverlap

(* The guards of handleVaultUserRemove and handleVaultUserSetRole hold for
   every request that no other overtakes and that could read the grant.    *)
THEOREM AdminGoesToOverlap == HistorySpec => LastAdminNeedsOverlap
<1>1. HInv /\ [HistoryNext]_historyVars
        => [UserLosesAdmin /\ Admins' = {} => WriteOvertaken({"grants", "unread"})]_historyVars
  BY WritesExcused DEF Excused
<1> QED BY <1>1, HistoryHolds, PTL DEF HistorySpec, LastAdminNeedsOverlap

(* handleAgentRotate revives a revoked agent only if the revocation came
   after its look at the status.                                           *)
THEOREM RevivalIsARace == HistorySpec => RevivedOnlyWhenOvertaken
<1>1. HInv /\ [HistoryNext]_historyVars
        => [\A a \in Agents :
              status[a] = "revoked" /\ tokens'[a] > tokens[a]
                => WriteOvertaken({"actors"})]_historyVars
  BY WritesExcused DEF Excused
<1> QED BY <1>1, HistoryHolds, PTL DEF HistorySpec, RevivedOnlyWhenOvertaken

================================================================================
