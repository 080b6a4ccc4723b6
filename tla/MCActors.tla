-------------------------------- MODULE MCActors --------------------------------
(* Two users, one agent and two workers for TLC.                            *)
EXTENDS ActorsHistory, TLC

CONSTANTS u1, u2, a1

MCUsers == {u1, u2}
MCAgents == {a1}

Alike == Permutations(Users) \cup Permutations(Workers)

OnUsers(op, r, g) == {Op(op, u, r, g) : u \in Users}
OnAgents(op, r, g) == {Op(op, a, r, g) : a \in Agents}
Own(op) == {Op(op, NoActor, "member", "none")}

Demote == OnUsers("setRole", "member", "none") \cup OnAgents("setRole", "no-access", "none")
Promote == OnUsers("setRole", "owner", "none")
Leave == OnUsers("deleteUser", "member", "none") \cup Own("deleteAccount")
CreateOwner == OnAgents("create", "owner", "admin")
CreateMember == OnAgents("create", "member", "member")
Revoke == OnAgents("revoke", "member", "none")
Rotate == OnAgents("rotate", "member", "none")
Mint == Own("mint")
Login == Own("login")
Join == Own("join")
DropAdmins == OnUsers("vaultRemove", "member", "none")
                \cup OnUsers("vaultSetRole", "member", "member")

(* Requests that collide.  A behaviour has those of one group in every
   worker.                                                                   *)
Colliding ==
  [owners |-> OnUsers("setRole", "member", "none") \cup Promote \cup Leave,
   agentOwners |-> Demote \cup CreateOwner \cup Revoke,
   agentTokens |-> CreateMember \cup Revoke \cup Rotate \cup Mint,
   sessions |-> Leave \cup Login \cup Mint,
   admins |-> DropAdmins \cup OnUsers("vaultAdd", "member", "member") \cup Join,
   agentGrants |-> CreateOwner \cup OnAgents("vaultAdd", "member", "admin")
                     \cup OnAgents("vaultRemove", "member", "none")
                     \cup OnUsers("vaultRemove", "member", "none")]

AllRequests == UNION {Colliding[g] : g \in DOMAIN Colliding}

VARIABLE group

MCInit ==
  /\ HistoryInit
  /\ group \in DOMAIN Colliding
  /\ IF group \in {"admins", "agentGrants"} THEN Cardinality(Owners) = 1 ELSE Admins = Users

InGroup ==
  \A w \in Workers : pc'[w] = "authorize" =>
    \E r \in Colliding[group] :
      /\ r.op = req'[w].op /\ r.role = req'[w].role /\ r.grant = req'[w].grant
      /\ r.target \in {req'[w].target, NoActor}

MCSpec == MCInit /\ [][HistoryNext /\ InGroup /\ UNCHANGED group]_<<historyVars, group>>

================================================================================
