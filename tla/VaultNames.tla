----------------------------- MODULE VaultNames -----------------------------
(***************************************************************************)
(* Creation, renaming and deletion of vaults (server/handle_vaults.go),    *)
(* one store call at a time.  A request names its vault and is authorised  *)
(* on the row that has the name then; each later store call looks the name *)
(* up again.                                                               *)
(*                                                                         *)
(* Abstracted: Names holds only names that ValidateSlug and                *)
(* isReservedVaultName accept, Default among them.  What a vault contains  *)
(* is in VaultServer, its grants after the creation in Actors.             *)
(*                                                                         *)
(* Bounds: the rows that are ever inserted are in Vaults; each of Requests *)
(* is served once.                                                         *)
(***************************************************************************)
EXTENDS Integers, FiniteSets

CONSTANTS Vaults, Names, Default, Owner, Members, Requests, None

VARIABLES
  name,     \* the name of each row of vaults, or None
  unused,   \* the ids not given to a row yet
  admins,   \* the pairs of an actor and the vault it administers
  request   \* the requests, a record each

nameVars == <<name, unused, admins, request>>

Actors == Members \cup {Owner}
Carry(n) == {v \in Vaults : name[v] = n}
Taken(n) == Carry(n) # {}

(* The default vault, and others, each with the admin who created it.      *)
NamesInit ==
  \E rows \in SUBSET Vaults : \E default \in rows, creator \in [rows -> Actors] :
    /\ creator[default] = Owner
    /\ name \in [Vaults -> Names \cup {None}]
    /\ \A v \in Vaults : /\ name[v] = None <=> v \notin rows
                         /\ name[v] = Default <=> v = default
    /\ \A v, u \in rows : name[v] = name[u] => v = u
    /\ unused = Vaults \ rows
    /\ admins = {<<creator[v], v>> : v \in rows}
    /\ request = [r \in Requests |-> [at |-> "new"]]

Due(r, at) == request[r].at = at
Continue(r, at) == request' = [request EXCEPT ![r].at = at]
Respond(r) == request' = [request EXCEPT ![r] = [at |-> "done"]]

(***************************************************************************)
(* handleVaultCreate: the row, with the UNIQUE name, and then the grant of *)
(* its creator, whose error is dropped.                                    *)
(***************************************************************************)
CreateVault(r) ==
  /\ Due(r, "new")
  /\ \E actor \in Actors, n \in Names, v \in unused :
       IF Taken(n)
       THEN Respond(r) /\ UNCHANGED <<name, unused, admins>>
       ELSE /\ name' = [name EXCEPT ![v] = n]
            /\ unused' = unused \ {v}
            /\ request' = [request EXCEPT ![r] = [at |-> "grant", actor |-> actor, vault |-> v]]
            /\ UNCHANGED admins

GrantCreator(r) ==
  /\ Due(r, "grant")
  /\ \/ UNCHANGED admins
     \/ /\ name[request[r].vault] # None
        /\ admins' = admins \cup {<<request[r].actor, request[r].vault>>}
  /\ Respond(r)
  /\ UNCHANGED <<name, unused>>

(***************************************************************************)
(* resolveVaultForAdminOrOwner.  kept: whether the vault has had the name  *)
(* that the request gave ever since.                                       *)
(***************************************************************************)
ResolveVaultForAdminOrOwner(r) ==
  /\ Due(r, "new")
  /\ \E actor \in Actors, old \in Names \ {Default}, v \in Vaults :
       /\ v \in Carry(old)
       /\ <<actor, v>> \in admins \/ actor = Owner
       /\ \E next \in {"delete", "unique"}, new \in Names :
            request' = [request EXCEPT ![r] = [at |-> next, vault |-> v, old |-> old,
                                               new |-> new, hit |-> None, kept |-> "yes"]]
  /\ UNCHANGED <<name, unused, admins>>

Resolved(r) == request[r].at \in {"delete", "unique", "find", "update"}

(* A step that gives the rows other names tells the requests in flight.    *)
Renames(r, names) ==
  /\ name' = names
  /\ request' = [q \in Requests |->
       IF q = r THEN [at |-> "done"]
       ELSE IF Resolved(q)
         THEN [request[q] EXCEPT !.kept = IF names[request[q].vault] = request[q].old
                                            THEN @ ELSE "no"]
         ELSE request[q]]

(* DeleteVault looks the name up and deletes the row, whose grants cascade,*)
(* in one transaction.                                                     *)
DeleteVault(r) ==
  /\ Due(r, "delete")
  /\ IF Taken(request[r].old)
     THEN \E v \in Carry(request[r].old) :
            /\ Renames(r, [name EXCEPT ![v] = None])
            /\ admins' = {grant \in admins : grant[2] # v}
            /\ UNCHANGED unused
     ELSE Respond(r) /\ UNCHANGED <<name, unused, admins>>

(* handleVaultRename: a failed read counts as a free name.                 *)
CheckUnique(r) ==
  /\ Due(r, "unique")
  /\ Continue(r, "find") \/ (Taken(request[r].new) /\ Respond(r))
  /\ UNCHANGED <<name, unused, admins>>

(* RenameVault: the row that has the old name, then an UPDATE of its id.   *)
FindRow(r) ==
  /\ Due(r, "find")
  /\ IF Taken(request[r].old)
     THEN \E v \in Carry(request[r].old) :
            request' = [request EXCEPT ![r].at = "update", ![r].hit = v]
     ELSE Respond(r)
  /\ UNCHANGED <<name, unused, admins>>

(* The mutant trusts the check of the handler.                             *)
UpdateUnchecked(r) ==
  /\ Due(r, "update")
  /\ IF name[request[r].hit] # None
     THEN Renames(r, [name EXCEPT ![request[r].hit] = request[r].new])
     ELSE Respond(r) /\ UNCHANGED name
  /\ UNCHANGED <<unused, admins>>

UpdateName(r) ==
  /\ Due(r, "update")
  /\ IF name[request[r].hit] # None /\ Carry(request[r].new) \subseteq {request[r].hit}
     THEN Renames(r, [name EXCEPT ![request[r].hit] = request[r].new])
     ELSE Respond(r) /\ UNCHANGED name
  /\ UNCHANGED <<unused, admins>>

Work(r) ==
  \/ CreateVault(r) \/ GrantCreator(r)
  \/ ResolveVaultForAdminOrOwner(r) \/ DeleteVault(r)
  \/ CheckUnique(r) \/ FindRow(r) \/ UpdateName(r)

NamesNext == \E r \in Requests : Work(r)
NamesSpec == NamesInit /\ [][NamesNext]_nameVars

-----------------------------------------------------------------------------
(* A request that was authorised on one vault changes another one only     *)
(* when somebody else has taken the name from the first in between: two    *)
(* requests that pass the check of the new name together never leave two   *)
(* vaults with one name (handle_vaults.go:494-501, sqlite.go:250-298).     *)
Hits(r, v) == Due(r, "done")' /\ Resolved(r) /\ name'[v] # name[v]

AuthorisedUnlessMoved ==
  [][\A r \in Requests, v \in Vaults :
       Hits(r, v) => request[r].vault = v \/ request[r].kept = "no"]_nameVars

(* Every change of a row is by a request that was authorised on this row   *)
(* (handle_vaults.go:16-18).                                               *)
ActsOnAuthorised ==
  [][\A r \in Requests, v \in Vaults : Hits(r, v) => request[r].vault = v]_nameVars

(* "Creator becomes vault admin" (handle_vaults.go:335): a vault that is   *)
(* there, and that no request is still creating, has an admin.             *)
CreatorIsAdmin ==
  \A v \in Vaults :
    name[v] # None =>
      (\E actor \in Actors : <<actor, v>> \in admins)
      \/ (\E r \in Requests : Due(r, "grant") /\ request[r].vault = v)
=============================================================================
