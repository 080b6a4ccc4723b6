--------------------------------- MODULE Vault ---------------------------------
(***************************************************************************)
(* What one vault promises its callers, with every request atomic.         *)
(*                                                                         *)
(* The rows of the database that belong to the vault: whether it exists,   *)
(* its service list, its credentials and its proposals.  Each action is    *)
(* one whole request taking effect at an instant.  VaultServer, where a    *)
(* request is a sequence of store calls that interleave with those of      *)
(* other requests, is shown to implement this module: two concurrent edits *)
(* of the service list are never lost into each other, and an approval     *)
(* changes services, credentials and status together, against the list as  *)
(* it is at that instant.                                                  *)
(*                                                                         *)
(* Two things a caller might expect are NOT promised, because the code     *)
(* does not keep them: Reject may hit a proposal that is no longer         *)
(* pending, and Approve may hit one older than the TTL.                    *)
(***************************************************************************)
EXTENDS ServiceList

CONSTANTS Values,     \* credential plaintexts
          Edits,      \* direct edits of the service list
          Overrides   \* reviewers' credential values, by key

ASSUME EditsType == Edits \subseteq EditType
ASSUME OverridesType == Overrides \subseteq [Keys -> Values \cup {NoValue}]

VARIABLES exists, config, creds, proposals

vars == <<exists, config, creds, proposals>>

Statuses == {"pending", "applied", "rejected", "expired"}

NoCredentials == [k \in Keys |-> NoValue]

(***************************************************************************)
(* Proposal rows.  Ids are consecutive within a vault: MAX(id) + 1.        *)
(* applies is a ghost: the number of times the proposal's effects were     *)
(* committed.                                                              *)
(***************************************************************************)
Ids == DOMAIN proposals
NextId == IF Ids = {} THEN 1 ELSE Max(Ids) + 1

NewProposal(services, slots) ==
  [status |-> "pending", old |-> FALSE, services |-> services, slots |-> slots,
   applies |-> 0]

WithProposal(id, row) ==
  [i \in Ids \cup {id} |-> IF i = id THEN row ELSE proposals[i]]

Pending == {i \in Ids : proposals[i].status = "pending"}

--------------------------------------------------------------------------------
Init ==
  /\ exists = TRUE
  /\ config = <<>>
  /\ creds = NoCredentials
  /\ proposals = <<>>

(* A valid proposal, its names resolved, becomes the next row. *)
Create ==
  LET row == proposals'[NextId]
  IN /\ exists
     /\ NextId \in DOMAIN proposals'
     /\ proposals' = WithProposal(NextId, row)
     /\ row = NewProposal(row.services, row.slots)
     /\ ValidProposal(row.services, row.slots)
     /\ UNCHANGED <<exists, config, creds>>

(* Merge, credentials and status, all or nothing, from pending only. *)
Approve(id, overrides) ==
  LET p == proposals[id]
  IN /\ exists
     /\ id \in Pending
     /\ Resolvable(p.slots, overrides)
     /\ config' = MergeServices(config, Normalize(p.services, config))
     /\ creds' = CredentialsAfter(creds, p.slots, overrides)
     /\ proposals' = [proposals EXCEPT ![id].status = "applied", ![id].applies = @ + 1]
     /\ UNCHANGED exists

Reject(id) ==
  /\ proposals' = [proposals EXCEPT ![id].status = "rejected"]
  /\ UNCHANGED <<exists, config, creds>>

ExpireAnyOld ==
  /\ proposals' = [i \in Ids |->
                     IF proposals[i].old
                     THEN [proposals[i] EXCEPT !.status = "expired"]
                     ELSE proposals[i]]
  /\ UNCHANGED <<exists, config, creds>>

(* The listing handler expires every pending proposal past its TTL. *)
Expire ==
  /\ proposals' = [i \in Ids |->
                     IF proposals[i].status = "pending" /\ proposals[i].old
                     THEN [proposals[i] EXCEPT !.status = "expired"]
                     ELSE proposals[i]]
  /\ UNCHANGED <<exists, config, creds>>

Age(id) ==
  /\ proposals' = [proposals EXCEPT ![id].old = TRUE]
  /\ UNCHANGED <<exists, config, creds>>

EditServices(edit) ==
  /\ exists
  /\ EditAllowed(config, edit)
  /\ config' = Edited(config, edit)
  /\ UNCHANGED <<exists, creds, proposals>>

SetCredential(k, v) ==
  /\ exists
  /\ creds' = [creds EXCEPT ![k] = v]
  /\ UNCHANGED <<exists, config, proposals>>

DeleteCredential(k) ==
  /\ creds[k] # NoValue
  /\ creds' = [creds EXCEPT ![k] = NoValue]
  /\ UNCHANGED <<exists, config, proposals>>

(* The vault's row goes, and by ON DELETE CASCADE everything that hangs on it. *)
Delete ==
  /\ exists
  /\ exists' = FALSE
  /\ config' = <<>>
  /\ creds' = NoCredentials
  /\ proposals' = <<>>

Next ==
  \/ Create
  \/ \E id \in Ids : \/ \E o \in Overrides : Approve(id, o)
                     \/ Reject(id)
                     \/ Age(id)
  \/ Expire
  \/ \E e \in Edits : EditServices(e)
  \/ \E k \in Keys : DeleteCredential(k) \/ \E v \in Values : SetCredential(k, v)
  \/ Delete

Spec == Init /\ [][Next]_vars
================================================================================
