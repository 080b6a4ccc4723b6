------------------------------ MODULE VaultServer ------------------------------
(***************************************************************************)
(* The HTTP handlers that work on one vault, as concurrent workers.        *)
(*                                                                         *)
(* Sources: internal/server/handle_proposals.go, handle_services.go,       *)
(* handle_credentials.go, and the store methods they call.                 *)
(*                                                                         *)
(* SQLite runs with one connection, so a store method (one statement, or   *)
(* one transaction) is atomic; between two store calls of a handler any    *)
(* other handler may run.  A worker is a goroutine serving one request at  *)
(* a time: pc is its next store call, req the request and what the handler *)
(* has computed from it, snap the service list it loaded.  lock is the     *)
(* vault's entry of Server.vaultServiceMu.                                 *)
(*                                                                         *)
(* Reads that the same handler makes back to back, and whose result cannot *)
(* change between them except by the vault disappearing (GetVault, then    *)
(* GetProposal, then the immutable proposal_credentials), are one step.    *)
(* Authorisation is not part of this module.                               *)
(***************************************************************************)
EXTENDS Vault

CONSTANTS
  Workers,             \* concurrent requests
  NoWorker,
  Bodies,              \* proposals agents send: [services, slots]
  CredentialRequests,  \* [op |-> "set" or "delete", todo |-> sequence of <<key, value>>]
  MaxPendingProposals, \* maxPendingProposals
  MaxProposals         \* bound of the model: rows ever created

ASSUME WorkersFinite == IsFiniteSet(Workers)
ASSUME NoWorkerFresh == NoWorker \notin Workers
ASSUME MaxPendingPositive == MaxPendingProposals \in Nat \ {0}

ASSUME BodiesType ==
  Bodies \subseteq
    [services : Seq(EntryType), slots : [Keys -> Values \cup SlotStates]]

(* A request names at least one key; setting gives each a value. *)
ASSUME CredentialRequestsType ==
  CredentialRequests \subseteq
    [op : {"set"}, todo : Seq(Keys \X Values) \ {<<>>}]
      \cup [op : {"delete"}, todo : Seq(Keys \X {NoValue}) \ {<<>>}]

VARIABLES lock, pc, req, snap

workerVars == <<lock, pc, req, snap>>
serverVars == <<exists, config, creds, proposals, lock, pc, req, snap>>

Idle == [op |-> "none"]

(* Next store call of a worker; those of InLock are made holding the lock. *)
InLock == {"load", "apply", "save", "unlock"}
PCs == InLock \cup {"idle", "refs", "count", "insert", "lock", "reject", "credential"}

ServerInit ==
  /\ Init
  /\ lock = NoWorker
  /\ pc = [w \in Workers |-> "idle"]
  /\ req = [w \in Workers |-> Idle]
  /\ snap = [w \in Workers |-> <<>>]

GoTo(w, label) == pc' = [pc EXCEPT ![w] = label]

Begin(w, label, r) ==
  /\ pc[w] = "idle"
  /\ GoTo(w, label)
  /\ req' = [req EXCEPT ![w] = r]
  /\ UNCHANGED <<lock, snap>>

(* The handler responds; what it held locally is gone. *)
Done(w) ==
  /\ GoTo(w, "idle")
  /\ req' = [req EXCEPT ![w] = Idle]
  /\ UNCHANGED <<lock, snap>>

Respond(w) == Done(w) /\ UNCHANGED <<exists, config, creds, proposals>>

Proceed(w, label) ==
  GoTo(w, label) /\ UNCHANGED <<exists, config, creds, proposals, lock, req, snap>>

--------------------------------------------------------------------------------
(***************************************************************************)
(* handleProposalCreate: load services and normalise, check references,    *)
(* count, insert.  It takes no lock.                                       *)
(***************************************************************************)
RoomForProposal ==
  Cardinality(Ids) + Cardinality({w \in Workers : req[w].op = "create"}) < MaxProposals

StartCreate(w, body) ==
  LET named == Normalize(body.services, config)
  IN /\ exists
     /\ RoomForProposal
     /\ Normalizable(body.services, config)
     /\ ValidProposal(named, body.slots)
     /\ Begin(w, "refs", [op |-> "create", services |-> named, slots |-> body.slots])
     /\ UNCHANGED <<exists, config, creds, proposals>>

(* listCredentialKeys returns no keys when the store call fails. *)
StoredKeys == {k \in Keys : creds[k] # NoValue}

CheckRefs(w, listed) ==
  /\ pc[w] = "refs"
  /\ IF ValidCredentialRefs(req[w].services, req[w].slots, listed)
     THEN Proceed(w, "count")
     ELSE Respond(w)

CountAllowsOneMore(w) ==
  /\ pc[w] = "count"
  /\ IF Cardinality(Pending) <= MaxPendingProposals
     THEN Proceed(w, "insert")
     ELSE Respond(w)

CountPending(w) ==
  /\ pc[w] = "count"
  /\ IF Cardinality(Pending) < MaxPendingProposals
     THEN Proceed(w, "insert")
     ELSE Respond(w)

(* CreateProposal: without the vault's row the foreign key refuses it. *)
InsertProposal(w) ==
  /\ pc[w] = "insert"
  /\ IF exists
     THEN proposals' = WithProposal(NextId, NewProposal(req[w].services, req[w].slots))
     ELSE UNCHANGED proposals
  /\ UNCHANGED <<exists, config, creds>>
  /\ Done(w)

--------------------------------------------------------------------------------
(***************************************************************************)
(* handleAdminProposalApprove.  The pending check and the credential       *)
(* values come from a read before the lock; the handler keeps its copy of  *)
(* the proposal.                                                           *)
(***************************************************************************)
StartApprove(w, id, overrides) ==
  /\ exists
  /\ id \in Pending
  /\ Resolvable(proposals[id].slots, overrides)
  /\ Begin(w, "lock", [op |-> "approve", id |-> id, overrides |-> overrides,
                       services |-> proposals[id].services,
                       slots |-> proposals[id].slots])
  /\ UNCHANGED <<exists, config, creds, proposals>>

(* The /services handlers: the two blind writes load nothing. *)
StartEdit(w, edit) ==
  /\ exists
  /\ edit.op = "set" => ValidServices(edit.services)
  /\ Begin(w, "lock", [op |-> "edit", edit |-> edit])
  /\ UNCHANGED <<exists, config, creds, proposals>>

BlindEdit(r) == r.op = "edit" /\ r.edit.op \in {"set", "clear"}

AfterLock(r) == IF BlindEdit(r) THEN "save" ELSE "load"

LockIgnoresHolder(w) ==
  /\ pc[w] = "lock"
  /\ lock' = w
  /\ GoTo(w, AfterLock(req[w]))
  /\ UNCHANGED <<exists, config, creds, proposals, req, snap>>

AcquireLock(w) ==
  /\ pc[w] = "lock"
  /\ lock = NoWorker
  /\ lock' = w
  /\ GoTo(w, AfterLock(req[w]))
  /\ UNCHANGED <<exists, config, creds, proposals, req, snap>>

(* What the handler does with the list it loaded: refuse, or go on to write. *)
Acceptable(r, list) ==
  IF r.op = "edit" THEN EditAllowed(list, r.edit) ELSE Normalizable(r.services, list)

LoadForgetsUnlock(w) ==
  /\ pc[w] = "load"
  /\ IF exists /\ Acceptable(req[w], config)
     THEN /\ GoTo(w, IF req[w].op = "edit" THEN "save" ELSE "apply")
          /\ snap' = [snap EXCEPT ![w] = config]
     ELSE /\ GoTo(w, "idle")
          /\ UNCHANGED snap
  /\ UNCHANGED <<exists, config, creds, proposals, lock, req>>

LoadServices(w) ==
  /\ pc[w] = "load"
  /\ IF exists /\ Acceptable(req[w], config)
     THEN /\ GoTo(w, IF req[w].op = "edit" THEN "save" ELSE "apply")
          /\ snap' = [snap EXCEPT ![w] = config]
     ELSE /\ GoTo(w, "unlock")
          /\ UNCHANGED snap
  /\ UNCHANGED <<exists, config, creds, proposals, lock, req>>

CommitWithoutRollback(w, guard) ==
  LET r == req[w]
  IN /\ config' = MergeServices(snap[w], Normalize(r.services, snap[w]))
     /\ creds' = CredentialsAfter(creds, r.slots, r.overrides)
     /\ proposals' = IF guard
                     THEN [proposals EXCEPT ![r.id].status = "applied",
                                            ![r.id].applies = @ + 1]
                     ELSE proposals

(* ApplyProposal: one transaction, rolled back unless the row is pending. *)
CommitApproval(w, guard) ==
  LET r == req[w]
  IN IF guard
     THEN /\ config' = MergeServices(snap[w], Normalize(r.services, snap[w]))
          /\ creds' = CredentialsAfter(creds, r.slots, r.overrides)
          /\ proposals' = [proposals EXCEPT ![r.id].status = "applied",
                                            ![r.id].applies = @ + 1]
     ELSE UNCHANGED <<config, creds, proposals>>

ApplyProposal(w) ==
  /\ pc[w] = "apply"
  /\ CommitApproval(w, req[w].id \in Pending)
  /\ GoTo(w, "unlock")
  /\ UNCHANGED <<exists, lock, req, snap>>

(* SetBrokerConfig: an upsert that the foreign key refuses without the vault. *)
SaveServices(w) ==
  /\ pc[w] = "save"
  /\ config' = IF exists THEN Edited(snap[w], req[w].edit) ELSE config
  /\ GoTo(w, "unlock")
  /\ UNCHANGED <<exists, creds, proposals, lock, req, snap>>

(* The deferred unlock, on every way out of the handler. *)
Unlock(w) ==
  /\ pc[w] = "unlock"
  /\ lock' = NoWorker
  /\ GoTo(w, "idle")
  /\ req' = [req EXCEPT ![w] = Idle]
  /\ snap' = [snap EXCEPT ![w] = <<>>]
  /\ UNCHANGED <<exists, config, creds, proposals>>

--------------------------------------------------------------------------------
(* handleAdminProposalReject: the pending check is a read of its own. *)
StartReject(w, id) ==
  /\ exists
  /\ id \in Pending
  /\ Begin(w, "reject", [op |-> "reject", id |-> id])
  /\ UNCHANGED <<exists, config, creds, proposals>>

UpdateProposalStatus(w) ==
  /\ pc[w] = "reject"
  /\ proposals' = IF req[w].id \in Ids
                  THEN [proposals EXCEPT ![req[w].id].status = "rejected"]
                  ELSE proposals
  /\ UNCHANGED <<exists, config, creds>>
  /\ Done(w)

(* handleAdminProposalList expires lazily before it lists. *)
ListProposals ==
  /\ Expire
  /\ UNCHANGED workerVars

(* Seven days pass for a proposal. *)
PassTTL(id) ==
  /\ ~proposals[id].old
  /\ Age(id)
  /\ UNCHANGED workerVars

--------------------------------------------------------------------------------
(***************************************************************************)
(* handleCredentialsSet and handleCredentialsDelete: one store call per    *)
(* key.  The first that fails ends the request; the earlier ones stay.     *)
(***************************************************************************)
StartCredentials(w, r) ==
  /\ exists
  /\ Begin(w, "credential", r)
  /\ UNCHANGED <<exists, config, creds, proposals>>

StoreCredential(w) ==
  LET item == Head(req[w].todo)
      k == item[1]
      ok == IF req[w].op = "set" THEN exists ELSE creds[k] # NoValue
      rest == Tail(req[w].todo)
  IN /\ pc[w] = "credential"
     /\ creds' = IF ok THEN [creds EXCEPT ![k] = item[2]] ELSE creds
     /\ IF ok /\ rest # <<>>
        THEN req' = [req EXCEPT ![w].todo = rest] /\ UNCHANGED <<lock, pc, snap>>
        ELSE Done(w)
     /\ UNCHANGED <<exists, config, proposals>>

(* handleVaultDelete takes no service lock. *)
DeleteVault ==
  /\ Delete
  /\ UNCHANGED workerVars

--------------------------------------------------------------------------------
(***************************************************************************)
(* A store call fails (the client went away, the disk is full): the        *)
(* handler responds with an error, through its deferred unlock.  Waiting   *)
(* for the mutex cannot fail, and a failed key listing is CheckRefs with   *)
(* no keys.                                                                *)
(***************************************************************************)
StoreError(w) ==
  /\ pc[w] \in {"count", "insert", "load", "apply", "save", "reject", "credential"}
  /\ IF pc[w] \in InLock THEN Proceed(w, "unlock") ELSE Respond(w)

(* The process dies and restarts: the database stays, the workers do not. *)
Crash ==
  /\ \E w \in Workers : pc[w] # "idle"
  /\ lock' = NoWorker
  /\ pc' = [w \in Workers |-> "idle"]
  /\ req' = [w \in Workers |-> Idle]
  /\ snap' = [w \in Workers |-> <<>>]
  /\ UNCHANGED <<exists, config, creds, proposals>>

Start(w) ==
  \/ \E b \in Bodies : StartCreate(w, b)
  \/ \E id \in Ids, o \in Overrides : StartApprove(w, id, o)
  \/ \E id \in Ids : StartReject(w, id)
  \/ \E e \in Edits : StartEdit(w, e)
  \/ \E r \in CredentialRequests : StartCredentials(w, r)

Work(w) ==
  \/ \E listed \in {StoredKeys, {}} : CheckRefs(w, listed)
  \/ CountPending(w)
  \/ InsertProposal(w)
  \/ LoadServices(w)
  \/ ApplyProposal(w)
  \/ SaveServices(w)
  \/ Unlock(w)
  \/ UpdateProposalStatus(w)
  \/ StoreCredential(w)

ServerNext ==
  \/ \E w \in Workers : Start(w) \/ AcquireLock(w) \/ Work(w) \/ StoreError(w)
  \/ \E id \in Ids : PassTTL(id)
  \/ ListProposals
  \/ DeleteVault
  \/ Crash

ServerSpec == ServerInit /\ [][ServerNext]_serverVars

(***************************************************************************)
(* Go runs every goroutine that can run, and sync.Mutex hands the lock to  *)
(* a waiter that has waited long (starvation mode), hence strong fairness  *)
(* for the acquisition only.  Nothing makes clients send requests, store   *)
(* calls fail or the process die.                                          *)
(***************************************************************************)
Fairness ==
  \A w \in Workers : WF_serverVars(Work(w)) /\ SF_serverVars(AcquireLock(w))

FairServerSpec == ServerSpec /\ Fairness

--------------------------------------------------------------------------------
(* Every variable has its type; a service list is a list of services. *)
ControlTypeOK ==
  /\ exists \in BOOLEAN
  /\ lock \in Workers \cup {NoWorker}
  /\ pc \in [Workers -> PCs]
  /\ IsFiniteSet(Ids) /\ Ids = 1..Cardinality(Ids)
  /\ \A i \in Ids : proposals[i].status \in Statuses /\ proposals[i].old \in BOOLEAN

DataTypeOK ==
  /\ creds \in [Keys -> Values \cup {NoValue}]
  /\ config \in Seq(ServiceType)
  /\ snap \in [Workers -> Seq(ServiceType)]
  /\ \A i \in Ids : /\ proposals[i].services \in Seq(EntryType)
                     /\ proposals[i].slots \in [Keys -> Values \cup SlotStates]

TypeOK == ControlTypeOK /\ DataTypeOK

(* No lost update (the purpose of lockVaultServices): when a handler writes *)
(* the list it edited, the vault's list is still the one it loaded, unless  *)
(* the vault is gone and the write is refused.                              *)
NoLostServiceUpdate ==
  \A w \in Workers :
    pc[w] \in {"apply", "save"} /\ ~BlindEdit(req[w]) /\ exists => snap[w] = config

(* However many reviewers approve one proposal at the same time, its       *)
(* effects reach the vault once (the status guard of ApplyProposal).       *)
AppliedAtMostOnce == \A i \in Ids : proposals[i].applies <= 1

(* A proposal shown as applied was applied, and one shown as pending or    *)
(* expired was not: no store method sets a status without its effects.     *)
StatusMatchesEffects ==
  \A i \in Ids :
    /\ proposals[i].status = "applied" => proposals[i].applies = 1
    /\ proposals[i].status \in {"pending", "expired"} => proposals[i].applies = 0

(* Counting and inserting are two store calls, so the cap can be exceeded, *)
(* but by no more than the requests in flight at that moment less one.     *)
PendingOvershootBounded ==
  Cardinality(Pending) < MaxPendingProposals + Cardinality(Workers)

(* Nothing of a deleted vault comes back, although handlers that started   *)
(* before the deletion still hold its id and write with it.                *)
NoOrphanRows ==
  ~exists => config = <<>> /\ creds = NoCredentials /\ proposals = <<>>

(* Names stay the identity of services: non-empty and distinct, whatever   *)
(* mix of approvals (rebinding stale names) and direct edits got there.    *)
ServiceNamesAreKeys ==
  NamesDistinct(config) /\ NoName \notin ServiceNames(config)

(* A decided proposal keeps its status or turns rejected: it is never       *)
(* pending again, and a rejected or expired one is never applied.           *)
DecidedStaysDecided ==
  [][\A i \in Ids \cap DOMAIN proposals' :
       proposals[i].status # "pending" =>
         proposals'[i].status \in {proposals[i].status, "rejected"}]_serverVars

(* Every interleaving of store calls looks like whole requests taking      *)
(* effect one at a time: the module Vault.                                 *)
ImplementsVault == Spec

(* Every request ends: nobody holds or awaits the vault's lock for ever.   *)
RequestsEnd == \A w \in Workers : pc[w] # "idle" ~> pc[w] = "idle"

--------------------------------------------------------------------------------
(* Statements of the documentation that the code does not keep.            *)

(* docs/learn/proposals.mdx: "pending -> rejected"; a rejected proposal    *)
(* has left the vault as it was.                                           *)
RejectedHasNoEffect ==
  \A i \in Ids : proposals[i].status = "rejected" => proposals[i].applies = 0

(* docs/learn/proposals.mdx: "Max pending proposals per vault".            *)
PendingCap == Cardinality(Pending) <= MaxPendingProposals

(* docs/learn/proposals.mdx: "pending -> expired (7-day TTL elapsed)": a   *)
(* proposal past its TTL is not accepted for approval any more.            *)
NoApprovalAfterTTL ==
  [][\A w \in Workers :
       req[w] = Idle /\ req'[w].op = "approve" => ~proposals[req'[w].id].old]_serverVars

(* docs/learn/services.mdx: "Every service must include an auth config".   *)
EveryServiceHasAuth == \A i \in Positions(config) : config[i].auth # NoAuth
================================================================================
