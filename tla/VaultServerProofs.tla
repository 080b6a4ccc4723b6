--------------------------- MODULE VaultServerProofs ---------------------------
(***************************************************************************)
(* Theorems about VaultServer, for any number of workers, any proposals,   *)
(* edits and credential requests, and about ListHistory, for any lists,    *)
(* proposals and requests: merging, the matcher, and the healing of names. *)
(***************************************************************************)
EXTENDS VaultServer, ListHistory, FiniteSetTheorems, WellFoundedInduction, TLAPS

(* A row is a record with the five fields of NewProposal. *)
IsRow(p) ==
  /\ p = [status |-> p.status, old |-> p.old, services |-> p.services,
          slots |-> p.slots, applies |-> p.applies]
  /\ p.status \in Statuses
  /\ p.old \in BOOLEAN

Shape ==
  /\ exists \in BOOLEAN
  /\ lock \in Workers \cup {NoWorker}
  /\ pc \in [Workers -> PCs]
  /\ DOMAIN req = Workers
  /\ DOMAIN snap = Workers

Rows ==
  /\ \E n \in Nat : Ids = 1..n
  /\ \A i \in Ids : IsRow(proposals[i])

(* The mutex: its holder is the one worker inside the locked section. *)
LockInv == \A w \in Workers : pc[w] \in InLock <=> lock = w

Approving(w) == pc[w] \in {"lock", "load", "apply"} /\ req[w].op = "approve"
Editing(w) == pc[w] \in {"lock", "load", "save"} /\ req[w].op = "edit"

(* What a handler has computed is still right when it is used. *)
CreateInv ==
  \A w \in Workers : pc[w] \in {"refs", "count", "insert"} =>
    ValidProposal(req[w].services, req[w].slots)

(* The handler's copy of a proposal equals the row, which never changes.   *)
ApproveInv ==
  \A w \in Workers : Approving(w) =>
    /\ req[w].overrides \in Overrides
    /\ exists =>
         /\ req[w].id \in Ids
         /\ req[w].services = proposals[req[w].id].services
         /\ req[w].slots = proposals[req[w].id].slots
         /\ Resolvable(req[w].slots, req[w].overrides)

EditInv ==
  \A w \in Workers : Editing(w) =>
    /\ req[w].edit \in Edits
    /\ req[w].edit.op = "set" => ValidServices(req[w].edit.services)
    /\ pc[w] = "save" => BlindEdit(req[w]) \/ EditAllowed(snap[w], req[w].edit)

PhaseInv ==
  \A w \in Workers :
    /\ pc[w] = "apply" => req[w].op = "approve"
    /\ pc[w] = "save" => req[w].op = "edit"
    /\ pc[w] \in {"lock", "load"} => req[w].op \in {"approve", "edit"}

CredentialInv ==
  \A w \in Workers : pc[w] = "credential" =>
    req[w] \in [op : {"set"}, todo : Seq(Keys \X Values) \ {<<>>}]
                 \cup [op : {"delete"}, todo : Seq(Keys \X {NoValue}) \ {<<>>}]

EffectsInv ==
  \A i \in Ids :
    /\ proposals[i].applies \in {0, 1}
    /\ proposals[i].status = "applied" => proposals[i].applies = 1
    /\ proposals[i].status \in {"pending", "expired"} => proposals[i].applies = 0

IInv ==
  /\ Shape /\ Rows /\ LockInv /\ PhaseInv
  /\ CreateInv /\ ApproveInv /\ EditInv /\ CredentialInv
  /\ NoLostServiceUpdate /\ NoOrphanRows /\ EffectsInv

--------------------------------------------------------------------------------
(***************************************************************************)
(* The control state and the mutex.                                        *)
(***************************************************************************)

(* The initial state satisfies every part of the invariant.                *)
LEMMA InitIInv == ServerInit => IInv
<1> SUFFICES ASSUME ServerInit PROVE IInv
  OBVIOUS
<1> USE DEF ServerInit, Init, Ids, Idle
<1>1. Shape
  BY DEF Shape, PCs
<1>2. Rows
  <2>1. DOMAIN proposals = 1..0
    OBVIOUS
  <2> QED BY <2>1 DEF Rows
<1>3. LockInv /\ PhaseInv /\ CreateInv /\ CredentialInv
  BY NoWorkerFresh DEF LockInv, PhaseInv, CreateInv, CredentialInv, InLock
<1>4. ApproveInv /\ EditInv
  BY DEF ApproveInv, EditInv, Approving, Editing
<1>5. NoLostServiceUpdate /\ NoOrphanRows /\ EffectsInv
  <2>1. Ids = {}
    OBVIOUS
  <2> QED BY <2>1 DEF NoLostServiceUpdate, NoOrphanRows, EffectsInv
<1> QED BY <1>1, <1>2, <1>3, <1>4, <1>5 DEF IInv

(* The helpers that move a worker on, as seen by the control invariants.   *)
LEMMA ShapeStep == Shape /\ ServerNext => Shape'
<1> SUFFICES ASSUME Shape, ServerNext PROVE Shape'
  OBVIOUS
<1> USE DEF Shape, PCs, InLock, GoTo, Done, Respond, Proceed, Begin
<1>1. ASSUME NEW w \in Workers, Start(w) PROVE Shape'
  BY <1>1 DEF Start, StartCreate, StartApprove, StartReject, StartEdit, StartCredentials
<1>2. ASSUME NEW w \in Workers, AcquireLock(w) PROVE Shape'
  BY <1>2 DEF AcquireLock, AfterLock
<1>3. ASSUME NEW w \in Workers, Work(w) PROVE Shape'
  <2>1. CASE \E listed \in {StoredKeys, {}} : CheckRefs(w, listed)
    BY <2>1 DEF CheckRefs
  <2>2. CASE CountPending(w)
    BY <2>2 DEF CountPending
  <2>3. CASE InsertProposal(w)
    BY <2>3 DEF InsertProposal
  <2>4. CASE LoadServices(w)
    BY <2>4 DEF LoadServices
  <2>5. CASE ApplyProposal(w) \/ SaveServices(w)
    BY <2>5 DEF ApplyProposal, SaveServices
  <2>6. CASE Unlock(w)
    BY <2>6 DEF Unlock
  <2>7. CASE UpdateProposalStatus(w)
    BY <2>7 DEF UpdateProposalStatus
  <2>8. CASE StoreCredential(w)
    BY <2>8 DEF StoreCredential
  <2> QED BY <1>3, <2>1, <2>2, <2>3, <2>4, <2>5, <2>6, <2>7, <2>8 DEF Work
<1>4. ASSUME NEW w \in Workers, StoreError(w) PROVE Shape'
  BY <1>4 DEF StoreError
<1>5. CASE \E id \in Ids : PassTTL(id)
  BY <1>5 DEF PassTTL, Age, workerVars
<1>6. CASE ListProposals
  BY <1>6 DEF ListProposals, Expire, workerVars
<1>7. CASE DeleteVault
  BY <1>7 DEF DeleteVault, Delete, workerVars
<1>8. CASE Crash
  BY <1>8 DEF Crash
<1> QED BY <1>1, <1>2, <1>3, <1>4, <1>5, <1>6, <1>7, <1>8 DEF ServerNext

(* The id a new proposal gets is the one after the last.                   *)
LEMMA NextIdFresh == ASSUME NEW n \in Nat, Ids = 1..n PROVE NextId = n + 1
<1>1. CASE n = 0
  BY <1>1 DEF NextId
<1>2. CASE n # 0
  <2>1. n \in Ids /\ \A y \in Ids : n >= y
    BY <1>2
  <2>2. Max(Ids) = n
    BY <2>1 DEF Max
  <2> QED BY <1>2, <2>2 DEF NextId
<1> QED BY <1>1, <1>2

(* Only the holder leaves the locked section, and it leaves it unlocked.   *)
LEMMA LockStep == Shape /\ LockInv /\ ServerNext => LockInv'
<1> SUFFICES ASSUME Shape, LockInv, ServerNext PROVE LockInv'
  OBVIOUS
<1> USE DEF Shape, PCs, LockInv, InLock, GoTo, Done, Respond, Proceed, Begin
<1>1. ASSUME NEW w \in Workers, Start(w) PROVE LockInv'
  BY <1>1 DEF Start, StartCreate, StartApprove, StartReject, StartEdit, StartCredentials
<1>2. ASSUME NEW w \in Workers, AcquireLock(w) PROVE LockInv'
  BY <1>2, NoWorkerFresh DEF AcquireLock, AfterLock
<1>3. ASSUME NEW w \in Workers, Work(w) PROVE LockInv'
  <2>1. CASE \E listed \in {StoredKeys, {}} : CheckRefs(w, listed)
    BY <2>1 DEF CheckRefs
  <2>2. CASE CountPending(w)
    BY <2>2 DEF CountPending
  <2>3. CASE InsertProposal(w)
    BY <2>3 DEF InsertProposal, WithProposal, NewProposal
  <2>4. CASE LoadServices(w)
    BY <2>4 DEF LoadServices, Acceptable
  <2>5. CASE ApplyProposal(w)
    BY <2>5 DEF ApplyProposal, CommitApproval
  <2>6. CASE SaveServices(w)
    BY <2>6 DEF SaveServices
  <2>7. CASE Unlock(w)
    BY <2>7, NoWorkerFresh DEF Unlock
  <2>8. CASE UpdateProposalStatus(w)
    BY <2>8 DEF UpdateProposalStatus
  <2>9. CASE StoreCredential(w)
    BY <2>9 DEF StoreCredential
  <2> QED BY <1>3, <2>1, <2>2, <2>3, <2>4, <2>5, <2>6, <2>7, <2>8, <2>9 DEF Work
<1>4. ASSUME NEW w \in Workers, StoreError(w) PROVE LockInv'
  BY <1>4 DEF StoreError
<1>5. ASSUME NEW id \in Ids, PassTTL(id) PROVE LockInv'
  BY <1>5 DEF PassTTL, Age, workerVars
<1>6. CASE ListProposals
  BY <1>6 DEF ListProposals, Expire, workerVars
<1>7. CASE DeleteVault
  BY <1>7 DEF DeleteVault, Delete, workerVars
<1>8. CASE Crash
  BY <1>8, NoWorkerFresh DEF Crash
<1> QED BY <1>1, <1>2, <1>3, <1>4, <1>5, <1>6, <1>7, <1>8 DEF ServerNext


(* A worker's phase fits the kind of request it serves.                    *)
LEMMA PhaseStep == Shape /\ PhaseInv /\ ServerNext => PhaseInv'
<1> SUFFICES ASSUME Shape, PhaseInv, ServerNext PROVE PhaseInv'
  OBVIOUS
<1> USE DEF Shape, PCs, PhaseInv, Idle, BlindEdit, GoTo, Done, Respond, Proceed, Begin
<1>1. ASSUME NEW w \in Workers, Start(w) PROVE PhaseInv'
  BY <1>1 DEF Start, StartCreate, StartApprove, StartReject, StartEdit, StartCredentials
<1>2. ASSUME NEW w \in Workers, AcquireLock(w) PROVE PhaseInv'
  BY <1>2 DEF AcquireLock, AfterLock
<1>3. ASSUME NEW w \in Workers, Work(w) PROVE PhaseInv'
  <2>1. CASE \E listed \in {StoredKeys, {}} : CheckRefs(w, listed)
    BY <2>1 DEF CheckRefs
  <2>2. CASE CountPending(w)
    BY <2>2 DEF CountPending
  <2>3. CASE InsertProposal(w)
    BY <2>3 DEF InsertProposal, WithProposal, NewProposal
  <2>4. CASE LoadServices(w)
    BY <2>4 DEF LoadServices, Acceptable
  <2>5. CASE ApplyProposal(w)
    BY <2>5 DEF ApplyProposal, CommitApproval
  <2>6. CASE SaveServices(w)
    BY <2>6 DEF SaveServices
  <2>7. CASE Unlock(w)
    BY <2>7 DEF Unlock
  <2>8. CASE UpdateProposalStatus(w)
    BY <2>8 DEF UpdateProposalStatus
  <2>9. CASE StoreCredential(w)
    BY <2>9 DEF StoreCredential
  <2> QED BY <1>3, <2>1, <2>2, <2>3, <2>4, <2>5, <2>6, <2>7, <2>8, <2>9 DEF Work
<1>4. ASSUME NEW w \in Workers, StoreError(w) PROVE PhaseInv'
  BY <1>4 DEF StoreError
<1>5. ASSUME NEW id \in Ids, PassTTL(id) PROVE PhaseInv'
  BY <1>5 DEF PassTTL, Age, workerVars
<1>6. CASE ListProposals
  BY <1>6 DEF ListProposals, Expire, workerVars
<1>7. CASE DeleteVault
  BY <1>7 DEF DeleteVault, Delete, workerVars
<1>8. CASE Crash
  BY <1>8 DEF Crash
<1> QED BY <1>1, <1>2, <1>3, <1>4, <1>5, <1>6, <1>7, <1>8 DEF ServerNext


(* Ids stay consecutive and rows keep their fields: MAX(id) + 1 is new.    *)
LEMMA RowsStep == Shape /\ Rows /\ ServerNext => Rows'
<1> SUFFICES ASSUME Shape, Rows, ServerNext PROVE Rows'
  OBVIOUS
<1> USE DEF Shape, PCs, Rows, IsRow, Statuses, Ids, GoTo, Done, Respond, Proceed, Begin
<1>1. ASSUME NEW w \in Workers, Start(w) PROVE Rows'
  BY <1>1 DEF Start, StartCreate, StartApprove, StartReject, StartEdit, StartCredentials
<1>2. ASSUME NEW w \in Workers, AcquireLock(w) PROVE Rows'
  BY <1>2 DEF AcquireLock, AfterLock
<1>3. ASSUME NEW w \in Workers, Work(w) PROVE Rows'
  <2>1. CASE \E listed \in {StoredKeys, {}} : CheckRefs(w, listed)
    BY <2>1 DEF CheckRefs
  <2>2. CASE CountPending(w)
    BY <2>2 DEF CountPending
  <2>3. CASE InsertProposal(w)
    <3>1. CASE exists
      <4>1. PICK n \in Nat : Ids = 1..n
        BY DEF Rows
      <4>2. NextId = n + 1
        BY <4>1, NextIdFresh
      <4>3. Ids' = 1..(n + 1)
        BY <2>3, <3>1, <4>1, <4>2 DEF InsertProposal, WithProposal
      <4> DEFINE row == NewProposal(req[w].services, req[w].slots)
      <4>4. IsRow(row)
        BY DEF NewProposal
      <4>5. proposals'[NextId] = row
        BY <2>3, <3>1, <4>1, <4>2 DEF InsertProposal, WithProposal
      <4> HIDE DEF row
      <4> QED BY <2>3, <3>1, <4>1, <4>2, <4>3, <4>4, <4>5 DEF InsertProposal, WithProposal
    <3>2. CASE ~exists
      BY <2>3, <3>2 DEF InsertProposal
    <3> QED BY <3>1, <3>2
  <2>4. CASE LoadServices(w)
    BY <2>4 DEF LoadServices, Acceptable
  <2>5. CASE ApplyProposal(w)
    <3>1. CASE req[w].id \in Pending
      <4>1. Ids' = Ids
        BY <2>5, <3>1 DEF ApplyProposal, CommitApproval
      <4>2. ASSUME NEW i \in Ids PROVE IsRow(proposals'[i])
        BY <2>5, <3>1, <4>2 DEF ApplyProposal, CommitApproval, Pending
      <4> QED BY <4>1, <4>2
    <3>2. CASE req[w].id \notin Pending
      BY <2>5, <3>2 DEF ApplyProposal, CommitApproval
    <3> QED BY <3>1, <3>2
  <2>6. CASE SaveServices(w)
    BY <2>6 DEF SaveServices
  <2>7. CASE Unlock(w)
    BY <2>7 DEF Unlock
  <2>8. CASE UpdateProposalStatus(w)
    BY <2>8 DEF UpdateProposalStatus
  <2>9. CASE StoreCredential(w)
    BY <2>9 DEF StoreCredential
  <2> QED BY <1>3, <2>1, <2>2, <2>3, <2>4, <2>5, <2>6, <2>7, <2>8, <2>9 DEF Work
<1>4. ASSUME NEW w \in Workers, StoreError(w) PROVE Rows'
  BY <1>4 DEF StoreError
<1>5. ASSUME NEW id \in Ids, PassTTL(id) PROVE Rows'
  <2>1. Ids' = Ids
    BY <1>5 DEF PassTTL, Age
  <2>2. ASSUME NEW i \in Ids PROVE IsRow(proposals'[i])
    <3>1. CASE i = id
      <4>1. proposals'[i] = [proposals[i] EXCEPT !.old = TRUE]
        BY <1>5, <3>1 DEF PassTTL, Age
      <4>2. IsRow(proposals[i])
        OBVIOUS
      <4> QED BY <4>1, <4>2
    <3>2. CASE i # id
      BY <1>5, <3>2 DEF PassTTL, Age
    <3> QED BY <3>1, <3>2
  <2> QED BY <2>1, <2>2
<1>6. CASE ListProposals
  BY <1>6 DEF ListProposals, Expire, workerVars
<1>7. CASE DeleteVault
  BY <1>7 DEF DeleteVault, Delete, workerVars
<1>8. CASE Crash
  BY <1>8 DEF Crash
<1> QED BY <1>1, <1>2, <1>3, <1>4, <1>5, <1>6, <1>7, <1>8 DEF ServerNext


(* A proposal is valid from its check to its insertion.                    *)
LEMMA CreateStep == Shape /\ CreateInv /\ ServerNext => CreateInv'
<1> SUFFICES ASSUME Shape, CreateInv, ServerNext PROVE CreateInv'
  OBVIOUS
<1> USE DEF Shape, PCs, CreateInv, GoTo, Done, Respond, Proceed, Begin
<1>1. ASSUME NEW w \in Workers, Start(w) PROVE CreateInv'
  BY <1>1 DEF Start, StartCreate, StartApprove, StartReject, StartEdit, StartCredentials
<1>2. ASSUME NEW w \in Workers, AcquireLock(w) PROVE CreateInv'
  BY <1>2 DEF AcquireLock, AfterLock
<1>3. ASSUME NEW w \in Workers, Work(w) PROVE CreateInv'
  <2>1. CASE \E listed \in {StoredKeys, {}} : CheckRefs(w, listed)
    BY <2>1 DEF CheckRefs
  <2>2. CASE CountPending(w)
    BY <2>2 DEF CountPending
  <2>3. CASE InsertProposal(w)
    BY <2>3 DEF InsertProposal, WithProposal, NewProposal
  <2>4. CASE LoadServices(w)
    BY <2>4 DEF LoadServices, Acceptable
  <2>5. CASE ApplyProposal(w)
    BY <2>5 DEF ApplyProposal, CommitApproval
  <2>6. CASE SaveServices(w)
    BY <2>6 DEF SaveServices
  <2>7. CASE Unlock(w)
    BY <2>7 DEF Unlock
  <2>8. CASE UpdateProposalStatus(w)
    BY <2>8 DEF UpdateProposalStatus
  <2>9. CASE StoreCredential(w)
    BY <2>9 DEF StoreCredential
  <2> QED BY <1>3, <2>1, <2>2, <2>3, <2>4, <2>5, <2>6, <2>7, <2>8, <2>9 DEF Work
<1>4. ASSUME NEW w \in Workers, StoreError(w) PROVE CreateInv'
  BY <1>4 DEF StoreError
<1>5. ASSUME NEW id \in Ids, PassTTL(id) PROVE CreateInv'
  BY <1>5 DEF PassTTL, Age, workerVars
<1>6. CASE ListProposals
  BY <1>6 DEF ListProposals, Expire, workerVars
<1>7. CASE DeleteVault
  BY <1>7 DEF DeleteVault, Delete, workerVars
<1>8. CASE Crash
  BY <1>8 DEF Crash
<1> QED BY <1>1, <1>2, <1>3, <1>4, <1>5, <1>6, <1>7, <1>8 DEF ServerNext


(* What is left of a credential request stays a credential request.        *)
LEMMA CredentialStep == Shape /\ CredentialInv /\ ServerNext => CredentialInv'
<1> SUFFICES ASSUME Shape, CredentialInv, ServerNext PROVE CredentialInv'
  OBVIOUS
<1> USE DEF Shape, PCs, CredentialInv, GoTo, Done, Respond, Proceed, Begin
<1>1. ASSUME NEW w \in Workers, Start(w) PROVE CredentialInv'
  BY <1>1, CredentialRequestsType DEF Start, StartCreate, StartApprove, StartReject, StartEdit, StartCredentials
<1>2. ASSUME NEW w \in Workers, AcquireLock(w) PROVE CredentialInv'
  BY <1>2 DEF AcquireLock, AfterLock
<1>3. ASSUME NEW w \in Workers, Work(w) PROVE CredentialInv'
  <2>1. CASE \E listed \in {StoredKeys, {}} : CheckRefs(w, listed)
    BY <2>1 DEF CheckRefs
  <2>2. CASE CountPending(w)
    BY <2>2 DEF CountPending
  <2>3. CASE InsertProposal(w)
    BY <2>3 DEF InsertProposal, WithProposal, NewProposal
  <2>4. CASE LoadServices(w)
    BY <2>4 DEF LoadServices, Acceptable
  <2>5. CASE ApplyProposal(w)
    BY <2>5 DEF ApplyProposal, CommitApproval
  <2>6. CASE SaveServices(w)
    BY <2>6 DEF SaveServices
  <2>7. CASE Unlock(w)
    BY <2>7 DEF Unlock
  <2>8. CASE UpdateProposalStatus(w)
    BY <2>8 DEF UpdateProposalStatus
  <2>9. CASE StoreCredential(w)
    <3>1. CASE req'[w] = req[w] \/ pc'[w] # "credential"
      BY <2>9, <3>1 DEF StoreCredential
    <3>2. CASE Tail(req[w].todo) # <<>> /\ pc' = pc
               /\ req' = [req EXCEPT ![w].todo = Tail(req[w].todo)]
      <4>1. pc[w] = "credential"
        BY <2>9 DEF StoreCredential
      <4>2. CASE req[w] \in [op : {"set"}, todo : Seq(Keys \X Values) \ {<<>>}]
        <5>1. req'[w] = [req[w] EXCEPT !.todo = Tail(req[w].todo)]
          BY <3>2
        <5>2. Tail(req[w].todo) \in Seq(Keys \X Values)
          BY <4>2
        <5>3. req'[w] \in [op : {"set"}, todo : Seq(Keys \X Values) \ {<<>>}]
          BY <3>2, <4>2, <5>1, <5>2
        <5> QED BY <3>2, <5>3
      <4>3. CASE req[w] \in [op : {"delete"}, todo : Seq(Keys \X {NoValue}) \ {<<>>}]
        <5>1. req'[w] = [req[w] EXCEPT !.todo = Tail(req[w].todo)]
          BY <3>2
        <5>2. Tail(req[w].todo) \in Seq(Keys \X {NoValue})
          BY <4>3
        <5>3. req'[w] \in [op : {"delete"}, todo : Seq(Keys \X {NoValue}) \ {<<>>}]
          BY <3>2, <4>3, <5>1, <5>2
        <5> QED BY <3>2, <5>3
      <4> QED BY <4>1, <4>2, <4>3
    <3> QED BY <2>9, <3>1, <3>2 DEF StoreCredential
  <2> QED BY <1>3, <2>1, <2>2, <2>3, <2>4, <2>5, <2>6, <2>7, <2>8, <2>9 DEF Work
<1>4. ASSUME NEW w \in Workers, StoreError(w) PROVE CredentialInv'
  BY <1>4 DEF StoreError
<1>5. ASSUME NEW id \in Ids, PassTTL(id) PROVE CredentialInv'
  BY <1>5 DEF PassTTL, Age, workerVars
<1>6. CASE ListProposals
  BY <1>6 DEF ListProposals, Expire, workerVars
<1>7. CASE DeleteVault
  BY <1>7 DEF DeleteVault, Delete, workerVars
<1>8. CASE Crash
  BY <1>8 DEF Crash
<1> QED BY <1>1, <1>2, <1>3, <1>4, <1>5, <1>6, <1>7, <1>8 DEF ServerNext


(* The copy an approval works from stays equal to the stored row.          *)
LEMMA ApproveStep == Shape /\ Rows /\ PhaseInv /\ ApproveInv /\ ServerNext => ApproveInv'
<1> SUFFICES ASSUME Shape, Rows, PhaseInv, ApproveInv, ServerNext PROVE ApproveInv'
  OBVIOUS
<1> USE DEF Shape, PCs, InLock, ApproveInv, Approving, Ids, Pending, Rows, GoTo, Done, Respond, Proceed, Begin
<1>1. ASSUME NEW w \in Workers, Start(w) PROVE ApproveInv'
  BY <1>1 DEF Start, StartCreate, StartApprove, StartReject, StartEdit, StartCredentials
<1>2. ASSUME NEW w \in Workers, AcquireLock(w) PROVE ApproveInv'
  BY <1>2 DEF AcquireLock, AfterLock
<1>3. ASSUME NEW w \in Workers, Work(w) PROVE ApproveInv'
  <2>1. CASE \E listed \in {StoredKeys, {}} : CheckRefs(w, listed)
    BY <2>1 DEF CheckRefs
  <2>2. CASE CountPending(w)
    BY <2>2 DEF CountPending
  <2>3. CASE InsertProposal(w)
    BY <2>3, NextIdFresh DEF InsertProposal, WithProposal, NewProposal
  <2>4. CASE LoadServices(w)
    BY <2>4 DEF LoadServices, Acceptable
  <2>5. CASE ApplyProposal(w)
    <3>1. Ids' = Ids /\ \A i \in Ids : /\ proposals'[i].services = proposals[i].services
                                   /\ proposals'[i].slots = proposals[i].slots
      BY <2>5 DEF ApplyProposal, CommitApproval, IsRow
    <3>2. exists' = exists /\ req' = req
      BY <2>5 DEF ApplyProposal
    <3>3. ASSUME NEW v \in Workers, Approving(v)' PROVE Approving(v)
      BY <2>5, <3>3 DEF ApplyProposal
    <3> QED BY <3>1, <3>2, <3>3
  <2>6. CASE SaveServices(w)
    BY <2>6 DEF SaveServices
  <2>7. CASE Unlock(w)
    BY <2>7 DEF Unlock
  <2>8. CASE UpdateProposalStatus(w)
    BY <2>8 DEF UpdateProposalStatus
  <2>9. CASE StoreCredential(w)
    BY <2>9 DEF StoreCredential
  <2> QED BY <1>3, <2>1, <2>2, <2>3, <2>4, <2>5, <2>6, <2>7, <2>8, <2>9 DEF Work
<1>4. ASSUME NEW w \in Workers, StoreError(w) PROVE ApproveInv'
  BY <1>4 DEF StoreError
<1>5. ASSUME NEW id \in Ids, PassTTL(id) PROVE ApproveInv'
  BY <1>5 DEF PassTTL, Age, workerVars
<1>6. CASE ListProposals
  BY <1>6 DEF ListProposals, Expire, workerVars
<1>7. CASE DeleteVault
  BY <1>7 DEF DeleteVault, Delete, workerVars
<1>8. CASE Crash
  BY <1>8 DEF Crash
<1> QED BY <1>1, <1>2, <1>3, <1>4, <1>5, <1>6, <1>7, <1>8 DEF ServerNext


(* An edit that reached its write is allowed on the list it loaded.        *)
LEMMA EditStep == Shape /\ PhaseInv /\ EditInv /\ ServerNext => EditInv'
<1> SUFFICES ASSUME Shape, PhaseInv, EditInv, ServerNext PROVE EditInv'
  OBVIOUS
<1> USE DEF Shape, PCs, InLock, PhaseInv, EditInv, Editing, BlindEdit, GoTo, Done, Respond, Proceed, Begin
<1>1. ASSUME NEW w \in Workers, Start(w) PROVE EditInv'
  BY <1>1 DEF Start, StartCreate, StartApprove, StartReject, StartEdit, StartCredentials
<1>2. ASSUME NEW w \in Workers, AcquireLock(w) PROVE EditInv'
  BY <1>2 DEF AcquireLock, AfterLock
<1>3. ASSUME NEW w \in Workers, Work(w) PROVE EditInv'
  <2>1. CASE \E listed \in {StoredKeys, {}} : CheckRefs(w, listed)
    BY <2>1 DEF CheckRefs
  <2>2. CASE CountPending(w)
    BY <2>2 DEF CountPending
  <2>3. CASE InsertProposal(w)
    BY <2>3 DEF InsertProposal, WithProposal, NewProposal
  <2>4. CASE LoadServices(w)
    BY <2>4 DEF LoadServices, Acceptable
  <2>5. CASE ApplyProposal(w)
    BY <2>5 DEF ApplyProposal, CommitApproval
  <2>6. CASE SaveServices(w)
    BY <2>6 DEF SaveServices
  <2>7. CASE Unlock(w)
    BY <2>7 DEF Unlock
  <2>8. CASE UpdateProposalStatus(w)
    BY <2>8 DEF UpdateProposalStatus
  <2>9. CASE StoreCredential(w)
    BY <2>9 DEF StoreCredential
  <2> QED BY <1>3, <2>1, <2>2, <2>3, <2>4, <2>5, <2>6, <2>7, <2>8, <2>9 DEF Work
<1>4. ASSUME NEW w \in Workers, StoreError(w) PROVE EditInv'
  BY <1>4 DEF StoreError
<1>5. ASSUME NEW id \in Ids, PassTTL(id) PROVE EditInv'
  BY <1>5 DEF PassTTL, Age, workerVars
<1>6. CASE ListProposals
  BY <1>6 DEF ListProposals, Expire, workerVars
<1>7. CASE DeleteVault
  BY <1>7 DEF DeleteVault, Delete, workerVars
<1>8. CASE Crash
  BY <1>8 DEF Crash
<1> QED BY <1>1, <1>2, <1>3, <1>4, <1>5, <1>6, <1>7, <1>8 DEF ServerNext


(* No lost update: only the lock's holder writes the list.                 *)
LEMMA NoLostStep == Shape /\ LockInv /\ PhaseInv /\ NoLostServiceUpdate /\ ServerNext => NoLostServiceUpdate'
<1> SUFFICES ASSUME Shape, LockInv, PhaseInv, NoLostServiceUpdate, ServerNext PROVE NoLostServiceUpdate'
  OBVIOUS
<1> USE DEF Shape, PCs, InLock, LockInv, PhaseInv, NoLostServiceUpdate, BlindEdit, GoTo, Done, Respond, Proceed, Begin
<1>1. ASSUME NEW w \in Workers, Start(w) PROVE NoLostServiceUpdate'
  BY <1>1 DEF Start, StartCreate, StartApprove, StartReject, StartEdit, StartCredentials
<1>2. ASSUME NEW w \in Workers, AcquireLock(w) PROVE NoLostServiceUpdate'
  BY <1>2 DEF AcquireLock, AfterLock
<1>3. ASSUME NEW w \in Workers, Work(w) PROVE NoLostServiceUpdate'
  <2>1. CASE \E listed \in {StoredKeys, {}} : CheckRefs(w, listed)
    BY <2>1 DEF CheckRefs
  <2>2. CASE CountPending(w)
    BY <2>2 DEF CountPending
  <2>3. CASE InsertProposal(w)
    BY <2>3 DEF InsertProposal, WithProposal, NewProposal
  <2>4. CASE LoadServices(w)
    BY <2>4 DEF LoadServices, Acceptable
  <2>5. CASE ApplyProposal(w)
    BY <2>5 DEF ApplyProposal, CommitApproval
  <2>6. CASE SaveServices(w)
    BY <2>6 DEF SaveServices
  <2>7. CASE Unlock(w)
    BY <2>7 DEF Unlock
  <2>8. CASE UpdateProposalStatus(w)
    BY <2>8 DEF UpdateProposalStatus
  <2>9. CASE StoreCredential(w)
    BY <2>9 DEF StoreCredential
  <2> QED BY <1>3, <2>1, <2>2, <2>3, <2>4, <2>5, <2>6, <2>7, <2>8, <2>9 DEF Work
<1>4. ASSUME NEW w \in Workers, StoreError(w) PROVE NoLostServiceUpdate'
  BY <1>4 DEF StoreError
<1>5. ASSUME NEW id \in Ids, PassTTL(id) PROVE NoLostServiceUpdate'
  BY <1>5 DEF PassTTL, Age, workerVars
<1>6. CASE ListProposals
  BY <1>6 DEF ListProposals, Expire, workerVars
<1>7. CASE DeleteVault
  BY <1>7 DEF DeleteVault, Delete, workerVars
<1>8. CASE Crash
  BY <1>8 DEF Crash
<1> QED BY <1>1, <1>2, <1>3, <1>4, <1>5, <1>6, <1>7, <1>8 DEF ServerNext


(* Late writers find no vault to write to.                                 *)
LEMMA NoOrphanStep == Shape /\ CredentialInv /\ NoOrphanRows /\ ServerNext => NoOrphanRows'
<1> SUFFICES ASSUME Shape, CredentialInv, NoOrphanRows, ServerNext PROVE NoOrphanRows'
  OBVIOUS
<1> USE DEF Shape, NoOrphanRows, Ids, Pending, GoTo, Done, Respond, Proceed, Begin
<1>1. ASSUME NEW w \in Workers, Start(w) PROVE NoOrphanRows'
  BY <1>1 DEF Start, StartCreate, StartApprove, StartReject, StartEdit, StartCredentials
<1>2. ASSUME NEW w \in Workers, AcquireLock(w) PROVE NoOrphanRows'
  BY <1>2 DEF AcquireLock, AfterLock
<1>3. ASSUME NEW w \in Workers, Work(w) PROVE NoOrphanRows'
  <2>1. CASE \E listed \in {StoredKeys, {}} : CheckRefs(w, listed)
    BY <2>1 DEF CheckRefs
  <2>2. CASE CountPending(w)
    BY <2>2 DEF CountPending
  <2>3. CASE InsertProposal(w)
    BY <2>3 DEF InsertProposal, WithProposal, NewProposal
  <2>4. CASE LoadServices(w)
    BY <2>4 DEF LoadServices, Acceptable
  <2>5. CASE ApplyProposal(w)
    BY <2>5 DEF ApplyProposal, CommitApproval
  <2>6. CASE SaveServices(w)
    BY <2>6 DEF SaveServices
  <2>7. CASE Unlock(w)
    BY <2>7 DEF Unlock
  <2>8. CASE UpdateProposalStatus(w)
    BY <2>8 DEF UpdateProposalStatus
  <2>9. CASE StoreCredential(w)
    <3>1. req[w].todo \in Seq(Keys \X Values) \cup Seq(Keys \X {NoValue}) /\ req[w].todo # <<>>
      BY <2>9 DEF StoreCredential, CredentialInv
    <3>2. Head(req[w].todo)[1] \in Keys
      BY <3>1
    <3> QED BY <2>9, <3>2 DEF StoreCredential, NoCredentials, CredentialInv
  <2> QED BY <1>3, <2>1, <2>2, <2>3, <2>4, <2>5, <2>6, <2>7, <2>8, <2>9 DEF Work
<1>4. ASSUME NEW w \in Workers, StoreError(w) PROVE NoOrphanRows'
  BY <1>4 DEF StoreError
<1>5. ASSUME NEW id \in Ids, PassTTL(id) PROVE NoOrphanRows'
  BY <1>5 DEF PassTTL, Age, workerVars
<1>6. CASE ListProposals
  BY <1>6 DEF ListProposals, Expire, workerVars
<1>7. CASE DeleteVault
  BY <1>7 DEF DeleteVault, Delete, workerVars
<1>8. CASE Crash
  BY <1>8 DEF Crash
<1> QED BY <1>1, <1>2, <1>3, <1>4, <1>5, <1>6, <1>7, <1>8 DEF ServerNext


(* The pending guard of the transaction makes an apply the first one.      *)
LEMMA EffectsStep == Shape /\ Rows /\ EffectsInv /\ ServerNext => EffectsInv'
<1> SUFFICES ASSUME Shape, Rows, EffectsInv, ServerNext PROVE EffectsInv'
  OBVIOUS
<1> USE DEF Shape, EffectsInv, Pending, Statuses, Ids, Rows, IsRow, GoTo, Done, Respond, Proceed, Begin
<1>1. ASSUME NEW w \in Workers, Start(w) PROVE EffectsInv'
  BY <1>1 DEF Start, StartCreate, StartApprove, StartReject, StartEdit, StartCredentials
<1>2. ASSUME NEW w \in Workers, AcquireLock(w) PROVE EffectsInv'
  BY <1>2 DEF AcquireLock, AfterLock
<1>3. ASSUME NEW w \in Workers, Work(w) PROVE EffectsInv'
  <2>1. CASE \E listed \in {StoredKeys, {}} : CheckRefs(w, listed)
    BY <2>1 DEF CheckRefs
  <2>2. CASE CountPending(w)
    BY <2>2 DEF CountPending
  <2>3. CASE InsertProposal(w)
    BY <2>3, NextIdFresh DEF InsertProposal, WithProposal, NewProposal
  <2>4. CASE LoadServices(w)
    BY <2>4 DEF LoadServices, Acceptable
  <2>5. CASE ApplyProposal(w)
    BY <2>5 DEF ApplyProposal, CommitApproval
  <2>6. CASE SaveServices(w)
    BY <2>6 DEF SaveServices
  <2>7. CASE Unlock(w)
    BY <2>7 DEF Unlock
  <2>8. CASE UpdateProposalStatus(w)
    BY <2>8 DEF UpdateProposalStatus
  <2>9. CASE StoreCredential(w)
    BY <2>9 DEF StoreCredential
  <2> QED BY <1>3, <2>1, <2>2, <2>3, <2>4, <2>5, <2>6, <2>7, <2>8, <2>9 DEF Work
<1>4. ASSUME NEW w \in Workers, StoreError(w) PROVE EffectsInv'
  BY <1>4 DEF StoreError
<1>5. ASSUME NEW id \in Ids, PassTTL(id) PROVE EffectsInv'
  BY <1>5 DEF PassTTL, Age, workerVars
<1>6. CASE ListProposals
  BY <1>6 DEF ListProposals, Expire, workerVars
<1>7. CASE DeleteVault
  BY <1>7 DEF DeleteVault, Delete, workerVars
<1>8. CASE Crash
  BY <1>8 DEF Crash
<1> QED BY <1>1, <1>2, <1>3, <1>4, <1>5, <1>6, <1>7, <1>8 DEF ServerNext


--------------------------------------------------------------------------------
(***************************************************************************)
(* The inductive invariant.  NoLostServiceUpdate needs the mutex and the   *)
(* phases; the copies of ApproveInv and EditInv need the rows to be        *)
(* immutable; they are what the refinement below rests on.                 *)
(***************************************************************************)

(* A step that changes no variable keeps the invariant.                    *)
LEMMA IInvStutter == IInv /\ UNCHANGED serverVars => IInv'
<1> SUFFICES ASSUME IInv, UNCHANGED serverVars PROVE IInv'
  OBVIOUS
<1> USE DEF serverVars
<1>1. (Shape /\ Rows /\ LockInv /\ PhaseInv)'
  BY DEF IInv, Shape, Rows, LockInv, PhaseInv, Ids
<1>2. (CreateInv /\ ApproveInv /\ EditInv /\ CredentialInv)'
  BY DEF IInv, CreateInv, ApproveInv, EditInv, CredentialInv, Approving, Editing, Ids
<1>3. (NoLostServiceUpdate /\ NoOrphanRows /\ EffectsInv)'
  BY DEF IInv, NoLostServiceUpdate, NoOrphanRows, EffectsInv, Ids
<1> QED BY <1>1, <1>2, <1>3 DEF IInv

(* The invariant holds in every reachable state of the server.             *)
THEOREM Invariance == ServerSpec => []IInv
<1>1. ServerInit => IInv
  BY InitIInv
<1>2. IInv /\ [ServerNext]_serverVars => IInv'
  <2> SUFFICES ASSUME IInv, [ServerNext]_serverVars PROVE IInv'
    OBVIOUS
  <2>1. CASE ServerNext
    BY <2>1, ShapeStep, RowsStep, LockStep, PhaseStep, CreateStep, ApproveStep, EditStep,
       CredentialStep, NoLostStep, NoOrphanStep, EffectsStep DEF IInv
  <2>2. CASE UNCHANGED serverVars
    BY <2>2, IInvStutter
  <2> QED BY <2>1, <2>2
<1> QED BY <1>1, <1>2, PTL DEF ServerSpec

(* No write of the service list ever overwrites another handler's write.   *)
THEOREM NoLostUpdates == ServerSpec => []NoLostServiceUpdate
<1>1. IInv => NoLostServiceUpdate
  BY DEF IInv
<1> QED BY <1>1, Invariance, PTL

(* No number of concurrent approvals applies a proposal twice.             *)
THEOREM AppliedOnce == ServerSpec => []AppliedAtMostOnce
<1>1. IInv => AppliedAtMostOnce
  BY DEF IInv, EffectsInv, AppliedAtMostOnce
<1> QED BY <1>1, Invariance, PTL

(* A proposal's status tells whether its effects are in the vault, save    *)
(* for "rejected".                                                         *)
THEOREM StatusTellsEffects == ServerSpec => []StatusMatchesEffects
<1>1. IInv => StatusMatchesEffects
  BY DEF IInv, EffectsInv, StatusMatchesEffects
<1> QED BY <1>1, Invariance, PTL

(* Handlers that outlive the vault write nothing.                          *)
THEOREM DeletedStaysEmpty == ServerSpec => []NoOrphanRows
<1>1. IInv => NoOrphanRows
  BY DEF IInv
<1> QED BY <1>1, Invariance, PTL

(* The types of the control state.                                         *)
THEOREM ControlTypes == ServerSpec => []ControlTypeOK
<1>1. IInv => ControlTypeOK
  <2> SUFFICES ASSUME IInv PROVE ControlTypeOK
    OBVIOUS
  <2>1. PICK n \in Nat : Ids = 1..n
    BY DEF IInv, Rows
  <2>2. IsFiniteSet(Ids) /\ Cardinality(Ids) = n
    BY <2>1, FS_Interval
  <2> QED BY <2>1, <2>2 DEF IInv, Shape, Rows, IsRow, ControlTypeOK
<1> QED BY <1>1, Invariance, PTL

--------------------------------------------------------------------------------
(***************************************************************************)
(* Every step of the server is one request of Vault taking effect, or      *)
(* none.                                                                   *)
(***************************************************************************)

(* Steps that only read, lock, unlock, fail or respond.                    *)
LEMMA QuietStep ==
  ASSUME NEW w \in Workers,
         \/ Start(w) \/ AcquireLock(w) \/ StoreError(w) \/ Unlock(w)
         \/ CountPending(w) \/ LoadServices(w)
         \/ \E listed \in {StoredKeys, {}} : CheckRefs(w, listed)
  PROVE UNCHANGED vars
<1> USE DEF vars, Respond, Proceed
<1>1. CASE Start(w)
  BY <1>1 DEF Start, StartCreate, StartApprove, StartReject, StartEdit, StartCredentials
<1>2. CASE AcquireLock(w) \/ StoreError(w) \/ Unlock(w) \/ CountPending(w) \/ LoadServices(w)
  BY <1>2 DEF AcquireLock, StoreError, Unlock, CountPending, LoadServices
<1>3. CASE \E listed \in {StoredKeys, {}} : CheckRefs(w, listed)
  BY <1>3 DEF CheckRefs
<1> QED BY <1>1, <1>2, <1>3

(* An insertion is a Create of a valid proposal.                           *)
LEMMA InsertIsCreate ==
  ASSUME IInv, NEW w \in Workers, InsertProposal(w) PROVE Create \/ UNCHANGED vars
<1>1. CASE exists
  <2> DEFINE row == NewProposal(req[w].services, req[w].slots)
  <2>1. proposals' = WithProposal(NextId, row)
    BY <1>1 DEF InsertProposal
  <2>2. NextId \in DOMAIN proposals' /\ proposals'[NextId] = row
    BY <2>1 DEF WithProposal
  <2>3. ValidProposal(req[w].services, req[w].slots)
    BY DEF IInv, CreateInv, InsertProposal
  <2>4. row.services = req[w].services /\ row.slots = req[w].slots
    BY DEF NewProposal
  <2>5. UNCHANGED <<exists, config, creds>>
    BY DEF InsertProposal
  <2> HIDE DEF row
  <2> QED BY <1>1, <2>1, <2>2, <2>3, <2>4, <2>5 DEF Create, row
<1>2. CASE ~exists
  BY <1>2 DEF InsertProposal, vars
<1> QED BY <1>1, <1>2

(* The transaction of an approval, with the list loaded under the lock and *)
(* the handler's copy of the proposal, is Approve on the current rows.     *)
LEMMA ApplyIsApprove ==
  ASSUME IInv, NEW w \in Workers, ApplyProposal(w)
  PROVE (\E id \in Ids, o \in Overrides : Approve(id, o)) \/ UNCHANGED vars
<1> DEFINE id == req[w].id
           o == req[w].overrides
<1>1. pc[w] = "apply" /\ req[w].op = "approve" /\ Approving(w)
  BY DEF ApplyProposal, IInv, PhaseInv, Approving
<1>2. CASE id \in Pending
  <2>1. id \in Ids
    BY <1>2 DEF Pending
  <2>2. exists
    BY <2>1 DEF IInv, NoOrphanRows, Ids, Shape
  <2>3. /\ o \in Overrides
        /\ req[w].services = proposals[id].services
        /\ req[w].slots = proposals[id].slots
        /\ Resolvable(proposals[id].slots, o)
    BY <1>1, <2>2 DEF IInv, ApproveInv
  <2>4. snap[w] = config
    BY <1>1, <2>2 DEF IInv, NoLostServiceUpdate, BlindEdit
  <2>5. Approve(id, o)
    BY <1>2, <2>2, <2>3, <2>4 DEF ApplyProposal, CommitApproval, Approve
  <2> QED BY <2>1, <2>3, <2>5
<1>3. CASE id \notin Pending
  BY <1>3 DEF ApplyProposal, CommitApproval, vars
<1> QED BY <1>2, <1>3

(* A save is one edit of the current list, blind or not.                   *)
LEMMA SaveIsEdit ==
  ASSUME IInv, NEW w \in Workers, SaveServices(w)
  PROVE (\E e \in Edits : EditServices(e)) \/ UNCHANGED vars
<1> DEFINE e == req[w].edit
<1>1. pc[w] = "save" /\ req[w].op = "edit" /\ Editing(w)
  BY DEF SaveServices, IInv, PhaseInv, Editing
<1>2. e \in Edits /\ (e.op = "set" => ValidServices(e.services))
  BY <1>1 DEF IInv, EditInv
<1>3. CASE exists /\ BlindEdit(req[w])
  <2>1. Edited(snap[w], e) = Edited(config, e) /\ EditAllowed(config, e)
    BY <1>2, <1>3 DEF BlindEdit, Edited, EditAllowed
  <2>2. EditServices(e)
    BY <1>3, <2>1 DEF EditServices, SaveServices
  <2> QED BY <1>2, <2>2
<1>4. CASE exists /\ ~BlindEdit(req[w])
  <2>1. snap[w] = config
    BY <1>1, <1>4 DEF IInv, NoLostServiceUpdate
  <2>2. EditAllowed(snap[w], e)
    BY <1>1, <1>4 DEF IInv, EditInv
  <2>3. EditServices(e)
    BY <1>4, <2>1, <2>2 DEF EditServices, SaveServices
  <2> QED BY <1>2, <2>3
<1>5. CASE ~exists
  BY <1>5 DEF SaveServices, vars
<1> QED BY <1>3, <1>4, <1>5

(* One key of a credential request is one credential written or removed.   *)
LEMMA StoreIsOneCredential ==
  ASSUME IInv, NEW w \in Workers, StoreCredential(w)
  PROVE (\E k \in Keys : DeleteCredential(k) \/ \E v \in Values : SetCredential(k, v))
          \/ UNCHANGED vars
<1> DEFINE item == Head(req[w].todo)
<1>1. pc[w] = "credential"
  BY DEF StoreCredential
<1>2. CASE req[w] \in [op : {"set"}, todo : Seq(Keys \X Values) \ {<<>>}]
  <2>1. item[1] \in Keys /\ item[2] \in Values
    BY <1>2
  <2>2. CASE exists
    <3>1. SetCredential(item[1], item[2])
      BY <1>2, <2>2 DEF StoreCredential, SetCredential
    <3> QED BY <2>1, <3>1
  <2>3. CASE ~exists
    BY <1>2, <2>3 DEF StoreCredential, vars
  <2> QED BY <2>2, <2>3
<1>3. CASE req[w] \in [op : {"delete"}, todo : Seq(Keys \X {NoValue}) \ {<<>>}]
  <2>1. item[1] \in Keys /\ item[2] = NoValue
    BY <1>3
  <2>2. CASE creds[item[1]] # NoValue
    <3>1. DeleteCredential(item[1])
      BY <1>3, <2>1, <2>2 DEF StoreCredential, DeleteCredential
    <3> QED BY <2>1, <3>1
  <2>3. CASE creds[item[1]] = NoValue
    BY <1>3, <2>3 DEF StoreCredential, vars
  <2> QED BY <2>2, <2>3
<1> QED BY <1>1, <1>2, <1>3 DEF IInv, CredentialInv

(* Each step of the server maps to a step of Vault or to none.             *)
LEMMA StepRefines == IInv /\ [ServerNext]_serverVars => [Next]_vars
<1> SUFFICES ASSUME IInv, [ServerNext]_serverVars PROVE [Next]_vars
  OBVIOUS
<1>1. ASSUME NEW w \in Workers, Start(w) \/ AcquireLock(w) \/ StoreError(w) PROVE [Next]_vars
  BY <1>1, QuietStep
<1>2. ASSUME NEW w \in Workers, Work(w) PROVE [Next]_vars
  <2>1. CASE \/ Unlock(w) \/ CountPending(w) \/ LoadServices(w)
             \/ \E listed \in {StoredKeys, {}} : CheckRefs(w, listed)
    BY <2>1, QuietStep
  <2>2. CASE InsertProposal(w)
    BY <2>2, InsertIsCreate DEF Next
  <2>3. CASE ApplyProposal(w)
    BY <2>3, ApplyIsApprove DEF Next
  <2>4. CASE SaveServices(w)
    BY <2>4, SaveIsEdit DEF Next
  <2>5. CASE UpdateProposalStatus(w)
    <3>1. CASE req[w].id \in Ids
      BY <2>5, <3>1 DEF UpdateProposalStatus, Reject, Next
    <3>2. CASE req[w].id \notin Ids
      BY <2>5, <3>2 DEF UpdateProposalStatus, vars
    <3> QED BY <3>1, <3>2
  <2>6. CASE StoreCredential(w)
    BY <2>6, StoreIsOneCredential DEF Next
  <2> QED BY <1>2, <2>1, <2>2, <2>3, <2>4, <2>5, <2>6 DEF Work
<1>3. CASE \E id \in Ids : PassTTL(id)
  BY <1>3 DEF PassTTL, Next
<1>4. CASE ListProposals \/ DeleteVault
  BY <1>4 DEF ListProposals, DeleteVault, Next
<1>5. CASE Crash
  BY <1>5 DEF Crash, vars
<1>6. CASE UNCHANGED serverVars
  BY <1>6 DEF serverVars, vars
<1> QED BY <1>1, <1>2, <1>3, <1>4, <1>5, <1>6 DEF ServerNext

(* The interleaved handlers implement the vault of atomic requests.        *)
THEOREM Refinement == ServerSpec => ImplementsVault
<1>1. ServerInit => Init
  BY DEF ServerInit
<1> QED BY <1>1, StepRefines, Invariance, PTL DEF ServerSpec, Spec, ImplementsVault

(* No request takes a decided proposal back.                               *)
THEOREM Decided == ServerSpec => DecidedStaysDecided
<1> DEFINE Kept == \A i \in Ids \cap DOMAIN proposals' :
                     proposals[i].status # "pending" =>
                       proposals'[i].status \in {proposals[i].status, "rejected"}
<1>1. ASSUME IInv, [Next]_vars PROVE Kept
  <2> SUFFICES ASSUME NEW i \in Ids, i \in DOMAIN proposals',
                      proposals[i].status # "pending"
               PROVE  proposals'[i].status \in {proposals[i].status, "rejected"}
    OBVIOUS
  <2> USE DEF Ids
  <2>1. IsRow(proposals[i])
    BY <1>1 DEF IInv, Rows
  <2>2. CASE Create
    <3>1. PICK n \in Nat : Ids = 1..n
      BY <1>1 DEF IInv, Rows
    <3>2. NextId # i
      BY <3>1, NextIdFresh
    <3> QED BY <2>2, <3>2 DEF Create, WithProposal
  <2>3. ASSUME NEW id \in Ids, NEW o \in Overrides, Approve(id, o)
        PROVE  proposals'[i].status = proposals[i].status
    <3>1. id # i
      BY <2>3 DEF Approve, Pending
    <3> QED BY <2>3, <3>1 DEF Approve
  <2>4. ASSUME NEW id \in Ids, Reject(id)
        PROVE  proposals'[i].status \in {proposals[i].status, "rejected"}
    BY <2>1, <2>4 DEF Reject, IsRow
  <2>5. ASSUME NEW id \in Ids, Age(id) PROVE proposals'[i].status = proposals[i].status
    BY <2>1, <2>5 DEF Age, IsRow
  <2>6. CASE Expire
    BY <2>6 DEF Expire
  <2>7. CASE UNCHANGED proposals
    BY <2>7
  <2>8. CASE Delete
    BY <2>8 DEF Delete
  <2> QED BY <1>1, <2>2, <2>3, <2>4, <2>5, <2>6, <2>7, <2>8
          DEF Next, EditServices, SetCredential, DeleteCredential, vars
<1>2. IInv /\ [ServerNext]_serverVars => [Kept]_serverVars
  BY <1>1, StepRefines
<1> QED BY <1>2, Invariance, PTL DEF ServerSpec, DecidedStaysDecided


--------------------------------------------------------------------------------
(***************************************************************************)
(* How far the pending cap can be exceeded.  Pending proposals and the     *)
(* requests about to insert one are counted together: passing the check    *)
(* bounds the former, the number of workers the latter.                    *)
(***************************************************************************)
Inserting == {w \in Workers : pc[w] = "insert"}

OvershootInv ==
  Cardinality(Pending) + Cardinality(Inserting) < MaxPendingProposals + Cardinality(Workers)

(* The two sets that are counted are finite.                               *)
LEMMA CountedFinite ==
  Rows => /\ IsFiniteSet(Pending) /\ Cardinality(Pending) \in Nat
          /\ IsFiniteSet(Inserting) /\ Cardinality(Inserting) \in Nat
          /\ Cardinality(Inserting) <= Cardinality(Workers)
          /\ Cardinality(Workers) \in Nat
<1> SUFFICES ASSUME Rows
             PROVE  /\ IsFiniteSet(Pending) /\ IsFiniteSet(Inserting)
                    /\ Cardinality(Inserting) <= Cardinality(Workers)
  BY WorkersFinite, FS_CardinalityType
<1>1. PICK n \in Nat : Ids = 1..n
  BY DEF Rows
<1>2. IsFiniteSet(Ids)
  BY <1>1, FS_Interval
<1>3. Pending \subseteq Ids /\ Inserting \subseteq Workers
  BY DEF Pending, Inserting
<1> QED BY <1>2, <1>3, WorkersFinite, FS_Subset

(* A step that adds to neither set keeps the bound.                        *)
LEMMA ShrinkKeepsBound ==
  ASSUME Rows, OvershootInv, Pending' \subseteq Pending, Inserting' \subseteq Inserting
  PROVE  OvershootInv'
<1>1. IsFiniteSet(Pending) /\ IsFiniteSet(Inserting)
  BY CountedFinite
<1>2. /\ IsFiniteSet(Pending') /\ Cardinality(Pending') <= Cardinality(Pending)
      /\ IsFiniteSet(Inserting') /\ Cardinality(Inserting') <= Cardinality(Inserting)
  BY <1>1, FS_Subset
<1>3. /\ Cardinality(Pending) \in Nat /\ Cardinality(Inserting) \in Nat
      /\ Cardinality(Pending') \in Nat /\ Cardinality(Inserting') \in Nat
      /\ Cardinality(Workers) \in Nat
  BY <1>1, <1>2, WorkersFinite, FS_CardinalityType
<1> QED BY <1>2, <1>3, MaxPendingPositive DEF OvershootInv


(* Each step keeps it: insertions trade an inserter for a pending row.     *)
LEMMA OvershootStep == Shape /\ Rows /\ OvershootInv /\ ServerNext => OvershootInv'
<1> SUFFICES ASSUME Shape, Rows, OvershootInv, ServerNext PROVE OvershootInv'
  OBVIOUS
<1> USE DEF Shape, PCs, Pending, Inserting, Ids, GoTo, Done, Respond, Proceed, Begin
<1>1. ASSUME NEW w \in Workers, Start(w) PROVE OvershootInv'
  BY <1>1, ShrinkKeepsBound DEF Start, StartCreate, StartApprove, StartReject, StartEdit, StartCredentials
<1>2. ASSUME NEW w \in Workers, AcquireLock(w) PROVE OvershootInv'
  BY <1>2, ShrinkKeepsBound DEF AcquireLock, AfterLock
<1>3. ASSUME NEW w \in Workers, Work(w) PROVE OvershootInv'
  <2>1. CASE \E listed \in {StoredKeys, {}} : CheckRefs(w, listed)
    BY <2>1, ShrinkKeepsBound DEF CheckRefs
  <2>2. CASE CountPending(w)
    <3>1. CASE Cardinality(Pending) < MaxPendingProposals
      <4>1. Pending' = Pending /\ Inserting' \subseteq Workers
        BY <2>2, <3>1 DEF CountPending
      <4>2. /\ Cardinality(Pending) \in Nat /\ Cardinality(Inserting') \in Nat
            /\ Cardinality(Inserting') <= Cardinality(Workers)
            /\ Cardinality(Workers) \in Nat
        BY <4>1, CountedFinite, WorkersFinite, FS_Subset, FS_CardinalityType
      <4>3. Cardinality(Pending') < MaxPendingProposals
        BY <3>1, <4>1
      <4> HIDE DEF Pending, Inserting
      <4> QED BY <4>1, <4>2, <4>3, MaxPendingPositive DEF OvershootInv
    <3>2. CASE ~(Cardinality(Pending) < MaxPendingProposals)
      BY <2>2, <3>2, ShrinkKeepsBound DEF CountPending
    <3> QED BY <3>1, <3>2
  <2>3. CASE InsertProposal(w)
    <3>1. CASE exists
      <4>1. PICK n \in Nat : Ids = 1..n
        BY DEF Rows
      <4>2. NextId = n + 1 /\ NextId \notin Pending
        BY <4>1, NextIdFresh
      <4>3. Pending' = Pending \cup {NextId}
        BY <2>3, <3>1, <4>1, <4>2 DEF InsertProposal, WithProposal, NewProposal
      <4>4. w \in Inserting /\ Inserting' = Inserting \ {w}
        BY <2>3 DEF InsertProposal
      <4>5. /\ IsFiniteSet(Pending) /\ Cardinality(Pending) \in Nat
            /\ IsFiniteSet(Inserting) /\ Cardinality(Inserting) \in Nat
        BY CountedFinite
      <4> HIDE DEF Pending, Inserting
      <4>6. Cardinality(Pending') = Cardinality(Pending) + 1
        BY <4>2, <4>3, <4>5, FS_AddElement
      <4>7. Cardinality(Inserting') = Cardinality(Inserting) - 1
        BY <4>4, <4>5, FS_RemoveElement
      <4> QED BY <4>5, <4>6, <4>7 DEF OvershootInv
    <3>2. CASE ~exists
      BY <2>3, <3>2, ShrinkKeepsBound DEF InsertProposal
    <3> QED BY <3>1, <3>2
  <2>4. CASE LoadServices(w)
    BY <2>4, ShrinkKeepsBound DEF LoadServices, Acceptable
  <2>5. CASE ApplyProposal(w)
    BY <2>5, ShrinkKeepsBound DEF ApplyProposal, CommitApproval, CommitApproval
  <2>6. CASE SaveServices(w)
    BY <2>6, ShrinkKeepsBound DEF SaveServices
  <2>7. CASE Unlock(w)
    BY <2>7, ShrinkKeepsBound DEF Unlock
  <2>8. CASE UpdateProposalStatus(w)
    BY <2>8, ShrinkKeepsBound DEF UpdateProposalStatus
  <2>9. CASE StoreCredential(w)
    BY <2>9, ShrinkKeepsBound DEF StoreCredential
  <2> QED BY <1>3, <2>1, <2>2, <2>3, <2>4, <2>5, <2>6, <2>7, <2>8, <2>9 DEF Work
<1>4. ASSUME NEW w \in Workers, StoreError(w) PROVE OvershootInv'
  BY <1>4, ShrinkKeepsBound DEF StoreError
<1>5. ASSUME NEW id \in Ids, PassTTL(id) PROVE OvershootInv'
  BY <1>5, ShrinkKeepsBound DEF PassTTL, Age, workerVars
<1>6. CASE ListProposals
  BY <1>6, ShrinkKeepsBound DEF ListProposals, Expire, workerVars
<1>7. CASE DeleteVault
  BY <1>7, ShrinkKeepsBound DEF DeleteVault, Delete, workerVars
<1>8. CASE Crash
  BY <1>8, ShrinkKeepsBound DEF Crash
<1> QED BY <1>1, <1>2, <1>3, <1>4, <1>5, <1>6, <1>7, <1>8 DEF ServerNext

(* Concurrent creations exceed the cap by less than the number of requests *)
(* in flight.                                                              *)
THEOREM OvershootBounded == ServerSpec => []PendingOvershootBounded
<1>1. ServerInit => OvershootInv
  <2> SUFFICES ASSUME ServerInit PROVE OvershootInv
    OBVIOUS
  <2>1. Pending = {} /\ Inserting = {}
    BY DEF ServerInit, Init, Pending, Inserting, Ids
  <2>2. Cardinality(Workers) \in Nat /\ Cardinality({}) = 0
    BY WorkersFinite, FS_CardinalityType, FS_EmptySet
  <2> HIDE DEF Inserting
  <2> QED BY <2>1, <2>2, MaxPendingPositive DEF OvershootInv
<1>2. IInv /\ OvershootInv /\ [ServerNext]_serverVars => OvershootInv'
  <2> SUFFICES ASSUME IInv, OvershootInv, [ServerNext]_serverVars PROVE OvershootInv'
    OBVIOUS
  <2>1. CASE ServerNext
    BY <2>1, OvershootStep DEF IInv
  <2>2. CASE UNCHANGED serverVars
    BY <2>2, ShrinkKeepsBound DEF serverVars, IInv, Pending, Inserting, Ids
  <2> QED BY <2>1, <2>2
<1>3. IInv /\ OvershootInv => PendingOvershootBounded
  <2> SUFFICES ASSUME Rows, OvershootInv PROVE PendingOvershootBounded
    BY DEF IInv
  <2> QED BY CountedFinite, MaxPendingPositive DEF OvershootInv, PendingOvershootBounded
<1> QED BY <1>1, <1>2, <1>3, Invariance, PTL DEF ServerSpec

--------------------------------------------------------------------------------
(***************************************************************************)
(* The service lists.  Nothing here depends on the handlers: whatever is   *)
(* merged into a list, or edited in it, names stay the keys of the list.   *)
(* The two loops are recursive functions; their values are reached by an   *)
(* induction that rests on the subset ordering of finite sets.             *)
(***************************************************************************)

(* Induction on an interval. *)
LEMMA Upwards ==
  ASSUME NEW n \in Nat, NEW T, 0 \in T, \A k \in 1..n : k - 1 \in T => k \in T
  PROVE  0..n \subseteq T
<1> DEFINE Bad == {k \in 0..n : k \notin T}
           Upto == {1..k : k \in Bad}
<1> SUFFICES ASSUME Bad # {} PROVE FALSE
  OBVIOUS
<1>1. Upto # {} /\ Upto \subseteq FiniteSubsetsOf(Nat)
  <2>1. ASSUME NEW k \in Bad PROVE 1..k \in FiniteSubsetsOf(Nat)
    BY FS_Interval DEF FiniteSubsetsOf
  <2> QED BY <2>1
<1>2. PICK S \in Upto : \A U \in Upto : ~(<<U, S>> \in StrictSubsetOrdering(Nat))
  BY <1>1, WFMin, FS_StrictSubsetOrderingWellFounded
<1>3. PICK k \in Bad : S = 1..k
  OBVIOUS
<1>4. k # 0
  OBVIOUS
<1>5. k - 1 \in T
  <2>1. 1..(k-1) \subseteq 1..k /\ 1..(k-1) # 1..k /\ 1..(k-1) \in SUBSET Nat /\ 1..k \in SUBSET Nat
    BY <1>4
  <2>2. <<1..(k-1), 1..k>> \in StrictSubsetOrdering(Nat)
    BY <2>1 DEF StrictSubsetOrdering
  <2>3. k - 1 \notin Bad
    BY <1>2, <1>3, <2>2
  <2> QED BY <1>4, <2>3
<1> QED BY <1>4, <1>5

(* Lists in which names are keys. *)
GoodLists ==
  {list \in Seq(ServiceType) : NamesDistinct(list) /\ NoName \notin ServiceNames(list)}

NamedEntries == {e \in EntryType : e.name # NoName}
NamedServices == {svc \in ServiceType : svc.name # NoName}

(* A loop of n rounds leaves a value after each of them. *)
IsLoop(f, n, S, start, step) ==
  /\ f \in [0..n -> S]
  /\ f[0] = start
  /\ \A i \in 1..n : f[i] = step[i][f[i - 1]]

LEMMA TraceExists ==
  ASSUME NEW n \in Nat, NEW S, NEW start \in S, NEW step \in [1..n -> [S -> S]]
  PROVE  \E f : IsLoop(f, n, S, start, step)
<1> DEFINE T == {k \in 0..n : \E f : IsLoop(f, k, S, start, step)}
<1>1. 0 \in T
  <2>1. IsLoop([j \in 0..0 |-> start], 0, S, start, step)
    BY DEF IsLoop
  <2>2. \E f : IsLoop(f, 0, S, start, step)
    BY <2>1
  <2> QED BY <2>2
<1>2. ASSUME NEW k \in 1..n, k - 1 \in T PROVE k \in T
  <2>1. PICK prev : IsLoop(prev, k - 1, S, start, step)
    BY <1>2
  <2> DEFINE g == [j \in 0..k |-> IF j = k THEN step[k][prev[k - 1]] ELSE prev[j]]
  <2> USE DEF IsLoop
  <2>2. prev[k - 1] \in S
    BY <2>1
  <2>3. g \in [0..k -> S]
    BY <2>1, <2>2
  <2>4. ASSUME NEW i \in 1..k PROVE g[i] = step[i][g[i - 1]]
    BY <2>1
  <2>5. IsLoop(g, k, S, start, step)
    BY <2>1, <2>3, <2>4
  <2> HIDE DEF IsLoop, g
  <2>6. \E f : IsLoop(f, k, S, start, step)
    BY <2>5
  <2> QED BY <2>6
<1>3. n \in T
  <2> HIDE DEF T
  <2>1. 0..n \subseteq T
    BY <1>1, <1>2, Upwards
  <2> QED BY <2>1
<1> QED BY <1>3

(* Taking one service out of a list. *)
LEMMA RemoveAtIs ==
  ASSUME NEW list \in GoodLists, NEW k \in DOMAIN list
  PROVE  RemoveAt(list, k) =
           [i \in 1..Len(list) - 1 |-> IF i < k THEN list[i] ELSE list[i + 1]]
<1> DEFINE n == Len(list)
           r == [i \in 1..n - 1 |-> IF i < k THEN list[i] ELSE list[i + 1]]
<1>0. list \in Seq(ServiceType) /\ k \in 1..n /\ n \in Nat
  BY DEF GoodLists
<1> DEFINE a == SubSeq(list, 1, k - 1)
           b == SubSeq(list, k + 1, n)
<1>1. a \in Seq(ServiceType) /\ Len(a) = k - 1 /\ \A i \in 1..k - 1 : a[i] = list[i]
  BY <1>0
<1>2. b \in Seq(ServiceType) /\ Len(b) = n - k /\ \A i \in 1..n - k : b[i] = list[k + i]
  BY <1>0
<1> HIDE DEF a, b
<1>3. /\ a \o b \in Seq(ServiceType) /\ Len(a \o b) = n - 1
      /\ \A i \in 1..n - 1 : (a \o b)[i] = IF i < k THEN list[i] ELSE list[i + 1]
  BY <1>0, <1>1, <1>2
<1> DEFINE c == a \o b
<1> HIDE DEF c
<1>4. c = r
  <2>1. c \in Seq(ServiceType) /\ Len(c) = n - 1
    BY <1>3 DEF c
  <2>2. \A i \in 1..n - 1 : c[i] = r[i]
    BY <1>3 DEF c
  <2>3. c = [i \in 1..n - 1 |-> c[i]]
    BY <2>1
  <2> QED BY <2>2, <2>3
<1> QED BY <1>4 DEF RemoveAt, a, b, c

LEMMA RemoveAtGood ==
  ASSUME NEW list \in GoodLists, NEW k \in DOMAIN list
  PROVE  RemoveAt(list, k) \in GoodLists
<1> DEFINE n == Len(list)
           r == [i \in 1..n - 1 |-> IF i < k THEN list[i] ELSE list[i + 1]]
<1>1. list \in Seq(ServiceType) /\ k \in 1..n /\ n \in Nat
  BY DEF GoodLists
<1>2. RemoveAt(list, k) = r
  BY RemoveAtIs
<1>3. r \in Seq(ServiceType) /\ DOMAIN r = 1..n - 1
  BY <1>1
<1>4. NamesDistinct(r)
  BY <1>1, <1>3 DEF GoodLists, NamesDistinct, Positions
<1>5. NoName \notin ServiceNames(r)
  BY <1>1, <1>3 DEF GoodLists, ServiceNames, Positions
<1> QED BY <1>2, <1>3, <1>4, <1>5 DEF GoodLists

(* A service with a name of its own at the end of a list. *)
LEMMA AppendGood ==
  ASSUME NEW list \in GoodLists, NEW svc \in NamedServices, ~Has(list, svc.name)
  PROVE  Append(list, svc) \in GoodLists
<1> DEFINE r == Append(list, svc)
<1>1. list \in Seq(ServiceType) /\ svc \in ServiceType /\ svc.name # NoName
  BY DEF GoodLists, NamedServices
<1>2. /\ r \in Seq(ServiceType) /\ DOMAIN r = 1..Len(list) + 1 /\ DOMAIN list = 1..Len(list)
      /\ Len(list) \in Nat
      /\ r[Len(list) + 1] = svc /\ \A i \in DOMAIN list : r[i] = list[i]
  BY <1>1
<1>3. \A i \in DOMAIN list : list[i].name # svc.name
  BY DEF Has, Named, Positions
<1> HIDE DEF r
<1>4. \A i \in DOMAIN r : i \in DOMAIN list \/ i = Len(list) + 1
  BY <1>2
<1>5. NamesDistinct(r)
  BY <1>2, <1>3, <1>4 DEF GoodLists, NamesDistinct, Positions
<1>6. NoName \notin ServiceNames(r)
  BY <1>1, <1>2, <1>4 DEF GoodLists, ServiceNames, Positions
<1> QED BY <1>2, <1>5, <1>6 DEF GoodLists, r

(* Services replaced by others of the same name. *)
LEMMA ReplaceGood ==
  ASSUME NEW list \in GoodLists, NEW r \in [DOMAIN list -> ServiceType],
         \A i \in DOMAIN list : r[i].name = list[i].name
  PROVE  r \in GoodLists
<1>1. list \in Seq(ServiceType) /\ DOMAIN list = 1..Len(list) /\ Len(list) \in Nat
  BY DEF GoodLists
<1>2. r \in Seq(ServiceType) /\ DOMAIN r = DOMAIN list
  BY <1>1
<1>3. NamesDistinct(r)
  BY <1>2 DEF GoodLists, NamesDistinct, Positions
<1>4. NoName \notin ServiceNames(r)
  BY <1>2 DEF GoodLists, ServiceNames, Positions
<1> QED BY <1>2, <1>3, <1>4 DEF GoodLists

(* One entry of a proposal keeps names the keys of the list. *)
LEMMA MergeEntryGood ==
  ASSUME NEW list \in GoodLists, NEW entry \in NamedEntries
  PROVE  MergeEntry(list, entry) \in GoodLists
<1>1. entry \in EntryType /\ entry.name # NoName
  BY DEF NamedEntries
<1>2. ToService(entry) \in ServiceType /\ ToService(entry).name = entry.name
  BY <1>1 DEF ToService, ServiceType, EntryType
<1>3. CASE entry.action = DeleteAction
  <2>1. CASE Has(list, entry.name)
    <3>1. Only(Named(list, entry.name)) \in Named(list, entry.name)
      BY <2>1 DEF Has, Only
    <3>2. Only(Named(list, entry.name)) \in DOMAIN list
      BY <3>1 DEF Named, Positions
    <3> QED BY <1>3, <2>1, <3>2, RemoveAtGood DEF MergeEntry, Without
  <2>2. CASE ~Has(list, entry.name)
    BY <1>3, <2>2 DEF MergeEntry, Without
  <2> QED BY <2>1, <2>2
<1>4. CASE entry.action # DeleteAction /\ ~Has(list, entry.name)
  BY <1>1, <1>2, <1>4, AppendGood DEF MergeEntry, NamedServices
<1>5. CASE entry.action # DeleteAction /\ Has(list, entry.name)
  <2> DEFINE r == [i \in Positions(list) |->
                     IF list[i].name = entry.name THEN UpdatedService(list[i], entry) ELSE list[i]]
  <2>1. list \in Seq(ServiceType)
    BY DEF GoodLists
  <2>2. ASSUME NEW i \in DOMAIN list, list[i].name = entry.name
        PROVE  /\ UpdatedService(list[i], entry) \in ServiceType
               /\ UpdatedService(list[i], entry).name = entry.name
    <3>1. list[i] \in ServiceType
      BY <2>1
    <3>2. CASE EnableOnly(entry)
      BY <1>1, <2>2, <3>1, <3>2 DEF UpdatedService, ServiceType, EntryType
    <3>3. CASE ~EnableOnly(entry)
      BY <1>1, <1>2, <2>2, <3>1, <3>3 DEF UpdatedService, ServiceType, EntryType
    <3> QED BY <3>2, <3>3
  <2>3. r \in [DOMAIN list -> ServiceType]
    BY <2>1, <2>2 DEF Positions
  <2>4. \A i \in DOMAIN list : r[i].name = list[i].name
    BY <2>2 DEF Positions
  <2>5. r \in GoodLists
    <3> HIDE DEF r
    <3> QED BY <2>3, <2>4, ReplaceGood
  <2> QED BY <1>5, <2>5 DEF MergeEntry
<1> QED BY <1>3, <1>4, <1>5

(* So do all the entries of a proposal, one after another. *)
LEMMA MergeTrace ==
  ASSUME NEW list \in GoodLists, NEW entries \in Seq(NamedEntries)
  PROVE  \E after \in [0..Len(entries) -> GoodLists] :
           /\ after[0] = list
           /\ \A i \in 1..Len(entries) : after[i] = MergeEntry(after[i - 1], entries[i])
           /\ MergeServices(list, entries) = after[Len(entries)]
<1> DEFINE n == Len(entries)
           Body(g) == [i \in 0..n |-> IF i = 0 THEN list ELSE MergeEntry(g[i - 1], entries[i])]
           after == CHOOSE g : g = Body(g)
           step == [i \in 1..n |-> [l \in GoodLists |-> MergeEntry(l, entries[i])]]
<1>1. n \in Nat /\ \A i \in 1..n : entries[i] \in NamedEntries
  OBVIOUS
<1>2. step \in [1..n -> [GoodLists -> GoodLists]]
  BY <1>1, MergeEntryGood
<1>3. PICK f : IsLoop(f, n, GoodLists, list, step)
  <2> HIDE DEF step
  <2>1. n \in Nat
    BY <1>1
  <2> HIDE DEF n
  <2> QED BY <1>2, <2>1, TraceExists
<1>4. f = Body(f)
  <2>1. /\ f \in [0..n -> GoodLists] /\ f[0] = list
        /\ \A i \in 1..n : f[i] = step[i][f[i - 1]]
    <3> HIDE DEF step
    <3> QED BY <1>3 DEF IsLoop
  <2>2. ASSUME NEW i \in 1..n PROVE f[i] = MergeEntry(f[i - 1], entries[i])
    <3>1. f[i - 1] \in GoodLists
      BY <1>1, <2>1
    <3> QED BY <2>1, <3>1
  <2> QED BY <1>1, <2>1, <2>2
<1>5. after = Body(after)
  <2> HIDE DEF Body
  <2> QED BY <1>4
<1> HIDE DEF after
<1>6. 0..n \subseteq {i \in 0..n : after[i] \in GoodLists}
  <2> DEFINE T == {i \in 0..n : after[i] \in GoodLists}
  <2>1. 0 \in T
    BY <1>1, <1>5
  <2>2. ASSUME NEW k \in 1..n, k - 1 \in T PROVE k \in T
    <3>1. after[k] = MergeEntry(after[k - 1], entries[k])
      BY <1>1, <1>5
    <3> QED BY <1>1, <2>2, <3>1, MergeEntryGood
  <2> HIDE DEF T, n
  <2>3. 0..n \subseteq T
    BY <1>1, <2>1, <2>2, Upwards
  <2> QED BY <2>3 DEF T
<1>7. after \in [0..n -> GoodLists]
  <2>1. DOMAIN after = 0..n /\ after = [i \in DOMAIN after |-> after[i]]
    BY <1>5
  <2> QED BY <1>6, <2>1
<1>8. /\ after[0] = list
      /\ \A i \in 1..n : after[i] = MergeEntry(after[i - 1], entries[i])
  BY <1>1, <1>5
<1>9. MergeServices(list, entries) = after[n]
  BY DEF MergeServices, after
<1> QED BY <1>7, <1>8, <1>9

LEMMA MergeGood ==
  ASSUME NEW list \in GoodLists, NEW entries \in Seq(NamedEntries)
  PROVE  MergeServices(list, entries) \in GoodLists
<1> Len(entries) \in Nat
  OBVIOUS
<1> QED BY MergeTrace

(* The same of the services of a direct upsert. *)
LEMMA UpsertServiceGood ==
  ASSUME NEW list \in GoodLists, NEW svc \in NamedServices
  PROVE  UpsertService(list, svc) \in GoodLists
<1>1. svc \in ServiceType /\ list \in Seq(ServiceType)
  BY DEF NamedServices, GoodLists
<1>2. CASE Has(list, svc.name)
  <2> DEFINE r == [i \in Positions(list) |-> IF list[i].name = svc.name THEN svc ELSE list[i]]
  <2>1. r \in [DOMAIN list -> ServiceType] /\ \A i \in DOMAIN list : r[i].name = list[i].name
    BY <1>1 DEF Positions
  <2>2. r \in GoodLists
    <3> HIDE DEF r
    <3> QED BY <2>1, ReplaceGood
  <2> QED BY <1>2, <2>2 DEF UpsertService
<1>3. CASE ~Has(list, svc.name)
  BY <1>3, AppendGood DEF UpsertService
<1> QED BY <1>2, <1>3

LEMMA UpsertGood ==
  ASSUME NEW list \in GoodLists, NEW services,
         Adopted(services, list) \in Seq(NamedServices),
         Len(services) = Len(Adopted(services, list))
  PROVE  UpsertServices(list, services) \in GoodLists
<1> DEFINE adopted == Adopted(services, list)
           n == Len(services)
           Body(g) == [i \in 0..n |-> IF i = 0 THEN list ELSE UpsertService(g[i - 1], adopted[i])]
           after == CHOOSE g : g = Body(g)
           step == [i \in 1..n |-> [l \in GoodLists |-> UpsertService(l, adopted[i])]]
<1> HIDE DEF adopted
<1>1. n \in Nat /\ \A i \in 1..n : adopted[i] \in NamedServices
  BY DEF adopted
<1>2. step \in [1..n -> [GoodLists -> GoodLists]]
  BY <1>1, UpsertServiceGood
<1>3. PICK f : IsLoop(f, n, GoodLists, list, step)
  <2> HIDE DEF step
  <2>1. n \in Nat
    BY <1>1
  <2> HIDE DEF n
  <2> QED BY <1>2, <2>1, TraceExists
<1>4. f = Body(f)
  <2>1. /\ f \in [0..n -> GoodLists] /\ f[0] = list
        /\ \A i \in 1..n : f[i] = step[i][f[i - 1]]
    <3> HIDE DEF step
    <3> QED BY <1>3 DEF IsLoop
  <2>2. ASSUME NEW i \in 1..n PROVE f[i] = UpsertService(f[i - 1], adopted[i])
    <3>1. f[i - 1] \in GoodLists
      BY <1>1, <2>1
    <3> QED BY <2>1, <3>1
  <2> QED BY <1>1, <2>1, <2>2
<1>5. after = Body(after)
  <2> HIDE DEF Body
  <2> QED BY <1>4
<1> HIDE DEF after
<1>6. 0..n \subseteq {i \in 0..n : after[i] \in GoodLists}
  <2> DEFINE T == {i \in 0..n : after[i] \in GoodLists}
  <2>1. 0 \in T
    BY <1>1, <1>5
  <2>2. ASSUME NEW k \in 1..n, k - 1 \in T PROVE k \in T
    <3>1. after[k] = UpsertService(after[k - 1], adopted[k])
      BY <1>1, <1>5
    <3> QED BY <1>1, <2>2, <3>1, UpsertServiceGood
  <2> HIDE DEF T, n
  <2>3. 0..n \subseteq T
    BY <1>1, <2>1, <2>2, Upwards
  <2> QED BY <2>3 DEF T
<1>7. after[n] \in GoodLists
  BY <1>1, <1>6
<1> QED BY <1>7 DEF UpsertServices, after, adopted

(* A name an entry adopts is one of the list's or its own. *)
LEMMA AdoptedNameType ==
  ASSUME NEW list \in GoodLists, NEW entry, NEW rebind, entry.name \in Names \cup {NoName}
  PROVE  /\ AdoptedName(entry, list, rebind) \in Names \cup {NoName}
         /\ entry.name # NoName => AdoptedName(entry, list, rebind) # NoName
<1> DEFINE same == AtPattern(list, entry.host, entry.path)
<1>1. ASSUME IsUnique(same)
      PROVE  /\ list[Only(same)].name \in Names \cup {NoName}
             /\ list[Only(same)].name # NoName
  <2>1. Only(same) \in same
    BY <1>1 DEF IsUnique, Only
  <2>2. Only(same) \in DOMAIN list
    BY <2>1 DEF AtPattern, AtHost, Positions
  <2>3. list[Only(same)] \in ServiceType
    BY <2>2 DEF GoodLists
  <2> QED BY <2>2, <2>3 DEF GoodLists, ServiceNames, Positions, ServiceType
<1> QED BY <1>1 DEF AdoptedName

(* Normalising keeps the entries what they are, and named. *)
LEMMA NormalizeType ==
  ASSUME NEW list \in GoodLists, NEW entries \in Seq(EntryType), Normalizable(entries, list)
  PROVE  /\ Normalize(entries, list) \in Seq(EntryType)
         /\ Len(Normalize(entries, list)) = Len(entries)
<1>1. ASSUME NEW i \in DOMAIN entries
      PROVE  NormalizedName(entries[i], list) \in Names \cup {NoName}
  <2>1. entries[i].name \in Names \cup {NoName}
    <3>1. entries[i] \in EntryType
      OBVIOUS
    <3> QED BY <3>1 DEF EntryType
  <2>2. CASE UnnamedDelete(entries[i])
    <3> DEFINE D == DeleteTargets(entries[i], list)
    <3>1. Only(D) \in D
      BY <2>2 DEF Normalizable, IsUnique, Only
    <3>2. Only(D) \in DOMAIN list
      BY <3>1 DEF DeleteTargets, AtHost, Positions
    <3>3. list[Only(D)] \in ServiceType
      BY <3>2 DEF GoodLists
    <3> QED BY <2>2, <3>3 DEF NormalizedName, ServiceType
  <2>3. CASE ~UnnamedDelete(entries[i])
    BY <2>1, <2>3, AdoptedNameType DEF NormalizedName
  <2> QED BY <2>2, <2>3
<1>2. ASSUME NEW i \in DOMAIN entries
      PROVE  [entries[i] EXCEPT !.name = NormalizedName(entries[i], list)] \in EntryType
  <2>1. entries[i] \in EntryType
    OBVIOUS
  <2>2. NormalizedName(entries[i], list) \in Names \cup {NoName}
    BY <1>1
  <2> QED BY <2>1, <2>2 DEF EntryType
<1> QED BY <1>2 DEF Normalize

LEMMA NormalizeNamed ==
  ASSUME NEW list \in GoodLists, NEW entries \in Seq(NamedEntries)
  PROVE  /\ Normalizable(entries, list)
         /\ Normalize(entries, list) \in Seq(NamedEntries)
<1>1. \A i \in DOMAIN entries : entries[i] \in EntryType /\ entries[i].name # NoName
  BY DEF NamedEntries
<1>2. ASSUME NEW i \in DOMAIN entries
      PROVE  /\ NormalizedName(entries[i], list) \in Names \cup {NoName}
             /\ NormalizedName(entries[i], list) # NoName
  <2>1. entries[i].name \in Names \cup {NoName}
    BY <1>1 DEF EntryType
  <2> QED BY <1>1, <2>1, AdoptedNameType DEF NormalizedName, UnnamedDelete
<1>3. ASSUME NEW i \in DOMAIN entries
      PROVE  [entries[i] EXCEPT !.name = NormalizedName(entries[i], list)] \in NamedEntries
  BY <1>1, <1>2 DEF EntryType, NamedEntries
<1> QED BY <1>1, <1>3 DEF Normalize, Normalizable, UnnamedDelete

(* Every edit that is allowed leaves a list in which names are keys. *)
LEMMA EditedGood ==
  ASSUME NEW list \in GoodLists, NEW edit \in EditType, EditAllowed(list, edit)
  PROVE  Edited(list, edit) \in GoodLists
<1>1. list \in Seq(ServiceType)
  BY DEF GoodLists
<1>2. CASE edit.op = "upsert"
  <2> DEFINE adopted == Adopted(edit.services, list)
  <2>1. edit.services \in Seq(ServiceType)
    BY <1>2 DEF EditType
  <2>2. ASSUME NEW i \in DOMAIN edit.services
        PROVE  [edit.services[i] EXCEPT !.name = AdoptedName(edit.services[i], list, FALSE)]
                 \in ServiceType
    <3>1. edit.services[i] \in ServiceType
      BY <2>1
    <3>2. edit.services[i].name \in Names \cup {NoName}
      BY <3>1 DEF ServiceType
    <3>3. AdoptedName(edit.services[i], list, FALSE) \in Names \cup {NoName}
      BY <3>2, AdoptedNameType
    <3> QED BY <3>1, <3>3 DEF ServiceType
  <2>3. /\ adopted \in Seq(ServiceType) /\ Len(adopted) = Len(edit.services)
        /\ DOMAIN adopted = DOMAIN edit.services
    <3> DEFINE to == [i \in DOMAIN edit.services |->
                        [edit.services[i] EXCEPT !.name = AdoptedName(edit.services[i], list, FALSE)]]
    <3>1. DOMAIN edit.services = 1..Len(edit.services) /\ Len(edit.services) \in Nat
      BY <2>1
    <3>2. \A i \in 1..Len(edit.services) : to[i] \in ServiceType
      BY <2>2, <3>1
    <3>3. to = [i \in 1..Len(edit.services) |-> to[i]]
      BY <3>1
    <3> HIDE DEF to
    <3>4. to \in Seq(ServiceType) /\ Len(to) = Len(edit.services) /\ DOMAIN to = DOMAIN edit.services
      BY <3>1, <3>2, <3>3
    <3> QED BY <3>4 DEF to, Adopted
  <2>4. \A i \in DOMAIN adopted : adopted[i].name # NoName
    BY <1>2 DEF EditAllowed, ValidServices, Positions
  <2>5. adopted \in Seq(NamedServices)
    <3> HIDE DEF adopted
    <3> QED BY <2>3, <2>4 DEF NamedServices
  <2> QED BY <1>2, <2>3, <2>5, UpsertGood DEF Edited
<1>3. CASE edit.op = "remove"
  <2>1. Only(RefTargets(list, edit.ref)) \in RefTargets(list, edit.ref)
    BY <1>3 DEF EditAllowed, IsUnique, Only
  <2>2. Only(RefTargets(list, edit.ref)) \in DOMAIN list
    BY <2>1 DEF RefTargets, Named, AtHost, Positions
  <2> QED BY <1>3, <2>2, RemoveAtGood DEF Edited
<1>4. CASE edit.op = "patch"
  <2> DEFINE k == Only(RefTargets(list, edit.ref))
             r == [list EXCEPT ![k].enabled = edit.enabled]
  <2>1. k \in RefTargets(list, edit.ref)
    BY <1>4 DEF EditAllowed, IsUnique, Only
  <2>2. k \in DOMAIN list
    BY <2>1 DEF RefTargets, Named, AtHost, Positions
  <2>3. edit.enabled \in Flags
    BY <1>4 DEF EditType
  <2> HIDE DEF k
  <2>4. \A i \in DOMAIN list : list[i] \in ServiceType
    BY <1>1
  <2>5. [list[k] EXCEPT !.enabled = edit.enabled] \in ServiceType
    BY <2>2, <2>3, <2>4 DEF ServiceType
  <2>6. r \in [DOMAIN list -> ServiceType]
    BY <1>1, <2>2, <2>4, <2>5
  <2>7. \A i \in DOMAIN list : r[i].name = list[i].name
    BY <1>1, <2>2, <2>4 DEF ServiceType
  <2>8. r \in GoodLists
    <3> HIDE DEF r
    <3> QED BY <2>6, <2>7, ReplaceGood
  <2> QED BY <1>4, <2>8 DEF Edited, k
<1>5. CASE edit.op = "set"
  <2>1. edit.services \in Seq(ServiceType)
    BY <1>5 DEF EditType
  <2> QED BY <1>5, <2>1 DEF Edited, EditAllowed, ValidServices, GoodLists, ServiceNames, Positions
<1>6. CASE edit.op = "clear"
  BY <1>6 DEF Edited, GoodLists, ServiceNames, Positions, NamesDistinct
<1> QED BY <1>2, <1>3, <1>4, <1>5, <1>6 DEF EditAllowed

--------------------------------------------------------------------------------
(***************************************************************************)
(* The types of the data.                                                  *)
(***************************************************************************)
Slots == [Keys -> Values \cup SlotStates]

(* What a stored proposal, or a handler's copy of one, consists of. *)
Stored(p) == p.services \in Seq(NamedEntries) /\ p.slots \in Slots

DataInv ==
  /\ config \in GoodLists
  /\ snap \in [Workers -> GoodLists]
  /\ creds \in [Keys -> Values \cup {NoValue}]
  /\ \A i \in Ids : Stored(proposals[i])
  /\ \A w \in Workers : pc[w] \in {"refs", "count", "insert"} => Stored(req[w])
  /\ \A w \in Workers :
       Approving(w) => Stored(req[w]) /\ Resolvable(req[w].slots, req[w].overrides)

(* A list without services. *)
LEMMA EmptyGood == <<>> \in GoodLists
BY DEF GoodLists, NamesDistinct, ServiceNames, Positions

LEMMA DataInit == ServerInit => DataInv
<1> SUFFICES ASSUME ServerInit PROVE DataInv
  OBVIOUS
<1> USE DEF ServerInit, Init
<1>1. config \in GoodLists /\ snap \in [Workers -> GoodLists]
  BY EmptyGood
<1>2. Ids = {}
  BY DEF Ids
<1> QED BY <1>1, <1>2 DEF DataInv, Approving, NoCredentials

(* An approval leaves a value, or none, under every key. *)
LEMMA CredentialsAfterType ==
  ASSUME NEW c \in [Keys -> Values \cup {NoValue}], NEW slots \in Slots,
         NEW o \in [Keys -> Values \cup {NoValue}], Resolvable(slots, o)
  PROVE  CredentialsAfter(c, slots, o) \in [Keys -> Values \cup {NoValue}]
BY DEF CredentialsAfter, Resolvable, SetSlots, Slots, SlotStates

(* A valid proposal, once normalised, is a list of named entries. *)
LEMMA ValidIsNamed ==
  ASSUME NEW entries \in Seq(EntryType), NEW slots, ValidProposal(entries, slots)
  PROVE  entries \in Seq(NamedEntries)
BY DEF ValidProposal, NamedEntries

(* Every step keeps the data typed and names the keys of their lists. *)
LEMMA DataStep == IInv /\ DataInv /\ ServerNext => DataInv'
<1> SUFFICES ASSUME IInv, DataInv, ServerNext PROVE DataInv'
  OBVIOUS
<1> USE DEF IInv, Shape
<1>a. /\ config \in GoodLists /\ snap \in [Workers -> GoodLists]
      /\ creds \in [Keys -> Values \cup {NoValue}]
      /\ \A i \in Ids : Stored(proposals[i])
      /\ \A w \in Workers : pc[w] \in {"refs", "count", "insert"} => Stored(req[w])
      /\ \A w \in Workers :
           Approving(w) => Stored(req[w]) /\ Resolvable(req[w].slots, req[w].overrides)
  BY DEF DataInv
<1>b. ASSUME UNCHANGED <<config, creds, proposals>>, snap' \in [Workers -> GoodLists],
             \A w \in Workers :
               \/ req'[w] = req[w] /\ (pc'[w] = pc[w] \/ pc'[w] \in {"unlock", "idle"})
               \/ req'[w] = req[w] /\ pc[w] \in {"refs", "count"} /\ pc'[w] \in {"count", "insert"}
               \/ req'[w] = req[w] /\ pc[w] \in {"lock", "load"} /\ pc'[w] \in {"load", "apply", "save"}
               \/ pc'[w] \in {"idle", "reject", "credential", "unlock"}
               \/ pc'[w] = "lock" /\ req'[w].op = "edit"
      PROVE  DataInv'
  BY <1>a, <1>b DEF DataInv, Approving, Ids, Stored
<1>1. ASSUME NEW w \in Workers, Start(w) PROVE DataInv'
  <2> USE DEF Begin, GoTo
  <2>1. ASSUME NEW b \in Bodies, StartCreate(w, b) PROVE DataInv'
    <3> DEFINE named == Normalize(b.services, config)
    <3>1. b.services \in Seq(EntryType) /\ b.slots \in Slots
      BY BodiesType DEF Slots
    <3>2. named \in Seq(EntryType)
      BY <1>a, <2>1, <3>1, NormalizeType DEF StartCreate
    <3>3. named \in Seq(NamedEntries)
      BY <2>1, <3>2, ValidIsNamed DEF StartCreate
    <3>4. Stored(req'[w]) /\ req'[w].op = "create"
      BY <2>1, <3>1, <3>3 DEF StartCreate, Stored
    <3>5. \A v \in Workers : v # w => req'[v] = req[v] /\ pc'[v] = pc[v]
      BY <2>1 DEF StartCreate
    <3>6. pc'[w] = "refs" /\ UNCHANGED <<config, creds, proposals, snap>>
      BY <2>1 DEF StartCreate
    <3> QED BY <1>a, <3>4, <3>5, <3>6 DEF DataInv, Approving, Ids, Stored
  <2>2. ASSUME NEW id \in Ids, NEW o \in Overrides, StartApprove(w, id, o) PROVE DataInv'
    <3>1. /\ Stored(req'[w]) /\ Resolvable(req'[w].slots, req'[w].overrides)
          /\ pc'[w] = "lock" /\ UNCHANGED <<config, creds, proposals, snap>>
      BY <1>a, <2>2 DEF StartApprove, Stored
    <3>2. \A v \in Workers : v # w => req'[v] = req[v] /\ pc'[v] = pc[v]
      BY <2>2 DEF StartApprove
    <3> QED BY <1>a, <3>1, <3>2 DEF DataInv, Approving, Ids, Stored
  <2>3. ASSUME NEW id \in Ids, StartReject(w, id) PROVE DataInv'
    BY <1>a, <1>b, <2>3 DEF StartReject
  <2>4. ASSUME NEW e \in Edits, StartEdit(w, e) PROVE DataInv'
    BY <1>a, <1>b, <2>4 DEF StartEdit
  <2>5. ASSUME NEW r \in CredentialRequests, StartCredentials(w, r) PROVE DataInv'
    BY <1>a, <1>b, <2>5 DEF StartCredentials
  <2> QED BY <1>1, <2>1, <2>2, <2>3, <2>4, <2>5 DEF Start
<1>2. ASSUME NEW w \in Workers, AcquireLock(w) PROVE DataInv'
  <2>1. /\ UNCHANGED <<config, creds, proposals, req, snap>> /\ pc[w] = "lock"
        /\ pc'[w] \in {"load", "save"} /\ \A v \in Workers : v # w => pc'[v] = pc[v]
    BY <1>2 DEF AcquireLock, AfterLock, GoTo
  <2> QED BY <1>a, <1>b, <2>1
<1>3. ASSUME NEW w \in Workers, Work(w) PROVE DataInv'
  <2> USE DEF GoTo, Done, Respond, Proceed
  <2>1. CASE \E listed \in {StoredKeys, {}} : CheckRefs(w, listed)
    BY <1>a, <1>b, <2>1 DEF CheckRefs
  <2>2. CASE CountPending(w)
    BY <1>a, <1>b, <2>2 DEF CountPending
  <2>3. CASE InsertProposal(w)
    <3> DEFINE row == NewProposal(req[w].services, req[w].slots)
    <3>1. Stored(req[w])
      BY <1>a, <2>3 DEF InsertProposal
    <3>2. Stored(row)
      BY <3>1 DEF Stored, NewProposal
    <3> HIDE DEF row
    <3>3. \A i \in Ids' : Stored(proposals'[i])
      <4>1. CASE exists
        BY <1>a, <2>3, <3>2, <4>1 DEF InsertProposal, WithProposal, Ids, row
      <4>2. CASE ~exists
        BY <1>a, <2>3, <4>2 DEF InsertProposal, Ids
      <4> QED BY <4>1, <4>2
    <3>4. /\ UNCHANGED <<config, creds, snap>> /\ pc'[w] = "idle"
          /\ \A v \in Workers : v # w => req'[v] = req[v] /\ pc'[v] = pc[v]
      BY <2>3 DEF InsertProposal
    <3> QED BY <1>a, <3>3, <3>4 DEF DataInv, Approving, Stored
  <2>4. CASE LoadServices(w)
    <3>1. /\ UNCHANGED <<config, creds, proposals, req>> /\ pc[w] = "load"
          /\ pc'[w] \in {"save", "apply", "unlock"} /\ \A v \in Workers : v # w => pc'[v] = pc[v]
      BY <2>4 DEF LoadServices
    <3>2. snap' \in [Workers -> GoodLists]
      BY <1>a, <2>4 DEF LoadServices
    <3> QED BY <1>a, <1>b, <3>1, <3>2
  <2>5. CASE ApplyProposal(w)
    <3>1. /\ UNCHANGED <<exists, req, snap>> /\ pc[w] = "apply" /\ pc'[w] = "unlock"
          /\ \A v \in Workers : v # w => pc'[v] = pc[v]
      BY <2>5 DEF ApplyProposal
    <3>2. CASE req[w].id \in Pending
      <4> DEFINE r == req[w]
      <4>1. Approving(w)
        BY <3>1 DEF Approving, PhaseInv
      <4>2. Stored(r) /\ Resolvable(r.slots, r.overrides) /\ r.overrides \in Overrides
        BY <1>a, <4>1 DEF ApproveInv
      <4>3. Normalize(r.services, snap[w]) \in Seq(NamedEntries)
        BY <1>a, <4>2, NormalizeNamed DEF Stored
      <4>4. config' \in GoodLists
        BY <1>a, <2>5, <3>2, <4>3, MergeGood DEF ApplyProposal, CommitApproval
      <4>5. creds' \in [Keys -> Values \cup {NoValue}]
        BY <1>a, <2>5, <3>2, <4>2, OverridesType, CredentialsAfterType
        DEF ApplyProposal, CommitApproval, Stored
      <4>6. Ids' = Ids
        BY <2>5, <3>2 DEF ApplyProposal, CommitApproval, Ids
      <4>7. ASSUME NEW i \in Ids
            PROVE  /\ proposals'[i].services = proposals[i].services
                   /\ proposals'[i].slots = proposals[i].slots
        <5>1. IsRow(proposals[i])
          BY DEF Rows
        <5> QED BY <2>5, <3>2, <5>1 DEF ApplyProposal, CommitApproval, IsRow, Ids
      <4>8. \A i \in Ids' : Stored(proposals'[i])
        BY <1>a, <4>6, <4>7 DEF Stored
      <4> QED BY <1>a, <3>1, <4>4, <4>5, <4>8 DEF DataInv, Approving, Stored
    <3>3. CASE req[w].id \notin Pending
      BY <1>a, <1>b, <2>5, <3>1, <3>3 DEF ApplyProposal, CommitApproval
    <3> QED BY <3>2, <3>3
  <2>6. CASE SaveServices(w)
    <3> DEFINE e == req[w].edit
    <3>1. Editing(w)
      BY <2>6 DEF SaveServices, Editing, PhaseInv
    <3>2. e \in EditType /\ EditAllowed(snap[w], e)
      BY <2>6, <3>1, EditsType DEF SaveServices, EditInv, BlindEdit, EditAllowed
    <3> HIDE DEF e
    <3>3. Edited(snap[w], e) \in GoodLists
      BY <1>a, <3>2, EditedGood
    <3>4. /\ config' \in GoodLists /\ UNCHANGED <<creds, proposals, req, snap>>
          /\ pc'[w] = "unlock" /\ \A v \in Workers : v # w => pc'[v] = pc[v]
      BY <1>a, <2>6, <3>3 DEF SaveServices, e
    <3> QED BY <1>a, <3>4 DEF DataInv, Approving, Ids, Stored
  <2>7. CASE Unlock(w)
    BY <1>a, <1>b, <2>7, EmptyGood DEF Unlock
  <2>8. CASE UpdateProposalStatus(w)
    <3>1. Ids' = Ids
      BY <2>8 DEF UpdateProposalStatus, Ids
    <3>2. ASSUME NEW i \in Ids
          PROVE  /\ proposals'[i].services = proposals[i].services
                 /\ proposals'[i].slots = proposals[i].slots
      <4>1. IsRow(proposals[i])
        BY DEF Rows
      <4> QED BY <2>8, <4>1 DEF UpdateProposalStatus, IsRow, Ids
    <3>3. \A i \in Ids' : Stored(proposals'[i])
      BY <1>a, <3>1, <3>2 DEF Stored
    <3>4. /\ UNCHANGED <<config, creds, snap>> /\ pc'[w] = "idle"
          /\ \A v \in Workers : v # w => req'[v] = req[v] /\ pc'[v] = pc[v]
      BY <2>8 DEF UpdateProposalStatus
    <3> QED BY <1>a, <3>3, <3>4 DEF DataInv, Approving, Stored
  <2>9. CASE StoreCredential(w)
    <3> DEFINE item == Head(req[w].todo)
    <3>1. item \in Keys \X (Values \cup {NoValue})
      BY <2>9 DEF StoreCredential, CredentialInv
    <3>2. item[1] \in Keys /\ item[2] \in Values \cup {NoValue}
      BY <3>1
    <3> HIDE DEF item
    <3>3. creds' \in [Keys -> Values \cup {NoValue}]
      BY <1>a, <2>9, <3>2 DEF StoreCredential, item
    <3>4. /\ UNCHANGED <<config, proposals, snap>> /\ pc'[w] \in {"credential", "idle"}
          /\ \A v \in Workers : v # w => req'[v] = req[v] /\ pc'[v] = pc[v]
      BY <2>9 DEF StoreCredential
    <3> QED BY <1>a, <3>3, <3>4 DEF DataInv, Approving, Ids, Stored
  <2> QED BY <1>3, <2>1, <2>2, <2>3, <2>4, <2>5, <2>6, <2>7, <2>8, <2>9 DEF Work
<1>4. ASSUME NEW w \in Workers, StoreError(w) PROVE DataInv'
  BY <1>a, <1>b, <1>4 DEF StoreError, GoTo, Done, Respond, Proceed
<1>5. ASSUME NEW id \in Ids, PassTTL(id) PROVE DataInv'
  <2>1. Ids' = Ids
    BY <1>5 DEF PassTTL, Age, Ids
  <2>2. ASSUME NEW i \in Ids
        PROVE  /\ proposals'[i].services = proposals[i].services
               /\ proposals'[i].slots = proposals[i].slots
    <3>1. IsRow(proposals[i])
      BY DEF Rows
    <3> QED BY <1>5, <3>1 DEF PassTTL, Age, IsRow, Ids
  <2>3. \A i \in Ids' : Stored(proposals'[i])
    BY <1>a, <2>1, <2>2 DEF Stored
  <2> QED BY <1>a, <1>5, <2>3 DEF PassTTL, Age, workerVars, DataInv, Approving, Stored
<1>6. CASE ListProposals
  <2>1. Ids' = Ids
    BY <1>6 DEF ListProposals, Expire, Ids
  <2>2. ASSUME NEW i \in Ids
        PROVE  /\ proposals'[i].services = proposals[i].services
               /\ proposals'[i].slots = proposals[i].slots
    <3>1. IsRow(proposals[i])
      BY DEF Rows
    <3> QED BY <1>6, <3>1 DEF ListProposals, Expire, IsRow, Ids
  <2>3. \A i \in Ids' : Stored(proposals'[i])
    BY <1>a, <2>1, <2>2 DEF Stored
  <2> QED BY <1>a, <1>6, <2>3 DEF ListProposals, Expire, workerVars, DataInv, Approving, Stored
<1>7. CASE DeleteVault
  <2>1. Ids' = {} /\ config' \in GoodLists /\ creds' \in [Keys -> Values \cup {NoValue}]
    BY <1>7, EmptyGood DEF DeleteVault, Delete, Ids, NoCredentials
  <2> QED BY <1>a, <1>7, <2>1 DEF DeleteVault, Delete, workerVars, DataInv, Approving, Stored
<1>8. CASE Crash
  <2>1. snap' \in [Workers -> GoodLists]
    BY <1>8, EmptyGood DEF Crash
  <2> QED BY <1>a, <1>b, <1>8, <2>1 DEF Crash
<1> QED BY <1>1, <1>2, <1>3, <1>4, <1>5, <1>6, <1>7, <1>8 DEF ServerNext

THEOREM DataInvariance == ServerSpec => []DataInv
<1>1. DataInv /\ UNCHANGED serverVars => DataInv'
  BY DEF DataInv, serverVars, Approving, Ids, Stored
<1> QED BY <1>1, DataInit, DataStep, Invariance, PTL DEF ServerSpec

(* Every variable has its type: the lists are lists of services, the       *)
(* proposals lists of entries, and every credential is a value.            *)
THEOREM TypesHold == ServerSpec => []TypeOK
<1>1. ASSUME DataInv PROVE DataTypeOK
  <2>1. config \in Seq(ServiceType) /\ snap \in [Workers -> Seq(ServiceType)]
    BY <1>1 DEF DataInv, GoodLists
  <2>2. Seq(NamedEntries) \subseteq Seq(EntryType)
    BY DEF NamedEntries
  <2> QED BY <1>1, <2>1, <2>2 DEF DataInv, DataTypeOK, Stored, Slots
<1> QED BY <1>1, DataInvariance, ControlTypes, PTL DEF TypeOK

(* Whatever approvals (which rebind stale names) and direct edits          *)
(* interleave, the name of a service is set and is its own.                *)
THEOREM NamesStayKeys == ServerSpec => []ServiceNamesAreKeys
<1>1. DataInv => ServiceNamesAreKeys
  BY DEF DataInv, GoodLists, ServiceNamesAreKeys
<1> QED BY <1>1, DataInvariance, PTL

--------------------------------------------------------------------------------
(***************************************************************************)
(* Histories of one list (ListHistory): what a merge leaves of each name,  *)
(* what it leaves alone, and where services stay, for lists and proposals  *)
(* of any length.                                                          *)
(***************************************************************************)

(* A part of a list that keeps the order of the services it keeps. *)
LEMMA InOrder ==
  ASSUME NEW a \in GoodLists, NEW b \in GoodLists, NEW names,
         NEW h \in [Outside(b, names) -> Outside(a, names)],
         \A k \in Outside(b, names) : b[k] = a[h[k]],
         \A k, l \in Outside(b, names) : k < l => h[k] < h[l],
         \A i \in Outside(a, names) : \E k \in Outside(b, names) : h[k] = i
  PROVE  SameOutside(a, b, names)
<1>1. /\ \A i \in Outside(a, names) : i \in DOMAIN a
      /\ \A k \in Outside(b, names) : k \in Nat
      /\ \A i \in DOMAIN a : i \in Nat
  BY DEF Outside, Positions, GoodLists
<1>2. {a[i] : i \in Outside(a, names)} = {b[k] : k \in Outside(b, names)}
  OBVIOUS
<1>3. ASSUME NEW i \in Outside(a, names), NEW j \in Outside(a, names),
             NEW k \in Outside(b, names), NEW l \in Outside(b, names),
             a[i] = b[k], a[j] = b[l], i < j
      PROVE  k < l
  <2>1. NamesDistinct(a)
    BY DEF GoodLists
  <2>2. h[k] = i /\ h[l] = j
    BY <1>1, <1>3, <2>1 DEF NamesDistinct, Positions
  <2>3. ~(l < k) /\ l # k
    BY <1>1, <1>3, <2>2
  <2> QED BY <1>1, <2>3
<1> QED BY <1>2, <1>3 DEF SameOutside

(* Being the same outside some names is transitive. *)
LEMMA SameOutsideTrans ==
  ASSUME NEW a, NEW b, NEW c, NEW names, SameOutside(a, b, names), SameOutside(b, c, names)
  PROVE  SameOutside(a, c, names)
<1>1. ASSUME NEW i \in Outside(a, names), NEW j \in Outside(a, names),
             NEW k \in Outside(c, names), NEW l \in Outside(c, names),
             a[i] = c[k], a[j] = c[l], i < j
      PROVE  k < l
  <2>1. PICK m \in Outside(b, names) : b[m] = c[k]
    BY DEF SameOutside
  <2>2. PICK n \in Outside(b, names) : b[n] = c[l]
    BY DEF SameOutside
  <2>3. m < n
    BY <1>1, <2>1, <2>2 DEF SameOutside
  <2> QED BY <2>1, <2>2, <2>3 DEF SameOutside
<1>2. {a[i] : i \in Outside(a, names)} = {c[k] : k \in Outside(c, names)}
  BY DEF SameOutside
<1> QED BY <1>1, <1>2 DEF SameOutside

(* Fewer services are compared when more names are left out. *)
LEMMA SameOutsideMore ==
  ASSUME NEW a, NEW b, NEW names, NEW more, names \subseteq more, SameOutside(a, b, names)
  PROVE  SameOutside(a, b, more)
<1>1. \A list : \A i \in Outside(list, more) : i \in Outside(list, names)
  BY DEF Outside
<1>2. ASSUME NEW i \in Outside(a, more) PROVE \E k \in Outside(b, more) : b[k] = a[i]
  <2>1. PICK k \in Outside(b, names) : b[k] = a[i]
    BY <1>1 DEF SameOutside
  <2> QED BY <2>1 DEF Outside
<1>3. ASSUME NEW k \in Outside(b, more) PROVE \E i \in Outside(a, more) : a[i] = b[k]
  <2>1. PICK i \in Outside(a, names) : a[i] = b[k]
    BY <1>1 DEF SameOutside
  <2> QED BY <2>1 DEF Outside
<1>4. {a[i] : i \in Outside(a, more)} = {b[k] : k \in Outside(b, more)}
  BY <1>2, <1>3
<1>5. \A i, j \in Outside(a, more), k, l \in Outside(b, more) :
        a[i] = b[k] /\ a[j] = b[l] /\ i < j => k < l
  BY <1>1 DEF SameOutside
<1> QED BY <1>4, <1>5 DEF SameOutside

(* The services of a name that is not left out are the same. *)
LEMMA SameUnder ==
  ASSUME NEW a, NEW b, NEW names, SameOutside(a, b, names), NEW n, n \notin names
  PROVE  Under(a, n) = Under(b, n)
<1>1. ASSUME NEW i \in Named(a, n) PROVE \E k \in Named(b, n) : b[k] = a[i]
  <2>1. i \in Outside(a, names)
    BY DEF Named, Outside
  <2>2. PICK k \in Outside(b, names) : b[k] = a[i]
    BY <2>1 DEF SameOutside
  <2> QED BY <2>2 DEF Named, Outside
<1>2. ASSUME NEW k \in Named(b, n) PROVE \E i \in Named(a, n) : a[i] = b[k]
  <2>1. k \in Outside(b, names)
    BY DEF Named, Outside
  <2>2. PICK i \in Outside(a, names) : a[i] = b[k]
    BY <2>1 DEF SameOutside
  <2> QED BY <2>2 DEF Named, Outside
<1> QED BY <1>1, <1>2 DEF Under

(* Entries that passed proposal.Validate, whatever their names became.     *)
SoundEntries ==
  {e \in NamedEntries : e.action = SetAction => e.auth # NoAuth \/ e.enabled # "unset"}

(* Under its name an entry leaves what the reference says, and every other
   service is where it was among the others. *)
LEMMA DeleteEffect ==
  ASSUME NEW list \in GoodLists, NEW n
  PROVE  /\ SameOutside(list, Without(list, n), {n})
         /\ Under(Without(list, n), n) = {}
<1>1. list \in Seq(ServiceType) /\ NamesDistinct(list)
  BY DEF GoodLists
<1>2. CASE ~Has(list, n)
  <2>1. Without(list, n) = list
    BY <1>2 DEF Without
  <2>2. SameOutside(list, list, {n})
    BY DEF SameOutside, Outside, Positions, GoodLists, NamesDistinct
  <2>3. Under(list, n) = {}
    BY <1>2 DEF Has, Under
  <2> QED BY <2>1, <2>2, <2>3
<1>3. CASE Has(list, n)
  <2> DEFINE k == Only(Named(list, n))
             r == [i \in 1..Len(list) - 1 |-> IF i < k THEN list[i] ELSE list[i + 1]]
             h == [i \in Outside(r, {n}) |-> IF i < k THEN i ELSE i + 1]
  <2>1. k \in Named(list, n)
    BY <1>3 DEF Has, Only
  <2>2. k \in DOMAIN list /\ list[k].name = n
    BY <2>1 DEF Named, Positions
  <2>3. \A i \in DOMAIN list : list[i].name = n => i = k
    BY <1>1, <2>2 DEF NamesDistinct, Positions
  <2> HIDE DEF k
  <2>4. Without(list, n) = r /\ r \in GoodLists
    BY <1>3, <2>2, RemoveAtIs, RemoveAtGood DEF Without, k
  <2>5. DOMAIN list = 1..Len(list) /\ Len(list) \in Nat /\ DOMAIN r = 1..Len(list) - 1
    BY <1>1
  <2>6. \A i \in 1..Len(list) - 1 : r[i].name # n
    BY <2>2, <2>3, <2>5
  <2>i. \A i \in 1..Len(list) - 1 : r[i] = IF i < k THEN list[i] ELSE list[i + 1]
    OBVIOUS
  <2> HIDE DEF r
  <2>7. Under(r, n) = {}
    BY <2>5, <2>6 DEF Under, Named, Positions
  <2>8. Outside(r, {n}) = 1..Len(list) - 1
    BY <2>5, <2>6 DEF Outside, Positions
  <2>9. Outside(list, {n}) = (1..Len(list)) \ {k}
    BY <2>2, <2>3, <2>5 DEF Outside, Positions
  <2>k. k \in 1..Len(list) /\ k \in Nat /\ Len(list) \in Nat
    BY <2>2, <2>5
  <2>10. h \in [Outside(r, {n}) -> Outside(list, {n})]
    <3>1. ASSUME NEW i \in Outside(r, {n})
          PROVE  (IF i < k THEN i ELSE i + 1) \in Outside(list, {n})
      <4>1. i \in 1..Len(list) - 1
        BY <2>8
      <4>2. i < k => i \in 1..Len(list) /\ i # k
        BY <2>k, <4>1
      <4>3. ~(i < k) => i + 1 \in 1..Len(list) /\ i + 1 # k
        BY <2>k, <4>1
      <4> QED BY <2>9, <4>2, <4>3
    <3> QED BY <3>1
  <2>11. \A i \in Outside(r, {n}) : r[i] = list[h[i]]
    BY <2>8, <2>i
  <2>12. \A i, j \in Outside(r, {n}) : i < j => h[i] < h[j]
    BY <2>k, <2>8
  <2>13. ASSUME NEW i \in Outside(list, {n}) PROVE \E j \in Outside(r, {n}) : h[j] = i
    <3>1. i \in 1..Len(list) /\ i # k
      BY <2>9
    <3>2. CASE i < k
      <4>1. i \in Outside(r, {n})
        BY <2>k, <2>8, <3>1, <3>2
      <4> QED BY <3>2, <4>1
    <3>3. CASE i > k
      <4>1. i - 1 \in Outside(r, {n}) /\ ~(i - 1 < k) /\ (i - 1) + 1 = i
        BY <2>k, <2>8, <3>1, <3>3
      <4>2. h[i - 1] = i
        BY <4>1
      <4> QED BY <4>1, <4>2
    <3>4. i < k \/ i > k
      BY <2>k, <3>1
    <3> QED BY <3>2, <3>3, <3>4
  <2>14. SameOutside(list, r, {n})
    <3> HIDE DEF h
    <3> QED BY <2>4, <2>10, <2>11, <2>12, <2>13, InOrder
  <2> QED BY <2>4, <2>7, <2>14 DEF r
<1> QED BY <1>2, <1>3

(* Appending a service changes what is under its own name only. *)
LEMMA AppendEffect ==
  ASSUME NEW list \in GoodLists, NEW svc \in NamedServices, ~Has(list, svc.name)
  PROVE  /\ SameOutside(list, Append(list, svc), {svc.name})
         /\ Under(Append(list, svc), svc.name) = {svc}
<1> DEFINE r == Append(list, svc)
           n == svc.name
           h == [i \in Outside(r, {n}) |-> i]
<1>1. list \in Seq(ServiceType) /\ svc \in ServiceType
  BY DEF NamedServices, GoodLists
<1>2. /\ DOMAIN r = 1..Len(list) + 1 /\ DOMAIN list = 1..Len(list) /\ Len(list) \in Nat
      /\ r[Len(list) + 1] = svc /\ \A i \in DOMAIN list : r[i] = list[i]
  BY <1>1
<1>3. r \in GoodLists
  BY AppendGood
<1> HIDE DEF r
<1>4. \A i \in DOMAIN list : list[i].name # n
  BY DEF Has, Named, Positions
<1>5. Outside(r, {n}) = DOMAIN list /\ Outside(list, {n}) = DOMAIN list
  BY <1>2, <1>4 DEF Outside, Positions
<1>6. Named(r, n) = {Len(list) + 1}
  BY <1>2, <1>4 DEF Named, Positions
<1>7. Under(r, n) = {svc}
  BY <1>2, <1>6 DEF Under
<1>8. SameOutside(list, r, {n})
  <2>1. h \in [Outside(r, {n}) -> Outside(list, {n})]
    BY <1>5
  <2>2. /\ \A k \in Outside(r, {n}) : r[k] = list[h[k]]
        /\ \A k, l \in Outside(r, {n}) : k < l => h[k] < h[l]
        /\ \A i \in Outside(list, {n}) : \E k \in Outside(r, {n}) : h[k] = i
    BY <1>2, <1>5
  <2> HIDE DEF h
  <2> QED BY <1>3, <2>1, <2>2, InOrder
<1> QED BY <1>7, <1>8 DEF r

(* Updating a service in its place changes what is under its name only. *)
LEMMA UpdateEffect ==
  ASSUME NEW list \in GoodLists, NEW n, NEW r \in GoodLists, DOMAIN r = DOMAIN list,
         \A i \in DOMAIN list : r[i].name = list[i].name,
         \A i \in DOMAIN list : list[i].name # n => r[i] = list[i]
  PROVE  /\ SameOutside(list, r, {n})
         /\ Under(r, n) = {r[i] : i \in Named(list, n)}
<1> DEFINE h == [i \in Outside(r, {n}) |-> i]
<1>1. Outside(r, {n}) = Outside(list, {n}) /\ Named(r, n) = Named(list, n)
  BY DEF Outside, Named, Positions
<1>2. h \in [Outside(r, {n}) -> Outside(list, {n})]
  BY <1>1
<1>3. /\ \A k \in Outside(r, {n}) : r[k] = list[h[k]]
      /\ \A k, l \in Outside(r, {n}) : k < l => h[k] < h[l]
      /\ \A i \in Outside(list, {n}) : \E k \in Outside(r, {n}) : h[k] = i
  BY <1>1 DEF Outside, Positions
<1>4. SameOutside(list, r, {n})
  <2> HIDE DEF h
  <2> QED BY <1>2, <1>3, InOrder
<1> QED BY <1>1, <1>4 DEF Under

(* One round of the merge does to its name what the reference says, and
   leaves the services of all other names. *)
LEMMA MergeEntryEffect ==
  ASSUME NEW list \in GoodLists, NEW entry \in SoundEntries
  PROVE  /\ SameOutside(list, MergeEntry(list, entry), {entry.name})
         /\ Under(MergeEntry(list, entry), entry.name) = Leaves(entry, Under(list, entry.name))
<1> DEFINE n == entry.name
<1>1. entry \in NamedEntries /\ entry \in EntryType /\ entry.name # NoName
  BY DEF SoundEntries, NamedEntries
<1>2. CASE entry.action = DeleteAction
  BY <1>2, DeleteEffect DEF MergeEntry, Leaves
<1>3. ToService(entry) \in NamedServices /\ ToService(entry).name = n
  BY <1>1 DEF ToService, NamedServices, ServiceType, EntryType
<1>4. CASE entry.action # DeleteAction /\ ~Has(list, n)
  <2>1. Under(list, n) = {}
    BY <1>4 DEF Has, Under
  <2>2. MergeEntry(list, entry) = Append(list, ToService(entry))
    BY <1>4 DEF MergeEntry
  <2> QED BY <1>3, <1>4, <2>1, <2>2, AppendEffect DEF Leaves
<1>5. CASE entry.action # DeleteAction /\ Has(list, n)
  <2> DEFINE r == [i \in Positions(list) |->
                     IF list[i].name = n THEN UpdatedService(list[i], entry) ELSE list[i]]
  <2>1. MergeEntry(list, entry) = r
    BY <1>5 DEF MergeEntry
  <2>2. r \in GoodLists
    BY <1>1, <2>1, MergeEntryGood
  <2>3. \A i \in DOMAIN list : list[i] \in ServiceType
    BY DEF GoodLists
  <2>4. entry.action = SetAction /\ (entry.auth # NoAuth \/ entry.enabled # "unset")
    BY <1>1, <1>5 DEF SoundEntries, EntryType
  <2>5. EnableOnly(entry) <=> entry.auth = NoAuth
    BY <2>4 DEF EnableOnly
  <2>6. ASSUME NEW i \in Named(list, n)
        PROVE  /\ r[i] = UpdatedService(list[i], entry)
               /\ r[i].name = list[i].name
    <3>1. i \in DOMAIN list /\ list[i].name = n
      BY DEF Named, Positions
    <3>2. UpdatedService(list[i], entry).name = n
      BY <1>1, <2>3, <3>1 DEF UpdatedService, ToService, ServiceType
    <3> QED BY <3>1, <3>2 DEF Positions
  <2>7. /\ DOMAIN r = DOMAIN list
        /\ \A i \in DOMAIN list : list[i].name # n => r[i] = list[i]
        /\ \A i \in DOMAIN list : r[i].name = list[i].name
    BY <2>6 DEF Named, Positions
  <2> HIDE DEF r
  <2>8. SameOutside(list, r, {n}) /\ Under(r, n) = {r[i] : i \in Named(list, n)}
    BY <2>2, <2>7, UpdateEffect
  <2>9. {r[i] : i \in Named(list, n)} = {UpdatedService(svc, entry) : svc \in Under(list, n)}
    BY <2>6 DEF Under
  <2>10. Under(list, n) # {} /\ Under(list, n) \subseteq ServiceType
    BY <1>5, <2>3 DEF Has, Under, Named, Positions
  <2>11. CASE entry.auth = NoAuth
    BY <1>5, <2>1, <2>5, <2>8, <2>9, <2>10, <2>11 DEF Leaves, UpdatedService
  <2>12. CASE entry.auth # NoAuth
    <3>1. ASSUME NEW svc
          PROVE  UpdatedService(svc, entry) =
                   [name |-> entry.name, host |-> entry.host, path |-> entry.path,
                    auth |-> entry.auth, enabled |-> entry.enabled,
                    subs |-> IF entry.subs = {} THEN svc.subs ELSE entry.subs]
      BY <2>5, <2>12 DEF UpdatedService, ToService
    <3> QED BY <1>5, <2>1, <2>8, <2>9, <2>10, <2>12, <3>1 DEF Leaves
  <2> QED BY <2>11, <2>12
<1> QED BY <1>2, <1>4, <1>5

(* A list is the same as itself outside any names. *)
LEMMA SameOutsideItself ==
  ASSUME NEW list \in GoodLists, NEW names
  PROVE  SameOutside(list, list, names)
BY DEF SameOutside, Outside, Positions, GoodLists, NamesDistinct

(* A merge leaves under each name what its one entry leaves, and the other
   services where they were. *)
LEMMA MergeEffect ==
  ASSUME NEW list \in GoodLists, NEW entries \in Seq(SoundEntries)
  PROVE  /\ SameOutside(list, MergeServices(list, entries), ServiceNames(entries))
         /\ NamesDistinct(entries) =>
              \A i \in DOMAIN entries :
                Under(MergeServices(list, entries), entries[i].name)
                  = Leaves(entries[i], Under(list, entries[i].name))
<1> DEFINE n == Len(entries)
           First(k) == {entries[i].name : i \in 1..k}
<1>1. /\ n \in Nat /\ DOMAIN entries = 1..n /\ \A i \in 1..n : entries[i] \in SoundEntries
      /\ entries \in Seq(NamedEntries)
  BY DEF SoundEntries
<1>2. PICK after \in [0..n -> GoodLists] :
        /\ after[0] = list
        /\ \A i \in 1..n : after[i] = MergeEntry(after[i - 1], entries[i])
        /\ MergeServices(list, entries) = after[n]
  BY <1>1, MergeTrace
<1> HIDE DEF n
<1>3. ASSUME NEW k \in 1..n
      PROVE  /\ k - 1 \in 0..n /\ after[k - 1] \in GoodLists
             /\ SameOutside(after[k - 1], after[k], {entries[k].name})
             /\ Under(after[k], entries[k].name)
                  = Leaves(entries[k], Under(after[k - 1], entries[k].name))
  <2>1. k - 1 \in 0..n /\ after[k - 1] \in GoodLists
    BY <1>1, <1>2
  <2> QED BY <1>1, <1>2, <2>1, MergeEntryEffect
<1>4. \A k \in 0..n : SameOutside(list, after[k], First(k))
  <2> DEFINE T == {k \in 0..n : SameOutside(list, after[k], First(k))}
  <2>1. 0 \in T
    <3>1. 0 \in 0..n
      BY <1>1
    <3> QED BY <1>2, <3>1, SameOutsideItself
  <2>2. ASSUME NEW k \in 1..n, k - 1 \in T PROVE k \in T
    <3>1. First(k - 1) \subseteq First(k) /\ {entries[k].name} \subseteq First(k)
      BY <1>1
    <3> HIDE DEF First
    <3>2. SameOutside(list, after[k - 1], First(k))
      BY <2>2, <3>1, SameOutsideMore
    <3>3. SameOutside(after[k - 1], after[k], First(k))
      BY <1>3, <3>1, SameOutsideMore
    <3>4. SameOutside(list, after[k], First(k))
      BY <3>2, <3>3, SameOutsideTrans
    <3> QED BY <1>1, <3>4
  <2> HIDE DEF T
  <2>3. 0..n \subseteq T
    BY <1>1, <2>1, <2>2, Upwards
  <2> QED BY <2>3 DEF T
<1>5. ServiceNames(entries) = First(n)
  BY <1>1 DEF ServiceNames, Positions
<1>6. ASSUME NamesDistinct(entries)
      PROVE  \A k \in 0..n : \A i \in 1..n : i <= k =>
               Under(after[k], entries[i].name)
                 = Leaves(entries[i], Under(list, entries[i].name))
  <2> DEFINE Done1(k, i) == Under(after[k], entries[i].name)
                             = Leaves(entries[i], Under(list, entries[i].name))
             T == {k \in 0..n : \A i \in 1..n : i <= k => Done1(k, i)}
  <2>1. 0 \in T
    BY <1>1
  <2>2. ASSUME NEW k \in 1..n, k - 1 \in T PROVE k \in T
    <3>1. ASSUME NEW i \in 1..n, i < k PROVE Done1(k, i)
      <4>1. entries[i].name \notin {entries[k].name}
        BY <1>1, <1>6, <3>1 DEF NamesDistinct, Positions
      <4>2. i <= k - 1
        BY <1>1, <3>1
      <4>3. Under(after[k - 1], entries[i].name) = Under(after[k], entries[i].name)
        <5>1. SameOutside(after[k - 1], after[k], {entries[k].name})
          BY <1>3
        <5> QED BY <4>1, <5>1, SameUnder
      <4> QED BY <2>2, <4>2, <4>3
    <3>2. Done1(k, k)
      <4>1. entries[k].name \notin First(k - 1)
        BY <1>1, <1>6 DEF NamesDistinct, Positions
      <4> HIDE DEF First
      <4>2. SameOutside(list, after[k - 1], First(k - 1))
        BY <1>3, <1>4
      <4>3. Under(list, entries[k].name) = Under(after[k - 1], entries[k].name)
        BY <4>1, <4>2, SameUnder
      <4> QED BY <1>3, <4>3
    <3>3. \A i \in 1..n : i <= k => i < k \/ i = k
      BY <1>1
    <3> HIDE DEF Done1
    <3> QED BY <1>1, <3>1, <3>2, <3>3
  <2> HIDE DEF T
  <2>3. 0..n \subseteq T
    BY <1>1, <2>1, <2>2, Upwards
  <2> QED BY <2>3 DEF T
<1>7. n \in 0..n /\ \A i \in 1..n : i <= n
  BY <1>1
<1>8. SameOutside(list, after[n], ServiceNames(entries))
  <2> HIDE DEF First
  <2> QED BY <1>4, <1>5, <1>7
<1>9. NamesDistinct(entries) => \A i \in DOMAIN entries :
        Under(after[n], entries[i].name) = Leaves(entries[i], Under(list, entries[i].name))
  BY <1>1, <1>6, <1>7
<1> QED BY <1>2, <1>8, <1>9

(* A place that is one service's stays its own, when no entry sets another
   service there. *)
Belongs(list, host, path, name) ==
  \A k \in AtPattern(list, host, path) : list[k].name = name

(* A round that does not set another service at a host and path keeps it
   belonging to the name it belongs to. *)
LEMMA MergeEntryKeepsPlace ==
  ASSUME NEW list \in GoodLists, NEW entry \in SoundEntries, NEW host, NEW path, NEW name,
         Belongs(list, host, path, name),
         entry.action = SetAction /\ entry.host = host /\ entry.path = path => entry.name = name
  PROVE  Belongs(MergeEntry(list, entry), host, path, name)
<1> DEFINE r == MergeEntry(list, entry)
           n == entry.name
<1> SUFFICES ASSUME NEW k \in DOMAIN r, r[k].host = host, r[k].path = path
             PROVE  r[k].name = name
  BY DEF Belongs, AtPattern, AtHost, Positions
<1>1. entry \in EntryType /\ (entry.action # DeleteAction => entry.action = SetAction)
  BY DEF SoundEntries, NamedEntries, EntryType
<1>2. \A i \in DOMAIN list : list[i] \in ServiceType
  BY DEF GoodLists
<1>3. \A i \in DOMAIN list : list[i].host = host /\ list[i].path = path => list[i].name = name
  BY DEF Belongs, AtPattern, AtHost, Positions
<1>4. SameOutside(list, r, {n}) /\ Under(r, n) = Leaves(entry, Under(list, n))
  BY MergeEntryEffect
<1> HIDE DEF r
<1>5. CASE r[k].name # n
  <2>1. k \in Outside(r, {n})
    BY <1>5 DEF Outside, Positions
  <2>2. PICK i \in Outside(list, {n}) : list[i] = r[k]
    BY <1>4, <2>1 DEF SameOutside
  <2> QED BY <1>3, <2>2 DEF Outside, Positions
<1>6. CASE r[k].name = n
  <2>1. r[k] \in Leaves(entry, Under(list, n))
    BY <1>4, <1>6 DEF Under, Named, Positions
  <2>2. entry.action = SetAction
    BY <1>1, <2>1 DEF Leaves
  <2>3. CASE r[k] = ToService(entry)
    BY <2>2, <2>3 DEF ToService
  <2>4. CASE \E svc \in Under(list, n) : r[k] = [svc EXCEPT !.enabled = entry.enabled]
    <3>1. PICK i \in Named(list, n) : r[k] = [list[i] EXCEPT !.enabled = entry.enabled]
      BY <2>4 DEF Under
    <3>2. i \in DOMAIN list /\ list[i] \in ServiceType
      BY <1>2 DEF Named, Positions
    <3>3. /\ r[k].host = list[i].host /\ r[k].path = list[i].path
          /\ r[k].name = list[i].name
      BY <3>1, <3>2 DEF ServiceType
    <3> QED BY <1>3, <3>2, <3>3
  <2>5. CASE r[k].host = entry.host /\ r[k].path = entry.path /\ r[k].name = entry.name
    BY <2>2, <2>5
  <2>6. \/ r[k] = ToService(entry)
        \/ \E svc \in Under(list, n) : r[k] = [svc EXCEPT !.enabled = entry.enabled]
        \/ r[k].host = entry.host /\ r[k].path = entry.path /\ r[k].name = entry.name
    BY <2>1 DEF Leaves
  <2> QED BY <2>3, <2>4, <2>5, <2>6
<1> QED BY <1>5, <1>6

(* So does the whole merge. *)
LEMMA MergeKeepsPlace ==
  ASSUME NEW list \in GoodLists, NEW entries \in Seq(SoundEntries),
         NEW host, NEW path, NEW name, Belongs(list, host, path, name),
         \A i \in DOMAIN entries :
           entries[i].action = SetAction /\ entries[i].host = host /\ entries[i].path = path =>
             entries[i].name = name
  PROVE  Belongs(MergeServices(list, entries), host, path, name)
<1> DEFINE n == Len(entries)
<1>1. /\ n \in Nat /\ DOMAIN entries = 1..n /\ \A i \in 1..n : entries[i] \in SoundEntries
      /\ entries \in Seq(NamedEntries)
  BY DEF SoundEntries
<1>2. PICK after \in [0..n -> GoodLists] :
        /\ after[0] = list
        /\ \A i \in 1..n : after[i] = MergeEntry(after[i - 1], entries[i])
        /\ MergeServices(list, entries) = after[n]
  BY <1>1, MergeTrace
<1> HIDE DEF n
<1> DEFINE T == {k \in 0..n : Belongs(after[k], host, path, name)}
<1>3. 0 \in T
  BY <1>1, <1>2
<1>4. ASSUME NEW k \in 1..n, k - 1 \in T PROVE k \in T
  <2>1. k - 1 \in 0..n /\ after[k - 1] \in GoodLists /\ k \in 0..n
    BY <1>1, <1>2
  <2>2. Belongs(MergeEntry(after[k - 1], entries[k]), host, path, name)
    BY <1>1, <1>4, <2>1, MergeEntryKeepsPlace
  <2> QED BY <1>2, <2>1, <2>2
<1> HIDE DEF T
<1>5. 0..n \subseteq T
  BY <1>1, <1>3, <1>4, Upwards
<1>6. n \in 0..n
  BY <1>1
<1> QED BY <1>2, <1>5, <1>6 DEF T

(* At the host and path of a name there is at most one service. *)
LEMMA OnePlaceOneName ==
  ASSUME NEW list \in GoodLists, NEW host, NEW path, NEW name, Belongs(list, host, path, name)
  PROVE  Cardinality(AtPattern(list, host, path)) <= 1
<1> DEFINE at == AtPattern(list, host, path)
<1>1. \A i, j \in at : i = j
  BY DEF Belongs, GoodLists, NamesDistinct, AtPattern, AtHost, Positions
<1> HIDE DEF at
<1>2. CASE at = {}
  BY <1>2, FS_EmptySet DEF at
<1>3. CASE at # {}
  <2>1. PICK i \in at : at = {i}
    BY <1>1, <1>3
  <2>2. Cardinality({i}) = 1
    BY FS_Singleton
  <2> QED BY <2>1, <2>2 DEF at
<1> QED BY <1>2, <1>3

(* Merging nothing changes nothing. *)
LEMMA MergeNothing ==
  ASSUME NEW list \in GoodLists
  PROVE  MergeServices(list, <<>>) = list
<1> DEFINE none == <<>>
<1>1. none \in Seq(NamedEntries) /\ Len(none) = 0
  OBVIOUS
<1> HIDE DEF none
<1>2. PICK after \in [0..Len(none) -> GoodLists] :
        after[0] = list /\ MergeServices(list, none) = after[Len(none)]
  BY <1>1, MergeTrace
<1> QED BY <1>1, <1>2 DEF none

(* Normalising nothing gives nothing. *)
LEMMA NormalizeNothing ==
  ASSUME NEW list
  PROVE  Normalize(<<>>, list) = <<>> /\ Normalizable(<<>>, list)
BY DEF Normalize, Normalizable

(* Normalising changes nothing but names. *)
LEMMA NormalizeKeeps ==
  ASSUME NEW list \in GoodLists, NEW entries \in Seq(EntryType), Normalizable(entries, list)
  PROVE  /\ DOMAIN Normalize(entries, list) = DOMAIN entries
         /\ \A i \in DOMAIN entries :
              LET e == entries[i]
                  f == Normalize(entries, list)[i]
              IN /\ f.action = e.action /\ f.host = e.host /\ f.path = e.path
                 /\ f.auth = e.auth /\ f.enabled = e.enabled
                 /\ f.name = NormalizedName(e, list)
<1>1. ASSUME NEW i \in DOMAIN entries PROVE entries[i] \in EntryType
  OBVIOUS
<1> QED BY <1>1 DEF Normalize, EntryType

(* The entries of a valid proposal are sound. *)
LEMMA ValidIsSound ==
  ASSUME NEW entries \in Seq(EntryType), NEW slots, ValidProposal(entries, slots)
  PROVE  entries \in Seq(SoundEntries)
BY DEF ValidProposal, SoundEntries, NamedEntries

(* Normalising sound entries keeps them sound. *)
LEMMA NormalizeSound ==
  ASSUME NEW list \in GoodLists, NEW entries \in Seq(SoundEntries)
  PROVE  /\ entries \in Seq(EntryType) /\ Normalizable(entries, list)
         /\ Normalize(entries, list) \in Seq(SoundEntries)
<1> DEFINE named == Normalize(entries, list)
<1>1. entries \in Seq(EntryType) /\ entries \in Seq(NamedEntries)
  BY DEF SoundEntries, NamedEntries
<1>2. Normalizable(entries, list) /\ named \in Seq(NamedEntries)
  BY <1>1, NormalizeNamed
<1>3. /\ DOMAIN named = DOMAIN entries
      /\ \A i \in DOMAIN entries : /\ named[i].action = entries[i].action
                                   /\ named[i].auth = entries[i].auth
                                   /\ named[i].enabled = entries[i].enabled
  BY <1>1, <1>2, NormalizeKeeps
<1> HIDE DEF named
<1>4. ASSUME NEW i \in DOMAIN named PROVE named[i] \in SoundEntries
  <2>1. entries[i] \in SoundEntries /\ named[i] \in NamedEntries
    BY <1>2, <1>3
  <2> QED BY <1>3, <2>1 DEF SoundEntries
<1> QED BY <1>1, <1>2, <1>4 DEF named

(* What is under review is a valid proposal, normalised against the list,  *)
(* and merged is what its approval would store.                            *)
ListInv ==
  /\ catalog \in GoodLists
  /\ asked \in Seq(EntryType) /\ Normalizable(asked, catalog)
  /\ proposed = Normalize(asked, catalog) /\ proposed \in Seq(SoundEntries)
  /\ merged = MergeServices(catalog, proposed)
  /\ probe \in Probes \cup {NoProbe}

(* The invariant of the history holds of the empty list. *)
LEMMA ListInitial == ListInit => ListInv
BY EmptyGood, NormalizeNothing, MergeNothing DEF ListInit, ListInv

(* A list with nothing under review satisfies the invariant. *)
LEMMA NothingUnderReview ==
  ASSUME catalog' \in GoodLists, asked' = <<>>, proposed' = <<>>, merged' = catalog',
         probe' \in Probes \cup {NoProbe}
  PROVE  ListInv'
BY NormalizeNothing, MergeNothing DEF ListInv

(* Every edit, review and approval keeps it. *)
LEMMA ListStep == ListInv /\ [ListNext]_<<catalogVars, probe>> => ListInv'
<1> SUFFICES ASSUME ListInv, [ListNext]_<<catalogVars, probe>> PROVE ListInv'
  OBVIOUS
<1> USE DEF ListInv
<1>1. ASSUME NEW e \in ListEdits, EditAllowed(catalog, e) PROVE Edited(catalog, e) \in GoodLists
  BY <1>1, EditedGood, ListEditsType
<1>2. ASSUME NEW e \in ListEdits, EditCatalog(e), UNCHANGED probe PROVE ListInv'
  <2>1. catalog' \in GoodLists
    BY <1>1, <1>2 DEF EditCatalog
  <2> QED BY <1>2, <2>1, NothingUnderReview DEF EditCatalog
<1>3. ASSUME NEW p \in Submissions, Review(p), UNCHANGED probe PROVE ListInv'
  <2>1. p \in Seq(EntryType) /\ Normalizable(p, catalog)
    BY <1>3, SubmissionsType DEF Review
  <2>2. Normalize(p, catalog) \in Seq(EntryType)
    BY <2>1, NormalizeType
  <2>3. Normalize(p, catalog) \in Seq(SoundEntries)
    BY <1>3, <2>2, ValidIsSound DEF Review
  <2> QED BY <1>3, <2>1, <2>3 DEF Review
<1>4. ASSUME NEW e \in ListEdits, ReviewStale(e), UNCHANGED probe PROVE ListInv'
  <2>1. catalog' \in GoodLists
    BY <1>1, <1>4 DEF ReviewStale
  <2>2. /\ proposed \in Seq(EntryType) /\ Normalizable(proposed, catalog')
        /\ Normalize(proposed, catalog') \in Seq(SoundEntries)
    BY <2>1, NormalizeSound
  <2> QED BY <1>4, <2>1, <2>2 DEF ReviewStale
<1>5. ASSUME ApproveReviewed, UNCHANGED probe PROVE ListInv'
  <2>1. proposed \in Seq(NamedEntries)
    BY DEF SoundEntries
  <2>2. catalog' \in GoodLists
    BY <1>5, <2>1, MergeGood DEF ApproveReviewed
  <2> QED BY <1>5, <2>2, NothingUnderReview DEF ApproveReviewed
<1>6. CASE BeginProbe \/ EndProbe \/ UNCHANGED <<catalogVars, probe>>
  BY <1>6 DEF BeginProbe, EndProbe, catalogVars
<1> QED BY <1>2, <1>3, <1>4, <1>5, <1>6 DEF ListNext, History

(* In every history what is under review was valid and is normalised against
   the present list, and merged is what its approval would store. *)
THEOREM ListInvariance == ListSpec => []ListInv
BY ListInitial, ListStep, PTL DEF ListSpec

(* Merging a proposal of any length into a list of any length does to the
   name of every entry what the reference says, and leaves the services that
   it does not name as they were, in their order. *)
THEOREM MergesMeetReference == ListSpec => []MergeMeetsReference
<1>1. ListInv => MergeMeetsReference
  BY MergeEffect DEF ListInv, MergeMeetsReference
<1> QED BY <1>1, ListInvariance, PTL

(* An entry made before a rename never adds a second service beside the one
   at its host and path, however long the list and the proposal. *)
THEOREM MergesNeverShadow == ListSpec => []MergeNeverShadows
<1>1. ListInv => MergeNeverShadows
  <2> SUFFICES ASSUME ListInv, NEW i \in DOMAIN asked,
                      asked[i].action = SetAction, ~Has(catalog, asked[i].name),
                      IsUnique(AtPattern(catalog, asked[i].host, asked[i].path)),
                      \A j \in DOMAIN asked \ {i} :
                        asked[j].action = SetAction =>
                          asked[j].host # asked[i].host \/ asked[j].path # asked[i].path
               PROVE  /\ \A k \in AtPattern(merged, asked[i].host, asked[i].path) :
                           merged[k].name =
                             catalog[Only(AtPattern(catalog, asked[i].host, asked[i].path))].name
                      /\ Cardinality(AtPattern(merged, asked[i].host, asked[i].path)) <= 1
    BY DEF MergeNeverShadows
  <2> DEFINE host == asked[i].host
             path == asked[i].path
             at == AtPattern(catalog, host, path)
             name == catalog[Only(at)].name
  <2>1. Belongs(catalog, host, path, name)
    BY DEF Belongs, IsUnique, Only
  <2>2. NormalizedName(asked[i], catalog) = name
    BY DEF NormalizedName, UnnamedDelete, AdoptedName, SetAction, DeleteAction
  <2>3. /\ catalog \in GoodLists /\ proposed \in Seq(SoundEntries)
        /\ proposed = Normalize(asked, catalog) /\ merged = MergeServices(catalog, proposed)
        /\ asked \in Seq(EntryType) /\ Normalizable(asked, catalog)
    BY DEF ListInv
  <2>4. /\ DOMAIN proposed = DOMAIN asked
        /\ \A j \in DOMAIN asked :
             /\ proposed[j].action = asked[j].action /\ proposed[j].host = asked[j].host
             /\ proposed[j].path = asked[j].path
             /\ proposed[j].name = NormalizedName(asked[j], catalog)
    BY <2>3, NormalizeKeeps
  <2> HIDE DEF name
  <2>5. \A j \in DOMAIN proposed :
          proposed[j].action = SetAction /\ proposed[j].host = host /\ proposed[j].path = path =>
            proposed[j].name = name
    BY <2>2, <2>4
  <2> HIDE DEF host, path
  <2>6. Belongs(merged, host, path, name)
    BY <2>1, <2>3, <2>5, MergeKeepsPlace
  <2>7. merged \in GoodLists
    <3>1. proposed \in Seq(NamedEntries)
      BY <2>3 DEF SoundEntries
    <3> QED BY <2>3, <3>1, MergeGood
  <2>8. Cardinality(AtPattern(merged, host, path)) <= 1
    BY <2>6, <2>7, OnePlaceOneName
  <2> QED BY <2>6, <2>8 DEF Belongs, name, host, path
<1> QED BY <1>1, ListInvariance, PTL

--------------------------------------------------------------------------------
(***************************************************************************)
(* Healing: the names that entries from before names existed are given.    *)
(***************************************************************************)

(* A set of numbers has a least one. *)
LEMMA LeastIs ==
  ASSUME NEW S \in SUBSET Nat, S # {}
  PROVE  \E n \in S : \A m \in S : n <= m
<1> SUFFICES ASSUME \A n \in S : \E m \in S : m < n PROVE FALSE
  OBVIOUS
<1>1. PICK x \in S : TRUE
  OBVIOUS
<1> DEFINE T == {k \in 0..x : \A m \in S : m > k}
<1>2. 0 \in T
  <2>1. \A m \in S : m # 0
    OBVIOUS
  <2> QED BY <2>1
<1>3. ASSUME NEW k \in 1..x, k - 1 \in T PROVE k \in T
  <2>1. \A m \in S : m >= k
    BY <1>3
  <2>2. k \notin S
    BY <2>1
  <2> QED BY <2>1, <2>2
<1> HIDE DEF T
<1>4. 0..x \subseteq T
  BY <1>2, <1>3, Upwards
<1>5. x \in T
  BY <1>4
<1> QED BY <1>5 DEF T

(* The suffix chosen for a slug makes a name that is not taken. *)
LEMMA DisambiguateFresh ==
  ASSUME NEW slug, NEW taken, IsFiniteSet(taken)
  PROVE  \E n \in Nat \ {0} :
           DisambiguateSlug(slug, taken) = <<slug, n>> /\ <<slug, n>> \notin taken
<1> DEFINE c == Cardinality(taken)
           free == {n \in 1..c + 1 : <<slug, n>> \notin taken}
<1>1. c \in Nat
  BY FS_CardinalityType
<1>2. free # {}
  <2> SUFFICES ASSUME free = {} PROVE FALSE
    OBVIOUS
  <2> DEFINE f == [n \in 1..c + 1 |-> <<slug, n>>]
  <2>1. f \in [1..c + 1 -> taken]
    OBVIOUS
  <2>2. IsFiniteSet(1..c + 1) /\ Cardinality(1..c + 1) = c + 1
    BY <1>1, FS_Interval
  <2>3. \A x, y \in 1..c + 1 : f[x] = f[y] => x = y
    OBVIOUS
  <2> HIDE DEF f
  <2> QED BY <1>1, <2>1, <2>2, <2>3, FS_PigeonHole
<1>3. PICK n \in free : \A m \in free : n <= m
  <2>1. free \in SUBSET Nat
    OBVIOUS
  <2> HIDE DEF free
  <2> QED BY <1>2, <2>1, LeastIs
<1>4. n \in 1..c + 1 /\ <<slug, n>> \notin taken /\ \A m \in 1..n - 1 : <<slug, m>> \in taken
  BY <1>1, <1>3
<1> DEFINE k == CHOOSE m \in 1..c + 1 :
                  <<slug, m>> \notin taken /\ \A l \in 1..m - 1 : <<slug, l>> \in taken
<1>5. k \in 1..c + 1 /\ <<slug, k>> \notin taken
  BY <1>4
<1>6. DisambiguateSlug(slug, taken) = <<slug, k>>
  BY DEF DisambiguateSlug
<1> HIDE DEF k
<1> QED BY <1>1, <1>5, <1>6

HealLists(n) == [1..n -> [name : {NoName} \cup SlugNames, slug : Slugs]]

(* One round names one entry with a name that no entry had. *)
LEMMA HealStep ==
  ASSUME NEW n \in Nat, NEW list \in HealLists(n), NEW k \in 1..n
  PROVE  /\ Heal(list, k, NoName) \in HealLists(n)
         /\ \A i \in 1..n : i # k \/ list[k].name # NoName => Heal(list, k, NoName)[i] = list[i]
         /\ list[k].name = NoName =>
              /\ Heal(list, k, NoName)[k].name # NoName
              /\ \A i \in 1..n : list[i].name # Heal(list, k, NoName)[k].name
<1>0. /\ \A i \in 1..n : list[i] \in [name : {NoName} \cup SlugNames, slug : Slugs]
      /\ DOMAIN list = 1..n
  BY DEF HealLists
<1>1. CASE list[k].name # NoName
  BY <1>1 DEF Heal
<1>2. CASE list[k].name = NoName
  <2> DEFINE slug == list[k].slug
             fresh == DisambiguateSlug(slug, NamesOf(list))
             r == [list EXCEPT ![k].name = fresh]
  <2>1. slug \in Slugs
    BY <1>0
  <2>2. IsFiniteSet(NamesOf(list))
    <3> DEFINE f == [i \in 1..n |-> list[i].name]
    <3>1. f \in Surjection(1..n, NamesOf(list))
      BY <1>0 DEF Surjection, NamesOf
    <3>2. IsFiniteSet(1..n)
      BY FS_Interval
    <3> HIDE DEF f
    <3> QED BY <3>1, <3>2, FS_Surjection
  <2>3. PICK m \in Nat \ {0} : fresh = <<slug, m>> /\ <<slug, m>> \notin NamesOf(list)
    BY <2>2, DisambiguateFresh
  <2>4. fresh \in SlugNames /\ fresh \notin NamesOf(list)
    BY <2>1, <2>3 DEF SlugNames
  <2>5. Heal(list, k, NoName) = r
    BY <1>2 DEF Heal
  <2> HIDE DEF fresh
  <2>6. /\ r \in HealLists(n) /\ r[k].name = fresh
        /\ \A i \in 1..n : i # k => r[i] = list[i]
    <3>1. [list[k] EXCEPT !.name = fresh] \in [name : {NoName} \cup SlugNames, slug : Slugs]
      BY <1>0, <2>4
    <3>2. [list[k] EXCEPT !.name = fresh].name = fresh
      BY <1>0
    <3> QED BY <1>0, <3>1, <3>2 DEF HealLists
  <2>7. fresh # NoName
    BY <2>4, NoNameIsNoSlug
  <2>8. \A i \in 1..n : list[i].name # fresh
    BY <1>0, <2>4 DEF NamesOf
  <2> QED BY <1>2, <2>5, <2>6, <2>7, <2>8
<1> QED BY <1>1, <1>2

(* Healing a list is a loop over its entries. *)
LEMMA HealTrace ==
  ASSUME NEW n \in Nat, NEW list \in HealLists(n)
  PROVE  \E healed \in [0..n -> HealLists(n)] :
           /\ healed[0] = list
           /\ \A k \in 1..n : healed[k] = Heal(healed[k - 1], k, NoName)
           /\ AssignSlugNames(list, NoName) = healed[n]
<1> DEFINE L == HealLists(n)
           Body(g) == [k \in 0..n |-> IF k = 0 THEN list ELSE Heal(g[k - 1], k, NoName)]
           healed == CHOOSE g : g = Body(g)
           step == [k \in 1..n |-> [l \in L |-> Heal(l, k, NoName)]]
<1>0. Len(list) = n
  BY DEF HealLists
<1>1. step \in [1..n -> [L -> L]]
  BY HealStep
<1> HIDE DEF L
<1>2. list \in L
  BY DEF L
<1>3. PICK f : IsLoop(f, n, L, list, step)
  <2> HIDE DEF step
  <2> QED BY <1>1, <1>2, TraceExists
<1>4. f = Body(f)
  <2>1. f \in [0..n -> L] /\ f[0] = list /\ \A k \in 1..n : f[k] = step[k][f[k - 1]]
    <3> HIDE DEF step
    <3> QED BY <1>3 DEF IsLoop
  <2>2. ASSUME NEW k \in 1..n PROVE f[k] = Heal(f[k - 1], k, NoName)
    <3>1. f[k - 1] \in L
      BY <2>1
    <3> QED BY <2>1, <3>1
  <2> QED BY <2>1, <2>2
<1>5. healed = Body(healed)
  <2> HIDE DEF Body
  <2> QED BY <1>4
<1>6. AssignSlugNames(list, NoName) = healed[n]
  BY <1>0 DEF AssignSlugNames
<1> HIDE DEF healed
<1> DEFINE T == {k \in 0..n : healed[k] \in L}
<1>7. 0 \in T
  BY <1>2, <1>5
<1>8. ASSUME NEW k \in 1..n, k - 1 \in T PROVE k \in T
  <2>1. healed[k] = Heal(healed[k - 1], k, NoName)
    BY <1>5
  <2> QED BY <1>8, <2>1, HealStep DEF L
<1> HIDE DEF T
<1>9. 0..n \subseteq T
  BY <1>7, <1>8, Upwards
<1>10. healed \in [0..n -> L]
  <2>1. DOMAIN healed = 0..n /\ healed = [k \in DOMAIN healed |-> healed[k]]
    BY <1>5
  <2> QED BY <1>9, <2>1 DEF T
<1>11. healed[0] = list /\ \A k \in 1..n : healed[k] = Heal(healed[k - 1], k, NoName)
  BY <1>5
<1> QED BY <1>6, <1>10, <1>11 DEF L

(* What holds of a list of n entries that is healed up to entry k. *)
HealedUpto(list, given, k, n) ==
  /\ \A i \in k + 1..n : i \notin given => list[i].name = NoName
  /\ \A i \in 1..k : list[i].name # NoName
  /\ \A i \in 1..k, j \in 1..n : i \notin given /\ i # j => list[i].name # list[j].name

(* Healing keeps the given names, and gives each other entry a name of its
   own. *)
LEMMA HealedIs ==
  ASSUME NEW n \in Nat, NEW list \in HealLists(n)
  PROVE  LET healed == AssignSlugNames(list, NoName)
             given == {i \in 1..n : list[i].name # NoName}
         IN /\ healed \in HealLists(n)
            /\ \A i \in given : healed[i].name = list[i].name
            /\ HealedUpto(healed, given, n, n)
<1> DEFINE given == {i \in 1..n : list[i].name # NoName}
<1>1. PICK healed \in [0..n -> HealLists(n)] :
        /\ healed[0] = list
        /\ \A k \in 1..n : healed[k] = Heal(healed[k - 1], k, NoName)
        /\ AssignSlugNames(list, NoName) = healed[n]
  BY HealTrace
<1> DEFINE Good(k) == /\ \A i \in given : healed[k][i].name = list[i].name
                      /\ HealedUpto(healed[k], given, k, n)
           T == {k \in 0..n : Good(k)}
<1>2. 0 \in T
  BY <1>1 DEF HealedUpto
<1>3. ASSUME NEW k \in 1..n, k - 1 \in T PROVE k \in T
  <2> DEFINE a == healed[k - 1]
             b == healed[k]
  <2>1. a \in HealLists(n) /\ b = Heal(a, k, NoName)
    BY <1>1
  <2>2. /\ \A i \in given : a[i].name = list[i].name
        /\ \A i \in k..n : i \notin given => a[i].name = NoName
        /\ \A i \in 1..k - 1 : a[i].name # NoName
        /\ \A i \in 1..k - 1, j \in 1..n : i \notin given /\ i # j => a[i].name # a[j].name
    BY <1>3 DEF HealedUpto
  <2>3. given \subseteq 1..n /\ \A i \in given : list[i].name # NoName
    OBVIOUS
  <2> HIDE DEF a, b, given
  <2>4. a[k].name = NoName <=> k \notin given
    BY <2>2, <2>3
  <2>5. /\ \A i \in 1..n : i # k \/ k \in given => b[i].name = a[i].name
        /\ k \notin given => b[k].name # NoName /\ \A i \in 1..n : a[i].name # b[k].name
    BY <2>1, <2>4, HealStep
  <2>6. \A i \in given : b[i].name = list[i].name
    BY <2>2, <2>3, <2>5
  <2>7. \A i \in k + 1..n : i \notin given => b[i].name = NoName
    BY <2>2, <2>5
  <2>8. \A i \in 1..k : b[i].name # NoName
    BY <2>2, <2>4, <2>5
  <2>9. ASSUME NEW i \in 1..k, NEW j \in 1..n, i \notin given, i # j
        PROVE  b[i].name # b[j].name
    <3>1. CASE i = k
      BY <2>5, <2>9, <3>1
    <3>2. CASE i # k
      <4>1. i \in 1..k - 1 /\ i \in 1..n
        BY <3>2
      <4> QED BY <2>2, <2>5, <2>9, <4>1
    <3> QED BY <3>1, <3>2
  <2>10. Good(k)
    BY <2>6, <2>7, <2>8, <2>9 DEF HealedUpto, b
  <2> QED BY <2>10
<1> HIDE DEF T
<1>4. 0..n \subseteq T
  BY <1>2, <1>3, Upwards
<1>5. n \in T
  BY <1>4
<1> QED BY <1>1, <1>5 DEF T

(* After healing a list of any length every entry has a name, the given names
   are as they were, and a new name is the name of one entry only. *)
THEOREM HealingNames == ListSpec => []NamesHealed
<1>1. probe \in Probes \cup {NoProbe} => NamesHealed
  <2> SUFFICES ASSUME probe \in Probes \cup {NoProbe}, probe.kind = "heal" PROVE NamesHealed
    BY DEF NamesHealed
  <2> DEFINE list == probe.list
             n == Len(list)
  <2>1. probe \in HealProbe
    BY ProbesType DEF NoProbe, MatchProbe
  <2>2. list \in Seq([name : {NoName} \cup SlugNames, slug : Slugs])
    BY <2>1 DEF HealProbe
  <2>3. n \in Nat /\ DOMAIN list = 1..n /\ list \in HealLists(n)
    <3>1. n \in Nat /\ DOMAIN list = 1..n
      BY <2>2
    <3>2. list \in [1..n -> [name : {NoName} \cup SlugNames, slug : Slugs]]
      <4> HIDE DEF list
      <4> DEFINE R == [name : {NoName} \cup SlugNames, slug : Slugs]
      <4>1. list \in Seq(R)
        BY <2>2
      <4> HIDE DEF R
      <4>2. list \in [1..Len(list) -> R]
        BY <4>1
      <4> QED BY <4>2 DEF R
    <3> QED BY <3>1, <3>2 DEF HealLists
  <2> DEFINE healed == AssignSlugNames(list, NoName)
             given == {i \in 1..n : list[i].name # NoName}
  <2> HIDE DEF list, n
  <2>4. /\ healed \in HealLists(n)
        /\ \A i \in given : healed[i].name = list[i].name
        /\ HealedUpto(healed, given, n, n)
    BY <2>3, HealedIs
  <2> HIDE DEF healed
  <2>5. DOMAIN healed = 1..n
    BY <2>4 DEF HealLists
  <2>6. NoName \notin NamesOf(healed)
    BY <2>4, <2>5 DEF NamesOf, HealedUpto
  <2>7. \A i \in (1..n) \ given, j \in 1..n : i # j => healed[i].name # healed[j].name
    BY <2>4 DEF HealedUpto
  <2> QED BY <2>3, <2>4, <2>6, <2>7 DEF NamesHealed, healed, list
<1>2. ListInv => NamesHealed
  BY <1>1 DEF ListInv
<1> QED BY <1>2, ListInvariance, PTL

--------------------------------------------------------------------------------
(***************************************************************************)
(* The matcher. A path is in the language of a pattern when the parts      *)
(* between the stars can be placed in it (PlacedIsMatch, MatchIsPlaced);   *)
(* the search for each part at its first occurrence finds places whenever  *)
(* there are any (PlacedIsFound, FoundIsPlaced); and the round of          *)
(* MatchService keeps the best score (BestStep).                           *)
(***************************************************************************)

(* The first of some places after x, their end being one of them. *)
NextEnd(stars, n, x) ==
  CHOOSE i \in stars \cup {n + 1} :
    i > x /\ \A k \in stars \cup {n + 1} : k > x => i <= k

(* It exists, and no star is passed over. *)
LEMMA NextEndIs ==
  ASSUME NEW n \in Nat, NEW stars \in SUBSET (1..n), NEW x \in 0..n
  PROVE  LET y == NextEnd(stars, n, x)
         IN /\ y \in stars \cup {n + 1} /\ y \in 1..n + 1 /\ y > x
            /\ \A k \in stars : k > x => y <= k
<1> DEFINE ends == stars \cup {n + 1}
           after == {i \in ends : i > x}
<1>1. ends \subseteq 1..n + 1
  OBVIOUS
<1>2. after \in SUBSET Nat /\ n + 1 \in after
  <2>1. after \subseteq ends
    OBVIOUS
  <2>2. n + 1 \in ends /\ n + 1 > x
    OBVIOUS
  <2>3. 1..n + 1 \subseteq Nat
    OBVIOUS
  <2>4. n + 1 \in after
    BY <2>2
  <2> HIDE DEF ends, after
  <2> QED BY <1>1, <2>1, <2>3, <2>4
<1>3. PICK i \in after : \A k \in after : i <= k
  <2>1. after # {}
    BY <1>2
  <2> HIDE DEF after
  <2> QED BY <1>2, <2>1, LeastIs
<1>4. i \in ends /\ i > x /\ \A k \in ends : k > x => i <= k
  BY <1>3
<1> HIDE DEF ends
<1>5. LET y == CHOOSE j \in ends : j > x /\ \A k \in ends : k > x => j <= k
      IN y \in ends /\ y > x /\ \A k \in ends : k > x => y <= k
  BY <1>4
<1> QED BY <1>1, <1>5 DEF NextEnd, ends

(* The stars that lie before the next one found. *)
CountUpTo(stars, x) == Cardinality({i \in stars : i <= x})

(* Going to the next star counts one star more. *)
LEMMA CountedUpTo ==
  ASSUME NEW n \in Nat, NEW stars \in SUBSET (1..n), NEW x \in 0..n, NEW j \in Nat,
         CountUpTo(stars, x) = j, j # Cardinality(stars)
  PROVE  LET y == NextEnd(stars, n, x)
         IN y \in stars /\ CountUpTo(stars, y) = j + 1
<1> DEFINE y == NextEnd(stars, n, x)
           upto == {i \in stars : i <= x}
           more == {i \in stars : i <= y}
<1>1. IsFiniteSet(stars) /\ IsFiniteSet(upto)
  <2>1. IsFiniteSet(1..n)
    BY FS_Interval
  <2>2. IsFiniteSet(stars)
    BY <2>1, FS_Subset
  <2>3. upto \subseteq stars
    OBVIOUS
  <2> HIDE DEF upto
  <2> QED BY <2>2, <2>3, FS_Subset
<1>2. /\ y \in stars \cup {n + 1} /\ y \in 1..n + 1 /\ y > x
      /\ \A k \in stars : k > x => y <= k
  BY NextEndIs
<1> HIDE DEF y
<1>3. PICK i \in stars : ~(i <= x)
  <2>1. upto # stars
    BY DEF CountUpTo
  <2> QED BY <2>1
<1>4. i \in 1..n /\ y <= i
  BY <1>2, <1>3
<1>5. y \in stars /\ y \in 1..n
  BY <1>2, <1>4
<1>6. y \notin upto
  BY <1>2, <1>5
<1>7. more = upto \cup {y}
  <2>1. ASSUME NEW k \in stars PROVE k <= y <=> k <= x \/ k = y
    <3>1. k \in 1..n
      OBVIOUS
    <3> QED BY <1>2, <1>5, <3>1
  <2> QED BY <1>5, <2>1
<1>8. Cardinality(upto) = j
  BY DEF CountUpTo
<1> HIDE DEF upto, more
<1>9. Cardinality(more) = j + 1
  BY <1>1, <1>6, <1>7, <1>8, FS_AddElement
<1> QED BY <1>5, <1>9 DEF y, more, CountUpTo

(* What Cuts computes from the places of the stars. *)
CutsOf(stars, n, s) ==
  LET cut[j \in 0..s + 1] == IF j = 0 THEN 0 ELSE NextEnd(stars, n, cut[j - 1])
  IN cut

AreCuts(c, stars, n, s) ==
  /\ c \in [0..s + 1 -> 0..n + 1]
  /\ c[0] = 0 /\ c[s + 1] = n + 1
  /\ \A j \in 1..s + 1 : c[j - 1] < c[j]
  /\ \A j \in 1..s : c[j] \in stars
  /\ \A j \in 1..s + 1, i \in stars : c[j - 1] < i => c[j] <= i

(* The cuts are the stars, each once and in their order, and the end. *)
LEMMA CutsOfAre ==
  ASSUME NEW n \in Nat, NEW stars \in SUBSET (1..n), NEW s, s = Cardinality(stars)
  PROVE  s \in Nat /\ AreCuts(CutsOf(stars, n, s), stars, n, s)
<1> DEFINE Nx(x) == NextEnd(stars, n, x)
           S == 0..n + 1
           step == [j \in 1..s + 1 |-> [x \in S |-> IF x = n + 1 THEN x ELSE Nx(x)]]
           Body(g) == [j \in 0..s + 1 |-> IF j = 0 THEN 0 ELSE Nx(g[j - 1])]
           cut == CHOOSE g : g = Body(g)
           Upto(x) == {i \in stars : i <= x}
<1>1. CutsOf(stars, n, s) = cut
  BY DEF CutsOf
<1> HIDE DEF cut
<1>2. IsFiniteSet(stars) /\ s \in Nat
  <2>1. IsFiniteSet(1..n)
    BY FS_Interval
  <2>2. IsFiniteSet(stars)
    BY <2>1, FS_Subset
  <2> QED BY <2>2, FS_CardinalityType
<1>3. ASSUME NEW x \in 0..n
      PROVE  /\ Nx(x) \in S /\ Nx(x) > x /\ Nx(x) \in stars \cup {n + 1}
             /\ \A k \in stars : k > x => Nx(x) <= k
  BY NextEndIs
<1> HIDE DEF Nx
<1>4. step \in [1..s + 1 -> [S -> S]]
  <2>1. \A x \in S : (IF x = n + 1 THEN x ELSE Nx(x)) \in S
    BY <1>3
  <2> HIDE DEF S
  <2> QED BY <2>1
<1>5. PICK f : IsLoop(f, s + 1, S, 0, step)
  <2>1. 0 \in S /\ s + 1 \in Nat
    BY <1>2
  <2> HIDE DEF step, S
  <2> QED BY <1>4, <2>1, TraceExists
<1>6. /\ f \in [0..s + 1 -> S] /\ f[0] = 0
      /\ \A j \in 1..s + 1 : f[j] = IF f[j - 1] = n + 1 THEN f[j - 1] ELSE Nx(f[j - 1])
  <2>1. /\ f \in [0..s + 1 -> S] /\ f[0] = 0
        /\ \A j \in 1..s + 1 : f[j] = step[j][f[j - 1]]
    <3> HIDE DEF step
    <3> QED BY <1>5 DEF IsLoop
  <2>2. \A j \in 1..s + 1 : f[j - 1] \in S
    <3> HIDE DEF S
    <3> QED BY <1>2, <2>1
  <2> HIDE DEF S
  <2> QED BY <2>1, <2>2
<1> HIDE DEF step
<1>7. ASSUME NEW j \in 1..s + 1, f[j - 1] # n + 1
      PROVE  f[j - 1] \in 0..n /\ f[j] = Nx(f[j - 1])
  <2>1. f[j - 1] \in S
    BY <1>2, <1>6
  <2> QED BY <1>6, <1>7, <2>1
<1> DEFINE T == {j \in 0..s : f[j] # n + 1 /\ Cardinality(Upto(f[j])) = j}
<1>8. 0 \in T
  <2>1. \A i \in stars : ~(i <= 0)
    OBVIOUS
  <2>2. Upto(f[0]) = {}
    BY <1>6, <2>1
  <2>3. 0 # n + 1 /\ 0 \in 0..s /\ Cardinality({}) = 0
    BY <1>2, FS_EmptySet
  <2>4. f[0] # n + 1 /\ Cardinality(Upto(f[0])) = 0
    BY <1>6, <2>2, <2>3
  <2> HIDE DEF Upto
  <2> QED BY <2>3, <2>4
<1>9. ASSUME NEW j \in 1..s, j - 1 \in T PROVE j \in T
  <2>1. j \in 1..s + 1 /\ f[j - 1] # n + 1 /\ Cardinality(Upto(f[j - 1])) = j - 1
    BY <1>2, <1>9
  <2>2. f[j - 1] \in 0..n /\ f[j] = NextEnd(stars, n, f[j - 1])
    BY <1>7, <2>1 DEF Nx
  <2>3. j - 1 \in Nat /\ j - 1 # Cardinality(stars)
    BY <1>2
  <2> DEFINE x == f[j - 1]
             k == j - 1
  <2>4. x \in 0..n /\ k \in Nat /\ k # Cardinality(stars) /\ CountUpTo(stars, x) = k
    BY <2>1, <2>2, <2>3 DEF CountUpTo
  <2> HIDE DEF x, k
  <2>5. NextEnd(stars, n, x) \in stars /\ CountUpTo(stars, NextEnd(stars, n, x)) = k + 1
    BY <2>4, CountedUpTo
  <2>6. f[j] = NextEnd(stars, n, x) /\ k + 1 = j /\ j \in 0..s
    BY <1>2, <2>2 DEF x, k
  <2>7. f[j] \in stars /\ Cardinality(Upto(f[j])) = j
    BY <2>5, <2>6 DEF CountUpTo
  <2>8. f[j] # n + 1
    <3>1. f[j] \in 1..n
      BY <2>7
    <3> HIDE DEF Upto, S
    <3> QED BY <3>1
  <2> HIDE DEF Upto
  <2> QED BY <2>6, <2>7, <2>8
<1>10. \A j \in 0..s : f[j] # n + 1 /\ Cardinality(Upto(f[j])) = j
  <2> HIDE DEF T
  <2>1. 0..s \subseteq T
    BY <1>2, <1>8, <1>9, Upwards
  <2> QED BY <2>1 DEF T
<1>11. \A j \in 1..s + 1 : f[j - 1] \in 0..n /\ f[j] = Nx(f[j - 1])
  <2> TAKE j \in 1..s + 1
  <2>1. j - 1 \in 0..s
    BY <1>2
  <2>2. f[j - 1] # n + 1
    BY <1>10, <2>1
  <2> QED BY <1>7, <2>2
<1>12. \A j \in 1..s : f[j] \in stars
  <2> TAKE j \in 1..s
  <2>1. j \in 1..s + 1 /\ j \in 0..s
    BY <1>2
  <2>2. f[j] \in stars \cup {n + 1} /\ f[j] # n + 1
    BY <1>3, <1>10, <1>11, <2>1
  <2> QED BY <2>2
<1>13. f[s + 1] = n + 1
  <2>1. s \in 0..s /\ s + 1 \in 1..s + 1 /\ (s + 1) - 1 = s
    BY <1>2
  <2>2. Cardinality(Upto(f[s])) = s /\ Upto(f[s]) \subseteq stars
    BY <1>10, <2>1
  <2>3. Upto(f[s]) = stars
    <3> HIDE DEF Upto
    <3> QED BY <1>2, <2>2, FS_Subset
  <2>4. f[s] \in 0..n /\ f[s + 1] = Nx(f[s])
    BY <1>11, <2>1
  <2>5. f[s + 1] > f[s] /\ f[s + 1] \in stars \cup {n + 1}
    BY <1>3, <2>4
  <2>6. f[s + 1] \notin stars
    <3> SUFFICES ASSUME f[s + 1] \in stars PROVE FALSE
      OBVIOUS
    <3>1. f[s + 1] <= f[s] /\ f[s + 1] \in 1..n
      BY <2>3
    <3> QED BY <2>4, <2>5, <3>1
  <2> QED BY <2>5, <2>6
<1>14. f = Body(f)
  <2>1. \A j \in 0..s + 1 : f[j] = IF j = 0 THEN 0 ELSE Nx(f[j - 1])
    <3> TAKE j \in 0..s + 1
    <3>1. CASE j = 0
      BY <1>6, <3>1
    <3>2. CASE j # 0
      <4>1. j \in 1..s + 1
        BY <1>2, <3>2
      <4> QED BY <1>11, <3>2, <4>1
    <3> QED BY <3>1, <3>2
  <2> HIDE DEF S
  <2> QED BY <1>6, <2>1
<1>15. cut = Body(cut)
  <2> HIDE DEF Body
  <2> QED BY <1>14 DEF cut
<1>16. cut = f
  <2> DEFINE U == {j \in 0..s + 1 : cut[j] = f[j]}
  <2>1. 0 \in U
    BY <1>2, <1>6, <1>15
  <2>2. ASSUME NEW j \in 1..s + 1, j - 1 \in U PROVE j \in U
    <3>1. cut[j] = Nx(cut[j - 1]) /\ f[j] = Nx(f[j - 1])
      BY <1>2, <1>11, <1>15
    <3> QED BY <2>2, <3>1
  <2>3. s + 1 \in Nat
    BY <1>2
  <2> HIDE DEF U
  <2>4. 0..s + 1 \subseteq U
    BY <2>1, <2>2, <2>3, Upwards
  <2>5. \A j \in 0..s + 1 : cut[j] = f[j]
    BY <2>4 DEF U
  <2>6. DOMAIN cut = 0..s + 1 /\ cut = [j \in DOMAIN cut |-> cut[j]]
    BY <1>15
  <2> HIDE DEF S
  <2> QED BY <1>6, <2>5, <2>6
<1>17. \A j \in 1..s + 1 : f[j - 1] < f[j] /\ \A i \in stars : f[j - 1] < i => f[j] <= i
  <2> TAKE j \in 1..s + 1
  <2>1. f[j - 1] \in 0..n /\ f[j] = Nx(f[j - 1])
    BY <1>11
  <2>2. /\ f[j] \in S /\ f[j] > f[j - 1]
        /\ \A i \in stars : i > f[j - 1] => f[j] <= i
    BY <1>3, <2>1
  <2>3. \A i \in stars : i \in 1..n
    OBVIOUS
  <2> QED BY <2>1, <2>2, <2>3
<1>18. AreCuts(f, stars, n, s)
  BY <1>6, <1>12, <1>13, <1>17 DEF AreCuts
<1> QED BY <1>1, <1>2, <1>16, <1>18

(* The cuts of a pattern are its front, its stars in their order, and its
   end. *)
LEMMA CutsAre ==
  ASSUME NEW X, NEW pattern \in Seq(X)
  PROVE  LET n == Len(pattern)
             s == Cardinality(Stars(pattern))
         IN /\ n \in Nat /\ s \in Nat /\ Stars(pattern) \subseteq 1..n
            /\ AreCuts(Cuts(pattern), Stars(pattern), n, s)
<1> DEFINE n == Len(pattern)
           stars == Stars(pattern)
           s == Cardinality(stars)
<1>1. n \in Nat /\ stars \in SUBSET (1..n)
  BY DEF Stars
<1>2. IsFiniteSet(stars) /\ n + 1 \notin stars
  <2>1. n + 1 \notin stars
    BY <1>1
  <2> HIDE DEF stars, n
  <2>2. IsFiniteSet(1..n)
    BY <1>1, FS_Interval
  <2>3. IsFiniteSet(stars)
    BY <1>1, <2>2, FS_Subset
  <2> QED BY <2>1, <2>3
<1>3. Cardinality(stars \cup {n + 1}) = s + 1
  <2> HIDE DEF stars, n
  <2> QED BY <1>2, FS_AddElement
<1>4. Cuts(pattern) = CutsOf(stars, n, s)
  <2> HIDE DEF s
  <2> QED BY <1>3 DEF Cuts, CutsOf, NextEnd
<1>5. s \in Nat /\ AreCuts(CutsOf(stars, n, s), stars, n, s)
  <2> HIDE DEF stars, n
  <2> QED BY <1>1, CutsOfAre
<1> QED BY <1>1, <1>4, <1>5

(* Cuts lie in their order. *)
LEMMA CutsRise ==
  ASSUME NEW n \in Nat, NEW s \in Nat, NEW c, NEW stars, AreCuts(c, stars, n, s),
         NEW a \in 0..s + 1, NEW b \in 0..s + 1, a < b
  PROVE  c[a] < c[b]
<1> DEFINE T == {k \in 0..s + 1 : a < k => c[a] < c[k]}
<1>1. /\ \A j \in 0..s + 1 : c[j] \in 0..n + 1
      /\ \A j \in 1..s + 1 : c[j - 1] < c[j]
  BY DEF AreCuts
<1>2. 0 \in T
  OBVIOUS
<1>3. ASSUME NEW k \in 1..s + 1, k - 1 \in T PROVE k \in T
  <2>1. k \in 0..s + 1 /\ k - 1 \in 0..s + 1
    OBVIOUS
  <2>2. c[k - 1] < c[k] /\ c[k] \in Nat /\ c[k - 1] \in Nat /\ c[a] \in Nat
    BY <1>1, <2>1
  <2>3. a < k => a = k - 1 \/ a < k - 1
    OBVIOUS
  <2> QED BY <1>3, <2>1, <2>2, <2>3
<1>4. s + 1 \in Nat
  OBVIOUS
<1> HIDE DEF T
<1>5. 0..s + 1 \subseteq T
  BY <1>2, <1>3, <1>4, Upwards
<1> QED BY <1>5 DEF T

(* Every place of a pattern, its end included, lies in one part or is the
   cut after it. *)
LEMMA BlockExists ==
  ASSUME NEW n \in Nat, NEW s \in Nat, NEW c, NEW stars, AreCuts(c, stars, n, s),
         NEW i \in 1..n + 1
  PROVE  \E j \in 1..s + 1 : c[j - 1] < i /\ i <= c[j]
<1> DEFINE after == {j \in 0..s + 1 : i <= c[j]}
<1>1. /\ \A j \in 0..s + 1 : c[j] \in 0..n + 1
      /\ c[0] = 0 /\ c[s + 1] = n + 1
  BY DEF AreCuts
<1>2. s + 1 \in after /\ after \in SUBSET Nat
  BY <1>1
<1>3. PICK j \in after : \A k \in after : j <= k
  <2> HIDE DEF after
  <2> QED BY <1>2, LeastIs
<1>4. j \in 1..s + 1
  BY <1>1, <1>3
<1>5. j - 1 \notin after /\ j - 1 \in 0..s + 1
  BY <1>3, <1>4
<1>6. c[j - 1] < i
  BY <1>1, <1>5
<1> QED BY <1>3, <1>4, <1>6

(* It lies in one only. *)
LEMMA BlockUnique ==
  ASSUME NEW n \in Nat, NEW s \in Nat, NEW c, NEW stars, AreCuts(c, stars, n, s),
         NEW i \in 1..n + 1, NEW j \in 1..s + 1, NEW k \in 1..s + 1,
         c[j - 1] < i /\ i <= c[j], c[k - 1] < i /\ i <= c[k]
  PROVE  j = k
<1>1. \A l \in 0..s + 1 : c[l] \in 0..n + 1
  BY DEF AreCuts
<1>2. ASSUME NEW a \in 1..s + 1, NEW b \in 1..s + 1, c[a - 1] < i, i <= c[a],
             c[b - 1] < i, i <= c[b], a < b
      PROVE  FALSE
  <2>1. a \in 0..s + 1 /\ b - 1 \in 0..s + 1
    OBVIOUS
  <2>2. c[a] <= c[b - 1]
    <3>1. CASE a = b - 1
      BY <1>1, <2>1, <3>1
    <3>2. CASE a # b - 1
      <4>1. a < b - 1
        BY <1>2, <3>2
      <4>2. c[a] < c[b - 1]
        BY <2>1, <4>1, CutsRise
      <4> QED BY <1>1, <2>1, <4>2
    <3> QED BY <3>1, <3>2
  <2> QED BY <1>1, <1>2, <2>1, <2>2
<1>3. j < k \/ k < j \/ j = k
  OBVIOUS
<1> QED BY <1>2, <1>3

(* A part is what lies between two cuts, and holds no star. *)
AreParts(parts, c, pattern, s) ==
  /\ Len(parts) = s + 1
  /\ \A j \in 1..s + 1 :
       /\ Len(parts[j]) = c[j] - c[j - 1] - 1 /\ Len(parts[j]) \in Nat
       /\ \A k \in 1..Len(parts[j]) : parts[j][k] = pattern[c[j - 1] + k]

(* Split gives the parts of a pattern. *)
LEMMA SplitIs ==
  ASSUME NEW X, NEW pattern \in Seq(X)
  PROVE  AreParts(Split(pattern), Cuts(pattern), pattern, Cardinality(Stars(pattern)))
<1> DEFINE n == Len(pattern)
           stars == Stars(pattern)
           s == Cardinality(stars)
           c == Cuts(pattern)
           parts == Split(pattern)
<1>1. n \in Nat /\ s \in Nat /\ AreCuts(c, stars, n, s)
  BY CutsAre
<1> HIDE DEF s, c
<1>2. parts = [j \in 1..s + 1 |-> SubSeq(pattern, c[j - 1] + 1, c[j] - 1)]
  BY DEF Split, s, c
<1> HIDE DEF parts
<1>3. ASSUME NEW j \in 1..s + 1
      PROVE  /\ c[j - 1] \in 0..n /\ c[j] \in 1..n + 1 /\ c[j - 1] < c[j]
  <2>1. j - 1 \in 0..s + 1 /\ j \in 0..s + 1
    BY <1>1
  <2>2. c[j - 1] \in 0..n + 1 /\ c[j] \in 0..n + 1 /\ c[j - 1] < c[j]
    BY <1>1, <2>1 DEF AreCuts
  <2> QED BY <1>1, <2>2
<1>4. ASSUME NEW j \in 1..s + 1
      PROVE  /\ Len(parts[j]) = c[j] - c[j - 1] - 1 /\ Len(parts[j]) \in Nat
             /\ \A k \in 1..Len(parts[j]) : parts[j][k] = pattern[c[j - 1] + k]
  <2> DEFINE a == c[j - 1] + 1
             b == c[j] - 1
  <2>1. parts[j] = SubSeq(pattern, a, b)
    BY <1>2
  <2>2. a \in 1..n + 1 /\ b \in a - 1..n
    BY <1>1, <1>3
  <2>3. /\ Len(SubSeq(pattern, a, b)) = b - a + 1
        /\ \A k \in 1..b - a + 1 : SubSeq(pattern, a, b)[k] = pattern[a + k - 1]
    <3> HIDE DEF a, b
    <3> QED BY <1>1, <2>2
  <2>4. b - a + 1 = c[j] - c[j - 1] - 1 /\ b - a + 1 \in Nat
    BY <1>3
  <2>5. \A k \in 1..b - a + 1 : a + k - 1 = c[j - 1] + k
    BY <1>3
  <2> HIDE DEF a, b
  <2> QED BY <2>1, <2>3, <2>4, <2>5
<1>5. Len(parts) = s + 1
  <2>1. DOMAIN parts = 1..s + 1
    BY <1>2
  <2> QED BY <1>1, <1>2
<1> QED BY <1>4, <1>5 DEF AreParts, s, c, parts

(* The parts of a pattern in a path: the first at its front, the last at
   its end, and none before the one in front of it has ended. *)
Placed(begin, parts, path, s) ==
  /\ begin \in [1..s + 1 -> 1..Len(path) + 1]
  /\ begin[1] = 1
  /\ \A j \in 1..s : begin[j] + Len(parts[j]) <= begin[j + 1]
  /\ begin[s + 1] + Len(parts[s + 1]) = Len(path) + 1
  /\ \A j \in 1..s + 1 : Occurs(parts[j], path, begin[j])

(* A path in which the parts are placed is in the language. *)
LEMMA PlacedIsMatch ==
  ASSUME NEW X, NEW pattern \in Seq(X), NEW Y, NEW path \in Seq(Y),
         NEW s \in Nat, NEW c, NEW parts, NEW begin,
         AreCuts(c, Stars(pattern), Len(pattern), s), AreParts(parts, c, pattern, s),
         Placed(begin, parts, path, s)
  PROVE  InLanguage(pattern, path)
<1> DEFINE n == Len(pattern)
           m == Len(path)
           stars == Stars(pattern)
           In(i, j) == c[j - 1] < i /\ i <= c[j]
           block == [i \in 1..n + 1 |-> CHOOSE j \in 1..s + 1 : In(i, j)]
           from == [i \in 1..n + 1 |-> begin[block[i]] + (i - c[block[i] - 1] - 1)]
<1>1. n \in Nat /\ m \in Nat /\ DOMAIN pattern = 1..n /\ stars = {i \in 1..n : pattern[i] = Star}
  BY DEF Stars
<1> HIDE DEF n, m, stars
<1>2. AreCuts(c, stars, n, s)
  BY DEF n, stars
<1>3. /\ \A j \in 0..s + 1 : c[j] \in 0..n + 1
      /\ c[0] = 0 /\ c[s + 1] = n + 1
      /\ \A j \in 1..s + 1 : c[j - 1] < c[j]
      /\ \A j \in 1..s : c[j] \in stars
      /\ \A j \in 1..s + 1, i \in stars : c[j - 1] < i => c[j] <= i
  BY <1>2 DEF AreCuts
<1>4. \A j \in 1..s + 1 :
        /\ c[j] \in 0..n + 1 /\ c[j - 1] \in 0..n /\ c[j - 1] < c[j]
        /\ Len(parts[j]) = c[j] - c[j - 1] - 1 /\ Len(parts[j]) \in Nat
  <2> TAKE j \in 1..s + 1
  <2>1. j \in 0..s + 1 /\ j - 1 \in 0..s + 1
    OBVIOUS
  <2>2. c[j] \in 0..n + 1 /\ c[j - 1] \in 0..n + 1 /\ c[j - 1] < c[j]
    BY <1>3, <2>1
  <2>3. c[j - 1] \in 0..n
    BY <1>1, <2>2
  <2> QED BY <2>2, <2>3 DEF AreParts
<1>5. \A j \in 1..s + 1 : begin[j] \in 1..m + 1 /\ begin[j] + Len(parts[j]) <= m + 1
  BY DEF Placed, Occurs, m
<1>6. ASSUME NEW i \in 1..n + 1
      PROVE  block[i] \in 1..s + 1 /\ c[block[i] - 1] < i /\ i <= c[block[i]]
  <2>1. \E j \in 1..s + 1 : In(i, j)
    BY <1>1, <1>2, BlockExists
  <2>2. block[i] \in 1..s + 1 /\ In(i, block[i])
    <3> HIDE DEF In
    <3> QED BY <2>1
  <2> QED BY <2>2
<1>7. ASSUME NEW i \in 1..n + 1, NEW j \in 1..s + 1, c[j - 1] < i, i <= c[j]
      PROVE  block[i] = j
  <2> DEFINE b == block[i]
  <2>1. b \in 1..s + 1 /\ c[b - 1] < i /\ i <= c[b]
    BY <1>6
  <2> HIDE DEF b
  <2>2. b = j
    BY <1>1, <1>2, <1>7, <2>1, BlockUnique
  <2> QED BY <2>2 DEF b
<1> HIDE DEF block
<1>8. ASSUME NEW i \in 1..n + 1, NEW j \in 1..s + 1, c[j - 1] < i, i <= c[j]
      PROVE  from[i] = begin[j] + (i - c[j - 1] - 1)
  BY <1>7, <1>8
<1>9. from \in [1..n + 1 -> 1..m + 1]
  <2>1. ASSUME NEW i \in 1..n + 1
        PROVE  begin[block[i]] + (i - c[block[i] - 1] - 1) \in 1..m + 1
    <3> DEFINE j == block[i]
    <3>1. j \in 1..s + 1 /\ c[j - 1] < i /\ i <= c[j]
      BY <1>6
    <3> HIDE DEF j
    <3>2. /\ c[j] \in 0..n + 1 /\ c[j - 1] \in 0..n
          /\ Len(parts[j]) = c[j] - c[j - 1] - 1
          /\ begin[j] \in 1..m + 1 /\ begin[j] + Len(parts[j]) <= m + 1
      BY <1>4, <1>5, <3>1
    <3> DEFINE l == c[j - 1]
               r == c[j]
               b == begin[j]
               w == Len(parts[j])
    <3>3. /\ r \in 0..n + 1 /\ l \in 0..n /\ w = r - l - 1 /\ l < i /\ i <= r
          /\ b \in 1..m + 1 /\ b + w <= m + 1
      BY <3>1, <3>2
    <3> HIDE DEF l, r, b, w
    <3>4. b + (i - l - 1) \in 1..m + 1
      BY <1>1, <3>3
    <3> QED BY <3>4 DEF j, b, l
  <2> QED BY <2>1
<1>10. from[1] = 1
  <2>1. 1 \in 1..n + 1 /\ 1 \in 1..s + 1 /\ 1 - 1 = 0
    BY <1>1
  <2>2. c[0] < 1 /\ 1 <= c[1]
    BY <1>3, <1>4, <2>1
  <2>3. from[1] = begin[1] + (1 - c[0] - 1)
    <3> HIDE DEF from
    <3> QED BY <1>8, <2>1, <2>2
  <2> HIDE DEF from
  <2> QED BY <1>3, <2>3 DEF Placed
<1>11. from[n + 1] = m + 1
  <2>1. n + 1 \in 1..n + 1 /\ s + 1 \in 1..s + 1
    BY <1>1
  <2>2. c[(s + 1) - 1] < n + 1 /\ n + 1 <= c[s + 1]
    BY <1>1, <1>3, <1>4, <2>1
  <2>3. from[n + 1] = begin[s + 1] + ((n + 1) - c[(s + 1) - 1] - 1)
    <3> HIDE DEF from
    <3> QED BY <1>8, <2>1, <2>2
  <2>4. Len(parts[s + 1]) = (n + 1) - c[(s + 1) - 1] - 1
    BY <1>3, <1>4, <2>1
  <2>5. begin[s + 1] + Len(parts[s + 1]) = m + 1
    BY DEF Placed, m
  <2> HIDE DEF from
  <2> QED BY <2>3, <2>4, <2>5
<1>12. ASSUME NEW i \in 1..n, i \in stars PROVE from[i] <= from[i + 1]
  <2>1. PICK j \in 1..s + 1 : c[j - 1] < i /\ i <= c[j]
    <3>1. i \in 1..n + 1
      BY <1>1
    <3> QED BY <1>1, <1>2, <3>1, BlockExists
  <2>2. c[j] = i /\ j # s + 1
    BY <1>1, <1>3, <1>4, <1>12, <2>1
  <2>3. j \in 1..s /\ j + 1 \in 1..s + 1 /\ (j + 1) - 1 = j
    BY <2>2
  <2>4. c[(j + 1) - 1] < i + 1 /\ i + 1 <= c[j + 1]
    BY <1>1, <1>4, <2>2, <2>3
  <2>5. from[i] = begin[j] + (i - c[j - 1] - 1)
    <3>1. i \in 1..n + 1
      BY <1>1
    <3> HIDE DEF from
    <3> QED BY <1>8, <2>1, <3>1
  <2>6. from[i + 1] = begin[j + 1] + ((i + 1) - c[(j + 1) - 1] - 1)
    <3>1. i + 1 \in 1..n + 1
      BY <1>1
    <3> HIDE DEF from
    <3> QED BY <1>8, <2>3, <2>4, <3>1
  <2> HIDE DEF from
  <2>7. from[i] = begin[j] + Len(parts[j])
    BY <1>4, <2>2, <2>5
  <2>8. from[i + 1] = begin[j + 1]
    <3>1. begin[j + 1] \in 1..m + 1
      BY <1>5, <2>3
    <3>2. (i + 1) - c[(j + 1) - 1] - 1 = 0
      BY <2>2, <2>3
    <3> QED BY <1>1, <2>6, <3>1, <3>2
  <2>9. begin[j] + Len(parts[j]) <= begin[j + 1]
    BY <2>3 DEF Placed
  <2> QED BY <2>7, <2>8, <2>9
<1>13. ASSUME NEW i \in 1..n, i \notin stars
       PROVE  from[i + 1] = from[i] + 1 /\ path[from[i]] = pattern[i]
  <2>1. PICK j \in 1..s + 1 : c[j - 1] < i /\ i <= c[j]
    <3>1. i \in 1..n + 1
      BY <1>1
    <3> QED BY <1>1, <1>2, <3>1, BlockExists
  <2>2. c[j] # i
    <3>1. j \in 1..s \/ j = s + 1
      OBVIOUS
    <3> QED BY <1>1, <1>3, <1>13, <3>1
  <2>3. c[j - 1] < i + 1 /\ i + 1 <= c[j]
    BY <1>1, <1>4, <2>1, <2>2
  <2>4. from[i] = begin[j] + (i - c[j - 1] - 1)
    <3>1. i \in 1..n + 1
      BY <1>1
    <3> HIDE DEF from
    <3> QED BY <1>8, <2>1, <3>1
  <2>5. from[i + 1] = begin[j] + ((i + 1) - c[j - 1] - 1)
    <3>1. i + 1 \in 1..n + 1
      BY <1>1
    <3> HIDE DEF from
    <3> QED BY <1>8, <2>3, <3>1
  <2> HIDE DEF from
  <2> DEFINE k == i - c[j - 1]
             l == c[j - 1]
             r == c[j]
  <2>a. l \in 0..n /\ r \in 0..n + 1 /\ l < i /\ i + 1 <= r /\ Len(parts[j]) = r - l - 1
    BY <1>4, <2>1, <2>3
  <2> HIDE DEF l, r
  <2>6. k \in 1..Len(parts[j]) /\ c[j - 1] + k = i /\ k = i - l
    <3>1. k = i - l
      BY DEF l
    <3>2. l + k = i /\ k \in 1..r - l - 1
      BY <1>1, <2>a, <3>1
    <3> QED BY <2>a, <3>1, <3>2 DEF l
  <2>7. parts[j][k] = pattern[c[j - 1] + k]
    BY <2>6 DEF AreParts
  <2>8. path[begin[j] + k - 1] = parts[j][k]
    BY <2>6 DEF Placed, Occurs
  <2>9. begin[j] + k - 1 = from[i] /\ from[i + 1] = from[i] + 1
    <3>1. from[i] = begin[j] + (i - l - 1) /\ from[i + 1] = begin[j] + ((i + 1) - l - 1)
      BY <2>4, <2>5 DEF l
    <3>2. begin[j] \in 1..m + 1
      BY <1>5
    <3> QED BY <1>1, <2>a, <2>6, <3>1, <3>2
  <2> HIDE DEF k
  <2> QED BY <2>6, <2>7, <2>8, <2>9
<1>14. \A i \in DOMAIN pattern :
         IF pattern[i] = Star THEN from[i] <= from[i + 1]
         ELSE from[i + 1] = from[i] + 1 /\ path[from[i]] = pattern[i]
  <2> HIDE DEF from
  <2> QED BY <1>1, <1>12, <1>13
<1> HIDE DEF from
<1> QED BY <1>9, <1>10, <1>11, <1>14 DEF InLanguage, n, m

(* In a path of the language the parts are placed. *)
LEMMA MatchIsPlaced ==
  ASSUME NEW X, NEW pattern \in Seq(X), NEW Y, NEW path \in Seq(Y),
         NEW s \in Nat, NEW c, NEW parts,
         AreCuts(c, Stars(pattern), Len(pattern), s), AreParts(parts, c, pattern, s),
         InLanguage(pattern, path)
  PROVE  \E begin : Placed(begin, parts, path, s)
<1> DEFINE n == Len(pattern)
           m == Len(path)
           stars == Stars(pattern)
<1>1. n \in Nat /\ m \in Nat /\ DOMAIN pattern = 1..n /\ stars = {i \in 1..n : pattern[i] = Star}
  BY DEF Stars
<1>2. PICK from \in [1..n + 1 -> 1..m + 1] :
        /\ from[1] = 1 /\ from[n + 1] = m + 1
        /\ \A i \in DOMAIN pattern :
             IF pattern[i] = Star THEN from[i] <= from[i + 1]
             ELSE from[i + 1] = from[i] + 1 /\ path[from[i]] = pattern[i]
  BY DEF InLanguage
<1> HIDE DEF n, m, stars
<1>3. /\ \A i \in 1..n : i \in stars => from[i] <= from[i + 1]
      /\ \A i \in 1..n : i \notin stars => from[i + 1] = from[i] + 1 /\ path[from[i]] = pattern[i]
  BY <1>1, <1>2
<1>4. AreCuts(c, stars, n, s)
  BY DEF n, stars
<1>5. /\ \A j \in 0..s + 1 : c[j] \in 0..n + 1
      /\ c[0] = 0 /\ c[s + 1] = n + 1
      /\ \A j \in 1..s + 1 : c[j - 1] < c[j]
      /\ \A j \in 1..s : c[j] \in stars
      /\ \A j \in 1..s + 1, i \in stars : c[j - 1] < i => c[j] <= i
  BY <1>4 DEF AreCuts
<1>6. \A j \in 1..s + 1 :
        /\ c[j] \in 0..n + 1 /\ c[j - 1] \in 0..n /\ c[j - 1] < c[j]
        /\ Len(parts[j]) = c[j] - c[j - 1] - 1 /\ Len(parts[j]) \in Nat
  <2> TAKE j \in 1..s + 1
  <2>1. j \in 0..s + 1 /\ j - 1 \in 0..s + 1
    OBVIOUS
  <2>2. c[j] \in 0..n + 1 /\ c[j - 1] \in 0..n + 1 /\ c[j - 1] < c[j]
    BY <1>5, <2>1
  <2>3. c[j - 1] \in 0..n
    BY <1>1, <2>2
  <2> QED BY <2>2, <2>3 DEF AreParts
<1> DEFINE begin == [j \in 1..s + 1 |-> from[c[j - 1] + 1]]
<1>7. ASSUME NEW j \in 1..s + 1
      PROVE  /\ begin[j] \in 1..m + 1 /\ begin[j] + Len(parts[j]) = from[c[j]]
             /\ begin[j] + Len(parts[j]) <= m + 1
             /\ Occurs(parts[j], path, begin[j])
  <2> DEFINE l == c[j - 1]
             r == c[j]
             w == Len(parts[j])
             b == begin[j]
             T == {d \in 0..w : from[l + 1 + d] = b + d}
  <2>1. l \in 0..n /\ r \in 0..n + 1 /\ l < r /\ w = r - l - 1 /\ w \in Nat
    BY <1>6
  <2>2. b = from[l + 1] /\ l + 1 \in 1..n + 1
    <3>1. b = from[l + 1]
      OBVIOUS
    <3> HIDE DEF l, b, r, w
    <3> QED BY <1>1, <2>1, <3>1
  <2>3. b \in 1..m + 1
    BY <1>2, <2>2
  <2>4. \A i \in 1..n : l < i /\ i < r => i \notin stars
    <3> TAKE i \in 1..n
    <3>1. i \in stars => ~(l < i) \/ r <= i
      BY <1>5
    <3> HIDE DEF l, r
    <3> QED BY <1>1, <2>1, <3>1
  <2>p. /\ \A k \in 1..w : parts[j][k] = pattern[l + k]
    BY DEF AreParts
  <2> HIDE DEF l, r, w, b
  <2>5. 0 \in T
    BY <2>1, <2>2, <2>3
  <2>6. ASSUME NEW d \in 1..w, d - 1 \in T PROVE d \in T /\ path[b + d - 1] = pattern[l + d]
    <3> DEFINE i == l + d
    <3>1. i \in 1..n /\ l < i /\ i < r /\ l + 1 + (d - 1) = i /\ l + 1 + d = i + 1
      BY <1>1, <2>1
    <3>2. i \notin stars
      BY <2>4, <3>1
    <3>3. from[i] = b + (d - 1)
      BY <2>6, <3>1
    <3>4. from[i + 1] = from[i] + 1 /\ path[from[i]] = pattern[i]
      BY <1>3, <3>1, <3>2
    <3> HIDE DEF i
    <3>5. b + (d - 1) + 1 = b + d /\ b + (d - 1) = b + d - 1
      BY <2>1, <2>3
    <3>6. d \in T
      BY <2>1, <3>1, <3>3, <3>4, <3>5
    <3>7. path[b + d - 1] = pattern[i]
      BY <3>3, <3>4, <3>5
    <3> QED BY <3>6, <3>7 DEF i
  <2> HIDE DEF T
  <2>7. 0..w \subseteq T
    BY <2>1, <2>5, <2>6, Upwards
  <2>8. from[r] = b + w
    <3>1. w \in T /\ l + 1 + w = r
      BY <2>1, <2>7
    <3> QED BY <3>1 DEF T
  <2>9. from[r] \in 1..m + 1
    <3>1. r \in 1..n + 1
      BY <1>1, <2>1
    <3> QED BY <1>2, <3>1
  <2>10. \A k \in 1..w : path[b + k - 1] = parts[j][k]
    <3> TAKE k \in 1..w
    <3>1. k - 1 \in 0..w
      BY <2>1
    <3>2. k - 1 \in T
      BY <2>7, <3>1
    <3>3. path[b + k - 1] = pattern[l + k]
      BY <2>6, <3>2
    <3> QED BY <2>p, <3>3
  <2>11. b + w <= m + 1
    BY <1>1, <2>1, <2>3, <2>8, <2>9
  <2>12. Occurs(parts[j], path, b)
    BY <2>10, <2>11 DEF Occurs, w, m
  <2> HIDE DEF begin
  <2> QED BY <2>3, <2>8, <2>11, <2>12 DEF b, w, r
<1>8. begin \in [1..s + 1 -> 1..m + 1]
  <2>1. \A j \in 1..s + 1 : from[c[j - 1] + 1] \in 1..m + 1
    BY <1>7
  <2> QED BY <2>1
<1>9. begin[1] = 1
  <2>1. 1 \in 1..s + 1 /\ c[1 - 1] + 1 = 1
    BY <1>5
  <2> QED BY <1>2, <2>1
<1>10. ASSUME NEW j \in 1..s PROVE begin[j] + Len(parts[j]) <= begin[j + 1]
  <2>1. j \in 1..s + 1 /\ j + 1 \in 1..s + 1 /\ (j + 1) - 1 = j
    OBVIOUS
  <2>2. c[j] \in 1..n /\ c[j] \in stars
    BY <1>1, <1>5
  <2>3. from[c[j]] <= from[c[j] + 1]
    BY <1>3, <2>2
  <2>4. begin[j + 1] = from[c[j] + 1]
    BY <2>1
  <2>5. begin[j] + Len(parts[j]) = from[c[j]]
    BY <1>7, <2>1
  <2> HIDE DEF begin
  <2> QED BY <2>3, <2>4, <2>5
<1>11. begin[s + 1] + Len(parts[s + 1]) = m + 1
  <2>1. s + 1 \in 1..s + 1
    OBVIOUS
  <2> HIDE DEF begin
  <2> QED BY <1>2, <1>5, <1>7, <2>1
<1> HIDE DEF begin
<1>12. Placed(begin, parts, path, s)
  BY <1>7, <1>8, <1>9, <1>10, <1>11 DEF Placed, m
<1> QED BY <1>12

(* Looking for a part from some place on finds its first occurrence. *)
LEMMA AfterFirstIs ==
  ASSUME NEW Y, NEW path \in Seq(Y), NEW part, Len(part) \in Nat,
         NEW from \in 1..Len(path) + 1
  PROVE  LET x == AfterFirst(part, path, from)
             m == Len(path)
         IN /\ x \in 0..m + 1
            /\ x = 0 => \A at \in from..m + 1 : ~Occurs(part, path, at)
            /\ x # 0 => /\ x - Len(part) \in from..m + 1
                        /\ Occurs(part, path, x - Len(part))
                        /\ \A at \in from..m + 1 :
                             Occurs(part, path, at) => x <= at + Len(part)
<1> DEFINE m == Len(path)
           w == Len(part)
           found == {at \in from..m + 1 : Occurs(part, path, at)}
           least == CHOOSE at \in found : \A other \in found : at <= other
           x == AfterFirst(part, path, from)
<1>1. m \in Nat /\ w \in Nat /\ from \in 1..m + 1
  OBVIOUS
<1>2. x = IF found = {} THEN 0 ELSE least + w
  BY DEF AfterFirst
<1>3. found \in SUBSET Nat /\ found \subseteq from..m + 1
  <2>1. found \subseteq from..m + 1
    OBVIOUS
  <2>2. from..m + 1 \subseteq Nat
    BY <1>1
  <2> HIDE DEF found
  <2> QED BY <2>1, <2>2
<1>4. \A at \in found : Occurs(part, path, at)
  OBVIOUS
<1>5. \A at \in from..m + 1 : Occurs(part, path, at) => at \in found
  OBVIOUS
<1>6. \A at \in found : at + w <= m + 1
  BY <1>4 DEF Occurs
<1> HIDE DEF x, found, w, m
<1>7. CASE found = {}
  BY <1>1, <1>2, <1>5, <1>7 DEF x, m
<1>8. CASE found # {}
  <2>1. \E at \in found : \A other \in found : at <= other
    BY <1>3, <1>8, LeastIs
  <2>2. least \in found /\ \A other \in found : least <= other
    BY <2>1
  <2> HIDE DEF least
  <2>3. x = least + w /\ least \in from..m + 1 /\ least + w <= m + 1
    BY <1>2, <1>3, <1>6, <1>8, <2>2
  <2>4. x - w = least /\ x \in 1..m + 1
    BY <1>1, <2>3
  <2>5. Occurs(part, path, x - w)
    BY <1>4, <2>2, <2>4
  <2>6. \A at \in from..m + 1 : Occurs(part, path, at) => x <= at + w
    <3> TAKE at \in from..m + 1
    <3>1. Occurs(part, path, at) => least <= at
      BY <1>5, <2>2
    <3> QED BY <1>1, <2>3, <3>1
  <2> QED BY <2>3, <2>4, <2>5, <2>6 DEF x, w, m
<1> QED BY <1>7, <1>8

(* What is left of a path after a round of the search. *)
RestAfter(parts, path, j, x) ==
  IF j = 1 THEN IF Occurs(parts[1], path, 1) THEN Len(parts[1]) + 1 ELSE 0
  ELSE IF x = 0 THEN 0 ELSE AfterFirst(parts[j], path, x)

(* The rests of a path are the loop of the matcher. *)
LEMMA RestsAre ==
  ASSUME NEW Y, NEW path \in Seq(Y), NEW s \in Nat, NEW parts, Len(parts) = s + 1,
         \A j \in 1..s + 1 : Len(parts[j]) \in Nat
  PROVE  LET r == Rests(parts, path)
         IN /\ r \in [0..s -> 0..Len(path) + 1] /\ r[0] = 1
            /\ \A j \in 1..s : r[j] = RestAfter(parts, path, j, r[j - 1])
<1> DEFINE m == Len(path)
           S == 0..m + 1
           Nx(j, x) == RestAfter(parts, path, j, x)
           step == [j \in 1..s |-> [x \in S |-> Nx(j, x)]]
           Body(g) == [j \in 0..s |-> IF j = 0 THEN 1 ELSE Nx(j, g[j - 1])]
           rest == CHOOSE g : g = Body(g)
<1>1. Rests(parts, path) = rest
  <2>1. (s + 1) - 1 = s
    OBVIOUS
  <2> QED BY <2>1 DEF Rests, RestAfter
<1> HIDE DEF rest
<1>2. m \in Nat
  OBVIOUS
<1>3. ASSUME NEW j \in 1..s, NEW x \in S PROVE Nx(j, x) \in S
  <2>1. j \in 1..s + 1 /\ 1 \in 1..s + 1
    OBVIOUS
  <2>2. CASE j = 1
    <3>1. Nx(j, x) = IF Occurs(parts[1], path, 1) THEN Len(parts[1]) + 1 ELSE 0
      BY <2>2 DEF RestAfter
    <3>2. Len(parts[1]) \in Nat
      BY <2>1
    <3>3. Occurs(parts[1], path, 1) => 1 + Len(parts[1]) <= m + 1
      BY DEF Occurs
    <3> HIDE DEF m, Nx
    <3> QED BY <1>2, <3>1, <3>2, <3>3
  <2>3. CASE j # 1
    <3>1. Nx(j, x) = IF x = 0 THEN 0 ELSE AfterFirst(parts[j], path, x)
      BY <2>3 DEF RestAfter
    <3>2. x # 0 => AfterFirst(parts[j], path, x) \in S
      <4> SUFFICES ASSUME x # 0 PROVE AfterFirst(parts[j], path, x) \in S
        OBVIOUS
      <4>1. x \in 1..Len(path) + 1 /\ Len(parts[j]) \in Nat
        BY <2>1
      <4> QED BY <4>1, AfterFirstIs
    <3>3. 0 \in S
      BY <1>2
    <3> HIDE DEF S, Nx
    <3> QED BY <3>1, <3>2, <3>3
  <2> QED BY <2>2, <2>3
<1> HIDE DEF Nx
<1>4. step \in [1..s -> [S -> S]]
  <2> HIDE DEF S
  <2> QED BY <1>3
<1>5. PICK f : IsLoop(f, s, S, 1, step)
  <2>1. 1 \in S
    BY <1>2
  <2> HIDE DEF step, S
  <2> QED BY <1>4, <2>1, TraceExists
<1>6. /\ f \in [0..s -> S] /\ f[0] = 1
      /\ \A j \in 1..s : f[j] = Nx(j, f[j - 1])
  <2>1. /\ f \in [0..s -> S] /\ f[0] = 1
        /\ \A j \in 1..s : f[j] = step[j][f[j - 1]]
    <3> HIDE DEF step
    <3> QED BY <1>5 DEF IsLoop
  <2>2. \A j \in 1..s : f[j - 1] \in S
    <3> HIDE DEF S
    <3> QED BY <2>1
  <2> HIDE DEF S
  <2> QED BY <2>1, <2>2
<1> HIDE DEF step, S
<1>7. f = Body(f)
  <2>1. \A j \in 0..s : f[j] = IF j = 0 THEN 1 ELSE Nx(j, f[j - 1])
    <3> TAKE j \in 0..s
    <3>1. j = 0 \/ j \in 1..s
      OBVIOUS
    <3> QED BY <1>6, <3>1
  <2> QED BY <1>6, <2>1
<1>8. rest = Body(rest)
  <2> HIDE DEF Body
  <2> QED BY <1>7 DEF rest
<1>9. rest = f
  <2> DEFINE U == {j \in 0..s : rest[j] = f[j]}
  <2>1. 0 \in U
    BY <1>6, <1>8
  <2>2. ASSUME NEW j \in 1..s, j - 1 \in U PROVE j \in U
    <3>1. rest[j] = Nx(j, rest[j - 1]) /\ f[j] = Nx(j, f[j - 1])
      BY <1>6, <1>8
    <3> QED BY <2>2, <3>1
  <2> HIDE DEF U
  <2>3. 0..s \subseteq U
    BY <2>1, <2>2, Upwards
  <2>4. \A j \in 0..s : rest[j] = f[j]
    BY <2>3 DEF U
  <2>5. DOMAIN rest = 0..s /\ rest = [j \in DOMAIN rest |-> rest[j]]
    BY <1>8
  <2> QED BY <1>6, <2>4, <2>5
<1> QED BY <1>1, <1>6, <1>9 DEF Nx, S

(* Wherever the parts can be placed, the search finds places for them:
   it never ends a part later than they do. *)
LEMMA PlacedIsFound ==
  ASSUME NEW Y, NEW path \in Seq(Y), NEW s \in Nat \ {0}, NEW parts, Len(parts) = s + 1,
         \A j \in 1..s + 1 : Len(parts[j]) \in Nat,
         NEW begin, Placed(begin, parts, path, s)
  PROVE  Rests(parts, path)[s] # 0 /\ HasSuffix(path, Rests(parts, path)[s], parts[s + 1])
<1> DEFINE m == Len(path)
           r == Rests(parts, path)
           T == {j \in 0..s : j # 0 => r[j] # 0 /\ r[j] <= begin[j] + Len(parts[j])}
<1>1. m \in Nat
  OBVIOUS
<1>2. /\ r \in [0..s -> 0..m + 1] /\ r[0] = 1
      /\ \A j \in 1..s : r[j] = RestAfter(parts, path, j, r[j - 1])
  BY RestsAre
<1> HIDE DEF r
<1>3. \A j \in 1..s + 1 :
        /\ begin[j] \in 1..m + 1 /\ Len(parts[j]) \in Nat
        /\ Occurs(parts[j], path, begin[j])
  BY DEF Placed
<1>4. /\ begin[1] = 1
      /\ \A j \in 1..s : begin[j] + Len(parts[j]) <= begin[j + 1]
      /\ begin[s + 1] + Len(parts[s + 1]) = m + 1
  BY DEF Placed
<1> HIDE DEF m
<1>5. 0 \in T
  OBVIOUS
<1>6. ASSUME NEW j \in 1..s, j - 1 \in T PROVE j \in T
  <2>1. j \in 1..s + 1 /\ j \in 0..s
    OBVIOUS
  <2>2. CASE j = 1
    <3>1. r[j] = Len(parts[1]) + 1
      BY <1>2, <1>3, <1>4, <2>1, <2>2 DEF RestAfter
    <3>2. Len(parts[1]) \in Nat
      BY <1>3, <2>1, <2>2
    <3> QED BY <1>4, <2>1, <2>2, <3>1, <3>2
  <2>3. CASE j # 1
    <3> DEFINE k == j - 1
    <3>1. k \in 1..s /\ k \in 1..s + 1 /\ k + 1 = j
      BY <2>1, <2>3
    <3>2. r[k] # 0 /\ r[k] <= begin[k] + Len(parts[k])
      BY <1>6, <3>1
    <3>3. begin[k] + Len(parts[k]) <= begin[j]
      BY <1>4, <3>1
    <3>4. r[k] \in 1..m + 1
      <4>1. r[k] \in 0..m + 1
        <5>1. k \in 0..s
          BY <3>1
        <5> HIDE DEF k
        <5> QED BY <1>2, <5>1
      <4> QED BY <1>1, <3>2, <4>1
    <3>5. r[j] = AfterFirst(parts[j], path, r[k])
      <4>1. r[j] = RestAfter(parts, path, j, r[k])
        BY <1>2
      <4> HIDE DEF k
      <4> QED BY <2>3, <3>2, <4>1 DEF RestAfter
    <3> HIDE DEF k
    <3>6. begin[j] \in r[k]..m + 1
      <4>1. begin[k] \in 1..m + 1 /\ begin[j] \in 1..m + 1 /\ Len(parts[k]) \in Nat
        BY <1>3, <2>1, <3>1
      <4> DEFINE x == r[k]
                 y == begin[k]
                 z == begin[j]
                 w == Len(parts[k])
      <4>2. /\ x \in 1..m + 1 /\ y \in 1..m + 1 /\ z \in 1..m + 1 /\ w \in Nat
            /\ x <= y + w /\ y + w <= z
        BY <3>2, <3>3, <3>4, <4>1
      <4> HIDE DEF x, y, z, w
      <4>3. z \in x..m + 1
        BY <1>1, <4>2
      <4> QED BY <4>3 DEF z, x
    <3> DEFINE x == AfterFirst(parts[j], path, r[k])
    <3>7. /\ x = 0 => \A at \in r[k]..m + 1 : ~Occurs(parts[j], path, at)
          /\ x # 0 => \A at \in r[k]..m + 1 :
                        Occurs(parts[j], path, at) => x <= at + Len(parts[j])
      <4> DEFINE part == parts[j]
                 z == r[k]
      <4>1. Len(part) \in Nat /\ z \in 1..Len(path) + 1
        BY <1>3, <2>1, <3>4 DEF m
      <4> HIDE DEF part, z
      <4>2. LET y == AfterFirst(part, path, z)
            IN /\ y = 0 => \A at \in z..Len(path) + 1 : ~Occurs(part, path, at)
               /\ y # 0 => \A at \in z..Len(path) + 1 :
                             Occurs(part, path, at) => y <= at + Len(part)
        BY <4>1, AfterFirstIs
      <4> QED BY <4>2 DEF part, z, m
    <3>8. Occurs(parts[j], path, begin[j])
      BY <1>3, <2>1
    <3>9. x # 0 /\ x <= begin[j] + Len(parts[j])
      BY <3>6, <3>7, <3>8
    <3> QED BY <2>1, <3>5, <3>9
  <2> QED BY <2>2, <2>3
<1>7. s \in T
  <2> HIDE DEF T
  <2>1. 0..s \subseteq T
    BY <1>5, <1>6, Upwards
  <2> QED BY <2>1
<1>8. r[s] # 0 /\ r[s] <= begin[s] + Len(parts[s]) /\ s \in 1..s /\ s \in 1..s + 1
  BY <1>7
<1>9. r[s] <= begin[s + 1]
  <2>1. /\ begin[s] + Len(parts[s]) <= begin[s + 1] /\ r[s] \in 0..m + 1
        /\ begin[s] \in 1..m + 1 /\ begin[s + 1] \in 1..m + 1 /\ Len(parts[s]) \in Nat
    BY <1>2, <1>3, <1>4, <1>8
  <2> QED BY <1>1, <1>8, <2>1
<1>10. HasSuffix(path, r[s], parts[s + 1])
  <2> DEFINE b == begin[s + 1]
             w == Len(parts[s + 1])
  <2>1. b \in 1..m + 1 /\ w \in Nat /\ b + w = m + 1 /\ r[s] \in 0..m + 1 /\ r[s] <= b
        /\ Occurs(parts[s + 1], path, b)
    BY <1>2, <1>3, <1>4, <1>8, <1>9
  <2> HIDE DEF b
  <2>2. r[s] + w <= m + 1 /\ m + 1 - w = b
    <3> HIDE DEF w
    <3> QED BY <1>1, <2>1
  <2> QED BY <2>1, <2>2 DEF HasSuffix, m
<1> QED BY <1>8, <1>10 DEF r

(* What the search finds are places for the parts. *)
LEMMA FoundIsPlaced ==
  ASSUME NEW Y, NEW path \in Seq(Y), NEW s \in Nat \ {0}, NEW parts, Len(parts) = s + 1,
         \A j \in 1..s + 1 : Len(parts[j]) \in Nat,
         Rests(parts, path)[s] # 0, HasSuffix(path, Rests(parts, path)[s], parts[s + 1])
  PROVE  \E begin : Placed(begin, parts, path, s)
<1> DEFINE m == Len(path)
           r == Rests(parts, path)
           w(j) == Len(parts[j])
           begin == [j \in 1..s + 1 |-> IF j = s + 1 THEN m + 1 - w(j) ELSE r[j] - w(j)]
<1>1. m \in Nat /\ \A j \in 1..s + 1 : w(j) \in Nat
  OBVIOUS
<1>2. /\ r \in [0..s -> 0..m + 1] /\ r[0] = 1
      /\ \A j \in 1..s : r[j] = RestAfter(parts, path, j, r[j - 1])
  BY RestsAre
<1>3. r[s] # 0 /\ HasSuffix(path, r[s], parts[s + 1])
  OBVIOUS
<1> HIDE DEF r
<1>4. ASSUME NEW j \in 1..s PROVE r[j] # 0 /\ r[j] \in 1..m + 1
  <2> SUFFICES ASSUME r[j] = 0 PROVE FALSE
    <3>1. r[j] \in 0..m + 1
      BY <1>2
    <3> HIDE DEF m
    <3> QED BY <1>1, <3>1
  <2> DEFINE T == {k \in 0..s : k < j \/ r[k] = 0}
  <2>1. 0 \in T
    OBVIOUS
  <2>2. ASSUME NEW k \in 1..s, k - 1 \in T PROVE k \in T
    <3>1. CASE k < j \/ k = j
      BY <3>1
    <3>2. CASE k > j
      <4>1. k # 1 /\ r[k - 1] = 0
        BY <2>2, <3>2
      <4>2. r[k] = RestAfter(parts, path, k, r[k - 1])
        BY <1>2
      <4>3. r[k] = 0
        BY <4>1, <4>2 DEF RestAfter
      <4> QED BY <4>3
    <3> QED BY <3>1, <3>2
  <2> HIDE DEF T
  <2>3. 0..s \subseteq T
    BY <2>1, <2>2, Upwards
  <2>4. s \in T
    BY <2>3
  <2> QED BY <1>3, <2>4 DEF T
<1>5. ASSUME NEW j \in 1..s, j # 1
      PROVE  /\ r[j - 1] \in 1..m + 1
             /\ r[j] - w(j) \in r[j - 1]..m + 1 /\ Occurs(parts[j], path, r[j] - w(j))
  <2> DEFINE part == parts[j]
             z == r[j - 1]
  <2>1. j - 1 \in 1..s /\ j \in 1..s + 1
    BY <1>5
  <2>2. z \in 1..m + 1 /\ z # 0 /\ Len(part) \in Nat
    BY <1>1, <1>4, <2>1
  <2>3. r[j] = AfterFirst(part, path, z) /\ r[j] # 0
    <3>1. r[j] = RestAfter(parts, path, j, z)
      BY <1>2
    <3> HIDE DEF z
    <3> QED BY <1>4, <1>5, <2>2, <3>1 DEF RestAfter
  <2> HIDE DEF part, z
  <2>4. LET y == AfterFirst(part, path, z)
        IN y # 0 => y - Len(part) \in z..Len(path) + 1 /\ Occurs(part, path, y - Len(part))
    BY <2>2, AfterFirstIs
  <2> QED BY <2>2, <2>3, <2>4 DEF part, z
<1>6. /\ r[1] - w(1) = 1 /\ Occurs(parts[1], path, 1) /\ 1 \in 1..m + 1
  <2>1. 1 \in 1..s /\ 1 \in 1..s + 1
    OBVIOUS
  <2>2. r[1] = RestAfter(parts, path, 1, r[0]) /\ r[1] # 0
    BY <1>2, <1>4, <2>1
  <2>3. r[1] = w(1) + 1 /\ Occurs(parts[1], path, 1)
    BY <2>2 DEF RestAfter
  <2>4. w(1) \in Nat
    BY <1>1, <2>1
  <2> HIDE DEF w, m
  <2> QED BY <1>1, <2>3, <2>4
<1>7. /\ r[s] + w(s + 1) <= m + 1 /\ Occurs(parts[s + 1], path, m + 1 - w(s + 1))
  BY <1>3 DEF HasSuffix
<1>8. s + 1 \in 1..s + 1 /\ w(s + 1) \in Nat /\ r[s] \in 1..m + 1
  BY <1>1, <1>4
<1>9. m + 1 - w(s + 1) \in r[s]..m + 1 /\ m + 1 - w(s + 1) \in 1..m + 1
  <2> DEFINE v == w(s + 1)
  <2>1. r[s] + v <= m + 1 /\ v \in Nat /\ r[s] \in 1..m + 1
    BY <1>7, <1>8
  <2> HIDE DEF v, m
  <2>2. m + 1 - v \in r[s]..m + 1 /\ m + 1 - v \in 1..m + 1
    BY <1>1, <2>1
  <2> QED BY <2>2 DEF v
<1>10. \A j \in 1..s : r[j] - w(j) \in 1..m + 1 /\ Occurs(parts[j], path, r[j] - w(j))
  <2> TAKE j \in 1..s
  <2>1. CASE j = 1
    BY <1>6, <2>1
  <2>2. CASE j # 1
    <3>1. /\ r[j - 1] \in 1..m + 1
          /\ r[j] - w(j) \in r[j - 1]..m + 1 /\ Occurs(parts[j], path, r[j] - w(j))
      BY <1>5, <2>2
    <3> DEFINE x == r[j] - w(j)
    <3>2. x \in r[j - 1]..m + 1
      BY <3>1
    <3> HIDE DEF x, m
    <3>3. x \in 1..m + 1
      BY <1>1, <3>1, <3>2
    <3> QED BY <3>1, <3>3 DEF x, m
  <2> QED BY <2>1, <2>2
<1> HIDE DEF m, w
<1>11. begin \in [1..s + 1 -> 1..m + 1]
  <2>1. \A j \in 1..s + 1 : (IF j = s + 1 THEN m + 1 - w(j) ELSE r[j] - w(j)) \in 1..m + 1
    <3> TAKE j \in 1..s + 1
    <3>1. j = s + 1 \/ j \in 1..s
      OBVIOUS
    <3> QED BY <1>9, <1>10, <3>1
  <2> QED BY <2>1
<1>12. \A j \in 1..s : begin[j] = r[j] - w(j)
  OBVIOUS
<1>13. begin[s + 1] = m + 1 - w(s + 1)
  OBVIOUS
<1> HIDE DEF begin
<1>14. begin[1] = 1
  BY <1>6, <1>12
<1>15. ASSUME NEW j \in 1..s PROVE begin[j] + w(j) <= begin[j + 1]
  <2>1. r[j] \in 1..m + 1 /\ w(j) \in Nat
    BY <1>1, <1>4 DEF w
  <2>2. begin[j] + w(j) = r[j]
    BY <1>1, <1>12, <2>1
  <2>3. CASE j = s
    BY <1>1, <1>9, <1>13, <2>1, <2>2, <2>3
  <2>4. CASE j # s
    <3> DEFINE k == j + 1
    <3>1. k \in 1..s /\ k # 1 /\ k - 1 = j
      BY <2>4
    <3>2. r[k] - w(k) \in r[j]..m + 1 /\ begin[k] = r[k] - w(k)
      <4> HIDE DEF k
      <4>1. r[k] - w(k) \in r[k - 1]..m + 1
        BY <1>5, <3>1 DEF w, m
      <4> QED BY <1>12, <3>1, <4>1
    <3> HIDE DEF k
    <3>3. r[j] <= begin[k]
      BY <1>1, <2>1, <3>2
    <3> QED BY <2>2, <3>3 DEF k
  <2> QED BY <2>3, <2>4
<1>16. begin[s + 1] + w(s + 1) = m + 1
  BY <1>1, <1>8, <1>13
<1>17. \A j \in 1..s + 1 : Occurs(parts[j], path, begin[j])
  <2> TAKE j \in 1..s + 1
  <2>1. j = s + 1 \/ j \in 1..s
    OBVIOUS
  <2> QED BY <1>7, <1>10, <1>12, <1>13, <2>1 DEF w, m
<1>18. Placed(begin, parts, path, s)
  BY <1>11, <1>14, <1>15, <1>16, <1>17 DEF Placed, m, w
<1> QED BY <1>18

(* A pattern without a star is its own only path. *)
LEMMA PlainIsItself ==
  ASSUME NEW X, NEW pattern \in Seq(X), NEW Y, NEW path \in Seq(Y), NEW c, NEW parts,
         AreCuts(c, Stars(pattern), Len(pattern), 0), AreParts(parts, c, pattern, 0)
  PROVE  path = pattern <=> \E begin : Placed(begin, parts, path, 0)
<1> DEFINE n == Len(pattern)
           m == Len(path)
<1>1. n \in Nat /\ m \in Nat
  OBVIOUS
<1>2. c[0] = 0 /\ c[1] = n + 1
  BY DEF AreCuts
<1>3. Len(parts[1]) = n /\ \A k \in 1..n : parts[1][k] = pattern[k]
  <2>1. /\ Len(parts[1]) = c[1] - c[1 - 1] - 1
        /\ \A k \in 1..Len(parts[1]) : parts[1][k] = pattern[c[1 - 1] + k]
    BY DEF AreParts
  <2>2. Len(parts[1]) = n
    BY <1>1, <1>2, <2>1
  <2>3. \A k \in 1..n : c[1 - 1] + k = k
    BY <1>2
  <2> QED BY <2>1, <2>2, <2>3
<1>4. ASSUME path = pattern PROVE \E begin : Placed(begin, parts, path, 0)
  <2> DEFINE begin == [j \in 1..1 |-> 1]
  <2>1. Occurs(parts[1], path, 1)
    <3>1. \A k \in 1..n : 1 + k - 1 = k
      OBVIOUS
    <3> QED BY <1>1, <1>3, <1>4, <3>1 DEF Occurs
  <2>2. Placed(begin, parts, path, 0)
    BY <1>1, <1>3, <1>4, <2>1 DEF Placed
  <2> QED BY <2>2
<1>5. ASSUME NEW begin, Placed(begin, parts, path, 0) PROVE path = pattern
  <2>1. begin[1] = 1 /\ begin[1] + n = m + 1 /\ Occurs(parts[1], path, begin[1])
    BY <1>3, <1>5 DEF Placed
  <2>2. n = m
    BY <1>1, <2>1
  <2>3. \A k \in 1..n : path[k] = pattern[k]
    <3> TAKE k \in 1..n
    <3>1. path[1 + k - 1] = parts[1][k]
      BY <1>3, <2>1 DEF Occurs
    <3> QED BY <1>3, <3>1
  <2>4. /\ DOMAIN path = 1..m /\ DOMAIN pattern = 1..n
        /\ path = [k \in DOMAIN path |-> path[k]]
        /\ pattern = [k \in DOMAIN pattern |-> pattern[k]]
    OBVIOUS
  <2> HIDE DEF n, m
  <2> QED BY <2>2, <2>3, <2>4
<1> QED BY <1>4, <1>5

(* The literal prefix of a pattern is its first part. *)
LEMMA PrefixIs ==
  ASSUME NEW X, NEW pattern \in Seq(X), NEW s \in Nat, NEW c, NEW parts,
         AreCuts(c, Stars(pattern), Len(pattern), s), AreParts(parts, c, pattern, s)
  PROVE  Len(parts[1]) = Cardinality(LiteralPrefix(pattern))
<1> DEFINE n == Len(pattern)
           stars == Stars(pattern)
           w == c[1] - 1
<1>1. n \in Nat /\ DOMAIN pattern = 1..n /\ stars = {i \in 1..n : pattern[i] = Star}
  BY DEF Stars
<1> HIDE DEF n, stars
<1>2. /\ c[0] = 0 /\ c[1] \in 1..n + 1
      /\ s = 0 => c[1] = n + 1
      /\ s # 0 => c[1] \in stars
      /\ \A i \in stars : c[1] <= i
  <2>1. AreCuts(c, stars, n, s) /\ 1 \in 1..s + 1 /\ 1 \in 0..s + 1 /\ 1 - 1 = 0
    BY DEF n, stars
  <2>2. c[0] = 0 /\ c[1] \in 0..n + 1 /\ c[0] < c[1]
    BY <2>1 DEF AreCuts
  <2>3. \A i \in stars : c[0] < i => c[1] <= i
    BY <2>1 DEF AreCuts
  <2>4. s = 0 => c[1] = n + 1
    BY <2>1 DEF AreCuts
  <2>5. s # 0 => c[1] \in stars
    <3>1. s # 0 => 1 \in 1..s
      OBVIOUS
    <3> QED BY <2>1, <3>1 DEF AreCuts
  <2> QED BY <1>1, <2>2, <2>3, <2>4, <2>5
<1>3. Len(parts[1]) = w
  <2>1. Len(parts[1]) = c[1] - c[1 - 1] - 1
    BY DEF AreParts
  <2>2. c[1 - 1] = 0
    BY <1>2
  <2> QED BY <1>2, <2>1, <2>2
<1>4. LiteralPrefix(pattern) = 1..w
  <2>1. LiteralPrefix(pattern) = {i \in 1..n : \A k \in 1..i : k \notin stars}
    <3>1. \A i \in 1..n : \A k \in 1..i : k \in 1..n
      BY <1>1
    <3>2. \A i \in 1..n : (\A k \in 1..i : pattern[k] # Star) <=> (\A k \in 1..i : k \notin stars)
      BY <1>1, <3>1
    <3>3. LiteralPrefix(pattern) = {i \in 1..n : \A k \in 1..i : pattern[k] # Star}
      BY <1>1 DEF LiteralPrefix
    <3> QED BY <3>2, <3>3
  <2>2. ASSUME NEW i \in 1..n, \A k \in 1..i : k \notin stars PROVE i \in 1..w
    <3>1. c[1] = n + 1 \/ c[1] \notin 1..i
      BY <1>2, <2>2
    <3> QED BY <1>1, <1>2, <3>1
  <2>3. ASSUME NEW i \in 1..w, NEW k \in 1..i PROVE k \notin stars /\ i \in 1..n
    BY <1>1, <1>2
  <2>4. ASSUME NEW i \in 1..w PROVE i \in 1..n
    BY <1>1, <1>2
  <2> QED BY <2>1, <2>2, <2>3, <2>4
<1>5. w \in Nat
  BY <1>2
<1>6. Cardinality(1..w) = w
  <2> HIDE DEF w
  <2>1. Cardinality(1..w) = IF 1 > w THEN 0 ELSE w - 1 + 1
    BY <1>5, FS_Interval
  <2> QED BY <1>5, <2>1
<1> QED BY <1>3, <1>4, <1>6

(* The glob matcher answers whether a path is in the language of a pattern. *)
LEMMA GlobIs ==
  ASSUME NEW X, NEW pattern \in Seq(X), NEW Y, NEW path \in Seq(Y)
  PROVE  LET g == MatchPathGlob(pattern, path)
         IN /\ g.ok \in BOOLEAN
            /\ g.ok <=> pattern = <<>> \/ InLanguage(pattern, path)
            /\ g.ok => g.literal = Cardinality(LiteralPrefix(pattern))
            /\ Cardinality(LiteralPrefix(pattern)) \in Nat
<1> DEFINE n == Len(pattern)
           s == Cardinality(Stars(pattern))
           c == Cuts(pattern)
           parts == Split(pattern)
           rest == Rests(parts, path)[s]
           found == \/ pattern = <<>>
                    \/ s = 0 /\ path = pattern
                    \/ s # 0 /\ rest # 0 /\ HasSuffix(path, rest, parts[s + 1])
           g == MatchPathGlob(pattern, path)
<1>1. n \in Nat /\ s \in Nat /\ AreCuts(c, Stars(pattern), n, s)
  BY CutsAre
<1>2. AreParts(parts, c, pattern, s)
  BY SplitIs
<1> HIDE DEF s, c, parts, n
<1>3. Len(parts) = s + 1 /\ \A j \in 1..s + 1 : Len(parts[j]) \in Nat
  BY <1>2 DEF AreParts
<1>4. Len(parts[1]) = Cardinality(LiteralPrefix(pattern)) /\ Len(parts[1]) \in Nat
  <2>1. Len(parts[1]) = Cardinality(LiteralPrefix(pattern))
    BY <1>1, <1>2, PrefixIs DEF n
  <2>2. 1 \in 1..s + 1
    BY <1>1
  <2> QED BY <1>3, <2>1, <2>2
<1>5. (\E begin : Placed(begin, parts, path, s)) <=> InLanguage(pattern, path)
  <2>1. ASSUME NEW begin, Placed(begin, parts, path, s) PROVE InLanguage(pattern, path)
    BY <1>1, <1>2, <2>1, PlacedIsMatch DEF n
  <2>2. ASSUME InLanguage(pattern, path) PROVE \E begin : Placed(begin, parts, path, s)
    BY <1>1, <1>2, <2>2, MatchIsPlaced DEF n
  <2> QED BY <2>1, <2>2
<1>7. found <=> pattern = <<>> \/ InLanguage(pattern, path)
  <2>1. CASE s = 0
    <3>1. AreCuts(c, Stars(pattern), Len(pattern), 0) /\ AreParts(parts, c, pattern, 0)
      BY <1>1, <1>2, <2>1 DEF n
    <3>2. path = pattern <=> \E begin : Placed(begin, parts, path, 0)
      BY <3>1, PlainIsItself
    <3> QED BY <1>5, <2>1, <3>2
  <2>2. CASE s # 0
    <3>1. s \in Nat \ {0}
      BY <1>1, <2>2
    <3>2. ASSUME NEW begin, Placed(begin, parts, path, s)
          PROVE  rest # 0 /\ HasSuffix(path, rest, parts[s + 1])
      BY <1>3, <3>1, <3>2, PlacedIsFound
    <3>3. ASSUME rest # 0, HasSuffix(path, rest, parts[s + 1])
          PROVE  \E begin : Placed(begin, parts, path, s)
      BY <1>3, <3>1, <3>3, FoundIsPlaced
    <3> HIDE DEF rest
    <3> QED BY <1>5, <2>2, <3>2, <3>3
  <2> QED BY <2>1, <2>2
<1>8. g = IF found THEN [ok |-> TRUE, literal |-> Len(parts[1])] ELSE NoMatch
  <2>1. Len(parts) - 1 = s /\ (Len(parts) = 1 <=> s = 0) /\ (Len(parts) > 1 <=> s # 0)
    BY <1>1, <1>3
  <2>2. g = IF \/ pattern = <<>>
               \/ Len(parts) = 1 /\ path = pattern
               \/ /\ Len(parts) > 1 /\ Rests(parts, path)[Len(parts) - 1] # 0
                  /\ HasSuffix(path, Rests(parts, path)[Len(parts) - 1], parts[Len(parts)])
            THEN [ok |-> TRUE, literal |-> Len(parts[1])] ELSE NoMatch
    BY DEF MatchPathGlob, parts
  <2> HIDE DEF g
  <2> QED BY <1>3, <2>1, <2>2
<1> HIDE DEF found, g
<1>9. /\ g.ok \in BOOLEAN /\ (g.ok <=> found) /\ (found => g.literal = Len(parts[1]))
  BY <1>8 DEF NoMatch
<1> QED BY <1>4, <1>7, <1>9 DEF g, found

(* A host pattern matches its own labels, or one label more under "*.". *)
HostMeets(pattern, host) ==
  IF ~pattern.wild THEN pattern.labels = host
  ELSE \E label \in Labels : host = <<label>> \o pattern.labels

(* The host matcher answers whether a host pattern matches. *)
LEMMA HostIs ==
  ASSUME NEW pattern \in [wild : BOOLEAN, labels : Seq(Labels)], NEW host \in Seq(Labels)
  PROVE  LET h == MatchHostPattern(pattern, host)
         IN /\ h.ok \in BOOLEAN /\ (h.ok <=> HostMeets(pattern, host))
            /\ h.ok => h.tier = IF pattern.wild THEN 1 ELSE 2
<1>1. pattern.wild \in BOOLEAN /\ pattern.labels \in Seq(Labels)
  OBVIOUS
<1>2. host # <<>> /\ Tail(host) = pattern.labels
      <=> \E label \in Labels : host = <<label>> \o pattern.labels
  <2> DEFINE labels == pattern.labels
  <2>1. labels \in Seq(Labels)
    BY <1>1
  <2> HIDE DEF labels
  <2>2. ASSUME host # <<>>, Tail(host) = labels
        PROVE  \E label \in Labels : host = <<label>> \o labels
    <3>1. host[1] \in Labels /\ Len(host) \in Nat /\ Len(host) > 0
      BY <2>2
    <3>2. Len(labels) = Len(host) - 1 /\ \A i \in 1..Len(labels) : labels[i] = host[i + 1]
      <4>1. Len(Tail(host)) = Len(host) - 1
        BY <3>1
      <4>2. \A i \in 1..Len(host) - 1 : Tail(host)[i] = host[i + 1]
        BY <3>1
      <4> QED BY <2>2, <4>1, <4>2
    <3> DEFINE joined == <<host[1]>> \o labels
    <3>3. /\ joined \in Seq(Labels) /\ Len(joined) = Len(host)
          /\ joined[1] = host[1]
          /\ \A i \in 2..Len(host) : joined[i] = labels[i - 1]
      BY <2>1, <3>1, <3>2
    <3> HIDE DEF joined
    <3>4. \A i \in 1..Len(host) : joined[i] = host[i]
      <4> TAKE i \in 1..Len(host)
      <4>1. CASE i = 1
        BY <3>3, <4>1
      <4>2. CASE i # 1
        <5>1. i \in 2..Len(host) /\ i - 1 \in 1..Len(labels) /\ (i - 1) + 1 = i
          BY <3>1, <3>2, <4>2
        <5> QED BY <3>2, <3>3, <5>1
      <4> QED BY <4>1, <4>2
    <3>5. joined = host
      <4>1. /\ DOMAIN joined = 1..Len(joined) /\ joined = [i \in DOMAIN joined |-> joined[i]]
            /\ DOMAIN host = 1..Len(host) /\ host = [i \in DOMAIN host |-> host[i]]
        BY <3>3
      <4> QED BY <3>3, <3>4, <4>1
    <3> QED BY <3>1, <3>5 DEF joined
  <2>3. ASSUME NEW label \in Labels, host = <<label>> \o labels
        PROVE  host # <<>> /\ Tail(host) = labels
    <3>1. /\ Len(host) = Len(labels) + 1 /\ Len(labels) \in Nat
          /\ \A i \in 1..Len(labels) : host[i + 1] = labels[i]
      BY <2>1, <2>3
    <3>2. host # <<>>
      BY <3>1
    <3> DEFINE rest == Tail(host)
    <3>3. /\ rest \in Seq(Labels) /\ Len(rest) = Len(labels)
          /\ \A i \in 1..Len(labels) : rest[i] = host[i + 1]
      BY <3>1, <3>2
    <3> HIDE DEF rest
    <3>4. /\ DOMAIN rest = 1..Len(rest) /\ rest = [i \in DOMAIN rest |-> rest[i]]
          /\ DOMAIN labels = 1..Len(labels) /\ labels = [i \in DOMAIN labels |-> labels[i]]
      BY <2>1, <3>3
    <3>5. rest = labels
      BY <3>1, <3>3, <3>4
    <3> QED BY <3>2, <3>5 DEF rest
  <2> QED BY <2>2, <2>3 DEF labels
<1>3. HostMeets(pattern, host)
      <=> IF ~pattern.wild THEN pattern.labels = host
          ELSE host # <<>> /\ Tail(host) = pattern.labels
  BY <1>2 DEF HostMeets
<1> QED BY <1>1, <1>3 DEF MatchHostPattern, NoMatch, HostTierExact, HostTierWildcard

(* The best of the first i scores, the earlier one among equals. *)
Beats(score, a, b) ==
  \/ Better(score[a], score[b])
  \/ score[a].tier = score[b].tier /\ score[a].literal = score[b].literal /\ a < b

BestUpto(score, i, b) ==
  IF b = 0 THEN \A k \in 1..i : ~score[k].ok
  ELSE /\ b \in 1..i /\ score[b].ok
       /\ \A k \in 1..i \ {b} : score[k].ok => Beats(score, b, k)

NextBest(score, i, b) ==
  IF score[i].ok /\ (b = 0 \/ Better(score[i], score[b])) THEN i ELSE b

(* A round of the search keeps the best of what it has seen. *)
LEMMA BestStep ==
  ASSUME NEW n \in Nat, NEW score,
         \A k \in 1..n : /\ score[k].ok \in BOOLEAN
                         /\ score[k].ok => score[k].tier \in Nat /\ score[k].literal \in Nat,
         NEW i \in 1..n, NEW b \in 0..i - 1, BestUpto(score, i - 1, b)
  PROVE  NextBest(score, i, b) \in 0..i /\ BestUpto(score, i, NextBest(score, i, b))
<1>1. 1..i = (1..i - 1) \cup {i} /\ i \notin 1..i - 1
  OBVIOUS
<1>2. CASE ~score[i].ok
  <2>1. NextBest(score, i, b) = b
    BY <1>2 DEF NextBest
  <2>2. b = 0 \/ b # 0
    OBVIOUS
  <2> QED BY <1>1, <1>2, <2>1, <2>2 DEF BestUpto
<1>3. CASE score[i].ok /\ b = 0
  <2>1. NextBest(score, i, b) = i
    BY <1>3 DEF NextBest
  <2>2. \A k \in 1..i \ {i} : ~score[k].ok
    BY <1>1, <1>3 DEF BestUpto
  <2> QED BY <1>3, <2>1, <2>2 DEF BestUpto
<1>4. CASE score[i].ok /\ b # 0
  <2>1. /\ b \in 1..i - 1 /\ score[b].ok
        /\ \A k \in 1..i - 1 : k # b => (score[k].ok => Beats(score, b, k))
    BY <1>4 DEF BestUpto
  <2>2. \A k \in 1..i : score[k].ok => score[k].tier \in Nat /\ score[k].literal \in Nat
    OBVIOUS
  <2>3. CASE Better(score[i], score[b])
    <3>1. NextBest(score, i, b) = i
      BY <1>4, <2>3 DEF NextBest
    <3>2. ASSUME NEW k \in 1..i, k # i, score[k].ok PROVE Better(score[i], score[k])
      <4>1. k \in 1..i - 1
        BY <3>2
      <4>2. k = b \/ Beats(score, b, k)
        BY <2>1, <3>2, <4>1
      <4>3. /\ score[k].tier \in Nat /\ score[k].literal \in Nat
            /\ score[b].tier \in Nat /\ score[b].literal \in Nat
            /\ score[i].tier \in Nat /\ score[i].literal \in Nat
        BY <1>4, <2>1, <2>2, <3>2
      <4> QED BY <2>3, <4>2, <4>3 DEF Beats, Better
    <3>3. i \in 0..i /\ i \in 1..i /\ i # 0
      OBVIOUS
    <3>4. \A k \in 1..i \ {i} : score[k].ok => Beats(score, i, k)
      <4> TAKE k \in 1..i \ {i}
      <4>1. k \in 1..i /\ k # i
        OBVIOUS
      <4>2. score[k].ok => Better(score[i], score[k])
        BY <3>2, <4>1
      <4> QED BY <4>2, Zenon DEF Beats
    <3> HIDE DEF NextBest
    <3> QED BY <1>4, <3>1, <3>3, <3>4 DEF BestUpto
  <2>4. CASE ~Better(score[i], score[b])
    <3>1. NextBest(score, i, b) = b
      BY <1>4, <2>4 DEF NextBest
    <3>2. Beats(score, b, i)
      <4>1. /\ score[b].tier \in Nat /\ score[b].literal \in Nat
            /\ score[i].tier \in Nat /\ score[i].literal \in Nat /\ b < i
        BY <1>4, <2>1, <2>2
      <4> DEFINE tb == score[b].tier
                 lb == score[b].literal
                 ti == score[i].tier
                 li == score[i].literal
      <4>2. ~(ti > tb \/ (ti = tb /\ li > lb))
        BY <2>4 DEF Better
      <4>3. tb \in Nat /\ lb \in Nat /\ ti \in Nat /\ li \in Nat
        BY <4>1
      <4> HIDE DEF tb, lb, ti, li
      <4>4. tb > ti \/ (tb = ti /\ lb > li) \/ (tb = ti /\ lb = li)
        BY <4>2, <4>3
      <4>5. \/ Better(score[b], score[i])
            \/ score[b].tier = score[i].tier /\ score[b].literal = score[i].literal
        BY <4>4 DEF Better, tb, lb, ti, li
      <4>6. b < i
        BY <4>1
      <4> HIDE DEF Better
      <4> QED BY <4>5, <4>6 DEF Beats
    <3> QED BY <1>1, <1>4, <2>1, <3>1, <3>2 DEF BestUpto
  <2> QED BY <2>3, <2>4
<1> QED BY <1>2, <1>3, <1>4

(* What the rounds of the search leave, and that the last is the best. *)
IsSearch(f, score, n) ==
  /\ f \in [0..n -> 0..n] /\ f[0] = 0
  /\ \A i \in 1..n : f[i] = NextBest(score, i, f[i - 1])

(* The search over a list of scores exists. *)
LEMMA SearchExists ==
  ASSUME NEW n \in Nat, NEW score
  PROVE  \E f : IsSearch(f, score, n)
<1> DEFINE S == 0..n
           Nx(i, b) == NextBest(score, i, b)
           step == [i \in 1..n |-> [b \in S |-> Nx(i, b)]]
<1>1. \A i \in 1..n, b \in S : Nx(i, b) \in S
  BY DEF NextBest
<1>2. step \in [1..n -> [S -> S]]
  <2> HIDE DEF Nx, S
  <2> QED BY <1>1
<1>3. PICK f : IsLoop(f, n, S, 0, step)
  <2>1. 0 \in S
    OBVIOUS
  <2> HIDE DEF step, S
  <2> QED BY <1>2, <2>1, TraceExists
<1> HIDE DEF Nx
<1>4. /\ f \in [0..n -> S] /\ f[0] = 0
      /\ \A i \in 1..n : f[i] = step[i][f[i - 1]]
  <2> HIDE DEF step
  <2> QED BY <1>3 DEF IsLoop
<1>5. \A i \in 1..n : f[i - 1] \in S
  <2> HIDE DEF S
  <2> QED BY <1>4
<1> HIDE DEF S
<1>6. \A i \in 1..n : f[i] = Nx(i, f[i - 1])
  BY <1>4, <1>5
<1> QED BY <1>4, <1>6 DEF IsSearch, S, Nx

(* The last round of the search leaves the best score of the list. *)
LEMMA SearchIsBest ==
  ASSUME NEW n \in Nat, NEW score, NEW f, IsSearch(f, score, n),
         \A k \in 1..n : /\ score[k].ok \in BOOLEAN
                         /\ score[k].ok => score[k].tier \in Nat /\ score[k].literal \in Nat
  PROVE  BestUpto(score, n, f[n])
<1> DEFINE T == {i \in 0..n : f[i] \in 0..i /\ BestUpto(score, i, f[i])}
<1>1. 0 \in T
  BY DEF BestUpto, IsSearch
<1>2. ASSUME NEW i \in 1..n, i - 1 \in T PROVE i \in T
  <2> DEFINE b == f[i - 1]
  <2>1. f[i] = NextBest(score, i, b)
    BY DEF IsSearch
  <2>2. b \in 0..i - 1 /\ BestUpto(score, i - 1, b)
    BY <1>2
  <2> HIDE DEF b
  <2>3. NextBest(score, i, b) \in 0..i /\ BestUpto(score, i, NextBest(score, i, b))
    BY <2>2, BestStep
  <2> QED BY <2>1, <2>3
<1> HIDE DEF T
<1>3. 0..n \subseteq T
  BY <1>1, <1>2, Upwards
<1>4. n \in T
  BY <1>3
<1> QED BY <1>4 DEF T

(* MatchService answers with the best match of the list. *)
LEMMA MatchServiceIs ==
  ASSUME NEW host \in Seq(Labels), NEW path \in Seq(Chars),
         NEW services \in Seq([host : [wild : BOOLEAN, labels : Seq(Labels)],
                               path : Seq(Chars \cup {Star})])
  PROVE  LET score == [i \in 1..Len(services) |-> Score(services[i], host, path)]
         IN /\ BestUpto(score, Len(services), MatchService(host, path, services))
            /\ \A i \in 1..Len(services) :
                 /\ services[i].host.wild \in BOOLEAN
                 /\ score[i].ok \in BOOLEAN
                 /\ score[i].ok <=> /\ HostMeets(services[i].host, host)
                                    /\ \/ services[i].path = <<>>
                                       \/ InLanguage(services[i].path, path)
                 /\ score[i].ok =>
                      /\ score[i].tier = IF services[i].host.wild THEN 1 ELSE 2
                      /\ score[i].literal = Cardinality(LiteralPrefix(services[i].path))
                      /\ score[i].literal \in Nat
<1> DEFINE n == Len(services)
           score == [i \in 1..n |-> Score(services[i], host, path)]
<1>1. n \in Nat
  OBVIOUS
<1>2. ASSUME NEW i \in 1..n
      PROVE  /\ services[i].host.wild \in BOOLEAN
             /\ score[i].ok \in BOOLEAN
             /\ score[i].ok <=> /\ HostMeets(services[i].host, host)
                                /\ \/ services[i].path = <<>>
                                   \/ InLanguage(services[i].path, path)
             /\ score[i].ok =>
                  /\ score[i].tier = IF services[i].host.wild THEN 1 ELSE 2
                  /\ score[i].literal = Cardinality(LiteralPrefix(services[i].path))
                  /\ score[i].literal \in Nat
  <2> DEFINE p == services[i].host
             q == services[i].path
             h == MatchHostPattern(p, host)
             g == MatchPathGlob(q, path)
  <2>1. p \in [wild : BOOLEAN, labels : Seq(Labels)] /\ q \in Seq(Chars \cup {Star})
    <3>1. services[i] \in [host : [wild : BOOLEAN, labels : Seq(Labels)],
                           path : Seq(Chars \cup {Star})]
      <4> DEFINE R == [host : [wild : BOOLEAN, labels : Seq(Labels)],
                       path : Seq(Chars \cup {Star})]
      <4>1. services \in Seq(R) /\ i \in 1..Len(services)
        OBVIOUS
      <4> HIDE DEF R
      <4>2. services[i] \in R
        BY <4>1
      <4> QED BY <4>2 DEF R
    <3> QED BY <3>1
  <2>2. score[i] = Score(services[i], host, path)
    OBVIOUS
  <2>3. score[i] = IF h.ok /\ g.ok
                   THEN [ok |-> TRUE, tier |-> h.tier, literal |-> g.literal] ELSE NoMatch
    <3> HIDE DEF score, h, g
    <3> QED BY <2>2 DEF Score, h, g
  <2> HIDE DEF p, q, score
  <2>4. /\ h.ok \in BOOLEAN /\ (h.ok <=> HostMeets(p, host))
        /\ h.ok => h.tier = IF p.wild THEN 1 ELSE 2
    BY <2>1, HostIs
  <2>5. /\ g.ok \in BOOLEAN /\ (g.ok <=> q = <<>> \/ InLanguage(q, path))
        /\ g.ok => g.literal = Cardinality(LiteralPrefix(q))
        /\ Cardinality(LiteralPrefix(q)) \in Nat
    <3> DEFINE X == Chars \cup {Star}
    <3>1. q \in Seq(X)
      BY <2>1
    <3> HIDE DEF X
    <3> QED BY <3>1, GlobIs
  <2> HIDE DEF h, g
  <2>6. /\ score[i].ok \in BOOLEAN /\ (score[i].ok <=> h.ok /\ g.ok)
        /\ score[i].ok => score[i].tier = h.tier /\ score[i].literal = g.literal
    BY <2>3, <2>4, <2>5 DEF NoMatch
  <2>7. p.wild \in BOOLEAN
    BY <2>1
  <2> QED BY <2>4, <2>5, <2>6, <2>7 DEF p, q
<1>3. PICK f : IsSearch(f, score, n)
  <2> HIDE DEF score, n
  <2> QED BY <1>1, SearchExists
<1>4. MatchService(host, path, services) = f[n]
  <2> DEFINE one(i) == Score(services[i], host, path)
             Body(g) == [i \in 0..n |->
                 IF i = 0 THEN 0
                 ELSE IF one(i).ok /\ (g[i - 1] = 0 \/ Better(one(i), one(g[i - 1])))
                      THEN i ELSE g[i - 1]]
             best == CHOOSE g : g = Body(g)
  <2>1. MatchService(host, path, services) = best[n]
    BY DEF MatchService
  <2>2. \A i \in 1..n : score[i] = one(i)
    OBVIOUS
  <2> HIDE DEF best, score, n, one
  <2>3. /\ f \in [0..n -> 0..n] /\ f[0] = 0
        /\ \A i \in 1..n : f[i] = NextBest(score, i, f[i - 1])
    BY <1>3 DEF IsSearch
  <2>4. \A i \in 1..n : f[i] = IF one(i).ok /\ (f[i - 1] = 0 \/ Better(one(i), one(f[i - 1])))
                               THEN i ELSE f[i - 1]
    <3> TAKE i \in 1..n
    <3>1. f[i - 1] = 0 \/ f[i - 1] \in 1..n
      <4>1. f[i - 1] \in 0..n
        BY <1>1, <2>3
      <4> QED BY <1>1, <4>1
    <3>2. f[i] = NextBest(score, i, f[i - 1])
      BY <2>3
    <3> QED BY <2>2, <3>1, <3>2 DEF NextBest
  <2>5. f = Body(f)
    <3>1. \A i \in 0..n : i = 0 \/ i \in 1..n
      BY <1>1
    <3> QED BY <2>3, <2>4, <3>1
  <2>6. best = Body(best)
    <3> HIDE DEF Body
    <3> QED BY <2>5 DEF best
  <2> DEFINE U == {i \in 0..n : best[i] = f[i]}
  <2>7. 0 \in U
    BY <1>1, <2>3, <2>6
  <2>8. ASSUME NEW i \in 1..n, i - 1 \in U PROVE i \in U
    <3>1. best[i - 1] = f[i - 1]
      BY <2>8
    <3>2. best[i] = IF one(i).ok /\ (best[i - 1] = 0 \/ Better(one(i), one(best[i - 1])))
                    THEN i ELSE best[i - 1]
      BY <1>1, <2>6
    <3>3. best[i] = f[i]
      BY <2>4, <3>1, <3>2
    <3> QED BY <1>1, <3>3
  <2> HIDE DEF U
  <2>9. 0..n \subseteq U
    BY <1>1, <2>7, <2>8, Upwards
  <2>10. n \in U
    BY <1>1, <2>9
  <2> QED BY <2>1, <2>10 DEF U
<1>5. \A k \in 1..n : /\ score[k].ok \in BOOLEAN
                      /\ score[k].ok => score[k].tier \in Nat /\ score[k].literal \in Nat
  <2> TAKE k \in 1..n
  <2> HIDE DEF score, n
  <2>1. /\ score[k].ok \in BOOLEAN
        /\ score[k].ok =>
             /\ score[k].tier = IF services[k].host.wild THEN 1 ELSE 2
             /\ score[k].literal \in Nat
    BY <1>2
  <2>2. 1 \in Nat /\ 2 \in Nat
    OBVIOUS
  <2> QED BY <2>1, <2>2
<1>6. BestUpto(score, n, f[n])
  <2> HIDE DEF score, n
  <2> QED BY <1>1, <1>3, <1>5, SearchIsBest
<1> HIDE DEF score, n
<1> QED BY <1>2, <1>4, <1>6 DEF score, n

(* The matcher answers by the documented rules. *)
LEMMA BestMatchIs ==
  ASSUME probe \in MatchProbe
  PROVE  BestMatchWins
<1> DEFINE R == [host : [wild : BOOLEAN, labels : Seq(Labels)], path : Seq(Chars \cup {Star})]
           host == probe.host
           path == probe.path
           services == probe.list
           n == Len(services)
           score == [i \in 1..n |-> Score(services[i], host, path)]
           found == MatchService(host, path, services)
           exact(i) == ~services[i].host.wild
           matches(i) ==
             /\ services[i].path = <<>> \/ InLanguage(services[i].path, path)
             /\ IF exact(i) THEN services[i].host.labels = host
                ELSE \E label \in Labels : host = <<label>> \o services[i].host.labels
           prefix(i) == Cardinality(LiteralPrefix(services[i].path))
           beats(i, j) ==
             \/ exact(i) /\ ~exact(j)
             \/ exact(i) = exact(j) /\ prefix(i) > prefix(j)
             \/ exact(i) = exact(j) /\ prefix(i) = prefix(j) /\ i < j
<1>1. host \in Seq(Labels) /\ path \in Seq(Chars) /\ services \in Seq(R)
  BY DEF MatchProbe
<1>2. n \in Nat /\ DOMAIN services = 1..n
  <2> HIDE DEF R, services
  <2> QED BY <1>1 DEF n
<1>3. /\ BestUpto(score, n, found)
      /\ \A i \in 1..n :
           /\ services[i].host.wild \in BOOLEAN
           /\ score[i].ok \in BOOLEAN
           /\ score[i].ok <=> /\ HostMeets(services[i].host, host)
                              /\ \/ services[i].path = <<>>
                                 \/ InLanguage(services[i].path, path)
           /\ score[i].ok =>
                /\ score[i].tier = IF services[i].host.wild THEN 1 ELSE 2
                /\ score[i].literal = Cardinality(LiteralPrefix(services[i].path))
                /\ score[i].literal \in Nat
  <2> HIDE DEF host, path, services, found
  <2> QED BY <1>1, MatchServiceIs DEF n, score, R, found
<1> HIDE DEF score, n, found, host, path, services
<1>4. \A i \in 1..n : score[i].ok <=> matches(i)
  BY <1>3 DEF HostMeets
<1>5. ASSUME NEW i \in 1..n, NEW j \in 1..n, score[i].ok, score[j].ok, Beats(score, i, j)
      PROVE  beats(i, j)
  <2> DEFINE ti == score[i].tier
             tj == score[j].tier
             li == score[i].literal
             lj == score[j].literal
  <2>1. /\ li \in Nat /\ lj \in Nat /\ li = prefix(i) /\ lj = prefix(j)
        /\ exact(i) \in BOOLEAN /\ exact(j) \in BOOLEAN
        /\ ti = (IF exact(i) THEN 2 ELSE 1) /\ tj = (IF exact(j) THEN 2 ELSE 1)
    <3> HIDE DEF prefix
    <3>1. /\ services[i].host.wild \in BOOLEAN /\ services[j].host.wild \in BOOLEAN
          /\ ti = (IF services[i].host.wild THEN 1 ELSE 2)
          /\ tj = (IF services[j].host.wild THEN 1 ELSE 2)
          /\ li \in Nat /\ lj \in Nat /\ li = prefix(i) /\ lj = prefix(j)
      BY <1>3, <1>5 DEF prefix
    <3> QED BY <3>1
  <2>2. \/ ti > tj \/ (ti = tj /\ li > lj)
        \/ (ti = tj /\ li = lj /\ i < j)
    BY <1>5 DEF Beats, Better
  <2> HIDE DEF ti, tj, li, lj, exact, prefix
  <2>3. ti > tj => exact(i) /\ ~exact(j)
    BY <2>1
  <2>4. ti = tj => exact(i) = exact(j)
    BY <2>1
  <2> QED BY <2>1, <2>2, <2>3, <2>4
<1>6. IF found = 0 THEN \A i \in 1..n : ~matches(i)
      ELSE /\ found \in 1..n /\ matches(found)
           /\ \A i \in (1..n) \ {found} : matches(i) => beats(found, i)
  <2> HIDE DEF matches, beats
  <2>1. CASE found = 0
    BY <1>3, <1>4, <2>1 DEF BestUpto
  <2>2. CASE found # 0
    <3>1. /\ found \in 1..n /\ score[found].ok
          /\ \A k \in 1..n \ {found} : score[k].ok => Beats(score, found, k)
      BY <1>3, <2>2 DEF BestUpto
    <3>2. ASSUME NEW i \in (1..n) \ {found}, matches(i) PROVE beats(found, i)
      <4>1. i \in 1..n /\ i \in 1..n \ {found} /\ score[i].ok
        BY <1>4, <3>2
      <4>2. Beats(score, found, i)
        BY <3>1, <4>1
      <4> QED BY <1>5, <3>1, <4>1, <4>2
    <3> QED BY <1>4, <2>2, <3>1, <3>2
  <2> QED BY <2>1, <2>2
<1> HIDE DEF matches, beats
<1> QED BY <1>2, <1>6 DEF BestMatchWins, matches, beats, exact, prefix, found, host, path, services

(* For any list of services and any request, the matcher finds a service
   whenever one matches, and the one it finds beats every other: an exact host
   before a wildcard, then the longer literal prefix, then the order. *)
THEOREM BestMatches == ListSpec => []BestMatchWins
<1>1. ListInv => BestMatchWins
  <2>1. CASE probe \in MatchProbe
    BY <2>1, BestMatchIs
  <2>2. CASE probe \in HealProbe \cup {NoProbe}
    <3>1. probe.kind # "match"
      BY <2>2 DEF HealProbe, NoProbe
    <3> QED BY <3>1 DEF BestMatchWins
  <2>3. ListInv => probe \in MatchProbe \cup HealProbe \cup {NoProbe}
    BY ProbesType DEF ListInv
  <2> QED BY <2>1, <2>2, <2>3
<1> QED BY <1>1, ListInvariance, PTL

===============================================================================
