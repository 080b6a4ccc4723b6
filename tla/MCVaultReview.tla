----------------------------- MODULE MCVaultReview -----------------------------
(* Two groups of requests that collide; a behaviour keeps to one. *)
EXTENDS MCVaultServer

VARIABLE focus

group == IF focus = "review" THEN Review ELSE Edit

AllEdits == Review.edits \cup Edit.edits
AllOverrides == Review.overrides \cup Edit.overrides
AllCredentials == Review.credentials \cup Edit.credentials

Begins(w) ==
  \/ /\ Cardinality(Ids) + Cardinality({v \in Workers : req[v].op = "create"}) < group.proposals
     /\ \E b \in group.bodies : StartCreate(w, b)
  \/ \E id \in Ids, o \in group.overrides : StartApprove(w, id, o)
  \/ \E id \in Ids : StartReject(w, id)
  \/ \E e \in group.edits : StartEdit(w, e)
  \/ \E r \in group.credentials : StartCredentials(w, r)

GroupNext ==
  \/ \E w \in Workers : Begins(w) \/ AcquireLock(w) \/ Work(w) \/ StoreError(w)
  \/ \E id \in Ids : PassTTL(id)
  \/ ListProposals
  \/ DeleteVault
  \/ Crash

GroupInit == ServerInit /\ focus \in {"review", "edit"}
GroupSpec == GroupInit /\ [][GroupNext /\ UNCHANGED focus]_<<serverVars, focus>>
================================================================================
