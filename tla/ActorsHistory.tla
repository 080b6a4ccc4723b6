------------------------------ MODULE ActorsHistory ------------------------------
(***************************************************************************)
(* Actors with a history of what overtakes a request.  The handlers read,  *)
(* guard and write in separate store calls, so that no guard is absolute;  *)
(* the properties here say what exactly it takes to get past one.          *)
(*                                                                         *)
(* overtaken[w] is what the request of w cannot know: "actors" when some   *)
(* other request wrote a status or a role since this one began, "grants"   *)
(* when one wrote a grant, "unread" when a reading of its own failed and   *)
(* the handler went on.                                                    *)
(***************************************************************************)
EXTENDS Actors

VARIABLE overtaken

historyVars == <<vars, overtaken>>

HistoryInit == Init /\ overtaken = [w \in Workers |-> {}]

Written ==
  {x \in {"actors", "grants"} :
     \/ x = "actors" /\ <<status, role>>' # <<status, role>>
     \/ x = "grants" /\ grant' # grant}

(* A step of w, which adds own to what w does not know. *)
Overtakes(w, own) ==
  overtaken' = [v \in Workers |->
                  IF v = w THEN IF pc'[w] = "idle" THEN {} ELSE overtaken[w] \cup own
                  ELSE IF pc[v] = "idle" THEN {} ELSE overtaken[v] \cup Written]

HistoryNext ==
  \E w \in Workers :
    \/ Step(w) /\ Overtakes(w, {})
    \/ TargetUnread(w) /\ Overtakes(w, {"unread"})

HistorySpec == HistoryInit /\ [][HistoryNext]_historyVars

HistoryTypeOK == overtaken \in [Workers -> SUBSET {"actors", "grants", "unread"}]

--------------------------------------------------------------------------------
(* The step is the write of a request that x overtook. *)
WriteOvertaken(x) ==
  \E w \in Workers : pc[w] = "write" /\ pc'[w] = "idle" /\ overtaken[w] \cap x # {}

(* guardLastOwner: the instance loses its last owner only to a request during
   which another one changed a role or a status.  A request that nothing
   overtakes cannot do it, whatever runs beside it. *)
LastOwnerNeedsOverlap ==
  [][Owners # {} /\ Owners' = {} => WriteOvertaken({"actors"})]_historyVars

(* The guards of handleVaultUserRemove and handleVaultUserSetRole: a user is
   the last to lose the admin role only to a request during which a grant was
   written, or that could not read the grant of its target. *)
LastAdminNeedsOverlap ==
  [][UserLosesAdmin /\ Admins' = {} => WriteOvertaken({"grants", "unread"})]_historyVars

(* handleAgentRotate reads the status before RotateAgentToken writes without
   a look at it: a revoked agent gets a token again only from a rotation that
   the revocation overtook, never from one that began after it. *)
RevivedOnlyWhenOvertaken ==
  [][\A a \in Agents :
       status[a] = "revoked" /\ tokens'[a] > tokens[a] => WriteOvertaken({"actors"})]_historyVars

================================================================================
