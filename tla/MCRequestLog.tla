---------------------------- MODULE MCRequestLog ----------------------------
(* Instances of RequestLog for TLC.  Each behaviour focuses on one of      *)
(* three questions, so that the interleavings that matter to it are        *)
(* explored in full: the sink and its end, retention beside inserts, and   *)
(* the page beside inserts and retention.                                  *)
EXTENDS RequestLog

CONSTANTS v1, v2

VARIABLE focus

TwoVaults == {v1, v2}

(* A stored cap that is changed, to none and back; the environment's cap   *)
(* over a stored one; a stored one that the environment locks out.         *)
SomeSettings ==
  {[env |-> NoLimit, stored |-> 2, locked |-> FALSE],
   [env |-> NoLimit, stored |-> 0, locked |-> FALSE],
   [env |-> 0, stored |-> 2, locked |-> FALSE],
   [env |-> 2, stored |-> NoLimit, locked |-> FALSE],
   [env |-> NoLimit, stored |-> 0, locked |-> TRUE]}

(* Outside "closing" the sink is only a source of rows: the next record is *)
(* sent when the last one was taken, and none is lost.                     *)
Source(V) ==
  \/ queue = <<>> /\ \E v \in V : Record(v)
  \/ Receive \/ Tick \/ CommitStored

Kept ==
  CASE focus = "closing"   -> Sink \/ \E v \in Vaults : DeleteVault(v)
    [] focus = "trimming"  -> Source(Vaults) \/ Retention
    [] focus = "following" -> Source({Viewed}) \/ Page
                            \/ ResolveRetention \/ TrimOld \/ TrimFails

MCInit ==
  /\ Init /\ focus \in {"closing", "trimming", "following"}
  /\ focus # "trimming" => setting = [env |-> NoLimit, stored |-> 2, locked |-> FALSE]
MCNext == Kept /\ UNCHANGED focus
MCSpec ==
  /\ MCInit /\ [][MCNext]_<<vars, focus>>
  /\ WF_vars(WorkerStep)

=============================================================================
