----------------------------- MODULE RequestLog -----------------------------
(***************************************************************************)
(* The request log: the sink of requestlog/sqlite_sink.go (a bounded       *)
(* channel, one worker that commits batches), the retention pass of        *)
(* requestlog/retention.go that trims rows beside it, the listing of       *)
(* server/handle_logs.go, and the page that follows it,                    *)
(* web/src/components/LogsView.tsx.                                        *)
(*                                                                         *)
(* Records are numbered in the order Record is called; sent[r] is the      *)
(* vault of record r.  A row is a record with the id the database gave     *)
(* it.  The worker, the retention pass, the proxy's calls of Record and    *)
(* the page interleave; a transaction or a statement is one step.          *)
(*                                                                         *)
(* Bounds: MaxRecords.  Left out: the filters of the listing, the fields   *)
(* of a record that no step reads, and OnCommit, which nobody sets.        *)
(***************************************************************************)
EXTENDS Naturals, Sequences, FiniteSets, SequencesExt, FiniteSetsExt

CONSTANTS
  Vaults, Viewed,          \* the vaults, and the one whose page is open
  BufferSize, BatchSize,   \* SQLiteSinkConfig
  PageSize,                \* the limit of a listing
  Settings,                \* what the environment and the database may hold: see CapOf
  DefaultRows, NoLimit,    \* DefaultMaxRowsPerVault, and a value that is not set
  Polls,                   \* requests the page may have in flight
  MaxRecords

ASSUME ViewedAssumption == Viewed \in Vaults /\ PageSize \in Nat \ {0}
ASSUME SettingsAssumption ==
  /\ Settings \subseteq [env : Nat \cup {NoLimit}, stored : Nat \cup {NoLimit}, locked : BOOLEAN]
  /\ DefaultRows \in Nat

VARIABLES
  sent,      \* the records handed to the sink
  queue,     \* the channel `in'
  batch,     \* the worker's batch
  worker,    \* where the worker is
  closed,    \* the channel `done' is closed
  promised,  \* the records in the sink when Close was called
  lost,      \* records of batches that failed, were refused, or died with the process
  rows,      \* the table request_logs
  lastId,    \* its AUTOINCREMENT counter
  vaults,    \* the vaults that exist
  setting,   \* the environment of this process and the stored setting
  trim,      \* the retention pass
  view,      \* the open page
  polls      \* its requests in flight

sinkVars == <<sent, queue, batch, worker, closed, promised, lost>>
viewVars == <<view, polls>>
vars == <<sinkVars, rows, lastId, vaults, setting, trim, viewVars>>

Logged == {r.record : r \in rows}
IdsOf(v) == {r.id : r \in {x \in rows : sent[x.record] = v}}

(***************************************************************************)
(* The sink.                                                               *)
(***************************************************************************)
Idle == [step |-> "idle", left |-> {}, cap |-> 0]
Closed == [ready |-> FALSE, started |-> 0, latest |-> 0, older |-> 0, shown |-> {}]
NoPoll == [step |-> "none", after |-> 0, ids |-> {}, latest |-> 0]

Init ==
  /\ sent = <<>> /\ queue = <<>> /\ batch = <<>> /\ worker = "receive"
  /\ closed = FALSE /\ promised = {} /\ lost = {}
  /\ rows = {} /\ lastId = 0 /\ vaults = Vaults
  /\ setting \in Settings /\ trim = Idle
  /\ view = Closed /\ polls = [p \in Polls |-> NoPoll]

(* Record: a select with a default, so that a full channel refuses the     *)
(* record instead of blocking the proxy.  The vault is the scope's: a      *)
(* tunnel may have outlived it.                                            *)
Record(v) ==
  /\ Len(sent) < MaxRecords
  /\ sent' = Append(sent, v)
  /\ IF Len(queue) < BufferSize
       THEN queue' = Append(queue, Len(sent) + 1) /\ UNCHANGED lost
       ELSE lost' = lost \cup {Len(sent) + 1} /\ UNCHANGED queue
  /\ UNCHANGED <<batch, worker, closed, promised, rows, lastId, vaults, setting, trim, viewVars>>

(* run receives a record and commits when the batch is full, in its loop   *)
(* and in the drain.                                                       *)
Receive ==
  /\ worker \in {"receive", "drain"} /\ queue # <<>>
  /\ batch' = Append(batch, Head(queue)) /\ queue' = Tail(queue)
  /\ worker' = IF Len(batch') < BatchSize THEN worker
               ELSE IF worker = "drain" THEN "drainCommit" ELSE "commit"
  /\ UNCHANGED <<sent, closed, promised, lost, rows, lastId, vaults, setting, trim, viewVars>>

(* The ticker flushes what there is.                                       *)
Tick ==
  /\ worker = "receive" /\ batch # <<>>
  /\ worker' = "commit"
  /\ UNCHANGED <<sent, queue, batch, closed, promised, lost, rows, lastId, vaults, setting, trim, viewVars>>

(* select takes any ready case: done may win over a record.                *)
LeaveWithoutDrain ==
  /\ worker = "receive" /\ closed
  /\ worker' = "lastCommit"
  /\ UNCHANGED <<sent, queue, batch, closed, promised, lost, rows, lastId, vaults, setting, trim, viewVars>>
SeeDone ==
  /\ worker = "receive" /\ closed
  /\ worker' = "drain"
  /\ UNCHANGED <<sent, queue, batch, closed, promised, lost, rows, lastId, vaults, setting, trim, viewVars>>

DrainEnds ==
  /\ worker = "drain" /\ queue = <<>>
  /\ worker' = IF batch = <<>> THEN "gone" ELSE "lastCommit"
  /\ UNCHANGED <<sent, queue, batch, closed, promised, lost, rows, lastId, vaults, setting, trim, viewVars>>

AfterCommit ==
  CASE worker = "commit" -> "receive"
    [] worker = "drainCommit" -> "drain"
    [] worker = "lastCommit" -> "gone"

StoreKeepsBatch ==
  /\ worker \in {"commit", "drainCommit", "lastCommit"}
  /\ \A i \in DOMAIN batch : sent[batch[i]] \in vaults
  /\ rows' = rows \cup {[id |-> lastId + i, record |-> batch[i]] : i \in DOMAIN batch}
  /\ lastId' = lastId + Len(batch)
  /\ worker' = AfterCommit
  /\ UNCHANGED <<sent, queue, batch, closed, promised, lost, vaults, setting, trim, viewVars>>

(* InsertRequestLogs: one transaction, which a record of a vault that was  *)
(* deleted fails for the whole batch (the rows reference their vault); ids *)
(* of a table with AUTOINCREMENT are never given again.                    *)
CommitStored ==
  /\ worker \in {"commit", "drainCommit", "lastCommit"}
  /\ \A i \in DOMAIN batch : sent[batch[i]] \in vaults
  /\ rows' = rows \cup {[id |-> lastId + i, record |-> batch[i]] : i \in DOMAIN batch}
  /\ lastId' = lastId + Len(batch)
  /\ batch' = <<>> /\ worker' = AfterCommit
  /\ UNCHANGED <<sent, queue, closed, promised, lost, vaults, setting, trim, viewVars>>

(* A failed commit is logged and the batch dropped, never retried.         *)
CommitFails ==
  /\ worker \in {"commit", "drainCommit", "lastCommit"}
  /\ lost' = lost \cup Range(batch)
  /\ batch' = <<>> /\ worker' = AfterCommit
  /\ UNCHANGED <<sent, queue, closed, promised, rows, lastId, vaults, setting, trim, viewVars>>

Close ==
  /\ ~closed
  /\ closed' = TRUE /\ promised' = Range(queue) \cup Range(batch)
  /\ UNCHANGED <<sent, queue, batch, worker, lost, rows, lastId, vaults, setting, trim, viewVars>>

(* The process ends, after Close has waited for the worker or for its      *)
(* timeout, or by a crash, and starts again in another environment.        *)
Restart ==
  /\ lost' = lost \cup Range(queue) \cup Range(batch)
  /\ queue' = <<>> /\ batch' = <<>> /\ worker' = "receive"
  /\ closed' = FALSE /\ promised' = {}
  /\ setting' \in Settings /\ trim' = Idle
  /\ polls' = [p \in Polls |-> NoPoll]
  /\ UNCHANGED <<sent, rows, lastId, vaults, view>>

Sink ==
  \/ \E v \in Vaults : Record(v)
  \/ Receive \/ Tick \/ SeeDone \/ DrainEnds \/ CommitStored \/ CommitFails
  \/ Close \/ Restart

(***************************************************************************)
(* Retention, and the deletion of a vault, which takes its rows with it.   *)
(***************************************************************************)
(* ResolveRetention: the environment wins; the stored setting counts       *)
(* unless the environment locks it; zero means no cap.                     *)
CapOf(s) ==
  IF s.env # NoLimit THEN s.env
  ELSE IF ~s.locked /\ s.stored # NoLimit THEN s.stored ELSE DefaultRows

(* The setting a pass works with: the one in the database, or, when it     *)
(* cannot be read or parsed (the error is dropped), none.                  *)
NothingRead(s) == [env |-> NoLimit, stored |-> NoLimit, locked |-> FALSE]
Unread(s) == [s EXCEPT !.stored = NoLimit]

(* Every pass resolves the cap anew, and keeps it to its end.              *)
ResolveRetention ==
  /\ trim.step = "idle"
  /\ \E s \in {setting, Unread(setting)} :
       trim' = [step |-> "old", left |-> {}, cap |-> CapOf(s)]
  /\ UNCHANGED <<sinkVars, rows, lastId, vaults, setting, viewVars>>

(* The stored setting is changed.  No handler of the repository does; the  *)
(* comment at retention.go:17 gives it to the owner.                       *)
Tune ==
  /\ \E s \in Settings \ {setting} : s = [setting EXCEPT !.stored = s.stored] /\ setting' = s
  /\ UNCHANGED <<sinkVars, rows, lastId, vaults, trim, viewVars>>

Without(gone) == rows' = {r \in rows : r.id \notin gone}

DeleteVault(v) ==
  /\ v \in vaults /\ v # Viewed
  /\ vaults' = vaults \ {v} /\ Without(IdsOf(v))
  /\ UNCHANGED <<sinkVars, lastId, setting, trim, viewVars>>

(* trimOnce starts with the rows that are too old: those up to some id,    *)
(* since rows are stamped when they are inserted.                          *)
TrimOld ==
  /\ trim.step = "old"
  /\ \E k \in 0 .. lastId : Without(1 .. k)
  /\ trim' = [trim EXCEPT !.step = "list"]
  /\ UNCHANGED <<sinkVars, lastId, vaults, setting, viewVars>>

ListVaults ==
  /\ trim.step = "list"
  /\ trim' = IF trim.cap = 0 THEN Idle
             ELSE [trim EXCEPT !.step = "count", !.left = {v \in Vaults : IdsOf(v) # {}}]
  /\ UNCHANGED <<sinkVars, rows, lastId, vaults, setting, viewVars>>

TrimEnds ==
  /\ trim.step = "count" /\ trim.left = {}
  /\ trim' = Idle
  /\ UNCHANGED <<sinkVars, rows, lastId, vaults, setting, viewVars>>

(* TrimRequestLogsToCap counts first, and deletes in a second statement.   *)
CountRows(v) ==
  /\ trim.step = "count" /\ v \in trim.left
  /\ trim' = IF Cardinality(IdsOf(v)) <= trim.cap
               THEN [trim EXCEPT !.left = @ \ {v}]
               ELSE [step |-> "delete", left |-> trim.left \ {v}, cap |-> trim.cap, at |-> v]
  /\ UNCHANGED <<sinkVars, rows, lastId, vaults, setting, viewVars>>

(* The newest row that is deleted is the one at OFFSET cap, newest first,  *)
(* in the table as it is now.                                              *)
Newer(v, id) == {i \in IdsOf(v) : i > id}
BeyondLoose(v) == {i \in IdsOf(v) : Cardinality(Newer(v, i)) + 1 >= trim.cap}
Beyond(v) == {i \in IdsOf(v) : Cardinality(Newer(v, i)) >= trim.cap}

DeleteRows ==
  /\ trim.step = "delete"
  /\ Without(Beyond(trim.at))
  /\ trim' = [step |-> "count", left |-> trim.left, cap |-> trim.cap]
  /\ UNCHANGED <<sinkVars, lastId, vaults, setting, viewVars>>

(* A statement that fails is logged; the pass goes on with the next vault, *)
(* or ends when it could not list them.  (Of the old rows TrimOld may take *)
(* none.)                                                                  *)
TrimFails ==
  /\ trim.step \in {"list", "delete"}
  /\ trim' = IF trim.step = "list" THEN Idle
             ELSE [step |-> "count", left |-> trim.left, cap |-> trim.cap]
  /\ UNCHANGED <<sinkVars, rows, lastId, vaults, setting, viewVars>>

Retention ==
  \/ ResolveRetention \/ Tune \/ TrimOld \/ ListVaults \/ TrimEnds \/ DeleteRows \/ TrimFails
  \/ \E v \in Vaults : DeleteVault(v) \/ CountRows(v)

(***************************************************************************)
(* The listing, and the page that follows the log.  A cursor of 0 is a     *)
(* cursor that is not given.                                               *)
(***************************************************************************)
Smallest(S, n) == {i \in S : Cardinality({j \in S : j < i}) < n}
Largest(S, n) == {i \in S : Cardinality({j \in S : j > i}) < n}

(* ListRequestLogs and handleVaultLogsList: the oldest rows after a cursor, *)
(* the newest ones otherwise; latest_id is the newest of the page, or the  *)
(* caller's cursor; next_cursor is given with a full page going back.      *)
NewestPage(before, after) ==
  LET found == {i \in IdsOf(Viewed) : (before > 0 => i < before) /\ i > after}
      page  == Largest(found, PageSize)
  IN [ids |-> page,
      latest |-> IF page = {} THEN after ELSE Max(page),
      next |-> IF after = 0 /\ Cardinality(page) = PageSize THEN Min(page) ELSE 0]
Listing(before, after) ==
  LET found == {i \in IdsOf(Viewed) : (before > 0 => i < before) /\ i > after}
      page  == IF after > 0 THEN Smallest(found, PageSize) ELSE Largest(found, PageSize)
  IN [ids |-> page,
      latest |-> IF page = {} THEN after ELSE Max(page),
      next |-> IF after = 0 /\ Cardinality(page) = PageSize THEN Min(page) ELSE 0]

(* loadInitial; polls wait for it.                                         *)
Open ==
  /\ ~view.ready
  /\ LET l == Listing(0, 0)
     IN view' = [ready |-> TRUE, started |-> l.latest, latest |-> l.latest,
                 older |-> l.next, shown |-> l.ids]
  /\ UNCHANGED <<sinkVars, rows, lastId, vaults, setting, trim, polls>>

(* pollNew: a timer sends it, whether or not the last one was answered;    *)
(* the server reads; the page shows the rows and only ever raises its      *)
(* cursor, since answers may come out of order.                            *)
Send(p) ==
  /\ view.ready /\ polls[p].step = "none"
  /\ polls' = [polls EXCEPT ![p] = [NoPoll EXCEPT !.step = "sent", !.after = view.latest]]
  /\ UNCHANGED <<sinkVars, rows, lastId, vaults, setting, trim, view>>

Answer(p) ==
  /\ polls[p].step = "sent"
  /\ LET l == Listing(0, polls[p].after)
     IN polls' = [polls EXCEPT ![p] = [step |-> "answered", after |-> @.after,
                                       ids |-> l.ids, latest |-> l.latest]]
  /\ UNCHANGED <<sinkVars, rows, lastId, vaults, setting, trim, view>>

Show(p) ==
  /\ polls[p].step = "answered"
  /\ view' = [view EXCEPT !.shown = @ \cup polls[p].ids,
                          !.latest = Max({@, polls[p].latest})]
  /\ polls' = [polls EXCEPT ![p] = NoPoll]
  /\ UNCHANGED <<sinkVars, rows, lastId, vaults, setting, trim>>

(* A poll that fails is forgotten.                                         *)
PollFails(p) ==
  /\ polls[p].step # "none"
  /\ polls' = [polls EXCEPT ![p] = NoPoll]
  /\ UNCHANGED <<sinkVars, rows, lastId, vaults, setting, trim, view>>

LoadMore ==
  /\ view.ready /\ view.older > 0
  /\ LET l == Listing(view.older, 0)
     IN view' = [view EXCEPT !.shown = @ \cup l.ids, !.older = l.next]
  /\ UNCHANGED <<sinkVars, rows, lastId, vaults, setting, trim, polls>>

Page == Open \/ LoadMore \/ \E p \in Polls : Send(p) \/ Answer(p) \/ Show(p) \/ PollFails(p)

Next == Sink \/ Retention \/ Page

Spec == Init /\ [][Next]_vars

(* The worker is a goroutine that nothing blocks for ever (a commit has    *)
(* five seconds), and a closed channel is always ready.                    *)
WorkerStep == Receive \/ SeeDone \/ DrainEnds \/ CommitStored \/ CommitFails
FairSpec == Spec /\ WF_vars(WorkerStep)

(***************************************************************************)
(* Properties.                                                             *)
(***************************************************************************)
(* Every variable has the values the code can give it.                     *)
TypeOK ==
  /\ sent \in Seq(Vaults) /\ Len(sent) <= MaxRecords
  /\ queue \in Seq(DOMAIN sent) /\ Len(queue) <= BufferSize
  /\ batch \in Seq(DOMAIN sent) /\ Len(batch) <= BatchSize
  /\ worker \in {"receive", "commit", "drain", "drainCommit", "lastCommit", "gone"}
  /\ closed \in BOOLEAN /\ promised \subseteq DOMAIN sent /\ lost \subseteq DOMAIN sent
  /\ rows \subseteq [id : 1 .. lastId, record : DOMAIN sent]
  /\ lastId \in 0 .. MaxRecords /\ vaults \subseteq Vaults /\ setting \in Settings
  /\ trim.left \subseteq Vaults /\ view.shown \subseteq 1 .. lastId
  /\ \A p \in Polls : polls[p].ids \subseteq 1 .. lastId

(* The log is in the order of the requests and no request is in it twice,  *)
(* nor both in it and on its way or given up: of two records the one that  *)
(* was sent first has the smaller id (sqlite_sink.go: one worker, one      *)
(* channel, no retry of a batch that may have been stored).                *)
LoggedInOrder ==
  /\ \A r, q \in rows : r.id < q.id <=> r.record < q.record
  /\ Logged \cap (Range(queue) \cup Range(batch) \cup lost) = {}

(* Close completes and loses nothing: the worker leaves once the sink is   *)
(* closed, unless the process ends first, and then all that was in the     *)
(* sink when Close was called has been stored or was in a batch that       *)
(* failed (sqlite_sink.go:142-154).                                        *)
CloseCompletes ==
  closed ~> \/ ~closed
            \/ worker = "gone" /\ promised \cap (Range(queue) \cup Range(batch)) = {}

(* A page that followed the log from a row on has no gap: every row up to  *)
(* its cursor is on the page or in the history it can still load, although *)
(* polls overlap, answers come out of order and rows are trimmed           *)
(* (sqlite.go:2563, LogsView.tsx:129).                                     *)
NoGap == \A i \in IdsOf(Viewed) : i <= view.latest => i \in view.shown \/ i < view.older
TailHasNoGap == view.started > 0 => NoGap

(* The same for a page that was opened on an empty log: the comment at     *)
(* sqlite.go:2563 says a burst larger than the page is not lost.           *)
TailShowsEveryRow == view.ready => NoGap

(* A poll shows only rows that were not on the page yet.                   *)
ShownOnce == [][\A p \in Polls : Show(p) => polls[p].ids \cap view.shown = {}]_vars

(* The cap never takes one of the newest rows of a vault, although rows    *)
(* are stored, and old ones deleted, between its count and its delete, and *)
(* although the setting is changed, or cannot be read, meanwhile: a delete *)
(* leaves what the cap of its pass allows, and where the environment gives *)
(* the cap or locks it, what the environment allows, all rows when that is *)
(* no cap (sqlite.go:2622-2652, retention.go:58-91).                       *)
Allowed(cap, n) == IF cap = 0 THEN n ELSE Min({cap, n})
RowsKept(cap) ==
  Cardinality({r \in rows' : sent[r.record] = trim.at}) >= Allowed(cap, Cardinality(IdsOf(trim.at)))
Pinned == setting.env # NoLimit \/ setting.locked
TrimKeepsNewest ==
  [][DeleteRows => RowsKept(trim.cap) /\ (Pinned => RowsKept(CapOf(setting)))]_vars

(* A delete leaves what the stored cap allows, for an owner who tunes the  *)
(* log with the instance setting (the comment at retention.go:17).         *)
StoredCapKept == [][DeleteRows => RowsKept(CapOf(setting))]_vars

=============================================================================
