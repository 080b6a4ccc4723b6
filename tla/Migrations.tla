----------------------------- MODULE Migrations -----------------------------
(***************************************************************************)
(* store.Open and the migrations it runs (store/sqlite.go,                 *)
(* store/migrations.go), in several processes that open one database at    *)
(* the same time and may die between any two steps.  SQLite gives the      *)
(* write lock to one transaction, which sees what is committed; a process  *)
(* that waits for it longer than the busy timeout fails.                   *)
(*                                                                         *)
(* Abstracted: a version is a number, and what its statements do to the    *)
(* database is its place in the sequence of applied versions.  A version   *)
(* in FkOff rebuilds a table whose rows others refer to: under foreign     *)
(* keys, DROP TABLE takes these rows along.                                *)
(*                                                                         *)
(* Bounds: LastVersion versions, and each process of Openers runs once.    *)
(***************************************************************************)
EXTENDS Integers, Sequences

CONSTANTS Openers, LastVersion, FkOff

ASSUME LastVersionType == LastVersion \in Nat
ASSUME NoOpenerIsZero == 0 \notin Openers

VARIABLES
  applied,   \* what is committed: the versions whose statements took effect
  recorded,  \* what is committed: the rows of schema_migrations
  rowsLost,  \* what is committed: the versions that took rows along
  tx,        \* the open transaction: at most one has the write lock
  opener     \* the processes

migrationVars == <<applied, recorded, rowsLost, tx, opener>>
committed == <<applied, recorded, rowsLost>>

NoTx == [by |-> 0]

Init ==
  /\ \E n \in 0..LastVersion : applied = [v \in 1..n |-> v] /\ recorded = 1..n
  /\ rowsLost = {}
  /\ tx = NoTx
  /\ opener = [p \in Openers |-> [at |-> "closed"]]

At(p, at) == opener[p].at = at
Goto(p, at) == opener' = [opener EXCEPT ![p].at = at]
Exit(p) == opener' = [opener EXCEPT ![p] = [at |-> "exited"]]
Owns(p) == tx.by = p

(* The highest recorded version is read once, before any transaction.      *)
MaxRecorded == CHOOSE n \in 0..LastVersion : /\ n = 0 \/ n \in recorded
                                      /\ \A v \in recorded : v <= n

Open(p) ==
  /\ At(p, "closed")
  /\ opener' = [opener EXCEPT ![p] = [at |-> "migrating", next |-> MaxRecorded + 1, fk |-> "on"]]
  /\ UNCHANGED <<committed, tx>>

Ready(p) ==
  /\ At(p, "migrating") /\ opener[p].next > LastVersion
  /\ Goto(p, "open")
  /\ UNCHANGED <<committed, tx>>

(* PRAGMA foreign_keys on the connection that then runs the transaction.   *)
Pragma(p) ==
  /\ At(p, "migrating") /\ opener[p].next <= LastVersion
  /\ opener' = [opener EXCEPT ![p].at = "begin", 
                             ![p].fk = IF opener[p].next \in FkOff THEN "off" ELSE "on"]
  /\ UNCHANGED <<committed, tx>>

Begin(p) ==
  /\ At(p, "begin") /\ tx = NoTx
  /\ tx' = [by |-> p, applied |-> applied, recorded |-> recorded, lost |-> rowsLost]
  /\ Goto(p, "statements")
  /\ UNCHANGED committed

(* The statements of the version, in the transaction.                      *)
Statements(p) ==
  /\ At(p, "statements") /\ Owns(p)
  /\ LET v == opener[p].next
     IN tx' = [tx EXCEPT !.applied = Append(@, v),
                         !.lost = IF v \in FkOff /\ opener[p].fk = "on" THEN @ \cup {v} ELSE @]
  /\ Goto(p, "record")
  /\ UNCHANGED committed

(* The INSERT of the version, which is the primary key.                    *)
RecordAgain(p) ==
  /\ At(p, "record") /\ Owns(p)
  /\ tx' = [tx EXCEPT !.recorded = @ \cup {opener[p].next}]
  /\ Goto(p, "commit")
  /\ UNCHANGED committed

Record(p) ==
  /\ At(p, "record") /\ Owns(p)
  /\ opener[p].next \notin tx.recorded
  /\ tx' = [tx EXCEPT !.recorded = @ \cup {opener[p].next}]
  /\ Goto(p, "commit")
  /\ UNCHANGED committed

(* Foreign keys go on again when the transaction has ended.                *)
Commit(p) ==
  /\ At(p, "commit") /\ Owns(p)
  /\ applied' = tx.applied /\ recorded' = tx.recorded /\ rowsLost' = tx.lost
  /\ tx' = NoTx
  /\ opener' = [opener EXCEPT ![p].at = "migrating", ![p].next = @ + 1, ![p].fk = "on"]

(* A statement fails, the busy timeout passes, or the process dies: what   *)
(* it has not committed is rolled back.                                    *)
Fail(p) ==
  /\ ~At(p, "closed") /\ ~At(p, "exited")
  /\ Exit(p)
  /\ tx' = IF Owns(p) THEN NoTx ELSE tx
  /\ UNCHANGED committed

MigrationNext ==
  \E p \in Openers :
    \/ Open(p) \/ Ready(p)
    \/ Pragma(p) \/ Begin(p) \/ Statements(p) \/ Record(p) \/ Commit(p)
    \/ Fail(p)

MigrationSpec == Init /\ [][MigrationNext]_migrationVars

-----------------------------------------------------------------------------
(* Whoever opens the database, and whenever they die, the versions took    *)
(* effect once each and in order, exactly those that are recorded, no      *)
(* table lost its rows to one that rebuilds another, and a process that    *)
(* serves has them all (migrations.go:17-158).                             *)
SchemaIsWhole ==
  /\ \A i \in DOMAIN applied : applied[i] = i
  /\ recorded = 1..Len(applied)
  /\ rowsLost = {}
  /\ \A p \in Openers : At(p, "open") => Len(applied) = LastVersion /\ opener[p].fk = "on"
=============================================================================
