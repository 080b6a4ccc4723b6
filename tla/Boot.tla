-------------------------------- MODULE Boot --------------------------------
(***************************************************************************)
(* The processes that share a data directory: servers in the foreground    *)
(* and detached (cmd/server.go, server/server.go Start), the commands      *)
(* "server stop", "master-password set/change/remove" and "owner reset".   *)
(* They share the pid file (pidfile/pidfile.go), the master key record     *)
(* (auth/auth.go, store/sqlite.go), the root certificate and its key       *)
(* (ca/soft.go) and the ports, and each reads one of them and acts on it   *)
(* later, without a lock.  A process may die between any two steps.        *)
(*                                                                         *)
(* Abstracted: a data key is named by the process that made it, a root     *)
(* certificate likewise; passwords are given right, and a prompt left, a   *)
(* wrong password or a failed call ends the process, like a crash.         *)
(*                                                                         *)
(* Bounds: each process runs once (a pid is not reused); MaxDb databases,  *)
(* one more for each reset.                                                *)
(***************************************************************************)
EXTENDS Integers, FiniteSets

CONSTANTS Procs, Ports, None, MaxDb

(* MasterKeyRecord: the data key in plaintext, or wrapped under the         *)
(* password, and a sentinel to recognise it by.                            *)
MasterKeyRecords ==
  [plain : Procs \cup {None}, wrapped : Procs \cup {None}, sentinel : Procs]

ASSUME ProcsAssumption ==
  /\ None \notin Procs /\ None \notin MasterKeyRecords
  /\ MaxDb \in Nat \ {0}

VARIABLES
  pidfile,   \* the process it names, or None
  db,        \* the database that the path leads to: 1, 2 after a reset
  record,    \* the master key record of each database, or None
  secrets,   \* the data keys that encrypt the rows of each database
  caFiles,   \* the files of the root certificate and of its key, or None
  ports,     \* who listens
  proc       \* the processes

shared == <<pidfile, db, record, secrets, caFiles, ports>>
bootVars == <<pidfile, db, record, secrets, caFiles, ports, proc>>

New == [at |-> "new"]
Gone == [at |-> "gone"]
NoFiles == [cert |-> None, key |-> None]

Nothing ==
  /\ pidfile = None /\ db = 1
  /\ record = [d \in 1..MaxDb |-> None]
  /\ secrets = [d \in 1..MaxDb |-> {}]
  /\ caFiles = NoFiles
  /\ ports = [n \in Ports |-> None]

BootInit == Nothing /\ proc = [p \in Procs |-> New]

IsRunning(p) == proc[p].at \notin {"new", "gone"}
RunningOther(p) == pidfile # None /\ pidfile # p /\ IsRunning(pidfile)

At(p, at) == proc[p].at = at
Proceed(p, at) == proc' = [proc EXCEPT ![p].at = at]
Become(p, state) == proc' = [proc EXCEPT ![p] = state]
Exit(p) == Become(p, Gone)

Freed(p) == [n \in Ports |-> IF ports[n] = p THEN None ELSE ports[n]]

(* saw: the running process that the pid file named when p last looked.    *)
Looks(at) == [at |-> at, saw |-> IF pidfile # None /\ IsRunning(pidfile) THEN pidfile ELSE None]

(***************************************************************************)
(* A server.  The pre-flight of the foreground and of the parent of a      *)
(* detached server; the child itself has none.                             *)
(***************************************************************************)
Preflight(p) ==
  /\ At(p, "new")
  /\ Become(p, IF RunningOther(p) THEN Gone
               ELSE Looks(IF pidfile = None THEN "opening" ELSE "stale"))
  /\ UNCHANGED shared

RemoveStale(p) ==
  /\ At(p, "stale")
  /\ pidfile' = None
  /\ Proceed(p, "opening")
  /\ UNCHANGED <<db, record, secrets, caFiles, ports>>

Plaintext(key) == [plain |-> key, wrapped |-> None, sentinel |-> key]
Wrapped(key) == [plain |-> None, wrapped |-> key, sentinel |-> key]
Opened(rec) == IF rec.plain # None THEN rec.plain ELSE rec.wrapped

Holding(p, at, d, key) ==
  Become(p, [at |-> at, saw |-> proc[p].saw, db |-> d, key |-> key, claimed |-> FALSE,
             crossed |-> FALSE])

(* unlockOrSetup.                                                          *)
Unlock(p) ==
  /\ At(p, "opening") /\ record[db] # None
  /\ Opened(record[db]) = record[db].sentinel
  /\ Holding(p, "unlocked", db, Opened(record[db]))
  /\ UNCHANGED shared

FirstTime(p) ==
  /\ At(p, "opening") /\ record[db] = None
  /\ Holding(p, "setup", db, p)
  /\ UNCHANGED shared

(* SetMasterKeyRecord inserts the row 1: a second setup fails.             *)
SetupReplaces(p) ==
  /\ At(p, "setup")
  /\ \E rec \in {Plaintext(p), Wrapped(p)} :
       record' = [record EXCEPT ![proc[p].db] = rec]
  /\ Proceed(p, "unlocked")
  /\ UNCHANGED <<pidfile, db, secrets, caFiles, ports>>

SetupMasterKey(p) ==
  /\ At(p, "setup") /\ record[proc[p].db] = None
  /\ \E rec \in {Plaintext(p), Wrapped(p)} :
       record' = [record EXCEPT ![proc[p].db] = rec]
  /\ Proceed(p, "unlocked")
  /\ UNCHANGED <<pidfile, db, secrets, caFiles, ports>>

(* The child gets the data key through a pipe and opens the database       *)
(* itself; nothing that the parent does afterwards is seen by others.      *)
SpawnDetached(p, child) ==
  /\ At(p, "unlocked") /\ At(child, "new")
  /\ proc' = [proc EXCEPT ![p] = Gone, ![child] = [proc[p] EXCEPT !.at = "piped"]]
  /\ UNCHANGED shared

RunDetachedChild(p) ==
  /\ At(p, "piped")
  /\ proc' = [proc EXCEPT ![p].at = "ca", ![p].db = db]
  /\ UNCHANGED shared

Foreground(p) ==
  /\ At(p, "unlocked")
  /\ Proceed(p, "ca")
  /\ UNCHANGED shared

(* ca.New: load both files, make both, or go on without the proxy when one *)
(* is missing or the key does not open.  generate writes the certificate,  *)
(* then the key.                                                           *)
StatCA(p) ==
  /\ At(p, "ca")
  /\ Proceed(p, IF caFiles = NoFiles THEN "cert" ELSE "bind")
  /\ UNCHANGED shared

WriteRootCert(p) ==
  /\ At(p, "cert")
  /\ caFiles' = [caFiles EXCEPT !.cert = p]
  /\ Proceed(p, "key")
  /\ UNCHANGED <<pidfile, db, record, secrets, ports>>

WriteRootKey(p) ==
  /\ At(p, "key")
  /\ caFiles' = [caFiles EXCEPT !.key = [of |-> p, key |-> proc[p].key, crossed |-> proc[p].crossed]]
  /\ Proceed(p, "bind")
  /\ UNCHANGED <<pidfile, db, record, secrets, ports>>

(* Start: the port first, and requests are served from then on; then the   *)
(* pid file, unless another process owns it.                               *)
Listen(p, n) ==
  /\ At(p, "bind") /\ ports[n] = None
  /\ ports' = [ports EXCEPT ![n] = p]
  /\ Proceed(p, "bound")
  /\ UNCHANGED <<pidfile, db, record, secrets, caFiles>>

WriteIfFree(p) ==
  /\ At(p, "bound")
  /\ proc' = [proc EXCEPT ![p].at = IF RunningOther(p) THEN "serving" ELSE "claim",
                          ![p].saw = Looks("claim").saw]
  /\ UNCHANGED shared

WritePidfile(p) ==
  /\ At(p, "claim")
  /\ pidfile' = p
  /\ proc' = [proc EXCEPT ![p].at = "serving", ![p].claimed = TRUE]
  /\ UNCHANGED <<db, record, secrets, caFiles, ports>>

Serves(p) == proc[p].at \in {"bound", "claim", "serving"}

(* Whatever a request encrypts.                                            *)
StoreSecret(p) ==
  /\ Serves(p)
  /\ secrets' = [secrets EXCEPT ![proc[p].db] =
                   @ \cup {[key |-> proc[p].key, crossed |-> proc[p].crossed]}]
  /\ UNCHANGED <<pidfile, db, record, caFiles, ports, proc>>

(* A signal: the listeners close, and the one who claimed the pid file     *)
(* removes it.                                                             *)
ShutDown(p) ==
  /\ At(p, "serving")
  /\ ports' = Freed(p)
  /\ IF proc[p].claimed THEN Proceed(p, "leaving") ELSE Exit(p)
  /\ UNCHANGED <<pidfile, db, record, secrets, caFiles>>

RemovePidfile(p) ==
  /\ At(p, "leaving")
  /\ pidfile' = None
  /\ Exit(p)
  /\ UNCHANGED <<db, record, secrets, caFiles, ports>>

Crash(p) ==
  /\ IsRunning(p)
  /\ ports' = Freed(p)
  /\ Exit(p)
  /\ UNCHANGED <<pidfile, db, record, secrets, caFiles>>

(***************************************************************************)
(* server stop, and owner reset, which asks a server for the caller's role *)
(* and stops the one that the pid file names before it wipes.              *)
(***************************************************************************)
AfterStop == [stop |-> Gone.at, reset |-> "wipe"]

StopServer(p, goal) ==
  /\ At(p, "new")
  /\ goal = "reset" => \E q \in Procs : Serves(q)
  /\ LET look == Looks("waiting") IN
     Become(p, IF pidfile = None THEN [look EXCEPT !.at = AfterStop[goal]]
               ELSE [at |-> IF look.saw = None THEN "cleanup" ELSE "waiting",
                     saw |-> look.saw, goal |-> goal])
  /\ UNCHANGED shared

TargetGone(p) ==
  /\ At(p, "waiting") /\ ~IsRunning(proc[p].saw)
  /\ Proceed(p, "cleanup")
  /\ UNCHANGED shared

RemoveAfterSignal(p) ==
  /\ proc[p].at \in {"waiting", "cleanup"}
  /\ pidfile' = None
  /\ Proceed(p, AfterStop[proc[p].goal])
  /\ UNCHANGED <<db, record, secrets, caFiles, ports>>

RemoveAfterStop(p) ==
  /\ At(p, "cleanup")
  /\ pidfile' = None
  /\ Proceed(p, AfterStop[proc[p].goal])
  /\ UNCHANGED <<db, record, secrets, caFiles, ports>>

(* The whole directory goes.  A server that lives holds on to the database *)
(* it opened; history: that it, or its child, crossed the reset.           *)
Wipe(p) ==
  /\ At(p, "wipe") /\ db < MaxDb
  /\ db' = db + 1 /\ pidfile' = None /\ caFiles' = NoFiles
  /\ proc' = [q \in Procs |-> IF q = p THEN Gone
                ELSE IF "crossed" \in DOMAIN proc[q] THEN [proc[q] EXCEPT !.crossed = TRUE]
                ELSE proc[q]]
  /\ UNCHANGED <<record, secrets, ports>>

(***************************************************************************)
(* master-password: look for a server, read the record, prompt, and write  *)
(* the whole record back.                                                  *)
(***************************************************************************)
EnsureServerStopped(p) ==
  /\ At(p, "new") /\ ~RunningOther(p)
  /\ Become(p, Looks("reading"))
  /\ UNCHANGED shared

ReadRecord(p) ==
  /\ At(p, "reading") /\ record[db] # None
  /\ Become(p, [at |-> "prompt", saw |-> proc[p].saw, db |-> db, read |-> record[db]])
  /\ UNCHANGED shared

(* set and remove turn one form into the other, change keeps it; each is   *)
(* refused when the record read has not the form it starts from.           *)
Rewritten(rec, read, key) ==
  {[read EXCEPT !.plain = None, !.wrapped = key] : f \in {read.plain} \ {None}}
    \cup {[read EXCEPT !.wrapped = key] : f \in {read.wrapped} \ {None}}
    \cup {[read EXCEPT !.plain = key, !.wrapped = None] : f \in {read.wrapped} \ {None}}

UpdateMasterKeyRecord(p) ==
  /\ At(p, "prompt")
  /\ LET d == proc[p].db IN
     \E rec \in Rewritten(record[d], proc[p].read, Opened(proc[p].read)) :
       record' = [record EXCEPT ![d] = rec]
  /\ Exit(p)
  /\ UNCHANGED <<pidfile, db, secrets, caFiles, ports>>

BootNext ==
  \E p \in Procs :
    \/ Preflight(p) \/ RemoveStale(p) \/ Unlock(p) \/ FirstTime(p) \/ SetupMasterKey(p)
    \/ (\E child \in Procs : SpawnDetached(p, child)) \/ RunDetachedChild(p) \/ Foreground(p)
    \/ StatCA(p) \/ WriteRootCert(p) \/ WriteRootKey(p)
    \/ (\E n \in Ports : Listen(p, n)) \/ WriteIfFree(p) \/ WritePidfile(p)
    \/ StoreSecret(p) \/ ShutDown(p) \/ RemovePidfile(p) \/ Crash(p)
    \/ (\E goal \in {"stop", "reset"} : StopServer(p, goal))
    \/ TargetGone(p) \/ RemoveAfterStop(p) \/ Wipe(p)
    \/ EnsureServerStopped(p) \/ ReadRecord(p) \/ UpdateMasterKeyRecord(p)

BootSpec == BootInit /\ [][BootNext]_bootVars

(***************************************************************************)
(* Properties.                                                             *)
(***************************************************************************)
Opens(d, key) == record[d] # None /\ Opened(record[d]) = key

(* What is encrypted can be decrypted by the next start, however many      *)
(* first starts and password commands run at once: the record of a         *)
(* database opens to the one key that encrypted its rows and the root key  *)
(* beside it; only a server caught half started by a reset may have        *)
(* another (cmd/server.go:379-400, sqlite.go:1109-1140).  And an instance  *)
(* with a master password keeps no plaintext key beside the wrapped one,   *)
(* also when password commands overlap (master_password.go:63-72,          *)
(* :196-203).                                                              *)
OneForm(rec) == (rec.plain = None) # (rec.wrapped = None)

KeyNeverLost ==
  /\ \A d \in 1..MaxDb : record[d] # None =>
       OneForm(record[d]) /\ Opened(record[d]) = record[d].sentinel
  /\ \A d \in 1..MaxDb : \A s \in secrets[d] : s.crossed \/ Opens(d, s.key)
  /\ caFiles.key # None => caFiles.key.crossed \/ Opens(db, caFiles.key.key)

(* The pid file of a running server is removed or replaced by another      *)
(* process only if that one looked before the server claimed it: nobody    *)
(* who saw it claimed takes it away while the server runs                  *)
(* (pidfile.go:44-58, helpers.go:682-714).                                 *)
LiveOwnerRespected ==
  [][\A q \in Procs : pidfile = q /\ IsRunning(q) /\ pidfile' # q =>
       \E p \in Procs : proc'[p] # proc[p] /\ (p = q \/ proc[p].saw # q)]_bootVars

(* What the comment on WriteIfFree says, "atomically writes pid only if no *)
(* live process other than the caller owns the file" (pidfile.go:45).      *)
LivePidfileKept ==
  [][\A q \in Procs : pidfile = q /\ IsRunning(q) => pidfile' \in {q, None}]_bootVars

(* The root key on disk belongs to the certificate beside it.              *)
RootPairMatches ==
  caFiles.cert # None /\ caFiles.key # None => caFiles.key.of = caFiles.cert

(* What the comment of ensureServerStopped asks: no server runs on the     *)
(* database while its record is rewritten (master_password.go:232-233).    *)
ExclusiveAccess ==
  [][\A p \in Procs : At(p, "prompt") /\ record' # record =>
       ~\E q \in Procs : Serves(q) /\ proc[q].db = proc[p].db]_bootVars

(* What "owner reset" says of itself: a running server is stopped first    *)
(* (cmd/reset.go:21-22).                                                   *)
ResetStopsServers ==
  [][db' # db => ~\E q \in Procs : Serves(q)]_bootVars

=============================================================================
