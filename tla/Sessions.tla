------------------------------ MODULE Sessions ------------------------------
(***************************************************************************)
(* Sessions and their sliding expiry: the sessions table of                *)
(* store/sqlite.go, requireAuth and the touch cache of server/server.go,   *)
(* and the handlers that mint and revoke.                                  *)
(*                                                                         *)
(* A session has an absolute end and, when a user logged in, an idle       *)
(* window that last_used_at slides.  To spare writes the stamp is          *)
(* throttled twice by TouchInterval: by a cache in the server's memory and *)
(* by the UPDATE itself.  Requests run side by side; a statement is one    *)
(* step.  The clock, and the cache that keeps its readings, are finer than *)
(* a second; the table stores whole seconds.                               *)
(*                                                                         *)
(* Bounds: Horizon on time; a token is random and issued once.             *)
(***************************************************************************)
EXTENDS Integers

CONSTANTS
  Tokens,
  Requests,        \* requests in flight
  Second,          \* the steps of the clock in a second
  TouchInterval, IdleTTL,
  LifeTime,        \* from the issue of a token to ExpiresAt
  NoTime,          \* a time that is not set
  Horizon

ASSUME IntervalAssumption ==
  TouchInterval \in Nat \ {0} /\ LifeTime \in Nat /\ Second \in Nat \ {0}

VARIABLES
  now,
  sessions,    \* the table: a record for each token
  touchCache,  \* the server's memory: when the session was last touched
  requests,    \* the requests that passed authentication
  seen,        \* history: when a request was last authenticated
  missed       \* history: tokens whose last touch failed or died

sessionVars == <<now, sessions, touchCache, requests, seen, missed>>

Unissued == [kind |-> "unissued"]
Deleted == [kind |-> "deleted"]
Free == [at |-> "free"]

SessionsInit ==
  /\ now = 0
  /\ sessions = [t \in Tokens |-> Unissued]
  /\ touchCache = [t \in Tokens |-> NoTime]
  /\ requests = [r \in Requests |-> Free]
  /\ seen = [t \in Tokens |-> NoTime]
  /\ missed = {}

(* time.DateTime, the format of every time in the table, drops what is     *)
(* less than a second.                                                     *)
Stored(time) == Second * (time \div Second)

Live(t) == sessions[t].kind \in {"user", "scoped"}

(* Session.IsExpired: past the absolute end, or past the idle window.      *)
IsExpired(s) ==
  \/ now > s.expires
  \/ s.kind = "user" /\ now - s.lastUsed > IdleTTL

Usable(t) == Live(t) /\ ~IsExpired(sessions[t])

(* CreateUserSession, for a login; CreateScopedSession, which has no idle  *)
(* window and is never touched.                                            *)
Login(t) ==
  /\ sessions[t] = Unissued
  /\ sessions' = [sessions EXCEPT ![t] =
                    [kind |-> "user", expires |-> Stored(now + LifeTime),
                     lastUsed |-> Stored(now)]]
  /\ seen' = [seen EXCEPT ![t] = now]
  /\ UNCHANGED <<now, touchCache, requests, missed>>

CreateScopedSession(t) ==
  /\ sessions[t] = Unissued
  /\ sessions' = [sessions EXCEPT ![t] =
                    [kind |-> "scoped", expires |-> Stored(now + LifeTime)]]
  /\ UNCHANGED <<now, touchCache, requests, seen, missed>>

(* requireAuth reads the session once; a handler goes on with what it      *)
(* read.                                                                   *)
RequireAuth(r, t) ==
  /\ requests[r] = Free /\ Usable(t)
  /\ requests' = [requests EXCEPT ![r] = [at |-> "authenticated", token |-> t]]
  /\ seen' = [seen EXCEPT ![t] = now]
  /\ UNCHANGED <<now, sessions, touchCache, missed>>

CacheIsFresh(t) == touchCache[t] # NoTime /\ now - touchCache[t] < TouchInterval

(* maybeTouchSession: the cache is set before the write, whatever becomes  *)
(* of the write.                                                           *)
Throttled(r) ==
  /\ requests[r].at = "authenticated"
  /\ sessions[requests[r].token].kind = "scoped" \/ CacheIsFresh(requests[r].token)
  /\ requests' = [requests EXCEPT ![r] = Free]
  /\ UNCHANGED <<now, sessions, touchCache, seen, missed>>

CacheTouch(r) ==
  /\ requests[r].at = "authenticated"
  /\ sessions[requests[r].token].kind # "scoped" /\ ~CacheIsFresh(requests[r].token)
  /\ touchCache' = [touchCache EXCEPT ![requests[r].token] = now]
  /\ requests' = [requests EXCEPT ![r].at = "touching"]
  /\ UNCHANGED <<now, sessions, seen, missed>>

(* The UPDATE changes a user's row whose stamp is before the cutoff, an    *)
(* interval ago to the second, and no row when the session is gone.        *)
Restamped(t, cutoff) ==
  IF sessions[t].kind = "user" /\ sessions[t].lastUsed < cutoff
    THEN [sessions[t] EXCEPT !.lastUsed = Stored(now)]
    ELSE sessions[t]
StampedRarely(t) == Restamped(t, Stored(now - 2 * TouchInterval))
Stamped(t) == Restamped(t, Stored(now - TouchInterval))

TouchSession(r) ==
  /\ requests[r].at = "touching"
  /\ sessions' = [sessions EXCEPT ![requests[r].token] = Stamped(requests[r].token)]
  /\ missed' = missed \ {requests[r].token}
  /\ requests' = [requests EXCEPT ![r] = Free]
  /\ UNCHANGED <<now, touchCache, seen>>

(* Its error is dropped.                                                   *)
TouchFails(r) ==
  /\ requests[r].at = "touching"
  /\ missed' = missed \cup {requests[r].token}
  /\ requests' = [requests EXCEPT ![r] = Free]
  /\ UNCHANGED <<now, sessions, touchCache, seen>>

(* handleRevokeUserSession and handleRevokeScopedSession, and whatever     *)
(* else deletes sessions: the cache keeps its entry.                       *)
Delete(t) == sessions' = [sessions EXCEPT ![t] = Deleted]

RevokeUserSession(t) ==
  /\ sessions[t].kind = "user"
  /\ Delete(t)
  /\ UNCHANGED <<now, touchCache, requests, seen, missed>>

RevokeScopedSession(t) ==
  /\ sessions[t].kind = "scoped"
  /\ Delete(t)
  /\ UNCHANGED <<now, touchCache, requests, seen, missed>>

(* handleLogout asks for no session, drops the error of the store, and     *)
(* takes the entry of the cache away in any case.                          *)
Logout(r, t) ==
  /\ requests[r] = Free /\ sessions[t] # Unissued
  /\ (Live(t) /\ Delete(t)) \/ UNCHANGED sessions
  /\ requests' = [requests EXCEPT ![r] = [at |-> "forgetting", token |-> t]]
  /\ UNCHANGED <<now, touchCache, seen, missed>>

ForgetTouch(r) ==
  /\ requests[r].at = "forgetting"
  /\ touchCache' = [touchCache EXCEPT ![requests[r].token] = NoTime]
  /\ requests' = [requests EXCEPT ![r] = Free]
  /\ UNCHANGED <<now, sessions, seen, missed>>

(* The pruner drops entries that no longer throttle anything.              *)
PruneTouchCache ==
  /\ touchCache' = [t \in Tokens |->
       IF touchCache[t] # NoTime /\ touchCache[t] < now - 2 * TouchInterval
         THEN NoTime ELSE touchCache[t]]
  /\ UNCHANGED <<now, sessions, requests, seen, missed>>

(* A restart empties the cache and drops the requests.                     *)
RestartServer ==
  /\ touchCache' = [t \in Tokens |-> NoTime]
  /\ requests' = [r \in Requests |-> Free]
  /\ missed' = missed \cup {requests[r].token : r \in {x \in Requests : requests[x] # Free}}
  /\ UNCHANGED <<now, sessions, seen>>

Tick ==
  /\ now < Horizon
  /\ now' = now + 1
  /\ UNCHANGED <<sessions, touchCache, requests, seen, missed>>

SessionsNext ==
  \/ \E t \in Tokens : Login(t) \/ CreateScopedSession(t)
                      \/ RevokeUserSession(t) \/ RevokeScopedSession(t)
  \/ \E r \in Requests : \/ \E t \in Tokens : RequireAuth(r, t) \/ Logout(r, t)
                         \/ Throttled(r) \/ CacheTouch(r) \/ TouchSession(r) \/ TouchFails(r)
                         \/ ForgetTouch(r)
  \/ PruneTouchCache \/ RestartServer \/ Tick

SessionsSpec == SessionsInit /\ [][SessionsNext]_sessionVars

(***************************************************************************)
(* Properties.                                                             *)
(***************************************************************************)
Pending(t) == \E r \in Requests : requests[r] # Free /\ requests[r].token = t

(* A user who keeps working is not logged out by the idle window: once the *)
(* requests of a session are through and their touches were written, the   *)
(* stamp is less than two intervals and a second older than its last       *)
(* request.  The two throttles add up, and the stamp and the cutoff lose   *)
(* the fractions that the cache keeps (server.go:1043, sqlite.go:971-988). *)
LagBounded ==
  \A t \in Tokens : sessions[t].kind = "user" /\ ~Pending(t) /\ t \notin missed
     => seen[t] - sessions[t].lastUsed < 2 * TouchInterval + Second

(* What the comment on TouchInterval says: "keeps the idle window accurate *)
(* to within a minute" (sqlite.go:959); a second is granted for the stamp. *)
LagWithinInterval ==
  \A t \in Tokens : sessions[t].kind = "user" /\ ~Pending(t) /\ t \notin missed
     => seen[t] - sessions[t].lastUsed <= TouchInterval + Second

(* Two throttles of one interval each, without the fractions.              *)
LagWithinTwoIntervals ==
  \A t \in Tokens : sessions[t].kind = "user" /\ ~Pending(t) /\ t \notin missed
     => seen[t] - sessions[t].lastUsed < 2 * TouchInterval

=============================================================================
