-------------------------------- MODULE Accounts --------------------------------
(***************************************************************************)
(* How accounts come to be, prove their address, and change passwords.     *)
(*                                                                         *)
(* Sources: internal/server/handle_auth.go, the invite handlers of         *)
(* handle_users.go, the failure counters of internal/ratelimit, and the    *)
(* store methods they call.                                                *)
(*                                                                         *)
(* A worker serves one request; pc names its next store call.  Store calls *)
(* are atomic; between two of them other workers run, a call may fail and  *)
(* the process may die.  req[w] is the request with what the handler has   *)
(* read: the id of the account it found, and whether the password it       *)
(* relied on has been replaced since (stale, seen by properties only).     *)
(*                                                                         *)
(* Verification codes, reset codes and invites are one table here: a code  *)
(* is presented by its index, or 0 for one that was never issued.  A code  *)
(* that outlives its TTL is old.  Sessions are kept as the set of their    *)
(* accounts: those alike in account and staleness are one.  The admins who *)
(* send invites belong to the accounts outside Emails.                     *)
(***************************************************************************)
EXTENDS Naturals, Sequences, FiniteSets

CONSTANTS
  Emails, Passwords, Workers,
  NoUser,
  Requests,        \* what clients send: records of RequestType
  Policies,        \* [inviteOnly, domains]: the instance settings
  MaxFailures,     \* Max of TierVerifyFailure
  MaxFailureKeys,  \* MaxKeys of TierVerifyFailure
  MaxPending,      \* maxPendingVerifications, ...Resets and ...UserInvites
  MaxCodes,        \* bound of the model: codes ever issued
  MaxUsers         \* bound of the model: accounts ever created

Kinds == {"verify", "reset", "invite"}
Ops == {"register", "verify", "resend", "forgot", "reset", "login", "change", "leave",
        "invite", "accept", "revoke", "reinvite"}

RequestType == [op : Ops, email : Emails, pw : Passwords, new : Passwords]

ASSUME WorkersFinite == IsFiniteSet(Workers) /\ Workers # {}
ASSUME NoUserIsNoRow == NoUser \notin [id : Nat, active : BOOLEAN, pw : Passwords]
ASSUME RequestsType == Requests \subseteq RequestType
ASSUME PoliciesType == Policies \subseteq [inviteOnly : BOOLEAN, domains : SUBSET Emails]
ASSUME BoundsType == {MaxFailures, MaxFailureKeys, MaxPending, MaxCodes, MaxUsers} \subseteq Nat

VARIABLES
  users,     \* by address: the row [id, active, pw], or NoUser
  born,      \* rows ever created: the last id
  grants,    \* ids with a grant in the vault
  codes,     \* rows [kind, email, status, old]
  sessions,  \* [id, stale]
  failures,  \* failureCounter.attempts, by kind and address
  settled,   \* accounts outside Emails exist
  policy,
  pc, req

rows == <<users, born, grants, codes, sessions>>
fixed == <<settled, policy>>
vars == <<users, born, grants, codes, sessions, failures, settled, policy, pc, req>>

Present == {e \in Emails : users[e] # NoUser}
Held(id) == {e \in Present : users[e].id = id}
Pending(kind) == {c \in DOMAIN codes : codes[c].kind = kind /\ codes[c].status = "pending"}
Fresh(kind, e) == {c \in Pending(kind) : codes[c].email = e /\ ~codes[c].old}

Idle == [op |-> "none"]

Init ==
  /\ users = [e \in Emails |-> NoUser]
  /\ born = 0
  /\ grants = {}
  /\ codes = <<>>
  /\ sessions = {}
  /\ failures = [k \in Kinds \X Emails |-> 0]
  /\ settled \in BOOLEAN
  /\ policy \in IF settled THEN Policies ELSE {[inviteOnly |-> FALSE, domains |-> Emails]}
  /\ pc = [w \in Workers |-> "idle"]
  /\ req = [w \in Workers |-> Idle]

--------------------------------------------------------------------------------
GoTo(w, label) == pc' = [pc EXCEPT ![w] = label]

(* An answer ends the request. *)
Done(w) == GoTo(w, "idle") /\ req' = [req EXCEPT ![w] = Idle]
Respond(w) == Done(w) /\ UNCHANGED <<rows, failures, fixed>>

Then(w, label) == IF label = "idle" THEN Done(w) ELSE GoTo(w, label) /\ UNCHANGED req
Proceed(w, label) == Then(w, label) /\ UNCHANGED <<rows, failures, fixed>>

At(w, label) == pc[w] = label

FirstStep(op) ==
  CASE op = "register" -> "count"
    [] op \in {"verify", "reset"} -> "check"
    [] op = "forgot" -> "expire"
    [] op \in {"resend", "login", "change"} -> "user"
    [] op = "leave" -> "drop"
    [] op = "invite" -> "offer"
    [] op \in {"accept", "revoke", "reinvite"} -> "invite"

(* requireAuth: change and leave come with a session; the requests of an     *)
(* admin come from an account outside Emails.                                *)
Begin(w, r, c, id) ==
  /\ At(w, "idle")
  /\ c \in IF r.op \in {"verify", "reset", "accept", "revoke", "reinvite"}
           THEN 0..Len(codes) ELSE {0}
  /\ IF r.op \in {"change", "leave"} THEN \E s \in sessions : s.id = id ELSE id = 0
  /\ r.op \in {"invite", "revoke", "reinvite"} => settled
  /\ GoTo(w, FirstStep(r.op))
  /\ req' = [req EXCEPT ![w] =
               [op |-> r.op, email |-> r.email, pw |-> r.pw, new |-> r.new,
                code |-> c, id |-> id, stale |-> FALSE]]
  /\ UNCHANGED <<rows, failures, fixed>>

(* The settings restrict registration once there is a user.  The error of the *)
(* count is dropped: a count that fails reads as none.                        *)
CountUsers(w) ==
  /\ At(w, "count")
  /\ \/ Proceed(w, "user")
     \/ /\ settled \/ Present # {}
        /\ req[w].email \notin policy.domains \/ policy.inviteOnly
        /\ Respond(w)

(* FailureCheck, for verify and reset. *)
FailureCheck(w) ==
  /\ At(w, "check")
  /\ IF failures[req[w].op, req[w].email] < MaxFailures
     THEN Proceed(w, "code") ELSE Respond(w)

(* failureCounter.record: at the limit of keys another one is forgotten. *)
Recorded(k) ==
  LET counted == [failures EXCEPT ![k] = @ + 1]
      others == {j \in DOMAIN failures \ {k} : failures[j] > 0}
  IN IF Cardinality(others) >= MaxFailureKeys
     THEN {[counted EXCEPT ![j] = 0] : j \in others} ELSE {counted}

FailureReset(k) == failures' = [failures EXCEPT ![k] = 0]

(* GetPendingEmailVerification and GetPendingPasswordReset; a store error    *)
(* counts as a wrong code.                                                   *)
MatchCode(w) ==
  LET r == req[w]
  IN /\ At(w, "code")
     /\ \/ r.code \in Fresh(r.op, r.email) /\ Proceed(w, "user")
        \/ /\ failures' \in Recorded(<<r.op, r.email>>)
           /\ Done(w)
           /\ UNCHANGED <<rows, fixed>>

(***************************************************************************)
(* GetUserByEmail, and GetUserByID for a password change.  Registration    *)
(* and invite take an error for a missing row; accepting an invite without *)
(* an account checks the domain.                                           *)
(***************************************************************************)
AfterUser(r, u) ==
  LET known(when, label) == IF u # NoUser /\ when THEN label ELSE "idle"
  IN CASE r.op = "register" -> IF u = NoUser THEN "first" ELSE known(~u.active, "password")
       [] r.op = "verify" -> known(~u.active, "mark")
       [] r.op = "reset" -> known(u.active, "password")
       [] r.op = "resend" -> known(~u.active, "cap")
       [] r.op = "forgot" -> known(u.active, "cap")
       [] r.op = "login" -> known(u.active /\ u.pw = r.pw, "session")
       [] r.op = "change" -> known(u.pw = r.pw, "password")
       [] r.op = "accept" -> IF u = NoUser /\ r.email \notin policy.domains
                             THEN "idle" ELSE "claim"

RowRead(r) ==
  IF r.op # "change" THEN users[r.email]
  ELSE IF Held(r.id) = {} THEN NoUser ELSE users[CHOOSE e \in Held(r.id) : TRUE]

LookUp(w) ==
  /\ At(w, "user")
  /\ \E u \in {RowRead(req[w])}
                \cup (IF req[w].op \in {"register", "accept"} THEN {NoUser} ELSE {}) :
       LET next == AfterUser(req[w], u)
       IN /\ GoTo(w, next)
          /\ req' = [req EXCEPT ![w] =
                       IF next = "idle" THEN Idle
                       ELSE [@ EXCEPT !.id = IF u = NoUser THEN 0 ELSE u.id]]
          /\ UNCHANGED <<rows, failures, fixed>>

(***************************************************************************)
(* UpdateUserPassword, by id.  What relied on the old password is stale:   *)
(* the account's sessions and the requests about to create one.            *)
(***************************************************************************)
AfterPassword == [register |-> "cap", reset |-> "mark", change |-> "drop"]

UpdatePassword(w) ==
  LET r == req[w]
      outdated(v) == v # w /\ pc[v] \in {"drop", "session"} /\ req[v].id = r.id
  IN /\ At(w, "password")
     /\ IF Held(r.id) = {} THEN Respond(w)
        ELSE /\ users' = [e \in Emails |->
                            IF e \in Held(r.id) THEN [users[e] EXCEPT !.pw = r.new]
                            ELSE users[e]]
             /\ sessions' = {IF s.id = r.id THEN [s EXCEPT !.stale = TRUE] ELSE s
                               : s \in sessions}
             /\ req' = [v \in Workers |->
                          IF outdated(v) THEN [req[v] EXCEPT !.stale = TRUE] ELSE req[v]]
             /\ GoTo(w, AfterPassword[r.op])
             /\ UNCHANGED <<born, grants, codes, failures, fixed>>

--------------------------------------------------------------------------------
(* RegisterFirstUser: an active owner with the default vault, if the table   *)
(* is empty.  Otherwise the domain is checked once more.                     *)
NewRow(id, active, pw) == [id |-> id, active |-> active, pw |-> pw]

RegisterFirstUser(w) ==
  /\ At(w, "first")
  /\ IF ~settled /\ Present = {}
     THEN /\ born < MaxUsers
          /\ users' = [users EXCEPT ![req[w].email] = NewRow(born + 1, TRUE, req[w].new)]
          /\ born' = born + 1
          /\ grants' = grants \cup {born + 1}
          /\ req' = [req EXCEPT ![w].id = born + 1]
          /\ GoTo(w, "session")
          /\ UNCHANGED <<codes, sessions, failures, fixed>>
     ELSE IF req[w].email \in policy.domains THEN Proceed(w, "create") ELSE Respond(w)

(* CreateUser: addresses are unique, so the insert of a second row fails. *)
CreateUser(w) ==
  LET r == req[w]
  IN /\ At(w, "create")
     /\ IF users[r.email] # NoUser THEN Respond(w)
        ELSE /\ born < MaxUsers
             /\ users' = [users EXCEPT ![r.email] = NewRow(born + 1, FALSE, r.new)]
             /\ born' = born + 1
             /\ req' = [req EXCEPT ![w].id = born + 1]
             /\ GoTo(w, IF r.op = "register" THEN "cap" ELSE "activate")
             /\ UNCHANGED <<grants, codes, sessions, failures, fixed>>

CodeKind(op) ==
  CASE op \in {"register", "resend"} -> "verify"
    [] op = "forgot" -> "reset"
    [] op \in {"invite", "reinvite"} -> "invite"

CountOneMore(w) ==
  /\ At(w, "cap")
  /\ IF Cardinality(Fresh(CodeKind(req[w].op), req[w].email)) <= MaxPending
     THEN Proceed(w, "send") ELSE Respond(w)

(* generateAndSendVerificationCode and handleForgotPassword count, then       *)
(* insert.                                                                    *)
CountPendingCodes(w) ==
  /\ At(w, "cap")
  /\ IF Cardinality(Fresh(CodeKind(req[w].op), req[w].email)) < MaxPending
     THEN Proceed(w, "send") ELSE Respond(w)

(***************************************************************************)
(* handleUserInviteCreate, one read after another: no account, no pending    *)
(* invite, a domain that is allowed, and room for one more invite in the     *)
(* instance.  The errors of the first two are dropped: a read that fails     *)
(* finds nothing, and the handler goes on.                                   *)
(***************************************************************************)
CheckInvitee(w) ==
  /\ At(w, "offer")
  /\ Proceed(w, "duplicate") \/ (users[req[w].email] # NoUser /\ Respond(w))

CheckDuplicate(w) ==
  /\ At(w, "duplicate")
  /\ Proceed(w, "domain") \/ (Fresh("invite", req[w].email) # {} /\ Respond(w))

CheckDomain(w) ==
  /\ At(w, "domain")
  /\ IF req[w].email \in policy.domains THEN Proceed(w, "room") ELSE Respond(w)

CountInvites(w) ==
  /\ At(w, "room")
  /\ IF Cardinality(Pending("invite")) < MaxPending THEN Proceed(w, "send") ELSE Respond(w)

(* CreateEmailVerification, CreatePasswordReset, CreateUserInvite. *)
InsertCode(w) ==
  /\ At(w, "send")
  /\ Len(codes) < MaxCodes
  /\ codes' = Append(codes, [kind |-> CodeKind(req[w].op), email |-> req[w].email,
                             status |-> "pending", old |-> FALSE])
  /\ Done(w)
  /\ UNCHANGED <<users, born, grants, sessions, failures, fixed>>

(* ExpirePendingPasswordResets; its error is ignored. *)
ExpireResets(w) ==
  /\ At(w, "expire")
  /\ codes' \in {codes, [c \in DOMAIN codes |->
                           IF c \in Pending("reset") /\ codes[c].old
                           THEN [codes[c] EXCEPT !.status = "expired"] ELSE codes[c]]}
  /\ GoTo(w, "user")
  /\ UNCHANGED <<users, born, grants, sessions, failures, fixed, req>>

--------------------------------------------------------------------------------
SetStatus(c, status) == codes' = [codes EXCEPT ![c].status = status]

MarkAnyUsed(w) ==
  /\ At(w, "mark")
  /\ SetStatus(req[w].code, "used")
  /\ GoTo(w, IF req[w].op = "verify" THEN "activate" ELSE "drop")
  /\ UNCHANGED <<users, born, grants, sessions, failures, fixed, req>>

(* MarkEmailVerificationUsed, MarkPasswordResetUsed: from pending only, but   *)
(* without looking at the expiry again.                                       *)
MarkUsed(w) ==
  /\ At(w, "mark")
  /\ IF codes[req[w].code].status # "pending" THEN Respond(w)
     ELSE /\ SetStatus(req[w].code, "used")
          /\ GoTo(w, IF req[w].op = "verify" THEN "activate" ELSE "drop")
          /\ UNCHANGED <<users, born, grants, sessions, failures, fixed, req>>

(* ActivateUser, by id.  A verification then clears its failures. *)
ActivateUser(w) ==
  LET r == req[w]
  IN /\ At(w, "activate")
     /\ IF Held(r.id) = {} THEN Respond(w)
        ELSE /\ users' = [e \in Emails |->
                            IF e \in Held(r.id) THEN [users[e] EXCEPT !.active = TRUE]
                            ELSE users[e]]
             /\ IF r.op = "verify" THEN FailureReset(<<"verify", r.email>>)
                                   ELSE UNCHANGED failures
             /\ GoTo(w, IF r.op = "verify" THEN "session" ELSE "grant")
             /\ UNCHANGED <<born, grants, codes, sessions, fixed, req>>

(* DeleteUserSessions; its error is ignored.  A reset then clears its         *)
(* failures.                                                                  *)
DropSessions(w) ==
  LET r == req[w]
  IN /\ At(w, "drop")
     /\ sessions' \in {sessions, {s \in sessions : s.id # r.id}}
     /\ IF r.op = "reset" THEN FailureReset(<<"reset", r.email>>) ELSE UNCHANGED failures
     /\ GoTo(w, IF r.op = "leave" THEN "delete" ELSE "session")
     /\ UNCHANGED <<users, born, grants, codes, fixed, req>>

SessionWithoutKey(w) ==
  /\ At(w, "session")
  /\ sessions' = sessions \cup {[id |-> req[w].id, stale |-> req[w].stale]}
  /\ Done(w)
  /\ UNCHANGED <<users, born, grants, codes, failures, fixed>>

(* CreateUserSession: the foreign key refuses an account that is gone. *)
CreateUserSession(w) ==
  /\ At(w, "session")
  /\ sessions' = IF Held(req[w].id) = {} THEN sessions
                 ELSE sessions \cup {[id |-> req[w].id, stale |-> req[w].stale]}
  /\ Done(w)
  /\ UNCHANGED <<users, born, grants, codes, failures, fixed>>

(* DeleteUser: the row, by cascade its sessions, and its grants. *)
DeleteUser(w) ==
  LET id == req[w].id
  IN /\ At(w, "delete")
     /\ users' = [e \in Emails |-> IF e \in Held(id) THEN NoUser ELSE users[e]]
     /\ IF Held(id) = {} THEN UNCHANGED <<grants, sessions>>
        ELSE /\ grants' = grants \ {id}
             /\ sessions' = {s \in sessions : s.id # id}
     /\ Done(w)
     /\ UNCHANGED <<born, codes, failures, fixed>>

--------------------------------------------------------------------------------
(* GetUserInviteByToken.  An invite acts for the address it was sent to. *)
ReadInvite(w) ==
  LET r == req[w]
  IN /\ At(w, "invite")
     /\ IF /\ r.code \in Pending("invite")
           /\ r.op = "accept" => ~codes[r.code].old
        THEN /\ GoTo(w, IF r.op = "accept" THEN "user" ELSE "revoke")
             /\ req' = [req EXCEPT ![w].email = codes[r.code].email]
             /\ UNCHANGED <<rows, failures, fixed>>
        ELSE Respond(w)

(* AcceptUserInvite: pending and not expired, in one statement. *)
AcceptUserInvite(w) ==
  LET c == req[w].code
  IN /\ At(w, "claim")
     /\ IF codes[c].status # "pending" \/ codes[c].old THEN Respond(w)
        ELSE /\ SetStatus(c, "accepted")
             /\ GoTo(w, IF req[w].id = 0 THEN "create" ELSE "grant")
             /\ UNCHANGED <<users, born, grants, sessions, failures, fixed, req>>

(* GrantVaultRole has no foreign key to the account. *)
GrantVaultRole(w) ==
  /\ At(w, "grant")
  /\ grants' = grants \cup {req[w].id}
  /\ Done(w)
  /\ UNCHANGED <<users, born, codes, sessions, failures, fixed>>

(* RevokeUserInvite; a reinvite then sends a new one. *)
RevokeUserInvite(w) ==
  LET c == req[w].code
  IN /\ At(w, "revoke")
     /\ IF codes[c].status # "pending" THEN Respond(w)
        ELSE /\ SetStatus(c, "revoked")
             /\ Then(w, IF req[w].op = "reinvite" THEN "send" ELSE "idle")
             /\ UNCHANGED <<users, born, grants, sessions, failures, fixed>>

--------------------------------------------------------------------------------
(* A code outlives its TTL. *)
PassTTL(c) ==
  /\ codes' = [codes EXCEPT ![c].old = TRUE]
  /\ UNCHANGED <<users, born, grants, sessions, failures, fixed, pc, req>>

(* A store call fails or the client goes away. *)
Fail(w) == ~At(w, "idle") /\ Respond(w)

(* The process dies and restarts: the failure counters are in memory. *)
Restart ==
  /\ failures' = [k \in Kinds \X Emails |-> 0]
  /\ pc' = [w \in Workers |-> "idle"]
  /\ req' = [w \in Workers |-> Idle]
  /\ UNCHANGED <<rows, fixed>>

Read(w) == CountUsers(w) \/ FailureCheck(w) \/ MatchCode(w) \/ LookUp(w)
             \/ CountPendingCodes(w) \/ ReadInvite(w)
             \/ CheckInvitee(w) \/ CheckDuplicate(w) \/ CheckDomain(w) \/ CountInvites(w)

Write(w) ==
  \/ UpdatePassword(w)
  \/ RegisterFirstUser(w)
  \/ CreateUser(w)
  \/ InsertCode(w)
  \/ ExpireResets(w)
  \/ MarkUsed(w)
  \/ ActivateUser(w)
  \/ DropSessions(w)
  \/ CreateUserSession(w)
  \/ DeleteUser(w)
  \/ AcceptUserInvite(w)
  \/ GrantVaultRole(w)
  \/ RevokeUserInvite(w)

Next ==
  \/ \E w \in Workers :
       \/ \E r \in Requests, c \in 0..Len(codes), id \in 0..born : Begin(w, r, c, id)
       \/ Read(w)
       \/ Write(w)
       \/ Fail(w)
  \/ \E c \in DOMAIN codes : PassTTL(c)
  \/ Restart

Spec == Init /\ [][Next]_vars

--------------------------------------------------------------------------------
PCs == {"idle", "count", "check", "code", "user", "password", "first", "create", "cap",
        "offer", "duplicate", "domain", "room", "send", "expire", "mark", "activate", "drop",
        "session", "delete", "invite", "claim", "grant", "revoke"}

(* A request is in a worker iff the worker is busy; ids are given once, and *)
(* a row that acts on a code acts on one that exists.                       *)
TypeOK ==
  /\ users \in [Emails -> [id : 1..born, active : BOOLEAN, pw : Passwords] \cup {NoUser}]
  /\ \A d, e \in Present : users[d].id = users[e].id => d = e
  /\ grants \subseteq 1..born
  /\ codes \in Seq([kind : Kinds, email : Emails, old : BOOLEAN,
                    status : {"pending", "used", "accepted", "revoked", "expired"}])
  /\ sessions \subseteq [id : 1..born, stale : BOOLEAN]
  /\ failures \in [Kinds \X Emails -> Nat]
  /\ pc \in [Workers -> PCs]
  /\ DOMAIN req = Workers
  /\ \A w \in Workers :
       IF pc[w] = "idle" THEN req[w] = Idle
       ELSE /\ req[w] \in [op : Ops, email : Emails, pw : Passwords, new : Passwords,
                           code : 0..Len(codes), id : 0..born, stale : BOOLEAN]
            /\ pc[w] \in {"mark", "claim", "revoke"} => req[w].code \in DOMAIN codes

(* A session belongs to an account that exists and proved its address, even *)
(* when a login or a verification meets the deletion of the account and a   *)
(* second registration of its address.                                      *)
SessionsOfVerified ==
  \A s \in sessions : \E e \in Held(s.id) : users[e].active

(* Counting and inserting, and checking and recording a failure, are apart: *)
(* requests at once pass a cap, but by no more than one each; the cap on    *)
(* invites is one for the instance, whoever they are for.                   *)
CapsOvershootBounded ==
  /\ \A k \in DOMAIN failures : failures[k] < MaxFailures + Cardinality(Workers)
  /\ \A kind \in Kinds, e \in Emails :
       Cardinality(Fresh(kind, e)) < MaxPending + Cardinality(Workers)
  /\ Cardinality(Pending("invite")) < MaxPending + Cardinality(Workers)

Claiming(labels) ==
  {req[w].code : w \in {v \in Workers : pc[v] \in labels /\ req[v].op \in {"verify", "accept"}}}

Tickets == {c \in DOMAIN codes : codes[c].kind # "reset"}

Promise == INSTANCE Admission
  WITH account <- [e \in Emails |-> IF users[e] = NoUser THEN "absent"
                                    ELSE IF users[e].active THEN "active" ELSE "unverified"],
       member <- {e \in Present : users[e].id \in grants},
       owner <- [c \in Tickets |-> codes[c].email],
       open <- {c \in Tickets : codes[c].status = "pending"},
       claimed <- Claiming({"create", "activate"}),
       admitted <- Claiming({"grant"})

(* Whatever store calls interleave or fail: nobody becomes active without a  *)
(* code or an invite for that address, claimed once (the module Admission).  *)
ImplementsAdmission == Promise!Spec

(* docs/learn/security.mdx: "invalidate every session at once via account      *)
(* change-password": outside of a change, no session rests on an old password. *)
PasswordChangeEndsSessions ==
  \A s \in sessions :
    s.stale => \E w \in Workers : pc[w] \in {"mark", "drop"} /\ req[w].id = s.id

(* docs/guides/instance-settings.mdx: "When invite-only mode is enabled,      *)
(* self-registration is completely disabled."                                 *)
InviteOnlyHolds ==
  [][\A w \in Workers : CreateUser(w) /\ req[w].op = "register" /\ born' > born
        => ~policy.inviteOnly]_vars

(* "A pending invite already exists": an address has one invite at a time     *)
(* (handle_users.go:356).                                                     *)
OneInviteEach == \A e \in Emails : Cardinality(Fresh("invite", e)) <= 1

(* A reset code changes the password once. *)
ResetChangesOnce ==
  \A v, w \in Workers :
    /\ v # w /\ req[v] # Idle /\ req[w] # Idle
    /\ req[v].op = "reset" /\ req[v].code = req[w].code
    => ~(pc[v] = "mark" /\ pc[w] \in {"mark", "drop"})
================================================================================
