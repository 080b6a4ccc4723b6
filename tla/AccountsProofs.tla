---------------------------- MODULE AccountsProofs ----------------------------
(***************************************************************************)
(* Proofs about Accounts.                                                  *)
(*                                                                         *)
(* A worker acts on what it read some store calls ago.  What keeps that    *)
(* right: ids are given once, so that the row of an id is the one that was *)
(* found or none; a code keeps its kind and address, and is claimed by one *)
(* statement that tells whether it was the first.  AInv says so, AInv and  *)
(* CapsCounted are inductive, and under AInv every step is one of the      *)
(* module Admission.                                                       *)
(***************************************************************************)
EXTENDS Accounts, FiniteSetTheorems, TLAPS

RequestIn(ids, places) ==
  [op : Ops, email : Emails, pw : Passwords, new : Passwords,
   code : places, id : ids, stale : BOOLEAN]
RowIn(ids) == [id : ids, active : BOOLEAN, pw : Passwords]
CodeIn == [kind : Kinds, email : Emails, old : BOOLEAN,
           status : {"pending", "used", "accepted", "revoked", "expired"}]

RowsType ==
  /\ born \in Nat
  /\ users \in [Emails -> RowIn(1..born) \cup {NoUser}]
  /\ \A d, e \in Present : users[d].id = users[e].id => d = e
  /\ grants \subseteq 1..born
  /\ codes \in Seq(CodeIn)
  /\ sessions \subseteq [id : 1..born, stale : BOOLEAN]
  /\ failures \in [Kinds \X Emails -> Nat]

RequestFits(label, r) ==
  IF label = "idle" THEN r = Idle
  ELSE /\ r \in RequestIn(0..born, 0..Len(codes))
       /\ label \in {"mark", "claim", "revoke"} => r.code \in DOMAIN codes

ControlType ==
  /\ pc \in [Workers -> PCs]
  /\ DOMAIN req = Workers
  /\ \A w \in Workers : RequestFits(pc[w], req[w])

LEMMA TypesAre == TypeOK /\ born \in Nat <=> RowsType /\ ControlType
  BY DEF TypeOK, RowsType, ControlType, RequestFits, RequestIn, RowIn, CodeIn

(* Which request is at which store call.                                   *)
Fits(label, op) ==
  /\ label \in {"count", "first"} => op = "register"
  /\ label \in {"check", "code", "mark"} => op \in {"verify", "reset"}
  /\ label = "user" => op \in {"register", "verify", "reset", "resend", "forgot", "login",
                               "change", "accept"}
  /\ label = "password" => op \in {"register", "reset", "change"}
  /\ label = "create" => op \in {"register", "accept"}
  /\ label = "cap" => op \in {"register", "resend", "forgot"}
  /\ label \in {"offer", "duplicate", "domain", "room"} => op = "invite"
  /\ label = "send" => op \in {"register", "resend", "forgot", "invite", "reinvite"}
  /\ label = "expire" => op = "forgot"
  /\ label = "activate" => op \in {"verify", "accept"}
  /\ label = "drop" => op \in {"reset", "change", "leave"}
  /\ label = "session" => op \in {"register", "verify", "reset", "login", "change"}
  /\ label = "delete" => op = "leave"
  /\ label = "invite" => op \in {"accept", "revoke", "reinvite"}
  /\ label = "revoke" => op \in {"revoke", "reinvite"}
  /\ label \in {"claim", "grant"} => op = "accept"

KindFor(op) == IF op \in {"verify", "reset"} THEN op ELSE "invite"

Proven(id) == \A e \in Held(id) : users[e].active

(* A code that was found is of the right kind and for the right address.   *)
CodeKnown(label, r) ==
  /\ label \in {"user", "password", "mark", "claim", "create", "activate", "grant", "revoke"}
  /\ r.op \in {"verify", "reset", "accept", "revoke", "reinvite"}
  => /\ r.code \in DOMAIN codes
     /\ codes[r.code].kind = KindFor(r.op) /\ codes[r.code].email = r.email

(* The row that was found is, if it is still there, that of the address.   *)
RowKnown(label, r) ==
  label \in {"mark", "claim", "create", "activate", "grant"} /\ r.op \in {"verify", "accept"}
  => \A e \in Held(r.id) : e = r.email

Claims(label, op) == label \in {"create", "activate", "grant"} /\ op \in {"verify", "accept"}

(* Who is about to get a session has an active row, or none any more.      *)
ProvenFor(label, r) ==
  \/ label = "session" \/ r.op = "change"
  \/ r.op = "reset" /\ label \in {"password", "mark", "drop"}
  => Proven(r.id)

Knows(label, r) ==
  /\ Fits(label, r.op)
  /\ CodeKnown(label, r) /\ RowKnown(label, r) /\ ProvenFor(label, r)
  /\ Claims(label, r.op) => codes[r.code].status # "pending"
  /\ label = "grant" => r.id # 0

AllKnow == \A w \in Workers : pc[w] # "idle" => Knows(pc[w], req[w])

ClaimedOnce ==
  \A v, w \in Workers :
    v # w /\ Claims(pc[v], req[v].op) /\ Claims(pc[w], req[w].op) => req[v].code # req[w].code

AInv == RowsType /\ ControlType /\ AllKnow /\ ClaimedOnce /\ SessionsOfVerified

(***************************************************************************)
(* What a step of w leaves of the others.                                  *)
(***************************************************************************)
OnlyMoves(w) ==
  /\ pc' \in [Workers -> PCs] /\ \A v \in Workers \ {w} : pc'[v] = pc[v]
  /\ DOMAIN req' = Workers
  /\ \A v \in Workers \ {w} :
       req'[v] = req[v] \/ (pc[v] # "idle" /\ req'[v] = [req[v] EXCEPT !.stale = TRUE])

(* Rows keep their id and stay active; a new one has a new id.             *)
RowsKept ==
  /\ born' >= born
  /\ \A e \in Emails : users'[e] # NoUser =>
       \/ users'[e].id > born
       \/ users[e] # NoUser /\ users'[e].id = users[e].id /\ (users[e].active => users'[e].active)

CodesKept ==
  /\ Len(codes') >= Len(codes)
  /\ \A c \in DOMAIN codes :
       /\ codes'[c].kind = codes[c].kind /\ codes'[c].email = codes[c].email
       /\ codes'[c].status = "pending" => codes[c].status = "pending"

Kept == RowsKept /\ CodesKept

LEMMA NothingWritten == UNCHANGED <<users, born, codes>> /\ RowsType => Kept
  BY DEF Kept, RowsKept, CodesKept, RowsType

LEMMA OthersFit ==
  ASSUME RowsType, RowsType', ControlType, Kept, NEW w \in Workers, OnlyMoves(w),
         RequestFits(pc[w], req[w])'
  PROVE  ControlType'
<1>1. ASSUME NEW v \in Workers, v # w PROVE RequestFits(pc[v], req[v])'
  <2>1. pc'[v] = pc[v] /\ RequestFits(pc[v], req[v])
    BY <1>1 DEF OnlyMoves, ControlType
  <2>2. 0..born \subseteq 0..born' /\ 0..Len(codes) \subseteq 0..Len(codes') /\ DOMAIN codes \subseteq DOMAIN codes'
    BY DEF RowsType, Kept, RowsKept, CodesKept
  <2>3. CASE pc[v] = "idle"
    BY <1>1, <2>1, <2>3 DEF OnlyMoves, RequestFits
  <2>4. CASE pc[v] # "idle"
    <3>1. /\ req[v] \in RequestIn(0..born', 0..Len(codes'))
          /\ pc[v] \in {"mark", "claim", "revoke"} => req[v].code \in DOMAIN codes'
      BY <2>1, <2>2, <2>4 DEF RequestFits, RequestIn
    <3>2. /\ req'[v] \in RequestIn(0..born', 0..Len(codes')) /\ req'[v].code = req[v].code
      BY <1>1, <3>1 DEF OnlyMoves, RequestIn
    <3> QED
      BY <2>1, <2>4, <3>1, <3>2 DEF RequestFits
  <2> QED
    BY <2>3, <2>4
<1> QED
  BY <1>1 DEF ControlType, OnlyMoves

LEMMA KnownStays ==
  ASSUME RowsType, RowsType', Kept, NEW label \in PCs \ {"idle"},
         NEW r \in RequestIn(0..born, 0..Len(codes)), Knows(label, r)
  PROVE  Knows(label, r)'
<1>1. \A e \in Held(r.id)' : e \in Held(r.id) /\ (users[e].active => users'[e].active)
  <2> SUFFICES ASSUME NEW e \in Held(r.id)'
               PROVE  e \in Held(r.id) /\ (users[e].active => users'[e].active)
    OBVIOUS
  <2>1. e \in Emails /\ users'[e] # NoUser /\ users'[e].id = r.id
    BY DEF Held, Present
  <2>2. r.id <= born /\ r.id \in Nat /\ born \in Nat
    BY DEF RequestIn, RowsType
  <2> QED
    BY <2>1, <2>2 DEF Kept, RowsKept, Held, Present
<1>2. ASSUME r.code \in DOMAIN codes
      PROVE  /\ r.code \in DOMAIN codes'
             /\ codes'[r.code].kind = codes[r.code].kind
             /\ codes'[r.code].email = codes[r.code].email
             /\ codes[r.code].status # "pending" => codes'[r.code].status # "pending"
  BY <1>2 DEF Kept, CodesKept, RowsType
<1>3. CodeKnown(label, r)'
  BY <1>2 DEF Knows, CodeKnown
<1>4. RowKnown(label, r)'
  BY <1>1 DEF Knows, RowKnown
<1>5. ProvenFor(label, r)'
  <2>1. Proven(r.id) => Proven(r.id)'
    BY <1>1 DEF Proven
  <2> QED
    BY <2>1 DEF Knows, ProvenFor
<1>6. Claims(label, r.op) => codes'[r.code].status # "pending"
  BY <1>2 DEF Knows, CodeKnown, Claims
<1> QED
  BY <1>3, <1>4, <1>5, <1>6 DEF Knows

LEMMA StaleStillKnows ==
  ASSUME NEW label, NEW r \in RequestIn(0..born, 0..Len(codes)), Knows(label, r)
  PROVE  Knows(label, [r EXCEPT !.stale = TRUE])
<1> DEFINE q == [r EXCEPT !.stale = TRUE]
<1>1. q.op = r.op /\ q.email = r.email /\ q.code = r.code /\ q.id = r.id
  BY DEF RequestIn
<1> HIDE DEF q
<1> QED
  BY <1>1 DEF Knows, CodeKnown, RowKnown, ProvenFor, q

LEMMA OthersKnow ==
  ASSUME RowsType, RowsType', ControlType, AllKnow, Kept, NEW w \in Workers, OnlyMoves(w),
         (pc[w] # "idle" => Knows(pc[w], req[w]))'
  PROVE  AllKnow'
<1>1. ASSUME NEW v \in Workers, v # w, pc'[v] # "idle" PROVE Knows(pc[v], req[v])'
  <2>1. pc'[v] = pc[v] /\ pc[v] \in PCs \ {"idle"}
    BY <1>1 DEF OnlyMoves, ControlType
  <2>2. req[v] \in RequestIn(0..born, 0..Len(codes)) /\ Knows(pc[v], req[v])
    BY <1>1, <2>1 DEF ControlType, RequestFits, AllKnow
  <2> DEFINE r == [req[v] EXCEPT !.stale = TRUE]
  <2>3. CASE req'[v] = req[v]
    BY <2>1, <2>2, <2>3, KnownStays
  <2>4. CASE req'[v] = r
    <3>1. r \in RequestIn(0..born, 0..Len(codes))
      BY <2>2 DEF RequestIn
    <3>2. Knows(pc[v], r)
      BY <2>2, StaleStillKnows
    <3> HIDE DEF r
    <3> QED
      BY <2>1, <2>4, <3>1, <3>2, KnownStays
  <2> QED
    BY <1>1, <2>3, <2>4 DEF OnlyMoves
<1> QED
  BY <1>1 DEF AllKnow

LEMMA OthersClaim ==
  ASSUME ControlType, AllKnow, ClaimedOnce, NEW w \in Workers, OnlyMoves(w),
         Claims(pc'[w], req'[w].op) =>
           \/ Claims(pc[w], req[w].op) /\ req'[w].code = req[w].code
           \/ codes[req'[w].code].status = "pending"
  PROVE  ClaimedOnce'
<1>1. ASSUME NEW v \in Workers \ {w}, Claims(pc'[v], req'[v].op)
      PROVE  /\ Claims(pc[v], req[v].op) /\ req'[v].code = req[v].code
             /\ codes[req[v].code].status # "pending"
  <2>1. pc'[v] = pc[v] /\ pc[v] \in {"create", "activate", "grant"}
    BY <1>1 DEF OnlyMoves, Claims
  <2>2. req[v] \in RequestIn(0..born, 0..Len(codes)) /\ Knows(pc[v], req[v])
    BY <2>1 DEF ControlType, RequestFits, AllKnow
  <2>3. req'[v].op = req[v].op /\ req'[v].code = req[v].code
    BY <2>2 DEF OnlyMoves, RequestIn
  <2> QED
    BY <1>1, <2>1, <2>2, <2>3 DEF Knows
<1>2. ASSUME NEW v \in Workers \ {w}, Claims(pc'[v], req'[v].op), Claims(pc'[w], req'[w].op)
      PROVE  req'[v].code # req'[w].code
  <2>1. /\ Claims(pc[v], req[v].op) /\ req'[v].code = req[v].code
        /\ codes[req[v].code].status # "pending"
    BY <1>1, <1>2
  <2>2. CASE Claims(pc[w], req[w].op) /\ req'[w].code = req[w].code
    BY <2>1, <2>2 DEF ClaimedOnce
  <2>3. CASE codes[req'[w].code].status = "pending"
    BY <2>1, <2>3
  <2> QED
    BY <1>2, <2>2, <2>3
<1>3. ASSUME NEW u \in Workers \ {w}, NEW v \in Workers \ {w}, u # v,
             Claims(pc'[u], req'[u].op), Claims(pc'[v], req'[v].op)
      PROVE  req'[u].code # req'[v].code
  BY <1>1, <1>3 DEF ClaimedOnce
<1> QED
  BY <1>2, <1>3 DEF ClaimedOnce

(* Sessions stay those of active accounts as long as rows are not deleted. *)
RowsStay ==
  \A e \in Present :
    users'[e] # NoUser /\ users'[e].id = users[e].id /\ (users[e].active => users'[e].active)

LEMMA SessionsStay ==
  ASSUME SessionsOfVerified, RowsStay, \A s \in sessions' : \E t \in sessions : t.id = s.id
  PROVE  SessionsOfVerified'
<1>1. ASSUME NEW s \in sessions' PROVE \E e \in Held(s.id)' : users'[e].active
  <2>1. PICK t \in sessions : t.id = s.id
    BY <1>1
  <2>2. PICK e \in Held(t.id) : users[e].active
    BY DEF SessionsOfVerified
  <2>3. e \in Present /\ users[e].id = s.id
    BY <2>1, <2>2 DEF Held
  <2>4. users'[e] # NoUser /\ users'[e].id = s.id /\ users'[e].active
    BY <2>2, <2>3 DEF RowsStay
  <2> QED
    BY <2>3, <2>4 DEF Held, Present
<1> QED
  BY <1>1 DEF SessionsOfVerified

LEMMA StepKeeps ==
  ASSUME AInv, RowsType', Kept, NEW w \in Workers, OnlyMoves(w),
         RequestFits(pc[w], req[w])', (pc[w] # "idle" => Knows(pc[w], req[w]))',
         Claims(pc'[w], req'[w].op) =>
           \/ Claims(pc[w], req[w].op) /\ req'[w].code = req[w].code
           \/ codes[req'[w].code].status = "pending",
         SessionsOfVerified'
  PROVE  AInv'
<1>1. ControlType'
  BY OthersFit DEF AInv
<1>2. AllKnow'
  BY OthersKnow DEF AInv
<1>3. ClaimedOnce'
  BY OthersClaim DEF AInv
<1> QED
  BY <1>1, <1>2, <1>3 DEF AInv

LEMMA EndsMove ==
  ASSUME ControlType, NEW w \in Workers, Done(w)
  PROVE  OnlyMoves(w) /\ pc'[w] = "idle" /\ req'[w] = Idle
  BY DEF ControlType, Done, GoTo, OnlyMoves, PCs

LEMMA GoesMove ==
  ASSUME ControlType, NEW w \in Workers, NEW label \in PCs, GoTo(w, label), UNCHANGED req
  PROVE  OnlyMoves(w) /\ pc'[w] = label /\ req'[w] = req[w]
  BY DEF ControlType, GoTo, OnlyMoves

(* A request that ends with what it wrote.                                 *)
LEMMA EndKeeps ==
  ASSUME AInv, RowsType', Kept, NEW w \in Workers, Done(w), SessionsOfVerified'
  PROVE  AInv'
<1>1. OnlyMoves(w) /\ pc'[w] = "idle" /\ req'[w] = Idle
  BY EndsMove DEF AInv
<1>2. RequestFits(pc[w], req[w])' /\ (pc[w] # "idle" => Knows(pc[w], req[w]))'
  BY <1>1 DEF RequestFits, Idle
<1>3. ~Claims(pc'[w], req'[w].op)
  BY <1>1 DEF Claims
<1> QED
  BY <1>1, <1>2, <1>3, StepKeeps

LEMMA RowsUnchanged ==
  ASSUME AInv, UNCHANGED rows, failures' \in [Kinds \X Emails -> Nat]
  PROVE  RowsType' /\ Kept /\ SessionsOfVerified'
  BY NothingWritten DEF AInv, rows, RowsType, Present, SessionsOfVerified, Held

LEMMA RespondKeeps ==
  ASSUME AInv, NEW w \in Workers, Respond(w)
  PROVE  AInv'
  BY RowsUnchanged, EndKeeps DEF Respond, AInv, RowsType

(* A request that goes on to another store call, with what it knew.        *)
LEMMA GoOnKeeps ==
  ASSUME AInv, RowsType', Kept, NEW w \in Workers, pc[w] # "idle",
         NEW label \in PCs \ {"idle"}, GoTo(w, label), UNCHANGED req, SessionsOfVerified',
         label \in {"mark", "claim", "revoke"} => req[w].code \in DOMAIN codes,
         Knows(label, req[w]),
         Claims(label, req[w].op) => Claims(pc[w], req[w].op)
  PROVE  AInv'
<1>1. OnlyMoves(w) /\ pc'[w] = label /\ req'[w] = req[w]
  BY GoesMove DEF AInv
<1>2. req[w] \in RequestIn(0..born, 0..Len(codes))
  BY DEF AInv, ControlType, RequestFits
<1>3. Knows(label, req[w])'
  BY <1>1, <1>2, KnownStays DEF AInv
<1>4. RequestFits(pc[w], req[w])'
  <2>1. req[w] \in RequestIn(0..born', 0..Len(codes')) /\ DOMAIN codes \subseteq DOMAIN codes'
    BY <1>2 DEF RequestIn, AInv, RowsType, Kept, RowsKept, CodesKept
  <2> QED
    BY <1>1, <2>1 DEF RequestFits
<1> QED
  BY <1>1, <1>3, <1>4, StepKeeps

(* A request that is new, or that has learnt something.                    *)
LEMMA LearnKeeps ==
  ASSUME AInv, RowsType', Kept, NEW w \in Workers, OnlyMoves(w), SessionsOfVerified',
         NEW label \in PCs \ {"idle"}, pc'[w] = label,
         NEW r \in RequestIn(0..born, 0..Len(codes)), req'[w] = r,
         label \in {"mark", "claim", "revoke"} => r.code \in DOMAIN codes,
         Knows(label, r), ~Claims(label, r.op)
  PROVE  AInv'
<1>1. Knows(pc[w], req[w])'
  BY KnownStays DEF AInv
<1>2. RequestFits(pc[w], req[w])'
  <2>1. r \in RequestIn(0..born', 0..Len(codes')) /\ DOMAIN codes \subseteq DOMAIN codes'
    BY DEF RequestIn, AInv, RowsType, Kept, RowsKept, CodesKept
  <2> QED
    BY <2>1 DEF RequestFits
<1> QED
  BY <1>1, <1>2, StepKeeps

(***************************************************************************)
(* The steps that read.                                                    *)
(***************************************************************************)
LEMMA BeginKeeps ==
  ASSUME AInv, NEW w \in Workers, NEW q \in Requests, NEW c \in 0..Len(codes),
         NEW id \in 0..born, Begin(w, q, c, id)
  PROVE  AInv'
<1> DEFINE r == [op |-> q.op, email |-> q.email, pw |-> q.pw, new |-> q.new,
                 code |-> c, id |-> id, stale |-> FALSE]
           label == FirstStep(q.op)
<1>1. q \in RequestType
  BY RequestsType
<1>2. r \in RequestIn(0..born, 0..Len(codes))
  BY <1>1 DEF RequestType, RequestIn
<1>3. label \in {"count", "check", "expire", "user", "drop", "offer", "invite"}
      /\ Fits(label, q.op)
      /\ (label = "user" => q.op \in {"resend", "login", "change"})
      /\ (label = "drop" => q.op = "leave")
  <2>1. q.op \in Ops
    BY <1>1 DEF RequestType
  <2>2. Fits(FirstStep(q.op), q.op)
    BY <2>1 DEF Ops, FirstStep, Fits
  <2> QED
    BY <2>1, <2>2 DEF Ops, FirstStep
<1>4. q.op = "change" => Proven(id)
  <2> SUFFICES ASSUME q.op = "change" PROVE Proven(id)
    OBVIOUS
  <2>1. PICK s \in sessions : s.id = id
    BY DEF Begin
  <2>2. PICK e \in Held(id) : users[e].active
    BY <2>1 DEF AInv, SessionsOfVerified
  <2>3. \A d \in Held(id) : d = e
    BY <2>2 DEF Held, AInv, RowsType
  <2> QED
    BY <2>2, <2>3 DEF Proven
<1>5. /\ pc' = [pc EXCEPT ![w] = label] /\ req' = [req EXCEPT ![w] = r]
      /\ UNCHANGED rows /\ UNCHANGED failures
  BY DEF Begin, GoTo
<1> HIDE DEF label
<1>6. OnlyMoves(w) /\ pc'[w] = label /\ req'[w] = r
  BY <1>3, <1>5 DEF AInv, ControlType, OnlyMoves, PCs
<1>7. RowsType' /\ Kept /\ SessionsOfVerified'
  BY <1>5, RowsUnchanged DEF AInv, RowsType
<1>8. Knows(label, r) /\ ~Claims(label, r.op)
  <2>1. r.op = q.op /\ r.id = id
    OBVIOUS
  <2> HIDE DEF r
  <2>2. CodeKnown(label, r)
    BY <1>3, <2>1 DEF CodeKnown
  <2>3. RowKnown(label, r) /\ ProvenFor(label, r)
    BY <1>3, <1>4, <2>1 DEF RowKnown, ProvenFor
  <2> QED
    BY <1>3, <2>1, <2>2, <2>3 DEF Knows, Claims
<1>9. label \in PCs \ {"idle"}
  BY <1>3 DEF PCs
<1> HIDE DEF r
<1> QED
  BY <1>2, <1>3, <1>6, <1>7, <1>8, <1>9, LearnKeeps

LEMMA BusyKnows ==
  ASSUME AInv, NEW w \in Workers, pc[w] # "idle"
  PROVE  req[w] \in RequestIn(0..born, 0..Len(codes)) /\ Knows(pc[w], req[w]) /\ Fits(pc[w], req[w].op)
  BY DEF AInv, ControlType, RequestFits, AllKnow, Knows

LEMMA ProceedKeeps ==
  ASSUME AInv, NEW w \in Workers, pc[w] # "idle", NEW label \in PCs \ {"idle"},
         Proceed(w, label),
         label \in {"mark", "claim", "revoke"} => req[w].code \in DOMAIN codes,
         Knows(label, req[w]),
         Claims(label, req[w].op) => Claims(pc[w], req[w].op)
  PROVE  AInv'
<1>1. GoTo(w, label) /\ UNCHANGED req /\ UNCHANGED rows /\ UNCHANGED failures
  BY DEF Proceed, Then
<1>2. RowsType' /\ Kept /\ SessionsOfVerified'
  BY <1>1, RowsUnchanged DEF AInv, RowsType
<1> QED
  BY <1>1, <1>2, GoOnKeeps

(* Reads that only decide whether the request goes on.                     *)
LEMMA DecidingKeeps ==
  ASSUME AInv, NEW w \in Workers,
         CountUsers(w) \/ FailureCheck(w) \/ CountPendingCodes(w)
           \/ CheckInvitee(w) \/ CheckDuplicate(w) \/ CheckDomain(w) \/ CountInvites(w)
  PROVE  AInv'
<1>1. pc[w] \in {"count", "check", "cap", "offer", "duplicate", "domain", "room"}
  BY DEF CountUsers, FailureCheck, CountPendingCodes, CheckInvitee, CheckDuplicate, CheckDomain,
         CountInvites, At
<1>2. req[w] \in RequestIn(0..born, 0..Len(codes)) /\ Fits(pc[w], req[w].op)
  BY <1>1, BusyKnows
<1>3. /\ pc[w] = "count" => req[w].op = "register" /\ Knows("user", req[w])
      /\ pc[w] = "check" => Knows("code", req[w])
      /\ pc[w] \in {"cap", "room"} => Knows("send", req[w])
      /\ pc[w] = "offer" => Knows("duplicate", req[w])
      /\ pc[w] = "duplicate" => Knows("domain", req[w])
      /\ pc[w] = "domain" => Knows("room", req[w])
  BY <1>2 DEF Fits, Knows, CodeKnown, RowKnown, ProvenFor, Claims
<1>4. CASE CountUsers(w)
  <2>1. pc[w] = "count" /\ (Proceed(w, "user") \/ Respond(w))
    BY <1>4 DEF CountUsers, At
  <2> QED
    BY <2>1, <1>3, ProceedKeeps, RespondKeeps DEF PCs, Claims
<1>5. CASE FailureCheck(w)
  <2>1. pc[w] = "check" /\ (Proceed(w, "code") \/ Respond(w))
    BY <1>5 DEF FailureCheck, At
  <2> QED
    BY <2>1, <1>3, ProceedKeeps, RespondKeeps DEF PCs, Claims
<1>6. CASE CountPendingCodes(w)
  <2>1. pc[w] = "cap" /\ (Proceed(w, "send") \/ Respond(w))
    BY <1>6 DEF CountPendingCodes, At
  <2> QED
    BY <2>1, <1>3, ProceedKeeps, RespondKeeps DEF PCs, Claims
<1>7. CASE CheckInvitee(w)
  <2>1. pc[w] = "offer" /\ (Proceed(w, "duplicate") \/ Respond(w))
    BY <1>7 DEF CheckInvitee, At
  <2> QED
    BY <2>1, <1>3, ProceedKeeps, RespondKeeps DEF PCs, Claims
<1>8. CASE CheckDuplicate(w)
  <2>1. pc[w] = "duplicate" /\ (Proceed(w, "domain") \/ Respond(w))
    BY <1>8 DEF CheckDuplicate, At
  <2> QED
    BY <2>1, <1>3, ProceedKeeps, RespondKeeps DEF PCs, Claims
<1>9. CASE CheckDomain(w)
  <2>1. pc[w] = "domain" /\ (Proceed(w, "room") \/ Respond(w))
    BY <1>9 DEF CheckDomain, At
  <2> QED
    BY <2>1, <1>3, ProceedKeeps, RespondKeeps DEF PCs, Claims
<1>10. CASE CountInvites(w)
  <2>1. pc[w] = "room" /\ (Proceed(w, "send") \/ Respond(w))
    BY <1>10 DEF CountInvites, At
  <2> QED
    BY <2>1, <1>3, ProceedKeeps, RespondKeeps DEF PCs, Claims
<1> QED
  BY <1>4, <1>5, <1>6, <1>7, <1>8, <1>9, <1>10

LEMMA RecordedTypes ==
  ASSUME failures \in [Kinds \X Emails -> Nat], NEW k \in Kinds \X Emails,
         NEW f \in Recorded(k)
  PROVE  f \in [Kinds \X Emails -> Nat]
  BY DEF Recorded

LEMMA MatchKeeps ==
  ASSUME AInv, NEW w \in Workers, MatchCode(w)
  PROVE  AInv'
<1> DEFINE r == req[w]
<1>1. pc[w] = "code"
  BY DEF MatchCode, At
<1>2. r \in RequestIn(0..born, 0..Len(codes)) /\ r.op \in {"verify", "reset"}
  BY <1>1, BusyKnows DEF Fits
<1>3. CASE r.code \in Fresh(r.op, r.email) /\ Proceed(w, "user")
  <2>1. Knows("user", r)
    BY <1>2, <1>3 DEF Knows, Fits, CodeKnown, RowKnown, ProvenFor, Claims, Fresh, Pending, KindFor
  <2> QED
    BY <1>1, <1>3, <2>1, ProceedKeeps DEF PCs, Claims
<1>4. CASE /\ failures' \in Recorded(<<r.op, r.email>>) /\ Done(w) /\ UNCHANGED rows
  <2>1. <<r.op, r.email>> \in Kinds \X Emails
    BY <1>2 DEF RequestIn, Kinds
  <2>2. failures' \in [Kinds \X Emails -> Nat]
    BY <1>4, <2>1, RecordedTypes DEF AInv, RowsType
  <2> QED
    BY <1>4, <2>2, RowsUnchanged, EndKeeps
<1> QED
  BY <1>3, <1>4 DEF MatchCode

LEMMA AfterUserGoes ==
  ASSUME NEW r, NEW u,
         r.op \in {"register", "verify", "reset", "resend", "forgot", "login", "change", "accept"}
  PROVE  LET label == AfterUser(r, u)
         IN label # "idle" =>
              /\ label \in {"first", "password", "mark", "cap", "session", "claim"}
              /\ Fits(label, r.op)
              /\ label \notin {"first", "claim"} => u # NoUser
              /\ label = "session" \/ r.op = "reset" => u # NoUser /\ u.active
<1>1. CASE r.op = "register"
  BY <1>1 DEF AfterUser, Fits
<1>2. CASE r.op = "verify"
  BY <1>2 DEF AfterUser, Fits
<1>3. CASE r.op = "reset"
  BY <1>3 DEF AfterUser, Fits
<1>4. CASE r.op = "resend" \/ r.op = "forgot"
  BY <1>4 DEF AfterUser, Fits
<1>5. CASE r.op = "login"
  BY <1>5 DEF AfterUser, Fits
<1>6. CASE r.op = "change"
  BY <1>6 DEF AfterUser, Fits
<1>7. CASE r.op = "accept"
  BY <1>7 DEF AfterUser, Fits
<1> QED
  BY <1>1, <1>2, <1>3, <1>4, <1>5, <1>6, <1>7

(* What a look-up returns: no row, the row of the address, or that of the  *)
(* session's account.                                                      *)
LEMMA RowFound ==
  ASSUME RowsType, NEW r \in RequestIn(0..born, 0..Len(codes)),
         NEW u \in {RowRead(r), NoUser}, u # NoUser
  PROVE  /\ u.id \in 1..born
         /\ \E d \in Present : u = users[d] /\ Held(u.id) = {d}
                               /\ IF r.op = "change" THEN u.id = r.id ELSE d = r.email
<1>1. PICK d \in Present : u = users[d] /\ IF r.op = "change" THEN u.id = r.id ELSE d = r.email
  <2>1. CASE r.op # "change"
    BY <2>1 DEF RowRead, RequestIn, Present
  <2>2. CASE r.op = "change"
    <3>1. Held(r.id) # {} /\ u = users[CHOOSE e \in Held(r.id) : TRUE]
      BY <2>2 DEF RowRead
    <3>2. (CHOOSE e \in Held(r.id) : TRUE) \in Held(r.id)
      BY <3>1
    <3> QED
      BY <2>2, <3>1, <3>2 DEF Held
  <2> QED
    BY <2>1, <2>2
<1>2. u.id \in 1..born
  BY <1>1 DEF RowsType, RowIn, Present
<1>3. Held(u.id) = {d}
  BY <1>1 DEF Held, RowsType
<1> QED
  BY <1>1, <1>2, <1>3

LEMMA LookUpKeeps ==
  ASSUME AInv, NEW w \in Workers, LookUp(w)
  PROVE  AInv'
<1> DEFINE r == req[w]
<1>1. pc[w] = "user"
  BY DEF LookUp, At
<1>2. r \in RequestIn(0..born, 0..Len(codes)) /\ Knows("user", r) /\ Fits("user", r.op)
  BY <1>1, BusyKnows
<1>3. PICK u \in {RowRead(r), NoUser} :
        /\ GoTo(w, AfterUser(r, u))
        /\ req' = [req EXCEPT ![w] = IF AfterUser(r, u) = "idle" THEN Idle
                                     ELSE [@ EXCEPT !.id = IF u = NoUser THEN 0 ELSE u.id]]
        /\ UNCHANGED <<rows, failures, fixed>>
  BY DEF LookUp
<1> DEFINE label == AfterUser(r, u)
           q == [r EXCEPT !.id = IF u = NoUser THEN 0 ELSE u.id]
<1>4. CASE label = "idle"
  BY <1>3, <1>4, RespondKeeps DEF Respond, Done
<1>5. CASE label # "idle"
  <2>1. r.op \in {"register", "verify", "reset", "resend", "forgot", "login", "change", "accept"}
    BY <1>2 DEF Fits
  <2>2. /\ label \in {"first", "password", "mark", "cap", "session", "claim"}
        /\ Fits(label, r.op)
        /\ label \notin {"first", "claim"} => u # NoUser
        /\ label = "session" \/ r.op = "reset" => u # NoUser /\ u.active
    BY <1>5, <2>1, AfterUserGoes
  <2>3. /\ q.op = r.op /\ q.email = r.email /\ q.code = r.code
        /\ q.id = IF u = NoUser THEN 0 ELSE u.id
    BY <1>2 DEF RequestIn
  <2>4. u # NoUser => /\ u.id \in 1..born
                      /\ \E d \in Present : u = users[d] /\ Held(u.id) = {d}
                               /\ IF r.op = "change" THEN u.id = r.id ELSE d = r.email
    BY <1>2, RowFound DEF AInv
  <2>5. Held(0) = {}
    BY DEF AInv, RowsType, RowIn, Held, Present
  <2>6. q \in RequestIn(0..born, 0..Len(codes))
    <3>1. (IF u = NoUser THEN 0 ELSE u.id) \in 0..born
      BY <2>4 DEF AInv, RowsType
    <3> QED
      BY <1>2, <3>1 DEF RequestIn
  <2>7. OnlyMoves(w) /\ pc'[w] = label /\ req'[w] = q
    BY <1>2, <1>3, <1>5, <2>2 DEF AInv, ControlType, OnlyMoves, GoTo, PCs
  <2>8. RowsType' /\ Kept /\ SessionsOfVerified'
    BY <1>3, RowsUnchanged DEF AInv, RowsType
  <2>9. label \in PCs \ {"idle"} /\ ~Claims(label, q.op)
    BY <2>2 DEF PCs, Claims
  <2>10. (label = "mark" => r.op = "verify") /\ (label = "claim" => r.op = "accept")
    BY <2>1, <1>5 DEF AfterUser
  <2> HIDE DEF label, q
  <2>11. CodeKnown(label, q)
    BY <1>2, <2>2, <2>3 DEF Knows, CodeKnown, KindFor
  <2>12. RowKnown(label, q)
    BY <2>2, <2>3, <2>4, <2>5 DEF RowKnown
  <2>13. ProvenFor(label, q)
    BY <1>2, <2>2, <2>3, <2>4 DEF Knows, ProvenFor, Proven, Fits
  <2>14. Knows(label, q)
    BY <2>2, <2>3, <2>9, <2>11, <2>12, <2>13 DEF Knows
  <2>15. label \in {"mark", "claim", "revoke"} => q.code \in DOMAIN codes
    BY <2>2, <2>3, <2>10, <2>11 DEF CodeKnown
  <2> QED
    BY <2>6, <2>7, <2>8, <2>9, <2>14, <2>15, LearnKeeps
<1> QED
  BY <1>4, <1>5

LEMMA ReadInviteKeeps ==
  ASSUME AInv, NEW w \in Workers, ReadInvite(w)
  PROVE  AInv'
<1> DEFINE r == req[w]
           label == IF r.op = "accept" THEN "user" ELSE "revoke"
           q == [r EXCEPT !.email = codes[r.code].email]
<1>1. pc[w] = "invite"
  BY DEF ReadInvite, At
<1>2. r \in RequestIn(0..born, 0..Len(codes)) /\ r.op \in {"accept", "revoke", "reinvite"}
  BY <1>1, BusyKnows DEF Fits
<1>3. CASE Respond(w)
  BY <1>3, RespondKeeps
<1>4. CASE ~Respond(w)
  <2>1. /\ r.code \in Pending("invite")
        /\ GoTo(w, label) /\ req' = [req EXCEPT ![w].email = codes[r.code].email]
        /\ UNCHANGED <<rows, failures, fixed>>
    BY <1>4 DEF ReadInvite
  <2>2. r.code \in DOMAIN codes /\ codes[r.code].kind = "invite" /\ codes[r.code].email \in Emails
    <3>1. r.code \in DOMAIN codes /\ codes[r.code].kind = "invite"
      BY <2>1 DEF Pending
    <3>2. codes[r.code] \in CodeIn
      BY <3>1 DEF AInv, RowsType
    <3> QED
      BY <3>1, <3>2 DEF CodeIn
  <2>3. q \in RequestIn(0..born, 0..Len(codes))
    BY <1>2, <2>2 DEF RequestIn
  <2>4. q.op = r.op /\ q.code = r.code /\ q.id = r.id /\ q.email = codes[r.code].email
    BY <1>2 DEF RequestIn
  <2>5. OnlyMoves(w) /\ pc'[w] = label /\ req'[w] = q
    BY <1>2, <2>1 DEF AInv, ControlType, OnlyMoves, GoTo, PCs
  <2>6. RowsType' /\ Kept /\ SessionsOfVerified'
    BY <2>1, RowsUnchanged DEF AInv, RowsType
  <2>7. label \in {"user", "revoke"} /\ (label = "user" <=> r.op = "accept")
    OBVIOUS
  <2> HIDE DEF label, q
  <2>8. Knows(label, q) /\ ~Claims(label, q.op)
    BY <1>2, <2>2, <2>4, <2>7
       DEF Knows, Fits, CodeKnown, RowKnown, ProvenFor, Claims, KindFor
  <2>9. label \in PCs \ {"idle"}
    BY <2>7 DEF PCs
  <2> QED
    BY <2>2, <2>3, <2>4, <2>5, <2>6, <2>8, <2>9, LearnKeeps
<1> QED
  BY <1>3, <1>4

(***************************************************************************)
(* The steps that write.                                                   *)
(***************************************************************************)
LEMMA SameAccounts ==
  ASSUME RowsType, UNCHANGED born, users' \in [Emails -> RowIn(1..born) \cup {NoUser}],
         \A e \in Emails : /\ users'[e] = NoUser <=> users[e] = NoUser
                           /\ users[e] # NoUser => /\ users'[e].id = users[e].id
                                                   /\ users[e].active => users'[e].active
  PROVE  /\ RowsKept /\ RowsStay
         /\ (\A d, e \in Present : users[d].id = users[e].id => d = e)'
  BY DEF RowsType, RowsKept, RowsStay, Present

LEMMA CodesSame ==
  ASSUME RowsType, UNCHANGED codes
  PROVE  CodesKept
  BY DEF RowsType, CodesKept

(* Whose password changes keeps everything else.                           *)
LEMMA PasswordRows ==
  ASSUME AInv, NEW w \in Workers, req[w] \in RequestIn(0..born, 0..Len(codes)),
         UpdatePassword(w), ~Respond(w)
  PROVE  /\ users' \in [Emails -> RowIn(1..born) \cup {NoUser}]
         /\ \A e \in Emails :
              /\ users'[e] = NoUser <=> users[e] = NoUser
              /\ users[e] # NoUser => /\ users'[e].id = users[e].id
                                      /\ users'[e].active = users[e].active
<1> DEFINE r == req[w]
<1>1. users' = [e \in Emails |-> IF e \in Held(r.id) THEN [users[e] EXCEPT !.pw = r.new]
                                 ELSE users[e]]
  BY DEF UpdatePassword
<1>2. ASSUME NEW e \in Emails
      PROVE  /\ users'[e] \in RowIn(1..born) \cup {NoUser}
             /\ users'[e] = NoUser <=> users[e] = NoUser
             /\ users[e] # NoUser => /\ users'[e].id = users[e].id
                                     /\ users'[e].active = users[e].active
  <2>1. CASE e \in Held(r.id)
    <3> DEFINE u == [users[e] EXCEPT !.pw = r.new]
    <3>1. users[e] # NoUser /\ users[e] \in RowIn(1..born) /\ r.new \in Passwords
      BY <2>1 DEF Held, Present, AInv, RowsType, RequestIn
    <3>2. u \in RowIn(1..born) /\ u.id = users[e].id /\ u.active = users[e].active
      BY <3>1 DEF RowIn
    <3>3. u # NoUser
      <4>1. 1..born \subseteq Nat
        BY DEF AInv, RowsType
      <4> QED
        BY <3>2, <4>1, NoUserIsNoRow DEF RowIn
    <3>4. users'[e] = u
      BY <1>1, <2>1
    <3> QED
      BY <3>1, <3>2, <3>3, <3>4
  <2>2. CASE e \notin Held(r.id)
    BY <1>1, <2>2 DEF AInv, RowsType
  <2> QED
    BY <2>1, <2>2
<1>3. users' = [e \in Emails |-> users'[e]]
  BY <1>1
<1> QED
  BY <1>2, <1>3

LEMMA PasswordKeeps ==
  ASSUME AInv, NEW w \in Workers, UpdatePassword(w)
  PROVE  AInv'
<1> DEFINE r == req[w]
           label == AfterPassword[r.op]
<1>1. pc[w] = "password"
  BY DEF UpdatePassword, At
<1>2. /\ r \in RequestIn(0..born, 0..Len(codes)) /\ Knows("password", r)
      /\ r.op \in {"register", "reset", "change"}
  BY <1>1, BusyKnows DEF Fits
<1>3. CASE Respond(w)
  BY <1>3, RespondKeeps
<1>4. CASE ~Respond(w)
  <2>1. /\ users' = [e \in Emails |-> IF e \in Held(r.id) THEN [users[e] EXCEPT !.pw = r.new]
                                      ELSE users[e]]
        /\ sessions' = {IF s.id = r.id THEN [s EXCEPT !.stale = TRUE] ELSE s : s \in sessions}
        /\ req' = [v \in Workers |->
                     IF v # w /\ pc[v] \in {"drop", "session"} /\ req[v].id = r.id
                     THEN [req[v] EXCEPT !.stale = TRUE] ELSE req[v]]
        /\ GoTo(w, label)
        /\ UNCHANGED <<born, grants, codes, failures>>
    BY <1>4 DEF UpdatePassword
  <2>2. \A e \in Emails :
          /\ users'[e] = NoUser <=> users[e] = NoUser
          /\ users[e] # NoUser => /\ users'[e].id = users[e].id
                                  /\ users[e].active => users'[e].active
    BY <1>2, <1>4, PasswordRows
  <2>3. users' \in [Emails -> RowIn(1..born) \cup {NoUser}]
    BY <1>2, <1>4, PasswordRows
  <2>4. /\ Kept /\ RowsStay
        /\ (\A d, e \in Present : users[d].id = users[e].id => d = e)'
    BY <2>1, <2>2, <2>3, SameAccounts, CodesSame DEF AInv, Kept
  <2>5. \A s \in sessions' : s \in [id : 1..born, stale : BOOLEAN] /\ \E t \in sessions : t.id = s.id
    BY <2>1 DEF AInv, RowsType
  <2>6. RowsType'
    BY <2>1, <2>3, <2>4, <2>5 DEF AInv, RowsType
  <2>7. SessionsOfVerified'
    BY <2>4, <2>5, SessionsStay DEF AInv
  <2>8. label \in {"cap", "mark", "drop"} /\ Fits(label, r.op)
    BY <1>2 DEF AfterPassword, Fits
  <2>9. r.op = "register" => label = "cap"
    BY DEF AfterPassword
  <2> HIDE DEF label
  <2>10. OnlyMoves(w) /\ pc'[w] = label /\ req'[w] = r
    BY <2>1, <2>8 DEF AInv, ControlType, OnlyMoves, GoTo, PCs
  <2>11. CodeKnown(label, r) /\ RowKnown(label, r) /\ ProvenFor(label, r) /\ ~Claims(label, r.op)
    BY <1>2, <2>8, <2>9 DEF Knows, CodeKnown, RowKnown, ProvenFor, Claims, KindFor
  <2>12. label = "mark" => r.code \in DOMAIN codes
    BY <1>2, <2>8, <2>11 DEF Fits, CodeKnown
  <2>13. label \in PCs \ {"idle"} /\ Knows(label, r)
    BY <2>8, <2>11 DEF PCs, Knows
  <2> QED
    BY <1>2, <2>4, <2>6, <2>7, <2>8, <2>10, <2>11, <2>12, <2>13, LearnKeeps
<1> QED
  BY <1>3, <1>4

LEMMA NewAccount ==
  ASSUME AInv, NEW f \in Emails, NEW active \in BOOLEAN, NEW pw \in Passwords,
         users[f] = NoUser, users' = [users EXCEPT ![f] = NewRow(born + 1, active, pw)],
         born' = born + 1, grants' \subseteq grants \cup {born + 1},
         UNCHANGED <<codes, sessions, failures>>
  PROVE  /\ RowsType' /\ Kept /\ SessionsOfVerified'
         /\ Held(born)' = {f} /\ users'[f].active = active
<1> DEFINE row == NewRow(born + 1, active, pw)
<1>1. born \in Nat /\ born + 1 \in Nat /\ 1..born \subseteq 1..(born + 1) /\ born + 1 \in 1..(born + 1)
  BY DEF AInv, RowsType
<1>2. row \in RowIn(1..(born + 1)) /\ row.id = born + 1 /\ row.active = active
  BY <1>1 DEF NewRow, RowIn
<1>3. row # NoUser
  BY <1>1, NoUserIsNoRow DEF NewRow
<1> HIDE DEF row
<1>4. users'[f] = row /\ \A e \in Emails \ {f} : users'[e] = users[e]
  BY DEF AInv, RowsType, row
<1>5. \A e \in Present : users[e].id \in 1..born /\ e # f
  BY DEF AInv, RowsType, RowIn, Present
<1>6. Present' = Present \cup {f}
  BY <1>3, <1>4 DEF Present
<1>7. users' \in [Emails -> RowIn(1..(born + 1)) \cup {NoUser}]
  <2>1. \A e \in Emails : users[e] \in RowIn(1..(born + 1)) \cup {NoUser}
    BY <1>1 DEF AInv, RowsType, RowIn
  <2>2. users' = [users EXCEPT ![f] = row]
    BY DEF row
  <2> QED
    BY <1>2, <2>1, <2>2 DEF AInv, RowsType
<1>8. (\A d, e \in Present : users[d].id = users[e].id => d = e)'
  BY <1>1, <1>2, <1>4, <1>5, <1>6 DEF AInv, RowsType
<1>9. grants' \subseteq 1..(born + 1) /\ sessions' \subseteq [id : 1..(born + 1), stale : BOOLEAN]
  BY <1>1 DEF AInv, RowsType
<1>10. RowsType'
  BY <1>1, <1>7, <1>8, <1>9 DEF AInv, RowsType
<1>11. Kept
  BY <1>1, <1>2, <1>4 DEF Kept, RowsKept, CodesKept, AInv, RowsType
<1>12. SessionsOfVerified'
  <2>1. RowsStay
    BY <1>4, <1>5 DEF RowsStay, Present
  <2> QED
    BY <2>1, SessionsStay DEF AInv
<1>13. Held(born)' = {f}
  BY <1>1, <1>2, <1>4, <1>5, <1>6 DEF Held
<1> QED
  BY <1>2, <1>4, <1>10, <1>11, <1>12, <1>13

LEMMA FirstKeeps ==
  ASSUME AInv, NEW w \in Workers, RegisterFirstUser(w)
  PROVE  AInv'
<1> DEFINE r == req[w]
           q == [r EXCEPT !.id = born + 1]
<1>1. pc[w] = "first"
  BY DEF RegisterFirstUser, At
<1>2. r \in RequestIn(0..born, 0..Len(codes)) /\ Knows("first", r) /\ r.op = "register"
  BY <1>1, BusyKnows DEF Fits
<1>3. CASE Respond(w)
  BY <1>3, RespondKeeps
<1>4. CASE Proceed(w, "create")
  <2>1. Knows("create", r)
    BY <1>2 DEF Knows, Fits, CodeKnown, RowKnown, ProvenFor, Claims
  <2> QED
    BY <1>1, <1>2, <1>4, <2>1, ProceedKeeps DEF PCs, Claims
<1>5. CASE ~settled /\ Present = {}
  <2>1. /\ users' = [users EXCEPT ![r.email] = NewRow(born + 1, TRUE, r.new)]
        /\ born' = born + 1 /\ grants' = grants \cup {born + 1}
        /\ req' = [req EXCEPT ![w].id = born + 1]
        /\ GoTo(w, "session")
        /\ UNCHANGED <<codes, sessions, failures, fixed>>
    BY <1>5 DEF RegisterFirstUser
  <2>2. r.email \in Emails /\ r.new \in Passwords /\ users[r.email] = NoUser
    BY <1>2, <1>5 DEF RequestIn, Present
  <2>3. /\ RowsType' /\ Kept /\ SessionsOfVerified'
        /\ Held(born)' = {r.email} /\ users'[r.email].active
    BY <2>1, <2>2, NewAccount
  <2>4. born + 1 \in 0..(born + 1) /\ 0..born \subseteq 0..(born + 1)
    BY DEF AInv, RowsType
  <2>5. q \in RequestIn(0..(born + 1), 0..Len(codes)) /\ q.op = "register" /\ q.id = born + 1
    BY <1>2, <2>4 DEF RequestIn
  <2>6. OnlyMoves(w) /\ pc'[w] = "session" /\ req'[w] = q
    BY <1>2, <2>1 DEF AInv, ControlType, OnlyMoves, GoTo, PCs
  <2> HIDE DEF q
  <2>7. RequestFits(pc[w], req[w])'
    BY <2>1, <2>5, <2>6 DEF RequestFits
  <2>8. Proven(born)'
    BY <2>3 DEF Proven
  <2>9. Knows(pc[w], req[w])'
    BY <2>1, <2>5, <2>6, <2>8 DEF Knows, Fits, CodeKnown, RowKnown, ProvenFor, Claims
  <2>10. ~Claims(pc'[w], req'[w].op)
    BY <2>6 DEF Claims
  <2> QED
    BY <2>3, <2>6, <2>7, <2>9, <2>10, StepKeeps
<1> QED
  BY <1>3, <1>4, <1>5 DEF RegisterFirstUser

LEMMA CreateKeeps ==
  ASSUME AInv, NEW w \in Workers, CreateUser(w)
  PROVE  AInv'
<1> DEFINE r == req[w]
           q == [r EXCEPT !.id = born + 1]
           label == IF r.op = "register" THEN "cap" ELSE "activate"
<1>1. pc[w] = "create"
  BY DEF CreateUser, At
<1>2. /\ r \in RequestIn(0..born, 0..Len(codes)) /\ Knows("create", r)
      /\ r.op \in {"register", "accept"}
  BY <1>1, BusyKnows DEF Fits
<1>3. CASE Respond(w)
  BY <1>3, RespondKeeps
<1>4. CASE ~Respond(w)
  <2>1. /\ users' = [users EXCEPT ![r.email] = NewRow(born + 1, FALSE, r.new)]
        /\ born' = born + 1 /\ req' = [req EXCEPT ![w].id = born + 1]
        /\ GoTo(w, label)
        /\ users[r.email] = NoUser
        /\ UNCHANGED <<grants, codes, sessions, failures, fixed>>
    BY <1>4 DEF CreateUser
  <2>2. r.email \in Emails /\ r.new \in Passwords
    BY <1>2 DEF RequestIn
  <2>3. RowsType' /\ Kept /\ SessionsOfVerified' /\ Held(born)' = {r.email}
    BY <2>1, <2>2, NewAccount
  <2>4. born + 1 \in 1..(born + 1) /\ born + 1 \in 0..(born + 1) /\ 0..born \subseteq 0..(born + 1)
    BY DEF AInv, RowsType
  <2>5. /\ q \in RequestIn(0..(born + 1), 0..Len(codes))
        /\ q.op = r.op /\ q.code = r.code /\ q.email = r.email /\ q.id = born + 1
    BY <1>2, <2>4 DEF RequestIn
  <2>6. label \in {"cap", "activate"} /\ (label = "activate" <=> r.op = "accept")
    BY <1>2
  <2>7. OnlyMoves(w) /\ pc'[w] = label /\ req'[w] = q
    BY <1>2, <2>1 DEF AInv, ControlType, OnlyMoves, GoTo, PCs
  <2> HIDE DEF q, label
  <2>8. RequestFits(pc[w], req[w])'
    BY <2>1, <2>5, <2>6, <2>7 DEF RequestFits
  <2>9. /\ r.op = "accept" => /\ r.code \in DOMAIN codes /\ codes[r.code].kind = "invite"
                              /\ codes[r.code].email = r.email /\ codes[r.code].status # "pending"
    BY <1>2 DEF Knows, CodeKnown, Claims, KindFor
  <2>10. CodeKnown(pc[w], req[w])' /\ (Claims(pc'[w], req'[w].op) => codes'[req'[w].code].status # "pending")
    BY <2>1, <2>5, <2>6, <2>7, <2>9, <1>2 DEF CodeKnown, KindFor, Claims
  <2>11. RowKnown(pc[w], req[w])' /\ ProvenFor(pc[w], req[w])' /\ Fits(pc'[w], req'[w].op)
    BY <1>2, <2>1, <2>3, <2>5, <2>6, <2>7 DEF RowKnown, ProvenFor, Fits
  <2>12. Knows(pc[w], req[w])'
    BY <2>6, <2>7, <2>10, <2>11 DEF Knows
  <2>13. Claims(pc'[w], req'[w].op) => Claims(pc[w], r.op) /\ req'[w].code = r.code
    BY <1>1, <1>2, <2>5, <2>6, <2>7 DEF Claims
  <2> QED
    BY <2>3, <2>7, <2>8, <2>12, <2>13, StepKeeps
<1> QED
  BY <1>3, <1>4

LEMMA CodesWritten ==
  ASSUME AInv, UNCHANGED <<users, born, grants, sessions, failures>>,
         codes' \in Seq(CodeIn), CodesKept
  PROVE  RowsType' /\ Kept /\ SessionsOfVerified'
  BY DEF AInv, RowsType, Present, Kept, RowsKept, SessionsOfVerified, Held

LEMMA StatusWritten ==
  ASSUME AInv, UNCHANGED <<users, born, grants, sessions, failures>>, NEW c \in DOMAIN codes,
         NEW status \in {"used", "accepted", "revoked", "expired"}, SetStatus(c, status)
  PROVE  /\ RowsType' /\ Kept /\ SessionsOfVerified'
         /\ DOMAIN codes' = DOMAIN codes
         /\ codes'[c].kind = codes[c].kind /\ codes'[c].email = codes[c].email
         /\ codes'[c].status # "pending"
<1> DEFINE row == [codes[c] EXCEPT !.status = status]
<1>1. codes \in Seq(CodeIn) /\ codes[c] \in CodeIn
  BY DEF AInv, RowsType
<1>2. row \in CodeIn /\ row.kind = codes[c].kind /\ row.email = codes[c].email /\ row.status = status
  BY <1>1 DEF CodeIn
<1>3. codes' = [codes EXCEPT ![c] = row]
  BY <1>1 DEF SetStatus
<1> HIDE DEF row
<1>4. codes' \in Seq(CodeIn) /\ Len(codes') = Len(codes) /\ DOMAIN codes' = DOMAIN codes /\ codes'[c] = row
  BY <1>1, <1>2, <1>3
<1>5. CodesKept
  BY <1>1, <1>2, <1>3, <1>4 DEF CodesKept
<1> QED
  BY <1>2, <1>4, <1>5, CodesWritten

LEMMA InsertKeeps ==
  ASSUME AInv, NEW w \in Workers, InsertCode(w)
  PROVE  AInv'
<1>1. pc[w] = "send"
  BY DEF InsertCode, At
<1>2. /\ req[w] \in RequestIn(0..born, 0..Len(codes))
      /\ req[w].op \in {"register", "resend", "forgot", "invite", "reinvite"}
  BY <1>1, BusyKnows DEF Fits
<1> DEFINE row == [kind |-> CodeKind(req[w].op), email |-> req[w].email,
                   status |-> "pending", old |-> FALSE]
<1>3. CodeKind(req[w].op) \in Kinds
  BY <1>2 DEF CodeKind, Kinds
<1>4. row \in CodeIn
  BY <1>2, <1>3 DEF CodeIn, RequestIn
<1>5. codes' = Append(codes, row) /\ Done(w) /\ UNCHANGED <<users, born, grants, sessions, failures>>
  BY DEF InsertCode
<1> HIDE DEF row
<1>6. codes \in Seq(CodeIn)
  BY DEF AInv, RowsType
<1>7. codes' \in Seq(CodeIn) /\ CodesKept
  BY <1>4, <1>5, <1>6 DEF CodesKept
<1> QED
  BY <1>5, <1>7, CodesWritten, EndKeeps

LEMMA ExpireKeeps ==
  ASSUME AInv, NEW w \in Workers, ExpireResets(w)
  PROVE  AInv'
<1>1. pc[w] = "expire"
  BY DEF ExpireResets, At
<1>2. req[w] \in RequestIn(0..born, 0..Len(codes)) /\ req[w].op = "forgot"
  BY <1>1, BusyKnows DEF Fits
<1>3. codes \in Seq(CodeIn)
  BY DEF AInv, RowsType
<1> DEFINE Row(c) == IF c \in Pending("reset") /\ codes[c].old
                     THEN [codes[c] EXCEPT !.status = "expired"] ELSE codes[c]
<1>4. \A c \in DOMAIN codes :
        /\ Row(c) \in CodeIn /\ Row(c).kind = codes[c].kind /\ Row(c).email = codes[c].email
        /\ Row(c).status = "pending" => codes[c].status = "pending"
  <2> SUFFICES ASSUME NEW c \in DOMAIN codes
               PROVE  /\ Row(c) \in CodeIn /\ Row(c).kind = codes[c].kind
                      /\ Row(c).email = codes[c].email
                      /\ Row(c).status = "pending" => codes[c].status = "pending"
    OBVIOUS
  <2>1. codes[c] \in CodeIn
    BY <1>3
  <2> QED
    BY <2>1 DEF CodeIn
<1>5. codes' = codes \/ codes' = [c \in DOMAIN codes |-> Row(c)]
  BY DEF ExpireResets
<1> HIDE DEF Row
<1>6. codes' \in Seq(CodeIn) /\ CodesKept
  <2>1. CASE codes' = codes
    BY <1>3, <2>1 DEF CodesKept
  <2>2. CASE codes' = [c \in DOMAIN codes |-> Row(c)]
    <3>1. DOMAIN codes = 1..Len(codes) /\ Len(codes) \in Nat
      BY <1>3
    <3>2. codes' \in Seq(CodeIn) /\ Len(codes') = Len(codes)
      BY <1>4, <2>2, <3>1
    <3> QED
      BY <1>4, <2>2, <3>2, <3>1 DEF CodesKept
  <2> QED
    BY <1>5, <2>1, <2>2
<1>7. GoTo(w, "user") /\ UNCHANGED req /\ UNCHANGED <<users, born, grants, sessions, failures>>
  BY DEF ExpireResets
<1>8. Knows("user", req[w])
  BY <1>2 DEF Knows, Fits, CodeKnown, RowKnown, ProvenFor, Claims
<1> QED
  BY <1>1, <1>6, <1>7, <1>8, CodesWritten, GoOnKeeps DEF PCs, Claims

(* Whoever takes a code that was pending is the only one to hold it.       *)
LEMMA TakingKeeps ==
  ASSUME AInv, NEW w \in Workers, pc[w] \in {"mark", "claim"},
         codes[req[w].code].status = "pending",
         NEW status \in {"used", "accepted", "revoked", "expired"}, SetStatus(req[w].code, status),
         NEW label \in {"activate", "create", "grant", "drop"}, GoTo(w, label), UNCHANGED req,
         UNCHANGED <<users, born, grants, sessions, failures>>,
         Fits(label, req[w].op), label = "grant" => req[w].id # 0
  PROVE  AInv'
<1> DEFINE r == req[w]
<1>1. /\ r \in RequestIn(0..born, 0..Len(codes)) /\ Knows(pc[w], r)
      /\ r.op \in {"verify", "reset", "accept"}
  BY BusyKnows DEF Fits
<1>2. /\ r.code \in DOMAIN codes /\ codes[r.code].kind = KindFor(r.op)
      /\ codes[r.code].email = r.email
  BY <1>1 DEF Knows, CodeKnown
<1>3. /\ RowsType' /\ Kept /\ SessionsOfVerified'
      /\ DOMAIN codes' = DOMAIN codes
      /\ codes'[r.code].kind = codes[r.code].kind /\ codes'[r.code].email = codes[r.code].email
      /\ codes'[r.code].status # "pending"
  BY <1>2, StatusWritten
<1>4. OnlyMoves(w) /\ pc'[w] = label /\ req'[w] = r
  BY GoesMove DEF AInv, PCs
<1>5. r \in RequestIn(0..born, 0..Len(codes'))
  BY <1>1, <1>3 DEF RequestIn, AInv, RowsType
<1>6. RequestFits(pc[w], req[w])'
  BY <1>4, <1>5 DEF RequestFits
<1>7. CodeKnown(pc[w], req[w])'
  BY <1>2, <1>3, <1>4 DEF CodeKnown
<1>8. RowKnown(pc[w], req[w])' /\ ProvenFor(pc[w], req[w])'
  <2>1. Held(r.id)' = Held(r.id) /\ (Proven(r.id) => Proven(r.id)')
    BY <1>4 DEF Held, Present, Proven
  <2>2. RowKnown(pc[w], req[w])'
    BY <1>1, <1>4, <2>1 DEF RowKnown, Knows, Fits
  <2>3. ProvenFor(pc[w], req[w])'
    BY <1>1, <1>4, <2>1 DEF ProvenFor, Knows, Fits
  <2> QED
    BY <2>2, <2>3
<1>9. Knows(pc[w], req[w])'
  BY <1>3, <1>4, <1>7, <1>8 DEF Knows
<1> QED
  BY <1>3, <1>4, <1>6, <1>9, StepKeeps

LEMMA MarkKeeps ==
  ASSUME AInv, NEW w \in Workers, MarkUsed(w)
  PROVE  AInv'
<1>1. pc[w] = "mark"
  BY DEF MarkUsed, At
<1>2. req[w].op \in {"verify", "reset"}
  BY <1>1, BusyKnows DEF Fits
<1>3. CASE Respond(w)
  BY <1>3, RespondKeeps
<1>4. CASE ~Respond(w)
  <2> DEFINE label == IF req[w].op = "verify" THEN "activate" ELSE "drop"
  <2>1. label \in {"activate", "drop"} /\ Fits(label, req[w].op)
    BY <1>2 DEF Fits
  <2>2. /\ codes[req[w].code].status = "pending" /\ SetStatus(req[w].code, "used")
        /\ GoTo(w, label) /\ UNCHANGED req
        /\ UNCHANGED <<users, born, grants, sessions, failures>>
    BY <1>4 DEF MarkUsed
  <2> HIDE DEF label
  <2> QED
    BY <1>1, <2>1, <2>2, TakingKeeps
<1> QED
  BY <1>3, <1>4

LEMMA AcceptKeeps ==
  ASSUME AInv, NEW w \in Workers, AcceptUserInvite(w)
  PROVE  AInv'
<1>1. pc[w] = "claim"
  BY DEF AcceptUserInvite, At
<1>2. req[w].op = "accept"
  BY <1>1, BusyKnows DEF Fits
<1>3. CASE Respond(w)
  BY <1>3, RespondKeeps
<1>4. CASE ~Respond(w)
  <2> DEFINE label == IF req[w].id = 0 THEN "create" ELSE "grant"
  <2>1. label \in {"create", "grant"} /\ Fits(label, req[w].op) /\ (label = "grant" => req[w].id # 0)
    BY <1>2 DEF Fits
  <2>2. /\ codes[req[w].code].status = "pending" /\ SetStatus(req[w].code, "accepted")
        /\ GoTo(w, label) /\ UNCHANGED req
        /\ UNCHANGED <<users, born, grants, sessions, failures>>
    BY <1>4 DEF AcceptUserInvite
  <2> HIDE DEF label
  <2> QED
    BY <1>1, <2>1, <2>2, TakingKeeps
<1> QED
  BY <1>3, <1>4

LEMMA RevokeKeeps ==
  ASSUME AInv, NEW w \in Workers, RevokeUserInvite(w)
  PROVE  AInv'
<1>1. pc[w] = "revoke"
  BY DEF RevokeUserInvite, At
<1>2. /\ req[w].op \in {"revoke", "reinvite"} /\ req[w].code \in DOMAIN codes
  BY <1>1, BusyKnows DEF Fits, Knows, CodeKnown
<1>3. CASE Respond(w)
  BY <1>3, RespondKeeps
<1>4. CASE ~Respond(w)
  <2>1. /\ SetStatus(req[w].code, "revoked")
        /\ \/ Done(w)
           \/ req[w].op = "reinvite" /\ GoTo(w, "send") /\ UNCHANGED req
        /\ UNCHANGED <<users, born, grants, sessions, failures>>
    BY <1>4, <1>2 DEF RevokeUserInvite, Then
  <2>2. RowsType' /\ Kept /\ SessionsOfVerified'
    BY <1>2, <2>1, StatusWritten
  <2>3. CASE Done(w)
    BY <2>2, <2>3, EndKeeps
  <2>4. CASE req[w].op = "reinvite" /\ GoTo(w, "send") /\ UNCHANGED req
    <3>1. Knows("send", req[w])
      BY <2>4 DEF Knows, Fits, CodeKnown, RowKnown, ProvenFor, Claims
    <3> QED
      BY <1>1, <2>2, <2>4, <3>1, GoOnKeeps DEF PCs, Claims
  <2> QED
    BY <2>1, <2>3, <2>4
<1> QED
  BY <1>3, <1>4

LEMMA ResetTypes ==
  ASSUME failures \in [Kinds \X Emails -> Nat], NEW k, FailureReset(k)
  PROVE  failures' \in [Kinds \X Emails -> Nat]
  BY DEF FailureReset

LEMMA ActivateRows ==
  ASSUME AInv, NEW w \in Workers, ActivateUser(w), ~Respond(w)
  PROVE  /\ users' \in [Emails -> RowIn(1..born) \cup {NoUser}]
         /\ \A e \in Held(req[w].id) :
              /\ users[e] # NoUser /\ users[e] \in RowIn(1..born)
              /\ users'[e] # NoUser /\ users'[e].id = users[e].id /\ users'[e].active
         /\ \A e \in Emails \ Held(req[w].id) : users'[e] = users[e]
<1> DEFINE r == req[w]
<1>1. users' = [e \in Emails |-> IF e \in Held(r.id) THEN [users[e] EXCEPT !.active = TRUE]
                                 ELSE users[e]]
  BY DEF ActivateUser
<1>2. ASSUME NEW e \in Held(r.id)
      PROVE  /\ users[e] # NoUser /\ users[e] \in RowIn(1..born)
             /\ users'[e] \in RowIn(1..born) /\ users'[e].id = users[e].id
             /\ users'[e].active /\ users'[e] # NoUser
  <2> DEFINE u == [users[e] EXCEPT !.active = TRUE]
  <2>1. e \in Emails /\ users[e] # NoUser /\ users[e] \in RowIn(1..born)
    BY DEF Held, Present, AInv, RowsType
  <2>2. u \in RowIn(1..born) /\ u.id = users[e].id /\ u.active
    BY <2>1 DEF RowIn
  <2>3. u # NoUser
    <3>1. 1..born \subseteq Nat
      BY DEF AInv, RowsType
    <3> QED
      BY <2>2, <3>1, NoUserIsNoRow DEF RowIn
  <2>4. users'[e] = u
    BY <1>1, <2>1
  <2> QED
    BY <2>1, <2>2, <2>3, <2>4
<1>3. \A e \in Emails \ Held(r.id) : users'[e] = users[e]
  BY <1>1
<1>4. \A e \in Emails : users'[e] \in RowIn(1..born) \cup {NoUser}
  BY <1>2, <1>3 DEF AInv, RowsType
<1>5. users' = [e \in Emails |-> users'[e]]
  BY <1>1
<1> QED
  BY <1>2, <1>3, <1>4, <1>5

LEMMA ActivateKeeps ==
  ASSUME AInv, NEW w \in Workers, ActivateUser(w)
  PROVE  AInv'
<1> DEFINE r == req[w]
           label == IF r.op = "verify" THEN "session" ELSE "grant"
<1>1. pc[w] = "activate"
  BY DEF ActivateUser, At
<1>2. /\ r \in RequestIn(0..born, 0..Len(codes)) /\ Knows("activate", r)
      /\ r.op \in {"verify", "accept"}
  BY <1>1, BusyKnows DEF Fits
<1>3. CASE Respond(w)
  BY <1>3, RespondKeeps
<1>4. CASE ~Respond(w)
  <2>1. /\ Held(r.id) # {}
        /\ users' = [e \in Emails |-> IF e \in Held(r.id) THEN [users[e] EXCEPT !.active = TRUE]
                                      ELSE users[e]]
        /\ FailureReset(<<"verify", r.email>>) \/ UNCHANGED failures
        /\ GoTo(w, label) /\ UNCHANGED req
        /\ UNCHANGED <<born, grants, codes, sessions>>
    BY <1>4 DEF ActivateUser
  <2>2. \A e \in Held(r.id) :
          /\ users[e] # NoUser /\ users[e] \in RowIn(1..born)
          /\ users'[e].id = users[e].id /\ users'[e].active /\ users'[e] # NoUser
    BY <1>4, ActivateRows
  <2>3. \A e \in Emails \ Held(r.id) : users'[e] = users[e]
    BY <1>4, ActivateRows
  <2>4. \A e \in Emails :
          /\ users'[e] = NoUser <=> users[e] = NoUser
          /\ users[e] # NoUser => /\ users'[e].id = users[e].id
                                  /\ users[e].active => users'[e].active
    BY <2>2, <2>3
  <2>5. users' \in [Emails -> RowIn(1..born) \cup {NoUser}]
    BY <1>4, ActivateRows
  <2>6. /\ Kept /\ RowsStay
        /\ (\A d, e \in Present : users[d].id = users[e].id => d = e)'
    BY <2>1, <2>4, <2>5, SameAccounts, CodesSame DEF AInv, Kept
  <2>7. RowsType' /\ SessionsOfVerified'
    <3>1. failures' \in [Kinds \X Emails -> Nat]
      BY <2>1, ResetTypes DEF AInv, RowsType
    <3>2. RowsType'
      BY <2>1, <2>5, <2>6, <3>1 DEF AInv, RowsType
    <3> QED
      BY <2>1, <2>6, <3>2, SessionsStay DEF AInv
  <2>8. Held(r.id)' = Held(r.id)
    <3>1. \A e \in Emails : e \in Held(r.id)' <=> users'[e] # NoUser /\ users'[e].id = r.id
      BY <2>1 DEF Held, Present
    <3>2. \A e \in Emails : e \in Held(r.id) <=> users[e] # NoUser /\ users[e].id = r.id
      BY DEF Held, Present
    <3>3. Held(r.id) \subseteq Emails /\ Held(r.id)' \subseteq Emails
      BY DEF Held, Present
    <3> QED
      BY <2>4, <3>1, <3>2, <3>3
  <2>9. Proven(r.id)'
    BY <2>1, <2>2, <2>8 DEF Proven
  <2>10. r.id # 0
    <3>1. PICK e \in Held(r.id) : users[e].id = r.id
      BY <2>1 DEF Held
    <3>2. users[e].id \in 1..born /\ born \in Nat
      BY <2>2 DEF RowIn, AInv, RowsType
    <3> QED
      BY <3>1, <3>2
  <2>11. label \in {"session", "grant"} /\ (label = "grant" <=> r.op = "accept") /\ Fits(label, r.op)
    BY <1>2 DEF Fits
  <2> HIDE DEF label
  <2>12. OnlyMoves(w) /\ pc'[w] = label /\ req'[w] = r
    BY <2>1, <2>11, GoesMove DEF AInv, PCs
  <2>13. RequestFits(pc[w], req[w])'
    BY <1>2, <2>1, <2>11, <2>12 DEF RequestFits
  <2>14. CodeKnown("activate", r) /\ RowKnown("activate", r) /\ codes[r.code].status # "pending"
    BY <1>2 DEF Knows, Claims
  <2>15. CodeKnown(pc[w], req[w])'
    BY <1>2, <2>1, <2>12, <2>14 DEF CodeKnown
  <2>16. RowKnown(pc[w], req[w])' /\ ProvenFor(pc[w], req[w])'
    BY <1>2, <2>1, <2>8, <2>9, <2>11, <2>12, <2>14 DEF RowKnown, ProvenFor
  <2>17. Knows(pc[w], req[w])'
    BY <2>1, <2>10, <2>11, <2>12, <2>14, <2>15, <2>16 DEF Knows
  <2>18. Claims(pc[w], req[w].op) /\ req'[w].code = req[w].code
    BY <1>1, <1>2, <2>12 DEF Claims
  <2> QED
    BY <2>6, <2>7, <2>12, <2>13, <2>17, <2>18, StepKeeps
<1> QED
  BY <1>3, <1>4

LEMMA DropKeeps ==
  ASSUME AInv, NEW w \in Workers, DropSessions(w)
  PROVE  AInv'
<1> DEFINE r == req[w]
           label == IF r.op = "leave" THEN "delete" ELSE "session"
<1>1. pc[w] = "drop"
  BY DEF DropSessions, At
<1>2. /\ r \in RequestIn(0..born, 0..Len(codes)) /\ Knows("drop", r)
      /\ r.op \in {"reset", "change", "leave"}
  BY <1>1, BusyKnows DEF Fits
<1>3. /\ sessions' \subseteq sessions /\ GoTo(w, label)
      /\ FailureReset(<<"reset", r.email>>) \/ UNCHANGED failures
      /\ UNCHANGED <<users, born, grants, codes, req>>
  BY DEF DropSessions
<1>4. label \in {"delete", "session"} /\ (label = "delete" <=> r.op = "leave")
  OBVIOUS
<1> HIDE DEF label
<1>5. failures' \in [Kinds \X Emails -> Nat]
  BY <1>3, ResetTypes DEF AInv, RowsType
<1>6. RowsType' /\ Kept
  BY <1>3, <1>5, NothingWritten DEF AInv, RowsType, Present
<1>7. SessionsOfVerified'
  BY <1>3 DEF AInv, SessionsOfVerified, Held, Present
<1>8. Knows(label, r) /\ ~Claims(label, r.op)
  BY <1>2, <1>4 DEF Knows, Fits, CodeKnown, RowKnown, ProvenFor, Claims
<1> QED
  BY <1>1, <1>3, <1>4, <1>6, <1>7, <1>8, GoOnKeeps DEF PCs

LEMMA SessionKeeps ==
  ASSUME AInv, NEW w \in Workers, CreateUserSession(w)
  PROVE  AInv'
<1> DEFINE s == [id |-> req[w].id, stale |-> req[w].stale]
<1>1. pc[w] = "session"
  BY DEF CreateUserSession, At
<1>2. req[w] \in RequestIn(0..born, 0..Len(codes)) /\ Proven(req[w].id)
  BY <1>1, BusyKnows DEF Knows, ProvenFor
<1>3. /\ sessions' = IF Held(req[w].id) = {} THEN sessions ELSE sessions \cup {s}
      /\ Done(w) /\ UNCHANGED <<users, born, grants, codes, failures>>
  BY DEF CreateUserSession
<1>4. ASSUME Held(req[w].id) # {}
      PROVE  /\ s \in [id : 1..born, stale : BOOLEAN]
             /\ \E e \in Held(req[w].id) : users[e].active
  BY <1>2, <1>4 DEF Held, Present, Proven, AInv, RowsType, RowIn, RequestIn
<1>5. s.id = req[w].id
  OBVIOUS
<1> HIDE DEF s
<1>6. RowsType' /\ Kept
  BY <1>3, <1>4, NothingWritten DEF AInv, RowsType, Present
<1>7. SessionsOfVerified'
  BY <1>3, <1>4, <1>5 DEF AInv, SessionsOfVerified, Held, Present
<1> QED
  BY <1>3, <1>6, <1>7, EndKeeps

LEMMA DeleteKeeps ==
  ASSUME AInv, NEW w \in Workers, DeleteUser(w)
  PROVE  AInv'
<1> DEFINE id == req[w].id
<1>1. /\ users' = [e \in Emails |-> IF e \in Held(id) THEN NoUser ELSE users[e]]
      /\ IF Held(id) = {} THEN UNCHANGED <<grants, sessions>>
         ELSE grants' = grants \ {id} /\ sessions' = {s \in sessions : s.id # id}
      /\ Done(w) /\ UNCHANGED <<born, codes, failures>>
  BY DEF DeleteUser
<1>2. users' \in [Emails -> RowIn(1..born) \cup {NoUser}]
  BY <1>1 DEF AInv, RowsType
<1>3. \A e \in Present' : e \in Present /\ users'[e] = users[e]
  BY <1>1 DEF Present
<1>4. RowsType'
  <2>1. grants' \subseteq 1..born /\ sessions' \subseteq [id : 1..born, stale : BOOLEAN]
    BY <1>1 DEF AInv, RowsType
  <2>2. (\A d, e \in Present : users[d].id = users[e].id => d = e)'
    BY <1>3 DEF AInv, RowsType
  <2> QED
    BY <1>1, <1>2, <2>1, <2>2 DEF AInv, RowsType
<1>5. Kept
  BY <1>1, <1>3, CodesSame DEF Kept, RowsKept, AInv, RowsType, Present
<1>6. SessionsOfVerified'
  <2> SUFFICES ASSUME NEW s \in sessions' PROVE \E e \in Held(s.id)' : users'[e].active
    BY DEF SessionsOfVerified
  <2>1. s \in sessions /\ (Held(id) # {} => s.id # id)
    BY <1>1
  <2>2. PICK e \in Held(s.id) : users[e].active
    BY <2>1 DEF AInv, SessionsOfVerified
  <2>3. e \in Present /\ users[e].id = s.id /\ e \notin Held(id)
    BY <2>1, <2>2 DEF Held
  <2>4. users'[e] = users[e] /\ e \in Present'
    BY <1>1, <2>3 DEF Present
  <2> QED
    BY <2>2, <2>3, <2>4 DEF Held
<1> QED
  BY <1>1, <1>4, <1>5, <1>6, EndKeeps

LEMMA GrantKeeps ==
  ASSUME AInv, NEW w \in Workers, GrantVaultRole(w)
  PROVE  AInv'
<1>1. pc[w] = "grant"
  BY DEF GrantVaultRole, At
<1>2. req[w].id \in 1..born
  BY <1>1, BusyKnows DEF Knows, RequestIn, AInv, RowsType
<1>3. /\ grants' = grants \cup {req[w].id} /\ Done(w)
      /\ UNCHANGED <<users, born, codes, sessions, failures>>
  BY DEF GrantVaultRole
<1>4. RowsType' /\ Kept /\ SessionsOfVerified'
  BY <1>2, <1>3, NothingWritten DEF AInv, RowsType, Present, SessionsOfVerified, Held
<1> QED
  BY <1>3, <1>4, EndKeeps

LEMMA AgingKeeps ==
  ASSUME AInv, NEW c \in DOMAIN codes, PassTTL(c)
  PROVE  AInv'
<1> DEFINE row == [codes[c] EXCEPT !.old = TRUE]
<1>1. codes \in Seq(CodeIn) /\ codes[c] \in CodeIn
  BY DEF AInv, RowsType
<1>2. row \in CodeIn /\ row.kind = codes[c].kind /\ row.email = codes[c].email
      /\ row.status = codes[c].status
  BY <1>1 DEF CodeIn
<1>3. codes' = [codes EXCEPT ![c] = row]
  BY <1>1 DEF PassTTL
<1> HIDE DEF row
<1>4. codes' \in Seq(CodeIn) /\ CodesKept /\ Len(codes') = Len(codes)
  BY <1>1, <1>2, <1>3 DEF CodesKept
<1>5. UNCHANGED <<users, born, grants, sessions, failures>> /\ UNCHANGED pc /\ UNCHANGED req
  BY DEF PassTTL
<1>6. RowsType' /\ Kept /\ SessionsOfVerified'
  BY <1>4, <1>5, CodesWritten
<1>7. PICK w \in Workers : TRUE
  BY WorkersFinite
<1>8. OnlyMoves(w) /\ pc'[w] = pc[w] /\ req'[w] = req[w]
  BY <1>5 DEF AInv, ControlType, OnlyMoves
<1>9. RequestFits(pc[w], req[w])'
  <2>1. RequestFits(pc[w], req[w]) /\ DOMAIN codes' = DOMAIN codes
    BY <1>1, <1>3 DEF AInv, ControlType
  <2> QED
    BY <1>4, <1>5, <2>1 DEF RequestFits
<1>10. pc'[w] # "idle" => Knows(pc[w], req[w])'
  <2>1. CASE pc[w] # "idle"
    BY <1>5, <1>6, <2>1, BusyKnows, KnownStays DEF AInv, ControlType
  <2> QED
    BY <1>8, <2>1
<1> QED
  BY <1>6, <1>8, <1>9, <1>10, StepKeeps

LEMMA RestartKeeps ==
  ASSUME AInv, Restart
  PROVE  AInv'
<1>1. /\ failures' = [k \in Kinds \X Emails |-> 0] /\ UNCHANGED rows
      /\ pc' = [w \in Workers |-> "idle"] /\ req' = [w \in Workers |-> Idle]
  BY DEF Restart
<1>2. failures' \in [Kinds \X Emails -> Nat]
  BY <1>1
<1>3. RowsType' /\ SessionsOfVerified'
  BY <1>1, <1>2, RowsUnchanged
<1>4. ControlType'
  BY <1>1 DEF ControlType, RequestFits, PCs
<1>5. AllKnow' /\ ClaimedOnce'
  BY <1>1 DEF AllKnow, ClaimedOnce, Claims
<1> QED
  BY <1>3, <1>4, <1>5 DEF AInv

LEMMA InitInv == Init => AInv
<1> SUFFICES ASSUME Init PROVE AInv
  OBVIOUS
<1>1. /\ users = [e \in Emails |-> NoUser] /\ born = 0 /\ grants = {} /\ codes = <<>>
      /\ sessions = {} /\ failures = [k \in Kinds \X Emails |-> 0]
      /\ pc = [w \in Workers |-> "idle"] /\ req = [w \in Workers |-> Idle]
  BY DEF Init
<1>2. RowsType
  BY <1>1 DEF RowsType, Present
<1>3. ControlType
  BY <1>1 DEF ControlType, RequestFits, PCs
<1>4. AllKnow /\ ClaimedOnce /\ SessionsOfVerified
  BY <1>1 DEF AllKnow, ClaimedOnce, Claims, SessionsOfVerified
<1> QED
  BY <1>2, <1>3, <1>4 DEF AInv

LEMMA InvStep ==
  ASSUME AInv, [Next]_vars
  PROVE  AInv'
<1>1. ASSUME NEW w \in Workers, NEW r \in Requests, NEW c \in 0..Len(codes), NEW id \in 0..born,
             Begin(w, r, c, id)
      PROVE  AInv'
  BY <1>1, BeginKeeps
<1>2. ASSUME NEW w \in Workers, Read(w) PROVE AInv'
  BY <1>2, DecidingKeeps, MatchKeeps, LookUpKeeps, ReadInviteKeeps DEF Read
<1>3. ASSUME NEW w \in Workers, Write(w) PROVE AInv'
  BY <1>3, PasswordKeeps, FirstKeeps, CreateKeeps, InsertKeeps, ExpireKeeps, MarkKeeps,
     ActivateKeeps, DropKeeps, SessionKeeps, DeleteKeeps, AcceptKeeps, GrantKeeps, RevokeKeeps
     DEF Write
<1>4. ASSUME NEW w \in Workers, Fail(w) PROVE AInv'
  BY <1>4, RespondKeeps DEF Fail
<1>5. ASSUME NEW c \in DOMAIN codes, PassTTL(c) PROVE AInv'
  BY <1>5, AgingKeeps
<1>6. CASE Restart
  BY <1>6, RestartKeeps
<1>7. CASE UNCHANGED vars
  BY <1>7 DEF vars, AInv, RowsType, ControlType, RequestFits, AllKnow, ClaimedOnce, Present,
     SessionsOfVerified, Held, Knows, CodeKnown, RowKnown, ProvenFor, Proven
<1> QED
  BY <1>1, <1>2, <1>3, <1>4, <1>5, <1>6, <1>7 DEF Next

LEMMA Inductive == Spec => []AInv
<1>1. Init => AInv
  BY InitInv
<1>2. AInv /\ [Next]_vars => AInv'
  BY InvStep
<1> QED
  BY <1>1, <1>2, PTL DEF Spec

(* Values keep their types, and what a worker acts on exists.              *)
THEOREM TypesHold == Spec => []TypeOK
<1>1. AInv => TypeOK
  BY TypesAre DEF AInv
<1> QED
  BY <1>1, Inductive, PTL

(* Nobody holds a session of an account that is gone or that never proved  *)
(* its address, however logins, verifications and deletions interleave.    *)
THEOREM SessionsOfVerifiedHolds == Spec => []SessionsOfVerified
<1>1. AInv => SessionsOfVerified
  BY DEF AInv
<1> QED
  BY <1>1, Inductive, PTL

(***************************************************************************)
(* How far requests at once pass a cap.  Whoever has passed the test and   *)
(* not yet acted on it counts as if it had.                                *)
(***************************************************************************)
Within(n, S, max) == n + Cardinality(S) < max + Cardinality(Workers)

Looking(k) == {w \in Workers : pc[w] = "code" /\ <<req[w].op, req[w].email>> = k}
Sending(kind, e) ==
  {w \in Workers : pc[w] = "send" /\ CodeKind(req[w].op) = kind /\ req[w].email = e}
Inviting == {w \in Workers : pc[w] = "send" /\ CodeKind(req[w].op) = "invite"}

CapsCounted ==
  /\ \A k \in Kinds \X Emails : Within(failures[k], Looking(k), MaxFailures)
  /\ \A kind \in {"verify", "reset"}, e \in Emails :
       Within(Cardinality(Fresh(kind, e)), Sending(kind, e), MaxPending)
  /\ Within(Cardinality(Pending("invite")), Inviting, MaxPending)

LEMMA Counted ==
  ASSUME NEW S \in SUBSET Workers
  PROVE  /\ IsFiniteSet(S) /\ Cardinality(S) \in Nat /\ Cardinality(Workers) \in Nat
         /\ Cardinality(S) <= Cardinality(Workers)
         /\ \A T \in SUBSET S : Cardinality(T) \in Nat /\ Cardinality(T) <= Cardinality(S)
<1>1. IsFiniteSet(Workers) /\ IsFiniteSet(S)
  BY WorkersFinite, FS_Subset
<1> QED
  BY <1>1, FS_Subset, FS_CardinalityType

LEMMA WithinStays ==
  ASSUME NEW n \in Nat, NEW m \in 0..n, NEW max \in Nat,
         NEW S \in SUBSET Workers, NEW T \in SUBSET S, Within(n, S, max)
  PROVE  Within(m, T, max)
<1>1. /\ Cardinality(S) \in Nat /\ Cardinality(Workers) \in Nat
      /\ Cardinality(T) \in Nat /\ Cardinality(T) <= Cardinality(S)
  BY Counted
<1> QED
  BY <1>1 DEF Within

LEMMA WithinEnters ==
  ASSUME NEW n \in Nat, NEW max \in Nat, n < max, NEW T \in SUBSET Workers
  PROVE  Within(n, T, max)
<1>1. /\ Cardinality(T) \in Nat /\ Cardinality(Workers) \in Nat
      /\ Cardinality(T) <= Cardinality(Workers)
  BY Counted
<1> QED
  BY <1>1 DEF Within

LEMMA WithinActs ==
  ASSUME NEW n \in Nat, NEW m \in 0..(n + 1), NEW max \in Nat, NEW S \in SUBSET Workers,
         NEW w \in S, NEW T \in SUBSET (S \ {w}), Within(n, S, max)
  PROVE  Within(m, T, max)
<1>1. /\ IsFiniteSet(S) /\ Cardinality(S) \in Nat /\ Cardinality(Workers) \in Nat
      /\ \A U \in SUBSET S : Cardinality(U) \in Nat
  BY Counted
<1>2. /\ Cardinality(S \ {w}) = Cardinality(S) - 1
      /\ Cardinality(S \ {w}) \in Nat
  BY <1>1, FS_RemoveElement
<1>3. Cardinality(T) \in Nat /\ Cardinality(T) <= Cardinality(S \ {w})
  <2>1. S \ {w} \in SUBSET Workers
    OBVIOUS
  <2> QED
    BY <2>1, Counted
<1> QED
  BY <1>1, <1>2, <1>3 DEF Within

LEMMA WithinTurns ==
  ASSUME NEW n \in Nat, NEW m \in Nat, m < n, NEW max \in Nat, NEW S \in SUBSET Workers,
         NEW w \in Workers, NEW T \in SUBSET (S \cup {w}), Within(n, S, max)
  PROVE  Within(m, T, max)
<1>1. IsFiniteSet(S) /\ Cardinality(S) \in Nat /\ Cardinality(Workers) \in Nat
  BY Counted
<1>2. Cardinality(S \cup {w}) \in Nat /\ Cardinality(S \cup {w}) <= Cardinality(S) + 1
  BY <1>1, FS_AddElement
<1>3. Cardinality(T) \in Nat /\ Cardinality(T) <= Cardinality(S \cup {w})
  <2>1. S \cup {w} \in SUBSET Workers
    OBVIOUS
  <2> QED
    BY <2>1, Counted
<1> QED
  BY <1>1, <1>2, <1>3 DEF Within

LEMMA CodesFinite ==
  ASSUME NEW cs \in Seq(CodeIn), NEW S \in SUBSET DOMAIN cs
  PROVE  /\ IsFiniteSet(S) /\ Cardinality(S) \in Nat
         /\ \A T \in SUBSET S : Cardinality(T) \in 0..Cardinality(S)
<1>1. IsFiniteSet(DOMAIN cs)
  <2>1. DOMAIN cs = 1..Len(cs) /\ Len(cs) \in Nat
    OBVIOUS
  <2> QED
    BY <2>1, FS_Interval
<1>2. IsFiniteSet(S) /\ Cardinality(S) \in Nat
  BY <1>1, FS_Subset, FS_CardinalityType
<1>3. \A T \in SUBSET S : Cardinality(T) \in Nat /\ Cardinality(T) <= Cardinality(S)
  BY <1>2, FS_Subset, FS_CardinalityType
<1> QED
  BY <1>2, <1>3

LEMMA CodeSets ==
  /\ \A kind : Pending(kind) \in SUBSET DOMAIN codes
  /\ \A kind, e : Fresh(kind, e) \in SUBSET Pending(kind)
  BY DEF Pending, Fresh

(* Who is about to act on a test it passed has passed it before.           *)
Stays(v) ==
  pc'[v] \in {"code", "send"} =>
    pc'[v] = pc[v] /\ req'[v].op = req[v].op /\ req'[v].email = req[v].email

FailuresFall == \A k \in Kinds \X Emails : failures'[k] <= failures[k]

NoneReopened ==
  /\ DOMAIN codes' = DOMAIN codes
  /\ \A c \in DOMAIN codes :
       /\ codes'[c].kind = codes[c].kind /\ codes'[c].email = codes[c].email
       /\ codes'[c].status = "pending" => codes[c].status = "pending"
       /\ codes[c].old => codes'[c].old

LEMMA CodesFall ==
  ASSUME codes \in Seq(CodeIn), NoneReopened
  PROVE  /\ \A kind : /\ Pending(kind)' \subseteq Pending(kind)
                      /\ Cardinality(Pending(kind)) \in Nat
                      /\ Cardinality(Pending(kind)') \in 0..Cardinality(Pending(kind))
         /\ \A kind, e : /\ Cardinality(Fresh(kind, e)) \in Nat
                         /\ Cardinality(Fresh(kind, e)') \in 0..Cardinality(Fresh(kind, e))
<1>1. ASSUME NEW kind
      PROVE  /\ Pending(kind)' \subseteq Pending(kind)
             /\ Cardinality(Pending(kind)) \in Nat
             /\ Cardinality(Pending(kind)') \in 0..Cardinality(Pending(kind))
  <2>1. Pending(kind)' \subseteq Pending(kind) /\ Pending(kind) \in SUBSET DOMAIN codes
    BY DEF Pending, NoneReopened
  <2> QED
    BY <2>1, CodesFinite
<1>2. ASSUME NEW kind, NEW e
      PROVE  /\ Cardinality(Fresh(kind, e)) \in Nat
             /\ Cardinality(Fresh(kind, e)') \in 0..Cardinality(Fresh(kind, e))
  <2>1. Fresh(kind, e)' \subseteq Fresh(kind, e) /\ Fresh(kind, e) \in SUBSET DOMAIN codes
    BY DEF Fresh, Pending, NoneReopened
  <2> QED
    BY <2>1, CodesFinite
<1> QED
  BY <1>1, <1>2

LEMMA QuietStep ==
  ASSUME AInv, AInv', CapsCounted, \A v \in Workers : Stays(v), FailuresFall, NoneReopened
  PROVE  CapsCounted'
<1>1. MaxFailures \in Nat /\ MaxPending \in Nat
  BY BoundsType
<1>2. ASSUME NEW k \in Kinds \X Emails
      PROVE  Within(failures'[k], Looking(k)', MaxFailures)
  <2>1. failures[k] \in Nat /\ failures'[k] \in 0..failures[k]
    BY DEF AInv, RowsType, FailuresFall
  <2>2. Looking(k) \in SUBSET Workers /\ Looking(k)' \in SUBSET Looking(k)
    BY DEF Looking, Stays
  <2>3. Within(failures[k], Looking(k), MaxFailures)
    BY DEF CapsCounted
  <2> QED
    BY <1>1, <2>1, <2>2, <2>3, WithinStays
<1>3. ASSUME NEW kind \in {"verify", "reset"}, NEW e \in Emails
      PROVE  Within(Cardinality(Fresh(kind, e)'), Sending(kind, e)', MaxPending)
  <2>1. /\ Cardinality(Fresh(kind, e)) \in Nat
        /\ Cardinality(Fresh(kind, e)') \in 0..Cardinality(Fresh(kind, e))
    BY CodesFall DEF AInv, RowsType
  <2>2. Sending(kind, e) \in SUBSET Workers /\ Sending(kind, e)' \in SUBSET Sending(kind, e)
    BY DEF Sending, Stays
  <2>3. Within(Cardinality(Fresh(kind, e)), Sending(kind, e), MaxPending)
    BY DEF CapsCounted
  <2> QED
    BY <1>1, <2>1, <2>2, <2>3, WithinStays
<1>4. Within(Cardinality(Pending("invite")'), Inviting', MaxPending)
  <2>1. /\ Cardinality(Pending("invite")) \in Nat
        /\ Cardinality(Pending("invite")') \in 0..Cardinality(Pending("invite"))
    BY CodesFall DEF AInv, RowsType
  <2>2. Inviting \in SUBSET Workers /\ Inviting' \in SUBSET Inviting
    BY DEF Inviting, Stays
  <2>3. Within(Cardinality(Pending("invite")), Inviting, MaxPending)
    BY DEF CapsCounted
  <2> QED
    BY <1>1, <2>1, <2>2, <2>3, WithinStays
<1> QED
  BY <1>2, <1>3, <1>4 DEF CapsCounted, Within

Quietly(w) ==
  /\ \E label \in PCs \ {"code", "send"} : GoTo(w, label)
  /\ \A v \in Workers \ {w} : req'[v].op = req[v].op /\ req'[v].email = req[v].email
  /\ FailuresFall /\ NoneReopened

LEMMA QuietlyKeeps ==
  ASSUME AInv, AInv', CapsCounted, NEW w \in Workers, Quietly(w)
  PROVE  CapsCounted'
<1>1. \A v \in Workers : Stays(v)
  BY DEF Quietly, GoTo, Stays, AInv, ControlType
<1> QED
  BY <1>1, QuietStep DEF Quietly

LEMMA FailuresStill ==
  ASSUME RowsType, UNCHANGED failures \/ \E k : FailureReset(k)
  PROVE  FailuresFall
<1> SUFFICES ASSUME NEW j \in Kinds \X Emails PROVE failures'[j] <= failures[j]
  BY DEF FailuresFall
<1>1. failures[j] \in Nat
  BY DEF RowsType
<1>2. failures'[j] = failures[j] \/ failures'[j] = 0
  BY DEF FailureReset, RowsType
<1> QED
  BY <1>1, <1>2

LEMMA CodesStill ==
  ASSUME RowsType,
         \/ UNCHANGED codes
         \/ \E c, status : status # "pending" /\ SetStatus(c, status)
  PROVE  NoneReopened
<1>1. codes \in Seq(CodeIn)
  BY DEF RowsType
<1>2. \A c \in DOMAIN codes : codes[c] \in CodeIn
  BY <1>1
<1>3. CASE UNCHANGED codes
  BY <1>3 DEF NoneReopened
<1>4. ASSUME NEW c, NEW status, status # "pending", SetStatus(c, status) PROVE NoneReopened
  <2>1. codes' = [codes EXCEPT ![c].status = status]
    BY <1>4 DEF SetStatus
  <2>2. DOMAIN codes' = DOMAIN codes
    BY <1>1, <2>1
  <2>3. \A d \in DOMAIN codes : d # c => codes'[d] = codes[d]
    BY <1>1, <2>1
  <2>4. c \in DOMAIN codes => codes'[c] = [codes[c] EXCEPT !.status = status]
    BY <1>1, <2>1
  <2>5. c \in DOMAIN codes => /\ codes'[c].kind = codes[c].kind /\ codes'[c].email = codes[c].email
                              /\ codes'[c].status # "pending" /\ codes'[c].old = codes[c].old
    BY <1>2, <1>4, <2>4 DEF CodeIn
  <2> QED
    BY <2>2, <2>3, <2>5 DEF NoneReopened
<1> QED
  BY <1>3, <1>4

LEMMA RespondQuietly ==
  ASSUME AInv, NEW w \in Workers, Respond(w)
  PROVE  Quietly(w)
<1>1. FailuresFall /\ NoneReopened
  BY FailuresStill, CodesStill DEF Respond, rows, AInv
<1> QED
  BY <1>1 DEF Respond, Done, Quietly, AInv, ControlType, PCs

LEMMA ProceedQuietly ==
  ASSUME AInv, NEW w \in Workers, NEW label \in PCs \ {"code", "send", "idle"}, Proceed(w, label)
  PROVE  Quietly(w)
<1>1. FailuresFall /\ NoneReopened
  BY FailuresStill, CodesStill DEF Proceed, rows, AInv
<1> QED
  BY <1>1 DEF Proceed, Then, Quietly

LEMMA BeginQuietly ==
  ASSUME AInv, NEW w \in Workers, NEW r \in Requests, NEW c, NEW id, Begin(w, r, c, id)
  PROVE  Quietly(w)
<1>1. FailuresFall /\ NoneReopened
  BY FailuresStill, CodesStill DEF Begin, rows, AInv
<1>2. r.op \in Ops
  BY RequestsType DEF RequestType
<1>3. FirstStep(r.op) \in PCs \ {"code", "send"}
  BY <1>2 DEF FirstStep, Ops, PCs
<1>4. GoTo(w, FirstStep(r.op)) /\ \A v \in Workers \ {w} : req'[v] = req[v]
  BY DEF Begin, AInv, ControlType
<1> HIDE DEF FirstStep
<1> QED
  BY <1>1, <1>3, <1>4 DEF Quietly

LEMMA LookUpQuietly ==
  ASSUME AInv, NEW w \in Workers, LookUp(w)
  PROVE  Quietly(w)
<1>1. FailuresFall /\ NoneReopened
  BY FailuresStill, CodesStill DEF LookUp, rows, AInv
<1>2. req[w].op \in {"register", "verify", "reset", "resend", "forgot", "login", "change", "accept"}
  BY BusyKnows DEF LookUp, At, Fits
<1>3. PICK u : /\ GoTo(w, AfterUser(req[w], u))
               /\ req' = [req EXCEPT ![w] = IF AfterUser(req[w], u) = "idle" THEN Idle
                                    ELSE [@ EXCEPT !.id = IF u = NoUser THEN 0 ELSE u.id]]
  BY DEF LookUp
<1> DEFINE label == AfterUser(req[w], u)
<1>4. label \in {"idle", "first", "password", "mark", "cap", "session", "claim"}
  BY <1>2, AfterUserGoes
<1>5. GoTo(w, label) /\ \A v \in Workers \ {w} : req'[v] = req[v]
  BY <1>3 DEF AInv, ControlType
<1> HIDE DEF label
<1> QED
  BY <1>1, <1>4, <1>5 DEF Quietly, PCs

LEMMA ReadInviteQuietly ==
  ASSUME AInv, NEW w \in Workers, ReadInvite(w)
  PROVE  Quietly(w)
<1>1. CASE Respond(w)
  BY <1>1, RespondQuietly
<1>2. CASE ~Respond(w)
  <2>1. /\ GoTo(w, "user") \/ GoTo(w, "revoke")
        /\ req' = [req EXCEPT ![w].email = codes[req[w].code].email]
        /\ UNCHANGED <<rows, failures, fixed>>
    BY <1>2 DEF ReadInvite
  <2>2. FailuresFall /\ NoneReopened
    BY <2>1, FailuresStill, CodesStill DEF rows, AInv
  <2> QED
    BY <2>1, <2>2 DEF Quietly, PCs, AInv, ControlType
<1> QED
  BY <1>1, <1>2

LEMMA PasswordQuietly ==
  ASSUME AInv, NEW w \in Workers, UpdatePassword(w)
  PROVE  Quietly(w)
<1>1. CASE Respond(w)
  BY <1>1, RespondQuietly
<1>2. CASE ~Respond(w)
  <2>1. /\ GoTo(w, AfterPassword[req[w].op])
        /\ req' = [v \in Workers |->
                     IF v # w /\ pc[v] \in {"drop", "session"} /\ req[v].id = req[w].id
                     THEN [req[v] EXCEPT !.stale = TRUE] ELSE req[v]]
        /\ UNCHANGED codes /\ UNCHANGED failures
    BY <1>2 DEF UpdatePassword
  <2>2. FailuresFall /\ NoneReopened
    BY <2>1, FailuresStill, CodesStill DEF AInv
  <2>3. AfterPassword[req[w].op] \in PCs \ {"code", "send"}
    <3>1. req[w].op \in {"register", "reset", "change"}
      BY BusyKnows DEF UpdatePassword, At, Fits
    <3> QED
      BY <3>1 DEF AfterPassword, PCs
  <2>4. ASSUME NEW v \in Workers \ {w}
        PROVE  req'[v].op = req[v].op /\ req'[v].email = req[v].email
    <3>1. CASE pc[v] \in {"drop", "session"}
      <4>1. req[v] \in RequestIn(0..born, 0..Len(codes))
        BY <3>1, BusyKnows
      <4> QED
        BY <2>1, <4>1 DEF RequestIn
    <3>2. CASE pc[v] \notin {"drop", "session"}
      BY <2>1, <3>2
    <3> QED
      BY <3>1, <3>2
  <2> QED
    BY <2>1, <2>2, <2>3, <2>4 DEF Quietly
<1> QED
  BY <1>1, <1>2

LEMMA AccountQuietly ==
  ASSUME AInv, NEW w \in Workers,
         RegisterFirstUser(w) \/ CreateUser(w) \/ ActivateUser(w) \/ DeleteUser(w)
  PROVE  Quietly(w)
<1>1. CASE RegisterFirstUser(w)
  <2>1. CASE Respond(w) \/ Proceed(w, "create")
    BY <2>1, RespondQuietly, ProceedQuietly DEF PCs
  <2>2. CASE ~(Respond(w) \/ Proceed(w, "create"))
    <3>1. /\ GoTo(w, "session") /\ req' = [req EXCEPT ![w].id = born + 1]
          /\ UNCHANGED codes /\ UNCHANGED failures
      BY <1>1, <2>2 DEF RegisterFirstUser
    <3>2. FailuresFall /\ NoneReopened
      BY <3>1, FailuresStill, CodesStill DEF AInv
    <3> QED
      BY <3>1, <3>2 DEF Quietly, PCs, AInv, ControlType
  <2> QED
    BY <2>1, <2>2
<1>2. CASE CreateUser(w)
  <2>1. CASE Respond(w)
    BY <2>1, RespondQuietly
  <2>2. CASE ~Respond(w)
    <3>1. /\ GoTo(w, "cap") \/ GoTo(w, "activate")
          /\ req' = [req EXCEPT ![w].id = born + 1]
          /\ UNCHANGED codes /\ UNCHANGED failures
      BY <1>2, <2>2 DEF CreateUser
    <3>2. FailuresFall /\ NoneReopened
      BY <3>1, FailuresStill, CodesStill DEF AInv
    <3> QED
      BY <3>1, <3>2 DEF Quietly, PCs, AInv, ControlType
  <2> QED
    BY <2>1, <2>2
<1>3. CASE ActivateUser(w)
  <2>1. CASE Respond(w)
    BY <2>1, RespondQuietly
  <2>2. CASE ~Respond(w)
    <3>1. /\ GoTo(w, "session") \/ GoTo(w, "grant")
          /\ FailureReset(<<"verify", req[w].email>>) \/ UNCHANGED failures
          /\ UNCHANGED codes /\ UNCHANGED req
      BY <1>3, <2>2 DEF ActivateUser
    <3>2. FailuresFall /\ NoneReopened
      BY <3>1, FailuresStill, CodesStill DEF AInv
    <3> QED
      BY <3>1, <3>2 DEF Quietly, PCs
  <2> QED
    BY <2>1, <2>2
<1>4. CASE DeleteUser(w)
  <2>1. Done(w) /\ UNCHANGED codes /\ UNCHANGED failures
    BY <1>4 DEF DeleteUser
  <2>2. FailuresFall /\ NoneReopened
    BY <2>1, FailuresStill, CodesStill DEF AInv
  <2> QED
    BY <2>1, <2>2 DEF Done, Quietly, AInv, ControlType, PCs
<1> QED
  BY <1>1, <1>2, <1>3, <1>4

LEMMA SessionQuietly ==
  ASSUME AInv, NEW w \in Workers,
         DropSessions(w) \/ CreateUserSession(w) \/ GrantVaultRole(w)
  PROVE  Quietly(w)
<1>1. CASE DropSessions(w)
  <2>1. /\ GoTo(w, "delete") \/ GoTo(w, "session")
        /\ FailureReset(<<"reset", req[w].email>>) \/ UNCHANGED failures
        /\ UNCHANGED codes /\ UNCHANGED req
    BY <1>1 DEF DropSessions
  <2>2. FailuresFall /\ NoneReopened
    BY <2>1, FailuresStill, CodesStill DEF AInv
  <2> QED
    BY <2>1, <2>2 DEF Quietly, PCs
<1>2. CASE CreateUserSession(w) \/ GrantVaultRole(w)
  <2>1. Done(w) /\ UNCHANGED codes /\ UNCHANGED failures
    BY <1>2 DEF CreateUserSession, GrantVaultRole
  <2>2. FailuresFall /\ NoneReopened
    BY <2>1, FailuresStill, CodesStill DEF AInv
  <2> QED
    BY <2>1, <2>2 DEF Done, Quietly, AInv, ControlType, PCs
<1> QED
  BY <1>1, <1>2

LEMMA TakingQuietly ==
  ASSUME AInv, NEW w \in Workers, MarkUsed(w) \/ AcceptUserInvite(w)
  PROVE  Quietly(w)
<1>1. CASE Respond(w)
  BY <1>1, RespondQuietly
<1>2. CASE ~Respond(w)
  <2>1. /\ \E label \in {"activate", "drop", "create", "grant"} : GoTo(w, label)
        /\ \E c, status : status # "pending" /\ SetStatus(c, status)
        /\ UNCHANGED failures /\ UNCHANGED req
    <3>1. CASE MarkUsed(w)
      BY <1>2, <3>1 DEF MarkUsed
    <3>2. CASE AcceptUserInvite(w)
      BY <1>2, <3>2 DEF AcceptUserInvite
    <3> QED
      BY <3>1, <3>2
  <2>2. FailuresFall /\ NoneReopened
    BY <2>1, FailuresStill, CodesStill DEF AInv
  <2> QED
    BY <2>1, <2>2 DEF Quietly, PCs
<1> QED
  BY <1>1, <1>2

LEMMA ExpireQuietly ==
  ASSUME AInv, NEW w \in Workers, ExpireResets(w)
  PROVE  Quietly(w)
<1>1. codes \in Seq(CodeIn)
  BY DEF AInv, RowsType
<1>2. NoneReopened
  <2>1. CASE UNCHANGED codes
    BY <2>1, CodesStill DEF AInv
  <2>2. CASE codes' = [c \in DOMAIN codes |->
                         IF c \in Pending("reset") /\ codes[c].old
                         THEN [codes[c] EXCEPT !.status = "expired"] ELSE codes[c]]
    <3>1. DOMAIN codes' = DOMAIN codes
      BY <2>2
    <3>2. ASSUME NEW c \in DOMAIN codes
          PROVE  /\ codes'[c].kind = codes[c].kind /\ codes'[c].email = codes[c].email
                 /\ codes'[c].status = "pending" => codes[c].status = "pending"
                 /\ codes[c].old => codes'[c].old
      <4>1. codes[c] \in CodeIn
        BY <1>1
      <4>2. codes'[c] = codes[c] \/ codes'[c] = [codes[c] EXCEPT !.status = "expired"]
        BY <2>2
      <4> QED
        BY <4>1, <4>2 DEF CodeIn
    <3> QED
      BY <3>1, <3>2 DEF NoneReopened
  <2> QED
    BY <2>1, <2>2 DEF ExpireResets
<1>3. GoTo(w, "user") /\ UNCHANGED failures /\ UNCHANGED req
  BY DEF ExpireResets
<1>4. FailuresFall
  BY <1>3, FailuresStill DEF AInv
<1> QED
  BY <1>2, <1>3, <1>4 DEF Quietly, PCs

(* A worker that passes a test.                                            *)
LEMMA PassingTest ==
  ASSUME AInv, NEW w \in Workers, NEW label \in {"code", "send"}, Proceed(w, label)
  PROVE  /\ UNCHANGED req /\ UNCHANGED failures
         /\ \A kind : Pending(kind)' = Pending(kind)
         /\ \A kind, e : Fresh(kind, e)' = Fresh(kind, e)
         /\ label = "send" => \A k : Looking(k)' \subseteq Looking(k)
         /\ \A k : Looking(k)' \subseteq
                     Looking(k) \cup (IF label = "code" /\ k = <<req[w].op, req[w].email>>
                                      THEN {w} ELSE {})
         /\ \A kind, e : Sending(kind, e)' \subseteq
                           Sending(kind, e) \cup
                             (IF label = "send" /\ kind = CodeKind(req[w].op) /\ e = req[w].email
                              THEN {w} ELSE {})
         /\ Inviting' \subseteq
              Inviting \cup (IF label = "send" /\ CodeKind(req[w].op) = "invite" THEN {w} ELSE {})
<1>1. pc' = [pc EXCEPT ![w] = label] /\ UNCHANGED req /\ UNCHANGED codes /\ UNCHANGED failures
  BY DEF Proceed, Then, GoTo, rows
<1>2. \A v \in Workers : pc'[v] = IF v = w THEN label ELSE pc[v]
  BY <1>1 DEF AInv, ControlType
<1>3. /\ \A kind : Pending(kind)' = Pending(kind)
      /\ \A kind, e : Fresh(kind, e)' = Fresh(kind, e)
  BY <1>1 DEF Pending, Fresh
<1> HIDE DEF CodeKind
<1> QED
  BY <1>1, <1>2, <1>3 DEF Looking, Sending, Inviting

LEMMA CapsTypes ==
  ASSUME AInv
  PROVE  /\ MaxFailures \in Nat /\ MaxPending \in Nat
         /\ \A k \in Kinds \X Emails : failures[k] \in Nat
         /\ \A kind : Cardinality(Pending(kind)) \in Nat
         /\ \A kind, e : Cardinality(Fresh(kind, e)) \in Nat
         /\ \A k : Looking(k) \in SUBSET Workers
         /\ \A kind, e : Sending(kind, e) \in SUBSET Workers
         /\ Inviting \in SUBSET Workers
<1>1. codes \in Seq(CodeIn)
  BY DEF AInv, RowsType
<1>2. \A kind : Cardinality(Pending(kind)) \in Nat
  <2> SUFFICES ASSUME NEW kind PROVE Cardinality(Pending(kind)) \in Nat
    OBVIOUS
  <2>1. Pending(kind) \in SUBSET DOMAIN codes
    BY CodeSets
  <2> QED
    BY <1>1, <2>1, CodesFinite
<1>3. \A kind, e : Cardinality(Fresh(kind, e)) \in Nat
  <2> SUFFICES ASSUME NEW kind, NEW e PROVE Cardinality(Fresh(kind, e)) \in Nat
    OBVIOUS
  <2>1. Fresh(kind, e) \in SUBSET DOMAIN codes
    BY CodeSets
  <2> QED
    BY <1>1, <2>1, CodesFinite
<1>4. MaxFailures \in Nat /\ MaxPending \in Nat /\ \A k \in Kinds \X Emails : failures[k] \in Nat
  BY BoundsType DEF AInv, RowsType
<1>5. /\ \A k : Looking(k) \in SUBSET Workers
      /\ \A kind, e : Sending(kind, e) \in SUBSET Workers
      /\ Inviting \in SUBSET Workers
  BY DEF Looking, Sending, Inviting
<1> QED
  BY <1>2, <1>3, <1>4, <1>5

LEMMA FailureCheckCounts ==
  ASSUME AInv, AInv', CapsCounted, NEW w \in Workers, FailureCheck(w)
  PROVE  CapsCounted'
<1> DEFINE k0 == <<req[w].op, req[w].email>>
<1>1. CASE Respond(w)
  BY <1>1, RespondQuietly, QuietlyKeeps
<1>2. CASE Proceed(w, "code") /\ failures[k0] < MaxFailures
  <2>1. /\ UNCHANGED failures
        /\ \A k : Looking(k)' \subseteq Looking(k) \cup (IF k = k0 THEN {w} ELSE {})
        /\ \A kind, e : Fresh(kind, e)' = Fresh(kind, e) /\ Sending(kind, e)' \subseteq Sending(kind, e)
        /\ \A kind : Pending(kind)' = Pending(kind)
        /\ Inviting' \subseteq Inviting
    BY <1>2, PassingTest
  <2> HIDE DEF k0
  <2>2. ASSUME NEW k \in Kinds \X Emails PROVE Within(failures'[k], Looking(k)', MaxFailures)
    <3>1. CASE k = k0
      <4>1. Looking(k)' \in SUBSET Workers
        BY DEF Looking
      <4> QED
        BY <1>2, <2>1, <3>1, <4>1, WithinEnters, CapsTypes
    <3>2. CASE k # k0
      <4>1. Looking(k)' \in SUBSET Looking(k) /\ failures'[k] \in 0..failures[k]
        BY <2>1, <3>2, CapsTypes
      <4> QED
        BY <4>1, WithinStays, CapsTypes DEF CapsCounted
    <3> QED
      BY <3>1, <3>2
  <2>3. ASSUME NEW kind \in {"verify", "reset"}, NEW e \in Emails
        PROVE  Within(Cardinality(Fresh(kind, e)'), Sending(kind, e)', MaxPending)
    <3>1. Sending(kind, e)' \in SUBSET Sending(kind, e)
          /\ Cardinality(Fresh(kind, e)') \in 0..Cardinality(Fresh(kind, e))
      BY <2>1, CapsTypes
    <3> QED
      BY <3>1, WithinStays, CapsTypes DEF CapsCounted
  <2>4. Within(Cardinality(Pending("invite")'), Inviting', MaxPending)
    <3>1. Inviting' \in SUBSET Inviting
          /\ Cardinality(Pending("invite")') \in 0..Cardinality(Pending("invite"))
      BY <2>1, CapsTypes
    <3> QED
      BY <3>1, WithinStays, CapsTypes DEF CapsCounted
  <2> QED
    BY <2>2, <2>3, <2>4 DEF CapsCounted, Within
<1> QED
  BY <1>1, <1>2 DEF FailureCheck

(* A worker that passes the cap on codes of one kind for one address, or   *)
(* the cap on invites.                                                     *)
LEMMA CountCounts ==
  ASSUME AInv, AInv', CapsCounted, NEW w \in Workers, CountPendingCodes(w) \/ CountInvites(w)
  PROVE  CapsCounted'
<1> DEFINE kind0 == CodeKind(req[w].op)
           e0 == req[w].email
<1>1. CASE Respond(w)
  BY <1>1, RespondQuietly, QuietlyKeeps
<1>2. CASE /\ Proceed(w, "send")
           /\ \/ kind0 # "invite" /\ Cardinality(Fresh(kind0, e0)) < MaxPending
              \/ kind0 = "invite" /\ Cardinality(Pending("invite")) < MaxPending
  <2>1. /\ UNCHANGED failures
        /\ \A k : Looking(k)' \subseteq Looking(k)
        /\ \A kind, e : Sending(kind, e)' \subseteq
                          Sending(kind, e) \cup (IF kind = kind0 /\ e = e0 THEN {w} ELSE {})
        /\ \A kind : Pending(kind)' = Pending(kind)
        /\ \A kind, e : Fresh(kind, e)' = Fresh(kind, e)
        /\ Inviting' \subseteq Inviting \cup (IF kind0 = "invite" THEN {w} ELSE {})
    BY <1>2, PassingTest
  <2> HIDE DEF kind0, e0
  <2>2. ASSUME NEW k \in Kinds \X Emails PROVE Within(failures'[k], Looking(k)', MaxFailures)
    <3>1. Looking(k)' \in SUBSET Looking(k) /\ failures'[k] \in 0..failures[k]
      BY <2>1, CapsTypes
    <3> QED
      BY <3>1, WithinStays, CapsTypes DEF CapsCounted
  <2>3. ASSUME NEW kind \in {"verify", "reset"}, NEW e \in Emails
        PROVE  Within(Cardinality(Fresh(kind, e)'), Sending(kind, e)', MaxPending)
    <3>1. CASE kind = kind0 /\ e = e0
      <4>1. Sending(kind, e)' \in SUBSET Workers /\ Cardinality(Fresh(kind, e)) < MaxPending
        BY <1>2, <3>1 DEF Sending
      <4> QED
        BY <2>1, <4>1, WithinEnters, CapsTypes
    <3>2. CASE ~(kind = kind0 /\ e = e0)
      <4>1. Sending(kind, e)' \in SUBSET Sending(kind, e)
            /\ Cardinality(Fresh(kind, e)') \in 0..Cardinality(Fresh(kind, e))
        BY <2>1, <3>2, CapsTypes
      <4> QED
        BY <4>1, WithinStays, CapsTypes DEF CapsCounted
    <3> QED
      BY <3>1, <3>2
  <2>4. Within(Cardinality(Pending("invite")'), Inviting', MaxPending)
    <3>1. CASE kind0 = "invite"
      <4>1. Inviting' \in SUBSET Workers /\ Cardinality(Pending("invite")) < MaxPending
        BY <1>2, <3>1 DEF Inviting
      <4> QED
        BY <2>1, <4>1, WithinEnters, CapsTypes
    <3>2. CASE kind0 # "invite"
      <4>1. Inviting' \in SUBSET Inviting
            /\ Cardinality(Pending("invite")') \in 0..Cardinality(Pending("invite"))
        BY <2>1, <3>2, CapsTypes
      <4> QED
        BY <4>1, WithinStays, CapsTypes DEF CapsCounted
    <3> QED
      BY <3>1, <3>2
  <2> QED
    BY <2>2, <2>3, <2>4 DEF CapsCounted, Within
<1>3. CASE CountPendingCodes(w) /\ ~Respond(w)
  <2>1. req[w].op \in {"register", "resend", "forgot"}
    BY <1>3, BusyKnows DEF CountPendingCodes, At, Fits
  <2>2. kind0 # "invite"
    BY <2>1 DEF CodeKind
  <2>3. Proceed(w, "send") /\ Cardinality(Fresh(kind0, e0)) < MaxPending
    BY <1>3 DEF CountPendingCodes
  <2> QED
    BY <1>2, <2>2, <2>3
<1>4. CASE CountInvites(w) /\ ~Respond(w)
  <2>1. req[w].op = "invite"
    BY <1>4, BusyKnows DEF CountInvites, At, Fits
  <2>2. kind0 = "invite"
    BY <2>1 DEF CodeKind
  <2>3. Proceed(w, "send") /\ Cardinality(Pending("invite")) < MaxPending
    BY <1>4 DEF CountInvites
  <2> QED
    BY <1>2, <2>2, <2>3
<1> QED
  BY <1>1, <1>3, <1>4

LEMMA RecordedCounts ==
  ASSUME failures \in [Kinds \X Emails -> Nat], NEW k \in Kinds \X Emails, NEW f \in Recorded(k)
  PROVE  \A j \in Kinds \X Emails :
           f[j] \in Nat /\ f[j] <= failures[j] + 1 /\ (j # k => f[j] <= failures[j])
<1> DEFINE counted == [failures EXCEPT ![k] = @ + 1]
<1>1. \A j \in Kinds \X Emails :
        /\ failures[j] \in Nat
        /\ counted[j] \in Nat /\ counted[j] <= failures[j] + 1
        /\ j # k => counted[j] <= failures[j]
  OBVIOUS
<1>2. counted \in [Kinds \X Emails -> Nat]
  OBVIOUS
<1>3. f = counted \/ \E i : f = [counted EXCEPT ![i] = 0]
  BY DEF Recorded
<1> HIDE DEF counted
<1>4. \A j \in Kinds \X Emails : f[j] = counted[j] \/ f[j] = 0
  BY <1>2, <1>3
<1> QED
  BY <1>1, <1>4

LEMMA MatchCounts ==
  ASSUME AInv, AInv', CapsCounted, NEW w \in Workers, MatchCode(w)
  PROVE  CapsCounted'
<1> DEFINE k0 == <<req[w].op, req[w].email>>
<1>1. CASE Proceed(w, "user")
  BY <1>1, ProceedQuietly, QuietlyKeeps DEF PCs
<1>2. CASE failures' \in Recorded(k0) /\ Done(w) /\ UNCHANGED rows
  <2>1. pc[w] = "code" /\ req[w] \in RequestIn(0..born, 0..Len(codes)) /\ req[w].op \in {"verify", "reset"}
    BY BusyKnows DEF MatchCode, At, Fits
  <2>2. w \in Looking(k0) /\ k0 \in Kinds \X Emails
    BY <2>1 DEF Looking, RequestIn, Kinds
  <2> HIDE DEF k0
  <2>3. \A v \in Workers \ {w} : pc'[v] = pc[v] /\ req'[v] = req[v]
    BY <1>2 DEF Done, GoTo, AInv, ControlType
  <2>4. pc'[w] = "idle"
    BY <1>2 DEF Done, GoTo, AInv, ControlType
  <2>5. \A k \in Kinds \X Emails :
          /\ failures'[k] \in 0..(failures[k] + 1)
          /\ k # k0 => failures'[k] \in 0..failures[k]
    <3>1. \A j \in Kinds \X Emails :
            /\ failures'[j] \in Nat /\ failures'[j] <= failures[j] + 1
            /\ j # k0 => failures'[j] <= failures[j]
      BY <1>2, <2>2, RecordedCounts DEF AInv, RowsType
    <3> QED
      BY <3>1, CapsTypes
  <2>6. ASSUME NEW k \in Kinds \X Emails PROVE Within(failures'[k], Looking(k)', MaxFailures)
    <3>1. CASE k = k0
      <4>1. Looking(k)' \in SUBSET (Looking(k) \ {w}) /\ w \in Looking(k)
        BY <2>2, <2>3, <2>4, <3>1 DEF Looking
      <4>2. failures'[k] \in 0..(failures[k] + 1)
        BY <2>5
      <4> QED
        BY <4>1, <4>2, WithinActs, CapsTypes DEF CapsCounted
    <3>2. CASE k # k0
      <4>1. Looking(k)' \in SUBSET Looking(k)
        BY <2>3, <2>4 DEF Looking
      <4>2. failures'[k] \in 0..failures[k]
        BY <2>5, <3>2
      <4> QED
        BY <4>1, <4>2, WithinStays, CapsTypes DEF CapsCounted
    <3> QED
      BY <3>1, <3>2
  <2>7. UNCHANGED codes
    BY <1>2 DEF rows
  <2>8. ASSUME NEW kind \in {"verify", "reset"}, NEW e \in Emails
        PROVE  Within(Cardinality(Fresh(kind, e)'), Sending(kind, e)', MaxPending)
    <3>1. Sending(kind, e)' \in SUBSET Sending(kind, e)
      BY <2>3, <2>4 DEF Sending
    <3>2. Cardinality(Fresh(kind, e)') \in 0..Cardinality(Fresh(kind, e))
      BY <2>7, CodesStill, CodesFall DEF AInv, RowsType
    <3> QED
      BY <3>1, <3>2, WithinStays, CapsTypes DEF CapsCounted
  <2>9. Within(Cardinality(Pending("invite")'), Inviting', MaxPending)
    <3>1. Inviting' \in SUBSET Inviting
      BY <2>3, <2>4 DEF Inviting
    <3>2. Cardinality(Pending("invite")') \in 0..Cardinality(Pending("invite"))
      BY <2>7, CodesStill, CodesFall DEF AInv, RowsType
    <3> QED
      BY <3>1, <3>2, WithinStays, CapsTypes DEF CapsCounted
  <2> QED
    BY <2>6, <2>8, <2>9 DEF CapsCounted, Within
<1> QED
  BY <1>1, <1>2 DEF MatchCode

LEMMA InsertCounts ==
  ASSUME AInv, AInv', CapsCounted, NEW w \in Workers, InsertCode(w)
  PROVE  CapsCounted'
<1> DEFINE kind0 == CodeKind(req[w].op)
           e0 == req[w].email
           new == Len(codes) + 1
           row == [kind |-> kind0, email |-> e0, status |-> "pending", old |-> FALSE]
<1>1. pc[w] = "send" /\ codes' = Append(codes, row) /\ Done(w) /\ UNCHANGED failures
  BY DEF InsertCode, At
<1>2. row.kind = kind0 /\ row.email = e0
  OBVIOUS
<1> HIDE DEF kind0, e0, row
<1>3. codes \in Seq(CodeIn) /\ codes' \in Seq(CodeIn)
  BY DEF AInv, RowsType
<1>4. /\ DOMAIN codes' = DOMAIN codes \cup {new} /\ new \notin DOMAIN codes
      /\ codes'[new] = row /\ \A c \in DOMAIN codes : codes'[c] = codes[c]
  BY <1>1, <1>3
<1> HIDE DEF new
<1>5. /\ \A kind : Pending(kind)' \subseteq Pending(kind) \cup (IF kind = kind0 THEN {new} ELSE {})
      /\ \A kind, e : Fresh(kind, e)' \subseteq
                        Fresh(kind, e) \cup (IF kind = kind0 /\ e = e0 THEN {new} ELSE {})
  BY <1>2, <1>4 DEF Pending, Fresh
<1>6. \A v \in Workers \ {w} : pc'[v] = pc[v] /\ req'[v] = req[v]
  BY <1>1 DEF Done, GoTo, AInv, ControlType
<1>7. pc'[w] = "idle"
  BY <1>1 DEF Done, GoTo, AInv, ControlType
<1>8. ASSUME NEW S \in SUBSET DOMAIN codes, NEW T \in SUBSET DOMAIN codes'
      PROVE  /\ T \subseteq S \cup {new} => Cardinality(T) \in 0..(Cardinality(S) + 1)
             /\ T \subseteq S => Cardinality(T) \in 0..Cardinality(S)
  <2>1. IsFiniteSet(S) /\ Cardinality(S) \in Nat
    BY <1>3, CodesFinite
  <2>2. Cardinality(S \cup {new}) \in Nat /\ Cardinality(S \cup {new}) <= Cardinality(S) + 1
    BY <2>1, FS_AddElement
  <2>3. IsFiniteSet(S \cup {new})
    BY <2>1, FS_AddElement
  <2>4. T \subseteq S \cup {new} => Cardinality(T) \in Nat /\ Cardinality(T) <= Cardinality(S \cup {new})
    BY <2>3, FS_Subset, FS_CardinalityType
  <2>5. T \subseteq S => Cardinality(T) \in Nat /\ Cardinality(T) <= Cardinality(S)
    BY <2>1, FS_Subset, FS_CardinalityType
  <2> QED
    BY <2>1, <2>2, <2>4, <2>5
<1>9. ASSUME NEW k \in Kinds \X Emails PROVE Within(failures'[k], Looking(k)', MaxFailures)
  <2>1. Looking(k)' \in SUBSET Looking(k) /\ failures'[k] \in 0..failures[k]
    BY <1>1, <1>6, <1>7, CapsTypes DEF Looking
  <2> QED
    BY <2>1, WithinStays, CapsTypes DEF CapsCounted
<1>10. ASSUME NEW kind \in {"verify", "reset"}, NEW e \in Emails
       PROVE  Within(Cardinality(Fresh(kind, e)'), Sending(kind, e)', MaxPending)
  <2>1. Fresh(kind, e) \in SUBSET DOMAIN codes /\ Fresh(kind, e)' \in SUBSET DOMAIN codes'
    BY DEF Fresh, Pending
  <2>2. CASE kind = kind0 /\ e = e0
    <3>1. w \in Sending(kind, e) /\ Sending(kind, e)' \in SUBSET (Sending(kind, e) \ {w})
      BY <1>1, <1>6, <1>7, <2>2 DEF Sending, kind0, e0
    <3>2. Cardinality(Fresh(kind, e)') \in 0..(Cardinality(Fresh(kind, e)) + 1)
      BY <1>5, <1>8, <2>1, <2>2
    <3> QED
      BY <3>1, <3>2, WithinActs, CapsTypes DEF CapsCounted
  <2>3. CASE ~(kind = kind0 /\ e = e0)
    <3>1. Sending(kind, e)' \in SUBSET Sending(kind, e)
      BY <1>6, <1>7 DEF Sending
    <3>2. Cardinality(Fresh(kind, e)') \in 0..Cardinality(Fresh(kind, e))
      BY <1>5, <1>8, <2>1, <2>3
    <3> QED
      BY <3>1, <3>2, WithinStays, CapsTypes DEF CapsCounted
  <2> QED
    BY <2>2, <2>3
<1>11. Within(Cardinality(Pending("invite")'), Inviting', MaxPending)
  <2>1. Pending("invite") \in SUBSET DOMAIN codes /\ Pending("invite")' \in SUBSET DOMAIN codes'
    BY DEF Pending
  <2>2. CASE kind0 = "invite"
    <3>1. w \in Inviting /\ Inviting' \in SUBSET (Inviting \ {w})
      BY <1>1, <1>6, <1>7, <2>2 DEF Inviting, kind0
    <3>2. Cardinality(Pending("invite")') \in 0..(Cardinality(Pending("invite")) + 1)
      BY <1>5, <1>8, <2>1, <2>2
    <3> QED
      BY <3>1, <3>2, WithinActs, CapsTypes DEF CapsCounted
  <2>3. CASE kind0 # "invite"
    <3>1. Inviting' \in SUBSET Inviting
      BY <1>6, <1>7 DEF Inviting
    <3>2. Cardinality(Pending("invite")') \in 0..Cardinality(Pending("invite"))
      BY <1>5, <1>8, <2>1, <2>3
    <3> QED
      BY <3>1, <3>2, WithinStays, CapsTypes DEF CapsCounted
  <2> QED
    BY <2>2, <2>3
<1> QED
  BY <1>9, <1>10, <1>11 DEF CapsCounted, Within

(* A reinvite gives up the place of the invite it revoked.                 *)
LEMMA RevokeCounts ==
  ASSUME AInv, AInv', CapsCounted, NEW w \in Workers, RevokeUserInvite(w)
  PROVE  CapsCounted'
<1> DEFINE c == req[w].code
<1>1. pc[w] = "revoke"
  BY DEF RevokeUserInvite, At
<1>2. /\ req[w].op \in {"revoke", "reinvite"} /\ c \in DOMAIN codes /\ codes[c].kind = "invite"
  BY <1>1, BusyKnows DEF Fits, Knows, CodeKnown, KindFor
<1>3. CASE Respond(w)
  BY <1>3, RespondQuietly, QuietlyKeeps
<1>4. CASE ~Respond(w)
  <2>1. /\ codes[c].status = "pending" /\ SetStatus(c, "revoked")
        /\ \/ Done(w)
           \/ req[w].op = "reinvite" /\ GoTo(w, "send") /\ UNCHANGED req
        /\ UNCHANGED <<users, born, grants, sessions, failures>>
    BY <1>2, <1>4 DEF RevokeUserInvite, Then
  <2> HIDE DEF c
  <2>2. FailuresFall /\ NoneReopened
    BY <2>1, FailuresStill, CodesStill DEF AInv
  <2>3. CASE Done(w)
    BY <2>2, <2>3, QuietlyKeeps DEF Done, Quietly, AInv, ControlType, PCs
  <2>4. CASE req[w].op = "reinvite" /\ GoTo(w, "send") /\ UNCHANGED req
    <3>1. CodeKind(req[w].op) = "invite"
      BY <2>4 DEF CodeKind
    <3> HIDE DEF CodeKind
    <3>2. \A v \in Workers : pc'[v] = IF v = w THEN "send" ELSE pc[v]
      BY <2>4 DEF GoTo, AInv, ControlType
    <3>3. codes \in Seq(CodeIn)
      BY DEF AInv, RowsType
    <3>4. /\ \A kind : Cardinality(Pending(kind)') \in 0..Cardinality(Pending(kind))
          /\ \A kind, e : Cardinality(Fresh(kind, e)') \in 0..Cardinality(Fresh(kind, e))
      BY <2>2, <3>3, CodesFall
    <3>5. ASSUME NEW k \in Kinds \X Emails PROVE Within(failures'[k], Looking(k)', MaxFailures)
      <4>1. Looking(k)' \in SUBSET Looking(k) /\ failures'[k] \in 0..failures[k]
        BY <2>1, <2>4, <3>2, CapsTypes DEF Looking
      <4> QED
        BY <4>1, WithinStays, CapsTypes DEF CapsCounted
    <3>6. ASSUME NEW kind \in {"verify", "reset"}, NEW e \in Emails
          PROVE  Within(Cardinality(Fresh(kind, e)'), Sending(kind, e)', MaxPending)
      <4>1. Sending(kind, e)' \in SUBSET Sending(kind, e)
        BY <2>4, <3>1, <3>2 DEF Sending
      <4> QED
        BY <3>4, <4>1, WithinStays, CapsTypes DEF CapsCounted
    <3>7. Within(Cardinality(Pending("invite")'), Inviting', MaxPending)
      <4>1. codes'[c].status = "revoked"
        BY <1>2, <2>1, StatusWritten DEF SetStatus, AInv, RowsType, CodeIn
      <4>2. c \in Pending("invite") /\ Pending("invite")' \subseteq Pending("invite") \ {c}
        BY <1>2, <2>1, <2>2, <4>1 DEF Pending, NoneReopened, c
      <4>3. IsFiniteSet(Pending("invite")) /\ Cardinality(Pending("invite")) \in Nat
        BY <3>3, CodesFinite, CodeSets
      <4>4. /\ Cardinality(Pending("invite") \ {c}) = Cardinality(Pending("invite")) - 1
            /\ IsFiniteSet(Pending("invite") \ {c})
        BY <4>2, <4>3, FS_RemoveElement
      <4>5. /\ Cardinality(Pending("invite")') \in Nat
            /\ Cardinality(Pending("invite")') <= Cardinality(Pending("invite") \ {c})
        BY <4>2, <4>4, FS_Subset, FS_CardinalityType
      <4>6. Cardinality(Pending("invite")') < Cardinality(Pending("invite"))
        BY <4>3, <4>4, <4>5
      <4>7. Inviting' \in SUBSET (Inviting \cup {w})
        BY <2>4, <3>2 DEF Inviting
      <4>8. Within(Cardinality(Pending("invite")), Inviting, MaxPending)
        BY DEF CapsCounted
      <4> QED
        BY <4>3, <4>5, <4>6, <4>7, <4>8, WithinTurns, CapsTypes
    <3> QED
      BY <3>5, <3>6, <3>7 DEF CapsCounted, Within
  <2> QED
    BY <2>1, <2>3, <2>4
<1> QED
  BY <1>3, <1>4

LEMMA CapsStep ==
  ASSUME AInv, AInv', CapsCounted, [Next]_vars
  PROVE  CapsCounted'
<1>1. ASSUME NEW w \in Workers, NEW r \in Requests, NEW c \in 0..Len(codes), NEW id \in 0..born,
             Begin(w, r, c, id)
      PROVE  CapsCounted'
  BY <1>1, BeginQuietly, QuietlyKeeps
<1>2. ASSUME NEW w \in Workers, Read(w) PROVE CapsCounted'
  <2>1. CASE CountUsers(w) \/ CheckInvitee(w) \/ CheckDuplicate(w) \/ CheckDomain(w)
    <3>1. Respond(w) \/ \E label \in {"user", "duplicate", "domain", "room"} : Proceed(w, label)
      BY <2>1 DEF CountUsers, CheckInvitee, CheckDuplicate, CheckDomain
    <3> QED
      BY <3>1, RespondQuietly, ProceedQuietly, QuietlyKeeps DEF PCs
  <2>2. CASE FailureCheck(w) \/ MatchCode(w) \/ CountPendingCodes(w) \/ CountInvites(w)
    BY <2>2, FailureCheckCounts, MatchCounts, CountCounts
  <2>3. CASE LookUp(w) \/ ReadInvite(w)
    BY <2>3, LookUpQuietly, ReadInviteQuietly, QuietlyKeeps
  <2> QED
    BY <1>2, <2>1, <2>2, <2>3 DEF Read
<1>3. ASSUME NEW w \in Workers, Write(w) PROVE CapsCounted'
  BY <1>3, InsertCounts, RevokeCounts, PasswordQuietly, AccountQuietly, SessionQuietly,
     TakingQuietly, ExpireQuietly, QuietlyKeeps DEF Write
<1>4. ASSUME NEW w \in Workers, Fail(w) PROVE CapsCounted'
  BY <1>4, RespondQuietly, QuietlyKeeps DEF Fail
<1>5. ASSUME NEW c \in DOMAIN codes, PassTTL(c) PROVE CapsCounted'
  <2>1. /\ \A v \in Workers : Stays(v)
        /\ FailuresFall
    BY <1>5, FailuresStill DEF PassTTL, Stays, AInv
  <2>2. codes \in Seq(CodeIn) /\ codes' = [codes EXCEPT ![c].old = TRUE]
    BY <1>5 DEF PassTTL, AInv, RowsType
  <2>3. codes[c] \in CodeIn /\ codes'[c] = [codes[c] EXCEPT !.old = TRUE]
    BY <2>2
  <2>4. /\ codes'[c].kind = codes[c].kind /\ codes'[c].email = codes[c].email
        /\ codes'[c].status = codes[c].status /\ codes'[c].old
    BY <2>3 DEF CodeIn
  <2>5. DOMAIN codes' = DOMAIN codes /\ \A d \in DOMAIN codes \ {c} : codes'[d] = codes[d]
    BY <2>2
  <2>6. NoneReopened
    BY <2>4, <2>5 DEF NoneReopened
  <2> QED
    BY <2>1, <2>6, QuietStep
<1>6. CASE Restart
  <2>1. \A v \in Workers : Stays(v)
    BY <1>6 DEF Restart, Stays
  <2>2. FailuresFall /\ NoneReopened
    BY <1>6, CodesStill DEF Restart, rows, FailuresFall, AInv, RowsType
  <2> QED
    BY <2>1, <2>2, QuietStep
<1>7. CASE UNCHANGED vars
  <2>1. /\ \A v \in Workers : Stays(v)
        /\ FailuresFall /\ NoneReopened
    BY <1>7, FailuresStill, CodesStill DEF vars, Stays, AInv
  <2> QED
    BY <2>1, QuietStep
<1> QED
  BY <1>1, <1>2, <1>3, <1>4, <1>5, <1>6, <1>7 DEF Next

LEMMA CapsInit == Init => CapsCounted
<1> SUFFICES ASSUME Init PROVE CapsCounted
  OBVIOUS
<1>1. MaxFailures \in Nat /\ MaxPending \in Nat
  BY BoundsType
<1>2. Cardinality(Workers) \in Nat /\ Cardinality(Workers) # 0 /\ Cardinality({}) = 0
  BY WorkersFinite, FS_CardinalityType, FS_EmptySet
<1>3. \A k : Looking(k) = {}
  BY DEF Init, Looking
<1>4. (\A kind, e : Sending(kind, e) = {}) /\ Inviting = {}
  BY DEF Init, Sending, Inviting
<1>5. (\A kind : Pending(kind) = {}) /\ (\A kind, e : Fresh(kind, e) = {})
  BY DEF Init, Pending, Fresh
<1>6. \A k \in Kinds \X Emails : failures[k] = 0
  BY DEF Init
<1>7. Within(0, {}, MaxFailures) /\ Within(0, {}, MaxPending)
  BY <1>1, <1>2 DEF Within
<1> QED
  BY <1>2, <1>3, <1>4, <1>5, <1>6, <1>7 DEF CapsCounted

(* However many requests meet at a cap, each passes it by no more than     *)
(* itself: failed codes and pending codes stay below the cap and the       *)
(* number of workers.                                                      *)
THEOREM CapsOvershootBoundedHolds == Spec => []CapsOvershootBounded
<1>1. Init => AInv /\ CapsCounted
  BY InitInv, CapsInit
<1>2. AInv /\ CapsCounted /\ [Next]_vars => AInv' /\ CapsCounted'
  BY InvStep, CapsStep
<1>3. AInv /\ CapsCounted => CapsOvershootBounded
  <2> SUFFICES ASSUME AInv, CapsCounted PROVE CapsOvershootBounded
    OBVIOUS
  <2>1. Cardinality(Workers) \in Nat
    BY WorkersFinite, FS_CardinalityType
  <2>2. ASSUME NEW n \in Nat, NEW max \in Nat, NEW S \in SUBSET Workers, Within(n, S, max)
        PROVE  n < max + Cardinality(Workers)
    <3>1. Cardinality(S) \in Nat
      BY Counted
    <3> QED
      BY <2>1, <2>2, <3>1 DEF Within
  <2>3. ASSUME NEW k \in DOMAIN failures PROVE failures[k] < MaxFailures + Cardinality(Workers)
    <3>1. k \in Kinds \X Emails
      BY DEF AInv, RowsType
    <3> QED
      BY <2>2, <3>1, CapsTypes DEF CapsCounted
  <2>4. ASSUME NEW kind \in Kinds, NEW e \in Emails
        PROVE  Cardinality(Fresh(kind, e)) < MaxPending + Cardinality(Workers)
    <3>1. CASE kind # "invite"
      BY <2>2, <3>1, CapsTypes DEF CapsCounted, Kinds
    <3>2. CASE kind = "invite"
      <4>1. Cardinality(Pending("invite")) < MaxPending + Cardinality(Workers)
        BY <2>2, CapsTypes DEF CapsCounted
      <4>2. Cardinality(Fresh(kind, e)) \in 0..Cardinality(Pending("invite"))
        BY <3>2, CodeSets, CodesFinite DEF AInv, RowsType
      <4> QED
        BY <2>1, <4>1, <4>2, CapsTypes
    <3> QED
      BY <3>1, <3>2
  <2>5. Cardinality(Pending("invite")) < MaxPending + Cardinality(Workers)
    BY <2>2, CapsTypes DEF CapsCounted
  <2> QED
    BY <2>3, <2>4, <2>5 DEF CapsOvershootBounded
<1> QED
  BY <1>1, <1>2, <1>3, PTL DEF Spec

(***************************************************************************)
(* The promise of Admission.  Its variables, as the state gives them:      *)
(***************************************************************************)
Account == [e \in Emails |-> IF users[e] = NoUser THEN "absent"
                             ELSE IF users[e].active THEN "active" ELSE "unverified"]
Members == {e \in Present : users[e].id \in grants}
Owners == [c \in Tickets |-> codes[c].email]
Opens == {c \in Tickets : codes[c].status = "pending"}
Claimed == Claiming({"create", "activate"})
Admitted == Claiming({"grant"})

LEMMA LoseStep ==
  ASSUME UNCHANGED <<settled, Account, Members, Owners, Opens>>,
         Claimed' \subseteq Claimed, Admitted' \subseteq Admitted
  PROVE  Promise!Next
<1>1. Promise!Lose
  BY DEF Promise!Lose, Account, Members, Owners, Opens, Claimed, Admitted
<1> QED
  BY <1>1 DEF Promise!Next

LEMMA FirstOwnerStep ==
  ASSUME NEW e \in Emails, ~settled, Present = {}, Account' = [Account EXCEPT ![e] = "active"],
         Members' = {e}, UNCHANGED <<settled, Owners, Opens, Claimed, Admitted>>
  PROVE  Promise!Next
<1>1. Promise!FirstOwner(e)
  BY DEF Promise!FirstOwner, Promise!Empty, Promise!TicketVars, Account, Members, Owners, Opens,
         Claimed, Admitted, Present
<1> QED
  BY <1>1 DEF Promise!Next

LEMMA SignUpStep ==
  ASSUME NEW e \in Emails, users[e] = NoUser, Account' = [Account EXCEPT ![e] = "unverified"],
         UNCHANGED <<settled, Members, Owners, Opens, Claimed, Admitted>>
  PROVE  Promise!Next
<1>1. Promise!SignUp(e)
  BY DEF Promise!SignUp, Account, Members, Owners, Opens, Claimed, Admitted
<1> QED
  BY <1>1 DEF Promise!Next

LEMMA LeaveStep ==
  ASSUME NEW e \in Emails, Account' = [Account EXCEPT ![e] = "absent"], Members' = Members \ {e},
         UNCHANGED <<settled, Owners, Opens, Claimed, Admitted>>
  PROVE  Promise!Next
<1>1. Promise!Leave(e)
  BY DEF Promise!Leave, Promise!TicketVars, Account, Members, Owners, Opens, Claimed, Admitted
<1> QED
  BY <1>1 DEF Promise!Next

LEMMA IssueStep ==
  ASSUME NEW t, NEW e \in Emails, t \notin Tickets,
         Owners' = [u \in Tickets \cup {t} |-> IF u = t THEN e ELSE Owners[u]],
         Opens' = Opens \cup {t},
         UNCHANGED <<settled, Account, Members, Claimed, Admitted>>
  PROVE  Promise!Next
<1>1. DOMAIN Owners = Tickets /\ DOMAIN Owners' = Tickets \cup {t}
  BY DEF Owners
<1>2. Promise!Tickets = Tickets
  BY <1>1 DEF Promise!Tickets, Owners
<1>3. Promise!Issue(t, e)
  BY <1>2 DEF Promise!Issue, Account, Members, Owners, Opens, Claimed, Admitted
<1> QED
  BY <1>1, <1>3 DEF Promise!Next, Owners

LEMMA WithdrawStep ==
  ASSUME NEW t \in Tickets, Opens' = Opens \ {t},
         UNCHANGED <<settled, Account, Members, Owners, Claimed, Admitted>>
  PROVE  Promise!Next
<1>1. Promise!Withdraw(t)
  BY DEF Promise!Withdraw, Account, Members, Owners, Opens, Claimed, Admitted
<1> QED
  BY <1>1 DEF Promise!Next, Promise!Tickets, Owners

LEMMA ClaimStep ==
  ASSUME NEW t \in Opens, Opens' = Opens \ {t},
         \/ Claimed' = Claimed \cup {t} /\ UNCHANGED Admitted
         \/ Admitted' = Admitted \cup {t} /\ UNCHANGED Claimed,
         UNCHANGED <<settled, Account, Members, Owners>>
  PROVE  Promise!Next
<1>1. Promise!Claim(t)
  BY DEF Promise!Claim, Account, Members, Owners, Opens, Claimed, Admitted
<1>2. t \in Promise!Tickets
  BY DEF Promise!Tickets, Opens
<1> QED
  BY <1>1, <1>2 DEF Promise!Next

LEMMA AdmitStep ==
  ASSUME NEW t \in Tickets, t \in Claimed, NEW e \in Emails, codes[t].email = e,
         users[e] # NoUser, Account' = [Account EXCEPT ![e] = "active"],
         Claimed' = Claimed \ {t}, Admitted' \in {Admitted, Admitted \cup {t}},
         UNCHANGED <<settled, Members, Owners, Opens>>
  PROVE  Promise!Next
<1>1. Owners[t] = e /\ Account[e] # "absent"
  BY DEF Owners, Account
<1>2. Promise!Admit(t)
  BY <1>1 DEF Promise!Admit, Account, Members, Owners, Opens, Claimed, Admitted
<1>3. t \in Promise!Tickets
  BY DEF Promise!Tickets
<1> QED
  BY <1>2, <1>3 DEF Promise!Next

LEMMA EnrolStep ==
  ASSUME NEW t \in Tickets, t \in Admitted, Members' = Members \cup {codes[t].email},
         Admitted' = Admitted \ {t},
         UNCHANGED <<settled, Account, Owners, Opens, Claimed>>
  PROVE  Promise!Next
<1>1. Owners[t] = codes[t].email
  BY DEF Owners
<1>2. Promise!Enrol(t)
  BY <1>1 DEF Promise!Enrol, Account, Members, Owners, Opens, Claimed, Admitted
<1>3. t \in Promise!Tickets
  BY DEF Promise!Tickets
<1> QED
  BY <1>2, <1>3 DEF Promise!Next

(***************************************************************************)
(* Who holds a claim, before and after a step of w.                        *)
(***************************************************************************)
ClaimedBy(S, labels) ==
  {req[v].code : v \in {u \in S : pc[u] \in labels /\ req[u].op \in {"verify", "accept"}}}

LEMMA ClaimsSplit ==
  ASSUME NEW w \in Workers, NEW labels
  PROVE  Claiming(labels) =
           ClaimedBy(Workers \ {w}, labels) \cup
             (IF pc[w] \in labels /\ req[w].op \in {"verify", "accept"} THEN {req[w].code} ELSE {})
  BY DEF Claiming, ClaimedBy

LEMMA ClaimsSplitNext ==
  ASSUME NEW w \in Workers, NEW labels \in SUBSET {"create", "activate", "grant"},
         ControlType, OnlyMoves(w)
  PROVE  Claiming(labels)' =
           ClaimedBy(Workers \ {w}, labels) \cup
             (IF pc'[w] \in labels /\ req'[w].op \in {"verify", "accept"} THEN {req'[w].code} ELSE {})
<1>1. ASSUME NEW v \in Workers \ {w}
      PROVE  /\ pc'[v] = pc[v]
             /\ pc[v] \in labels => req'[v].op = req[v].op /\ req'[v].code = req[v].code
  <2>1. CASE pc[v] \in labels
    <3>1. req[v] \in RequestIn(0..born, 0..Len(codes))
      BY <2>1 DEF ControlType, RequestFits
    <3> QED
      BY <3>1 DEF OnlyMoves, RequestIn
  <2>2. CASE pc[v] \notin labels
    BY <2>2 DEF OnlyMoves
  <2> QED
    BY <2>1, <2>2
<1>2. ClaimedBy(Workers \ {w}, labels)' = ClaimedBy(Workers \ {w}, labels)
  BY <1>1 DEF ClaimedBy
<1>3. Claiming(labels)' = ClaimedBy(Workers \ {w}, labels)' \cup
        (IF pc'[w] \in labels /\ req'[w].op \in {"verify", "accept"} THEN {req'[w].code} ELSE {})
  BY DEF Claiming, ClaimedBy
<1> QED
  BY <1>2, <1>3

LEMMA ClaimsOfOthers ==
  ASSUME ClaimedOnce, NEW w \in Workers, Claims(pc[w], req[w].op),
         NEW labels \in SUBSET {"create", "activate", "grant"}
  PROVE  req[w].code \notin ClaimedBy(Workers \ {w}, labels)
  BY DEF ClaimedOnce, ClaimedBy, Claims

LEMMA ClaimsAre ==
  ASSUME NEW w \in Workers, ControlType, OnlyMoves(w)
  PROVE  LET now(labels) == IF pc[w] \in labels /\ req[w].op \in {"verify", "accept"}
                            THEN {req[w].code} ELSE {}
             next(labels) == IF pc'[w] \in labels /\ req'[w].op \in {"verify", "accept"}
                             THEN {req'[w].code} ELSE {}
             others(labels) == ClaimedBy(Workers \ {w}, labels)
         IN /\ Claimed = others({"create", "activate"}) \cup now({"create", "activate"})
            /\ Claimed' = others({"create", "activate"}) \cup next({"create", "activate"})
            /\ Admitted = others({"grant"}) \cup now({"grant"})
            /\ Admitted' = others({"grant"}) \cup next({"grant"})
<1>1. Claiming({"create", "activate"})' =
        ClaimedBy(Workers \ {w}, {"create", "activate"}) \cup
          (IF pc'[w] \in {"create", "activate"} /\ req'[w].op \in {"verify", "accept"}
           THEN {req'[w].code} ELSE {})
  BY ClaimsSplitNext
<1>2. Claiming({"grant"})' =
        ClaimedBy(Workers \ {w}, {"grant"}) \cup
          (IF pc'[w] \in {"grant"} /\ req'[w].op \in {"verify", "accept"} THEN {req'[w].code} ELSE {})
  BY ClaimsSplitNext
<1> QED
  BY <1>1, <1>2, ClaimsSplit DEF Claimed, Admitted

(* A request that does not act on a code, or that gives up.                *)
LEMMA ClaimsStay ==
  ASSUME NEW w \in Workers, ControlType, OnlyMoves(w),
         ~Claims(pc[w], req[w].op), ~Claims(pc'[w], req'[w].op)
  PROVE  UNCHANGED <<Claimed, Admitted>>
  BY ClaimsAre DEF Claims

LEMMA ClaimsLost ==
  ASSUME NEW w \in Workers, ControlType, OnlyMoves(w), ~Claims(pc'[w], req'[w].op)
  PROVE  Claimed' \subseteq Claimed /\ Admitted' \subseteq Admitted
  BY ClaimsAre DEF Claims

(* What a request sees of the accounts and the tickets.                    *)
LEMMA SameTickets ==
  ASSUME UNCHANGED codes
  PROVE  UNCHANGED <<Owners, Opens>>
  BY DEF Owners, Opens, Tickets

LEMMA SameMembers ==
  ASSUME UNCHANGED <<users, grants>>
  PROVE  UNCHANGED <<Account, Members>>
  BY DEF Account, Members, Present

LEMMA RespondRefines ==
  ASSUME AInv, NEW w \in Workers, Respond(w)
  PROVE  Promise!Next
<1>1. OnlyMoves(w) /\ ~Claims(pc'[w], req'[w].op)
  BY EndsMove DEF Respond, AInv, Claims
<1>2. UNCHANGED <<settled, Account, Members, Owners, Opens>>
  BY SameTickets, SameMembers DEF Respond, rows, fixed
<1> QED
  BY <1>1, <1>2, ClaimsLost, LoseStep DEF AInv

(* A step that moves w on, and writes nothing of the promise.              *)
LEMMA MovingRefines ==
  ASSUME AInv, NEW w \in Workers, OnlyMoves(w), ~Claims(pc'[w], req'[w].op),
         UNCHANGED <<users, grants, codes, settled>>
  PROVE  Promise!Next
<1>1. UNCHANGED <<settled, Account, Members, Owners, Opens>>
  BY SameTickets, SameMembers
<1> QED
  BY <1>1, ClaimsLost, LoseStep DEF AInv

LEMMA ProceedRefines ==
  ASSUME AInv, NEW w \in Workers, NEW label \in PCs \ {"idle", "activate", "grant"},
         Proceed(w, label), ~Claims(label, req[w].op)
  PROVE  Promise!Next
<1>1. OnlyMoves(w) /\ pc'[w] = label /\ req'[w] = req[w]
  BY GoesMove DEF Proceed, Then, AInv
<1> QED
  BY <1>1, MovingRefines DEF Proceed, rows, fixed

LEMMA BeginRefines ==
  ASSUME AInv, NEW w \in Workers, NEW r \in Requests, NEW c \in 0..Len(codes), NEW id \in 0..born,
         Begin(w, r, c, id)
  PROVE  Promise!Next
<1> DEFINE label == FirstStep(r.op)
<1>1. r.op \in Ops
  BY RequestsType DEF RequestType
<1>2. label \in PCs \ {"create", "activate", "grant"}
  BY <1>1 DEF FirstStep, Ops, PCs
<1>3. pc' = [pc EXCEPT ![w] = label] /\ \E q : req' = [req EXCEPT ![w] = q]
  BY DEF Begin, GoTo
<1> HIDE DEF label
<1>4. OnlyMoves(w) /\ ~Claims(pc'[w], req'[w].op)
  BY <1>2, <1>3 DEF AInv, ControlType, OnlyMoves, Claims
<1> QED
  BY <1>4, MovingRefines DEF Begin, rows, fixed

LEMMA ReadRefines ==
  ASSUME AInv, NEW w \in Workers, Read(w)
  PROVE  Promise!Next
<1> DEFINE r == req[w]
<1>1. CASE \/ Respond(w)
           \/ \E label \in {"user", "code", "send", "duplicate", "domain", "room"} :
                Proceed(w, label)
  BY <1>1, RespondRefines, ProceedRefines DEF PCs, Claims
<1>2. CASE CountUsers(w)
  BY <1>1, <1>2 DEF CountUsers
<1>3. CASE FailureCheck(w)
  BY <1>1, <1>3 DEF FailureCheck
<1>4. CASE CountPendingCodes(w)
  BY <1>1, <1>4 DEF CountPendingCodes
<1>5. CASE CheckInvitee(w) \/ CheckDuplicate(w) \/ CheckDomain(w) \/ CountInvites(w)
  BY <1>1, <1>5 DEF CheckInvitee, CheckDuplicate, CheckDomain, CountInvites
<1>6. CASE MatchCode(w)
  <2>1. CASE Proceed(w, "user")
    BY <1>1, <2>1
  <2>2. CASE Done(w) /\ UNCHANGED <<rows, fixed>>
    <3>1. OnlyMoves(w) /\ ~Claims(pc'[w], req'[w].op)
      BY <2>2, EndsMove DEF AInv, Claims
    <3> QED
      BY <2>2, <3>1, MovingRefines DEF rows, fixed
  <2> QED
    BY <1>6, <2>1, <2>2 DEF MatchCode
<1>7. CASE LookUp(w)
  <2>1. r.op \in {"register", "verify", "reset", "resend", "forgot", "login", "change", "accept"}
    BY <1>7, BusyKnows DEF LookUp, At, Fits
  <2>2. PICK u : /\ GoTo(w, AfterUser(r, u)) /\ \E q : req' = [req EXCEPT ![w] = q]
                 /\ UNCHANGED <<rows, failures, fixed>>
    BY <1>7 DEF LookUp
  <2> DEFINE label == AfterUser(r, u)
  <2>3. label \in {"idle", "first", "password", "mark", "cap", "session", "claim"}
    BY <2>1, AfterUserGoes
  <2> HIDE DEF label
  <2>4. OnlyMoves(w) /\ ~Claims(pc'[w], req'[w].op)
    BY <2>2, <2>3 DEF AInv, ControlType, OnlyMoves, Claims, GoTo, PCs, label
  <2> QED
    BY <2>2, <2>4, MovingRefines DEF rows, fixed
<1>8. CASE ReadInvite(w) /\ ~Respond(w)
  <2>1. /\ GoTo(w, "user") \/ GoTo(w, "revoke")
        /\ \E q : req' = [req EXCEPT ![w] = q]
        /\ UNCHANGED <<rows, failures, fixed>>
    BY <1>8 DEF ReadInvite
  <2>2. OnlyMoves(w) /\ ~Claims(pc'[w], req'[w].op)
    BY <2>1 DEF AInv, ControlType, OnlyMoves, Claims, GoTo, PCs
  <2> QED
    BY <2>1, <2>2, MovingRefines DEF rows, fixed
<1> QED
  BY <1>1, <1>2, <1>3, <1>4, <1>5, <1>6, <1>7, <1>8 DEF Read

LEMMA PasswordRefines ==
  ASSUME AInv, NEW w \in Workers, UpdatePassword(w)
  PROVE  Promise!Next
<1>1. CASE Respond(w)
  BY <1>1, RespondRefines
<1>2. CASE ~Respond(w)
  <2>1. req[w] \in RequestIn(0..born, 0..Len(codes)) /\ req[w].op \in {"register", "reset", "change"}
    BY BusyKnows DEF UpdatePassword, At, Fits
  <2>2. \A e \in Emails :
          /\ users'[e] = NoUser <=> users[e] = NoUser
          /\ users[e] # NoUser => /\ users'[e].id = users[e].id
                                  /\ users'[e].active = users[e].active
    BY <1>2, <2>1, PasswordRows
  <2>3. UNCHANGED grants /\ UNCHANGED codes /\ UNCHANGED settled
    BY <1>2 DEF UpdatePassword, fixed
  <2>4. Account' = Account
    BY <2>2 DEF Account
  <2>5. Members' = Members
    BY <2>2, <2>3 DEF Members, Present
  <2> DEFINE label == AfterPassword[req[w].op]
  <2>6. label \in {"cap", "mark", "drop"}
    BY <2>1 DEF AfterPassword
  <2>7. /\ req' = [v \in Workers |->
                     IF v # w /\ pc[v] \in {"drop", "session"} /\ req[v].id = req[w].id
                     THEN [req[v] EXCEPT !.stale = TRUE] ELSE req[v]]
        /\ GoTo(w, label)
    BY <1>2 DEF UpdatePassword
  <2> HIDE DEF label
  <2>8. OnlyMoves(w) /\ ~Claims(pc'[w], req'[w].op)
    BY <2>6, <2>7 DEF AInv, ControlType, OnlyMoves, GoTo, PCs, Claims
  <2> QED
    BY <2>3, <2>4, <2>5, <2>8, SameTickets, ClaimsLost, LoseStep DEF AInv
<1> QED
  BY <1>1, <1>2

LEMMA AccountAdded ==
  ASSUME AInv, NEW f \in Emails, NEW active \in BOOLEAN, NEW pw \in Passwords,
         users[f] = NoUser, users' = [users EXCEPT ![f] = NewRow(born + 1, active, pw)]
  PROVE  /\ Account' = [Account EXCEPT ![f] = IF active THEN "active" ELSE "unverified"]
         /\ Present' = Present \cup {f} /\ users'[f].id = born + 1
         /\ \A e \in Present : e # f /\ users'[e] = users[e]
<1> DEFINE row == NewRow(born + 1, active, pw)
<1>1. born \in Nat /\ born + 1 \in Nat
  BY DEF AInv, RowsType
<1>2. row # NoUser /\ row.id = born + 1 /\ row.active = active
  BY <1>1, NoUserIsNoRow DEF NewRow
<1> HIDE DEF row
<1>3. users'[f] = row /\ \A e \in Emails \ {f} : users'[e] = users[e]
  BY DEF AInv, RowsType, row
<1> QED
  BY <1>2, <1>3 DEF Account, Present

LEMMA FirstRefines ==
  ASSUME AInv, NEW w \in Workers, RegisterFirstUser(w)
  PROVE  Promise!Next
<1> DEFINE r == req[w]
<1>1. pc[w] = "first"
  BY DEF RegisterFirstUser, At
<1>2. r \in RequestIn(0..born, 0..Len(codes)) /\ r.op = "register"
  BY <1>1, BusyKnows DEF Fits
<1>3. CASE Respond(w)
  BY <1>3, RespondRefines
<1>4. CASE Proceed(w, "create")
  BY <1>2, <1>4, ProceedRefines DEF PCs, Claims
<1>5. CASE ~settled /\ Present = {}
  <2>1. /\ users' = [users EXCEPT ![r.email] = NewRow(born + 1, TRUE, r.new)]
        /\ grants' = grants \cup {born + 1}
        /\ req' = [req EXCEPT ![w].id = born + 1] /\ GoTo(w, "session")
        /\ UNCHANGED <<codes, settled>>
    BY <1>5 DEF RegisterFirstUser, fixed
  <2>2. r.email \in Emails /\ r.new \in Passwords /\ users[r.email] = NoUser
    BY <1>2, <1>5 DEF RequestIn, Present
  <2>3. /\ Account' = [Account EXCEPT ![r.email] = "active"]
        /\ Present' = {r.email} /\ users'[r.email].id = born + 1
    BY <1>5, <2>1, <2>2, AccountAdded
  <2>4. Members' = {r.email}
    <3>1. born + 1 \in grants' /\ r.email \in Present'
      BY <2>1, <2>3
    <3>2. \A e : e \in Members' <=> e \in Present' /\ users'[e].id \in grants'
      BY DEF Members
    <3> QED
      BY <2>3, <3>1, <3>2
  <2>5. OnlyMoves(w) /\ pc'[w] = "session"
    BY <2>1 DEF AInv, ControlType, OnlyMoves, GoTo, PCs
  <2>6. UNCHANGED <<Claimed, Admitted>>
    BY <1>1, <2>5, ClaimsStay DEF AInv, Claims
  <2> QED
    BY <1>5, <2>1, <2>2, <2>3, <2>4, <2>6, SameTickets, FirstOwnerStep
<1> QED
  BY <1>3, <1>4, <1>5 DEF RegisterFirstUser

LEMMA CreateRefines ==
  ASSUME AInv, NEW w \in Workers, CreateUser(w)
  PROVE  Promise!Next
<1> DEFINE r == req[w]
           label == IF r.op = "register" THEN "cap" ELSE "activate"
           q == [r EXCEPT !.id = born + 1]
<1>1. pc[w] = "create"
  BY DEF CreateUser, At
<1>2. r \in RequestIn(0..born, 0..Len(codes)) /\ r.op \in {"register", "accept"}
  BY <1>1, BusyKnows DEF Fits
<1>3. CASE Respond(w)
  BY <1>3, RespondRefines
<1>4. CASE ~Respond(w)
  <2>1. /\ users' = [users EXCEPT ![r.email] = NewRow(born + 1, FALSE, r.new)]
        /\ req' = [req EXCEPT ![w].id = born + 1] /\ GoTo(w, label)
        /\ users[r.email] = NoUser
        /\ UNCHANGED <<grants, codes, settled>>
    BY <1>4 DEF CreateUser, fixed
  <2>2. r.email \in Emails /\ r.new \in Passwords
    BY <1>2 DEF RequestIn
  <2>3. /\ Account' = [Account EXCEPT ![r.email] = "unverified"]
        /\ Present' = Present \cup {r.email} /\ users'[r.email].id = born + 1
        /\ \A e \in Present : e # r.email /\ users'[e] = users[e]
    BY <2>1, <2>2, AccountAdded
  <2>4. born + 1 \notin grants
    BY DEF AInv, RowsType
  <2>5. Members' = Members
    <3>1. \A e : e \in Members' <=> e \in Present' /\ users'[e].id \in grants
      BY <2>1 DEF Members
    <3>2. \A e : e \in Members <=> e \in Present /\ users[e].id \in grants
      BY DEF Members
    <3> QED
      BY <2>3, <2>4, <3>1, <3>2
  <2>6. /\ label \in {"cap", "activate"} /\ (label = "activate" <=> r.op = "accept")
        /\ q.op = r.op /\ q.code = r.code
    BY <1>2 DEF RequestIn
  <2>7. req' = [req EXCEPT ![w] = q]
    BY <2>1
  <2> HIDE DEF label, q
  <2>8. OnlyMoves(w) /\ pc'[w] = label /\ req'[w] = q
    BY <2>1, <2>6, <2>7 DEF AInv, ControlType, OnlyMoves, GoTo, PCs
  <2>9. UNCHANGED <<Claimed, Admitted>>
    BY <1>1, <1>2, <2>6, <2>8, ClaimsAre DEF AInv
  <2> QED
    BY <2>1, <2>2, <2>3, <2>5, <2>9, SameTickets, SignUpStep
<1> QED
  BY <1>3, <1>4

LEMMA InsertRefines ==
  ASSUME AInv, NEW w \in Workers, InsertCode(w)
  PROVE  Promise!Next
<1> DEFINE kind0 == CodeKind(req[w].op)
           e0 == req[w].email
           new == Len(codes) + 1
           row == [kind |-> kind0, email |-> e0, status |-> "pending", old |-> FALSE]
<1>1. /\ pc[w] = "send" /\ codes' = Append(codes, row) /\ Done(w)
      /\ UNCHANGED <<users, grants, settled>>
  BY DEF InsertCode, At, fixed
<1>2. row.kind = kind0 /\ row.email = e0 /\ row.status = "pending"
  OBVIOUS
<1>3. e0 \in Emails
  BY <1>1, BusyKnows DEF RequestIn
<1> HIDE DEF kind0, e0, row
<1>4. codes \in Seq(CodeIn)
  BY DEF AInv, RowsType
<1>5. /\ DOMAIN codes' = DOMAIN codes \cup {new} /\ new \notin DOMAIN codes
      /\ codes'[new] = row /\ \A c \in DOMAIN codes : codes'[c] = codes[c]
  BY <1>1, <1>4
<1> HIDE DEF new
<1>6. OnlyMoves(w) /\ pc'[w] = "idle"
  BY <1>1, EndsMove DEF AInv
<1>7. UNCHANGED <<Claimed, Admitted>>
  BY <1>1, <1>6, ClaimsStay DEF AInv, Claims
<1>8. CASE kind0 = "reset"
  <2>1. Tickets' = Tickets /\ \A c \in Tickets : codes'[c] = codes[c]
    BY <1>2, <1>5, <1>8 DEF Tickets
  <2>2. UNCHANGED <<Owners, Opens>>
    BY <2>1 DEF Owners, Opens
  <2> QED
    BY <1>1, <1>7, <2>2, SameMembers, LoseStep
<1>9. CASE kind0 # "reset"
  <2>1. /\ Tickets' = Tickets \cup {new} /\ new \notin Tickets
        /\ \A c \in Tickets : codes'[c] = codes[c]
    BY <1>2, <1>5, <1>9 DEF Tickets
  <2>2. Owners' = [u \in Tickets \cup {new} |-> IF u = new THEN e0 ELSE Owners[u]]
    BY <1>2, <1>5, <2>1 DEF Owners
  <2>3. Opens' = Opens \cup {new}
    <3>1. \A c : c \in Opens' <=> c \in Tickets' /\ codes'[c].status = "pending"
      BY DEF Opens
    <3>2. \A c : c \in Opens <=> c \in Tickets /\ codes[c].status = "pending"
      BY DEF Opens
    <3> QED
      BY <1>2, <1>5, <2>1, <3>1, <3>2
  <2> QED
    BY <1>1, <1>3, <1>7, <2>1, <2>2, <2>3, SameMembers, IssueStep
<1> QED
  BY <1>8, <1>9

(* A code that is not pending any more is a ticket that is closed, unless  *)
(* it is a reset code, which is none.                                      *)
LEMMA TicketClosed ==
  ASSUME AInv, NEW c \in DOMAIN codes,
         NEW status \in {"used", "accepted", "revoked", "expired"}, SetStatus(c, status)
  PROVE  /\ UNCHANGED Owners
         /\ codes[c].kind = "reset" => UNCHANGED Opens
         /\ codes[c].kind # "reset" => c \in Tickets /\ Opens' = Opens \ {c}
<1>1. codes \in Seq(CodeIn) /\ codes' = [codes EXCEPT ![c].status = status]
  BY DEF AInv, RowsType, SetStatus
<1>2. codes[c] \in CodeIn /\ codes'[c] = [codes[c] EXCEPT !.status = status]
  BY <1>1
<1>3. /\ codes'[c].kind = codes[c].kind /\ codes'[c].email = codes[c].email
      /\ codes'[c].status = status
  BY <1>2 DEF CodeIn
<1>4. DOMAIN codes' = DOMAIN codes /\ \A d \in DOMAIN codes \ {c} : codes'[d] = codes[d]
  BY <1>1
<1>5. Tickets' = Tickets /\ \A d \in Tickets : codes'[d].email = codes[d].email
  BY <1>3, <1>4 DEF Tickets
<1>6. UNCHANGED Owners
  BY <1>5 DEF Owners
<1>7. \A d : d \in Opens' <=> d \in Opens /\ d # c
  <2>1. \A d : d \in Opens' <=> d \in Tickets' /\ codes'[d].status = "pending"
    BY DEF Opens
  <2>2. \A d : d \in Opens <=> d \in Tickets /\ codes[d].status = "pending"
    BY DEF Opens
  <2>3. \A d \in Tickets \ {c} : codes'[d] = codes[d]
    BY <1>4 DEF Tickets
  <2>4. codes'[c].status # "pending"
    BY <1>3
  <2> QED
    BY <1>5, <2>1, <2>2, <2>3, <2>4
<1>8. codes[c].kind = "reset" => c \notin Opens
  BY DEF Opens, Tickets
<1>9. codes[c].kind # "reset" => c \in Tickets
  BY DEF Tickets
<1> QED
  BY <1>6, <1>7, <1>8, <1>9

LEMMA MarkRefines ==
  ASSUME AInv, NEW w \in Workers, MarkUsed(w)
  PROVE  Promise!Next
<1> DEFINE c == req[w].code
<1>1. pc[w] = "mark"
  BY DEF MarkUsed, At
<1>2. /\ req[w].op \in {"verify", "reset"} /\ c \in DOMAIN codes
      /\ codes[c].kind = req[w].op
  BY <1>1, BusyKnows DEF Fits, Knows, CodeKnown, KindFor
<1>3. CASE Respond(w)
  BY <1>3, RespondRefines
<1>4. CASE ~Respond(w)
  <2> DEFINE label == IF req[w].op = "verify" THEN "activate" ELSE "drop"
  <2>1. label \in {"activate", "drop"} /\ (label = "activate" <=> req[w].op = "verify")
    BY <1>2
  <2>2. /\ codes[c].status = "pending" /\ SetStatus(c, "used")
        /\ GoTo(w, label) /\ UNCHANGED req /\ UNCHANGED <<users, grants, settled>>
    BY <1>4 DEF MarkUsed, fixed
  <2> HIDE DEF label
  <2>3. OnlyMoves(w) /\ pc'[w] = label /\ req'[w] = req[w]
    BY <2>1, <2>2, GoesMove DEF AInv, PCs
  <2>4. UNCHANGED Account /\ UNCHANGED Members
    BY <2>2, SameMembers
  <2>5. /\ UNCHANGED Owners
        /\ codes[c].kind = "reset" => UNCHANGED Opens
        /\ codes[c].kind # "reset" => c \in Tickets /\ Opens' = Opens \ {c}
    BY <1>2, <2>2, TicketClosed
  <2>6. CASE req[w].op = "reset"
    <3>1. UNCHANGED <<Claimed, Admitted>>
      BY <1>1, <2>1, <2>3, <2>6, ClaimsStay DEF AInv, Claims
    <3> QED
      BY <1>2, <2>2, <2>4, <2>5, <2>6, <3>1, LoseStep
  <2>7. CASE req[w].op = "verify"
    <3>1. Claimed' = Claimed \cup {c} /\ UNCHANGED Admitted
      BY <1>1, <2>1, <2>3, <2>7, ClaimsAre DEF AInv
    <3>2. c \in Opens /\ Opens' = Opens \ {c}
      BY <1>2, <2>2, <2>5, <2>7 DEF Opens
    <3> QED
      BY <2>2, <2>4, <2>5, <3>1, <3>2, ClaimStep
  <2> QED
    BY <1>2, <2>6, <2>7
<1> QED
  BY <1>3, <1>4

LEMMA AcceptRefines ==
  ASSUME AInv, NEW w \in Workers, AcceptUserInvite(w)
  PROVE  Promise!Next
<1> DEFINE c == req[w].code
<1>1. pc[w] = "claim"
  BY DEF AcceptUserInvite, At
<1>2. /\ req[w].op = "accept" /\ c \in DOMAIN codes
      /\ codes[c].kind = "invite"
  BY <1>1, BusyKnows DEF Fits, Knows, CodeKnown, KindFor
<1>3. CASE Respond(w)
  BY <1>3, RespondRefines
<1>4. CASE ~Respond(w)
  <2> DEFINE label == IF req[w].id = 0 THEN "create" ELSE "grant"
  <2>1. label \in {"create", "grant"}
    OBVIOUS
  <2>2. /\ codes[c].status = "pending" /\ SetStatus(c, "accepted")
        /\ GoTo(w, label) /\ UNCHANGED req /\ UNCHANGED <<users, grants, settled>>
    BY <1>4 DEF AcceptUserInvite, fixed
  <2> HIDE DEF label
  <2>3. OnlyMoves(w) /\ pc'[w] = label /\ req'[w] = req[w]
    BY <2>1, <2>2, GoesMove DEF AInv, PCs
  <2>4. UNCHANGED Account /\ UNCHANGED Members
    BY <2>2, SameMembers
  <2>5. UNCHANGED Owners /\ c \in Tickets /\ Opens' = Opens \ {c}
    BY <1>2, <2>2, TicketClosed
  <2>6. c \in Opens
    BY <2>2, <2>5 DEF Opens
  <2>7. \/ Claimed' = Claimed \cup {c} /\ UNCHANGED Admitted
        \/ Admitted' = Admitted \cup {c} /\ UNCHANGED Claimed
    BY <1>1, <1>2, <2>1, <2>3, ClaimsAre DEF AInv
  <2> QED
    BY <2>2, <2>4, <2>5, <2>6, <2>7, ClaimStep
<1> QED
  BY <1>3, <1>4

LEMMA RevokeRefines ==
  ASSUME AInv, NEW w \in Workers, RevokeUserInvite(w)
  PROVE  Promise!Next
<1> DEFINE c == req[w].code
<1>1. pc[w] = "revoke"
  BY DEF RevokeUserInvite, At
<1>2. /\ req[w].op \in {"revoke", "reinvite"} /\ c \in DOMAIN codes /\ codes[c].kind = "invite"
  BY <1>1, BusyKnows DEF Fits, Knows, CodeKnown, KindFor
<1>3. CASE Respond(w)
  BY <1>3, RespondRefines
<1>4. CASE ~Respond(w)
  <2>1. /\ SetStatus(c, "revoked")
        /\ Done(w) \/ (GoTo(w, "send") /\ UNCHANGED req)
        /\ UNCHANGED <<users, grants, settled>>
    BY <1>4 DEF RevokeUserInvite, Then, fixed
  <2>2. OnlyMoves(w) /\ pc'[w] \in {"idle", "send"}
    BY <2>1, EndsMove, GoesMove DEF AInv, PCs
  <2>3. UNCHANGED <<Claimed, Admitted>>
    BY <1>1, <2>2, ClaimsStay DEF AInv, Claims
  <2>4. UNCHANGED Owners /\ c \in Tickets /\ Opens' = Opens \ {c}
    BY <1>2, <2>1, TicketClosed
  <2> QED
    BY <2>1, <2>3, <2>4, SameMembers, WithdrawStep
<1> QED
  BY <1>3, <1>4

LEMMA ActivateRefines ==
  ASSUME AInv, NEW w \in Workers, ActivateUser(w)
  PROVE  Promise!Next
<1> DEFINE r == req[w]
           c == r.code
           e0 == r.email
           label == IF r.op = "verify" THEN "session" ELSE "grant"
<1>1. pc[w] = "activate"
  BY DEF ActivateUser, At
<1>2. /\ r \in RequestIn(0..born, 0..Len(codes)) /\ r.op \in {"verify", "accept"}
      /\ c \in DOMAIN codes /\ codes[c].kind # "reset" /\ codes[c].email = e0
      /\ \A e \in Held(r.id) : e = e0
  BY <1>1, BusyKnows DEF Fits, Knows, CodeKnown, RowKnown, KindFor
<1>3. CASE Respond(w)
  BY <1>3, RespondRefines
<1>4. CASE ~Respond(w)
  <2>1. /\ Held(r.id) # {} /\ GoTo(w, label) /\ UNCHANGED req
        /\ UNCHANGED <<grants, codes, settled>>
    BY <1>4 DEF ActivateUser, fixed
  <2>2. Held(r.id) = {e0} /\ e0 \in Emails
    BY <1>2, <2>1 DEF Held, Present
  <2>3. /\ users[e0] # NoUser
        /\ users'[e0] # NoUser /\ users'[e0].id = users[e0].id /\ users'[e0].active
        /\ \A e \in Emails \ {e0} : users'[e] = users[e]
    BY <1>4, <2>2, ActivateRows
  <2>4. Account' = [Account EXCEPT ![e0] = "active"]
    BY <2>2, <2>3 DEF Account
  <2>5. UNCHANGED Members
    BY <2>1, <2>2, <2>3 DEF Members, Present
  <2>6. label \in {"session", "grant"} /\ (label = "grant" <=> r.op = "accept")
    BY <1>2
  <2> HIDE DEF label
  <2>7. OnlyMoves(w) /\ pc'[w] = label /\ req'[w] = r
    BY <2>1, <2>6, GoesMove DEF AInv, PCs
  <2>8. /\ c \notin ClaimedBy(Workers \ {w}, {"create", "activate"})
        /\ c \notin ClaimedBy(Workers \ {w}, {"grant"})
    BY <1>1, <1>2, ClaimsOfOthers DEF AInv, Claims
  <2>9. /\ c \in Claimed /\ Claimed' = Claimed \ {c}
        /\ Admitted' \in {Admitted, Admitted \cup {c}}
    BY <1>1, <1>2, <2>6, <2>7, <2>8, ClaimsAre DEF AInv
  <2>10. c \in Tickets
    BY <1>2 DEF Tickets
  <2> HIDE DEF c, e0
  <2>11. codes[c].email = e0
    BY <1>2 DEF c, e0
  <2> QED
    BY <2>1, <2>2, <2>3, <2>4, <2>5, <2>9, <2>10, <2>11, SameTickets, AdmitStep
<1> QED
  BY <1>3, <1>4

LEMMA GrantRefines ==
  ASSUME AInv, NEW w \in Workers, GrantVaultRole(w)
  PROVE  Promise!Next
<1> DEFINE r == req[w]
           c == r.code
<1>1. pc[w] = "grant"
  BY DEF GrantVaultRole, At
<1>2. /\ r.op = "accept"
      /\ c \in DOMAIN codes /\ codes[c].kind # "reset" /\ codes[c].email = r.email
      /\ \A e \in Held(r.id) : e = r.email
  BY <1>1, BusyKnows DEF Fits, Knows, CodeKnown, RowKnown, KindFor
<1>3. /\ grants' = grants \cup {r.id} /\ Done(w) /\ UNCHANGED <<users, codes, settled>>
  BY DEF GrantVaultRole, fixed
<1>4. UNCHANGED Account /\ UNCHANGED <<Owners, Opens>>
  BY <1>3, SameTickets DEF Account
<1>5. OnlyMoves(w) /\ pc'[w] = "idle"
  BY <1>3, EndsMove DEF AInv
<1>6. Present' = Present /\ \A e : e \in Members' <=> e \in Members \cup Held(r.id)
  BY <1>3 DEF Members, Held, Present
<1>7. CASE Held(r.id) = {}
  <2>1. UNCHANGED Members
    BY <1>6, <1>7
  <2>2. Claimed' \subseteq Claimed /\ Admitted' \subseteq Admitted
    BY <1>5, ClaimsLost DEF AInv, Claims
  <2> QED
    BY <1>3, <1>4, <2>1, <2>2, LoseStep
<1>8. CASE Held(r.id) # {}
  <2>1. Members' = Members \cup {codes[c].email}
    BY <1>2, <1>6, <1>8
  <2>2. /\ c \notin ClaimedBy(Workers \ {w}, {"create", "activate"})
        /\ c \notin ClaimedBy(Workers \ {w}, {"grant"})
    BY <1>1, <1>2, ClaimsOfOthers DEF AInv, Claims
  <2>3. c \in Admitted /\ Admitted' = Admitted \ {c} /\ UNCHANGED Claimed
    BY <1>1, <1>2, <1>5, <2>2, ClaimsAre DEF AInv
  <2>4. c \in Tickets
    BY <1>2 DEF Tickets
  <2> QED
    BY <1>3, <1>4, <2>1, <2>3, <2>4, EnrolStep
<1> QED
  BY <1>7, <1>8

LEMMA DeleteRefines ==
  ASSUME AInv, NEW w \in Workers, DeleteUser(w)
  PROVE  Promise!Next
<1> DEFINE id == req[w].id
<1>1. /\ pc[w] = "delete"
      /\ users' = [e \in Emails |-> IF e \in Held(id) THEN NoUser ELSE users[e]]
      /\ IF Held(id) = {} THEN UNCHANGED grants ELSE grants' = grants \ {id}
      /\ Done(w) /\ UNCHANGED <<codes, settled>>
  BY DEF DeleteUser, At, fixed
<1>2. OnlyMoves(w) /\ pc'[w] = "idle"
  BY <1>1, EndsMove DEF AInv
<1>3. UNCHANGED <<Claimed, Admitted>>
  BY <1>1, <1>2, ClaimsStay DEF AInv, Claims
<1>4. CASE Held(id) = {}
  <2>1. users' = users
    BY <1>1, <1>4 DEF AInv, RowsType
  <2> QED
    BY <1>1, <1>3, <1>4, <2>1, SameMembers, SameTickets, LoseStep
<1>5. CASE Held(id) # {}
  <2>1. PICK e \in Held(id) : TRUE
    BY <1>5
  <2>2. Held(id) = {e} /\ e \in Emails /\ e \in Present
    BY <2>1 DEF Held, AInv, RowsType, Present
  <2>3. users'[e] = NoUser /\ \A d \in Emails \ {e} : users'[d] = users[d]
    BY <1>1, <2>2
  <2>4. Account' = [Account EXCEPT ![e] = "absent"]
    BY <2>2, <2>3 DEF Account
  <2>5. Present' = Present \ {e} /\ \A d \in Present \ {e} : users[d].id # id
    BY <2>2, <2>3 DEF Present, Held
  <2>6. \A d : d \in Members' <=> d \in Members /\ d # e
    BY <1>1, <1>5, <2>3, <2>5 DEF Members, Present
  <2>7. Members' = Members \ {e}
    BY <2>6
  <2> QED
    BY <1>1, <1>3, <2>2, <2>4, <2>7, SameTickets, LeaveStep
<1> QED
  BY <1>4, <1>5

LEMMA StepRefines == AInv /\ [Next]_vars => [Promise!Next]_(Promise!vars)
<1> SUFFICES ASSUME AInv, [Next]_vars PROVE [Promise!Next]_(Promise!vars)
  OBVIOUS
<1>1. ASSUME NEW w \in Workers, NEW r \in Requests, NEW c \in 0..Len(codes), NEW id \in 0..born,
             Begin(w, r, c, id)
      PROVE  Promise!Next
  BY <1>1, BeginRefines
<1>2. ASSUME NEW w \in Workers, Read(w) PROVE Promise!Next
  BY <1>2, ReadRefines
<1>3. ASSUME NEW w \in Workers, Write(w) PROVE Promise!Next
  <2>1. CASE ExpireResets(w)
    <3>1. GoTo(w, "user") /\ UNCHANGED req /\ UNCHANGED <<users, grants, settled>>
      BY <2>1 DEF ExpireResets, fixed
    <3>2. OnlyMoves(w) /\ ~Claims(pc'[w], req'[w].op)
      BY <3>1, GoesMove DEF AInv, PCs, Claims
    <3>3. UNCHANGED <<Owners, Opens>>
      <4>1. CASE UNCHANGED codes
        BY <4>1, SameTickets
      <4>2. CASE codes' = [c \in DOMAIN codes |->
                             IF c \in Pending("reset") /\ codes[c].old
                             THEN [codes[c] EXCEPT !.status = "expired"] ELSE codes[c]]
        <5>1. DOMAIN codes' = DOMAIN codes
          BY <4>2
        <5>2. \A c \in DOMAIN codes : codes[c] \in CodeIn
          BY DEF AInv, RowsType
        <5>3. \A c \in DOMAIN codes : codes'[c].kind = codes[c].kind
          BY <4>2, <5>2 DEF CodeIn
        <5>4. Tickets' = Tickets
          BY <5>1, <5>3 DEF Tickets
        <5>5. \A c \in Tickets : codes'[c] = codes[c]
          BY <4>2 DEF Tickets, Pending
        <5> QED
          BY <5>4, <5>5 DEF Owners, Opens
      <4> QED
        BY <2>1, <4>1, <4>2 DEF ExpireResets
    <3> QED
      BY <3>1, <3>2, <3>3, SameMembers, ClaimsLost, LoseStep DEF AInv
  <2>2. CASE DropSessions(w)
    <3>1. /\ GoTo(w, "delete") \/ GoTo(w, "session")
          /\ UNCHANGED req /\ UNCHANGED <<users, grants, codes, settled>>
      BY <2>2 DEF DropSessions, fixed
    <3>2. OnlyMoves(w) /\ ~Claims(pc'[w], req'[w].op)
      BY <3>1, GoesMove DEF AInv, PCs, Claims
    <3> QED
      BY <3>1, <3>2, MovingRefines
  <2>3. CASE CreateUserSession(w)
    <3>1. Done(w) /\ UNCHANGED <<users, grants, codes, settled>>
      BY <2>3 DEF CreateUserSession, fixed
    <3>2. OnlyMoves(w) /\ ~Claims(pc'[w], req'[w].op)
      BY <3>1, EndsMove DEF AInv, Claims
    <3> QED
      BY <3>1, <3>2, MovingRefines
  <2> QED
    BY <1>3, <2>1, <2>2, <2>3, PasswordRefines, FirstRefines, CreateRefines, InsertRefines,
       MarkRefines, ActivateRefines, DeleteRefines, AcceptRefines, GrantRefines, RevokeRefines
       DEF Write
<1>4. ASSUME NEW w \in Workers, Fail(w) PROVE Promise!Next
  BY <1>4, RespondRefines DEF Fail
<1>5. ASSUME NEW c \in DOMAIN codes, PassTTL(c) PROVE Promise!Next
  <2>1. /\ codes' = [codes EXCEPT ![c].old = TRUE]
        /\ UNCHANGED <<users, grants, settled, pc, req>>
    BY <1>5 DEF PassTTL, fixed
  <2>2. codes \in Seq(CodeIn) /\ codes[c] \in CodeIn
    BY DEF AInv, RowsType
  <2>3. codes'[c] = [codes[c] EXCEPT !.old = TRUE]
    BY <2>1, <2>2
  <2>4. codes'[c].kind = codes[c].kind /\ codes'[c].email = codes[c].email
        /\ codes'[c].status = codes[c].status
    BY <2>2, <2>3 DEF CodeIn
  <2>5. DOMAIN codes' = DOMAIN codes /\ \A d \in DOMAIN codes \ {c} : codes'[d] = codes[d]
    BY <2>1, <2>2
  <2>6. Tickets' = Tickets
    BY <2>4, <2>5 DEF Tickets
  <2>7. UNCHANGED <<Owners, Opens>>
    BY <2>4, <2>5, <2>6 DEF Owners, Opens, Tickets
  <2>8. UNCHANGED <<Claimed, Admitted>>
    BY <2>1 DEF Claimed, Admitted, Claiming
  <2> QED
    BY <2>1, <2>7, <2>8, SameMembers, LoseStep
<1>6. CASE Restart
  <2>1. /\ pc' = [w \in Workers |-> "idle"]
        /\ UNCHANGED <<users, grants, codes, settled>>
    BY <1>6 DEF Restart, rows, fixed
  <2>2. Claimed' = {} /\ Admitted' = {}
    BY <2>1 DEF Claimed, Admitted, Claiming
  <2> QED
    BY <2>1, <2>2, SameMembers, SameTickets, LoseStep
<1>7. CASE UNCHANGED vars
  <2>1. UNCHANGED <<users, grants, codes, settled, pc, req>>
    BY <1>7 DEF vars
  <2>2. UNCHANGED <<Claimed, Admitted>>
    BY <2>1 DEF Claimed, Admitted, Claiming
  <2> QED
    BY <2>1, <2>2, SameMembers, SameTickets, LoseStep
<1> QED
  BY <1>1, <1>2, <1>3, <1>4, <1>5, <1>6, <1>7 DEF Next

LEMMA InitRefines == Init => Promise!Init
<1> SUFFICES ASSUME Init PROVE Promise!Init
  OBVIOUS
<1>1. /\ users = [e \in Emails |-> NoUser] /\ codes = <<>> /\ settled \in BOOLEAN
      /\ pc = [w \in Workers |-> "idle"]
  BY DEF Init
<1>2. Account = [e \in Emails |-> "absent"] /\ Members = {}
  BY <1>1 DEF Account, Members, Present
<1>3. Tickets = {}
  BY <1>1 DEF Tickets
<1>4. Owners = <<>> /\ Opens = {}
  BY <1>3 DEF Owners, Opens
<1>5. Claimed = {} /\ Admitted = {}
  BY <1>1 DEF Claimed, Admitted, Claiming
<1> QED
  BY <1>1, <1>2, <1>4, <1>5 DEF Promise!Init, Account, Members, Owners, Opens, Claimed, Admitted

(* Whatever requests, failures and restarts interleave, nobody gets in     *)
(* but with a ticket of that address, claimed once: Accounts implements    *)
(* Admission.                                                              *)
THEOREM AdmissionRefinement == Spec => ImplementsAdmission
<1>1. Init => Promise!Init
  BY InitRefines
<1>2. AInv /\ [Next]_vars => [Promise!Next]_(Promise!vars)
  BY StepRefines
<1> QED
  BY <1>1, <1>2, Inductive, PTL DEF Spec, ImplementsAdmission, Promise!Spec

===============================================================================
