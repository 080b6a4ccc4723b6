------------------------------- MODULE Tunnel -------------------------------
(***************************************************************************)
(* The transparent proxy: mitm/connect.go, forward.go, websocket.go and    *)
(* the credential provider of brokercore, for one actor and one vault.     *)
(*                                                                         *)
(* A client authenticates once for a CONNECT tunnel, which then carries    *)
(* requests one after another, or with every absolute-form request.  A     *)
(* request is limited, its body is read, and Inject reads the service      *)
(* list, then either the policy for unmatched hosts or the credentials,    *)
(* one statement after another, while the control plane changes all of     *)
(* them.  Every request ends in one record and returns its slot.           *)
(*                                                                         *)
(* Abstracted: the vault's services are what they say of the request's     *)
(* host (nothing, a disabled service, a service that uses the keys Uses);  *)
(* headers, bodies and certificates carry nothing that a property reads.   *)
(*                                                                         *)
(* Bounds: MaxVersion credential writes.                                   *)
(***************************************************************************)
EXTENDS Integers, Sequences, FiniteSets

CONSTANTS
  Clients,       \* connections to the proxy
  Keys,          \* credential keys
  Uses,          \* the keys in the order Inject resolves them:
                 \* substitutions first, then the auth headers
  Cap,           \* concurrency slots of the scope
  MaxVersion

ASSUME UsesAssumption == Uses \in Seq(Keys) /\ Uses # <<>>
ASSUME BoundsAssumption == IsFiniteSet(Clients) /\ Cap \in Nat

VARIABLES
  config,    \* what the stored services say of the host
  policy,    \* unmatched_host_policy of the vault
  creds,     \* the credential table: the version of each value, 0 for no row
  version,   \* history: credential writes so far
  token,     \* "live" | "revoked"
  conn,      \* the connections
  slots,     \* slots taken in the semaphore
  owed,      \* history: records that started requests have still to leave
  past       \* history: every state of the credential table

stored == <<config, policy, creds, version, token, past>>
vars == <<config, policy, creds, version, token, conn, slots, owed, past>>

Configs == {"unmatched", "disabled", "matched"}
Policies == {"passthrough", "deny"}

Closed == [at |-> "closed"]
Open == [at |-> "open"]

Init ==
  /\ config \in Configs /\ policy \in Policies
  /\ creds = [k \in Keys |-> 1] /\ version = 1 /\ past = {creds}
  /\ token = "live"
  /\ conn = [c \in Clients |-> Closed]
  /\ slots = 0 /\ owed = 0

InFlight(c) == conn[c].at \notin {"closed", "open"}

Goto(c, at) == conn' = [conn EXCEPT ![c].at = at]

(***************************************************************************)
(* Authentication.  ResolveForProxy reads the session and the vault; what  *)
(* it found, the scope, is kept by the tunnel.                             *)
(***************************************************************************)
HandleConnect(c) ==
  /\ conn[c] = Closed /\ token = "live"
  /\ conn' = [conn EXCEPT ![c] = Open]
  /\ UNCHANGED <<stored, slots, owed>>

Disconnect(c) ==
  /\ conn[c] = Open
  /\ conn' = [conn EXCEPT ![c] = Closed]
  /\ UNCHANGED <<stored, slots, owed>>

Facts(cfg, pol) == {f \in {cfg, pol} : f \in {"unmatched", "passthrough"}}

(* values: the versions read so far, in the order of Uses.  History:       *)
(* stale, whether the token was revoked when the request began; floor, the *)
(* oldest versions that were current since; facts, what the vault allowed  *)
(* at some moment since.                                                   *)
Request(kind) ==
  [at |-> "limit", kind |-> kind, slot |-> FALSE, bare |-> FALSE, values |-> <<>>,
   stale |-> token = "revoked",
   floor |-> [k \in Keys |-> IF creds[k] = 0 THEN version + 1 ELSE creds[k]],
   facts |-> Facts(config, policy)]

(* The next request of a tunnel; an absolute-form request, which resolves  *)
(* its token first.                                                        *)
ForwardHandler(c) ==
  /\ conn[c] = Open
  /\ conn' = [conn EXCEPT ![c] = Request("connect")]
  /\ owed' = owed + 1
  /\ UNCHANGED <<stored, slots>>

HandleForward(c) ==
  /\ conn[c] = Closed /\ token = "live"
  /\ conn' = [conn EXCEPT ![c] = Request("forward")]
  /\ owed' = owed + 1
  /\ UNCHANGED <<stored, slots>>

(***************************************************************************)
(* forwardRequest: each return emits a record, and the deferred release    *)
(* runs after it.                                                          *)
(***************************************************************************)
Emit(c) ==
  /\ Goto(c, "returning")
  /\ owed' = owed - 1
  /\ UNCHANGED <<stored, slots>>

(* EnforceProxy: denied by the rate or for want of a slot; allowed without *)
(* a slot while the limiter is off.                                        *)
Denied(c) == conn[c].at = "limit" /\ Emit(c)

Unlimited(c) ==
  /\ conn[c].at = "limit"
  /\ Goto(c, "body")
  /\ UNCHANGED <<stored, slots, owed>>

EnforceProxy(c) ==
  /\ conn[c].at = "limit" /\ slots < Cap
  /\ slots' = slots + 1
  /\ conn' = [conn EXCEPT ![c].at = "body", ![c].slot = TRUE]
  /\ UNCHANGED <<stored, owed>>

MaterializeRequestBody(c) ==
  /\ conn[c].at = "body"
  /\ Goto(c, "config")
  /\ UNCHANGED <<stored, slots, owed>>

(* A body too large or broken off; a failed statement of Inject, whichever *)
(* it is: the service list, the policy or a credential (credential.go:91,  *)
(* :129, :155); a substitution that does not fit; no answer from upstream; *)
(* a websocket whose connection cannot be taken over.                      *)
CanFail == {"body", "config", "policy", "keys", "send", "upstream"}
Fails(c) == conn[c].at \in CanFail /\ Emit(c)

(* GetBrokerConfig and MatchService.                                       *)
Matched(c) ==
  /\ conn[c].at = "config" /\ config = "matched"
  /\ Goto(c, "keys")
  /\ UNCHANGED <<stored, slots, owed>>

ServiceDisabled(c) == conn[c].at = "config" /\ config = "disabled" /\ Emit(c)

UnmatchedOrFailed(c) ==
  /\ conn[c].at = "config"
  /\ Goto(c, "policy")
  /\ UNCHANGED <<stored, slots, owed>>
Unmatched(c) ==
  /\ conn[c].at = "config" /\ config = "unmatched"
  /\ Goto(c, "policy")
  /\ UNCHANGED <<stored, slots, owed>>

UnmatchedDenied(c) == conn[c].at = "policy" /\ policy = "deny" /\ Emit(c)

Passthrough(c) ==
  /\ conn[c].at = "policy" /\ policy = "passthrough"
  /\ conn' = [conn EXCEPT ![c].at = "send", ![c].bare = TRUE]
  /\ UNCHANGED <<stored, slots, owed>>

(* getCredential: the first use of a key reads the table, a later one      *)
(* takes the value of the first.                                           *)
ResolvedAnew(values) == creds[Uses[Len(values) + 1]]
ResolvedFromCache(values) == CHOOSE v \in 1..version : \E table \in past : table[Uses[Len(values) + 1]] = v
Resolved(values) ==
  LET i == Len(values) + 1
      before == {j \in 1..Len(values) : Uses[j] = Uses[i]}
  IN IF before # {} THEN values[CHOOSE j \in before : TRUE] ELSE creds[Uses[i]]

GetCredential(c) ==
  /\ conn[c].at = "keys"
  /\ Resolved(conn[c].values) # 0
  /\ LET values == Append(conn[c].values, Resolved(conn[c].values))
     IN conn' = [conn EXCEPT ![c].values = values,
                             ![c].at = IF Len(values) = Len(Uses) THEN "send" ELSE "keys"]
  /\ UNCHANGED <<stored, slots, owed>>

CredentialMissing(c) ==
  /\ conn[c].at = "keys" /\ Resolved(conn[c].values) = 0
  /\ Emit(c)

(* ApplyInjection, ApplySubstitutions and the request to the upstream.     *)
RoundTrip(c) ==
  /\ conn[c].at = "send"
  /\ Goto(c, "upstream")
  /\ UNCHANGED <<stored, slots, owed>>

Answered(c) == conn[c].at = "upstream" /\ Emit(c)

(* A websocket: recorded when the protocols are switched, then piped until *)
(* one side closes or is idle; it keeps its slot for as long.              *)
SwitchingProtocols(c) ==
  /\ conn[c].at = "upstream"
  /\ Goto(c, "websocket")
  /\ owed' = owed - 1
  /\ UNCHANGED <<stored, slots>>

(* The deferred release.  A tunnel goes on; a hijacked connection and an   *)
(* absolute-form request are done.                                         *)
ReturnUnhijacked(c) ==
  /\ conn[c].at \in {"returning", "websocket"}
  /\ slots' = IF conn[c].slot /\ conn[c].at = "returning" THEN slots - 1 ELSE slots
  /\ conn' = [conn EXCEPT ![c] =
                IF conn[c].at = "returning" /\ conn[c].kind = "connect" THEN Open ELSE Closed]
  /\ UNCHANGED <<stored, owed>>
Return(c) ==
  /\ conn[c].at \in {"returning", "websocket"}
  /\ slots' = IF conn[c].slot THEN slots - 1 ELSE slots
  /\ conn' = [conn EXCEPT ![c] =
                IF conn[c].at = "returning" /\ conn[c].kind = "connect" THEN Open ELSE Closed]
  /\ UNCHANGED <<stored, owed>>

(* Shutdown does not wait for tunnels: they die with the process.          *)
Restart ==
  /\ conn' = [c \in Clients |-> Closed]
  /\ slots' = 0 /\ owed' = 0
  /\ UNCHANGED stored

(***************************************************************************)
(* The control plane, one transaction each.                                *)
(***************************************************************************)
Noticed(cfg, pol) ==
  conn' = [c \in Clients |-> IF InFlight(c)
             THEN [conn[c] EXCEPT !.facts = @ \cup Facts(cfg, pol)] ELSE conn[c]]

SetServices(cfg) ==
  /\ cfg # config
  /\ config' = cfg
  /\ Noticed(cfg, policy)
  /\ UNCHANGED <<policy, creds, version, token, past, slots, owed>>

SetPolicy(pol) ==
  /\ pol # policy
  /\ policy' = pol
  /\ Noticed(config, pol)
  /\ UNCHANGED <<config, creds, version, token, past, slots, owed>>

(* One credential set, or several together by an approved proposal.        *)
SetCredentials(ks) ==
  /\ version < MaxVersion
  /\ version' = version + 1
  /\ creds' = [k \in Keys |-> IF k \in ks THEN version + 1 ELSE creds[k]]
  /\ past' = past \cup {creds'}
  /\ UNCHANGED <<config, policy, token, conn, slots, owed>>

DeleteCredential(k) ==
  /\ creds[k] # 0
  /\ creds' = [creds EXCEPT ![k] = 0]
  /\ past' = past \cup {creds'}
  /\ UNCHANGED <<config, policy, version, token, conn, slots, owed>>

(* The token is revoked or rotated, or its grant on the vault is taken.    *)
Revoke ==
  /\ token = "live"
  /\ token' = "revoked"
  /\ UNCHANGED <<config, policy, creds, version, past, conn, slots, owed>>

(* The vault's rows go with it; without a row the policy is the default.   *)
DeleteVault ==
  /\ config' = "unmatched" /\ policy' = "passthrough" /\ token' = "revoked"
  /\ creds' = [k \in Keys |-> 0]
  /\ past' = past \cup {creds'}
  /\ Noticed("unmatched", "passthrough")
  /\ UNCHANGED <<version, slots, owed>>

Serve(c) ==
  \/ HandleConnect(c) \/ Disconnect(c) \/ ForwardHandler(c) \/ HandleForward(c)
  \/ Denied(c) \/ Unlimited(c) \/ EnforceProxy(c) \/ MaterializeRequestBody(c)
  \/ Fails(c) \/ Matched(c) \/ ServiceDisabled(c) \/ Unmatched(c)
  \/ UnmatchedDenied(c) \/ Passthrough(c) \/ GetCredential(c) \/ CredentialMissing(c)
  \/ RoundTrip(c) \/ Answered(c) \/ SwitchingProtocols(c) \/ Return(c)

Control ==
  \/ \E cfg \in Configs : SetServices(cfg)
  \/ \E pol \in Policies : SetPolicy(pol)
  \/ \E ks \in SUBSET Keys \ {{}} : SetCredentials(ks)
  \/ \E k \in Keys : DeleteCredential(k)
  \/ Revoke \/ DeleteVault

Next == (\E c \in Clients : Serve(c)) \/ Control \/ Restart

Spec == Init /\ [][Next]_vars

(***************************************************************************)
(* Properties.                                                             *)
(***************************************************************************)

(* Whatever way a request ends, it leaves exactly one record and gives     *)
(* back the slot it took, once: the semaphore holds as many slots as there *)
(* are requests with one, and what is still owed to the log is one record  *)
(* for each request that has not come to its end (forward.go:187-304,      *)
(* websocket.go:60-112).                                                   *)
AccountedFor ==
  /\ slots = Cardinality({c \in Clients : InFlight(c) /\ conn[c].slot})
  /\ slots <= Cap
  /\ owed = Cardinality({c \in Clients :
                           InFlight(c) /\ conn[c].at \notin {"returning", "websocket"}})

Sent(c) == conn[c].at \in {"upstream", "websocket"}

(* A key that a service uses twice, for a substitution and for a header,   *)
(* has one value throughout the request, even while it is being rotated    *)
(* (credential.go:148).                                                    *)
OneValuePerKey ==
  \A c \in Clients : Sent(c) =>
    \A i, j \in 1..Len(conn[c].values) :
      Uses[i] = Uses[j] => conn[c].values[i] = conn[c].values[j]

(* A value that had been replaced or deleted when a request began is not   *)
(* sent with it, through however old a tunnel the request comes.           *)
NoRetiredValue ==
  \A c \in Clients : Sent(c) =>
    \A i \in 1..Len(conn[c].values) : conn[c].values[i] >= conn[c].floor[Uses[i]]

(* A request goes out without credentials only if, since it began, the     *)
(* services did not match its host at some moment and the policy let       *)
(* unmatched hosts through at some moment: no failed read opens the way    *)
(* (credential.go:88-93, :128-132).  And a request that matched carries    *)
(* every credential of its service.                                        *)
FailsClosed ==
  \A c \in Clients : Sent(c) =>
    IF conn[c].bare THEN conn[c].facts = {"unmatched", "passthrough"}
    ELSE Len(conn[c].values) = Len(Uses)

(* What docs/agents/overview.mdx:121 says of a rotation, "the previous     *)
(* token stops working immediately": no request begins under a revoked     *)
(* token.                                                                  *)
RevokedStops == \A c \in Clients : InFlight(c) => ~conn[c].stale

(* The values of one request were in the table at one time.                *)
ValuesOfOneMoment ==
  \A c \in Clients : Sent(c) =>
    \E table \in past : \A i \in 1..Len(conn[c].values) :
      conn[c].values[i] = table[Uses[i]]

=============================================================================
