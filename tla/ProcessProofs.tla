--------------------------- MODULE ProcessProofs ---------------------------
(* What the processes of one machine keep, for any clients, keys, tokens   *)
(* and processes: the tunnels of the proxy, the sessions, and the files of *)
(* servers and commands.                                                   *)
EXTENDS Tunnel, Sessions, Boot, FiniteSetTheorems, TLAPS

(***************************************************************************)
(* Tunnel.  A request acts on what it read a while ago; what keeps it      *)
(* right is that everything it carries was true at some moment since it    *)
(* began.                                                                  *)
(***************************************************************************)
Before == {"limit", "body", "config", "policy"}
Beyond == {"send", "upstream", "websocket"}
Stages == Before \cup {"keys"} \cup Beyond \cup {"returning"}

RequestType ==
  [at : Stages, kind : {"connect", "forward"}, slot : BOOLEAN, bare : BOOLEAN,
   values : Seq(Nat), stale : BOOLEAN, floor : [Keys -> Nat],
   facts : SUBSET {"unmatched", "passthrough"}]

StoredType ==
  /\ config \in Configs /\ policy \in Policies
  /\ version \in Nat
  /\ creds \in [Keys -> Nat] /\ \A k \in Keys : creds[k] <= version

ConnType == conn \in [Clients -> {Closed, Open} \cup RequestType]

(* The version that a read of the key finds now, or will find next.        *)
Upcoming(k) == IF creds[k] = 0 THEN version + 1 ELSE creds[k]

(* The values a request has read are right, whoever changed the table.     *)
ValuesRight(r) ==
  /\ \A k \in Keys : r.floor[k] <= Upcoming(k)
  /\ \A i \in 1..Len(r.values) : r.values[i] >= r.floor[Uses[i]]
  /\ \A i, j \in 1..Len(r.values) : Uses[i] = Uses[j] => r.values[i] = r.values[j]
  /\ Len(r.values) <= Len(Uses)
  /\ r.at \in Before => r.values = <<>>
  /\ r.at = "keys" => Len(r.values) < Len(Uses)
  /\ r.at \in Beyond /\ ~r.bare => Len(r.values) = Len(Uses)

(* A bare request was let through by what the vault said since it began.   *)
FactsRight(r) ==
  /\ Facts(config, policy) \subseteq r.facts
  /\ r.at = "policy" => "unmatched" \in r.facts
  /\ r.at \in Beyond /\ r.bare => r.facts = {"unmatched", "passthrough"}
  /\ r.at \in Before \cup {"keys"} => ~r.bare

RequestsRight == \A c \in Clients : InFlight(c) => ValuesRight(conn[c]) /\ FactsRight(conn[c])

TInv == StoredType /\ ConnType /\ RequestsRight

LEMMA UpcomingType ==
  /\ StoredType => \A k \in Keys : Upcoming(k) \in Nat
  /\ StoredType' => \A k \in Keys : Upcoming(k)' \in Nat
<1>1. StoredType => \A k \in Keys : Upcoming(k) \in Nat
  BY DEF StoredType, Upcoming
<1>2. ASSUME StoredType', NEW k \in Keys PROVE Upcoming(k)' \in Nat
  <2>1. creds'[k] \in Nat /\ version' \in Nat
    BY <1>2 DEF StoredType
  <2>2. Upcoming(k)' = IF creds'[k] = 0 THEN version' + 1 ELSE creds'[k]
    BY DEF Upcoming
  <2>3. \A n \in Nat : n + 1 \in Nat
    OBVIOUS
  <2>4. version' + 1 \in Nat
    BY <2>1, <2>3
  <2> QED
    BY <2>1, <2>2, <2>4
<1> QED
  BY <1>1, <1>2

LEMMA RightAtFirst == Init => TInv
  BY DEF Init, TInv, StoredType, ConnType, RequestsRight, InFlight, Closed

(***************************************************************************)
(* A step of one client that leaves what is stored alone.                  *)
(***************************************************************************)
LEMMA ReplacedKeeps ==
  ASSUME TInv, NEW c \in Clients, UNCHANGED stored,
         NEW r \in {Closed, Open} \cup RequestType,
         r.at \notin {"closed", "open"} => ValuesRight(r) /\ FactsRight(r),
         conn' = [conn EXCEPT ![c] = r]
  PROVE  TInv'
<1>1. StoredType' /\ ConnType'
  BY DEF TInv, StoredType, ConnType, stored
<1>2. ASSUME NEW d \in Clients, InFlight(d)' PROVE (ValuesRight(conn[d]) /\ FactsRight(conn[d]))'
  <2>1. CASE d = c
    <3>1. conn'[d] = r
      BY <2>1 DEF TInv, ConnType
    <3> QED
      BY <1>2, <2>1, <3>1 DEF InFlight, stored, ValuesRight, FactsRight, Facts, Upcoming
  <2>2. CASE d # c
    <3>1. conn'[d] = conn[d]
      BY <2>2 DEF TInv, ConnType
    <3> QED
      BY <1>2, <2>2, <3>1 DEF InFlight, stored, ValuesRight, FactsRight, Facts, Upcoming, TInv, RequestsRight
  <2> QED
    BY <2>1, <2>2
<1> QED
  BY <1>1, <1>2 DEF TInv, RequestsRight

LEMMA GoingOnKeeps ==
  ASSUME TInv, NEW c \in Clients, InFlight(c), UNCHANGED stored,
         NEW at \in Stages, Goto(c, at),
         at \in Before => conn[c].at \in Before,
         at = "policy" => "unmatched" \in conn[c].facts,
         at = "keys" => conn[c].at \in Before,
         at \in Beyond => conn[c].at \in Beyond
  PROVE  TInv'
<1> DEFINE q == conn[c]
           r == [q EXCEPT !.at = at]
<1>1. q \in RequestType /\ ValuesRight(q) /\ FactsRight(q)
  BY DEF TInv, ConnType, RequestsRight, InFlight, Closed, Open
<1>2. /\ r \in RequestType /\ r.at = at /\ r.values = q.values /\ r.bare = q.bare
      /\ r.floor = q.floor /\ r.facts = q.facts
  BY <1>1 DEF RequestType
<1>3. conn' = [conn EXCEPT ![c] = r]
  BY DEF Goto
<1> HIDE DEF r
<1>4. ValuesRight(r)
  BY <1>1, <1>2, UsesAssumption DEF ValuesRight, RequestType, Before, Beyond
<1>5. FactsRight(r)
  BY <1>1, <1>2 DEF FactsRight, RequestType, Before, Beyond
<1> QED
  BY <1>2, <1>3, <1>4, <1>5, ReplacedKeeps

(* A new request is right: its floor is what the table holds.              *)
LEMMA RequestIsRight ==
  ASSUME StoredType, NEW kind \in {"connect", "forward"}
  PROVE  LET r == Request(kind) IN r \in RequestType /\ ValuesRight(r) /\ FactsRight(r)
<1> DEFINE r == Request(kind)
<1>1. \A k \in Keys : Upcoming(k) \in Nat
  BY UpcomingType
<1>2. /\ r \in RequestType /\ r.values = <<>> /\ r.at = "limit" /\ ~r.bare
      /\ r.facts = Facts(config, policy) /\ r.floor = [k \in Keys |-> Upcoming(k)]
  BY DEF Request, RequestType, Stages, Before, StoredType, Facts, Upcoming
<1> HIDE DEF r
<1>3. ValuesRight(r) /\ FactsRight(r)
  BY <1>1, <1>2, UsesAssumption DEF ValuesRight, FactsRight, Before, Beyond
<1> QED
  BY <1>2, <1>3 DEF r

(* A read gives the request a value that is current, or that of an earlier *)
(* use of the same key.                                                    *)
LEMMA ReadingIs ==
  ASSUME TInv, NEW c \in Clients, GetCredential(c)
  PROVE  \E r \in RequestType :
           /\ r.at \in {"send", "keys"} /\ r.slot = conn[c].slot
           /\ ValuesRight(r) /\ FactsRight(r)
           /\ conn' = [conn EXCEPT ![c] = r]
<1> DEFINE q == conn[c]
           v == Resolved(q.values)
           values == Append(q.values, v)
           at == IF Len(values) = Len(Uses) THEN "send" ELSE "keys"
           r == [q EXCEPT !.values = values, !.at = at]
           i == Len(q.values) + 1
           before == {j \in 1..Len(q.values) : Uses[j] = Uses[i]}
<1>1. q \in RequestType /\ ValuesRight(q) /\ FactsRight(q) /\ q.at = "keys" /\ v # 0
  BY DEF TInv, ConnType, RequestsRight, InFlight, Closed, Open, GetCredential
<1>2. /\ q.values \in Seq(Nat) /\ i \in 1..Len(Uses) /\ Uses[i] \in Keys
      /\ creds \in [Keys -> Nat] /\ q.floor \in [Keys -> Nat]
  BY <1>1, UsesAssumption DEF ValuesRight, RequestType, TInv, StoredType
<1>3. /\ v \in Nat /\ v >= q.floor[Uses[i]]
      /\ \A j \in 1..Len(q.values) : Uses[j] = Uses[i] => q.values[j] = v
  <2>1. CASE before = {}
    <3>1. v = creds[Uses[i]]
      BY <2>1 DEF Resolved
    <3>2. q.floor[Uses[i]] <= creds[Uses[i]]
      BY <1>1, <1>2, <3>1 DEF ValuesRight, Upcoming
    <3> QED
      BY <2>1, <3>1, <3>2, <1>2
  <2>2. CASE before # {}
    <3>1. PICK j \in before : v = q.values[j]
      BY <2>2 DEF Resolved
    <3>2. j \in 1..Len(q.values) /\ Uses[j] = Uses[i]
      BY <3>1
    <3>3. q.values[j] \in Nat
      BY <3>2, <1>2
    <3>4. q.values[j] >= q.floor[Uses[j]]
      BY <3>2, <1>1 DEF ValuesRight
    <3>5. \A k \in 1..Len(q.values) : Uses[k] = Uses[j] => q.values[k] = q.values[j]
      BY <3>2, <1>1 DEF ValuesRight
    <3> HIDE DEF v, before, q, i
    <3> QED
      BY <3>1, <3>2, <3>3, <3>4, <3>5
  <2> QED
    BY <2>1, <2>2
<1> HIDE DEF v
<1>4. /\ values \in Seq(Nat) /\ Len(values) = i /\ values[i] = v
      /\ \A j \in 1..Len(q.values) : values[j] = q.values[j]
  BY <1>2, <1>3
<1>5. /\ r \in RequestType /\ r.at = at /\ r.values = values /\ r.bare = q.bare
      /\ r.floor = q.floor /\ r.facts = q.facts /\ r.slot = q.slot
  BY <1>1, <1>4 DEF RequestType, Stages, Beyond
<1>6. conn' = [conn EXCEPT ![c] = r]
  BY DEF GetCredential, v
<1> HIDE DEF r, values
<1>7. ValuesRight(r)
  <2>1. \A j \in 1..Len(values) : j = i \/ j \in 1..Len(q.values)
    BY <1>2, <1>4
  <2>2. \A j \in 1..Len(q.values) : q.values[j] >= q.floor[Uses[j]]
    BY <1>1 DEF ValuesRight
  <2>3. \A j, k \in 1..Len(q.values) : Uses[j] = Uses[k] => q.values[j] = q.values[k]
    BY <1>1 DEF ValuesRight
  <2>4. \A j \in 1..Len(values) : values[j] >= q.floor[Uses[j]]
    BY <2>1, <2>2, <1>3, <1>4
  <2>5. \A j, k \in 1..Len(values) : Uses[j] = Uses[k] => values[j] = values[k]
    BY <2>1, <2>3, <1>3, <1>4
  <2>6. /\ Len(values) <= Len(Uses)
        /\ at = "keys" => Len(values) < Len(Uses)
        /\ at = "send" => Len(values) = Len(Uses)
        /\ at \in {"keys", "send"}
    BY <1>2, <1>4, UsesAssumption
  <2>7. \A k \in Keys : q.floor[k] <= Upcoming(k)
    BY <1>1 DEF ValuesRight
  <2> HIDE DEF at, i, q
  <2> QED
    BY <2>4, <2>5, <2>6, <2>7, <1>5 DEF ValuesRight, Before, Beyond
<1>8. FactsRight(r)
  BY <1>1, <1>5 DEF FactsRight, Before, Beyond
<1> QED
  BY <1>5, <1>6, <1>7, <1>8

(* Every step of a client, and a restart.                                  *)
LEMMA ServingKeeps ==
  ASSUME TInv, NEW c \in Clients, Serve(c)
  PROVE  TInv'
<1> USE DEF TInv
<1>1. CASE HandleConnect(c) \/ Disconnect(c) \/ Return(c)
  <2>1. PICK r \in {Closed, Open} : conn' = [conn EXCEPT ![c] = r]
    BY <1>1 DEF HandleConnect, Disconnect, Return
  <2>2. UNCHANGED stored
    BY <1>1 DEF HandleConnect, Disconnect, Return
  <2> QED
    BY <2>1, <2>2, ReplacedKeeps DEF Closed, Open
<1>2. CASE ForwardHandler(c) \/ HandleForward(c)
  <2>1. PICK kind \in {"connect", "forward"} : conn' = [conn EXCEPT ![c] = Request(kind)]
    BY <1>2 DEF ForwardHandler, HandleForward
  <2>2. Request(kind) \in RequestType /\ ValuesRight(Request(kind)) /\ FactsRight(Request(kind))
    BY RequestIsRight
  <2>3. UNCHANGED stored
    BY <1>2 DEF ForwardHandler, HandleForward
  <2> QED
    BY <2>1, <2>2, <2>3, ReplacedKeeps
<1>3. CASE \/ Denied(c) \/ Fails(c) \/ ServiceDisabled(c) \/ UnmatchedDenied(c)
           \/ CredentialMissing(c) \/ Answered(c)
  <2>1. Goto(c, "returning") /\ UNCHANGED stored /\ InFlight(c)
    BY <1>3 DEF Denied, Fails, CanFail, ServiceDisabled, UnmatchedDenied, CredentialMissing,
                Answered, Emit, InFlight
  <2> QED
    BY <2>1, GoingOnKeeps DEF Stages, Before, Beyond
<1>4. CASE Unlimited(c) \/ MaterializeRequestBody(c) \/ Matched(c)
  <2>1. PICK at \in {"body", "config", "keys"} : Goto(c, at)
    BY <1>4 DEF Unlimited, MaterializeRequestBody, Matched
  <2>2. UNCHANGED stored /\ InFlight(c) /\ conn[c].at \in Before
    BY <1>4 DEF Unlimited, MaterializeRequestBody, Matched, InFlight, Before
  <2> QED
    BY <2>1, <2>2, GoingOnKeeps DEF Stages, Before, Beyond
<1>5. CASE Unmatched(c)
  <2>1. Goto(c, "policy") /\ UNCHANGED stored /\ InFlight(c) /\ conn[c].at \in Before
    BY <1>5 DEF Unmatched, InFlight, Before
  <2>2. "unmatched" \in conn[c].facts
    BY <1>5, <2>1 DEF RequestsRight, FactsRight, Facts, Unmatched
  <2> QED
    BY <2>1, <2>2, GoingOnKeeps DEF Stages, Before, Beyond
<1>6. CASE RoundTrip(c) \/ SwitchingProtocols(c)
  <2>1. PICK at \in {"upstream", "websocket"} : Goto(c, at)
    BY <1>6 DEF RoundTrip, SwitchingProtocols
  <2>2. UNCHANGED stored /\ InFlight(c) /\ conn[c].at \in Beyond
    BY <1>6 DEF RoundTrip, SwitchingProtocols, InFlight, Beyond
  <2> QED
    BY <2>1, <2>2, GoingOnKeeps DEF Stages, Before, Beyond
<1>7. CASE EnforceProxy(c)
  <2> DEFINE q == conn[c]
             r == [q EXCEPT !.at = "body", !.slot = TRUE]
  <2>1. q \in RequestType /\ ValuesRight(q) /\ FactsRight(q) /\ q.at = "limit"
    BY <1>7 DEF ConnType, RequestsRight, InFlight, Closed, Open, EnforceProxy
  <2>2. /\ r \in RequestType /\ r.at = "body" /\ r.values = q.values /\ r.bare = q.bare
        /\ r.floor = q.floor /\ r.facts = q.facts
    BY <2>1 DEF RequestType, Stages, Before
  <2>3. conn' = [conn EXCEPT ![c] = r] /\ UNCHANGED stored
    BY <1>7 DEF EnforceProxy
  <2> HIDE DEF r
  <2>4. ValuesRight(r) /\ FactsRight(r)
    BY <2>1, <2>2 DEF ValuesRight, FactsRight, Before, Beyond
  <2> QED
    BY <2>2, <2>3, <2>4, ReplacedKeeps
<1>8. CASE Passthrough(c)
  <2> DEFINE q == conn[c]
             r == [q EXCEPT !.at = "send", !.bare = TRUE]
  <2>1. q \in RequestType /\ ValuesRight(q) /\ FactsRight(q) /\ q.at = "policy"
    BY <1>8 DEF ConnType, RequestsRight, InFlight, Closed, Open, Passthrough
  <2>2. /\ r \in RequestType /\ r.at = "send" /\ r.values = q.values /\ r.bare
        /\ r.floor = q.floor /\ r.facts = q.facts
    BY <2>1 DEF RequestType, Stages, Beyond
  <2>3. r.facts = {"unmatched", "passthrough"}
    BY <1>8, <2>1, <2>2 DEF FactsRight, Facts, Passthrough, RequestType
  <2>4. conn' = [conn EXCEPT ![c] = r] /\ UNCHANGED stored
    BY <1>8 DEF Passthrough
  <2> HIDE DEF r
  <2>5. ValuesRight(r) /\ FactsRight(r)
    BY <2>1, <2>2, <2>3 DEF ValuesRight, FactsRight, Before, Beyond
  <2> QED
    BY <2>2, <2>4, <2>5, ReplacedKeeps
<1>9. CASE GetCredential(c)
  <2>1. PICK r \in RequestType :
          /\ r.at \in {"send", "keys"} /\ ValuesRight(r) /\ FactsRight(r)
          /\ conn' = [conn EXCEPT ![c] = r]
    BY <1>9, ReadingIs
  <2>2. UNCHANGED stored
    BY <1>9 DEF GetCredential
  <2> QED
    BY <2>1, <2>2, ReplacedKeeps
<1> QED
  BY <1>1, <1>2, <1>3, <1>4, <1>5, <1>6, <1>7, <1>8, <1>9 DEF Serve

(***************************************************************************)
(* The control plane.  A change of the services or of the policy is        *)
(* noticed by the requests in flight; a write moves the table forward, so  *)
(* that what a request may read next never falls behind its floor.         *)
(***************************************************************************)
LEMMA NoticedKeeps ==
  ASSUME TInv, NEW cfg \in Configs, NEW pol \in Policies, Noticed(cfg, pol),
         config' = cfg, policy' = pol, StoredType',
         \A k \in Keys : Upcoming(k)' >= Upcoming(k)
  PROVE  TInv'
<1>1. ASSUME NEW c \in Clients
      PROVE  /\ ~InFlight(c) => conn'[c] = conn[c]
             /\ InFlight(c) => conn'[c] = [conn[c] EXCEPT !.facts = @ \cup Facts(cfg, pol)]
  BY <1>1 DEF Noticed
<1>2. ASSUME NEW c \in Clients, InFlight(c)
      PROVE  /\ conn'[c] \in RequestType
             /\ conn'[c].at = conn[c].at /\ conn'[c].values = conn[c].values
             /\ conn'[c].bare = conn[c].bare /\ conn'[c].floor = conn[c].floor
             /\ conn'[c].facts = conn[c].facts \cup Facts(cfg, pol)
  <2>1. conn[c] \in RequestType
    BY <1>2 DEF TInv, ConnType, InFlight, Closed, Open
  <2> DEFINE told == conn[c].facts \cup Facts(cfg, pol)
  <2>2. told \in SUBSET {"unmatched", "passthrough"}
    BY <2>1 DEF Facts, RequestType
  <2>3. conn'[c] = [conn[c] EXCEPT !.facts = told]
    BY <1>1, <1>2
  <2> HIDE DEF told
  <2>4. /\ conn'[c] \in RequestType
        /\ conn'[c].at = conn[c].at /\ conn'[c].values = conn[c].values
        /\ conn'[c].bare = conn[c].bare /\ conn'[c].floor = conn[c].floor
        /\ conn'[c].facts = told
    BY <2>1, <2>2, <2>3 DEF RequestType
  <2> QED
    BY <2>4 DEF told
<1>3. ConnType'
  <2>1. \A c \in Clients : conn'[c] \in {Closed, Open} \cup RequestType
    BY <1>1, <1>2 DEF TInv, ConnType, InFlight
  <2> QED
    BY <2>1 DEF ConnType, Noticed
<1>4. ASSUME NEW c \in Clients, InFlight(c)' PROVE (ValuesRight(conn[c]) /\ FactsRight(conn[c]))'
  <2>1. InFlight(c)
    BY <1>1, <1>2, <1>4 DEF InFlight
  <2>2. ValuesRight(conn[c]) /\ FactsRight(conn[c])
    BY <2>1 DEF TInv, RequestsRight
  <2>3. conn[c] \in RequestType
    BY <2>1 DEF TInv, ConnType, InFlight, Closed, Open
  <2>4. ValuesRight(conn[c])'
    BY <1>2, <2>1, <2>2, <2>3, UpcomingType DEF ValuesRight, RequestType, TInv
  <2>5. FactsRight(conn[c])'
    BY <1>2, <2>1, <2>2, <2>3 DEF FactsRight, Facts, RequestType
  <2> QED
    BY <2>4, <2>5
<1> QED
  BY <1>3, <1>4 DEF TInv, RequestsRight

LEMMA WrittenKeeps ==
  ASSUME TInv, UNCHANGED <<config, policy, conn>>, StoredType',
         \A k \in Keys : Upcoming(k)' >= Upcoming(k)
  PROVE  TInv'
<1>1. \A k \in Keys : Upcoming(k) \in Nat /\ Upcoming(k)' \in Nat
  BY UpcomingType DEF TInv
<1>2. ASSUME NEW c \in Clients, InFlight(c)' PROVE (ValuesRight(conn[c]) /\ FactsRight(conn[c]))'
  <2>1. conn[c] \in RequestType /\ ValuesRight(conn[c]) /\ FactsRight(conn[c]) /\ conn' = conn
    BY <1>2 DEF TInv, ConnType, RequestsRight, InFlight, Closed, Open
  <2>2. ValuesRight(conn[c])'
    BY <1>1, <2>1 DEF ValuesRight, RequestType
  <2>3. FactsRight(conn[c])'
    BY <2>1 DEF FactsRight, Facts
  <2> QED
    BY <2>2, <2>3
<1> QED
  BY <1>2 DEF TInv, ConnType, RequestsRight

LEMMA ControlKeeps ==
  ASSUME TInv, Control
  PROVE  TInv'
<1>1. CASE \E cfg \in Configs : SetServices(cfg)
  <2>1. StoredType' /\ \A k \in Keys : Upcoming(k)' >= Upcoming(k)
    BY <1>1 DEF TInv, StoredType, SetServices, Upcoming
  <2> QED
    BY <1>1, <2>1, NoticedKeeps DEF SetServices, TInv, StoredType
<1>2. CASE \E pol \in Policies : SetPolicy(pol)
  <2>1. StoredType' /\ \A k \in Keys : Upcoming(k)' >= Upcoming(k)
    BY <1>2 DEF TInv, StoredType, SetPolicy, Upcoming
  <2> QED
    BY <1>2, <2>1, NoticedKeeps DEF SetPolicy, TInv, StoredType
<1>3. CASE \E ks \in SUBSET Keys \ {{}} : SetCredentials(ks)
  <2>1. StoredType' /\ \A k \in Keys : Upcoming(k)' >= Upcoming(k)
    BY <1>3 DEF TInv, StoredType, SetCredentials, Upcoming
  <2> QED
    BY <1>3, <2>1, WrittenKeeps DEF SetCredentials
<1>4. CASE \E k \in Keys : DeleteCredential(k)
  <2>1. StoredType' /\ \A k \in Keys : Upcoming(k)' >= Upcoming(k)
    BY <1>4 DEF TInv, StoredType, DeleteCredential, Upcoming
  <2> QED
    BY <1>4, <2>1, WrittenKeeps DEF DeleteCredential
<1>5. CASE Revoke
  BY <1>5, WrittenKeeps DEF Revoke, TInv, StoredType, Upcoming
<1>6. CASE DeleteVault
  <2>1. StoredType' /\ \A k \in Keys : Upcoming(k)' >= Upcoming(k)
    BY <1>6 DEF TInv, StoredType, DeleteVault, Upcoming, Configs, Policies
  <2> QED
    BY <1>6, <2>1, NoticedKeeps DEF DeleteVault, Configs, Policies
<1> QED
  BY <1>1, <1>2, <1>3, <1>4, <1>5, <1>6 DEF Control

LEMMA RequestsStayRight == Spec => []TInv
<1>1. ASSUME TInv, [Next]_vars PROVE TInv'
  <2>1. CASE Restart
    <3>1. StoredType' /\ ConnType'
      BY <1>1, <2>1 DEF TInv, Restart, stored, StoredType, ConnType
    <3>2. \A c \in Clients : ~InFlight(c)'
      BY <2>1 DEF Restart, InFlight, Closed
    <3> QED
      BY <3>1, <3>2 DEF TInv, RequestsRight
  <2>2. CASE UNCHANGED vars
    BY <2>2, <1>1, WrittenKeeps DEF vars, TInv, StoredType, Upcoming
  <2> QED
    BY <1>1, <2>1, <2>2, ServingKeeps, ControlKeeps DEF Next
<1> QED
  BY <1>1, RightAtFirst, PTL DEF Spec

(* A key that a service uses twice has one value throughout a request,     *)
(* while the control plane rotates it (credential.go:148).                 *)
THEOREM OneValuePerKeyHolds == Spec => []OneValuePerKey
<1>1. TInv => OneValuePerKey
  BY DEF TInv, RequestsRight, ValuesRight, OneValuePerKey, Sent, InFlight
<1> QED
  BY <1>1, RequestsStayRight, PTL

(* No request carries a value that had been replaced or deleted when it    *)
(* began (credential.go:146-165).                                          *)
THEOREM NoRetiredValueHolds == Spec => []NoRetiredValue
<1>1. TInv => NoRetiredValue
  BY DEF TInv, RequestsRight, ValuesRight, NoRetiredValue, Sent, InFlight
<1> QED
  BY <1>1, RequestsStayRight, PTL

(* A request goes out bare only by what the vault said since it began, and *)
(* a matched one with every credential (credential.go:88-132, :178-207).   *)
THEOREM FailsClosedHolds == Spec => []FailsClosed
<1>1. TInv => FailsClosed
  BY DEF TInv, RequestsRight, ValuesRight, FactsRight, FailsClosed, Sent, InFlight, Beyond
<1> QED
  BY <1>1, RequestsStayRight, PTL

(***************************************************************************)
(* The slots and the records.  Each step changes one request, and with it  *)
(* each of the two sets that are counted by at most that one.              *)
(***************************************************************************)
Done == {"closed", "open"}
Holds(r) == r.at \notin Done /\ r.slot
Owes(r) == r.at \notin Done /\ r.at \notin {"returning", "websocket"}
One(b) == IF b THEN 1 ELSE 0

Holders == {c \in Clients : Holds(conn[c])}
Owing == {c \in Clients : Owes(conn[c])}

Balanced ==
  /\ slots = Cardinality(Holders) /\ slots <= Cap
  /\ owed = Cardinality(Owing)

(* A slot is taken only once: nobody has one before the limiter gives it.  *)
Unserved == \A c \in Clients : conn[c].at = "limit" => ~conn[c].slot

LEMMA Counted ==
  ASSUME NEW S \in SUBSET Clients, NEW c \in Clients
  PROVE  /\ Cardinality(S) \in Nat
         /\ Cardinality(S \cup {c}) = Cardinality(S) + (IF c \in S THEN 0 ELSE 1)
         /\ Cardinality(S \ {c}) = Cardinality(S) - (IF c \in S THEN 1 ELSE 0)
<1>1. IsFiniteSet(S)
  BY FS_Subset, BoundsAssumption
<1>2. Cardinality(S) \in Nat
  BY <1>1, FS_CardinalityType
<1>3. Cardinality(S \cup {c}) = IF c \in S THEN Cardinality(S) ELSE Cardinality(S) + 1
  BY <1>1, FS_AddElement
<1>4. Cardinality(S \ {c}) = IF c \in S THEN Cardinality(S) - 1 ELSE Cardinality(S)
  BY <1>1, FS_RemoveElement
<1> QED
  BY <1>2, <1>3, <1>4

LEMMA ReplacedBalances ==
  ASSUME ConnType, Balanced, NEW c \in Clients,
         NEW r \in {Closed, Open} \cup RequestType, conn' = [conn EXCEPT ![c] = r],
         slots' = slots + One(Holds(r)) - One(Holds(conn[c])), slots' <= Cap,
         owed' = owed + One(Owes(r)) - One(Owes(conn[c]))
  PROVE  Balanced'
<1>1. \A d \in Clients : conn'[d] = IF d = c THEN r ELSE conn[d]
  BY DEF ConnType
<1>2. Holders' = IF Holds(r) THEN Holders \cup {c} ELSE Holders \ {c}
  BY <1>1 DEF Holders, Holds
<1>3. Owing' = IF Owes(r) THEN Owing \cup {c} ELSE Owing \ {c}
  BY <1>1 DEF Owing, Owes
<1>4. (c \in Holders <=> Holds(conn[c])) /\ (c \in Owing <=> Owes(conn[c]))
  BY DEF Holders, Owing
<1>5. Holders \in SUBSET Clients /\ Owing \in SUBSET Clients
  BY DEF Holders, Owing
<1>6. /\ Cardinality(Holders) \in Nat
      /\ Cardinality(Holders \cup {c}) = Cardinality(Holders) + (IF c \in Holders THEN 0 ELSE 1)
      /\ Cardinality(Holders \ {c}) = Cardinality(Holders) - (IF c \in Holders THEN 1 ELSE 0)
  BY <1>5, Counted
<1>7. /\ Cardinality(Owing) \in Nat
      /\ Cardinality(Owing \cup {c}) = Cardinality(Owing) + (IF c \in Owing THEN 0 ELSE 1)
      /\ Cardinality(Owing \ {c}) = Cardinality(Owing) - (IF c \in Owing THEN 1 ELSE 0)
  BY <1>5, Counted
<1>8. slots = Cardinality(Holders) /\ owed = Cardinality(Owing)
  BY DEF Balanced
<1>9. Cardinality(Holders') = Cardinality(Holders) + One(Holds(r)) - One(Holds(conn[c]))
  BY <1>2, <1>4, <1>6 DEF One
<1>10. Cardinality(Owing') = Cardinality(Owing) + One(Owes(r)) - One(Owes(conn[c]))
  BY <1>3, <1>4, <1>7 DEF One
<1> QED
  BY <1>8, <1>9, <1>10 DEF Balanced

LEMMA ServingBalances ==
  ASSUME TInv, Balanced, Unserved, NEW c \in Clients, Serve(c)
  PROVE  Balanced' /\ Unserved'
<1> DEFINE q == conn[c]
<1>1. /\ slots \in Nat /\ owed \in Nat /\ slots <= Cap /\ Cap \in Nat
      /\ Holds(q) => slots >= 1
  <2>1. Holders \in SUBSET Clients /\ Owing \in SUBSET Clients
    BY DEF Holders, Owing
  <2>2. Holds(q) => c \in Holders
    BY DEF Holders
  <2>3. Cardinality(Holders) \in Nat /\ Cardinality(Owing) \in Nat
    BY <2>1, Counted
  <2>4. /\ Cardinality(Holders \ {c}) \in Nat
        /\ Cardinality(Holders \ {c}) = Cardinality(Holders) - (IF c \in Holders THEN 1 ELSE 0)
    <3>1. Holders \ {c} \in SUBSET Clients
      BY <2>1
    <3> QED
      BY <2>1, <3>1, Counted
  <2> QED
    BY <2>2, <2>3, <2>4, BoundsAssumption DEF Balanced
<1>2. ConnType /\ q \in {Closed, Open} \cup RequestType
  BY DEF TInv, ConnType
<1>3. ASSUME NEW r \in {Closed, Open} \cup RequestType, conn' = [conn EXCEPT ![c] = r],
             r.at = "limit" => ~r.slot
      PROVE  Unserved'
  BY <1>3 DEF ConnType, Unserved
<1>4. CASE HandleConnect(c) \/ Disconnect(c)
  <2>1. PICK r \in {Closed, Open} : conn' = [conn EXCEPT ![c] = r]
    BY <1>4 DEF HandleConnect, Disconnect
  <2>2. ~Holds(q) /\ ~Owes(q) /\ ~Holds(r) /\ ~Owes(r) /\ r.at # "limit"
    BY <1>4, <2>1 DEF HandleConnect, Disconnect, Holds, Owes, Done, Closed, Open
  <2>3. slots' = slots /\ owed' = owed
    BY <1>4 DEF HandleConnect, Disconnect
  <2>4. /\ slots' = slots + One(Holds(r)) - One(Holds(q))
        /\ owed' = owed + One(Owes(r)) - One(Owes(q))
    BY <2>2, <2>3, <1>1 DEF One
  <2> QED
    BY <1>1, <1>2, <1>3, <2>1, <2>2, <2>3, <2>4, ReplacedBalances
<1>5. CASE ForwardHandler(c) \/ HandleForward(c)
  <2>1. PICK kind \in {"connect", "forward"} : conn' = [conn EXCEPT ![c] = Request(kind)]
    BY <1>5 DEF ForwardHandler, HandleForward
  <2> DEFINE r == Request(kind)
  <2>2. ~Holds(q) /\ ~Owes(q) /\ ~Holds(r) /\ Owes(r) /\ ~r.slot
    BY <1>5, <2>1 DEF ForwardHandler, HandleForward, Holds, Owes, Done, Closed, Open, Request
  <2>3. slots' = slots /\ owed' = owed + 1
    BY <1>5 DEF ForwardHandler, HandleForward
  <2>4. /\ slots' = slots + One(Holds(r)) - One(Holds(q))
        /\ owed' = owed + One(Owes(r)) - One(Owes(q))
    BY <2>2, <2>3, <1>1 DEF One
  <2>5. r \in RequestType
    BY RequestIsRight DEF TInv
  <2> QED
    BY <1>1, <1>2, <1>3, <2>1, <2>2, <2>3, <2>4, <2>5, ReplacedBalances
<1>6. ASSUME NEW r \in RequestType, InFlight(c), conn' = [conn EXCEPT ![c] = r],
             r.at # "limit", r.at \notin {"returning", "websocket"},
             q.at \notin {"returning", "websocket"}, r.slot = q.slot,
             slots' = slots, owed' = owed
      PROVE  Balanced' /\ Unserved'
  <2>1. q.at \notin Done /\ r.at \notin Done
    BY <1>6 DEF InFlight, Done, RequestType, Stages, Before, Beyond
  <2>2. (Holds(r) <=> Holds(q)) /\ Owes(r) /\ Owes(q)
    BY <2>1, <1>6 DEF Holds, Owes
  <2>3. /\ slots' = slots + One(Holds(r)) - One(Holds(q))
        /\ owed' = owed + One(Owes(r)) - One(Owes(q))
    BY <2>2, <1>1, <1>6 DEF One
  <2> QED
    BY <1>1, <1>2, <1>3, <1>6, <2>3, ReplacedBalances
<1>7. ASSUME NEW at \in {"returning", "websocket"}, Goto(c, at), InFlight(c),
             q.at \notin {"returning", "websocket"},
             slots' = slots, owed' = owed - 1
      PROVE  Balanced' /\ Unserved'
  <2> DEFINE r == [q EXCEPT !.at = at]
  <2>1. q \in RequestType
    BY <1>2, <1>7 DEF InFlight, Closed, Open
  <2>2. r \in RequestType /\ r.at = at /\ r.slot = q.slot
    BY <2>1 DEF RequestType, Stages, Beyond
  <2>3. conn' = [conn EXCEPT ![c] = r]
    BY <1>7 DEF Goto
  <2> HIDE DEF r
  <2>4. (Holds(r) <=> Holds(q)) /\ ~Owes(r) /\ Owes(q) /\ r.at # "limit"
    BY <2>2, <1>7 DEF Holds, Owes, Done, InFlight
  <2>5. /\ slots' = slots + One(Holds(r)) - One(Holds(q))
        /\ owed' = owed + One(Owes(r)) - One(Owes(q))
    BY <2>4, <1>1, <1>7 DEF One
  <2> QED
    BY <1>1, <1>2, <1>3, <1>7, <2>2, <2>3, <2>4, <2>5, ReplacedBalances
<1>8. CASE \/ Denied(c) \/ Fails(c) \/ ServiceDisabled(c) \/ UnmatchedDenied(c)
           \/ CredentialMissing(c) \/ Answered(c)
  <2>1. /\ Goto(c, "returning") /\ slots' = slots /\ owed' = owed - 1 /\ InFlight(c)
        /\ q.at \notin {"returning", "websocket"}
    BY <1>8 DEF Denied, Fails, CanFail, ServiceDisabled, UnmatchedDenied, CredentialMissing,
                Answered, Emit, InFlight, stored
  <2> QED
    BY <2>1, <1>7
<1>9. CASE SwitchingProtocols(c)
  <2>1. /\ Goto(c, "websocket") /\ slots' = slots /\ owed' = owed - 1 /\ InFlight(c)
        /\ q.at \notin {"returning", "websocket"}
    BY <1>9 DEF SwitchingProtocols, InFlight
  <2> QED
    BY <2>1, <1>7
<1>10. CASE \/ Unlimited(c) \/ MaterializeRequestBody(c) \/ Matched(c) \/ Unmatched(c)
            \/ RoundTrip(c)
  <2>1. PICK at \in {"body", "config", "keys", "policy", "upstream"} : Goto(c, at)
    BY <1>10 DEF Unlimited, MaterializeRequestBody, Matched, Unmatched, RoundTrip
  <2>2. /\ InFlight(c) /\ q.at \notin {"returning", "websocket"}
        /\ slots' = slots /\ owed' = owed
    BY <1>10 DEF Unlimited, MaterializeRequestBody, Matched, Unmatched, RoundTrip, InFlight
  <2> DEFINE r == [q EXCEPT !.at = at]
  <2>3. q \in RequestType
    BY <1>2, <2>2 DEF InFlight, Closed, Open
  <2>4. r \in RequestType /\ r.at = at /\ r.slot = q.slot
    BY <2>3 DEF RequestType, Stages, Before, Beyond
  <2>5. conn' = [conn EXCEPT ![c] = r]
    BY <2>1 DEF Goto
  <2> HIDE DEF r
  <2> QED
    BY <2>2, <2>4, <2>5, <1>6
<1>11. CASE EnforceProxy(c)
  <2> DEFINE r == [q EXCEPT !.at = "body", !.slot = TRUE]
  <2>1. q \in RequestType /\ q.at = "limit" /\ ~q.slot
    BY <1>2, <1>11 DEF EnforceProxy, Closed, Open, Unserved
  <2>2. r \in RequestType /\ r.at = "body" /\ r.slot
    BY <2>1 DEF RequestType, Stages, Before
  <2>3. conn' = [conn EXCEPT ![c] = r] /\ slots' = slots + 1 /\ owed' = owed /\ slots < Cap
    BY <1>11 DEF EnforceProxy
  <2> HIDE DEF r
  <2>4. Holds(r) /\ ~Holds(q) /\ Owes(r) /\ Owes(q)
    BY <2>1, <2>2 DEF Holds, Owes, Done
  <2>5. /\ slots' = slots + One(Holds(r)) - One(Holds(q)) /\ slots' <= Cap
        /\ owed' = owed + One(Owes(r)) - One(Owes(q))
    BY <2>3, <2>4, <1>1 DEF One
  <2> QED
    BY <1>2, <1>3, <2>2, <2>3, <2>5, ReplacedBalances
<1>12. CASE Passthrough(c)
  <2> DEFINE r == [q EXCEPT !.at = "send", !.bare = TRUE]
  <2>1. q \in RequestType /\ q.at = "policy" /\ InFlight(c)
    BY <1>2, <1>12 DEF Passthrough, Closed, Open, InFlight
  <2>2. r \in RequestType /\ r.at = "send" /\ r.slot = q.slot
    BY <2>1 DEF RequestType, Stages, Beyond
  <2>3. conn' = [conn EXCEPT ![c] = r] /\ slots' = slots /\ owed' = owed
    BY <1>12 DEF Passthrough
  <2> HIDE DEF r
  <2> QED
    BY <2>1, <2>2, <2>3, <1>6
<1>13. CASE GetCredential(c)
  <2>1. q.at = "keys" /\ InFlight(c) /\ slots' = slots /\ owed' = owed
    BY <1>13 DEF GetCredential, InFlight
  <2>2. PICK r \in RequestType :
          /\ r.at \in {"send", "keys"} /\ r.slot = q.slot
          /\ conn' = [conn EXCEPT ![c] = r]
    BY <1>13, ReadingIs
  <2> QED
    BY <2>1, <2>2, <1>6
<1>14. CASE Return(c)
  <2>1. PICK r \in {Closed, Open} : conn' = [conn EXCEPT ![c] = r]
    BY <1>14 DEF Return
  <2>2. /\ q.at \in {"returning", "websocket"} /\ (Holds(q) <=> q.slot) /\ ~Owes(q)
        /\ ~Holds(r) /\ ~Owes(r) /\ r.at # "limit"
    BY <1>14, <2>1 DEF Return, Holds, Owes, Done, Closed, Open
  <2>3. slots' = (IF q.slot THEN slots - 1 ELSE slots) /\ owed' = owed
    BY <1>14 DEF Return
  <2>4. /\ slots' = slots + One(Holds(r)) - One(Holds(q)) /\ slots' <= Cap
        /\ owed' = owed + One(Owes(r)) - One(Owes(q))
    BY <2>2, <2>3, <1>1 DEF One
  <2> QED
    BY <1>2, <1>3, <2>1, <2>2, <2>4, ReplacedBalances
<1> QED
  BY <1>4, <1>5, <1>8, <1>9, <1>10, <1>11, <1>12, <1>13, <1>14 DEF Serve

LEMMA OthersBalance ==
  ASSUME TInv, Balanced, Unserved, Control \/ Restart \/ UNCHANGED vars
  PROVE  Balanced' /\ Unserved'
<1>1. CASE Restart
  <2>1. Holders' = {} /\ Owing' = {}
    BY <1>1 DEF Restart, Holders, Owing, Holds, Owes, Done, Closed
  <2> QED
    BY <1>1, <2>1, FS_EmptySet, BoundsAssumption DEF Restart, Balanced, Unserved, Closed
<1>2. CASE Control \/ UNCHANGED vars
  <2>1. slots' = slots /\ owed' = owed
    BY <1>2 DEF Control, SetServices, SetPolicy, SetCredentials, DeleteCredential, Revoke, DeleteVault, vars
  <2>2. ASSUME NEW c \in Clients PROVE conn'[c].at = conn[c].at /\ conn'[c].slot = conn[c].slot
    <3>1. conn'[c] = conn[c] \/ \E f : InFlight(c) /\ conn'[c] = [conn[c] EXCEPT !.facts = f]
      BY <1>2 DEF Control, SetServices, SetPolicy, SetCredentials, DeleteCredential, Revoke, DeleteVault, vars, Noticed
    <3>2. InFlight(c) => conn[c] \in RequestType
      BY DEF TInv, ConnType, InFlight, Closed, Open
    <3> QED
      BY <3>1, <3>2 DEF RequestType
  <2>3. Holders' = Holders /\ Owing' = Owing
    BY <2>2 DEF Holders, Owing, Holds, Owes
  <2> QED
    BY <2>1, <2>2, <2>3 DEF Balanced, Unserved
<1> QED
  BY <1>1, <1>2

(* The semaphore holds one slot for each request that has one, and the log *)
(* is owed one record for each request that has not ended, whichever way   *)
(* requests end (forward.go:187-304, websocket.go:60-112).                 *)
THEOREM AccountedForHolds == Spec => []AccountedFor
<1>1. Init => Balanced /\ Unserved
  <2>1. Init => Holders = {} /\ Owing = {}
    BY DEF Init, Holders, Owing, Holds, Owes, Done, Closed
  <2> QED
    BY <2>1, FS_EmptySet, BoundsAssumption DEF Init, Balanced, Unserved, Closed
<1>2. ASSUME TInv, Balanced, Unserved, [Next]_vars PROVE Balanced' /\ Unserved'
  <2>1. CASE \E c \in Clients : Serve(c)
    BY <1>2, <2>1, ServingBalances
  <2>2. CASE Control \/ Restart \/ UNCHANGED vars
    BY <1>2, <2>2, OthersBalance
  <2> QED
    BY <1>2, <2>1, <2>2 DEF Next
<1>3. Balanced => AccountedFor
  <2>1. /\ Holders = {c \in Clients : InFlight(c) /\ conn[c].slot}
        /\ Owing = {c \in Clients : InFlight(c) /\ conn[c].at \notin {"returning", "websocket"}}
    BY DEF Holders, Owing, Holds, Owes, Done, InFlight
  <2> QED
    BY <2>1 DEF Balanced, AccountedFor
<1> QED
  BY <1>1, <1>2, <1>3, RequestsStayRight, PTL DEF Spec

(***************************************************************************)
(* Sessions.  The cache entry of a session is at most one interval, and    *)
(* the fraction that a stamp loses, newer than its stamp once the touches  *)
(* of the session were written, and the last request at most one interval  *)
(* newer than the cache entry.                                             *)
(***************************************************************************)
SessionIn ==
  [kind : {"unissued", "deleted"}]
    \cup [kind : {"user"}, expires : Nat, lastUsed : Nat]
    \cup [kind : {"scoped"}, expires : Nat]

SessionStages == {"authenticated", "touching", "forgetting"}

SessionsType ==
  /\ now \in Nat
  /\ sessions \in [Tokens -> SessionIn]
  /\ touchCache \in [Tokens -> Nat \cup {NoTime}]
  /\ DOMAIN seen = Tokens
  /\ requests \in [Requests -> [at : {"free"}] \cup [at : SessionStages, token : Tokens]]

NotAhead(t) ==
  /\ touchCache[t] # NoTime => touchCache[t] <= now
  /\ sessions[t].kind = "user" =>
       sessions[t].lastUsed <= now /\ seen[t] \in Nat /\ seen[t] <= now

In(t, stages) == \E r \in Requests : requests[r].at \in stages /\ requests[r].token = t
Written(t) == sessions[t].kind = "user" /\ t \notin missed

StampFollowsCache(t) ==
  Written(t) /\ ~In(t, {"touching"}) /\ touchCache[t] # NoTime
    => touchCache[t] < sessions[t].lastUsed + TouchInterval + Second
StampFollowsRequests(t) ==
  Written(t) /\ ~In(t, {"authenticated", "touching"})
    => seen[t] < sessions[t].lastUsed + 2 * TouchInterval + Second

Lagging(t) == NotAhead(t) /\ StampFollowsCache(t) /\ StampFollowsRequests(t)
SInv == SessionsType /\ \A t \in Tokens : Lagging(t)

LEMMA SInvInit == SessionsInit => SInv
  BY DEF SessionsInit, SInv, SessionsType, SessionIn, SessionStages, Lagging, NotAhead, Written,
         StampFollowsCache, StampFollowsRequests, Unissued, Free

(* A stored time is less than a second early.                              *)
LEMMA StoredIs ==
  ASSUME NEW time \in Int
  PROVE  /\ Stored(time) \in Int /\ Stored(time) <= time /\ time < Stored(time) + Second
         /\ time \in Nat => Stored(time) \in Nat
<1>1. Second \in Nat /\ Second > 0
  BY IntervalAssumption
<1> DEFINE q == time \div Second
<1>2. q \in Int /\ Second * q <= time /\ time < Second * q + Second /\ (time >= 0 => q >= 0)
  BY <1>1
<1> HIDE DEF q
<1>3. Second * q \in Int /\ (q >= 0 => Second * q >= 0)
  BY <1>1, <1>2
<1> QED
  BY <1>2, <1>3 DEF Stored, q

LEMMA KindIs ==
  ASSUME NEW s \in SessionIn
  PROVE  /\ s.kind = "user" => s.lastUsed \in Nat
         /\ s.kind \in {"unissued", "deleted", "user", "scoped"}
  BY DEF SessionIn

(* A session that a step leaves as it is, with the requests that work on it. *)
LEMMA LaggingStays ==
  ASSUME SInv, NEW t \in Tokens, now' \in Nat, now <= now', sessions'[t] = sessions[t],
         touchCache'[t] = touchCache[t] \/ touchCache'[t] = NoTime,
         seen'[t] = seen[t], t \in missed => t \in missed',
         t \notin missed' => In(t, {"touching"})' = In(t, {"touching"}),
         t \notin missed' =>
           In(t, {"authenticated", "touching"})' = In(t, {"authenticated", "touching"})
  PROVE  Lagging(t)'
<1>1. Lagging(t) /\ now \in Nat /\ touchCache[t] \in Nat \cup {NoTime} /\ sessions[t] \in SessionIn
  BY DEF SInv, SessionsType
<1>2. NotAhead(t)'
  BY <1>1, KindIs DEF Lagging, NotAhead
<1>3. StampFollowsCache(t)'
  BY <1>1 DEF Lagging, StampFollowsCache, Written
<1>4. StampFollowsRequests(t)'
  BY <1>1 DEF Lagging, StampFollowsRequests, Written
<1> QED
  BY <1>2, <1>3, <1>4 DEF Lagging

RequestIn == [at : {"free"}] \cup [at : SessionStages, token : Tokens]
Of(q, t) == q.at \in SessionStages /\ q.token = t

LEMMA RequestIs ==
  /\ Free \in RequestIn /\ Free.at = "free"
  /\ \A q \in RequestIn : /\ q.at \in {"free"} \cup SessionStages
                          /\ q = Free <=> q.at = "free"
                          /\ q.at \in SessionStages => q.token \in Tokens
  BY DEF RequestIn, SessionStages, Free

(* Only the session of the request that moves sees a difference.           *)
LEMMA OthersSame ==
  ASSUME requests \in [Requests -> RequestIn], NEW r \in Requests, NEW q \in RequestIn,
         requests' = [requests EXCEPT ![r] = q],
         NEW t \in Tokens, ~Of(requests[r], t), ~Of(q, t), NEW S \in SUBSET SessionStages
  PROVE  In(t, S)' = In(t, S)
<1>1. requests'[r] = q /\ \A o \in Requests : o # r => requests'[o] = requests[o]
  OBVIOUS
<1> QED
  BY <1>1 DEF In, Of

LEMMA LoginKeeps ==
  ASSUME SInv, NEW t \in Tokens, Login(t)
  PROVE  SInv'
<1> DEFINE e == Stored(now + LifeTime)
           f == Stored(now)
           row == [kind |-> "user", expires |-> e, lastUsed |-> f]
<1>0. /\ now \in Nat /\ e \in Nat /\ f \in Nat /\ f <= now /\ now < f + Second
      /\ TouchInterval \in Nat /\ TouchInterval > 0 /\ Second \in Nat /\ Second > 0
  <2>1. now \in Nat /\ now + LifeTime \in Nat
    BY IntervalAssumption DEF SInv, SessionsType
  <2> QED
    BY <2>1, StoredIs, IntervalAssumption
<1>1. row \in SessionIn /\ row.kind = "user" /\ row.lastUsed = f
  BY <1>0 DEF SessionIn
<1>2. /\ sessions' = [sessions EXCEPT ![t] = row] /\ seen' = [seen EXCEPT ![t] = now]
      /\ now' = now /\ touchCache' = touchCache /\ requests' = requests /\ missed' = missed
  BY DEF Login
<1> HIDE DEF row, e, f
<1>3. SessionsType'
  BY <1>0, <1>1, <1>2 DEF SInv, SessionsType
<1>4. ASSUME NEW u \in Tokens, u # t PROVE Lagging(u)'
  <2>1. sessions'[u] = sessions[u] /\ seen'[u] = seen[u]
    BY <1>2, <1>4 DEF SInv, SessionsType
  <2> QED
    BY <1>0, <1>2, <2>1, LaggingStays DEF In
<1>5. Lagging(t)'
  <2>1. sessions'[t] = row /\ seen'[t] = now
    BY <1>2 DEF SInv, SessionsType
  <2>2. touchCache[t] \in Nat \cup {NoTime} /\ (touchCache[t] # NoTime => touchCache[t] <= now)
    BY DEF SInv, SessionsType, Lagging, NotAhead
  <2> QED
    BY <1>0, <1>1, <1>2, <2>1, <2>2 DEF Lagging, NotAhead, StampFollowsCache, StampFollowsRequests
<1> QED
  BY <1>3, <1>4, <1>5 DEF SInv

(* A session that is not a user's, before or after, lags behind nothing.   *)
LEMMA NotAUsers ==
  ASSUME SInv, NEW t \in Tokens, sessions'[t].kind # "user", now' = now,
         touchCache'[t] = touchCache[t] \/ touchCache'[t] = NoTime
  PROVE  Lagging(t)'
  BY DEF SInv, Lagging, NotAhead, StampFollowsCache, StampFollowsRequests, Written

LEMMA OneSessionChanges ==
  ASSUME SInv, NEW t \in Tokens, NEW row \in SessionIn, row.kind # "user",
         sessions' = [sessions EXCEPT ![t] = row],
         UNCHANGED <<now, touchCache, requests, seen, missed>>
  PROVE  SInv'
<1>1. SessionsType'
  BY DEF SInv, SessionsType
<1>2. sessions'[t] = row /\ \A u \in Tokens : u # t => sessions'[u] = sessions[u]
  BY DEF SInv, SessionsType
<1>3. Lagging(t)'
  BY <1>2, NotAUsers
<1>4. ASSUME NEW u \in Tokens, u # t PROVE Lagging(u)'
  BY <1>2, <1>4, LaggingStays DEF SInv, SessionsType, In
<1> QED
  BY <1>1, <1>3, <1>4 DEF SInv

LEMMA MintAndRevokeKeep ==
  ASSUME SInv, NEW t \in Tokens,
         CreateScopedSession(t) \/ RevokeUserSession(t) \/ RevokeScopedSession(t)
  PROVE  SInv'
<1>1. CASE CreateScopedSession(t)
  <2> DEFINE row == [kind |-> "scoped", expires |-> Stored(now + LifeTime)]
  <2>1. row \in SessionIn /\ row.kind # "user"
    <3>1. now + LifeTime \in Nat
      BY IntervalAssumption DEF SInv, SessionsType
    <3>2. Stored(now + LifeTime) \in Nat
      BY <3>1, StoredIs
    <3> QED
      BY <3>2 DEF SessionIn
  <2> QED
    BY <1>1, <2>1, OneSessionChanges DEF CreateScopedSession
<1>2. CASE RevokeUserSession(t) \/ RevokeScopedSession(t)
  <2>1. Deleted \in SessionIn /\ Deleted.kind # "user"
    BY DEF Deleted, SessionIn
  <2> QED
    BY <1>2, <2>1, OneSessionChanges DEF RevokeUserSession, RevokeScopedSession, Delete
<1> QED
  BY <1>1, <1>2

(* A request takes up a session or lays it down without writing.           *)
LEMMA RequireAuthKeeps ==
  ASSUME SInv, NEW r \in Requests, NEW t \in Tokens, RequireAuth(r, t)
  PROVE  SInv'
<1> DEFINE q == [at |-> "authenticated", token |-> t]
<1>1. /\ q \in RequestIn /\ Of(q, t) /\ \A u \in Tokens : u # t => ~Of(q, u)
      /\ q.at = "authenticated" /\ q.token = t
  BY DEF RequestIn, SessionStages, Of
<1>2. /\ requests' = [requests EXCEPT ![r] = q] /\ seen' = [seen EXCEPT ![t] = now]
      /\ now' = now /\ sessions' = sessions /\ touchCache' = touchCache /\ missed' = missed
      /\ requests[r] = Free
  BY DEF RequireAuth
<1> HIDE DEF q
<1>3. requests \in [Requests -> RequestIn] /\ now \in Nat
  BY DEF SInv, SessionsType, RequestIn
<1>4. SessionsType'
  BY <1>1, <1>2, <1>3 DEF SInv, SessionsType, RequestIn
<1>5. ~Of(requests[r], t) /\ \A u \in Tokens : ~Of(requests[r], u)
  BY <1>2, RequestIs DEF Of, SessionStages
<1>6. ASSUME NEW u \in Tokens, u # t PROVE Lagging(u)'
  <2>1. seen'[u] = seen[u]
    BY <1>2, <1>6 DEF SInv, SessionsType
  <2>2. \A S \in SUBSET SessionStages : In(u, S)' = In(u, S)
    BY <1>1, <1>2, <1>3, <1>5, <1>6, OthersSame
  <2>3. {"touching"} \in SUBSET SessionStages /\ {"authenticated", "touching"} \in SUBSET SessionStages
    BY DEF SessionStages
  <2> QED
    BY <1>2, <1>3, <2>1, <2>2, <2>3, LaggingStays
<1>7. Lagging(t)'
  <2>1. seen'[t] = now /\ requests'[r] = q /\ \A o \in Requests : o # r => requests'[o] = requests[o]
    BY <1>2, <1>3 DEF SInv, SessionsType
  <2>2. In(t, {"authenticated", "touching"})'
    BY <1>1, <2>1 DEF In
  <2>3. In(t, {"touching"})' = In(t, {"touching"})
    BY <1>1, <1>5, <2>1 DEF In, Of, SessionStages
  <2>4. Lagging(t)
    BY DEF SInv
  <2>5. NotAhead(t)'
    BY <1>2, <1>3, <2>1, <2>4 DEF Lagging, NotAhead
  <2>6. StampFollowsCache(t)'
    BY <1>2, <2>3, <2>4 DEF Lagging, StampFollowsCache, Written
  <2> QED
    BY <2>2, <2>5, <2>6 DEF Lagging, StampFollowsRequests
<1> QED
  BY <1>4, <1>6, <1>7 DEF SInv

(* The sessions that the moving request does not name.                     *)
LEMMA OthersStay ==
  ASSUME SInv, NEW r \in Requests, NEW q \in RequestIn, NEW t \in Tokens, NEW u \in Tokens, u # t,
         requests' = [requests EXCEPT ![r] = q],
         \A w \in Tokens : w # t => ~Of(requests[r], w) /\ ~Of(q, w),
         now' = now, sessions'[u] = sessions[u], seen'[u] = seen[u],
         touchCache'[u] = touchCache[u], u \in missed <=> u \in missed'
  PROVE  Lagging(u)'
<1>1. requests \in [Requests -> RequestIn] /\ now \in Nat
  BY DEF SInv, SessionsType, RequestIn
<1>2. \A S \in SUBSET SessionStages : In(u, S)' = In(u, S)
  BY <1>1, OthersSame
<1>3. {"touching"} \in SUBSET SessionStages /\ {"authenticated", "touching"} \in SUBSET SessionStages
  BY DEF SessionStages
<1> QED
  BY <1>1, <1>2, <1>3, LaggingStays

(* What a request is and names while it is not free.                       *)
LEMMA AtWork ==
  ASSUME SInv, NEW r \in Requests, requests[r].at # "free"
  PROVE  /\ requests \in [Requests -> RequestIn] /\ requests[r].token \in Tokens
         /\ \A u \in Tokens : u # requests[r].token => ~Of(requests[r], u)
         /\ \A u \in Tokens : ~Of(Free, u)
         /\ Free \in RequestIn /\ now \in Nat
         /\ TouchInterval \in Nat /\ TouchInterval > 0 /\ Second \in Nat /\ Second > 0
<1>1. requests \in [Requests -> RequestIn] /\ now \in Nat
  BY DEF SInv, SessionsType, RequestIn
<1>2. TouchInterval \in Nat /\ TouchInterval > 0 /\ Second \in Nat /\ Second > 0
  BY IntervalAssumption
<1> QED
  BY <1>1, <1>2, RequestIs DEF Of, SessionStages

LEMMA ThrottledKeeps ==
  ASSUME SInv, NEW r \in Requests, Throttled(r)
  PROVE  SInv'
<1>0. PICK t \in Tokens : t = requests[r].token
  BY AtWork DEF Throttled
<1>1. /\ requests[r].at = "authenticated" /\ requests' = [requests EXCEPT ![r] = Free]
      /\ now' = now /\ sessions' = sessions /\ touchCache' = touchCache /\ seen' = seen
      /\ missed' = missed
      /\ sessions[t].kind = "scoped" \/ CacheIsFresh(t)
  BY <1>0 DEF Throttled
<1>2. /\ requests \in [Requests -> RequestIn] /\ t \in Tokens
      /\ \A u \in Tokens : u # t => ~Of(requests[r], u)
      /\ \A u \in Tokens : ~Of(Free, u)
      /\ Free \in RequestIn /\ now \in Nat /\ TouchInterval \in Nat /\ TouchInterval > 0
      /\ Second \in Nat /\ Second > 0
  BY <1>0, <1>1, AtWork
<1>3. SessionsType'
  BY <1>1, <1>2 DEF SInv, SessionsType, RequestIn
<1>4. ASSUME NEW u \in Tokens, u # t PROVE Lagging(u)'
  BY <1>1, <1>2, <1>4, OthersStay
<1>5. Lagging(t)'
  <2>1. Lagging(t) /\ sessions[t] \in SessionIn /\ touchCache[t] \in Nat \cup {NoTime}
    BY <1>2 DEF SInv, SessionsType
  <2>2. requests'[r] = Free /\ \A o \in Requests : o # r => requests'[o] = requests[o]
    BY <1>1, <1>2
  <2>3. In(t, {"touching"})' = In(t, {"touching"})
    BY <1>1, <2>2 DEF In, Free
  <2>4. NotAhead(t)'
    BY <1>1, <2>1 DEF Lagging, NotAhead
  <2>5. StampFollowsCache(t)'
    BY <1>1, <2>1, <2>3 DEF Lagging, StampFollowsCache, Written
  <2>6. ASSUME Written(t), ~In(t, {"touching"}) 
                PROVE  seen[t] < sessions[t].lastUsed + 2 * TouchInterval + Second
    <3>1. touchCache[t] # NoTime /\ now - touchCache[t] < TouchInterval
      BY <1>1, <2>6 DEF CacheIsFresh, Written
    <3>2. touchCache[t] < sessions[t].lastUsed + TouchInterval + Second
      BY <2>1, <2>6, <3>1 DEF Lagging, StampFollowsCache
    <3>3. sessions[t].lastUsed \in Nat /\ seen[t] \in Nat /\ seen[t] <= now /\ touchCache[t] \in Nat
      BY <2>1, <2>6, <3>1, KindIs DEF Lagging, NotAhead, Written
    <3> QED
      BY <1>2, <3>1, <3>2, <3>3
  <2>7. In(t, {"touching"})' => In(t, {"authenticated", "touching"})'
    BY DEF In
  <2>8. StampFollowsRequests(t)'
    BY <1>1, <2>3, <2>6, <2>7 DEF StampFollowsRequests, Written
  <2> QED
    BY <2>4, <2>5, <2>8 DEF Lagging
<1> QED
  BY <1>3, <1>4, <1>5 DEF SInv

LEMMA CacheTouchKeeps ==
  ASSUME SInv, NEW r \in Requests, CacheTouch(r)
  PROVE  SInv'
<1>0. PICK t \in Tokens : t = requests[r].token
  BY AtWork DEF CacheTouch
<1> DEFINE q == [requests[r] EXCEPT !.at = "touching"]
<1>1. /\ requests[r].at = "authenticated" /\ requests' = [requests EXCEPT ![r].at = "touching"]
      /\ now' = now /\ sessions' = sessions /\ touchCache' = [touchCache EXCEPT ![t] = now]
      /\ seen' = seen /\ missed' = missed
  BY <1>0 DEF CacheTouch
<1>2. /\ requests \in [Requests -> RequestIn] /\ t \in Tokens
      /\ \A u \in Tokens : u # t => ~Of(requests[r], u)
      /\ now \in Nat
  BY <1>0, <1>1, AtWork
<1>3. requests[r] \in [at : SessionStages, token : Tokens]
  BY <1>1, <1>2 DEF RequestIn
<1>4. q \in RequestIn /\ q.at = "touching" /\ q.token = t
  BY <1>0, <1>3 DEF RequestIn, SessionStages
<1>5. requests' = [requests EXCEPT ![r] = q]
  BY <1>1
<1> HIDE DEF q
<1>6. \A u \in Tokens : u # t => ~Of(q, u)
  BY <1>4 DEF Of
<1>7. SessionsType'
  BY <1>1, <1>2, <1>4, <1>5 DEF SInv, SessionsType, RequestIn
<1>8. \A u \in Tokens : u # t => touchCache'[u] = touchCache[u]
  BY <1>1 DEF SInv, SessionsType
<1>9. ASSUME NEW u \in Tokens, u # t PROVE Lagging(u)'
  BY <1>1, <1>2, <1>4, <1>5, <1>6, <1>8, <1>9, OthersStay
<1>10. Lagging(t)'
  <2>1. Lagging(t) /\ touchCache'[t] = now
    BY <1>1, <1>2 DEF SInv, SessionsType
  <2>2. requests'[r] = q
    BY <1>2, <1>5
  <2>3. In(t, {"touching"})' /\ In(t, {"authenticated", "touching"})'
    BY <1>4, <2>2 DEF In
  <2>4. NotAhead(t)'
    BY <1>1, <1>2, <2>1 DEF Lagging, NotAhead
  <2> QED
    BY <2>3, <2>4 DEF Lagging, StampFollowsCache, StampFollowsRequests
<1> QED
  BY <1>7, <1>9, <1>10 DEF SInv

(* The statement leaves a stamp that is less than an interval and a second *)
(* old.                                                                    *)
LEMMA StampedIs ==
  ASSUME SInv, NEW t \in Tokens
  PROVE  /\ Stamped(t) \in SessionIn /\ Stamped(t).kind = sessions[t].kind
         /\ sessions[t].kind = "user" =>
              /\ Stamped(t).lastUsed \in Nat /\ Stamped(t).lastUsed <= now
              /\ now < Stamped(t).lastUsed + TouchInterval + Second
<1> DEFINE c == Stored(now - TouchInterval)
           f == Stored(now)
<1>1. /\ now \in Nat /\ sessions[t] \in SessionIn /\ TouchInterval \in Nat
      /\ Second \in Nat /\ Second > 0
      /\ sessions[t].kind = "user" => sessions[t].lastUsed <= now /\ sessions[t].lastUsed \in Nat
  BY IntervalAssumption, KindIs DEF SInv, SessionsType, Lagging, NotAhead
<1>2. c \in Int /\ now - TouchInterval < c + Second
  BY <1>1, StoredIs
<1>3. f \in Nat /\ f <= now /\ now < f + Second
  BY <1>1, StoredIs
<1>4. Stamped(t) = IF sessions[t].kind = "user" /\ sessions[t].lastUsed < c
                     THEN [sessions[t] EXCEPT !.lastUsed = f] ELSE sessions[t]
  BY DEF Stamped, Restamped
<1> HIDE DEF c, f
<1>5. CASE sessions[t].kind = "user" /\ sessions[t].lastUsed < c
  <2>1. sessions[t] \in [kind : {"user"}, expires : Nat, lastUsed : Nat]
    BY <1>1, <1>5 DEF SessionIn
  <2>2. /\ Stamped(t) \in [kind : {"user"}, expires : Nat, lastUsed : Nat]
        /\ Stamped(t).lastUsed = f /\ Stamped(t).kind = "user"
    BY <1>3, <1>4, <1>5, <2>1
  <2> QED
    BY <1>1, <1>3, <1>5, <2>2 DEF SessionIn
<1>6. CASE ~(sessions[t].kind = "user" /\ sessions[t].lastUsed < c)
  BY <1>1, <1>2, <1>4, <1>6
<1> QED
  BY <1>5, <1>6

LEMMA TouchSessionKeeps ==
  ASSUME SInv, NEW r \in Requests, TouchSession(r)
  PROVE  SInv'
<1>0. PICK t \in Tokens : t = requests[r].token
  BY AtWork DEF TouchSession
<1>1. /\ requests[r].at = "touching" /\ requests' = [requests EXCEPT ![r] = Free]
      /\ now' = now /\ sessions' = [sessions EXCEPT ![t] = Stamped(t)] /\ touchCache' = touchCache
      /\ seen' = seen /\ missed' = missed \ {t}
  BY <1>0 DEF TouchSession
<1>2. /\ requests \in [Requests -> RequestIn] /\ t \in Tokens
      /\ \A u \in Tokens : u # t => ~Of(requests[r], u)
      /\ \A u \in Tokens : ~Of(Free, u)
      /\ Free \in RequestIn /\ now \in Nat /\ TouchInterval \in Nat /\ TouchInterval > 0
      /\ Second \in Nat /\ Second > 0
  BY <1>0, <1>1, AtWork
<1>3. /\ Stamped(t) \in SessionIn /\ Stamped(t).kind = sessions[t].kind
      /\ sessions[t].kind = "user" =>
           /\ Stamped(t).lastUsed \in Nat /\ Stamped(t).lastUsed <= now
           /\ now < Stamped(t).lastUsed + TouchInterval + Second
  BY <1>2, StampedIs
<1>4. SessionsType'
  BY <1>1, <1>2, <1>3 DEF SInv, SessionsType, RequestIn
<1>5. sessions'[t] = Stamped(t) /\ \A u \in Tokens : u # t => sessions'[u] = sessions[u]
  BY <1>1, <1>2 DEF SInv, SessionsType
<1>6. ASSUME NEW u \in Tokens, u # t PROVE Lagging(u)'
  <2>1. u \in missed <=> u \in missed'
    BY <1>1, <1>6
  <2> QED
    BY <1>1, <1>2, <1>5, <1>6, <2>1, OthersStay
<1>7. Lagging(t)'
  <2>1. /\ touchCache[t] \in Nat \cup {NoTime} /\ (touchCache[t] # NoTime => touchCache[t] <= now)
        /\ sessions[t].kind = "user" => seen[t] \in Nat /\ seen[t] <= now
    BY <1>2 DEF SInv, SessionsType, Lagging, NotAhead
  <2>2. NotAhead(t)'
    BY <1>1, <1>3, <1>5, <2>1 DEF NotAhead
  <2>3. StampFollowsCache(t)'
    BY <1>1, <1>2, <1>3, <1>5, <2>1 DEF StampFollowsCache, Written
  <2>4. StampFollowsRequests(t)'
    BY <1>1, <1>2, <1>3, <1>5, <2>1 DEF StampFollowsRequests, Written
  <2> QED
    BY <2>2, <2>3, <2>4 DEF Lagging
<1> QED
  BY <1>4, <1>6, <1>7 DEF SInv

LEMMA TouchFailsKeeps ==
  ASSUME SInv, NEW r \in Requests, TouchFails(r)
  PROVE  SInv'
<1>0. PICK t \in Tokens : t = requests[r].token
  BY AtWork DEF TouchFails
<1>1. /\ requests[r].at = "touching" /\ requests' = [requests EXCEPT ![r] = Free]
      /\ now' = now /\ sessions' = sessions /\ touchCache' = touchCache
      /\ seen' = seen /\ missed' = missed \cup {t}
  BY <1>0 DEF TouchFails
<1>2. /\ requests \in [Requests -> RequestIn] /\ t \in Tokens
      /\ \A u \in Tokens : u # t => ~Of(requests[r], u)
      /\ \A u \in Tokens : ~Of(Free, u)
      /\ Free \in RequestIn
  BY <1>0, <1>1, AtWork
<1>3. SessionsType'
  BY <1>1, <1>2 DEF SInv, SessionsType, RequestIn
<1>4. ASSUME NEW u \in Tokens, u # t PROVE Lagging(u)'
  <2>1. u \in missed <=> u \in missed'
    BY <1>1, <1>4
  <2> QED
    BY <1>1, <1>2, <1>4, <2>1, OthersStay
<1>5. Lagging(t)'
  <2>1. NotAhead(t)
    BY <1>2 DEF SInv, Lagging
  <2> QED
    BY <1>1, <2>1 DEF Lagging, NotAhead, StampFollowsCache, StampFollowsRequests, Written
<1> QED
  BY <1>3, <1>4, <1>5 DEF SInv

(* What a request forgets or prunes throttles less, and nothing is owed    *)
(* for the sessions of requests that a restart ends.                       *)
LEMMA LogoutKeeps ==
  ASSUME SInv, NEW r \in Requests, NEW t \in Tokens, Logout(r, t)
  PROVE  SInv'
<1> DEFINE q == [at |-> "forgetting", token |-> t]
<1>1. /\ q \in RequestIn /\ q.at = "forgetting" /\ q.token = t /\ \A u \in Tokens : u # t => ~Of(q, u)
      /\ Deleted \in SessionIn /\ Deleted.kind # "user"
  BY DEF RequestIn, SessionStages, Of, Deleted, SessionIn
<1>2. /\ requests' = [requests EXCEPT ![r] = q] /\ requests[r] = Free
      /\ now' = now /\ seen' = seen /\ touchCache' = touchCache /\ missed' = missed
      /\ sessions' = [sessions EXCEPT ![t] = Deleted] \/ sessions' = sessions
  BY DEF Logout, Delete
<1> HIDE DEF q
<1>3. requests \in [Requests -> RequestIn] /\ \A u \in Tokens : ~Of(requests[r], u)
  BY <1>2, RequestIs DEF SInv, SessionsType, RequestIn, Of, SessionStages
<1>4. SessionsType'
  BY <1>1, <1>2, <1>3 DEF SInv, SessionsType, RequestIn
<1>5. \A u \in Tokens : u # t => sessions'[u] = sessions[u]
  BY <1>2 DEF SInv, SessionsType
<1>6. ASSUME NEW u \in Tokens, u # t PROVE Lagging(u)'
  BY <1>1, <1>2, <1>3, <1>5, <1>6, OthersStay
<1>7. Lagging(t)'
  <2>1. CASE sessions'[t] = Deleted
    BY <1>1, <1>2, <2>1, NotAUsers
  <2>2. CASE sessions' = sessions
    <3>1. requests'[r] = q /\ \A o \in Requests : o # r => requests'[o] = requests[o]
      BY <1>2, <1>3
    <3>2. /\ In(t, {"touching"})' = In(t, {"touching"})
          /\ In(t, {"authenticated", "touching"})' = In(t, {"authenticated", "touching"})
      BY <1>1, <1>2, <3>1 DEF In, Free
    <3> QED
      BY <1>2, <2>2, <3>2, LaggingStays DEF SInv, SessionsType
  <2> QED
    BY <1>2, <2>1, <2>2 DEF SInv, SessionsType
<1> QED
  BY <1>4, <1>6, <1>7 DEF SInv

LEMMA ForgetTouchKeeps ==
  ASSUME SInv, NEW r \in Requests, ForgetTouch(r)
  PROVE  SInv'
<1>0. PICK t \in Tokens : t = requests[r].token
  BY AtWork DEF ForgetTouch
<1>1. /\ requests[r].at = "forgetting" /\ requests' = [requests EXCEPT ![r] = Free]
      /\ now' = now /\ sessions' = sessions /\ seen' = seen /\ missed' = missed
      /\ touchCache' = [touchCache EXCEPT ![t] = NoTime]
  BY <1>0 DEF ForgetTouch
<1>2. /\ requests \in [Requests -> RequestIn]
      /\ \A u \in Tokens : u # t => ~Of(requests[r], u)
      /\ \A u \in Tokens : ~Of(Free, u)
      /\ Free \in RequestIn /\ now \in Nat
  BY <1>0, <1>1, AtWork
<1>3. SessionsType'
  BY <1>1, <1>2 DEF SInv, SessionsType, RequestIn
<1>4. touchCache'[t] = NoTime /\ \A u \in Tokens : u # t => touchCache'[u] = touchCache[u]
  BY <1>1 DEF SInv, SessionsType
<1>5. ASSUME NEW u \in Tokens, u # t PROVE Lagging(u)'
  BY <1>1, <1>2, <1>4, <1>5, OthersStay
<1>6. Lagging(t)'
  <2>1. requests'[r] = Free /\ \A o \in Requests : o # r => requests'[o] = requests[o]
    BY <1>1, <1>2
  <2>2. /\ In(t, {"touching"})' = In(t, {"touching"})
        /\ In(t, {"authenticated", "touching"})' = In(t, {"authenticated", "touching"})
    BY <1>1, <2>1 DEF In, Free
  <2> QED
    BY <1>1, <1>2, <1>4, <2>2, LaggingStays
<1> QED
  BY <1>3, <1>5, <1>6 DEF SInv

LEMMA PruneKeeps ==
  ASSUME SInv, PruneTouchCache
  PROVE  SInv'
<1>1. /\ now' = now /\ sessions' = sessions /\ seen' = seen /\ missed' = missed
      /\ requests' = requests
      /\ touchCache \in [Tokens -> Nat \cup {NoTime}] /\ now \in Nat
      /\ touchCache' = [t \in Tokens |->
           IF touchCache[t] # NoTime /\ touchCache[t] < now - 2 * TouchInterval
             THEN NoTime ELSE touchCache[t]]
  BY DEF SInv, SessionsType, PruneTouchCache
<1>2. \A t \in Tokens : touchCache'[t] = touchCache[t] \/ touchCache'[t] = NoTime
  BY <1>1
<1>3. touchCache' \in [Tokens -> Nat \cup {NoTime}]
  BY <1>1
<1>4. SessionsType'
  BY <1>1, <1>3 DEF SInv, SessionsType
<1>5. ASSUME NEW t \in Tokens PROVE Lagging(t)'
  BY <1>1, <1>2, LaggingStays DEF In
<1> QED
  BY <1>4, <1>5 DEF SInv

LEMMA RestartServerKeeps ==
  ASSUME SInv, RestartServer
  PROVE  SInv'
<1>1. /\ now' = now /\ sessions' = sessions /\ seen' = seen /\ now \in Nat
      /\ touchCache' = [t \in Tokens |-> NoTime] /\ requests' = [r \in Requests |-> Free]
      /\ missed' = missed \cup {requests[r].token : r \in {x \in Requests : requests[x] # Free}}
  BY DEF SInv, SessionsType, RestartServer
<1>2. SessionsType'
  BY <1>1, RequestIs DEF SInv, SessionsType, RequestIn
<1>3. ASSUME NEW t \in Tokens PROVE Lagging(t)'
  <2>1. t \notin missed' => \A r \in Requests : requests[r] # Free => requests[r].token # t
    BY <1>1
  <2>2. \A S \in SUBSET SessionStages : t \notin missed' => In(t, S)' = In(t, S)
    BY <1>1, <2>1 DEF In, SessionStages, Free
  <2>3. {"touching"} \in SUBSET SessionStages /\ {"authenticated", "touching"} \in SUBSET SessionStages
    BY DEF SessionStages
  <2> QED
    BY <1>1, <2>2, <2>3, LaggingStays
<1> QED
  BY <1>2, <1>3 DEF SInv

LEMMA TickKeeps ==
  ASSUME SInv, Tick
  PROVE  SInv'
<1>1. /\ now \in Nat /\ now' = now + 1
      /\ UNCHANGED <<sessions, touchCache, requests, seen, missed>>
  BY DEF SInv, SessionsType, Tick
<1>2. SessionsType'
  BY <1>1 DEF SInv, SessionsType
<1>3. ASSUME NEW t \in Tokens PROVE Lagging(t)'
  BY <1>1, LaggingStays DEF In
<1> QED
  BY <1>2, <1>3 DEF SInv

LEMMA SInvNext ==
  ASSUME SInv, [SessionsNext]_sessionVars
  PROVE  SInv'
<1>1. ASSUME NEW t \in Tokens, Login(t) \/ CreateScopedSession(t) \/ RevokeUserSession(t)
                                 \/ RevokeScopedSession(t)
      PROVE  SInv'
  BY <1>1, LoginKeeps, MintAndRevokeKeep
<1>2. ASSUME NEW r \in Requests, NEW t \in Tokens, RequireAuth(r, t) \/ Logout(r, t)
      PROVE  SInv'
  BY <1>2, RequireAuthKeeps, LogoutKeeps
<1>3. ASSUME NEW r \in Requests, Throttled(r) \/ CacheTouch(r) \/ TouchSession(r) \/ TouchFails(r)
                                   \/ ForgetTouch(r)
      PROVE  SInv'
  BY <1>3, ThrottledKeeps, CacheTouchKeeps, TouchSessionKeeps, TouchFailsKeeps, ForgetTouchKeeps
<1>4. CASE PruneTouchCache \/ RestartServer \/ Tick
  BY <1>4, PruneKeeps, RestartServerKeeps, TickKeeps
<1>5. CASE UNCHANGED sessionVars
  <2>1. UNCHANGED <<now, sessions, touchCache, requests, seen, missed>>
    BY <1>5 DEF sessionVars
  <2>2. SessionsType'
    BY <2>1 DEF SInv, SessionsType
  <2>3. ASSUME NEW t \in Tokens PROVE Lagging(t)'
    BY <2>1, LaggingStays DEF In, SInv, SessionsType
  <2> QED
    BY <2>2, <2>3 DEF SInv
<1> QED
  BY <1>1, <1>2, <1>3, <1>4, <1>5 DEF SessionsNext

(* A user who keeps working is not logged out by the idle window: when the *)
(* requests of a session are through and its touches were written, the     *)
(* stamp is less than two intervals and a second older than the last       *)
(* request, however fine the clock, whatever the cache forgot, however     *)
(* requests, logouts and restarts interleave (maybeTouchSession,           *)
(* TouchSession).                                                          *)
THEOREM LagBoundedHolds == SessionsSpec => []LagBounded
<1>1. SInv => LagBounded
  <2> SUFFICES ASSUME SInv, NEW t \in Tokens, sessions[t].kind = "user", ~Pending(t), t \notin missed
               PROVE  seen[t] - sessions[t].lastUsed < 2 * TouchInterval + Second
    BY DEF LagBounded
  <2>1. ~In(t, {"authenticated", "touching"})
    BY DEF In, Pending, Free
  <2>2. seen[t] < sessions[t].lastUsed + 2 * TouchInterval + Second
    BY <2>1 DEF SInv, Lagging, StampFollowsRequests, Written
  <2>3. seen[t] \in Nat /\ sessions[t].lastUsed \in Nat /\ TouchInterval \in Nat
        /\ Second \in Nat
    BY IntervalAssumption, KindIs DEF SInv, SessionsType, Lagging, NotAhead
  <2> QED
    BY <2>2, <2>3
<1> QED
  BY <1>1, SInvInit, SInvNext, PTL DEF SessionsSpec

(***************************************************************************)
(* Boot.  What a process holds was true when it read it; it stays usable   *)
(* because a record opens to one key for ever, and because what a reset    *)
(* takes away is marked in everyone who had it.                            *)
(***************************************************************************)
Whole(rec) == OneForm(rec) /\ Opened(rec) = rec.sentinel

Early == {"unlocked", "setup", "piped", "ca", "cert", "key", "bind", "bound"}
Late == {"claim", "serving", "leaving"}
Keepers == Early \cup Late

Seen == Procs \cup {None}
HolderIn == [at : Keepers, saw : Seen, db : 1..MaxDb, key : Procs, claimed : BOOLEAN,
             crossed : BOOLEAN]
PromptIn == [at : {"prompt"}, saw : Seen, db : 1..MaxDb, read : MasterKeyRecords]
LookIn == [at : {"opening", "stale", "reading", "wipe", "gone"}, saw : Seen]
StopIn == [at : {"waiting", "cleanup", "wipe", "gone"}, saw : Seen, goal : {"stop", "reset"}]
ProcIn == [at : {"new", "gone"}] \cup LookIn \cup StopIn \cup PromptIn \cup HolderIn

FilesIn == [cert : Seen, key : {None} \cup [of : Procs, key : Procs, crossed : BOOLEAN]]

BootType ==
  /\ pidfile \in Seen /\ db \in 1..MaxDb
  /\ record \in [1..MaxDb -> MasterKeyRecords \cup {None}]
  /\ secrets \in [1..MaxDb -> SUBSET [key : Procs, crossed : BOOLEAN]]
  /\ caFiles \in FilesIn
  /\ proc \in [Procs -> ProcIn]

(* A process that holds a key opens its database with it, unless a reset   *)
(* came between; a command that read a record rewrites the key it opens to. *)
KeyRight(p, st) ==
  /\ st.at \in Keepers =>
       /\ ~st.crossed => st.db = db
       /\ st.at = "setup" => st.key = p
       /\ st.at # "setup" => st.crossed \/ Opens(st.db, st.key)
  /\ st.at = "prompt" => Whole(st.read) /\ Opens(st.db, Opened(st.read))

(* A process that will remove the pid file, or write it, did not see it    *)
(* claimed by another that still runs.                                     *)
SawRight(p, st) ==
  /\ st.at \in {"opening", "stale"} => st.saw = None
  /\ st.at \in Early => st.saw = None /\ ~st.claimed
  /\ st.at = "claim" \/ (st.at \in Late /\ st.claimed) => st.saw \in {None, p}
  /\ st.at = "leaving" => st.claimed
  /\ st.at = "waiting" => st.saw \in Procs /\ proc[st.saw].at # "new"
  /\ st.at \in {"cleanup", "wipe"} => st.saw = None \/ proc[st.saw].at = "gone"

Sound(p) == KeyRight(p, proc[p]) /\ SawRight(p, proc[p])

StoredRight ==
  /\ \A d \in 1..MaxDb : record[d] # None => Whole(record[d])
  /\ \A d \in 1..MaxDb : \A s \in secrets[d] : s.crossed \/ Opens(d, s.key)
  /\ caFiles.key # None => caFiles.key.crossed \/ Opens(db, caFiles.key.key)

BInv == BootType /\ StoredRight /\ \A p \in Procs : Sound(p)

LEMMA BInvInit == BootInit => BInv
<1> SUFFICES ASSUME BootInit PROVE BInv
  OBVIOUS
<1>1. New \in ProcIn /\ New.at = "new"
  BY DEF New, ProcIn
<1>2. /\ pidfile = None /\ db = 1 /\ record = [d \in 1..MaxDb |-> None]
      /\ secrets = [d \in 1..MaxDb |-> {}] /\ caFiles = NoFiles
      /\ proc = [p \in Procs |-> New] /\ 1 \in 1..MaxDb
  BY ProcsAssumption DEF BootInit, Nothing
<1>3. NoFiles \in FilesIn /\ NoFiles.key = None
  BY DEF NoFiles, FilesIn, Seen
<1>4. BootType
  BY <1>1, <1>2, <1>3 DEF BootType, Seen
<1>5. StoredRight
  BY <1>2, <1>3 DEF StoredRight
<1>6. ASSUME NEW p \in Procs PROVE Sound(p)
  BY <1>1, <1>2 DEF Sound, KeyRight, SawRight, Keepers, Early, Late
<1> QED
  BY <1>4, <1>5, <1>6 DEF BInv

(* Which states a place allows.                                            *)
LEMMA PlaceTells ==
  ASSUME NEW st \in ProcIn
  PROVE  /\ st.at \in Keepers => st \in HolderIn
         /\ st.at = "prompt" => st \in PromptIn
         /\ st.at \in {"opening", "stale", "reading"} => st \in LookIn
         /\ st.at \in {"waiting", "cleanup"} => st \in StopIn
         /\ st.at = "wipe" => st \in LookIn \cup StopIn
         /\ "crossed" \in DOMAIN st => st \in HolderIn
<1>1. CASE st \in [at : {"new", "gone"}]
  BY <1>1 DEF Keepers, Early, Late
<1>2. CASE st \in LookIn
  BY <1>2 DEF LookIn, Keepers, Early, Late
<1>3. CASE st \in StopIn
  BY <1>3 DEF StopIn, Keepers, Early, Late
<1>4. CASE st \in PromptIn
  BY <1>4 DEF PromptIn, Keepers, Early, Late
<1>5. CASE st \in HolderIn
  BY <1>5 DEF HolderIn, Keepers, Early, Late
<1> QED
  BY <1>1, <1>2, <1>3, <1>4, <1>5 DEF ProcIn

(* What stays true for the processes that rest: keys that open go on       *)
(* opening, who started does not become new, and who is gone stays gone.   *)
Steady ==
  /\ \A d \in 1..MaxDb, k \in Procs : Opens(d, k) => Opens(d, k)'
  /\ \A q \in Procs : proc[q].at # "new" => proc'[q].at # "new"
  /\ \A q \in Procs : proc[q].at = "gone" => proc'[q].at = "gone"

LEMMA RestingStays ==
  ASSUME BInv, Steady, NEW p \in Procs, proc'[p] = proc[p], db' = db
  PROVE  Sound(p)'
<1>1. Sound(p) /\ proc[p] \in ProcIn
  BY DEF BInv, BootType
<1>2. KeyRight(p, proc[p])'
  <2>1. CASE proc[p].at \in Keepers
    <3>1. proc[p].db \in 1..MaxDb /\ proc[p].key \in Procs /\ proc[p].at # "prompt"
      BY <1>1, <2>1, PlaceTells DEF HolderIn, Keepers, Early, Late
    <3> QED
      BY <1>1, <2>1, <3>1 DEF Sound, KeyRight, Steady
  <2>2. CASE proc[p].at = "prompt"
    <3>1. proc[p].db \in 1..MaxDb /\ proc[p].read \in MasterKeyRecords /\ proc[p].at \notin Keepers
      BY <1>1, <2>2, PlaceTells DEF PromptIn, Keepers, Early, Late
    <3>2. Whole(proc[p].read) /\ Opens(proc[p].db, Opened(proc[p].read))
      BY <1>1, <2>2 DEF Sound, KeyRight
    <3>3. Opened(proc[p].read) \in Procs
      BY <3>1, <3>2 DEF Whole, MasterKeyRecords
    <3> QED
      BY <2>2, <3>1, <3>2, <3>3 DEF KeyRight, Steady
  <2>3. CASE proc[p].at \notin Keepers /\ proc[p].at # "prompt"
    BY <2>3 DEF KeyRight
  <2> QED
    BY <2>1, <2>2, <2>3
<1>3. SawRight(p, proc[p])'
  <2>1. proc[p].at = "waiting" => proc[p].saw \in Procs /\ proc[p].at \notin Keepers
    BY <1>1 DEF Sound, SawRight, Keepers, Early, Late
  <2>2. proc[p].at \in {"cleanup", "wipe"} => proc[p].saw \in Seen
    BY <1>1, PlaceTells DEF LookIn, StopIn
  <2> QED
    BY <1>1, <2>1, <2>2 DEF Sound, SawRight, Steady, Seen
<1> QED
  BY <1>2, <1>3 DEF Sound

Grows == \A d \in 1..MaxDb, k \in Procs : Opens(d, k) => Opens(d, k)'

(* A step of one process.                                                  *)
LEMMA OneMoves ==
  ASSUME BInv, NEW p \in Procs, NEW st \in ProcIn, proc' = [proc EXCEPT ![p] = st],
         proc[p].at # "gone", st.at # "new", KeyRight(p, st), SawRight(p, st),
         pidfile' \in Seen, db' = db, Grows, StoredRight',
         record' \in [1..MaxDb -> MasterKeyRecords \cup {None}],
         secrets' \in [1..MaxDb -> SUBSET [key : Procs, crossed : BOOLEAN]],
         caFiles' \in FilesIn
  PROVE  BInv'
<1>1. proc \in [Procs -> ProcIn] /\ db \in 1..MaxDb
  BY DEF BInv, BootType
<1>2. proc'[p] = st /\ \A q \in Procs : q # p => proc'[q] = proc[q]
  BY <1>1
<1>3. BootType'
  BY <1>1 DEF BootType
<1>4. Steady
  BY <1>2 DEF Steady, Grows
<1>5. ASSUME NEW q \in Procs, q # p PROVE Sound(q)'
  BY <1>2, <1>4, <1>5, RestingStays
<1>6. KeyRight(p, st)'
  <2>1. CASE st.at \in Keepers
    <3>1. st.db \in 1..MaxDb /\ st.key \in Procs /\ st.at # "prompt"
      BY <2>1, PlaceTells DEF HolderIn, Keepers, Early, Late
    <3> QED
      BY <2>1, <3>1 DEF KeyRight, Grows
  <2>2. CASE st.at = "prompt"
    <3>1. st.db \in 1..MaxDb /\ st.read \in MasterKeyRecords /\ st.at \notin Keepers
      BY <2>2, PlaceTells DEF PromptIn, Keepers, Early, Late
    <3>2. Whole(st.read) /\ Opens(st.db, Opened(st.read))
      BY <2>2 DEF KeyRight
    <3>3. Opened(st.read) \in Procs
      BY <3>1, <3>2 DEF Whole, MasterKeyRecords
    <3> QED
      BY <2>2, <3>1, <3>2, <3>3 DEF KeyRight, Grows
  <2>3. CASE st.at \notin Keepers /\ st.at # "prompt"
    BY <2>3 DEF KeyRight
  <2> QED
    BY <2>1, <2>2, <2>3
<1>7. SawRight(p, st)'
  <2>1. st.at \in {"cleanup", "wipe"} => st.saw \in Seen
    BY PlaceTells DEF LookIn, StopIn
  <2> QED
    BY <1>4, <2>1 DEF SawRight, Steady, Seen
<1>8. Sound(p)'
  BY <1>2, <1>6, <1>7 DEF Sound
<1> QED
  BY <1>3, <1>5, <1>8 DEF BInv

(* A step that changes the process, and the pid file at most.              *)
LEMMA OnlyMoves ==
  ASSUME BInv, NEW p \in Procs, NEW st \in ProcIn, proc' = [proc EXCEPT ![p] = st],
         proc[p].at # "gone", st.at # "new", KeyRight(p, st), SawRight(p, st),
         pidfile' \in Seen, UNCHANGED <<db, record, secrets, caFiles>>
  PROVE  BInv'
<1>1. Grows
  BY DEF Grows, Opens
<1>2. StoredRight'
  BY DEF BInv, StoredRight, Opens
<1>3. /\ record' \in [1..MaxDb -> MasterKeyRecords \cup {None}]
      /\ secrets' \in [1..MaxDb -> SUBSET [key : Procs, crossed : BOOLEAN]]
      /\ caFiles' \in FilesIn
  BY DEF BInv, BootType
<1> QED
  BY <1>1, <1>2, <1>3, OneMoves

(* The states that hold and remember nothing.                              *)
LEMMA GoneIs ==
  ASSUME NEW p
  PROVE  Gone \in ProcIn /\ Gone.at = "gone" /\ KeyRight(p, Gone) /\ SawRight(p, Gone)
  BY DEF Gone, ProcIn, KeyRight, SawRight, Keepers, Early, Late

LEMMA LooksIs ==
  ASSUME BInv, NEW at
  PROVE  /\ Looks(at).at = at /\ Looks(at) = [at |-> at, saw |-> Looks(at).saw]
         /\ Looks(at).saw \in Seen
         /\ Looks(at).saw # None => Looks(at).saw = pidfile /\ pidfile \in Procs /\ IsRunning(pidfile)
         /\ Looks(at).saw = None => pidfile = None \/ ~IsRunning(pidfile)
  BY ProcsAssumption DEF Looks, BInv, BootType, Seen

LEMMA PreflightKeeps ==
  ASSUME BInv, NEW p \in Procs, Preflight(p)
  PROVE  BInv'
<1>1. UNCHANGED <<pidfile, db, record, secrets, caFiles>> /\ proc[p].at = "new" /\ pidfile \in Seen
  BY DEF Preflight, shared, At, BInv, BootType
<1>2. CASE RunningOther(p)
  <2>1. proc' = [proc EXCEPT ![p] = Gone]
    BY <1>2 DEF Preflight, Become
  <2> QED
    BY <1>1, <2>1, GoneIs, OnlyMoves
<1>3. CASE ~RunningOther(p)
  <2>1. PICK at \in {"opening", "stale"} : proc' = [proc EXCEPT ![p] = Looks(at)]
    BY <1>3 DEF Preflight, Become
  <2>2. ~IsRunning(p)
    BY <1>1 DEF IsRunning
  <2>3. Looks(at).saw = None
    BY <1>3, <2>2, LooksIs DEF RunningOther
  <2>4. Looks(at) \in ProcIn /\ Looks(at).at = at
    BY LooksIs DEF ProcIn, LookIn
  <2>5. KeyRight(p, Looks(at)) /\ SawRight(p, Looks(at))
    BY <2>3, <2>4 DEF KeyRight, SawRight, Keepers, Early, Late
  <2> QED
    BY <1>1, <2>1, <2>4, <2>5, OnlyMoves
<1> QED
  BY <1>2, <1>3

LEMMA RemoveStaleKeeps ==
  ASSUME BInv, NEW p \in Procs, RemoveStale(p)
  PROVE  BInv'
<1> DEFINE st == [proc[p] EXCEPT !.at = "opening"]
<1>1. /\ UNCHANGED <<db, record, secrets, caFiles>> /\ proc[p].at = "stale" /\ pidfile' \in Seen
      /\ proc' = [proc EXCEPT ![p] = st]
  BY DEF RemoveStale, At, Proceed, Seen
<1>2. proc[p] \in LookIn /\ Sound(p)
  BY <1>1, PlaceTells DEF BInv, BootType
<1>3. st \in LookIn /\ st.at = "opening" /\ st.saw = None
  BY <1>1, <1>2 DEF LookIn, Sound, SawRight
<1> HIDE DEF st
<1>4. st \in ProcIn /\ KeyRight(p, st) /\ SawRight(p, st)
  BY <1>3 DEF ProcIn, KeyRight, SawRight, Keepers, Early, Late
<1> QED
  BY <1>1, <1>3, <1>4, OnlyMoves

LEMMA UnlockKeeps ==
  ASSUME BInv, NEW p \in Procs, Unlock(p) \/ FirstTime(p)
  PROVE  BInv'
<1>1. /\ UNCHANGED <<pidfile, db, record, secrets, caFiles>> /\ proc[p].at = "opening"
      /\ pidfile \in Seen /\ db \in 1..MaxDb
      /\ record \in [1..MaxDb -> MasterKeyRecords \cup {None}]
  BY DEF Unlock, FirstTime, shared, At, BInv, BootType
<1>2. proc[p] \in LookIn /\ proc[p].saw = None
  BY <1>1, PlaceTells DEF BInv, BootType, Sound, SawRight
<1>3. CASE Unlock(p)
  <2> DEFINE st == [at |-> "unlocked", saw |-> proc[p].saw, db |-> db, key |-> Opened(record[db]),
                    claimed |-> FALSE, crossed |-> FALSE]
  <2>1. proc' = [proc EXCEPT ![p] = st] /\ record[db] # None
    BY <1>3 DEF Unlock, Holding, Become
  <2>2. Whole(record[db]) /\ record[db] \in MasterKeyRecords
    BY <1>1, <2>1 DEF BInv, StoredRight
  <2>3. Opened(record[db]) \in Procs /\ Opens(db, Opened(record[db]))
    BY <2>1, <2>2 DEF Whole, MasterKeyRecords, Opens
  <2>4. st \in HolderIn
    BY <1>1, <1>2, <2>3 DEF HolderIn, Keepers, Early, Late, LookIn
  <2>5. st \in ProcIn /\ KeyRight(p, st) /\ SawRight(p, st) /\ st.at # "new"
    BY <1>2, <2>3, <2>4 DEF ProcIn, KeyRight, SawRight, Keepers, Early, Late
  <2> HIDE DEF st
  <2> QED
    BY <1>1, <2>1, <2>5, OnlyMoves
<1>4. CASE FirstTime(p)
  <2> DEFINE st == [at |-> "setup", saw |-> proc[p].saw, db |-> db, key |-> p,
                    claimed |-> FALSE, crossed |-> FALSE]
  <2>1. proc' = [proc EXCEPT ![p] = st]
    BY <1>4 DEF FirstTime, Holding, Become
  <2>2. st \in HolderIn
    BY <1>1, <1>2 DEF HolderIn, Keepers, Early, Late, LookIn
  <2>3. st \in ProcIn /\ KeyRight(p, st) /\ SawRight(p, st) /\ st.at # "new"
    BY <1>2, <2>2 DEF ProcIn, KeyRight, SawRight, Keepers, Early, Late
  <2> HIDE DEF st
  <2> QED
    BY <1>1, <2>1, <2>3, OnlyMoves
<1> QED
  BY <1>3, <1>4

(* A record that is new, or opens to the key of the one it replaces.       *)
LEMMA RecordChanges ==
  ASSUME BInv, NEW d \in 1..MaxDb, NEW rec \in MasterKeyRecords, Whole(rec),
         record[d] # None => Opened(record[d]) = Opened(rec),
         record' = [record EXCEPT ![d] = rec], UNCHANGED <<db, secrets, caFiles>>
  PROVE  /\ Grows /\ StoredRight' /\ Opens(d, Opened(rec))'
         /\ record' \in [1..MaxDb -> MasterKeyRecords \cup {None}]
<1>1. /\ record \in [1..MaxDb -> MasterKeyRecords \cup {None}] /\ rec # None /\ db \in 1..MaxDb
      /\ secrets \in [1..MaxDb -> SUBSET [key : Procs, crossed : BOOLEAN]] /\ caFiles \in FilesIn
  BY ProcsAssumption DEF BInv, BootType
<1>2. record'[d] = rec /\ \A e \in 1..MaxDb : e # d => record'[e] = record[e]
  BY <1>1
<1>3. Opens(d, Opened(rec))'
  BY <1>1, <1>2 DEF Opens
<1>4. Grows
  BY <1>1, <1>2 DEF Grows, Opens
<1>5. \A e \in 1..MaxDb : record'[e] # None => Whole(record'[e])
  BY <1>2 DEF BInv, StoredRight
<1>6. \A e \in 1..MaxDb : \A s \in secrets[e] : s.crossed \/ Opens(e, s.key)'
  <2>1. \A e \in 1..MaxDb : \A s \in secrets[e] : s.key \in Procs
    BY <1>1
  <2> QED
    BY <1>4, <2>1 DEF BInv, StoredRight, Grows
<1>7. caFiles.key # None => caFiles.key.crossed \/ Opens(db, caFiles.key.key)'
  <2>1. caFiles.key # None => caFiles.key.key \in Procs
    BY <1>1 DEF FilesIn
  <2> QED
    BY <1>1, <1>4, <2>1 DEF BInv, StoredRight, Grows
<1>8. StoredRight'
  <2>1. (\A e \in 1..MaxDb : record[e] # None => Whole(record[e]))'
    BY <1>5 DEF Whole, OneForm, Opened
  <2>2. (\A e \in 1..MaxDb : \A s \in secrets[e] : s.crossed \/ Opens(e, s.key))'
    BY <1>6
  <2>3. (caFiles.key # None => caFiles.key.crossed \/ Opens(db, caFiles.key.key))'
    BY <1>7 DEF Opens
  <2> QED
    BY <2>1, <2>2, <2>3 DEF StoredRight
<1> QED
  BY <1>1, <1>3, <1>4, <1>8

LEMMA SetupKeeps ==
  ASSUME BInv, NEW p \in Procs, SetupMasterKey(p)
  PROVE  BInv'
<1>1. /\ proc[p].at = "setup" /\ UNCHANGED <<pidfile, db, secrets, caFiles>>
      /\ proc \in [Procs -> ProcIn]
  BY DEF SetupMasterKey, At, BInv, BootType
<1>2. proc[p] \in HolderIn /\ proc[p].key = p /\ proc[p].saw = None /\ ~proc[p].claimed
      /\ (~proc[p].crossed => proc[p].db = db)
  BY <1>1, PlaceTells DEF BInv, Sound, KeyRight, SawRight, Keepers, Early, Late
<1>3. PICK d \in 1..MaxDb : d = proc[p].db
  BY <1>2 DEF HolderIn
<1>4. PICK rec \in {Plaintext(p), Wrapped(p)} : record' = [record EXCEPT ![d] = rec]
  BY <1>3 DEF SetupMasterKey
<1>5. rec \in MasterKeyRecords /\ Whole(rec) /\ Opened(rec) = p
  BY ProcsAssumption DEF Plaintext, Wrapped, MasterKeyRecords, Whole, OneForm, Opened
<1>6. record[d] = None
  BY <1>3 DEF SetupMasterKey
<1>7. /\ Grows /\ StoredRight' /\ Opens(d, Opened(rec))'
      /\ record' \in [1..MaxDb -> MasterKeyRecords \cup {None}]
  BY <1>1, <1>4, <1>5, <1>6, RecordChanges
<1>8. PICK st \in HolderIn : st = [proc[p] EXCEPT !.at = "unlocked"]
  BY <1>2 DEF HolderIn, Keepers, Early, Late
<1>9. /\ st.at = "unlocked" /\ st.key = p /\ st.saw = None /\ ~st.claimed /\ st.db = d
      /\ st.crossed = proc[p].crossed
  BY <1>2, <1>3, <1>8 DEF HolderIn
<1>10. proc'[p] = st /\ proc' = [proc EXCEPT ![p] = st] /\ \A q \in Procs : q # p => proc'[q] = proc[q]
  BY <1>1, <1>8 DEF SetupMasterKey, Proceed
<1>11. st \in ProcIn
  BY DEF ProcIn
<1>12. BootType'
  BY <1>1, <1>7, <1>10, <1>11 DEF BInv, BootType
<1>13. Steady
  BY <1>1, <1>7, <1>9, <1>10 DEF Steady, Grows
<1>14. ASSUME NEW q \in Procs, q # p PROVE Sound(q)'
  BY <1>1, <1>10, <1>13, <1>14, RestingStays
<1>15. Sound(p)'
  <2>1. Opens(d, p)'
    BY <1>5, <1>7
  <2>2. KeyRight(p, st)'
    BY <1>1, <1>2, <1>3, <1>9, <2>1 DEF KeyRight
  <2>3. SawRight(p, st)'
    BY <1>9 DEF SawRight, Early, Late
  <2> QED
    BY <1>10, <2>2, <2>3 DEF Sound
<1> QED
  BY <1>7, <1>12, <1>14, <1>15 DEF BInv

LEMMA SpawnKeeps ==
  ASSUME BInv, NEW p \in Procs, NEW child \in Procs, SpawnDetached(p, child)
  PROVE  BInv'
<1>1. /\ proc[p].at = "unlocked" /\ proc[child].at = "new" /\ proc \in [Procs -> ProcIn]
      /\ UNCHANGED <<pidfile, db, record, secrets, caFiles>>
  BY DEF SpawnDetached, At, shared, BInv, BootType
<1>2. p # child
  BY <1>1
<1>3. proc[p] \in HolderIn /\ Sound(p)
  BY <1>1, PlaceTells DEF BInv, Keepers, Early, Late
<1>4. PICK st \in HolderIn : st = [proc[p] EXCEPT !.at = "piped"]
  BY <1>3 DEF HolderIn, Keepers, Early, Late
<1>5. /\ st.at = "piped" /\ st.saw = proc[p].saw /\ st.claimed = proc[p].claimed
      /\ st.db = proc[p].db /\ st.key = proc[p].key /\ st.crossed = proc[p].crossed
  BY <1>3, <1>4 DEF HolderIn
<1>6. /\ proc'[p] = Gone /\ proc'[child] = st
      /\ \A q \in Procs : q # p /\ q # child => proc'[q] = proc[q]
  BY <1>1, <1>2, <1>4 DEF SpawnDetached
<1>7. proc' \in [Procs -> ProcIn]
  <2>1. DOMAIN proc' = Procs /\ proc' = [q \in Procs |-> proc'[q]]
    BY <1>1 DEF SpawnDetached
  <2>2. \A q \in Procs : proc'[q] \in ProcIn
    BY <1>1, <1>6, GoneIs DEF ProcIn
  <2> QED
    BY <2>1, <2>2
<1>8. BootType' /\ StoredRight'
  BY <1>1, <1>7 DEF BInv, BootType, StoredRight, Opens
<1>9. Steady
  BY <1>1, <1>5, <1>6, GoneIs DEF Steady, Opens
<1>10. ASSUME NEW q \in Procs, q # p, q # child PROVE Sound(q)'
  BY <1>1, <1>6, <1>9, <1>10, RestingStays
<1>11. Sound(p)'
  BY <1>6, GoneIs DEF Sound, KeyRight, SawRight, Keepers, Early, Late
<1>12. Sound(child)'
  <2>1. KeyRight(child, st)'
    BY <1>1, <1>3, <1>5 DEF Sound, KeyRight, Keepers, Early, Late, Opens
  <2>2. SawRight(child, st)'
    BY <1>1, <1>3, <1>5 DEF Sound, SawRight, Early, Late
  <2> QED
    BY <1>6, <2>1, <2>2 DEF Sound
<1> QED
  BY <1>8, <1>10, <1>11, <1>12 DEF BInv

LEMMA RunDetachedKeeps ==
  ASSUME BInv, NEW p \in Procs, RunDetachedChild(p)
  PROVE  BInv'
<1> DEFINE st == [proc[p] EXCEPT !.at = "ca", !.db = db]
<1>1. /\ proc[p].at = "piped" /\ UNCHANGED <<pidfile, db, record, secrets, caFiles>>
      /\ db \in 1..MaxDb /\ pidfile \in Seen /\ proc \in [Procs -> ProcIn]
  BY DEF RunDetachedChild, At, shared, BInv, BootType
<1>2. proc[p] \in HolderIn /\ Sound(p)
  BY <1>1, PlaceTells DEF BInv, Keepers, Early, Late
<1>3. proc' = [proc EXCEPT ![p] = st]
  BY <1>1, <1>2 DEF RunDetachedChild
<1>4. /\ st \in HolderIn /\ st.at = "ca" /\ st.saw = proc[p].saw /\ st.claimed = proc[p].claimed
      /\ st.db = db /\ st.key = proc[p].key /\ st.crossed = proc[p].crossed
  BY <1>1, <1>2 DEF HolderIn, Keepers, Early, Late
<1> HIDE DEF st
<1>5. st \in ProcIn /\ st.at # "new"
  BY <1>4 DEF ProcIn
<1>6. KeyRight(p, st)
  BY <1>1, <1>2, <1>4 DEF Sound, KeyRight, Keepers, Early, Late
<1>7. SawRight(p, st)
  BY <1>1, <1>2, <1>4 DEF Sound, SawRight, Early, Late
<1> QED
  BY <1>1, <1>3, <1>5, <1>6, <1>7, OnlyMoves

(* Whoever holds a key keeps it while it goes from one place to the next.  *)
LEMMA HolderGoes ==
  ASSUME BInv, NEW p \in Procs, NEW at \in Keepers \ {"setup"},
         proc[p].at \in Keepers \ {"setup"},
         NEW st, st = [proc[p] EXCEPT !.at = at]
  PROVE  /\ st \in HolderIn /\ st \in ProcIn /\ st.at = at /\ st.saw = proc[p].saw
         /\ st.claimed = proc[p].claimed /\ st.db = proc[p].db /\ st.key = proc[p].key
         /\ st.crossed = proc[p].crossed /\ proc[p] \in HolderIn
         /\ proc[p].crossed \/ (proc[p].db = db /\ Opens(db, proc[p].key))
         /\ KeyRight(p, st) /\ st.at # "new" /\ proc[p].at # "gone"
<1>1. proc[p] \in HolderIn /\ Sound(p)
  BY PlaceTells DEF BInv, BootType
<1>2. /\ st \in HolderIn /\ st.at = at /\ st.saw = proc[p].saw
      /\ st.claimed = proc[p].claimed /\ st.db = proc[p].db /\ st.key = proc[p].key
      /\ st.crossed = proc[p].crossed
  BY <1>1 DEF HolderIn
<1>3. proc[p].crossed \/ (proc[p].db = db /\ Opens(db, proc[p].key))
  BY <1>1 DEF Sound, KeyRight
<1>4. KeyRight(p, st)
  BY <1>1, <1>2 DEF Sound, KeyRight, Keepers, Early, Late
<1> QED
  BY <1>1, <1>2, <1>3, <1>4 DEF ProcIn, Keepers, Early, Late

LEMMA EarlyStepKeeps ==
  ASSUME BInv, NEW p \in Procs, Foreground(p) \/ StatCA(p) \/ (\E n \in Ports : Listen(p, n))
  PROVE  BInv'
<1>1. /\ UNCHANGED <<pidfile, db, record, secrets, caFiles>> /\ pidfile \in Seen
      /\ proc[p].at \in {"unlocked", "ca", "bind"} /\ Sound(p)
  BY DEF Foreground, StatCA, Listen, shared, At, BInv, BootType
<1>2. PICK at \in {"ca", "cert", "bind", "bound"} : proc' = [proc EXCEPT ![p] = [proc[p] EXCEPT !.at = at]]
  BY DEF Foreground, StatCA, Listen, Proceed
<1>3. PICK st : st = [proc[p] EXCEPT !.at = at]
  OBVIOUS
<1>4. at \in Keepers \ {"setup"} /\ proc[p].at \in Keepers \ {"setup"}
  BY <1>1 DEF Keepers, Early, Late
<1>5. /\ st \in ProcIn /\ st.at = at /\ st.saw = proc[p].saw /\ st.claimed = proc[p].claimed
      /\ KeyRight(p, st) /\ st.at # "new" /\ proc[p].at # "gone"
  BY <1>3, <1>4, HolderGoes
<1>6. SawRight(p, st)
  BY <1>1, <1>5 DEF Sound, SawRight, Early, Late
<1> QED
  BY <1>1, <1>2, <1>3, <1>5, <1>6, OnlyMoves

(* The files of the root: the key is encrypted under a key that opens.     *)
LEMMA RootFilesKeep ==
  ASSUME BInv, NEW p \in Procs, WriteRootCert(p) \/ WriteRootKey(p)
  PROVE  BInv'
<1>1. /\ UNCHANGED <<pidfile, db, record, secrets>> /\ pidfile \in Seen
      /\ proc[p].at \in {"cert", "key"} /\ Sound(p) /\ caFiles \in FilesIn /\ StoredRight
      /\ record' \in [1..MaxDb -> MasterKeyRecords \cup {None}]
      /\ secrets' \in [1..MaxDb -> SUBSET [key : Procs, crossed : BOOLEAN]]
  BY DEF WriteRootCert, WriteRootKey, At, BInv, BootType
<1>2. PICK at \in {"key", "bind"} : proc' = [proc EXCEPT ![p] = [proc[p] EXCEPT !.at = at]]
  BY DEF WriteRootCert, WriteRootKey, Proceed
<1>3. PICK st : st = [proc[p] EXCEPT !.at = at]
  OBVIOUS
<1>4. at \in Keepers \ {"setup"} /\ proc[p].at \in Keepers \ {"setup"}
  BY <1>1 DEF Keepers, Early, Late
<1>5. /\ st \in ProcIn /\ st.at = at /\ st.saw = proc[p].saw /\ st.claimed = proc[p].claimed
      /\ KeyRight(p, st) /\ st.at # "new" /\ proc[p].at # "gone" /\ proc[p] \in HolderIn
      /\ proc[p].crossed \/ (proc[p].db = db /\ Opens(db, proc[p].key))
  BY <1>3, <1>4, HolderGoes
<1>6. SawRight(p, st)
  BY <1>1, <1>5 DEF Sound, SawRight, Early, Late
<1>7. Grows
  BY <1>1 DEF Grows, Opens
<1>8. caFiles' \in FilesIn /\ (caFiles'.key # None => caFiles'.key.crossed \/ Opens(db, caFiles'.key.key))
  <2>1. CASE WriteRootCert(p)
    <3>1. caFiles' \in FilesIn /\ caFiles'.key = caFiles.key
      BY <1>1, <2>1 DEF WriteRootCert, FilesIn, Seen
    <3> QED
      BY <1>1, <3>1 DEF StoredRight
  <2>2. CASE WriteRootKey(p)
    <3> DEFINE file == [of |-> p, key |-> proc[p].key, crossed |-> proc[p].crossed]
    <3>1. file \in [of : Procs, key : Procs, crossed : BOOLEAN]
      BY <1>5 DEF HolderIn
    <3>2. caFiles' = [caFiles EXCEPT !.key = file]
      BY <2>2 DEF WriteRootKey
    <3>3. file.key = proc[p].key /\ file.crossed = proc[p].crossed
      OBVIOUS
    <3> HIDE DEF file
    <3>4. caFiles' \in FilesIn /\ caFiles'.key = file
      BY <1>1, <3>1, <3>2 DEF FilesIn
    <3> QED
      BY <1>5, <3>3, <3>4
  <2> QED
    BY <2>1, <2>2
<1>9. StoredRight'
  <2>1. (caFiles.key # None => caFiles.key.crossed \/ Opens(db, caFiles.key.key))'
    BY <1>1, <1>8 DEF Opens
  <2> QED
    BY <1>1, <2>1 DEF StoredRight, Opens
<1> QED
  BY <1>1, <1>2, <1>3, <1>5, <1>6, <1>7, <1>8, <1>9, OneMoves

(* The pid file is looked at, and written by the one who found it free.    *)
LEMMA WriteIfFreeKeeps ==
  ASSUME BInv, NEW p \in Procs, WriteIfFree(p)
  PROVE  BInv'
<1> DEFINE at == IF RunningOther(p) THEN "serving" ELSE "claim"
           look == Looks("claim").saw
           st == [proc[p] EXCEPT !.at = at, !.saw = look]
<1>1. /\ UNCHANGED <<pidfile, db, record, secrets, caFiles>> /\ pidfile \in Seen
      /\ proc[p].at = "bound" /\ Sound(p) /\ proc \in [Procs -> ProcIn] /\ proc[p] \in HolderIn
  BY PlaceTells DEF WriteIfFree, shared, At, BInv, BootType, Keepers, Early, Late
<1>2. proc' = [proc EXCEPT ![p] = st]
  BY <1>1 DEF WriteIfFree
<1>3. look \in Seen /\ (~RunningOther(p) => look \in {None, p})
  BY LooksIs DEF RunningOther
<1>4. at \in {"claim", "serving"} /\ (at = "claim" => ~RunningOther(p))
  OBVIOUS
<1> HIDE DEF at, look
<1>5. /\ st \in HolderIn /\ st.at = at /\ st.saw = look /\ st.claimed = proc[p].claimed
      /\ st.db = proc[p].db /\ st.key = proc[p].key /\ st.crossed = proc[p].crossed
  BY <1>1, <1>3, <1>4 DEF HolderIn, Keepers, Early, Late
<1> HIDE DEF st
<1>6. KeyRight(p, st)
  BY <1>1, <1>4, <1>5 DEF Sound, KeyRight, Keepers, Early, Late
<1>7. SawRight(p, st)
  BY <1>1, <1>3, <1>4, <1>5 DEF Sound, SawRight, Early, Late
<1>8. st \in ProcIn /\ st.at # "new" /\ proc[p].at # "gone"
  BY <1>1, <1>4, <1>5 DEF ProcIn
<1> QED
  BY <1>1, <1>2, <1>6, <1>7, <1>8, OnlyMoves

LEMMA WritePidfileKeeps ==
  ASSUME BInv, NEW p \in Procs, WritePidfile(p)
  PROVE  BInv'
<1> DEFINE st == [proc[p] EXCEPT !.at = "serving", !.claimed = TRUE]
<1>1. /\ UNCHANGED <<db, record, secrets, caFiles>> /\ pidfile' \in Seen
      /\ proc[p].at = "claim" /\ Sound(p) /\ proc \in [Procs -> ProcIn] /\ proc[p] \in HolderIn
  BY PlaceTells DEF WritePidfile, At, BInv, BootType, Keepers, Early, Late, Seen
<1>2. proc' = [proc EXCEPT ![p] = st]
  BY <1>1 DEF WritePidfile
<1>3. /\ st \in HolderIn /\ st.at = "serving" /\ st.saw = proc[p].saw /\ st.claimed
      /\ st.db = proc[p].db /\ st.key = proc[p].key /\ st.crossed = proc[p].crossed
  BY <1>1 DEF HolderIn, Keepers, Early, Late
<1> HIDE DEF st
<1>4. KeyRight(p, st) /\ SawRight(p, st)
  BY <1>1, <1>3 DEF Sound, KeyRight, SawRight, Keepers, Early, Late
<1>5. st \in ProcIn /\ st.at # "new" /\ proc[p].at # "gone"
  BY <1>1, <1>3 DEF ProcIn
<1> QED
  BY <1>1, <1>2, <1>4, <1>5, OnlyMoves

LEMMA StoreSecretKeeps ==
  ASSUME BInv, NEW p \in Procs, StoreSecret(p)
  PROVE  BInv'
<1>1. /\ UNCHANGED <<pidfile, db, record, caFiles, proc>>
      /\ proc[p].at \in {"bound", "claim", "serving"}
      /\ secrets \in [1..MaxDb -> SUBSET [key : Procs, crossed : BOOLEAN]]
  BY DEF StoreSecret, Serves, BInv, BootType
<1>2. proc[p] \in HolderIn /\ (proc[p].crossed \/ Opens(proc[p].db, proc[p].key))
  BY <1>1, PlaceTells DEF BInv, BootType, Sound, KeyRight, Keepers, Early, Late
<1>3. PICK d \in 1..MaxDb : d = proc[p].db
  BY <1>2 DEF HolderIn
<1>4. PICK s \in [key : Procs, crossed : BOOLEAN] :
        s = [key |-> proc[p].key, crossed |-> proc[p].crossed]
  BY <1>2 DEF HolderIn
<1>5. s.crossed \/ Opens(d, s.key)
  BY <1>2, <1>3, <1>4
<1>6. secrets' = [secrets EXCEPT ![d] = secrets[d] \cup {s}]
  BY <1>3, <1>4 DEF StoreSecret
<1>7. BootType'
  BY <1>1, <1>6 DEF BInv, BootType
<1>8. StoredRight'
  <2>1. \A e \in 1..MaxDb : \A t \in secrets'[e] : t.crossed \/ Opens(e, t.key)
    BY <1>1, <1>5, <1>6 DEF BInv, StoredRight
  <2> QED
    BY <1>1, <2>1 DEF BInv, StoredRight, Opens
<1>9. \A q \in Procs : Sound(q)'
  BY <1>1, RestingStays DEF BInv, Steady, Opens
<1> QED
  BY <1>7, <1>8, <1>9 DEF BInv

(* Those who end.                                                          *)
LEMMA EndKeeps ==
  ASSUME BInv, NEW p \in Procs, Crash(p) \/ RemovePidfile(p)
  PROVE  BInv'
<1>1. /\ UNCHANGED <<db, record, secrets, caFiles>> /\ pidfile' \in Seen
      /\ proc[p].at # "gone" /\ proc' = [proc EXCEPT ![p] = Gone]
  BY DEF Crash, RemovePidfile, At, Exit, Become, IsRunning, BInv, BootType, Seen
<1> QED
  BY <1>1, GoneIs, OnlyMoves

LEMMA ShutDownKeeps ==
  ASSUME BInv, NEW p \in Procs, ShutDown(p)
  PROVE  BInv'
<1>1. /\ UNCHANGED <<pidfile, db, record, secrets, caFiles>> /\ pidfile \in Seen
      /\ proc[p].at = "serving" /\ Sound(p)
  BY DEF ShutDown, At, BInv, BootType
<1>2. CASE proc[p].claimed
  <2>1. PICK st : st = [proc[p] EXCEPT !.at = "leaving"]
    OBVIOUS
  <2>2. proc' = [proc EXCEPT ![p] = st]
    BY <1>2, <2>1 DEF ShutDown, Proceed
  <2>3. "leaving" \in Keepers \ {"setup"} /\ proc[p].at \in Keepers \ {"setup"}
    BY <1>1 DEF Keepers, Early, Late
  <2>4. /\ st \in ProcIn /\ st.at = "leaving" /\ st.saw = proc[p].saw /\ st.claimed = proc[p].claimed
        /\ KeyRight(p, st) /\ st.at # "new" /\ proc[p].at # "gone"
    BY <2>1, <2>3, HolderGoes
  <2>5. SawRight(p, st)
    BY <1>1, <1>2, <2>4 DEF Sound, SawRight, Early, Late
  <2> QED
    BY <1>1, <2>2, <2>4, <2>5, OnlyMoves
<1>3. CASE ~proc[p].claimed
  <2>1. proc' = [proc EXCEPT ![p] = Gone] /\ proc[p].at # "gone"
    BY <1>1, <1>3 DEF ShutDown, Exit, Become
  <2> QED
    BY <1>1, <2>1, GoneIs, OnlyMoves
<1> QED
  BY <1>2, <1>3

LEMMA StopServerKeeps ==
  ASSUME BInv, NEW p \in Procs, NEW goal \in {"stop", "reset"}, StopServer(p, goal)
  PROVE  BInv'
<1> DEFINE look == Looks("waiting")
<1>1. /\ UNCHANGED <<pidfile, db, record, secrets, caFiles>> /\ pidfile \in Seen
      /\ proc[p].at # "gone"
  BY DEF StopServer, shared, At, BInv, BootType
<1>2. /\ look.at = "waiting" /\ look = [at |-> look.at, saw |-> look.saw] /\ look.saw \in Seen
      /\ look.saw # None => look.saw \in Procs /\ IsRunning(look.saw)
      /\ pidfile = None => look.saw = None
  BY LooksIs DEF Looks
<1>3. AfterStop[goal] \in {"gone", "wipe"}
  BY DEF AfterStop, Gone
<1>4. CASE pidfile = None
  <2> DEFINE st == [look EXCEPT !.at = AfterStop[goal]]
  <2>1. proc' = [proc EXCEPT ![p] = st]
    BY <1>4 DEF StopServer, Become
  <2> HIDE DEF look
  <2>2. st \in LookIn /\ st.at = AfterStop[goal] /\ st.saw = None
    BY <1>2, <1>3, <1>4 DEF LookIn
  <2> HIDE DEF st
  <2>3. st \in ProcIn /\ st.at # "new" /\ KeyRight(p, st) /\ SawRight(p, st)
    BY <1>3, <2>2 DEF ProcIn, KeyRight, SawRight, Keepers, Early, Late
  <2> QED
    BY <1>1, <2>1, <2>3, OnlyMoves
<1>5. CASE pidfile # None
  <2> DEFINE st == [at |-> IF look.saw = None THEN "cleanup" ELSE "waiting",
                    saw |-> look.saw, goal |-> goal]
  <2>1. proc' = [proc EXCEPT ![p] = st]
    BY <1>5 DEF StopServer, Become
  <2> HIDE DEF look
  <2>2. /\ st \in StopIn /\ st.saw = look.saw
        /\ st.at = (IF look.saw = None THEN "cleanup" ELSE "waiting")
    BY <1>2 DEF StopIn
  <2> HIDE DEF st
  <2>3. st \in ProcIn /\ st.at # "new" /\ KeyRight(p, st)
    BY <2>2 DEF ProcIn, KeyRight, Keepers, Early, Late
  <2>4. SawRight(p, st)
    BY <1>2, <2>2 DEF SawRight, IsRunning, Early, Late
  <2> QED
    BY <1>1, <2>1, <2>3, <2>4, OnlyMoves
<1> QED
  BY <1>4, <1>5

LEMMA AfterStopKeeps ==
  ASSUME BInv, NEW p \in Procs, TargetGone(p) \/ RemoveAfterStop(p)
  PROVE  BInv'
<1>1. /\ UNCHANGED <<db, record, secrets, caFiles>> /\ pidfile' \in Seen
      /\ proc[p].at \in {"waiting", "cleanup"} /\ proc[p] \in StopIn /\ Sound(p)
  BY PlaceTells DEF TargetGone, RemoveAfterStop, shared, At, BInv, BootType, Seen
<1>2. AfterStop[proc[p].goal] \in {"gone", "wipe"}
  BY <1>1 DEF AfterStop, Gone, StopIn
<1>3. PICK at \in {"cleanup", "gone", "wipe"} :
        proc' = [proc EXCEPT ![p] = [proc[p] EXCEPT !.at = at]]
  BY <1>2 DEF TargetGone, RemoveAfterStop, Proceed
<1>4. PICK st : st = [proc[p] EXCEPT !.at = at]
  OBVIOUS
<1>5. st \in StopIn /\ st.at = at /\ st.saw = proc[p].saw
  BY <1>1, <1>4 DEF StopIn
<1>6. st.saw = None \/ proc[st.saw].at = "gone"
  BY <1>1, <1>5 DEF TargetGone, RemoveAfterStop, At, IsRunning, Sound, SawRight
<1>7. st \in ProcIn /\ st.at # "new" /\ KeyRight(p, st) /\ SawRight(p, st)
  BY <1>5, <1>6 DEF ProcIn, KeyRight, SawRight, Keepers, Early, Late
<1> QED
  BY <1>1, <1>3, <1>4, <1>7, OnlyMoves

(* A reset: the database is another, and whoever held a key of the old one *)
(* is marked.                                                              *)
LEMMA WipeKeeps ==
  ASSUME BInv, NEW p \in Procs, Wipe(p)
  PROVE  BInv'
<1> DEFINE Marked(st) == IF "crossed" \in DOMAIN st THEN [st EXCEPT !.crossed = TRUE] ELSE st
<1>1. /\ UNCHANGED <<record, secrets>> /\ pidfile' = None /\ caFiles' = NoFiles /\ db' = db + 1
      /\ db < MaxDb /\ db \in 1..MaxDb /\ proc \in [Procs -> ProcIn] /\ StoredRight
  BY DEF Wipe, BInv, BootType
<1>2. proc' = [q \in Procs |-> IF q = p THEN Gone ELSE Marked(proc[q])] /\ proc[p].at = "wipe"
  BY DEF Wipe, At
<1>3. ASSUME NEW q \in Procs
      PROVE  /\ Marked(proc[q]) \in ProcIn /\ Marked(proc[q]).at = proc[q].at
             /\ proc[q].at \in Keepers => /\ Marked(proc[q]) \in HolderIn /\ Marked(proc[q]).crossed
                                          /\ Marked(proc[q]).saw = proc[q].saw
                                          /\ Marked(proc[q]).claimed = proc[q].claimed
                                          /\ Marked(proc[q]).key = proc[q].key
             /\ proc[q].at \notin Keepers => Marked(proc[q]) = proc[q]
  <2>1. proc[q] \in ProcIn
    BY <1>1
  <2>2. CASE proc[q] \in HolderIn
    BY <2>2 DEF HolderIn, ProcIn
  <2>3. CASE proc[q] \notin HolderIn
    BY <2>1, <2>3, PlaceTells
  <2> QED
    BY <2>2, <2>3
<1> HIDE DEF Marked
<1>4. proc' \in [Procs -> ProcIn]
  BY <1>2, <1>3, GoneIs
<1>5. db' \in 1..MaxDb
  BY <1>1, ProcsAssumption
<1>6. NoFiles \in FilesIn /\ NoFiles.key = None
  BY DEF NoFiles, FilesIn, Seen
<1>7. BootType'
  BY <1>1, <1>4, <1>5, <1>6 DEF BInv, BootType, Seen
<1>8. StoredRight'
  BY <1>1, <1>6 DEF StoredRight, Opens
<1>9. \A q \in Procs : proc[q].at = "gone" => proc'[q].at = "gone"
  BY <1>2, <1>3
<1>10. \A q \in Procs : proc[q].at # "new" => proc'[q].at # "new"
  BY <1>2, <1>3, GoneIs
<1>11. ASSUME NEW q \in Procs PROVE Sound(q)'
  <2>1. CASE q = p
    BY <1>2, <2>1, GoneIs DEF Sound, KeyRight, SawRight, Keepers, Early, Late
  <2>2. CASE q # p /\ proc[q].at \in Keepers
    <3>1. PICK st \in HolderIn : st = Marked(proc[q])
      BY <1>3, <2>2
    <3>2. /\ st.at = proc[q].at /\ st.crossed /\ st.saw = proc[q].saw /\ proc'[q] = st
          /\ st.claimed = proc[q].claimed /\ st.key = proc[q].key
      BY <1>2, <1>3, <2>2, <3>1
    <3>3. Sound(q)
      BY DEF BInv
    <3>4. KeyRight(q, st)'
      BY <2>2, <3>2, <3>3 DEF Sound, KeyRight, Keepers, Early, Late
    <3>5. SawRight(q, st)'
      BY <2>2, <3>2, <3>3 DEF Sound, SawRight, Keepers, Early, Late
    <3> QED
      BY <3>2, <3>4, <3>5 DEF Sound
  <2>3. CASE q # p /\ proc[q].at \notin Keepers
    <3>1. proc'[q] = proc[q] /\ Sound(q) /\ proc[q] \in ProcIn
      BY <1>1, <1>2, <1>3, <2>3 DEF BInv
    <3>2. KeyRight(q, proc[q])'
      BY <1>1, <2>3, <3>1 DEF Sound, KeyRight, Opens
    <3>3. SawRight(q, proc[q])'
      <4>1. proc[q].at \in {"cleanup", "wipe"} => proc[q].saw \in Seen
        BY <3>1, PlaceTells DEF LookIn, StopIn
      <4> QED
        BY <1>9, <1>10, <2>3, <3>1, <4>1 DEF Sound, SawRight, Seen, Keepers
    <3> QED
      BY <3>1, <3>2, <3>3 DEF Sound
  <2> QED
    BY <2>1, <2>2, <2>3
<1> QED
  BY <1>7, <1>8, <1>11 DEF BInv

(* master-password.                                                        *)
LEMMA LookKeeps ==
  ASSUME BInv, NEW p \in Procs, EnsureServerStopped(p)
  PROVE  BInv'
<1>1. /\ UNCHANGED <<pidfile, db, record, secrets, caFiles>> /\ pidfile \in Seen
      /\ proc[p].at # "gone" /\ proc' = [proc EXCEPT ![p] = Looks("reading")]
  BY DEF EnsureServerStopped, Become, shared, At, BInv, BootType
<1>2. Looks("reading") \in ProcIn /\ Looks("reading").at = "reading"
  BY LooksIs DEF ProcIn, LookIn
<1>3. KeyRight(p, Looks("reading")) /\ SawRight(p, Looks("reading"))
  BY <1>2 DEF KeyRight, SawRight, Keepers, Early, Late
<1> QED
  BY <1>1, <1>2, <1>3, OnlyMoves

LEMMA ReadRecordKeeps ==
  ASSUME BInv, NEW p \in Procs, ReadRecord(p)
  PROVE  BInv'
<1> DEFINE st == [at |-> "prompt", saw |-> proc[p].saw, db |-> db, read |-> record[db]]
<1>1. /\ UNCHANGED <<pidfile, db, record, secrets, caFiles>> /\ pidfile \in Seen
      /\ proc[p].at = "reading" /\ proc' = [proc EXCEPT ![p] = st] /\ record[db] # None
      /\ db \in 1..MaxDb /\ record \in [1..MaxDb -> MasterKeyRecords \cup {None}]
  BY DEF ReadRecord, Become, shared, At, BInv, BootType
<1>2. proc[p].saw \in Seen
  BY <1>1, PlaceTells DEF BInv, BootType, LookIn
<1>3. Whole(record[db]) /\ record[db] \in MasterKeyRecords
  BY <1>1 DEF BInv, StoredRight
<1>4. st \in PromptIn
  BY <1>1, <1>2, <1>3 DEF PromptIn
<1>5. st.at = "prompt" /\ st.db = db /\ st.read = record[db]
  OBVIOUS
<1> HIDE DEF st
<1>6. KeyRight(p, st) /\ SawRight(p, st)
  BY <1>1, <1>3, <1>5 DEF KeyRight, SawRight, Opens, Keepers, Early, Late
<1>7. st \in ProcIn
  BY <1>4 DEF ProcIn
<1> QED
  BY <1>1, <1>5, <1>6, <1>7, OnlyMoves

LEMMA RewriteKeeps ==
  ASSUME BInv, NEW p \in Procs, UpdateMasterKeyRecord(p)
  PROVE  BInv'
<1>1. /\ UNCHANGED <<pidfile, db, secrets, caFiles>> /\ pidfile \in Seen
      /\ proc[p].at = "prompt" /\ proc' = [proc EXCEPT ![p] = Gone]
      /\ secrets \in [1..MaxDb -> SUBSET [key : Procs, crossed : BOOLEAN]] /\ caFiles \in FilesIn
  BY DEF UpdateMasterKeyRecord, Exit, Become, At, BInv, BootType
<1>2. proc[p] \in PromptIn /\ Whole(proc[p].read) /\ Opens(proc[p].db, Opened(proc[p].read))
  BY <1>1, PlaceTells DEF BInv, BootType, Sound, KeyRight
<1>3. PICK d \in 1..MaxDb : d = proc[p].db
  BY <1>2 DEF PromptIn
<1>4. PICK read \in MasterKeyRecords : read = proc[p].read
  BY <1>2 DEF PromptIn
<1>5. Opened(read) \in Procs
  BY <1>2, <1>4 DEF Whole, MasterKeyRecords
<1>6. PICK rec \in Rewritten(record[d], read, Opened(read)) : record' = [record EXCEPT ![d] = rec]
  BY <1>3, <1>4 DEF UpdateMasterKeyRecord
<1>7. rec \in MasterKeyRecords /\ Whole(rec) /\ Opened(rec) = Opened(read)
  <2>1. PICK key \in Procs : key = Opened(read) /\ key = read.sentinel /\ key # None
    BY <1>2, <1>4, <1>5, ProcsAssumption DEF Whole
  <2>2. \/ rec = [read EXCEPT !.plain = None, !.wrapped = key]
        \/ rec = [read EXCEPT !.wrapped = key] /\ read.wrapped # None
        \/ rec = [read EXCEPT !.plain = key, !.wrapped = None]
    BY <1>6, <2>1 DEF Rewritten
  <2>3. read.plain = None \/ read.wrapped = None
    BY <1>2, <1>4 DEF Whole, OneForm
  <2>4. /\ rec \in MasterKeyRecords /\ rec.sentinel = key
        /\ (rec.plain = None /\ rec.wrapped = key) \/ (rec.plain = key /\ rec.wrapped = None)
    BY <2>1, <2>2, <2>3 DEF MasterKeyRecords
  <2> QED
    BY <2>1, <2>4 DEF Whole, OneForm, Opened
<1>8. record[d] # None => Opened(record[d]) = Opened(rec)
  BY <1>2, <1>3, <1>4, <1>7 DEF Opens
<1>9. /\ Grows /\ StoredRight' /\ record' \in [1..MaxDb -> MasterKeyRecords \cup {None}]
  BY <1>1, <1>6, <1>7, <1>8, RecordChanges
<1> QED
  BY <1>1, <1>9, GoneIs, OneMoves

LEMMA BInvNext ==
  ASSUME BInv, [BootNext]_bootVars
  PROVE  BInv'
<1>1. CASE UNCHANGED bootVars
  BY <1>1, RestingStays DEF bootVars, BInv, BootType, StoredRight, Opens, Steady
<1>2. ASSUME NEW p \in Procs,
             \/ Preflight(p) \/ RemoveStale(p) \/ Unlock(p) \/ FirstTime(p) \/ SetupMasterKey(p)
             \/ (\E child \in Procs : SpawnDetached(p, child)) \/ RunDetachedChild(p)
      PROVE  BInv'
  BY <1>2, PreflightKeeps, RemoveStaleKeeps, UnlockKeeps, SetupKeeps, SpawnKeeps, RunDetachedKeeps
<1>3. ASSUME NEW p \in Procs,
             \/ Foreground(p) \/ StatCA(p) \/ WriteRootCert(p) \/ WriteRootKey(p)
             \/ (\E n \in Ports : Listen(p, n)) \/ WriteIfFree(p) \/ WritePidfile(p)
             \/ StoreSecret(p) \/ ShutDown(p) \/ RemovePidfile(p) \/ Crash(p)
      PROVE  BInv'
  BY <1>3, EarlyStepKeeps, RootFilesKeep, WriteIfFreeKeeps, WritePidfileKeeps, StoreSecretKeeps,
     ShutDownKeeps, EndKeeps
<1>4. ASSUME NEW p \in Procs,
             \/ (\E goal \in {"stop", "reset"} : StopServer(p, goal))
             \/ TargetGone(p) \/ RemoveAfterStop(p) \/ Wipe(p)
             \/ EnsureServerStopped(p) \/ ReadRecord(p) \/ UpdateMasterKeyRecord(p)
      PROVE  BInv'
  BY <1>4, StopServerKeeps, AfterStopKeeps, WipeKeeps, LookKeeps, ReadRecordKeeps, RewriteKeeps
<1> QED
  BY <1>1, <1>2, <1>3, <1>4 DEF BootNext

(* What is encrypted can be decrypted by the next start: every record is   *)
(* one form of one key, the rows of its database and the root key on disk  *)
(* are encrypted under that key, but for what a server caught by a reset   *)
(* wrote (cmd/server.go:379-400, sqlite.go:1109-1140).                     *)
THEOREM KeyNeverLostHolds == BootSpec => []KeyNeverLost
<1>1. BInv => KeyNeverLost
  BY DEF BInv, StoredRight, KeyNeverLost, Whole
<1> QED
  BY <1>1, BInvInit, BInvNext, PTL DEF BootSpec

(* The pid file of a running server is taken away only by itself, or by    *)
(* one who looked before it claimed the file (pidfile.go:44-58,            *)
(* helpers.go:682-714).                                                    *)
THEOREM LiveOwnerRespectedHolds == BootSpec => LiveOwnerRespected
<1> DEFINE Respected ==
      \A q \in Procs : pidfile = q /\ IsRunning(q) /\ pidfile' # q =>
        \E p \in Procs : proc'[p] # proc[p] /\ (p = q \/ proc[p].saw # q)
<1>1. ASSUME BInv, [BootNext]_bootVars PROVE Respected
  <2> SUFFICES ASSUME NEW q \in Procs, pidfile = q, IsRunning(q), pidfile' # q
               PROVE  \E p \in Procs : proc'[p] # proc[p] /\ (p = q \/ proc[p].saw # q)
    OBVIOUS
  <2>1. proc \in [Procs -> ProcIn] /\ q # None
    BY <1>1, ProcsAssumption DEF BInv, BootType
  <2>2. ASSUME NEW p \in Procs, RemoveStale(p)
        PROVE  proc'[p] # proc[p] /\ proc[p].saw # q
    <3>1. proc[p].saw = None /\ proc[p] \in LookIn
      BY <1>1, <2>1, <2>2, PlaceTells DEF RemoveStale, At, BInv, Sound, SawRight
    <3>2. proc'[p].at = "opening" /\ proc[p].at = "stale"
      BY <2>1, <2>2, <3>1 DEF RemoveStale, At, Proceed, LookIn
    <3> QED
      BY <2>1, <3>1, <3>2
  <2>3. ASSUME NEW p \in Procs, WritePidfile(p)
        PROVE  proc'[p] # proc[p] /\ proc[p].saw # q
    <3>1. proc[p].saw \in {None, p} /\ proc[p] \in HolderIn /\ p # q
      BY <1>1, <2>1, <2>3, PlaceTells
         DEF WritePidfile, At, BInv, Sound, SawRight, Keepers, Early, Late
    <3>2. proc'[p].at = "serving" /\ proc[p].at = "claim"
      BY <2>1, <2>3, <3>1 DEF WritePidfile, At, HolderIn
    <3> QED
      BY <2>1, <3>1, <3>2
  <2>4. ASSUME NEW p \in Procs, RemovePidfile(p)
        PROVE  proc'[p] # proc[p] /\ (p = q \/ proc[p].saw # q)
    <3>1. proc[p].saw \in {None, p}
      BY <1>1, <2>4 DEF RemovePidfile, At, BInv, Sound, SawRight, Early, Late
    <3>2. proc'[p] = Gone /\ proc[p].at = "leaving"
      BY <2>1, <2>4 DEF RemovePidfile, At, Exit, Become
    <3> QED
      BY <2>1, <3>1, <3>2, GoneIs
  <2>5. ASSUME NEW p \in Procs, RemoveAfterStop(p)
        PROVE  proc'[p] # proc[p] /\ proc[p].saw # q
    <3>1. proc[p] \in StopIn /\ (proc[p].saw = None \/ proc[proc[p].saw].at = "gone")
      BY <1>1, <2>1, <2>5, PlaceTells DEF RemoveAfterStop, At, BInv, Sound, SawRight
    <3>2. proc'[p].at \in {"gone", "wipe"} /\ proc[p].at = "cleanup"
      BY <2>1, <2>5, <3>1 DEF RemoveAfterStop, At, Proceed, AfterStop, Gone, StopIn
    <3> QED
      BY <2>1, <3>1, <3>2 DEF IsRunning
  <2>6. ASSUME NEW p \in Procs, Wipe(p)
        PROVE  proc'[p] # proc[p] /\ proc[p].saw # q
    <3>1. proc[p].saw = None \/ proc[proc[p].saw].at = "gone"
      BY <1>1, <2>6 DEF Wipe, At, BInv, Sound, SawRight
    <3>2. proc'[p] = Gone /\ proc[p].at = "wipe"
      BY <2>6 DEF Wipe, At
    <3> QED
      BY <2>1, <3>1, <3>2, GoneIs DEF IsRunning
  <2>7. \E p \in Procs :
          RemoveStale(p) \/ WritePidfile(p) \/ RemovePidfile(p) \/ RemoveAfterStop(p) \/ Wipe(p)
    BY <1>1 DEF BootNext, bootVars, shared, Preflight, Unlock, FirstTime, SetupMasterKey,
       SpawnDetached, RunDetachedChild, Foreground, StatCA, WriteRootCert, WriteRootKey, Listen,
       WriteIfFree, StoreSecret, ShutDown, Crash, StopServer, TargetGone, EnsureServerStopped,
       ReadRecord, UpdateMasterKeyRecord
  <2> QED
    BY <2>2, <2>3, <2>4, <2>5, <2>6, <2>7
<1>2. BInv /\ [BootNext]_bootVars => [Respected]_bootVars
  BY <1>1
<1> QED
  BY <1>2, BInvInit, BInvNext, PTL DEF BootSpec, LiveOwnerRespected

=============================================================================
