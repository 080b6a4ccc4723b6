------------------------------ MODULE LimitRegistry ------------------------------
(***************************************************************************)
(* Which limits are in force: the operator's environment, the owner's      *)
(* stored setting and the registry that enforces them                      *)
(* (internal/ratelimit/config.go, registry.go,                             *)
(* internal/server/ratelimit_settings.go).                                 *)
(*                                                                         *)
(* Three knobs stand for all: rate (a tier's limiter, changed in place),   *)
(* scope (the proxy's keyed semaphore, built late if need be) and global   *)
(* (the server-wide semaphore, rebuilt when its capacity changes).  0 is   *)
(* an unset knob, and a limiter that was never built.                      *)
(*                                                                         *)
(* A new scope limit is for keys that come new: the semaphore of a key     *)
(* keeps the capacity it was made with, until it is evicted (here, at any  *)
(* time; KeyedSemaphore says when).                                        *)
(*                                                                         *)
(* Registry.Reload stores the config before it takes the lock, and nothing *)
(* serialises two updates of the setting.                                  *)
(***************************************************************************)
EXTENDS Naturals

CONSTANTS
  Profiles,    \* without "off" and ""
  Baseline,    \* DefaultsFor: profile -> limits
  Envs,        \* environments the operator starts the server with
  Payloads,    \* settings that owners send
  MinGlobal,   \* minGlobalInflight
  Updaters,    \* requests that change the setting
  ScopeKeys,   \* actor and vault, of a proxied request
  NoSetting

Knobs == {"rate", "scope", "global"}
Limits == [Knobs -> Nat]
EnvType == [profile : Profiles \cup {"off"}, locked : BOOLEAN, knobs : Limits]
PayloadType == [profile : Profiles \cup {"off", ""}, overrides : Limits]

ASSUME ProfilesType == "off" \notin Profiles /\ "" \notin Profiles /\ "default" \in Profiles
ASSUME BaselineType == Baseline \in [Profiles -> [Knobs -> Nat \ {0}]]
ASSUME BaselineFloor == MinGlobal \in Nat /\ \A p \in Profiles : Baseline[p]["global"] >= MinGlobal
ASSUME EnvsType == Envs \subseteq EnvType /\ Envs # {}
ASSUME PayloadsType == Payloads \subseteq PayloadType /\ NoSetting \notin Payloads

VARIABLES
  env,         \* of the running process
  setting,     \* settings[ratelimit_config]
  cfg,         \* Registry.cfg
  limiters,    \* the limits that the limiters enforce, scope for new keys
  scopes,      \* what the semaphores of the keys in the map were made with
  stage,       \* of each worker
  payload,     \* of each worker's request
  new,         \* the config it resolved
  old,         \* the config it found in the registry
  raced,       \* history: the requests that met another one
  overlapped,  \* history: two updates ran at once since the start
  savedOff     \* history: a setting was stored while started with profile off

inFlight == <<payload, new, old>>
history == <<raced, overlapped, savedOff>>
registryVars == <<env, setting, cfg, limiters, scopes, stage, inFlight, history>>

Off == [off |-> TRUE, locked |-> FALSE, limits |-> [k \in Knobs |-> 0]]

(* ApplyOverrides, and the env knobs of LoadFromEnv: 0 inherits. *)
Over(limits, overrides) ==
  [k \in Knobs |-> IF overrides[k] # 0 THEN overrides[k] ELSE limits[k]]

DefaultsFor(profile) ==
  IF profile = "off" THEN Off
  ELSE [off |-> FALSE, locked |-> FALSE, limits |-> Baseline[profile]]

(* LoadFromEnv: the knobs are not read when the profile is off. *)
EnvKnobs(e) == IF e.profile = "off" THEN [k \in Knobs |-> 0] ELSE e.knobs

LoadFromEnv(e) ==
  [DefaultsFor(e.profile) EXCEPT !.locked = e.locked, !.limits = Over(@, EnvKnobs(e))]

(* The payload's profile, the env knobs again, and the overrides over both. *)
ApplyPayload(e, p) ==
  LET base == IF p.profile = "" THEN LoadFromEnv(e)
              ELSE [DefaultsFor(p.profile) EXCEPT !.locked = e.locked,
                                                  !.limits = Over(@, EnvKnobs(e))]
  IN [base EXCEPT !.limits = Over(@, p.overrides)]

(* resolveRateLimitConfig *)
Effective(e, s) ==
  IF e.locked \/ s = NoSetting THEN LoadFromEnv(e) ELSE ApplyPayload(e, s)

Validate(c) == c.off \/ c.limits["global"] >= MinGlobal

(* build leaves everything nil when off; newSemaphore makes room for one at
   least. *)
Build(c) == IF c.off THEN Off.limits ELSE c.limits

ReconfiguredTakesZero(l, was, c) ==
  [k \in Knobs |->
     CASE k = "rate" -> IF l[k] # 0 THEN c.limits[k] ELSE l[k]
       [] k = "scope" -> IF c.limits[k] # 0 THEN c.limits[k] ELSE l[k]
       [] k = "global" -> IF c.limits[k] = was.limits[k] THEN l[k]
                          ELSE IF c.limits[k] = 0 THEN 1 ELSE c.limits[k]]

(* Reload's locked section.  A limiter that was never built stays so, except
   the keyed semaphore; unset values are ignored, except by the global one. *)
Reconfigured(l, was, c) ==
  [k \in Knobs |->
     CASE k = "rate" -> IF l[k] # 0 /\ c.limits[k] # 0 THEN c.limits[k] ELSE l[k]
       [] k = "scope" -> IF c.limits[k] # 0 THEN c.limits[k] ELSE l[k]
       [] k = "global" -> IF c.limits[k] = was.limits[k] THEN l[k]
                          ELSE IF c.limits[k] = 0 THEN 1 ELSE c.limits[k]]

(* Start: New with the environment, then a reload with the stored setting. *)
Boot(e, s) ==
  /\ env = e
  /\ setting = s
  /\ cfg = Effective(e, s)
  /\ limiters = Reconfigured(Build(LoadFromEnv(e)), LoadFromEnv(e), Effective(e, s))
  /\ scopes = <<>>

RegistryInit ==
  /\ \E e \in Envs : Boot(e, NoSetting)
  /\ stage = [w \in Updaters |-> "idle"]
  /\ payload = [w \in Updaters |-> NoSetting]
  /\ new = [w \in Updaters |-> Off]
  /\ old = [w \in Updaters |-> Off]
  /\ raced = {}
  /\ overlapped = FALSE
  /\ savedOff = FALSE

--------------------------------------------------------------------------------
Enter(w, label) == stage' = [stage EXCEPT ![w] = label]

Busy == {w \in Updaters : stage[w] # "idle"}

Forget(w) ==
  /\ payload' = [payload EXCEPT ![w] = NoSetting]
  /\ new' = [new EXCEPT ![w] = Off]
  /\ old' = [old EXCEPT ![w] = Off]
  /\ raced' = raced \ {w}
  /\ UNCHANGED <<overlapped, savedOff>>

(* handleUpdateRateLimitSetting: not when locked, and only what validates in
   the environment of today. *)
Update(w, p) ==
  /\ stage[w] = "idle"
  /\ ~cfg.locked
  /\ Validate(ApplyPayload(env, p))
  /\ payload' = [payload EXCEPT ![w] = p]
  /\ Enter(w, "save")
  /\ raced' = IF Busy = {} THEN {} ELSE Busy \cup {w}
  /\ overlapped' = (overlapped \/ Busy # {})
  /\ UNCHANGED <<env, setting, cfg, limiters, scopes, new, old, savedOff>>

SetSetting(w) ==
  /\ stage[w] = "save"
  /\ setting' = payload[w]
  /\ savedOff' = (savedOff \/ LoadFromEnv(env).off)
  /\ Enter(w, "resolve")
  /\ UNCHANGED <<env, cfg, limiters, scopes, inFlight, raced, overlapped>>

(* applyRateLimitSettingToRegistry reads the setting again, *)
Resolve(w) ==
  /\ stage[w] = "resolve"
  /\ new' = [new EXCEPT ![w] = Effective(env, setting)]
  /\ Enter(w, "load")
  /\ UNCHANGED <<env, setting, cfg, limiters, scopes, payload, old, history>>

(* and reloads: the old config, the new one, and under the lock the limiters. *)
LoadConfig(w) ==
  /\ stage[w] = "load"
  /\ old' = [old EXCEPT ![w] = cfg]
  /\ Enter(w, "swap")
  /\ UNCHANGED <<env, setting, cfg, limiters, scopes, payload, new, history>>

StoreConfig(w) ==
  /\ stage[w] = "swap"
  /\ cfg' = new[w]
  /\ Enter(w, "reconfigure")
  /\ UNCHANGED <<env, setting, limiters, scopes, inFlight, history>>

ReloadKeepsGlobal(w) ==
  /\ stage[w] = "reconfigure"
  /\ limiters' = Reconfigured(limiters, new[w], new[w])
  /\ Enter(w, "reply")
  /\ UNCHANGED <<env, setting, cfg, scopes, inFlight, history>>

ReloadLimiters(w) ==
  /\ stage[w] = "reconfigure"
  /\ limiters' = Reconfigured(limiters, old[w], new[w])
  /\ Enter(w, "reply")
  /\ UNCHANGED <<env, setting, cfg, scopes, inFlight, history>>

Reply(w) ==
  /\ stage[w] = "reply"
  /\ Enter(w, "idle")
  /\ Forget(w)
  /\ UNCHANGED <<env, setting, cfg, limiters, scopes>>

(* The store fails to save or to read. *)
FailUpdate(w) ==
  /\ stage[w] \in {"save", "resolve"}
  /\ Enter(w, "idle")
  /\ Forget(w)
  /\ UNCHANGED <<env, setting, cfg, limiters, scopes>>

(* A proxied request with a key that is not in the map (acquireKeyed), *)
Acquire(k) ==
  /\ ~cfg.off /\ limiters["scope"] # 0
  /\ k \notin DOMAIN scopes
  /\ scopes' = [j \in DOMAIN scopes \cup {k} |-> IF j = k THEN limiters["scope"] ELSE scopes[j]]
  /\ UNCHANGED <<env, setting, cfg, limiters, stage, inFlight, history>>

(* and one that is evicted from it. *)
EvictKey(k) ==
  /\ k \in DOMAIN scopes
  /\ scopes' = [j \in DOMAIN scopes \ {k} |-> scopes[j]]
  /\ UNCHANGED <<env, setting, cfg, limiters, stage, inFlight, history>>

(* A stop or a crash, and a start in any environment.  A setting that cannot be
   read is no reason not to start: the registry stays as New built it. *)
Restart(e) ==
  /\ env' = e
  /\ UNCHANGED setting
  /\ \E s \in {setting, NoSetting} :
       /\ cfg' = Effective(e, s)
       /\ limiters' = Reconfigured(Build(LoadFromEnv(e)), LoadFromEnv(e), Effective(e, s))
  /\ stage' = [w \in Updaters |-> "idle"]
  /\ payload' = [w \in Updaters |-> NoSetting]
  /\ new' = [w \in Updaters |-> Off]
  /\ old' = [w \in Updaters |-> Off]
  /\ scopes' = <<>>
  /\ raced' = {}
  /\ overlapped' = FALSE
  /\ UNCHANGED savedOff

RegistryNext ==
  \/ \E w \in Updaters, p \in Payloads : Update(w, p)
  \/ \E w \in Updaters :
       \/ SetSetting(w)
       \/ Resolve(w)
       \/ LoadConfig(w)
       \/ StoreConfig(w)
       \/ ReloadLimiters(w)
       \/ Reply(w)
       \/ FailUpdate(w)
  \/ \E k \in ScopeKeys : Acquire(k) \/ EvictKey(k)
  \/ \E e \in Envs : Restart(e)

RegistrySpec == RegistryInit /\ [][RegistryNext]_registryVars

--------------------------------------------------------------------------------
ConfigType == [off : BOOLEAN, locked : BOOLEAN, limits : Limits]

(* Type invariant: a worker has a request iff it is busy. *)
RegistryTypeOK ==
  /\ env \in Envs
  /\ setting \in Payloads \cup {NoSetting}
  /\ cfg \in ConfigType
  /\ limiters \in Limits
  /\ DOMAIN scopes \subseteq ScopeKeys /\ \A k \in DOMAIN scopes : scopes[k] \in Nat \ {0}
  /\ stage \in [Updaters -> {"idle", "save", "resolve", "load", "swap", "reconfigure", "reply"}]
  /\ payload \in [Updaters -> Payloads \cup {NoSetting}]
  /\ new \in [Updaters -> ConfigType]
  /\ old \in [Updaters -> ConfigType]
  /\ \A w \in Updaters : stage[w] = "idle" <=> payload[w] = NoSetting
  /\ raced \subseteq Updaters /\ overlapped \in BOOLEAN /\ savedOff \in BOOLEAN

(* Whether requests are limited as c says.  The rate is not in a process that
   was started with the profile off; a global semaphore that an overlap left
   behind is not put right by a config with the same capacity. *)
InForce(c) ==
  /\ cfg = c
  /\ ~c.off => /\ limiters["scope"] = c.limits["scope"]
               /\ ~LoadFromEnv(env).off => limiters["rate"] = c.limits["rate"]
               /\ ~overlapped => limiters["global"] = c.limits["global"]

(* When an update that met no other one is answered, the setting that is stored
   is in force (handleUpdateRateLimitSetting): through restarts in other
   environments, failed updates, overlaps in the past, limits turned off and
   on. *)
UpdateInEffect ==
  \A w \in Updaters : stage[w] = "reply" /\ w \notin raced => InForce(Effective(env, setting))

(* Turning the limits off and on leaves no tier without its limiter, however
   updates overlap; but a process that was started off has none (registry.go:83). *)
LimitedUnlessStartedOff == ~cfg.off => (limiters["rate"] # 0 <=> ~LoadFromEnv(env).off)

(* AGENT_VAULT_RATELIMIT_LOCK pins the limits to the environment, also when a
   setting was stored before the lock. *)
LockPins ==
  env.locked => /\ cfg = LoadFromEnv(env)
                /\ ~cfg.off => limiters = cfg.limits

(* "Env vars can go below [the floors]; UI overrides cannot" (config.go): true
   of settings that were validated, which a process started off does not do. *)
FloorKept ==
  ~savedOff /\ ~cfg.off /\ Validate(LoadFromEnv(env)) => cfg.limits["global"] >= MinGlobal

(* The same of any setting. *)
FloorAlwaysKept ==
  ~cfg.off /\ Validate(LoadFromEnv(env)) => cfg.limits["global"] >= MinGlobal

(* "On success, the registry is reloaded", said of any update: also of the last
   to end of several. *)
LastUpdateInEffect ==
  \A w \in Updaters :
    stage[w] = "reply" /\ Busy = {w} => InForce(Effective(env, setting))

(* An update is in force for every key. *)
EveryKeyFollows ==
  \A w \in Updaters, k \in DOMAIN scopes :
    stage[w] = "reply" /\ w \notin raced /\ ~cfg.off => scopes[k] = cfg.limits["scope"]

(* A config that is not off is enforced by a limiter. *)
OnMeansLimited == ~cfg.off => limiters["rate"] # 0

(* "Env-set knobs always beat UI overrides." *)
EnvKnobWins ==
  \A k \in Knobs : ~cfg.off /\ EnvKnobs(env)[k] # 0 => cfg.limits[k] = env.knobs[k]

================================================================================
