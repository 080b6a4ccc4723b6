--------------------------- MODULE LimitRegistryProofs ---------------------------
(***************************************************************************)
(* Which of the limits an operator and an owner ask for are in force, for  *)
(* any profiles, environments and payloads, the profile off included.      *)
(***************************************************************************)
EXTENDS LimitRegistry, TLAPS

LEMMA KnobsAre == Knobs = {"rate", "scope", "global"}
BY DEF Knobs

LEMMA OverAt ==
  ASSUME NEW a, NEW b, NEW k \in Knobs
  PROVE  Over(a, b)[k] = IF b[k] # 0 THEN b[k] ELSE a[k]
BY DEF Over

(* Configs and limiters stay in their types. *)
LEMMA OverType ==
  ASSUME NEW a \in Limits, NEW b \in Limits
  PROVE  /\ Over(a, b) \in Limits
         /\ \A k \in Knobs : Over(a, b)[k] = IF b[k] # 0 THEN b[k] ELSE a[k]
BY DEF Over, Limits

LEMMA DefaultsType ==
  ASSUME NEW p \in Profiles \cup {"off"}
  PROVE  DefaultsFor(p) \in ConfigType
BY BaselineType DEF DefaultsFor, ConfigType, Limits, Off

LEMMA EnvKnobsType ==
  ASSUME NEW e \in EnvType
  PROVE  EnvKnobs(e) \in Limits
BY DEF EnvKnobs, EnvType, Limits

LEMMA EnvConfigType ==
  ASSUME NEW e \in EnvType
  PROVE  /\ LoadFromEnv(e) \in ConfigType
         /\ LoadFromEnv(e).locked = e.locked
         /\ LoadFromEnv(e).off = (e.profile = "off")
         /\ LoadFromEnv(e).limits = Over(DefaultsFor(e.profile).limits, EnvKnobs(e))
<1>1. DefaultsFor(e.profile) \in ConfigType
  BY DefaultsType DEF EnvType
<1>2. Over(DefaultsFor(e.profile).limits, EnvKnobs(e)) \in Limits
  BY <1>1, EnvKnobsType, OverType DEF ConfigType
<1>3. DefaultsFor(e.profile).off = (e.profile = "off")
  BY DEF DefaultsFor, Off
<1> QED
  BY <1>1, <1>2, <1>3 DEF LoadFromEnv, ConfigType, EnvType

LEMMA AppliedType ==
  ASSUME NEW e \in EnvType, NEW p \in PayloadType
  PROVE  /\ ApplyPayload(e, p) \in ConfigType
         /\ ApplyPayload(e, p).locked = e.locked
         /\ ApplyPayload(e, p).off = (p.profile = "off" \/ (p.profile = "" /\ e.profile = "off"))
         /\ ApplyPayload(e, p).limits =
              Over(IF p.profile = "" THEN LoadFromEnv(e).limits
                   ELSE Over(DefaultsFor(p.profile).limits, EnvKnobs(e)), p.overrides)
<1> DEFINE base == IF p.profile = "" THEN LoadFromEnv(e)
                   ELSE [DefaultsFor(p.profile) EXCEPT !.locked = e.locked,
                                                       !.limits = Over(@, EnvKnobs(e))]
<1>1. ASSUME p.profile # ""
      PROVE  /\ DefaultsFor(p.profile) \in ConfigType
             /\ Over(DefaultsFor(p.profile).limits, EnvKnobs(e)) \in Limits
             /\ DefaultsFor(p.profile).off = (p.profile = "off")
  <2>1. DefaultsFor(p.profile) \in ConfigType
    BY <1>1, DefaultsType DEF PayloadType
  <2>2. Over(DefaultsFor(p.profile).limits, EnvKnobs(e)) \in Limits
    BY <2>1, EnvKnobsType, OverType DEF ConfigType
  <2>3. DefaultsFor(p.profile).off = (p.profile = "off")
    BY DEF DefaultsFor, Off
  <2> QED
    BY <2>1, <2>2, <2>3
<1>2. /\ base \in ConfigType
      /\ base.locked = e.locked
      /\ base.off = (p.profile = "off" \/ (p.profile = "" /\ e.profile = "off"))
      /\ base.limits = IF p.profile = "" THEN LoadFromEnv(e).limits
                       ELSE Over(DefaultsFor(p.profile).limits, EnvKnobs(e))
  <2>1. CASE p.profile = ""
    BY <2>1, EnvConfigType
  <2>2. CASE p.profile # ""
    BY <2>2, <1>1 DEF ConfigType, EnvType
  <2> QED
    BY <2>1, <2>2
<1>3. Over(base.limits, p.overrides) \in Limits
  BY <1>2, OverType DEF ConfigType, PayloadType
<1>4. ApplyPayload(e, p) = [base EXCEPT !.limits = Over(@, p.overrides)]
  BY DEF ApplyPayload
<1> HIDE DEF base
<1> QED
  BY <1>2, <1>3, <1>4 DEF ConfigType

LEMMA AppliedAt ==
  ASSUME NEW e \in EnvType, NEW p \in PayloadType, NEW k \in Knobs
  PROVE  ApplyPayload(e, p).limits[k] =
           IF p.overrides[k] # 0 THEN p.overrides[k]
           ELSE IF p.profile = "" THEN LoadFromEnv(e).limits[k]
           ELSE Over(DefaultsFor(p.profile).limits, EnvKnobs(e))[k]
<1> DEFINE base == IF p.profile = "" THEN LoadFromEnv(e).limits
                   ELSE Over(DefaultsFor(p.profile).limits, EnvKnobs(e))
<1>1. ApplyPayload(e, p).limits = Over(base, p.overrides)
  BY AppliedType
<1>2. base[k] = IF p.profile = "" THEN LoadFromEnv(e).limits[k]
                ELSE Over(DefaultsFor(p.profile).limits, EnvKnobs(e))[k]
  OBVIOUS
<1> HIDE DEF base
<1>3. ApplyPayload(e, p).limits[k] = IF p.overrides[k] # 0 THEN p.overrides[k] ELSE base[k]
  BY <1>1, OverAt
<1> QED
  BY <1>2, <1>3

LEMMA EffectiveType ==
  ASSUME NEW e \in Envs, NEW s \in Payloads \cup {NoSetting}
  PROVE  /\ Effective(e, s) \in ConfigType
         /\ Effective(e, s).locked = e.locked
BY EnvConfigType, AppliedType, EnvsType, PayloadsType DEF Effective

LEMMA ReconfiguredType ==
  ASSUME NEW l \in Limits, NEW b \in ConfigType, NEW c \in ConfigType
  PROVE  /\ Reconfigured(l, b, c) \in Limits
         /\ Reconfigured(l, b, c)["rate"] =
              IF l["rate"] # 0 /\ c.limits["rate"] # 0 THEN c.limits["rate"] ELSE l["rate"]
         /\ Reconfigured(l, b, c)["scope"] =
              IF c.limits["scope"] # 0 THEN c.limits["scope"] ELSE l["scope"]
         /\ Reconfigured(l, b, c)["global"] =
              IF c.limits["global"] = b.limits["global"] THEN l["global"]
              ELSE IF c.limits["global"] = 0 THEN 1 ELSE c.limits["global"]
BY DEF Reconfigured, Knobs, Limits, ConfigType

LEMMA BuildType ==
  ASSUME NEW c \in ConfigType
  PROVE  Build(c) \in Limits
BY DEF Build, ConfigType, Off, Limits

(* Type correctness. *)
LEMMA TypeInit == RegistryInit => RegistryTypeOK
<1> SUFFICES ASSUME RegistryInit PROVE RegistryTypeOK
  OBVIOUS
<1>1. PICK e \in Envs : Boot(e, NoSetting)
  BY DEF RegistryInit
<1>2. Effective(e, NoSetting) \in ConfigType /\ LoadFromEnv(e) \in ConfigType
  BY EffectiveType, EnvConfigType, EnvsType
<1>3. Reconfigured(Build(LoadFromEnv(e)), LoadFromEnv(e), Effective(e, NoSetting)) \in Limits
  BY <1>2, BuildType, ReconfiguredType
<1>4. Off \in ConfigType
  BY DEF Off, ConfigType, Limits
<1>5. DOMAIN scopes = {}
  BY <1>1 DEF Boot
<1> QED
  BY <1>1, <1>2, <1>3, <1>4, <1>5 DEF Boot, RegistryInit, RegistryTypeOK

LEMMA TypeStep == RegistryTypeOK /\ [RegistryNext]_registryVars => RegistryTypeOK'
<1> SUFFICES ASSUME RegistryTypeOK, [RegistryNext]_registryVars PROVE RegistryTypeOK'
  OBVIOUS
<1> USE DEF RegistryTypeOK, Enter, inFlight, history
<1>0. Off \in ConfigType
  BY DEF Off, ConfigType, Limits
<1>1. ASSUME NEW w \in Updaters, NEW p \in Payloads, Update(w, p) PROVE RegistryTypeOK'
  BY <1>1, PayloadsType DEF Update, Busy
<1>2. ASSUME NEW w \in Updaters, SetSetting(w) PROVE RegistryTypeOK'
  BY <1>2 DEF SetSetting
<1>3. ASSUME NEW w \in Updaters, Resolve(w) PROVE RegistryTypeOK'
  <2>1. Effective(env, setting) \in ConfigType
    BY EffectiveType
  <2> QED
    BY <1>3, <2>1 DEF Resolve
<1>4. ASSUME NEW w \in Updaters, LoadConfig(w) PROVE RegistryTypeOK'
  BY <1>4 DEF LoadConfig
<1>5. ASSUME NEW w \in Updaters, StoreConfig(w) PROVE RegistryTypeOK'
  BY <1>5 DEF StoreConfig
<1>6. ASSUME NEW w \in Updaters, ReloadLimiters(w) PROVE RegistryTypeOK'
  <2>1. Reconfigured(limiters, old[w], new[w]) \in Limits
    BY ReconfiguredType
  <2> QED
    BY <1>6, <2>1 DEF ReloadLimiters
<1>7. ASSUME NEW w \in Updaters, Reply(w) \/ FailUpdate(w) PROVE RegistryTypeOK'
  BY <1>0, <1>7 DEF Reply, FailUpdate, Forget
<1>8. ASSUME NEW k \in ScopeKeys, Acquire(k) \/ EvictKey(k) PROVE RegistryTypeOK'
  BY <1>8 DEF Acquire, EvictKey, Limits, Knobs
<1>9. ASSUME NEW e \in Envs, Restart(e) PROVE RegistryTypeOK'
  <2>1. PICK s \in {setting, NoSetting} :
          /\ cfg' = Effective(e, s)
          /\ limiters' = Reconfigured(Build(LoadFromEnv(e)), LoadFromEnv(e), Effective(e, s))
    BY <1>9 DEF Restart
  <2>2. Effective(e, s) \in ConfigType /\ LoadFromEnv(e) \in ConfigType
    BY EffectiveType, EnvConfigType, EnvsType
  <2>3. Reconfigured(Build(LoadFromEnv(e)), LoadFromEnv(e), Effective(e, s)) \in Limits
    BY <2>2, BuildType, ReconfiguredType
  <2>4. DOMAIN scopes' = {}
    BY <1>9 DEF Restart
  <2> QED
    BY <1>0, <1>9, <2>1, <2>2, <2>3, <2>4 DEF Restart
<1>10. CASE UNCHANGED registryVars
  BY <1>10 DEF registryVars
<1> QED
  BY <1>1, <1>2, <1>3, <1>4, <1>5, <1>6, <1>7, <1>8, <1>9, <1>10 DEF RegistryNext

(* The registry, the setting and the requests are typed in every behaviour. *)
THEOREM RegistryTypes == RegistrySpec => []RegistryTypeOK
BY TypeInit, TypeStep, PTL DEF RegistrySpec

--------------------------------------------------------------------------------
(* In a locked environment no update has started, and the registry is as it
   was built. *)
LockInv ==
  /\ RegistryTypeOK
  /\ cfg.locked = env.locked
  /\ \A w \in Updaters : stage[w] \in {"load", "swap", "reconfigure"} => new[w].locked = env.locked
  /\ LockPins
  /\ env.locked => \A w \in Updaters : stage[w] = "idle"

LEMMA BuiltAsPinned ==
  ASSUME NEW e \in EnvType, ~LoadFromEnv(e).off
  PROVE  Reconfigured(Build(LoadFromEnv(e)), LoadFromEnv(e), LoadFromEnv(e))
           = LoadFromEnv(e).limits
<1> DEFINE c == LoadFromEnv(e)
<1>1. c \in ConfigType /\ Build(c) = c.limits
  BY EnvConfigType DEF Build
<1> HIDE DEF c
<1>2. c.limits \in Limits
  BY <1>1 DEF ConfigType
<1>3. Reconfigured(Build(c), c, c) \in Limits
  BY <1>1, <1>2, ReconfiguredType
<1>4. \A k \in Knobs : Reconfigured(Build(c), c, c)[k] = c.limits[k]
  BY <1>1, <1>2, ReconfiguredType, KnobsAre
<1> QED
  BY <1>2, <1>3, <1>4 DEF c, Limits

LEMMA LockBoot ==
  ASSUME NEW e \in Envs, NEW s \in Payloads \cup {NoSetting}, e.locked
  PROVE  LET c == Effective(e, s)
             l == Reconfigured(Build(LoadFromEnv(e)), LoadFromEnv(e), c)
         IN c = LoadFromEnv(e) /\ (~c.off => l = c.limits)
BY BuiltAsPinned, EnvsType DEF Effective

LEMMA LockInit == RegistryInit => LockInv
<1> SUFFICES ASSUME RegistryInit PROVE LockInv
  OBVIOUS
<1>1. PICK e \in Envs : Boot(e, NoSetting)
  BY DEF RegistryInit
<1>2. cfg.locked = env.locked
  BY <1>1, EffectiveType DEF Boot
<1>3. LockPins
  BY <1>1, LockBoot DEF Boot, LockPins
<1> QED
  BY <1>2, <1>3, TypeInit DEF LockInv, RegistryInit

LEMMA LockStep == LockInv /\ [RegistryNext]_registryVars => LockInv'
<1> SUFFICES ASSUME LockInv, [RegistryNext]_registryVars PROVE LockInv'
  OBVIOUS
<1>0. RegistryTypeOK /\ RegistryTypeOK'
  BY TypeStep DEF LockInv
<1> USE <1>0 DEF LockInv, Enter, LockPins, inFlight, history
<1>1. ASSUME NEW w \in Updaters, NEW p \in Payloads, Update(w, p) PROVE LockInv'
  BY <1>1 DEF Update, RegistryTypeOK
<1>2. ASSUME NEW w \in Updaters, SetSetting(w) PROVE LockInv'
  BY <1>2 DEF SetSetting, RegistryTypeOK
<1>3. ASSUME NEW w \in Updaters, Resolve(w) PROVE LockInv'
  <2>1. Effective(env, setting).locked = env.locked
    BY EffectiveType DEF RegistryTypeOK
  <2> QED
    BY <1>3, <2>1 DEF Resolve, RegistryTypeOK
<1>4. ASSUME NEW w \in Updaters, LoadConfig(w) PROVE LockInv'
  BY <1>4 DEF LoadConfig, RegistryTypeOK
<1>5. ASSUME NEW w \in Updaters, StoreConfig(w) PROVE LockInv'
  BY <1>5 DEF StoreConfig, RegistryTypeOK
<1>6. ASSUME NEW w \in Updaters, ReloadLimiters(w) PROVE LockInv'
  BY <1>6 DEF ReloadLimiters, RegistryTypeOK
<1>7. ASSUME NEW w \in Updaters, Reply(w) \/ FailUpdate(w) PROVE LockInv'
  BY <1>7 DEF Reply, FailUpdate, Forget, RegistryTypeOK
<1>8. ASSUME NEW k \in ScopeKeys, Acquire(k) \/ EvictKey(k) PROVE LockInv'
  BY <1>8 DEF Acquire, EvictKey
<1>9. ASSUME NEW e \in Envs, Restart(e) PROVE LockInv'
  <2>1. PICK s \in {setting, NoSetting} :
          /\ cfg' = Effective(e, s)
          /\ limiters' = Reconfigured(Build(LoadFromEnv(e)), LoadFromEnv(e), Effective(e, s))
    BY <1>9 DEF Restart
  <2>2. s \in Payloads \cup {NoSetting}
    BY DEF RegistryTypeOK
  <2>3. cfg'.locked = e.locked
    BY <2>1, <2>2, EffectiveType
  <2>4. e.locked => cfg' = LoadFromEnv(e) /\ (~cfg'.off => limiters' = cfg'.limits)
    BY <2>1, <2>2, LockBoot
  <2> QED
    BY <1>9, <2>3, <2>4 DEF Restart, RegistryTypeOK
<1>10. CASE UNCHANGED registryVars
  BY <1>10 DEF registryVars
<1> QED
  BY <1>1, <1>2, <1>3, <1>4, <1>5, <1>6, <1>7, <1>8, <1>9, <1>10 DEF RegistryNext

(* AGENT_VAULT_RATELIMIT_LOCK: whatever was stored or sent before, the limits
   in force are those of the environment. *)
THEOREM LockPinsLimits == RegistrySpec => []LockPins
<1>1. LockInv => LockPins
  BY DEF LockInv
<1> QED
  BY LockInit, LockStep, <1>1, PTL DEF RegistrySpec

--------------------------------------------------------------------------------
(* Settings are validated in one environment and applied in another. *)
Admits(s) ==
  s # NoSetting =>
    \/ s.profile = "off"
    \/ s.overrides["global"] = 0
    \/ s.overrides["global"] >= MinGlobal

Above(c, e) == ~c.off /\ Validate(LoadFromEnv(e)) => c.limits["global"] >= MinGlobal

FloorInv ==
  /\ RegistryTypeOK
  /\ \A w \in Updaters : ~LoadFromEnv(env).off => Admits(payload[w])
  /\ ~savedOff =>
       /\ Admits(setting)
       /\ Above(cfg, env)
       /\ \A w \in Updaters : stage[w] \in {"load", "swap", "reconfigure"} => Above(new[w], env)

LEMMA ValidatedAdmits ==
  ASSUME NEW e \in Envs, NEW p \in Payloads, ~LoadFromEnv(e).off, Validate(ApplyPayload(e, p))
  PROVE  Admits(p)
<1> SUFFICES ASSUME p.profile # "off", p.overrides["global"] # 0
             PROVE  p.overrides["global"] >= MinGlobal
  BY DEF Admits
<1>1. e \in EnvType /\ p \in PayloadType
  BY EnvsType, PayloadsType
<1>2. ApplyPayload(e, p) \in ConfigType /\ ~ApplyPayload(e, p).off
  BY <1>1, AppliedType, EnvConfigType
<1>3. ApplyPayload(e, p).limits["global"] = p.overrides["global"]
  BY <1>1, AppliedAt, KnobsAre
<1> QED
  BY <1>2, <1>3 DEF Validate

LEMMA EffectiveAbove ==
  ASSUME NEW e \in Envs, NEW s \in Payloads \cup {NoSetting}, Admits(s)
  PROVE  Above(Effective(e, s), e)
<1>1. e \in EnvType
  BY EnvsType
<1> SUFFICES ASSUME ~Effective(e, s).off, Validate(LoadFromEnv(e))
             PROVE  Effective(e, s).limits["global"] >= MinGlobal
  BY DEF Above
<1>2. CASE e.locked \/ s = NoSetting
  BY <1>2 DEF Effective, Validate
<1>3. CASE ~e.locked /\ s # NoSetting
  <2>1. s \in PayloadType /\ Effective(e, s) = ApplyPayload(e, s)
    BY <1>3, PayloadsType DEF Effective
  <2>2. s.profile # "off" /\ (s.profile = "" => ~LoadFromEnv(e).off)
    BY <1>1, <2>1, AppliedType, EnvConfigType
  <2>3. CASE s.overrides["global"] # 0
    <3>1. ApplyPayload(e, s).limits["global"] = s.overrides["global"]
      BY <1>1, <2>1, <2>3, AppliedAt, KnobsAre
    <3> QED
      BY <1>3, <2>1, <2>2, <2>3, <3>1 DEF Admits
  <2>4. CASE s.overrides["global"] = 0 /\ s.profile = ""
    <3>1. ApplyPayload(e, s).limits["global"] = LoadFromEnv(e).limits["global"]
      BY <1>1, <2>1, <2>4, AppliedAt, KnobsAre
    <3> QED
      BY <2>1, <2>2, <2>4, <3>1 DEF Validate
  <2>5. CASE s.overrides["global"] = 0 /\ s.profile # ""
    <3>1. s.profile \in Profiles
      BY <2>1, <2>2, <2>5 DEF PayloadType
    <3>2. DefaultsFor(s.profile).limits["global"] >= MinGlobal
      BY <3>1, BaselineFloor, ProfilesType DEF DefaultsFor
    <3>3. ApplyPayload(e, s).limits["global"]
            = Over(DefaultsFor(s.profile).limits, EnvKnobs(e))["global"]
      BY <1>1, <2>1, <2>5, AppliedAt, KnobsAre
    <3>4. LoadFromEnv(e).limits = Over(DefaultsFor(e.profile).limits, EnvKnobs(e))
          /\ LoadFromEnv(e).off = (e.profile = "off")
      BY <1>1, EnvConfigType
    <3>5. CASE EnvKnobs(e)["global"] # 0
      <4>1. ~LoadFromEnv(e).off
        BY <3>4, <3>5, KnobsAre DEF EnvKnobs
      <4>2. LoadFromEnv(e).limits["global"] >= MinGlobal
        BY <4>1 DEF Validate
      <4> QED
        BY <2>1, <3>3, <3>4, <3>5, <4>2, OverAt, KnobsAre
    <3>6. CASE EnvKnobs(e)["global"] = 0
      BY <2>1, <3>2, <3>3, <3>6, OverAt, KnobsAre
    <3> QED
      BY <3>5, <3>6
  <2> QED
    BY <2>3, <2>4, <2>5
<1> QED
  BY <1>2, <1>3

LEMMA FloorInit == RegistryInit => FloorInv
<1> SUFFICES ASSUME RegistryInit PROVE FloorInv
  OBVIOUS
<1>1. PICK e \in Envs : Boot(e, NoSetting)
  BY DEF RegistryInit
<1>2. Admits(NoSetting)
  BY DEF Admits
<1>3. Above(cfg, env)
  BY <1>1, <1>2, EffectiveAbove DEF Boot
<1> QED
  BY <1>1, <1>2, <1>3, TypeInit DEF FloorInv, RegistryInit, Boot

LEMMA FloorStep == FloorInv /\ [RegistryNext]_registryVars => FloorInv'
<1> SUFFICES ASSUME FloorInv, [RegistryNext]_registryVars PROVE FloorInv'
  OBVIOUS
<1>0. RegistryTypeOK /\ RegistryTypeOK' /\ Admits(NoSetting)
  BY TypeStep DEF FloorInv, Admits
<1> USE <1>0 DEF FloorInv, Enter, inFlight, history
<1>1. ASSUME NEW w \in Updaters, NEW p \in Payloads, Update(w, p) PROVE FloorInv'
  <2>1. ~LoadFromEnv(env).off => Admits(p)
    BY <1>1, ValidatedAdmits DEF Update, RegistryTypeOK
  <2> QED
    BY <1>1, <2>1 DEF Update, RegistryTypeOK, Admits, Above
<1>2. ASSUME NEW w \in Updaters, SetSetting(w) PROVE FloorInv'
  <2>1. ~savedOff' => ~savedOff /\ ~LoadFromEnv(env).off
    BY <1>2 DEF SetSetting
  <2> QED
    BY <1>2, <2>1 DEF SetSetting, RegistryTypeOK, Admits, Above
<1>3. ASSUME NEW w \in Updaters, Resolve(w) PROVE FloorInv'
  <2>1. ~savedOff => Above(Effective(env, setting), env)
    BY EffectiveAbove DEF RegistryTypeOK
  <2> QED
    BY <1>3, <2>1 DEF Resolve, RegistryTypeOK, Admits, Above
<1>4. ASSUME NEW w \in Updaters, LoadConfig(w) PROVE FloorInv'
  BY <1>4 DEF LoadConfig, RegistryTypeOK, Admits, Above
<1>5. ASSUME NEW w \in Updaters, StoreConfig(w) PROVE FloorInv'
  BY <1>5 DEF StoreConfig, RegistryTypeOK, Admits, Above
<1>6. ASSUME NEW w \in Updaters, ReloadLimiters(w) PROVE FloorInv'
  BY <1>6 DEF ReloadLimiters, RegistryTypeOK, Admits, Above
<1>7. ASSUME NEW w \in Updaters, Reply(w) \/ FailUpdate(w) PROVE FloorInv'
  BY <1>7 DEF Reply, FailUpdate, Forget, RegistryTypeOK, Admits, Above
<1>8. ASSUME NEW k \in ScopeKeys, Acquire(k) \/ EvictKey(k) PROVE FloorInv'
  BY <1>8 DEF Acquire, EvictKey, Admits, Above
<1>9. ASSUME NEW e \in Envs, Restart(e) PROVE FloorInv'
  <2>1. PICK s \in {setting, NoSetting} : cfg' = Effective(e, s)
    BY <1>9 DEF Restart
  <2>2. ~savedOff => Above(Effective(e, s), e)
    BY EffectiveAbove DEF RegistryTypeOK
  <2> QED
    BY <1>9, <2>1, <2>2 DEF Restart, RegistryTypeOK, Admits, Above
<1>10. CASE UNCHANGED registryVars
  BY <1>10 DEF registryVars, Admits, Above
<1> QED
  BY <1>1, <1>2, <1>3, <1>4, <1>5, <1>6, <1>7, <1>8, <1>9, <1>10 DEF RegistryNext

(* The floor of the server-wide concurrency (config.go:225): settings get below
   it in no sequence of updates and restarts, in environments of any profile,
   as long as none is stored by a process that was started off. *)
THEOREM FloorHolds == RegistrySpec => []FloorKept
<1>1. FloorInv => FloorKept
  BY DEF FloorInv, FloorKept, Above
<1> QED
  BY <1>1, FloorInit, FloorStep, PTL DEF RegistrySpec

--------------------------------------------------------------------------------
(* No limit of a config that is on is unset. *)
Usable(c) == ~c.off => \A k \in Knobs : c.limits[k] # 0

LEMMA EffectiveUsable ==
  ASSUME NEW e \in Envs, NEW s \in Payloads \cup {NoSetting}
  PROVE  Usable(Effective(e, s))
<1>1. e \in EnvType
  BY EnvsType
<1>2. \A p \in Profiles, k \in Knobs : DefaultsFor(p).limits[k] # 0
  BY BaselineType, ProfilesType DEF DefaultsFor
<1>3. Usable(LoadFromEnv(e))
  <2>1. SUFFICES ASSUME e.profile # "off", NEW k \in Knobs
                 PROVE  LoadFromEnv(e).limits[k] # 0
    BY <1>1, EnvConfigType DEF Usable
  <2>2. LoadFromEnv(e).limits[k] = Over(DefaultsFor(e.profile).limits, EnvKnobs(e))[k]
    BY <1>1, EnvConfigType
  <2>3. DefaultsFor(e.profile).limits[k] # 0
    BY <1>1, <1>2, <2>1 DEF EnvType
  <2> QED
    BY <2>2, <2>3, OverAt
<1>4. ASSUME s # NoSetting, ~e.locked PROVE Usable(ApplyPayload(e, s))
  <2>1. s \in PayloadType
    BY <1>4, PayloadsType
  <2>2. SUFFICES ASSUME ~ApplyPayload(e, s).off, NEW k \in Knobs
                 PROVE  ApplyPayload(e, s).limits[k] # 0
    BY DEF Usable
  <2>3. CASE s.profile = ""
    <3>1. ApplyPayload(e, s).limits[k] = Over(LoadFromEnv(e).limits, s.overrides)[k]
      BY <1>1, <2>1, <2>3, AppliedType
    <3>2. LoadFromEnv(e).limits[k] # 0
      BY <1>1, <1>3, <2>1, <2>2, <2>3, EnvConfigType, AppliedType, ProfilesType DEF Usable
    <3> QED
      BY <3>1, <3>2, OverAt
  <2>4. CASE s.profile \in Profiles
    <3> DEFINE base == Over(DefaultsFor(s.profile).limits, EnvKnobs(e))
    <3>1. ApplyPayload(e, s).limits[k] = Over(base, s.overrides)[k]
      BY <1>1, <2>1, <2>4, ProfilesType, AppliedType
    <3>2. base[k] # 0
      BY <1>2, <2>4, OverAt
    <3> HIDE DEF base
    <3> QED
      BY <3>1, <3>2, OverAt
  <2> QED
    BY <1>1, <2>1, <2>2, <2>3, <2>4, AppliedType DEF PayloadType
<1> QED
  BY <1>3, <1>4 DEF Effective

(* The rate's limiter is there from the start, or never. *)
RateInv == RegistryTypeOK /\ (limiters["rate"] # 0 <=> ~LoadFromEnv(env).off)

LEMMA RateBoot ==
  ASSUME NEW e \in Envs, NEW s \in Payloads \cup {NoSetting}
  PROVE  LET l == Reconfigured(Build(LoadFromEnv(e)), LoadFromEnv(e), Effective(e, s))
         IN l["rate"] # 0 <=> ~LoadFromEnv(e).off
<1> DEFINE b == LoadFromEnv(e)
           l == Reconfigured(Build(b), b, Effective(e, s))
<1>1. b \in ConfigType /\ Effective(e, s) \in ConfigType /\ Build(b) \in Limits
  BY EnvConfigType, EffectiveType, EnvsType, BuildType
<1>2. Usable(b)
  <2>1. Effective(e, NoSetting) = b
    BY DEF Effective
  <2> QED
    BY <2>1, EffectiveUsable
<1>3. Build(b)["rate"] # 0 <=> ~b.off
  BY <1>2 DEF Build, Off, Usable, Knobs
<1> HIDE DEF b
<1>4. l["rate"] # 0 <=> Build(b)["rate"] # 0
  <2> DEFINE m == Build(b)
             c == Effective(e, s)
  <2> HIDE DEF m, c
  <2>1. Reconfigured(m, b, c)["rate"]
          = IF m["rate"] # 0 /\ c.limits["rate"] # 0 THEN c.limits["rate"] ELSE m["rate"]
    BY <1>1, ReconfiguredType DEF m, c
  <2> QED
    BY <2>1 DEF m, c
<1> QED
  BY <1>3, <1>4 DEF b

LEMMA RateKept ==
  ASSUME NEW l \in Limits, NEW b \in ConfigType, NEW c \in ConfigType
  PROVE  Reconfigured(l, b, c)["rate"] # 0 <=> l["rate"] # 0
<1> DEFINE m == Reconfigured(l, b, c)
<1>1. m["rate"] = IF l["rate"] # 0 /\ c.limits["rate"] # 0 THEN c.limits["rate"] ELSE l["rate"]
  BY ReconfiguredType
<1> HIDE DEF m
<1> QED
  BY <1>1 DEF m

LEMMA RateInit == RegistryInit => RateInv
<1> SUFFICES ASSUME RegistryInit PROVE RateInv
  OBVIOUS
<1>1. PICK e \in Envs : Boot(e, NoSetting)
  BY DEF RegistryInit
<1> QED
  BY <1>1, RateBoot, TypeInit DEF Boot, RateInv

LEMMA RateStep == RateInv /\ [RegistryNext]_registryVars => RateInv'
<1> SUFFICES ASSUME RateInv, [RegistryNext]_registryVars PROVE RateInv'
  OBVIOUS
<1>0. RegistryTypeOK /\ RegistryTypeOK'
  BY TypeStep DEF RateInv
<1>1. ASSUME NEW w \in Updaters, ReloadLimiters(w) PROVE RateInv'
  <2>1. Reconfigured(limiters, old[w], new[w])["rate"] # 0 <=> limiters["rate"] # 0
    BY <1>0, RateKept DEF RegistryTypeOK
  <2> QED
    BY <1>0, <1>1, <2>1 DEF ReloadLimiters, RateInv
<1>2. ASSUME NEW e \in Envs, Restart(e) PROVE RateInv'
  <2>1. PICK s \in {setting, NoSetting} :
          limiters' = Reconfigured(Build(LoadFromEnv(e)), LoadFromEnv(e), Effective(e, s))
    BY <1>2 DEF Restart
  <2>2. s \in Payloads \cup {NoSetting}
    BY <1>0 DEF RegistryTypeOK
  <2>3. limiters'["rate"] # 0 <=> ~LoadFromEnv(e).off
    BY <2>1, <2>2, RateBoot
  <2> QED
    BY <1>0, <1>2, <2>3 DEF Restart, RateInv
<1>3. UNCHANGED <<env, limiters>> => RateInv'
  BY <1>0 DEF RateInv
<1> QED
  BY <1>1, <1>2, <1>3 DEF RegistryNext, registryVars, Update, SetSetting, Resolve, LoadConfig,
                          StoreConfig, Reply, FailUpdate, Acquire, EvictKey

(* However updates overlap, turning the limits off and on again leaves no tier
   without its limiter; a process that was started off has none, whatever is
   stored (registry.go:83). *)
THEOREM LimitersStay == RegistrySpec => []LimitedUnlessStartedOff
<1>1. RateInv => LimitedUnlessStartedOff
  BY DEF RateInv, LimitedUnlessStartedOff
<1> QED
  BY <1>1, RateInit, RateStep, PTL DEF RegistrySpec

--------------------------------------------------------------------------------
(* An update that met no other one runs alone, and knows the registry. *)
Solo(w) == stage[w] # "idle" => \A v \in Updaters : stage[v] # "idle" => v = w

Fresh(l, c) ==
  ~c.off => /\ l["scope"] = c.limits["scope"]
            /\ ~LoadFromEnv(env).off => l["rate"] = c.limits["rate"]

Consistent(w) ==
  /\ Solo(w)
  /\ stage[w] \in {"load", "swap", "reconfigure"} => new[w] = Effective(env, setting)
  /\ stage[w] \in {"reconfigure", "reply"} => cfg = Effective(env, setting)
  /\ stage[w] = "reply" => Fresh(limiters, cfg)

(* The global semaphore follows the config, as long as no two updates met. *)
Follows(l, c) == c.limits["global"] # 0 => l["global"] = c.limits["global"]

GlobalFollows ==
  /\ raced = {}
  /\ \A w \in Updaters : /\ stage[w] = "swap" => old[w] = cfg
                         /\ stage[w] = "reconfigure" => Follows(limiters, old[w])
  /\ (\A w \in Updaters : stage[w] # "reconfigure") => Follows(limiters, cfg)

EffectInv ==
  /\ RateInv
  /\ \A w \in Updaters \ raced : Consistent(w)
  /\ ~overlapped => GlobalFollows

LEMMA FollowsAfter ==
  ASSUME NEW l \in Limits, NEW b \in ConfigType, NEW c \in ConfigType, Follows(l, b)
  PROVE  Follows(Reconfigured(l, b, c), c)
BY ReconfiguredType DEF Follows

LEMMA FollowsBoot ==
  ASSUME NEW e \in Envs, NEW s \in Payloads \cup {NoSetting}
  PROVE  LET c == Effective(e, s)
         IN Follows(Reconfigured(Build(LoadFromEnv(e)), LoadFromEnv(e), c), c)
<1> DEFINE b == LoadFromEnv(e)
<1>1. b \in ConfigType /\ Effective(e, s) \in ConfigType /\ Build(b) \in Limits
  BY EnvConfigType, EffectiveType, EnvsType, BuildType
<1>2. b.off => b.limits["global"] = 0
  <2>1. b.limits = Over(DefaultsFor(e.profile).limits, EnvKnobs(e)) /\ b.off = (e.profile = "off")
    BY EnvConfigType, EnvsType
  <2>2. e.profile = "off" => DefaultsFor(e.profile).limits["global"] = 0 /\ EnvKnobs(e)["global"] = 0
    BY KnobsAre DEF DefaultsFor, EnvKnobs, Off
  <2>3. b.limits["global"] = IF EnvKnobs(e)["global"] # 0 THEN EnvKnobs(e)["global"]
                             ELSE DefaultsFor(e.profile).limits["global"]
    BY <2>1, OverAt, KnobsAre
  <2> HIDE DEF b
  <2> QED
    BY <2>1, <2>2, <2>3
<1> HIDE DEF b
<1>3. Follows(Build(b), b)
  BY <1>2 DEF Build, Follows
<1> QED
  BY <1>1, <1>3, FollowsAfter DEF b

LEMMA FreshAfter ==
  ASSUME NEW l \in Limits, NEW b \in ConfigType, NEW c \in ConfigType, Usable(c),
         ~LoadFromEnv(env).off => l["rate"] # 0
  PROVE  Fresh(Reconfigured(l, b, c), c)
<1>1. ~c.off => c.limits["rate"] # 0 /\ c.limits["scope"] # 0
  BY KnobsAre DEF Usable
<1> DEFINE m == Reconfigured(l, b, c)
<1>2. /\ m["rate"] = IF l["rate"] # 0 /\ c.limits["rate"] # 0 THEN c.limits["rate"] ELSE l["rate"]
      /\ m["scope"] = IF c.limits["scope"] # 0 THEN c.limits["scope"] ELSE l["scope"]
  BY ReconfiguredType
<1> HIDE DEF m
<1>3. Fresh(m, c)
  BY <1>1, <1>2 DEF Fresh
<1> QED
  BY <1>3 DEF m

LEMMA EffectInit == RegistryInit => EffectInv
<1> SUFFICES ASSUME RegistryInit PROVE EffectInv
  OBVIOUS
<1>1. PICK e \in Envs : Boot(e, NoSetting)
  BY DEF RegistryInit
<1>2. Follows(limiters, cfg)
  BY <1>1, FollowsBoot DEF Boot
<1> QED
  BY <1>2, RateInit DEF EffectInv, GlobalFollows, Consistent, Solo, RegistryInit

(* Another updater's step: an update that it meets is raced, or it was idle. *)
LEMMA OtherSteps ==
  ASSUME EffectInv, NEW w \in Updaters \ raced, NEW v \in Updaters, v # w, stage[v] # "idle"
  PROVE  stage[w] = "idle"
BY DEF EffectInv, Consistent, Solo

LEMMA EffectStep == EffectInv /\ [RegistryNext]_registryVars => EffectInv'
<1> SUFFICES ASSUME EffectInv, [RegistryNext]_registryVars PROVE EffectInv'
  OBVIOUS
<1>0. /\ RegistryTypeOK /\ RegistryTypeOK' /\ RateInv /\ RateInv'
      /\ \A w \in Updaters \ raced : Consistent(w)
      /\ ~overlapped => GlobalFollows
  BY TypeStep, RateStep DEF EffectInv, RateInv
<1>u. SUFFICES /\ \A w \in Updaters \ raced' : Consistent(w)'
               /\ ~overlapped' => GlobalFollows'
  BY <1>0 DEF EffectInv
<1> USE <1>0 DEF Enter, inFlight, history
<1>1. ASSUME NEW w \in Updaters, NEW p \in Payloads, Update(w, p)
      PROVE  (\A v \in Updaters \ raced' : Consistent(v)') /\ (~overlapped' => GlobalFollows')
  <2>1. CASE Busy = {}
    BY <1>1, <2>1 DEF Update, Busy, RegistryTypeOK, Consistent, Solo, GlobalFollows, Follows, Fresh
  <2>2. CASE Busy # {}
    <3>1. overlapped' /\ \A v \in Updaters \ raced' : stage[v] = "idle" /\ stage'[v] = "idle"
      BY <1>1, <2>2 DEF Update, Busy, RegistryTypeOK
    <3> QED
      BY <3>1 DEF Consistent, Solo
  <2> QED
    BY <2>1, <2>2
<1>2. ASSUME NEW w \in Updaters, SetSetting(w)
      PROVE  (\A v \in Updaters \ raced' : Consistent(v)') /\ (~overlapped' => GlobalFollows')
  BY <1>2 DEF SetSetting, RegistryTypeOK, Consistent, Solo, GlobalFollows, Follows, Fresh
<1>3. ASSUME NEW w \in Updaters, Resolve(w)
      PROVE  (\A v \in Updaters \ raced' : Consistent(v)') /\ (~overlapped' => GlobalFollows')
  BY <1>3 DEF Resolve, RegistryTypeOK, Consistent, Solo, GlobalFollows, Follows, Fresh
<1>4. ASSUME NEW w \in Updaters, LoadConfig(w)
      PROVE  (\A v \in Updaters \ raced' : Consistent(v)') /\ (~overlapped' => GlobalFollows')
  BY <1>4 DEF LoadConfig, RegistryTypeOK, Consistent, Solo, GlobalFollows, Follows, Fresh
<1>5. ASSUME NEW w \in Updaters, StoreConfig(w)
      PROVE  (\A v \in Updaters \ raced' : Consistent(v)') /\ (~overlapped' => GlobalFollows')
  <2>1. ASSUME ~overlapped PROVE GlobalFollows'
    <3>1. GlobalFollows /\ old[w] = cfg
      BY <1>5, <2>1 DEF StoreConfig, GlobalFollows
    <3>2. Solo(w) /\ stage[w] # "idle"
      BY <1>5, <3>1 DEF StoreConfig, GlobalFollows, Consistent
    <3>3. \A v \in Updaters : stage[v] # "reconfigure"
      BY <1>5, <3>2 DEF StoreConfig, Solo
    <3>4. Follows(limiters, old[w])
      BY <3>1, <3>3 DEF GlobalFollows
    <3> QED
      BY <1>5, <3>1, <3>2, <3>3, <3>4 DEF StoreConfig, RegistryTypeOK, GlobalFollows, Follows, Solo
  <2>2. \A v \in Updaters \ raced : Consistent(v)'
    BY <1>5 DEF StoreConfig, RegistryTypeOK, Consistent, Solo, Fresh
  <2> QED
    BY <1>5, <2>1, <2>2 DEF StoreConfig
<1>6. ASSUME NEW w \in Updaters, ReloadLimiters(w)
      PROVE  (\A v \in Updaters \ raced' : Consistent(v)') /\ (~overlapped' => GlobalFollows')
  <2>1. ASSUME w \notin raced PROVE Fresh(limiters', cfg)
    <3>1. new[w] = cfg /\ Usable(cfg)
      BY <1>6, <2>1, EffectiveUsable DEF ReloadLimiters, RegistryTypeOK, Consistent
    <3> QED
      BY <1>6, <3>1, FreshAfter DEF ReloadLimiters, RegistryTypeOK, RateInv
  <2>2. ASSUME ~overlapped PROVE Follows(limiters', cfg)
    <3>1. GlobalFollows /\ new[w] = cfg /\ Follows(limiters, old[w])
      BY <1>6, <2>2 DEF ReloadLimiters, GlobalFollows, Consistent
    <3> QED
      BY <1>6, <3>1, FollowsAfter DEF ReloadLimiters, RegistryTypeOK
  <2>3. ASSUME NEW v \in Updaters \ raced PROVE Consistent(v)'
    BY <1>6, <2>1, <2>3 DEF ReloadLimiters, RegistryTypeOK, Consistent, Solo, Fresh
  <2>4. ASSUME ~overlapped PROVE GlobalFollows'
    <3>1. GlobalFollows /\ Solo(w) /\ stage[w] # "idle"
      BY <1>6, <2>4 DEF ReloadLimiters, GlobalFollows, Consistent
    <3> QED
      BY <1>6, <2>2, <2>4, <3>1 DEF ReloadLimiters, RegistryTypeOK, GlobalFollows, Follows, Solo
  <2> QED
    BY <1>6, <2>3, <2>4 DEF ReloadLimiters
<1>7. ASSUME NEW w \in Updaters, Reply(w) \/ FailUpdate(w)
      PROVE  (\A v \in Updaters \ raced' : Consistent(v)') /\ (~overlapped' => GlobalFollows')
  BY <1>7 DEF Reply, FailUpdate, Forget, RegistryTypeOK, Consistent, Solo, GlobalFollows, Follows, Fresh
<1>8. ASSUME NEW k \in ScopeKeys, Acquire(k) \/ EvictKey(k)
      PROVE  (\A v \in Updaters \ raced' : Consistent(v)') /\ (~overlapped' => GlobalFollows')
  BY <1>8 DEF Acquire, EvictKey, Consistent, Solo, GlobalFollows, Follows, Fresh
<1>9. ASSUME NEW e \in Envs, Restart(e)
      PROVE  (\A v \in Updaters \ raced' : Consistent(v)') /\ (~overlapped' => GlobalFollows')
  <2>1. PICK s \in {setting, NoSetting} :
          /\ cfg' = Effective(e, s)
          /\ limiters' = Reconfigured(Build(LoadFromEnv(e)), LoadFromEnv(e), Effective(e, s))
    BY <1>9 DEF Restart
  <2>2. s \in Payloads \cup {NoSetting}
    BY DEF RegistryTypeOK
  <2>3. Follows(limiters', cfg')
    BY <2>1, <2>2, FollowsBoot
  <2>4. \A w \in Updaters : stage'[w] = "idle"
    BY <1>9 DEF Restart
  <2>5. raced' = {}
    BY <1>9 DEF Restart
  <2> QED
    BY <2>3, <2>4, <2>5 DEF Consistent, Solo, GlobalFollows, Follows
<1>10. CASE UNCHANGED registryVars
  BY <1>10 DEF registryVars, Consistent, Solo, GlobalFollows, Follows, Fresh
<1> QED
  BY <1>1, <1>2, <1>3, <1>4, <1>5, <1>6, <1>7, <1>8, <1>9, <1>10 DEF RegistryNext

(* When an update that met no other one is answered, what it stored is in force:
   in environments of any profile, after overlaps and failures of any number of
   other updates. *)
THEOREM UpdateTakesEffect == RegistrySpec => []UpdateInEffect
<1>1. EffectInv => UpdateInEffect
  <2> SUFFICES ASSUME EffectInv, NEW w \in Updaters, stage[w] = "reply", w \notin raced
               PROVE  InForce(Effective(env, setting))
    BY DEF UpdateInEffect
  <2>1. cfg = Effective(env, setting) /\ Fresh(limiters, cfg) /\ Solo(w)
    BY DEF EffectInv, Consistent
  <2>2. Usable(cfg)
    BY <2>1, EffectiveUsable DEF EffectInv, RateInv, RegistryTypeOK
  <2>3. ~overlapped => Follows(limiters, cfg)
    BY <2>1 DEF EffectInv, GlobalFollows, Solo
  <2>4. ~cfg.off => cfg.limits["global"] # 0
    BY <2>2, KnobsAre DEF Usable
  <2> QED
    BY <2>1, <2>3, <2>4 DEF InForce, Fresh, Follows
<1> QED
  BY <1>1, EffectInit, EffectStep, PTL DEF RegistrySpec

================================================================================
