CONSTANTS
  Snis = {1, 2, 3, 4}
  Invalid = {4}
  CacheSize = 2
  LeafTTL = 3
  ClockSkew = 1
  Horizon = 5
  MaxUses = 5
  v1 = v1 v2 = v2 v3 = v3
  Vaults <- MCVaults
  Default = default
  Names = {default, x, y}
  Owner = owner
  Members = {m1}
  Requests = {1, 2, 3}
  None = None
  Openers = {1, 2, 3}
  LastVersion = 3
  FkOff = {2}
  Profiles <- MCProfiles
  Baseline <- MCBaseline
  Envs <- MCEnvs
  Payloads <- MCPayloads
  MinGlobal = 3
  Updaters = {1, 2}
  ScopeKeys = {1}
  NoSetting = NoSetting
SPECIFICATION MCSpec
INVARIANTS CacheIsRecent SchemaIsWhole  LimitedUnlessStartedOff
PROPERTY AuthorisedUnlessMoved
SYMMETRY Alike
CHECK_DEADLOCK FALSE
