--------------------------- MODULE MCHousekeeping ---------------------------
(* Four parts that do not meet: the cache of leaf certificates, the        *)
(* migrations of processes that open one database, the requests that       *)
(* create, rename and delete vaults, and those that change the limits.  A  *)
(* behaviour follows one of them.                                          *)
EXTENDS LeafCache, Migrations, VaultNames, LimitRegistry, TLC

CONSTANTS v1, v2, v3

MCVaults == {v1, v2, v3}
Alike == Permutations(MCVaults)

(* Two profiles, and environments with a knob, the lock or no limits at all.   *)
MCProfiles == {"default", "strict"}

Same(n) == [k \in Knobs |-> n]
MCBaseline == [default |-> Same(4), strict |-> Same(3)]

Env(profile, locked, rate) ==
  [profile |-> profile, locked |-> locked, knobs |-> [Same(0) EXCEPT !["rate"] = rate]]

Payload(profile, rate, global) ==
  [profile |-> profile,
   overrides |-> [Same(0) EXCEPT !["rate"] = rate, !["global"] = global]]

MCEnvs ==
  {Env("default", FALSE, 0), Env("strict", FALSE, 5), Env("default", TRUE, 0), Env("off", FALSE, 0)}

MCPayloads ==
  {Payload("strict", 2, 6), Payload("off", 0, 2), Payload("", 0, 2)}

VARIABLE focus

MCInit ==
  /\ focus \in {"leaves", "migrations", "names", "limits"}
  /\ LeafInit
  /\ Init /\ (focus # "migrations" => applied = <<>>)
  /\ RegistryInit /\ (focus # "limits" => env.profile = "off")
  /\ NamesInit /\ (focus # "names" => Cardinality(unused) = 2)

MCNext ==
  \/ focus = "leaves" /\ LeafNext /\ UNCHANGED <<nameVars, migrationVars, registryVars>>
  \/ focus = "migrations" /\ MigrationNext /\ UNCHANGED <<leafVars, nameVars, registryVars>>
  \/ focus = "names" /\ NamesNext /\ UNCHANGED <<leafVars, migrationVars, registryVars>>
  \/ focus = "limits" /\ RegistryNext /\ UNCHANGED <<leafVars, migrationVars, nameVars>>

MCSpec ==
  MCInit /\ [][MCNext /\ UNCHANGED focus]_<<leafVars, nameVars, migrationVars, registryVars, focus>>
=============================================================================
