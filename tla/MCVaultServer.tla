----------------------------- MODULE MCVaultServer -----------------------------
(* A small vault for TLC: two service names that may share one host, one    *)
(* credential key, and requests chosen to collide with each other.          *)
EXTENDS VaultServer, TLC

CONSTANTS w1, w2, n1, n2, h1, k1, v1, v2

MCWorkers == {w1, w2}
MCNames == {n1, n2}
MCHosts == {h1}
MCKeys == {k1}
MCValues == {v1, v2}

Svc(name, auth, enabled) ==
  [name |-> name, host |-> h1, path |-> NoPath, auth |-> auth, enabled |-> enabled,
   subs |-> {}]

Entry(action, name, auth, enabled) ==
  [action |-> action, name |-> name, host |-> h1, path |-> NoPath, auth |-> auth,
   enabled |-> enabled, subs |-> {}]

Body(entries, slot) == [services |-> entries, slots |-> [k \in Keys |-> slot]]

AddWithKey == Body(<<Entry("set", n1, k1, "unset")>>, "ask")
AddWithAgentValue == Body(<<Entry("set", n1, k1, "on")>>, v1)
TurnOff    == Body(<<Entry("set", n1, NoAuth, "off")>>, "none")
DropByHost == Body(<<Entry("delete", NoName, NoAuth, "unset")>>, "none")
DropKey    == Body(<<>>, "delete")

UpsertRenamed == [op |-> "upsert", services |-> <<Svc(n2, Passthrough, "unset")>>]
UpsertUnnamed == [op |-> "upsert", services |-> <<Svc(NoName, Passthrough, "unset")>>]
RemoveByName  == [op |-> "remove", ref |-> n1]
RemoveByHost  == [op |-> "remove", ref |-> h1]
TurnOn        == [op |-> "patch", ref |-> h1, enabled |-> "on"]
SetOne        == [op |-> "set", services |-> <<Svc(n1, Passthrough, "unset")>>]
Clear         == [op |-> "clear"]

Override(v) == [k \in Keys |-> v]

DeleteKey == [op |-> "delete", todo |-> <<<<k1, NoValue>>>>]
SetTwice  == [op |-> "set", todo |-> <<<<k1, v1>>, <<k1, v2>>>>]

(* Proposals against each other, a rename and a credential deletion. *)
Review == [bodies |-> {AddWithKey, DropByHost}, edits |-> {UpsertRenamed},
           overrides |-> {Override(NoValue), Override(v2)}, credentials |-> {DeleteKey},
           proposals |-> 2]

(* Every direct edit and a write of several credentials that can stop half way,
   against one proposal of any other kind. *)
Edit == [bodies |-> {TurnOff, AddWithAgentValue, DropKey},
         edits |-> {UpsertRenamed, UpsertUnnamed, RemoveByName, RemoveByHost, TurnOn,
                    SetOne, Clear},
         overrides |-> {Override(NoValue)}, credentials |-> {SetTwice}, proposals |-> 1]

ReviewBodies == Review.bodies
ReviewEdits == Review.edits
ReviewOverrides == Review.overrides
ReviewCredentials == Review.credentials
EditBodies == Edit.bodies
EditEdits == Edit.edits
EditOverrides == Edit.overrides

(* Creations that fill the list of pending proposals, an edit that fails under
   the lock unless one of them was approved, and a deletion that finds no credential. *)
LiveBodies == {TurnOff}
LiveEdits == {TurnOn}
LiveCredentials == {DeleteKey}
None == {}

Symmetry == Permutations(MCWorkers)
================================================================================
