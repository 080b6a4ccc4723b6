------------------------------ MODULE ServiceList ------------------------------
(***************************************************************************)
(* The service list of one vault and the pure functions that edit it.      *)
(*                                                                         *)
(* A vault stores its services as one JSON list (broker_configs.           *)
(* services_json).  Every write goes through load -> edit -> save, and     *)
(* this module is the "edit": how a proposal is normalised against the     *)
(* list and merged into it (internal/proposal/merge.go), and how the       *)
(* direct /services handlers change it (handle_services.go).               *)
(*                                                                         *)
(* Data that no property tells apart is abstract: a name, host, path or    *)
(* credential key is a model value; an auth config is the key it refers    *)
(* to, Passthrough, or NoAuth (the zero value of broker.Auth); a service's *)
(* substitutions are the set of keys they refer to.  Hosts are never empty *)
(* and are already split from their inline path.                           *)
(***************************************************************************)
EXTENDS Naturals, FiniteSets, Sequences, SequencesExt

CONSTANTS
  Names, Hosts, Paths,
  Keys,         \* credential keys
  NoName,       \* the empty service name
  NoPath,       \* the empty path
  NoAuth,       \* the zero broker.Auth: no type, no credential
  Passthrough,  \* auth.type "passthrough": refers to no credential
  NoValue       \* no credential stored under a key

ASSUME KeysFinite == IsFiniteSet(Keys)

SetAction == "set"
DeleteAction == "delete"

(***************************************************************************)
(* broker.Service, and the entry of a proposal (proposal.Service).         *)
(* enabled is a *bool in the code: "unset", "on" or "off".                 *)
(***************************************************************************)
Auths == Keys \cup {NoAuth, Passthrough}
Flags == {"unset", "on", "off"}

ServiceType ==
  [name : Names \cup {NoName}, host : Hosts, path : Paths \cup {NoPath},
   auth : Auths, enabled : Flags, subs : SUBSET Keys]

EntryType ==
  [action : {SetAction, DeleteAction}, name : Names \cup {NoName}, host : Hosts,
   path : Paths \cup {NoPath}, auth : Auths, enabled : Flags, subs : SUBSET Keys]

(***************************************************************************)
(* Lookups.                                                                *)
(***************************************************************************)
Positions(list) == DOMAIN list
Named(list, name) == {i \in Positions(list) : list[i].name = name}
Has(list, name) == Named(list, name) # {}
ServiceNames(list) == {list[i].name : i \in Positions(list)}

Only(S) == CHOOSE x \in S : TRUE
IsUnique(S) == \E x \in S : S = {x}

AtHost(list, host) == {i \in Positions(list) : list[i].host = host}
AtPattern(list, host, path) == {i \in AtHost(list, host) : list[i].path = path}

CredentialKeys(auth) == {auth} \cap Keys
References(svc) == CredentialKeys(svc.auth) \cup svc.subs

NamesDistinct(list) ==
  \A i, j \in Positions(list) : list[i].name = list[j].name => i = j

(***************************************************************************)
(* broker.Validate: what a direct write must satisfy.                      *)
(***************************************************************************)
ValidServices(list) ==
  /\ \A i \in Positions(list) : list[i].name # NoName /\ list[i].auth # NoAuth
  /\ NamesDistinct(list)

(***************************************************************************)
(* adoptByHost: an entry with no name takes the name of the one service    *)
(* with its host and path; with rebindStale so does an entry whose name    *)
(* is not in the list any more.                                            *)
(***************************************************************************)
AdoptedName(entry, list, rebindStale) ==
  LET same == AtPattern(list, entry.host, entry.path)
      open == entry.name = NoName \/ (rebindStale /\ ~Has(list, entry.name))
  IN IF open /\ IsUnique(same) THEN list[Only(same)].name ELSE entry.name

(***************************************************************************)
(* normalizeProposalServices.  A delete without a name is resolved by host *)
(* (and path when it has one); anything but one match is refused.          *)
(***************************************************************************)
DeleteTargets(entry, list) ==
  {i \in AtHost(list, entry.host) : entry.path = NoPath \/ list[i].path = entry.path}

UnnamedDelete(entry) == entry.action = DeleteAction /\ entry.name = NoName

Normalizable(entries, list) ==
  \A i \in DOMAIN entries :
    UnnamedDelete(entries[i]) => IsUnique(DeleteTargets(entries[i], list))

NormalizedName(entry, list) ==
  IF UnnamedDelete(entry) THEN list[Only(DeleteTargets(entry, list))].name
  ELSE IF entry.action = SetAction THEN AdoptedName(entry, list, TRUE)
  ELSE entry.name

NormalizeOnlyUnnamed(entries, list) ==
  [i \in DOMAIN entries |->
     [entries[i] EXCEPT !.name = IF @ = NoName THEN NormalizedName(entries[i], list) ELSE @]]

Normalize(entries, list) ==
  [i \in DOMAIN entries |-> [entries[i] EXCEPT !.name = NormalizedName(entries[i], list)]]

(***************************************************************************)
(* MergeServices: the entries are applied in order, each by name.  A       *)
(* delete removes the one service its name is the index of.                *)
(***************************************************************************)
ToService(entry) ==
  [name |-> entry.name, host |-> entry.host, path |-> entry.path,
   auth |-> entry.auth, enabled |-> entry.enabled, subs |-> entry.subs]

EnableOnly(entry) == entry.auth = NoAuth /\ entry.enabled # "unset"

Without(list, name) ==
  IF Has(list, name) THEN RemoveAt(list, Only(Named(list, name))) ELSE list

DropsSubstitutions(svc, entry) ==
  IF EnableOnly(entry) THEN [svc EXCEPT !.enabled = entry.enabled] ELSE ToService(entry)

UpdatedService(svc, entry) ==
  IF EnableOnly(entry) THEN [svc EXCEPT !.enabled = entry.enabled]
  ELSE [ToService(entry) EXCEPT !.subs = IF entry.subs = {} THEN svc.subs ELSE entry.subs]

MergeAlwaysAppends(list, entry) ==
  IF entry.action = DeleteAction THEN Without(list, entry.name)
  ELSE Append(list, ToService(entry))

MergeEntry(list, entry) ==
  IF entry.action = DeleteAction THEN Without(list, entry.name)
  ELSE IF ~Has(list, entry.name) THEN Append(list, ToService(entry))
  ELSE [i \in Positions(list) |->
          IF list[i].name = entry.name THEN UpdatedService(list[i], entry) ELSE list[i]]

MergeServices(list, entries) ==
  LET after[i \in 0..Len(entries)] ==
        IF i = 0 THEN list ELSE MergeEntry(after[i - 1], entries[i])
  IN after[Len(entries)]

(***************************************************************************)
(* proposal.Validate and ValidateCredentialRefs.  slots[k] is "none",      *)
(* "delete", "ask" (a set slot the reviewer fills) or the value the agent  *)
(* supplied.  The length limits are not modelled.                          *)
(***************************************************************************)
SlotStates == {"none", "delete", "ask"}

SetSlots(slots) == {k \in Keys : slots[k] \notin {"none", "delete"}}
UsedSlots(slots) == {k \in Keys : slots[k] # "none"}

EntryReferences(entries) ==
  UNION {References(entries[i]) :
           i \in {j \in DOMAIN entries :
                    entries[j].action = SetAction /\ entries[j].auth # NoAuth}}

ValidProposal(entries, slots) ==
  /\ entries # <<>> \/ UsedSlots(slots) # {}
  /\ \A i \in DOMAIN entries :
       /\ entries[i].name # NoName
       /\ entries[i].action = SetAction =>
            /\ entries[i].auth # NoAuth \/ entries[i].enabled # "unset"
            /\ entries[i].subs # {} => entries[i].auth # NoAuth
  /\ NamesDistinct(entries)
  /\ entries # <<>> => SetSlots(slots) \subseteq EntryReferences(entries)

ValidCredentialRefs(entries, slots, storedKeys) ==
  EntryReferences(entries) \subseteq SetSlots(slots) \cup storedKeys

(***************************************************************************)
(* Approval resolves every set slot: the reviewer's override, else the     *)
(* agent's value, else the request is refused.  overrides[k] = NoValue     *)
(* when the reviewer gives none.                                           *)
(***************************************************************************)
Resolvable(slots, overrides) ==
  \A k \in SetSlots(slots) : slots[k] = "ask" => overrides[k] # NoValue

CredentialsAfter(creds, slots, overrides) ==
  [k \in Keys |->
     IF slots[k] = "none" THEN creds[k]
     ELSE IF slots[k] = "delete" THEN NoValue
     ELSE IF overrides[k] # NoValue THEN overrides[k] ELSE slots[k]]

(***************************************************************************)
(* The direct edits of handle_services.go.  ref is a service name or, when *)
(* no service has that name, a host that one service has.                  *)
(***************************************************************************)
EditType ==
  [op : {"upsert", "set"}, services : Seq(ServiceType)]
    \cup [op : {"remove"}, ref : Names \cup Hosts]
    \cup [op : {"patch"}, ref : Names \cup Hosts, enabled : Flags]
    \cup [op : {"clear"}]

RefTargets(list, ref) ==
  IF Has(list, ref) THEN Named(list, ref) ELSE AtHost(list, ref)

Adopted(services, list) ==
  [i \in DOMAIN services |->
     [services[i] EXCEPT !.name = AdoptedName(services[i], list, FALSE)]]

UpsertService(list, svc) ==
  IF Has(list, svc.name)
  THEN [i \in Positions(list) |-> IF list[i].name = svc.name THEN svc ELSE list[i]]
  ELSE Append(list, svc)

UpsertServices(list, services) ==
  LET adopted == Adopted(services, list)
      after[i \in 0..Len(services)] ==
        IF i = 0 THEN list ELSE UpsertService(after[i - 1], adopted[i])
  IN after[Len(services)]

EditAllowed(list, edit) ==
  \/ edit.op = "upsert" /\ edit.services # <<>> /\ ValidServices(Adopted(edit.services, list))
  \/ edit.op \in {"remove", "patch"} /\ IsUnique(RefTargets(list, edit.ref))
  \/ edit.op = "set" /\ ValidServices(edit.services)
  \/ edit.op = "clear"

Edited(list, edit) ==
  CASE edit.op = "upsert" -> UpsertServices(list, edit.services)
    [] edit.op = "remove" -> RemoveAt(list, Only(RefTargets(list, edit.ref)))
    [] edit.op = "patch"  -> [list EXCEPT ![Only(RefTargets(list, edit.ref))].enabled = edit.enabled]
    [] edit.op = "set"    -> edit.services
    [] edit.op = "clear"  -> <<>>
================================================================================
