------------------------------ MODULE ListHistory ------------------------------
(***************************************************************************)
(* Sequential histories of one service list: direct edits and approvals in *)
(* any order.  What normalising and merging a proposal leaves, and what    *)
(* the matcher and the healing of names answer, is compared with what it   *)
(* should be, stated without the order in which the code works.            *)
(***************************************************************************)
EXTENDS ServiceList, Matching

CONSTANTS
  ListEdits,    \* direct edits of the list
  Submissions,  \* the entries of proposals, as agents send them
  Probes,       \* lists and requests put before the matcher, lists to be healed
  Chars,        \* of paths
  Labels,       \* of hosts
  Slugs         \* what Slugify makes of a host and a path

(* What the matcher and the healing see of a service. *)
MatchProbe ==
  [kind : {"match"}, host : Seq(Labels), path : Seq(Chars),
   list : Seq([host : [wild : BOOLEAN, labels : Seq(Labels)], path : Seq(Chars \cup {Star})])]

SlugNames == Slugs \X (Nat \ {0})

HealProbe == [kind : {"heal"}, list : Seq([name : {NoName} \cup SlugNames, slug : Slugs])]

ASSUME ListEditsType == ListEdits \subseteq EditType
ASSUME SubmissionsType == Submissions \subseteq Seq(EntryType)
ASSUME ProbesType == Probes \subseteq MatchProbe \cup HealProbe
ASSUME NoNameIsNoSlug == NoName \notin SlugNames

VARIABLES catalog,   \* the stored list
          asked,     \* the entries under review as they were last stored
          proposed,  \* the same, normalised against the list
          merged,    \* what approving them now would store
          probe      \* what is before the matcher

catalogVars == <<catalog, asked, proposed, merged>>

NoSlots == [k \in Keys |-> "none"]
NoProbe == [kind |-> "none"]

ListInit ==
  /\ catalog = <<>> /\ asked = <<>> /\ proposed = <<>> /\ merged = <<>>
  /\ probe = NoProbe

EditCatalog(e) ==
  /\ EditAllowed(catalog, e)
  /\ catalog' = Edited(catalog, e)
  /\ asked' = <<>> /\ proposed' = <<>>
  /\ merged' = catalog'

(* A proposal that was valid when it was created reaches its review. *)
Review(p) ==
  /\ Normalizable(p, catalog)
  /\ ValidProposal(Normalize(p, catalog), NoSlots)
  /\ asked' = p
  /\ proposed' = Normalize(p, catalog)
  /\ merged' = MergeServices(catalog, proposed')
  /\ UNCHANGED catalog

(* The named entries, kept while the list changed, are normalised again. *)
ReviewStale(e) ==
  /\ proposed # <<>>
  /\ EditAllowed(catalog, e)
  /\ catalog' = Edited(catalog, e)
  /\ Normalizable(proposed, catalog')
  /\ asked' = proposed
  /\ proposed' = Normalize(proposed, catalog')
  /\ merged' = MergeServices(catalog', proposed')

ApproveReviewed ==
  /\ catalog' = merged
  /\ asked' = <<>> /\ proposed' = <<>>
  /\ UNCHANGED merged

History ==
  \/ \E e \in ListEdits : EditCatalog(e)
  \/ \E p \in Submissions : Review(p)
  \/ \E e \in ListEdits : ReviewStale(e)
  \/ ApproveReviewed

(* Probes do not depend on the list: they are made while it is empty. *)
BeginProbe ==
  /\ catalog = <<>> /\ proposed = <<>> /\ merged = <<>> /\ probe = NoProbe
  /\ probe' \in Probes
  /\ UNCHANGED catalogVars

EndProbe ==
  /\ probe # NoProbe /\ probe' = NoProbe
  /\ UNCHANGED catalogVars

ListNext ==
  \/ probe = NoProbe /\ History /\ UNCHANGED probe
  \/ BeginProbe
  \/ EndProbe

ListSpec == ListInit /\ [][ListNext]_<<catalogVars, probe>>

--------------------------------------------------------------------------------
(* The services of a list that have a name: one or none, names being keys. *)
Under(list, name) == {list[i] : i \in Named(list, name)}

(* The reference: what one entry leaves of the services under its name.    *)
Leaves(entry, old) ==
  IF entry.action = DeleteAction THEN {}
  ELSE IF old = {} THEN {ToService(entry)}
  ELSE IF entry.auth = NoAuth THEN {[svc EXCEPT !.enabled = entry.enabled] : svc \in old}
  ELSE {[name |-> entry.name, host |-> entry.host, path |-> entry.path,
         auth |-> entry.auth, enabled |-> entry.enabled,
         subs |-> IF entry.subs = {} THEN svc.subs ELSE entry.subs] : svc \in old}

(* The services of other names are the same, and in the same order.        *)
Outside(list, names) == {i \in Positions(list) : list[i].name \notin names}

SameOutside(before, after, names) ==
  /\ {before[i] : i \in Outside(before, names)} = {after[i] : i \in Outside(after, names)}
  /\ \A i, j \in Outside(before, names), k, l \in Outside(after, names) :
       before[i] = after[k] /\ before[j] = after[l] /\ i < j => k < l

(* Entries with different names merge independently of their order, each   *)
(* as its reference says: substitutions survive a set without any, and an  *)
(* enable-only entry changes nothing but the flag.  The services that the  *)
(* proposal does not name stay as they were, in their order.               *)
MergeMeetsReference ==
  /\ SameOutside(catalog, merged, ServiceNames(proposed))
  /\ NamesDistinct(proposed) =>
       \A i \in DOMAIN proposed :
         Under(merged, proposed[i].name) = Leaves(proposed[i], Under(catalog, proposed[i].name))

(* A proposal made before a rename still changes the one service at its    *)
(* host and path, and never adds a second one beside it: when no other     *)
(* entry sets a service there, what is there afterwards is that service.   *)
MergeNeverShadows ==
  \A i \in DOMAIN asked :
    LET e == asked[i]
        at(list) == AtPattern(list, e.host, e.path)
        alone == \A j \in DOMAIN asked \ {i} :
                   asked[j].action = SetAction => asked[j].host # e.host \/ asked[j].path # e.path
    IN e.action = SetAction /\ ~Has(catalog, e.name) /\ IsUnique(at(catalog)) /\ alone =>
         /\ \A k \in at(merged) : merged[k].name = catalog[Only(at(catalog))].name
         /\ Cardinality(at(merged)) <= 1

(* The language of a path pattern: every character of it takes its own     *)
(* from the path, and a star any stretch of it.  from[i] is where in the   *)
(* path the i-th character of the pattern begins.                          *)
InLanguage(pattern, path) ==
  \E from \in [1..Len(pattern) + 1 -> 1..Len(path) + 1] :
    /\ from[1] = 1 /\ from[Len(pattern) + 1] = Len(path) + 1
    /\ \A i \in DOMAIN pattern :
         IF pattern[i] = Star THEN from[i] <= from[i + 1]
         ELSE from[i + 1] = from[i] + 1 /\ path[from[i]] = pattern[i]

(* The characters before the first star.                                   *)
LiteralPrefix(pattern) ==
  {i \in DOMAIN pattern : \A k \in 1..i : pattern[k] # Star}

(* The rules of docs/learn/services.mdx:250-252: an exact host beats every *)
(* wildcard, which stands for one label; then the longest literal prefix;  *)
(* then the order of the list.  Something matches unless nothing could:    *)
(* looking for the parts of a path from left to right, each at its first   *)
(* occurrence, finds a match whenever there is one (broker.go:541-612).    *)
BestMatchWins ==
  probe.kind = "match" =>
    LET services == probe.list
        exact(i) == ~services[i].host.wild
        matches(i) ==
          /\ services[i].path = <<>> \/ InLanguage(services[i].path, probe.path)
          /\ IF exact(i) THEN services[i].host.labels = probe.host
             ELSE \E label \in Labels : probe.host = <<label>> \o services[i].host.labels
        prefix(i) == Cardinality(LiteralPrefix(services[i].path))
        beats(i, j) ==
          \/ exact(i) /\ ~exact(j)
          \/ exact(i) = exact(j) /\ prefix(i) > prefix(j)
          \/ exact(i) = exact(j) /\ prefix(i) = prefix(j) /\ i < j
        found == MatchService(probe.host, probe.path, services)
    IN IF found = 0 THEN \A i \in DOMAIN services : ~matches(i)
       ELSE /\ found \in DOMAIN services /\ matches(found)
            /\ \A i \in DOMAIN services \ {found} : matches(i) => beats(found, i)

(* Healing a list on a read gives every entry a name of its own and leaves *)
(* the given names alone: a log row or a filter names one service.         *)
NamesHealed ==
  probe.kind = "heal" =>
    LET healed == AssignSlugNames(probe.list, NoName)
        given == {i \in DOMAIN probe.list : probe.list[i].name # NoName}
    IN /\ NoName \notin NamesOf(healed)
       /\ \A i \in given : healed[i].name = probe.list[i].name
       /\ \A i \in DOMAIN probe.list \ given, j \in DOMAIN probe.list :
            i # j => healed[i].name # healed[j].name
================================================================================
