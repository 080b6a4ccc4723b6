----------------------------- MODULE MCServiceList -----------------------------
(***************************************************************************)
(* Histories of a list at one host: names, paths and credentials differ.   *)
(* Apart from the histories, probes put lists of services before the       *)
(* matcher and the healing of names; their labels, characters and slugs    *)
(* are numbers.                                                            *)
(***************************************************************************)
EXTENDS ListHistory, TLC

CONSTANTS n1, n2, n3, h1, p1, k1, k2

MCNames == {n1, n2, n3}
MCHosts == {h1}
MCPaths == {p1}
MCKeys == {k1, k2}

Svc(name, host, path, auth, subs) ==
  [name |-> name, host |-> host, path |-> path, auth |-> auth, enabled |-> "unset",
   subs |-> subs]

Set(name, host, path, auth, subs) ==
  [action |-> "set", name |-> name, host |-> host, path |-> path, auth |-> auth,
   enabled |-> "unset", subs |-> subs]

Turn(name, host, enabled) ==
  [action |-> "set", name |-> name, host |-> host, path |-> NoPath, auth |-> NoAuth,
   enabled |-> enabled, subs |-> {}]

Drop(name, host, path) ==
  [action |-> "delete", name |-> name, host |-> host, path |-> path, auth |-> NoAuth,
   enabled |-> "unset", subs |-> {}]

MCEdits ==
  {[op |-> "upsert", services |-> <<Svc(n1, h1, NoPath, k1, {k2})>>],
   [op |-> "upsert", services |-> <<Svc(NoName, h1, NoPath, k2, {}), Svc(n3, h1, p1, k1, {})>>],
   [op |-> "set", services |-> <<Svc(n3, h1, NoPath, k1, {k1})>>],
   [op |-> "remove", ref |-> h1],
   [op |-> "patch", ref |-> n3, enabled |-> "off"],
   [op |-> "clear"]}

Replace   == Set(n1, h1, NoPath, k2, {})
AddSecond == Set(n2, h1, NoPath, k1, {k2})
AddScoped == Set(NoName, h1, p1, k1, {})
TurnOff   == Turn(n1, h1, "off")
DropNamed == Drop(n2, h1, NoPath)
DropHost  == Drop(NoName, h1, NoPath)
DropScope == Drop(NoName, h1, p1)

MCSubmissions ==
  {<<e>> : e \in {Replace, AddScoped, TurnOff, DropNamed, DropHost, DropScope}}
    \cup {<<Replace, AddSecond>>, <<AddSecond, TurnOff>>, <<DropScope, AddSecond>>,
          <<AddSecond, DropHost>>}

MCChars == {1, 2}
MCLabels == 1..3
MCSlugs == {1, 2}

Words(chars, n) == UNION {[1..i -> chars] : i \in 0..n}

Host(wild, labels) == [wild |-> wild, labels |-> labels]

(* One path pattern before every path: two stars and literals around them. *)
Globs == {[kind |-> "match", host |-> <<1>>, path |-> path,
           list |-> <<[host |-> Host(FALSE, <<1>>), path |-> pattern]>>] :
            path \in Words(MCChars, 4), pattern \in Words({1, 2, Star}, 4)}

(* Lists whose entries match by host, by path, by both, in every order.    *)
Pool == [host : {Host(FALSE, <<1, 2>>), Host(TRUE, <<2>>), Host(TRUE, <<1, 2>>)},
         path : {<<>>, <<1>>, <<1, Star>>, <<Star, 2>>, <<1, 2, Star>>}]
Lists == {[kind |-> "match", host |-> host, path |-> path, list |-> list] :
            host \in {<<1, 2>>, <<3, 2>>, <<3, 1, 2>>}, path \in {<<1>>, <<1, 2>>},
            list \in [1..3 -> Pool]}

(* Entries with and without a name, whose slugs collide.                   *)
Unnamed == {[kind |-> "heal", list |-> list] :
              list \in [1..3 -> [name : {NoName, <<1, 1>>, <<1, 2>>, <<2, 1>>}, slug : {1, 2}]]}

MCProbes == Globs \cup Lists \cup Unnamed
================================================================================
