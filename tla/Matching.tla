------------------------------ MODULE Matching ------------------------------
(***************************************************************************)
(* Which service a request meets: the matcher of broker/broker.go, and the *)
(* names that entries from before names existed are given on every read.   *)
(*                                                                         *)
(* A host is the sequence of its labels; a host pattern may have "*." in   *)
(* front of its labels.  A path is a sequence of characters and a path     *)
(* pattern one that may hold Star.  A service name is a slug and the       *)
(* number of its "-n" suffix, 1 when it has none.  Ports, letter case and  *)
(* the limits on length are not modelled.  A loop of the code is a         *)
(* recursive function from the number of rounds to what they left.         *)
(***************************************************************************)
EXTENDS Naturals, FiniteSets, Sequences

CONSTANT Star

HostTierWildcard == 1
HostTierExact == 2
NoMatch == [ok |-> FALSE]

(***************************************************************************)
(* matchHostPattern: "*." stands for exactly one label.                    *)
(***************************************************************************)
MatchHostPattern(pattern, host) ==
  IF ~pattern.wild /\ pattern.labels = host THEN [ok |-> TRUE, tier |-> HostTierExact]
  ELSE IF pattern.wild /\ host # <<>> /\ Tail(host) = pattern.labels
    THEN [ok |-> TRUE, tier |-> HostTierWildcard]
  ELSE NoMatch

(***************************************************************************)
(* strings.Split(pattern, "*"): the parts lie between the front, the stars *)
(* in their order, and the end.                                            *)
(***************************************************************************)
Stars(pattern) == {i \in DOMAIN pattern : pattern[i] = Star}

Cuts(pattern) ==
  LET ends == Stars(pattern) \cup {Len(pattern) + 1}
      cut[j \in 0..Cardinality(ends)] ==
        IF j = 0 THEN 0
        ELSE CHOOSE i \in ends : i > cut[j - 1] /\ \A k \in ends : k > cut[j - 1] => i <= k
  IN cut

Split(pattern) ==
  [j \in 1..Cardinality(Stars(pattern)) + 1 |->
     SubSeq(pattern, Cuts(pattern)[j - 1] + 1, Cuts(pattern)[j] - 1)]

(***************************************************************************)
(* matchPathGlob: the path must begin with the first part, then each part  *)
(* in between is looked for from where the one before ended, and what is   *)
(* left must end with the last part.  The rest of a path is the place      *)
(* where it begins, 0 when a part was not found.                           *)
(***************************************************************************)
Occurs(part, path, at) ==
  /\ at + Len(part) <= Len(path) + 1
  /\ \A k \in 1..Len(part) : path[at + k - 1] = part[k]

AfterFirst(part, path, from) ==
  LET found == {at \in from..Len(path) + 1 : Occurs(part, path, at)}
  IN IF found = {} THEN 0
     ELSE (CHOOSE at \in found : \A other \in found : at <= other) + Len(part)

Rests(parts, path) ==
  LET rest[j \in 0..Len(parts) - 1] ==
        IF j = 0 THEN 1
        ELSE IF j = 1 THEN IF Occurs(parts[1], path, 1) THEN Len(parts[1]) + 1 ELSE 0
        ELSE IF rest[j - 1] = 0 THEN 0
        ELSE AfterFirst(parts[j], path, rest[j - 1])
  IN rest

HasSuffix(path, from, part) ==
  /\ from + Len(part) <= Len(path) + 1
  /\ Occurs(part, path, Len(path) + 1 - Len(part))

MatchPathGlob(pattern, path) ==
  LET parts == Split(pattern)
      n == Len(parts)
      rest == Rests(parts, path)[n - 1]
  IN IF \/ pattern = <<>>
        \/ n = 1 /\ path = pattern
        \/ n > 1 /\ rest # 0 /\ HasSuffix(path, rest, parts[n])
     THEN [ok |-> TRUE, literal |-> Len(parts[1])] ELSE NoMatch

(***************************************************************************)
(* MatchService: the best match by host tier and literal prefix, the first *)
(* one among equals.  The result is an index, 0 without a match; whether   *)
(* the service is enabled is asked afterwards.                             *)
(***************************************************************************)
Score(svc, host, path) ==
  LET h == MatchHostPattern(svc.host, host)
      p == MatchPathGlob(svc.path, path)
  IN IF h.ok /\ p.ok THEN [ok |-> TRUE, tier |-> h.tier, literal |-> p.literal] ELSE NoMatch

BetterByPath(s, t) == s.literal > t.literal \/ (s.literal = t.literal /\ s.tier > t.tier)

Better(s, t) == s.tier > t.tier \/ (s.tier = t.tier /\ s.literal > t.literal)

MatchService(host, path, services) ==
  LET score(i) == Score(services[i], host, path)
      best[i \in 0..Len(services)] ==
        IF i = 0 THEN 0
        ELSE IF score(i).ok /\ (best[i - 1] = 0 \/ Better(score(i), score(best[i - 1])))
             THEN i ELSE best[i - 1]
  IN best[Len(services)]

(***************************************************************************)
(* AssignSlugNames: an entry without a name gets the slug of its host and  *)
(* path, with the lowest suffix that no entry of the list has.             *)
(***************************************************************************)
NamesOf(services) == {services[i].name : i \in DOMAIN services}

SlugAsIs(slug, taken) == <<slug, 1>>

DisambiguateSlug(slug, taken) ==
  <<slug, CHOOSE n \in 1..Cardinality(taken) + 1 :
            <<slug, n>> \notin taken /\ \A m \in 1..n - 1 : <<slug, m>> \in taken>>

Heal(services, i, NoName) ==
  IF services[i].name # NoName THEN services
  ELSE [services EXCEPT ![i].name = DisambiguateSlug(services[i].slug, NamesOf(services))]

AssignSlugNames(services, NoName) ==
  LET healed[i \in 0..Len(services)] ==
        IF i = 0 THEN services ELSE Heal(healed[i - 1], i, NoName)
  IN healed[Len(services)]

=============================================================================
