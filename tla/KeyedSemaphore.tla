------------------------------- MODULE KeyedSemaphore -----------------------------
(***************************************************************************)
(* keyedSemaphore of internal/ratelimit/semaphore.go: a bound on the       *)
(* concurrent requests of one (actor, vault), taken by the proxy for the   *)
(* whole upstream call.                                                    *)
(*                                                                         *)
(* The map is read and pruned under a mutex, but the semaphore found there *)
(* is used after the mutex is released, and a slot and the holder count    *)
(* that eviction looks at are two steps.  Semaphores are numbered in the   *)
(* order they are made; a worker is one request at a time.                 *)
(*                                                                         *)
(* maxKeys is a constant: MaxKeys is 10000 in every configuration that     *)
(* config.go builds, neither the environment nor the stored setting has it,*)
(* and the 0 of the profile off is ignored by reconfigure.                 *)
(***************************************************************************)
EXTENDS Naturals, FiniteSets

CONSTANTS
  Keys, Workers,
  Capacities,   \* values of Concurrency an operator configures
  MaxKeys,
  MaxSems       \* bound of the model: semaphores made

ASSUME SetsFinite == IsFiniteSet(Keys) /\ IsFiniteSet(Workers)
ASSUME CapacitiesType == Capacities \subseteq Nat \ {0} /\ Capacities # {}
ASSUME BoundsType == MaxKeys \in Nat \ {0} /\ MaxSems \in Nat

VARIABLES
  capacity,    \* of semaphores made from now on
  sems,        \* key -> semaphore, for the keys in the map
  made,        \* semaphores made so far: 1..made
  cap, slots, held,   \* of each semaphore
  pc,
  key, sem,    \* of each worker's request
  evicted      \* history: the keys that ever lost their semaphore

vars == <<capacity, sems, made, cap, slots, held, pc, key, sem, evicted>>
counters == <<capacity, sems, made, cap, evicted>>

Made == 1..made
Holding(s) == {w \in Workers : pc[w] \in {"count", "upstream"} /\ sem[w] = s}
InFlight(k) == {w \in Workers : pc[w] \in {"count", "upstream"} /\ key[w] = k}

Init ==
  /\ capacity \in Capacities
  /\ sems = [k \in {} |-> 0]
  /\ made = 0
  /\ cap = [s \in {} |-> 0]
  /\ slots = [s \in {} |-> 0]
  /\ held = [s \in {} |-> 0]
  /\ pc = [w \in Workers |-> "idle"]
  /\ key \in [Workers -> Keys]
  /\ sem = [w \in Workers |-> 0]
  /\ evicted = {}

With(f, x, v) == [y \in DOMAIN f \cup {x} |-> IF y = x THEN v ELSE f[y]]

GoTo(w, label) == pc' = [pc EXCEPT ![w] = label]

(* evictLocked: the maps that can be left of m.  One entry too many goes, a
   semaphore without holders if there is one, any but the new key's if not. *)
EvictLocked(m, skip, counts) ==
  LET idle == {k \in DOMAIN m \ {skip} : counts[m[k]] = 0}
      victims == IF idle # {} THEN idle ELSE DOMAIN m \ {skip}
  IN IF Cardinality(DOMAIN m) <= MaxKeys
     THEN {m}
     ELSE {[k \in DOMAIN m \ {v} |-> m[k]] : v \in victims}

(* keyedSemaphore.acquire, up to the release of the mutex. *)
Find(w, k) ==
  /\ k \in DOMAIN sems
  /\ sem' = [sem EXCEPT ![w] = sems[k]]
  /\ UNCHANGED <<sems, made, cap, slots, held, evicted>>

Make(w, k) ==
  LET s == made + 1
  IN /\ k \notin DOMAIN sems
     /\ made < MaxSems
     /\ made' = s
     /\ cap' = With(cap, s, capacity)
     /\ slots' = With(slots, s, 0)
     /\ held' = With(held, s, 0)
     /\ sem' = [sem EXCEPT ![w] = s]
     /\ sems' \in EvictLocked(With(sems, k, s), k, With(held, s, 0))
     /\ evicted' = evicted \cup (DOMAIN sems \ DOMAIN sems')

Lookup(w, k) ==
  /\ pc[w] = "idle"
  /\ key' = [key EXCEPT ![w] = k]
  /\ Find(w, k) \/ Make(w, k)
  /\ GoTo(w, "wait")
  /\ UNCHANGED capacity

TakeAlways(w) ==
  /\ pc[w] = "wait"
  /\ slots' = [slots EXCEPT ![sem[w]] = @ + 1]
  /\ GoTo(w, "count")
  /\ UNCHANGED <<counters, held, key, sem>>

(* semaphore.acquire: the slot, now or within the wait budget; *)
Take(w) ==
  /\ pc[w] = "wait"
  /\ slots[sem[w]] < cap[sem[w]]
  /\ slots' = [slots EXCEPT ![sem[w]] = @ + 1]
  /\ GoTo(w, "count")
  /\ UNCHANGED <<counters, held, key, sem>>

(* the holder count; *)
Count(w) ==
  /\ pc[w] = "count"
  /\ held' = [held EXCEPT ![sem[w]] = @ + 1]
  /\ GoTo(w, "upstream")
  /\ UNCHANGED <<counters, slots, key, sem>>

WaitsForSlot(w) ==
  /\ pc[w] = "wait"
  /\ slots[sem[w]] < cap[sem[w]]
  /\ GoTo(w, "idle")
  /\ UNCHANGED <<counters, slots, held, key, sem>>

(* or the end of the budget, or of the request. *)
GiveUp(w) ==
  /\ pc[w] = "wait"
  /\ GoTo(w, "idle")
  /\ UNCHANGED <<counters, slots, held, key, sem>>

ReleaseKeepsSlot(w) ==
  /\ pc[w] = "upstream"
  /\ GoTo(w, "uncount")
  /\ UNCHANGED <<counters, slots, held, key, sem>>

(* releaseOnce, deferred by the proxy's handler. *)
Release(w) ==
  /\ pc[w] = "upstream"
  /\ slots' = [slots EXCEPT ![sem[w]] = @ - 1]
  /\ GoTo(w, "uncount")
  /\ UNCHANGED <<counters, held, key, sem>>

Uncount(w) ==
  /\ pc[w] = "uncount"
  /\ held' = [held EXCEPT ![sem[w]] = @ - 1]
  /\ GoTo(w, "idle")
  /\ UNCHANGED <<counters, slots, key, sem>>

(* reconfigure: semaphores in the map keep the capacity they were made with. *)
Reconfigure(c) ==
  /\ c # capacity
  /\ capacity' = c
  /\ UNCHANGED <<sems, made, cap, slots, held, pc, key, sem, evicted>>

Prompt(w) == Take(w) \/ Count(w) \/ GiveUp(w) \/ Uncount(w)
Step(w) == Prompt(w) \/ Release(w)

Next ==
  \/ \E w \in Workers, k \in Keys : Lookup(w, k)
  \/ \E w \in Workers : Step(w)
  \/ \E c \in Capacities : Reconfigure(c)

Spec == Init /\ [][Next]_vars

(* The wait is bounded by a timer, and code runs on.  Nothing makes an upstream
   call end: a tunnelled websocket keeps its slot for as long as it is alive. *)
FairSpec == Spec /\ \A w \in Workers : WF_vars(Prompt(w))

--------------------------------------------------------------------------------
PCs == {"idle", "wait", "count", "upstream", "uncount"}

(* Type invariant: semaphores in use exist, and no two keys share one. *)
TypeOK ==
  /\ capacity \in Capacities
  /\ made \in Nat
  /\ DOMAIN sems \subseteq Keys
  /\ \A k \in DOMAIN sems : sems[k] \in Made
  /\ \A j, k \in DOMAIN sems : sems[j] = sems[k] => j = k
  /\ cap \in [Made -> Nat \ {0}] /\ slots \in [Made -> Nat] /\ held \in [Made -> Nat]
  /\ pc \in [Workers -> PCs]
  /\ key \in [Workers -> Keys]
  /\ DOMAIN sem = Workers
  /\ \A w \in Workers : pc[w] # "idle" => sem[w] \in Made

(* A slot per holder, never more than the semaphore was made for: no release
   is lost or made twice. *)
SlotsCounted ==
  \A s \in Made : slots[s] = Cardinality(Holding(s)) /\ slots[s] <= cap[s]

(* Between its two steps a holder is missing from the count or still in it;
   otherwise the count that eviction trusts is exact. *)
HeldCounted ==
  \A s \in Made :
    held[s] = Cardinality({w \in Workers : pc[w] \in {"upstream", "uncount"} /\ sem[w] = s})

Limited(k) == \E c \in Capacities : Cardinality(InFlight(k)) <= c

(* The limit itself: at most Concurrency upstream calls at a time per key, also
   across a change of Concurrency, as long as the key keeps its semaphore:
   evictions of other keys do not disturb it. *)
KeyCap == \A k \in Keys \ evicted : Limited(k)

(* "maxKeys evicts idle (fully-released) semaphores": so eviction would not
   matter to the limit of any key. *)
OnlyIdleEvicted == \A k \in Keys : Limited(k)

(* A request stays nowhere but at the upstream, even when every slot is held
   for ever or its semaphore was evicted while it waited. *)
OnlyUpstreamLasts ==
  \A w \in Workers : pc[w] # "idle" ~> pc[w] \in {"idle", "upstream"}

================================================================================
