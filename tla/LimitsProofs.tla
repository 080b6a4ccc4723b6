--------------------------------- MODULE LimitsProofs ---------------------------------
(***************************************************************************)
(* Theorems about the three limiters, for any keys and any limits: the     *)
(* semaphores of KeyedSemaphore, the buckets of TokenBucket, the windows   *)
(* of SlidingWindow.                                                       *)
(***************************************************************************)
EXTENDS KeyedSemaphore, TokenBucket, SlidingWindow, FiniteSetTheorems,
        WellFoundedInduction, TLAPS

Counting(s) == {w \in Workers : pc[w] \in {"upstream", "uncount"} /\ sem[w] = s}

(* Semaphores have a configured capacity, and none is lent beyond it.      *)
CapInv == \A s \in Made : cap[s] \in Capacities

IInv == TypeOK /\ SlotsCounted /\ HeldCounted /\ CapInv

(* A request uses its key's semaphore, unless that was ever evicted.       *)
Current ==
  \A w \in Workers : pc[w] # "idle" /\ key[w] \notin evicted =>
                        key[w] \in DOMAIN sems /\ sem[w] = sems[key[w]]

(* What eviction leaves is part of the map, with the new key; it leaves all
   of a map that fits.                                                     *)
LEMMA EvictedPart ==
  ASSUME NEW m, NEW skip \in DOMAIN m, NEW counts, NEW left \in EvictLocked(m, skip, counts),
         m = [k \in DOMAIN m |-> m[k]]
  PROVE  /\ DOMAIN left \subseteq DOMAIN m
         /\ skip \in DOMAIN left
         /\ \A k \in DOMAIN left : left[k] = m[k]
         /\ Cardinality(DOMAIN m) <= MaxKeys => left = m
<1>1. CASE Cardinality(DOMAIN m) <= MaxKeys
  BY <1>1 DEF EvictLocked
<1>2. CASE ~ (Cardinality(DOMAIN m) <= MaxKeys)
  <2>1. PICK v \in DOMAIN m \ {skip} : left = [k \in DOMAIN m \ {v} |-> m[k]]
    BY <1>2 DEF EvictLocked
  <2> QED BY <1>2, <2>1
<1> QED BY <1>1, <1>2

(* Adding a worker to a set of workers, or taking one out, counts one.     *)
LEMMA OneMore ==
  ASSUME NEW S \in SUBSET Workers, NEW w \in Workers \ S
  PROVE  /\ Cardinality(S \cup {w}) = Cardinality(S) + 1
         /\ Cardinality(S) \in Nat
<1>1. IsFiniteSet(S)
  BY SetsFinite, FS_Subset
<1> QED BY <1>1, FS_AddElement, FS_CardinalityType

(* A holder less.                                                           *)
LEMMA OneLess ==
  ASSUME NEW S \in SUBSET Workers, NEW w \in S
  PROVE  /\ Cardinality(S \ {w}) = Cardinality(S) - 1
         /\ Cardinality(S) \in Nat
<1>1. IsFiniteSet(S)
  BY SetsFinite, FS_Subset
<1> QED BY <1>1, FS_RemoveElement, FS_CardinalityType

(* The new semaphore and what is left of the map.                          *)
LEMMA MakeStep ==
  ASSUME TypeOK, NEW w \in Workers, NEW k \in Keys, Make(w, k)
  PROVE  /\ DOMAIN sems' \subseteq DOMAIN sems \cup {k}
         /\ k \in DOMAIN sems'
         /\ \A j \in DOMAIN sems' : sems'[j] = IF j = k THEN made + 1 ELSE sems[j]
         /\ Cardinality(DOMAIN sems \cup {k}) <= MaxKeys => DOMAIN sems' = DOMAIN sems \cup {k}
         /\ made' = made + 1 /\ Made' = Made \cup {made + 1} /\ made + 1 \notin Made
<1> DEFINE m == With(sems, k, made + 1)
<1>1. DOMAIN m = DOMAIN sems \cup {k} /\ k \in DOMAIN m /\ m = [j \in DOMAIN m |-> m[j]]
  BY DEF With
<1>2. \A j \in DOMAIN m : m[j] = IF j = k THEN made + 1 ELSE sems[j]
  BY DEF With
<1>3. sems' \in EvictLocked(m, k, With(held, made + 1, 0))
  BY DEF Make
<1>4. /\ DOMAIN sems' \subseteq DOMAIN m /\ k \in DOMAIN sems'
      /\ \A j \in DOMAIN sems' : sems'[j] = m[j]
      /\ Cardinality(DOMAIN m) <= MaxKeys => sems' = m
  <2> HIDE DEF m
  <2> QED BY <1>1, <1>3, EvictedPart
<1>5. made' = made + 1 /\ Made' = Made \cup {made + 1} /\ made + 1 \notin Made
  BY DEF Make, Made, TypeOK
<1> QED BY <1>1, <1>2, <1>4, <1>5

(* Types are kept.                                                         *)
LEMMA TypeStep == TypeOK /\ SlotsCounted /\ HeldCounted /\ [Next]_vars => TypeOK'
<1> SUFFICES ASSUME TypeOK, SlotsCounted, HeldCounted, [Next]_vars PROVE TypeOK'
  OBVIOUS
<1> USE DEF TypeOK, PCs, GoTo, counters
<1>1. CASE UNCHANGED vars
  BY <1>1 DEF vars, Made
<1>2. ASSUME NEW w \in Workers, NEW k \in Keys, Lookup(w, k) PROVE TypeOK'
  <2>1. CASE Find(w, k)
    BY <1>2, <2>1 DEF Lookup, Find, Made
  <2>2. CASE Make(w, k)
    <3>1. /\ DOMAIN sems' \subseteq DOMAIN sems \cup {k}
          /\ \A j \in DOMAIN sems' : sems'[j] = IF j = k THEN made + 1 ELSE sems[j]
          /\ Cardinality(DOMAIN sems \cup {k}) <= MaxKeys => DOMAIN sems' = DOMAIN sems \cup {k}
         /\ made' = made + 1 /\ Made' = Made \cup {made + 1} /\ made + 1 \notin Made
      BY <2>2, MakeStep
    <3>2. /\ cap' \in [Made' -> Nat \ {0}] /\ slots' \in [Made' -> Nat] /\ held' \in [Made' -> Nat]
      BY <2>2, <3>1, CapacitiesType DEF Make, With
    <3>3. /\ DOMAIN sems' \subseteq Keys
          /\ \A j \in DOMAIN sems' : sems'[j] \in Made'
          /\ \A i, j \in DOMAIN sems' : sems'[i] = sems'[j] => i = j
      BY <3>1
    <3> QED BY <1>2, <2>2, <3>1, <3>2, <3>3 DEF Lookup, Make
  <2> QED BY <1>2, <2>1, <2>2 DEF Lookup
<1>3. ASSUME NEW w \in Workers, Take(w) PROVE TypeOK'
  <2>1. sem[w] \in Made /\ Made' = Made
    BY <1>3 DEF Take, Made
  <2>2. slots' \in [Made -> Nat]
    BY <1>3, <2>1 DEF Take
  <2> QED BY <1>3, <2>1, <2>2 DEF Take
<1>4. ASSUME NEW w \in Workers, Count(w) PROVE TypeOK'
  BY <1>4 DEF Count, Made
<1>5. ASSUME NEW w \in Workers, GiveUp(w) PROVE TypeOK'
  BY <1>5 DEF GiveUp, Made
<1>6. ASSUME NEW w \in Workers, Release(w) PROVE TypeOK'
  <2>1. w \in Holding(sem[w]) /\ sem[w] \in Made
    BY <1>6 DEF Release, Holding
  <2>2. Cardinality(Holding(sem[w]) \ {w}) \in Nat /\ slots[sem[w]] = Cardinality(Holding(sem[w]) \ {w}) + 1
    <3> DEFINE S == Holding(sem[w]) \ {w}
    <3>1. S \in SUBSET Workers /\ w \in Workers \ S
      BY DEF Holding
    <3>2. Holding(sem[w]) = S \cup {w}
      BY <2>1
    <3>3. slots[sem[w]] = Cardinality(S \cup {w})
      BY <2>1, <3>2 DEF SlotsCounted
    <3>4. Cardinality(S \cup {w}) = Cardinality(S) + 1 /\ Cardinality(S) \in Nat
      <4> HIDE DEF S
      <4> QED BY <3>1, OneMore
    <3> QED BY <3>3, <3>4
  <2>3. slots' \in [Made -> Nat] /\ Made' = Made
    BY <1>6, <2>1, <2>2 DEF Release, Made
  <2> QED BY <1>6, <2>3 DEF Release
<1>7. ASSUME NEW w \in Workers, Uncount(w) PROVE TypeOK'
  <2>1. w \in Counting(sem[w]) /\ sem[w] \in Made
    BY <1>7 DEF Uncount, Counting
  <2>2. Cardinality(Counting(sem[w]) \ {w}) \in Nat /\ held[sem[w]] = Cardinality(Counting(sem[w]) \ {w}) + 1
    <3> DEFINE S == Counting(sem[w]) \ {w}
    <3>1. S \in SUBSET Workers /\ w \in Workers \ S
      BY DEF Counting
    <3>2. Counting(sem[w]) = S \cup {w}
      BY <2>1
    <3>3. held[sem[w]] = Cardinality(S \cup {w})
      BY <2>1, <3>2 DEF HeldCounted, Counting
    <3>4. Cardinality(S \cup {w}) = Cardinality(S) + 1 /\ Cardinality(S) \in Nat
      <4> HIDE DEF S
      <4> QED BY <3>1, OneMore
    <3> QED BY <3>3, <3>4
  <2>3. held' \in [Made -> Nat] /\ Made' = Made
    BY <1>7, <2>1, <2>2 DEF Uncount, Made
  <2> QED BY <1>7, <2>3 DEF Uncount
<1>8. ASSUME NEW c \in Capacities, Reconfigure(c) PROVE TypeOK'
  BY <1>8 DEF Reconfigure, Made
<1> QED BY <1>1, <1>2, <1>3, <1>4, <1>5, <1>6, <1>7, <1>8 DEF Next, Step, Prompt

(* A request that only looks up a semaphore holds none: the sets of holders
   stay, and a new semaphore has none.                                     *)
LEMMA LookupHolders ==
  ASSUME TypeOK, NEW w \in Workers, NEW k \in Keys, Lookup(w, k)
  PROVE  /\ \A s : Holding(s)' = Holding(s) /\ Counting(s)' = Counting(s)
         /\ Holding(made + 1) = {} /\ Counting(made + 1) = {}
<1>1. Holding(made + 1) = {} /\ Counting(made + 1) = {}
  <2>1. made + 1 \notin Made
    BY DEF TypeOK, Made
  <2>2. \A v \in Workers : pc[v] \in {"count", "upstream", "uncount"} => sem[v] # made + 1
    BY <2>1 DEF TypeOK
  <2> QED BY <2>2 DEF Holding, Counting
<1>2. pc[w] = "idle" /\ pc' = [pc EXCEPT ![w] = "wait"]
  BY DEF Lookup, GoTo
<1>3. \A v \in Workers : v # w => sem'[v] = sem[v]
  BY DEF Lookup, Find, Make, TypeOK
<1>4. ASSUME NEW s PROVE Holding(s)' = Holding(s) /\ Counting(s)' = Counting(s)
  BY <1>2, <1>3 DEF Holding, Counting, TypeOK
<1> QED BY <1>1, <1>4

(* slots counts holders.  *)
LEMMA SlotsCountedStep == TypeOK /\ SlotsCounted /\ [Next]_vars => SlotsCounted'
<1> SUFFICES ASSUME TypeOK, SlotsCounted, [Next]_vars PROVE SlotsCounted'
  OBVIOUS
<1> USE DEF TypeOK, PCs, GoTo, counters
<1>0. \A s \in Made : slots[s] = Cardinality(Holding(s))
  BY DEF SlotsCounted
<1>1. CASE UNCHANGED vars
  <2>1. \A s : Holding(s)' = Holding(s)
    BY <1>1 DEF vars, Holding
  <2> QED BY <1>0, <1>1, <2>1 DEF vars, SlotsCounted, Made
<1>2. ASSUME NEW w \in Workers, NEW k \in Keys, Lookup(w, k) PROVE SlotsCounted'
  <2>1. /\ \A s : Holding(s)' = Holding(s)
        /\ Holding(made + 1) = {}
    BY <1>2, LookupHolders
  <2>2. CASE Find(w, k)
    BY <1>0, <2>1, <2>2 DEF SlotsCounted, Find, Made
  <2>3. CASE Make(w, k)
    <3>1. Made' = Made \cup {made + 1} /\ made + 1 \notin Made
      BY <2>3, MakeStep
    <3>2. slots'[made + 1] = 0 /\ cap'[made + 1] \in Nat
      BY <2>3, CapacitiesType DEF Make, With
    <3>3. \A s \in Made : slots'[s] = slots[s] /\ cap'[s] = cap[s]
      BY <2>3, <3>1 DEF Make, With
    <3>4. \A s : s = made + 1 => Cardinality(Holding(s)') = 0
      BY <2>1, FS_EmptySet
    <3>5. ASSUME NEW s \in Made' PROVE slots'[s] = Cardinality(Holding(s)') /\ slots'[s] <= cap'[s]
      <4>1. CASE s = made + 1
        BY <3>2, <3>4, <4>1
      <4>2. CASE s \in Made
        BY <1>0, <2>1, <3>3, <4>2 DEF SlotsCounted
      <4> QED BY <3>1, <4>1, <4>2
    <3> QED BY <3>5 DEF SlotsCounted
  <2> QED BY <1>2, <2>2, <2>3 DEF Lookup
<1>3. ASSUME NEW w \in Workers, Take(w) PROVE SlotsCounted'
  <2>1. PICK s0 \in Made : s0 = sem[w]
    BY <1>3 DEF Take, Made
  <2>2. Holding(s0)' = Holding(s0) \cup {w} /\ Holding(s0) \in SUBSET Workers /\ w \in Workers \ Holding(s0)
    BY <1>3, <2>1 DEF Take, Holding
  <2>3. \A s : s # s0 => Holding(s)' = Holding(s)
    BY <1>3, <2>1 DEF Take, Holding
  <2>4. Cardinality(Holding(s0) \cup {w}) = Cardinality(Holding(s0)) + 1
    BY <2>2, OneMore
  <2>5. slots' = [slots EXCEPT ![s0] = @ + 1] /\ cap' = cap /\ Made' = Made /\ slots[s0] < cap[s0]
    BY <1>3, <2>1 DEF Take, Made
  <2>6. ASSUME NEW s \in Made PROVE slots'[s] = Cardinality(Holding(s)') /\ slots'[s] <= cap'[s]
    <3>1. CASE s = s0
      <4>1. Cardinality(Holding(s0)') = Cardinality(Holding(s0) \cup {w})
        BY <2>2
      <4>2. slots'[s0] = slots[s0] + 1 /\ cap'[s0] = cap[s0]
        BY <2>5
      <4>3. slots[s0] = Cardinality(Holding(s0)) /\ slots[s0] <= cap[s0]
        BY DEF SlotsCounted
      <4>4. slots[s0] \in Nat /\ cap[s0] \in Nat
        OBVIOUS
      <4>5. slots'[s0] = Cardinality(Holding(s0)') /\ slots'[s0] <= cap'[s0]
        BY <2>4, <2>5, <4>1, <4>2, <4>3, <4>4
      <4> QED BY <3>1, <4>5
    <3>2. CASE s # s0
      BY <1>0, <2>3, <2>5, <3>2 DEF SlotsCounted
    <3> QED BY <3>1, <3>2
  <2> QED BY <2>5, <2>6 DEF SlotsCounted
<1>4. ASSUME NEW w \in Workers, Release(w) PROVE SlotsCounted'
  <2>1. PICK s0 \in Made : s0 = sem[w]
    BY <1>4 DEF Release, Made
  <2>2. Holding(s0)' = Holding(s0) \ {w} /\ Holding(s0) \in SUBSET Workers /\ w \in Holding(s0)
    BY <1>4, <2>1 DEF Release, Holding
  <2>3. \A s : s # s0 => Holding(s)' = Holding(s)
    BY <1>4, <2>1 DEF Release, Holding
  <2>4. Cardinality(Holding(s0) \ {w}) = Cardinality(Holding(s0)) - 1
    BY <2>2, OneLess
  <2>5. slots' = [slots EXCEPT ![s0] = @ - 1] /\ cap' = cap /\ Made' = Made
    BY <1>4, <2>1 DEF Release, Made
  <2>6. ASSUME NEW s \in Made PROVE slots'[s] = Cardinality(Holding(s)') /\ slots'[s] <= cap'[s]
    <3>1. CASE s = s0
      <4>1. Cardinality(Holding(s0)') = Cardinality(Holding(s0) \ {w})
        BY <2>2
      <4>2. slots'[s0] = slots[s0] - 1 /\ cap'[s0] = cap[s0]
        BY <2>5
      <4>3. slots[s0] = Cardinality(Holding(s0)) /\ slots[s0] <= cap[s0]
        BY DEF SlotsCounted
      <4>4. slots[s0] \in Nat /\ cap[s0] \in Nat
        OBVIOUS
      <4>5. slots'[s0] = Cardinality(Holding(s0)') /\ slots'[s0] <= cap'[s0]
        BY <2>4, <2>5, <4>1, <4>2, <4>3, <4>4
      <4> QED BY <3>1, <4>5
    <3>2. CASE s # s0
      BY <1>0, <2>3, <2>5, <3>2 DEF SlotsCounted
    <3> QED BY <3>1, <3>2
  <2> QED BY <2>5, <2>6 DEF SlotsCounted
<1>5. ASSUME NEW w \in Workers, Count(w) PROVE SlotsCounted'
  <2>1. \A s : Holding(s)' = Holding(s)
    BY <1>5 DEF Count, Holding
  <2> QED BY <1>0, <1>5, <2>1 DEF Count, SlotsCounted, Made
<1>6. ASSUME NEW w \in Workers, GiveUp(w) PROVE SlotsCounted'
  <2>1. \A s : Holding(s)' = Holding(s)
    BY <1>6 DEF GiveUp, Holding
  <2> QED BY <1>0, <1>6, <2>1 DEF GiveUp, SlotsCounted, Made
<1>7. ASSUME NEW w \in Workers, Uncount(w) PROVE SlotsCounted'
  <2>1. \A s : Holding(s)' = Holding(s)
    BY <1>7 DEF Uncount, Holding
  <2> QED BY <1>0, <1>7, <2>1 DEF Uncount, SlotsCounted, Made
<1>8. ASSUME NEW c \in Capacities, Reconfigure(c) PROVE SlotsCounted'
  <2>1. \A s : Holding(s)' = Holding(s)
    BY <1>8 DEF Reconfigure, Holding
  <2> QED BY <1>0, <1>8, <2>1 DEF Reconfigure, SlotsCounted, Made
<1> QED BY <1>1, <1>2, <1>3, <1>4, <1>5, <1>6, <1>7, <1>8 DEF Next, Step, Prompt

(* held counts holders that were counted.  *)
LEMMA HeldCountedStep == TypeOK /\ HeldCounted /\ [Next]_vars => HeldCounted'
<1> SUFFICES ASSUME TypeOK, HeldCounted, [Next]_vars PROVE HeldCounted'
  OBVIOUS
<1> USE DEF TypeOK, PCs, GoTo, counters
<1>0. \A s \in Made : held[s] = Cardinality(Counting(s))
  BY DEF HeldCounted, Counting
<1>1. CASE UNCHANGED vars
  <2>1. \A s : Counting(s)' = Counting(s)
    BY <1>1 DEF vars, Counting
  <2> QED BY <1>0, <1>1, <2>1 DEF vars, HeldCounted, Made, Counting
<1>2. ASSUME NEW w \in Workers, NEW k \in Keys, Lookup(w, k) PROVE HeldCounted'
  <2>1. /\ \A s : Counting(s)' = Counting(s)
        /\ Counting(made + 1) = {}
    BY <1>2, LookupHolders
  <2>2. CASE Find(w, k)
    BY <1>0, <2>1, <2>2 DEF HeldCounted, Find, Made, Counting
  <2>3. CASE Make(w, k)
    <3>1. Made' = Made \cup {made + 1} /\ made + 1 \notin Made
      BY <2>3, MakeStep
    <3>2. held'[made + 1] = 0 /\ cap'[made + 1] \in Nat
      BY <2>3, CapacitiesType DEF Make, With
    <3>3. \A s \in Made : held'[s] = held[s] /\ cap'[s] = cap[s]
      BY <2>3, <3>1 DEF Make, With
    <3>4. \A s : s = made + 1 => Cardinality(Counting(s)') = 0
      BY <2>1, FS_EmptySet
    <3>5. ASSUME NEW s \in Made' PROVE held'[s] = Cardinality(Counting(s)')
      <4>1. CASE s = made + 1
        BY <3>2, <3>4, <4>1
      <4>2. CASE s \in Made
        BY <1>0, <2>1, <3>3, <4>2
      <4> QED BY <3>1, <4>1, <4>2
    <3> QED BY <3>5 DEF HeldCounted, Counting
  <2> QED BY <1>2, <2>2, <2>3 DEF Lookup
<1>3. ASSUME NEW w \in Workers, Count(w) PROVE HeldCounted'
  <2>1. PICK s0 \in Made : s0 = sem[w]
    BY <1>3 DEF Count, Made
  <2>2. Counting(s0)' = Counting(s0) \cup {w} /\ Counting(s0) \in SUBSET Workers /\ w \in Workers \ Counting(s0)
    BY <1>3, <2>1 DEF Count, Counting
  <2>3. \A s : s # s0 => Counting(s)' = Counting(s)
    BY <1>3, <2>1 DEF Count, Counting
  <2>4. Cardinality(Counting(s0) \cup {w}) = Cardinality(Counting(s0)) + 1
    BY <2>2, OneMore
  <2>5. held' = [held EXCEPT ![s0] = @ + 1] /\ cap' = cap /\ Made' = Made
    BY <1>3, <2>1 DEF Count, Made
  <2>6. ASSUME NEW s \in Made PROVE held'[s] = Cardinality(Counting(s)')
    <3>1. CASE s = s0
      BY <1>0, <2>2, <2>4, <2>5, <3>1
    <3>2. CASE s # s0
      BY <1>0, <2>3, <2>5, <3>2
    <3> QED BY <3>1, <3>2
  <2> QED BY <2>5, <2>6 DEF HeldCounted, Counting
<1>4. ASSUME NEW w \in Workers, Uncount(w) PROVE HeldCounted'
  <2>1. PICK s0 \in Made : s0 = sem[w]
    BY <1>4 DEF Uncount, Made
  <2>2. Counting(s0)' = Counting(s0) \ {w} /\ Counting(s0) \in SUBSET Workers /\ w \in Counting(s0)
    BY <1>4, <2>1 DEF Uncount, Counting
  <2>3. \A s : s # s0 => Counting(s)' = Counting(s)
    BY <1>4, <2>1 DEF Uncount, Counting
  <2>4. Cardinality(Counting(s0) \ {w}) = Cardinality(Counting(s0)) - 1
    BY <2>2, OneLess
  <2>5. held' = [held EXCEPT ![s0] = @ - 1] /\ cap' = cap /\ Made' = Made
    BY <1>4, <2>1 DEF Uncount, Made
  <2>6. ASSUME NEW s \in Made PROVE held'[s] = Cardinality(Counting(s)')
    <3>1. CASE s = s0
      BY <1>0, <2>2, <2>4, <2>5, <3>1
    <3>2. CASE s # s0
      BY <1>0, <2>3, <2>5, <3>2
    <3> QED BY <3>1, <3>2
  <2> QED BY <2>5, <2>6 DEF HeldCounted, Counting
<1>5. ASSUME NEW w \in Workers, Take(w) PROVE HeldCounted'
  <2>1. \A s : Counting(s)' = Counting(s)
    BY <1>5 DEF Take, Counting
  <2> QED BY <1>0, <1>5, <2>1 DEF Take, HeldCounted, Made, Counting
<1>6. ASSUME NEW w \in Workers, GiveUp(w) PROVE HeldCounted'
  <2>1. \A s : Counting(s)' = Counting(s)
    BY <1>6 DEF GiveUp, Counting
  <2> QED BY <1>0, <1>6, <2>1 DEF GiveUp, HeldCounted, Made, Counting
<1>7. ASSUME NEW w \in Workers, Release(w) PROVE HeldCounted'
  <2>1. \A s : Counting(s)' = Counting(s)
    BY <1>7 DEF Release, Counting
  <2> QED BY <1>0, <1>7, <2>1 DEF Release, HeldCounted, Made, Counting
<1>8. ASSUME NEW c \in Capacities, Reconfigure(c) PROVE HeldCounted'
  <2>1. \A s : Counting(s)' = Counting(s)
    BY <1>8 DEF Reconfigure, Counting
  <2> QED BY <1>0, <1>8, <2>1 DEF Reconfigure, HeldCounted, Made, Counting
<1> QED BY <1>1, <1>2, <1>3, <1>4, <1>5, <1>6, <1>7, <1>8 DEF Next, Step, Prompt

(* Capacities come from the configuration.                                 *)
LEMMA CapStep == TypeOK /\ CapInv /\ [Next]_vars => CapInv'
<1> SUFFICES ASSUME TypeOK, CapInv, [Next]_vars PROVE CapInv'
  OBVIOUS
<1> USE DEF TypeOK, CapInv
<1>1. ASSUME NEW w \in Workers, NEW k \in Keys, Lookup(w, k) PROVE CapInv'
  <2>1. CASE Find(w, k)
    BY <2>1 DEF Find, Made
  <2>2. CASE Make(w, k)
    <3>1. Made' = Made \cup {made + 1} /\ made + 1 \notin Made
      BY <2>2, MakeStep
    <3> QED BY <2>2, <3>1 DEF Make, With
  <2> QED BY <1>1, <2>1, <2>2 DEF Lookup
<1>2. CASE UNCHANGED <<made, cap>>
  BY <1>2 DEF Made
<1>3. ASSUME ~ UNCHANGED <<made, cap>>
      PROVE \E w \in Workers, k \in Keys : Lookup(w, k)
  BY <1>3 DEF Next, Step, Prompt, Take, Count, GiveUp, Release, Uncount, Reconfigure, counters, vars
<1> QED BY <1>1, <1>2, <1>3

(* A request keeps using its key's semaphore until that is evicted.        *)
LEMMA CurrentStep == TypeOK /\ Current /\ [Next]_vars => Current'
<1> SUFFICES ASSUME TypeOK, Current, [Next]_vars PROVE Current'
  OBVIOUS
<1> USE DEF TypeOK, PCs, Current, GoTo, counters
<1>1. CASE UNCHANGED vars
  BY <1>1 DEF vars
<1>2. ASSUME NEW w \in Workers, NEW k \in Keys, Lookup(w, k) PROVE Current'
  <2>1. CASE Find(w, k)
    BY <1>2, <2>1 DEF Lookup, Find
  <2>2. CASE Make(w, k)
    <3>1. TypeOK
      OBVIOUS
    <3>2. /\ k \in DOMAIN sems'
          /\ \A j \in DOMAIN sems' : sems'[j] = IF j = k THEN made + 1 ELSE sems[j]
      <4> HIDE DEF TypeOK
      <4> QED BY <2>2, <3>1, MakeStep
    <3>3. /\ k \notin DOMAIN sems /\ sem' = [sem EXCEPT ![w] = made + 1]
          /\ evicted' = evicted \cup (DOMAIN sems \ DOMAIN sems')
      BY <2>2 DEF Make
    <3> QED BY <1>2, <3>2, <3>3 DEF Lookup
  <2> QED BY <1>2, <2>1, <2>2 DEF Lookup
<1>3. ASSUME NEW w \in Workers, Step(w) PROVE Current'
  BY <1>3 DEF Step, Prompt, Take, Count, GiveUp, Release, Uncount
<1>4. ASSUME NEW c \in Capacities, Reconfigure(c) PROVE Current'
  BY <1>4 DEF Reconfigure
<1> QED BY <1>1, <1>2, <1>3, <1>4 DEF Next

--------------------------------------------------------------------------------
(* The initial states satisfy the invariant.                                *)
LEMMA InitHolds == Init => IInv /\ Current
<1> SUFFICES ASSUME Init PROVE IInv /\ Current
  OBVIOUS
<1>1. Made = {}
  BY DEF Init, Made
<1> QED BY <1>1 DEF Init, IInv, TypeOK, PCs, SlotsCounted, HeldCounted, CapInv, Current

(* Every step keeps it.                                                     *)
LEMMA IInvStep == IInv /\ [Next]_vars => IInv'
  BY TypeStep, SlotsCountedStep, HeldCountedStep, CapStep DEF IInv

(* semaphore.acquire and releaseOnce: whatever is evicted or reconfigured
   meanwhile, every slot taken belongs to a request that still runs, no
   semaphore lends more slots than it has, and the holder count is exact.  *)
THEOREM SlotsBelongToRequests == Spec => [](TypeOK /\ SlotsCounted /\ HeldCounted)
<1>1. IInv => TypeOK /\ SlotsCounted /\ HeldCounted
  BY DEF IInv
<1> QED BY InitHolds, IInvStep, <1>1, PTL DEF Spec

(* The limit per key that keeps its semaphore.                             *)
LEMMA Limit == IInv /\ Current => KeyCap
<1> SUFFICES ASSUME IInv, Current, NEW k \in Keys \ evicted
             PROVE \E c \in Capacities : Cardinality(InFlight(k)) <= c
  BY DEF KeyCap, Limited
<1> USE DEF IInv, TypeOK
<1>1. CASE InFlight(k) = {}
  BY <1>1, FS_EmptySet, CapacitiesType
<1>2. CASE InFlight(k) # {}
  <2>1. k \in DOMAIN sems /\ InFlight(k) \subseteq Holding(sems[k])
    BY <1>2 DEF InFlight, Holding, Current
  <2>2. IsFiniteSet(Holding(sems[k]))
    BY SetsFinite, FS_Subset DEF Holding
  <2>3. /\ Cardinality(InFlight(k)) <= Cardinality(Holding(sems[k]))
        /\ Cardinality(InFlight(k)) \in Nat /\ Cardinality(Holding(sems[k])) \in Nat
    BY <2>1, <2>2, FS_Subset, FS_CardinalityType
  <2>4. Cardinality(Holding(sems[k])) <= cap[sems[k]] /\ cap[sems[k]] \in Capacities
    BY <2>1 DEF SlotsCounted, CapInv
  <2>5. cap[sems[k]] \in Nat
    BY <2>4, CapacitiesType
  <2>6. Cardinality(InFlight(k)) <= cap[sems[k]]
    BY <2>3, <2>4, <2>5
  <2> QED BY <2>4, <2>6
<1> QED BY <1>1, <1>2

(* At most Concurrency upstream calls at a time per key, whatever happens to
   other keys and to the configuration, until the key's own semaphore is
   evicted.                                                                *)
THEOREM KeyCapHolds == Spec => []KeyCap
<1>1. IInv /\ Current /\ [Next]_vars => Current'
  BY CurrentStep DEF IInv
<1> QED BY InitHolds, IInvStep, <1>1, Limit, PTL DEF Spec

--------------------------------------------------------------------------------
(* Token buckets.                                                          *)

(* A bucket in the map covers what its key may still pass: what passed since a *)
(* tick and the tokens that are left are a burst and the refill since, of some *)
(* configured burst and rate that are no less than the present ones.           *)
Budget(k, c, d) ==
  /\ c.burst >= bucketCfg.burst
  /\ d.rate >= bucketCfg.rate
  /\ \A i \in DOMAIN bucketAllowed[k] : bucketAllowed[k][i] <= buckets[k].last
  /\ \A from \in 0..buckets[k].last :
       Cardinality(PassedSince(k, from)) * Cost + buckets[k].tokens
         <= Full(c) + (buckets[k].last - from) * d.rate

BucketKeyInv(k) ==
  IF k \in DOMAIN buckets THEN \E c, d \in BucketConfigs : Budget(k, c, d)
  ELSE bucketAllowed[k] = <<>>

BucketTypes ==
  /\ bucketCfg \in BucketConfigs
  /\ bucketNow \in Nat
  /\ DOMAIN buckets \subseteq BucketKeys
  /\ \A k \in DOMAIN buckets : /\ buckets[k] \in [tokens : Nat, last : Nat]
                               /\ buckets[k].tokens <= Full(bucketCfg)
                               /\ buckets[k].last <= bucketNow
  /\ bucketAllowed \in [BucketKeys -> Seq(Nat)]

BucketInv == BucketTypes /\ \A k \in BucketKeys \ bucketEvicted : BucketKeyInv(k)

(* Products grow with their factors.                                        *)
LEMMA Monotone ==
  ASSUME NEW n \in Nat, NEW x \in Nat, NEW y \in Nat, x <= y
  PROVE  n * x \in Nat /\ n * x <= n * y /\ x * n <= y * n
<1>1. PICK z \in Nat : y = x + z
  <2>1. y - x \in Nat /\ y = x + (y - x)
    OBVIOUS
  <2> QED BY <2>1
<1>2. n * z \in Nat /\ n * x \in Nat
  OBVIOUS
<1>3. n * (x + z) = n * x + n * z /\ (x + z) * n = n * x + n * z /\ x * n = n * x
  OBVIOUS
<1> QED BY <1>1, <1>2, <1>3

(* A refill at rate r pays for later ticks at rate r or more.                  *)
LEMMA RefillPays ==
  ASSUME NEW u \in Nat, NEW tok \in Nat, NEW tok2 \in Nat, NEW full \in Nat,
         NEW r \in Nat, NEW q \in Nat, NEW from \in Nat, NEW last \in Nat, NEW now \in Nat,
         r <= q, from <= last, last <= now,
         u + tok <= full + (last - from) * q,
         tok2 <= tok + (now - last) * r
  PROVE  u + tok2 <= full + (now - from) * q
<1>1. now - last \in Nat /\ last - from \in Nat /\ now - from = (now - last) + (last - from)
  OBVIOUS
<1> DEFINE a == now - last
           b == last - from
<1>2. a * r <= a * q /\ a * r \in Nat /\ a * q \in Nat /\ b * q \in Nat
  BY <1>1, Monotone
<1>3. (now - from) * q = a * q + b * q
  <2> HIDE DEF a, b
  <2>1. a \in Nat /\ b \in Nat /\ now - from = a + b
    BY <1>1 DEF a, b
  <2>2. (a + b) * q = a * q + b * q
    BY <2>1
  <2> QED BY <2>1, <2>2
<1>4. u + tok <= full + b * q /\ tok2 <= tok + a * r
  OBVIOUS
<1> HIDE DEF a, b
<1> QED BY <1>2, <1>3, <1>4

(* The smaller of two numbers.                                              *)
LEMMA LeastIs ==
  ASSUME NEW x \in Nat, NEW y \in Nat
  PROVE  Least(x, y) \in Nat /\ Least(x, y) <= x /\ Least(x, y) <= y /\ (Least(x, y) = x \/ Least(x, y) = y)
BY DEF Least

(* A full bucket holds a token.                                             *)
LEMMA FullIs == ASSUME NEW c \in BucketConfigs PROVE Full(c) \in Nat /\ Full(c) >= Cost /\ Cost \in Nat \ {0}
<1>1. c.burst \in Nat /\ c.burst >= 1 /\ Cost \in Nat \ {0}
  BY BucketConfigsType, CostType
<1>2. 1 * Cost <= c.burst * Cost /\ 1 * Cost = Cost /\ c.burst * Cost \in Nat
  BY <1>1, Monotone
<1> QED BY <1>1, <1>2 DEF Full

(* A refill adds what accrued, up to the burst.                             *)
LEMMA RefilledIs ==
  ASSUME BucketTypes, NEW k \in DOMAIN buckets
  PROVE  /\ Refilled(buckets[k]) \in [tokens : Nat, last : Nat]
         /\ Refilled(buckets[k]).last = bucketNow
         /\ Refilled(buckets[k]).tokens <= Full(bucketCfg)
         /\ Refilled(buckets[k]).tokens <= buckets[k].tokens + (bucketNow - buckets[k].last) * bucketCfg.rate
         /\ \/ Refilled(buckets[k]).tokens = Full(bucketCfg)
            \/ Refilled(buckets[k]).tokens = buckets[k].tokens + (bucketNow - buckets[k].last) * bucketCfg.rate
<1> DEFINE a == bucketNow - buckets[k].last
           x == buckets[k].tokens + a * bucketCfg.rate
<1>1. a \in Nat /\ buckets[k].tokens \in Nat /\ bucketNow \in Nat
  BY DEF BucketTypes
<1>2. bucketCfg \in BucketConfigs /\ bucketCfg.rate \in Nat
  BY BucketConfigsType DEF BucketTypes
<1>3. a * bucketCfg.rate \in Nat
  <2> HIDE DEF a
  <2> QED BY <1>1, <1>2, Monotone
<1>4. x \in Nat
  <2> HIDE DEF a
  <2> QED BY <1>1, <1>3
<1>5. Full(bucketCfg) \in Nat
  BY <1>2, FullIs
<1>6. Accrued(buckets[k]) = x
  BY DEF Accrued
<1> HIDE DEF x
<1>7. /\ Least(Full(bucketCfg), x) \in Nat /\ Least(Full(bucketCfg), x) <= Full(bucketCfg)
      /\ Least(Full(bucketCfg), x) <= x
      /\ Least(Full(bucketCfg), x) = Full(bucketCfg) \/ Least(Full(bucketCfg), x) = x
  BY <1>4, <1>5, LeastIs
<1>8. Refilled(buckets[k]) = [tokens |-> Least(Full(bucketCfg), x), last |-> bucketNow]
  BY <1>6 DEF Refilled
<1> QED BY <1>1, <1>7, <1>8 DEF x

(* Eviction only takes entries away.                                        *)
LEMMA EvictedIs ==
  ASSUME NEW m, NEW e \in Evicted(m)
  PROVE  DOMAIN e \subseteq DOMAIN m /\ \A j \in DOMAIN e : e[j] = m[j]
BY DEF Evicted

Fresh == [tokens |-> Full(bucketCfg), last |-> bucketNow]

(* The bucket that a request is charged to, and the map around it.          *)
LEMMA VisitedIs ==
  ASSUME BucketTypes, NEW k \in BucketKeys, NEW v \in Visited(k)
  PROVE  /\ v.bucket \in [tokens : Nat, last : Nat]
         /\ v.bucket.last = bucketNow
         /\ v.bucket.tokens <= Full(bucketCfg)
         /\ DOMAIN v.map \subseteq DOMAIN buckets \cup {k}
         /\ \A j \in DOMAIN v.map \ {k} : j \in DOMAIN buckets /\ v.map[j] = buckets[j]
         /\ v.bucket = IF k \in DOMAIN buckets THEN Refilled(buckets[k]) ELSE Fresh
<1>1. CASE k \in DOMAIN buckets
  <2>1. v.bucket = Refilled(buckets[k]) /\ v.map = buckets
    BY <1>1 DEF Visited
  <2> QED BY <1>1, <2>1, RefilledIs
<1>2. CASE k \notin DOMAIN buckets
  <2> DEFINE m == [j \in DOMAIN buckets \cup {k} |-> IF j = k THEN Fresh ELSE buckets[j]]
  <2>1. v.bucket = Fresh /\ v.map \in Evicted(m)
    BY <1>2 DEF Visited, Fresh
  <2>2. DOMAIN v.map \subseteq DOMAIN m /\ \A j \in DOMAIN v.map : v.map[j] = m[j]
    <3> HIDE DEF m
    <3> QED BY <2>1, EvictedIs
  <2>3. Full(bucketCfg) \in Nat /\ bucketNow \in Nat
    BY FullIs DEF BucketTypes
  <2>4. /\ Fresh \in [tokens : Nat, last : Nat] /\ Fresh.last = bucketNow
        /\ Fresh.tokens <= Full(bucketCfg)
    BY <2>3 DEF Fresh
  <2> QED BY <1>2, <2>1, <2>2, <2>4
<1> QED BY <1>1, <1>2

(* The requests that passed can be counted.                                 *)
LEMMA PassedFinite ==
  ASSUME NEW k, bucketAllowed[k] \in Seq(Nat), NEW from
  PROVE  /\ PassedSince(k, from) \subseteq 1..Len(bucketAllowed[k])
         /\ IsFiniteSet(PassedSince(k, from))
         /\ Cardinality(PassedSince(k, from)) \in Nat
<1>1. PassedSince(k, from) \subseteq 1..Len(bucketAllowed[k]) /\ Len(bucketAllowed[k]) \in Nat
  BY DEF PassedSince
<1>2. IsFiniteSet(1..Len(bucketAllowed[k]))
  BY <1>1, FS_Interval
<1>3. IsFiniteSet(PassedSince(k, from))
  BY <1>1, <1>2, FS_Subset
<1> QED BY <1>1, <1>3, FS_CardinalityType

(* The bucket that a request is charged to covers what its key may pass.       *)
LEMMA VisitBudget ==
  ASSUME BucketInv, NEW k \in BucketKeys \ bucketEvicted, NEW v \in Visited(k)
  PROVE  /\ \A i \in DOMAIN bucketAllowed[k] : bucketAllowed[k][i] <= bucketNow
         /\ \E c, d \in BucketConfigs :
              /\ c.burst >= bucketCfg.burst
              /\ d.rate >= bucketCfg.rate
              /\ \A from \in 0..bucketNow :
                   Cardinality(PassedSince(k, from)) * Cost + v.bucket.tokens
                     <= Full(c) + (bucketNow - from) * d.rate
<1>1. /\ bucketCfg \in BucketConfigs /\ bucketNow \in Nat /\ bucketAllowed[k] \in Seq(Nat)
      /\ \A i \in DOMAIN bucketAllowed[k] : bucketAllowed[k][i] \in Nat
      /\ bucketCfg.rate \in Nat /\ bucketCfg.burst \in Nat /\ Cost \in Nat
  BY BucketConfigsType, CostType DEF BucketInv, BucketTypes
<1>2. /\ v.bucket.tokens \in Nat /\ v.bucket.tokens <= Full(bucketCfg)
      /\ v.bucket = IF k \in DOMAIN buckets THEN Refilled(buckets[k]) ELSE Fresh
  BY VisitedIs DEF BucketInv
<1>3. BucketKeyInv(k)
  BY DEF BucketInv
<1>4. Full(bucketCfg) \in Nat
  BY <1>1, FullIs
<1>5. ASSUME NEW c \in BucketConfigs, NEW d \in BucketConfigs, c.burst >= bucketCfg.burst,
             NEW from \in 0..bucketNow, PassedSince(k, from) = {}
      PROVE  Cardinality(PassedSince(k, from)) * Cost + v.bucket.tokens
               <= Full(c) + (bucketNow - from) * d.rate
  <2>1. Cardinality(PassedSince(k, from)) * Cost = 0
    BY <1>1, <1>5, FS_EmptySet
  <2>2. Full(bucketCfg) <= Full(c) /\ Full(c) \in Nat
    BY <1>1, <1>5, FullIs, BucketConfigsType, Monotone DEF Full
  <2>3. d.rate \in Nat /\ bucketNow - from \in Nat
    BY <1>1, BucketConfigsType
  <2>4. (bucketNow - from) * d.rate \in Nat
    BY <2>3, Monotone
  <2> QED BY <1>2, <1>4, <2>1, <2>2, <2>4
<1>6. CASE k \notin DOMAIN buckets
  <2>1. bucketAllowed[k] = <<>>
    BY <1>3, <1>6 DEF BucketKeyInv
  <2>2. \A from \in 0..bucketNow : PassedSince(k, from) = {}
    BY <2>1 DEF PassedSince
  <2>3. bucketCfg.burst >= bucketCfg.burst /\ bucketCfg.rate >= bucketCfg.rate
    BY <1>1
  <2>4. \A from \in 0..bucketNow : Cardinality(PassedSince(k, from)) * Cost + v.bucket.tokens
                                     <= Full(bucketCfg) + (bucketNow - from) * bucketCfg.rate
    BY <1>1, <1>5, <2>2, <2>3
  <2> QED BY <1>1, <2>1, <2>3, <2>4
<1>7. CASE k \in DOMAIN buckets
  <2>1. PICK c \in BucketConfigs, d \in BucketConfigs : Budget(k, c, d)
    BY <1>3, <1>7 DEF BucketKeyInv
  <2>2. c.burst >= bucketCfg.burst /\ d.rate >= bucketCfg.rate /\ d.rate \in Nat
    BY <2>1, BucketConfigsType DEF Budget
  <2> DEFINE last == buckets[k].last
             tok == buckets[k].tokens
  <2>3. last \in Nat /\ last <= bucketNow /\ tok \in Nat
    BY <1>7 DEF BucketInv, BucketTypes
  <2>4. \A i \in DOMAIN bucketAllowed[k] : bucketAllowed[k][i] <= last
    BY <2>1 DEF Budget
  <2>5. v.bucket.tokens <= tok + (bucketNow - last) * bucketCfg.rate
    BY <1>2, <1>7, RefilledIs DEF BucketInv
  <2>6. Full(c) \in Nat
    BY FullIs
  <2>7. ASSUME NEW from \in 0..bucketNow
        PROVE  Cardinality(PassedSince(k, from)) * Cost + v.bucket.tokens
                 <= Full(c) + (bucketNow - from) * d.rate
    <3>1. CASE from <= last
      <4> DEFINE u == Cardinality(PassedSince(k, from)) * Cost
      <4>1. from \in 0..last
        BY <1>1, <2>3, <3>1
      <4>2. u + tok <= Full(c) + (last - from) * d.rate
        BY <2>1, <4>1 DEF Budget
      <4>3. u \in Nat
        <5>1. Cardinality(PassedSince(k, from)) \in Nat
          BY <1>1, PassedFinite
        <5> QED BY <1>1, <5>1, Monotone
      <4> HIDE DEF u, last, tok
      <4>4. u + v.bucket.tokens <= Full(c) + (bucketNow - from) * d.rate
        <5> DEFINE tok2 == v.bucket.tokens
                   full == Full(c)
                   rate == bucketCfg.rate
                   q == d.rate
        <5>1. /\ u \in Nat /\ tok \in Nat /\ tok2 \in Nat /\ full \in Nat /\ rate \in Nat /\ q \in Nat
              /\ from \in Nat /\ last \in Nat /\ bucketNow \in Nat /\ rate <= q
          BY <1>1, <1>2, <2>2, <2>3, <2>6, <4>3
        <5>2. u + tok <= full + (last - from) * q /\ tok2 <= tok + (bucketNow - last) * rate
          BY <2>5, <4>2
        <5>3. from <= last /\ last <= bucketNow
          BY <2>3, <3>1
        <5> HIDE DEF tok2, full, rate, q
        <5>4. u + tok2 <= full + (bucketNow - from) * q
          BY <5>1, <5>2, <5>3, RefillPays
        <5> QED BY <5>4 DEF tok2, full, q
      <4> QED BY <4>4 DEF u
    <3>2. CASE ~(from <= last)
      <4>1. PassedSince(k, from) = {}
        <5> SUFFICES ASSUME NEW i \in DOMAIN bucketAllowed[k], bucketAllowed[k][i] >= from PROVE FALSE
          BY DEF PassedSince
        <5>1. bucketAllowed[k][i] <= last /\ bucketAllowed[k][i] \in Nat
          BY <1>1, <2>4
        <5> HIDE DEF last
        <5> QED BY <2>3, <3>2, <5>1
      <4> QED BY <1>5, <2>2, <4>1
    <3> QED BY <3>1, <3>2
  <2>8. \A i \in DOMAIN bucketAllowed[k] : bucketAllowed[k][i] <= bucketNow
    <3> SUFFICES ASSUME NEW i \in DOMAIN bucketAllowed[k] PROVE bucketAllowed[k][i] <= bucketNow
      OBVIOUS
    <3>1. bucketAllowed[k][i] <= last /\ bucketAllowed[k][i] \in Nat
      BY <1>1, <2>4
    <3> HIDE DEF last
    <3> QED BY <1>1, <2>3, <3>1
  <2> QED BY <2>2, <2>7, <2>8
<1> QED BY <1>6, <1>7

(* What is left of a key when another one is visited: its bucket as it was, or *)
(* none and the key is on the list of the evicted.                             *)
LEMMA Bystander ==
  ASSUME BucketInv, NEW k \in BucketKeys, NEW v \in Visited(k), NEW b,
         buckets' = Charged(v, k, b), bucketEvicted' = bucketEvicted \cup Lost(v, k),
         bucketCfg' = bucketCfg, NEW j \in BucketKeys \ bucketEvicted', j # k,
         bucketAllowed'[j] = bucketAllowed[j]
  PROVE  BucketKeyInv(j)'
<1>1. /\ DOMAIN v.map \subseteq DOMAIN buckets \cup {k}
      /\ \A i \in DOMAIN v.map \ {k} : i \in DOMAIN buckets /\ v.map[i] = buckets[i]
  BY VisitedIs DEF BucketInv
<1>2. BucketKeyInv(j)
  BY DEF BucketInv
<1>3. DOMAIN buckets' = DOMAIN v.map
  BY DEF Charged
<1>4. CASE j \in DOMAIN v.map
  <2>1. j \in DOMAIN buckets /\ buckets'[j] = buckets[j]
    BY <1>1, <1>4 DEF Charged
  <2>2. PICK c \in BucketConfigs, d \in BucketConfigs : Budget(j, c, d)
    BY <1>2, <2>1 DEF BucketKeyInv
  <2>3. \A from : PassedSince(j, from)' = PassedSince(j, from)
    BY DEF PassedSince
  <2>4. Budget(j, c, d)'
    BY <2>1, <2>2, <2>3 DEF Budget, Full
  <2> QED BY <1>3, <1>4, <2>4 DEF BucketKeyInv
<1>5. CASE j \notin DOMAIN v.map
  <2>1. j \notin DOMAIN buckets
    BY <1>5 DEF Lost
  <2> QED BY <1>2, <1>3, <1>5, <2>1 DEF BucketKeyInv
<1> QED BY <1>4, <1>5

(* The types, for either outcome of a visit.                                   *)
LEMMA VisitTypes ==
  ASSUME BucketTypes, NEW k \in BucketKeys, NEW v \in Visited(k),
         NEW b \in [tokens : Nat, last : Nat], b.tokens <= Full(bucketCfg), b.last = bucketNow,
         buckets' = Charged(v, k, b), bucketCfg' = bucketCfg, bucketNow' = bucketNow,
         bucketAllowed' \in [BucketKeys -> Seq(Nat)]
  PROVE  BucketTypes'
<1>1. /\ DOMAIN v.map \subseteq DOMAIN buckets \cup {k}
      /\ \A i \in DOMAIN v.map \ {k} : i \in DOMAIN buckets /\ v.map[i] = buckets[i]
  BY VisitedIs
<1>2. DOMAIN buckets' = DOMAIN v.map
  BY DEF Charged
<1>3. ASSUME NEW j \in DOMAIN buckets'
      PROVE  /\ buckets'[j] \in [tokens : Nat, last : Nat]
             /\ buckets'[j].tokens <= Full(bucketCfg)
             /\ buckets'[j].last <= bucketNow
  <2>1. CASE j = k
    <3>1. buckets'[j] = b
      BY <1>2, <2>1 DEF Charged
    <3>2. bucketNow <= bucketNow
      BY DEF BucketTypes
    <3> QED BY <3>1, <3>2
  <2>2. CASE j # k
    <3>1. j \in DOMAIN buckets /\ buckets'[j] = buckets[j]
      BY <1>1, <1>2, <2>2 DEF Charged
    <3> QED BY <3>1 DEF BucketTypes
  <2> QED BY <2>1, <2>2
<1>4. Full(bucketCfg)' = Full(bucketCfg)
  BY DEF Full
<1> QED BY <1>1, <1>2, <1>3, <1>4 DEF BucketTypes

(* A request that passes takes from the tokens what it adds to the history. *)
LEMMA BucketPassKeeps ==
  ASSUME BucketInv, NEW k \in BucketKeys, BucketPass(k)
  PROVE  BucketInv'
<1>1. PICK v \in Visited(k) :
        /\ v.bucket.tokens >= Cost
        /\ buckets' = Charged(v, k, [v.bucket EXCEPT !.tokens = @ - Cost])
        /\ bucketAllowed' = [bucketAllowed EXCEPT ![k] = Append(@, bucketNow)]
        /\ bucketEvicted' = bucketEvicted \cup Lost(v, k)
        /\ bucketCfg' = bucketCfg /\ bucketNow' = bucketNow
  BY DEF BucketPass
<1> DEFINE b == [v.bucket EXCEPT !.tokens = @ - Cost]
<1>2. v.bucket \in [tokens : Nat, last : Nat] /\ v.bucket.last = bucketNow /\ v.bucket.tokens <= Full(bucketCfg)
  BY VisitedIs DEF BucketInv
<1>3. bucketCfg \in BucketConfigs /\ bucketNow \in Nat /\ Cost \in Nat \ {0} /\ Full(bucketCfg) \in Nat
  BY FullIs DEF BucketInv, BucketTypes
<1>4. /\ b \in [tokens : Nat, last : Nat] /\ b.last = bucketNow
      /\ b.tokens = v.bucket.tokens - Cost /\ b.tokens <= Full(bucketCfg)
  BY <1>1, <1>2, <1>3
<1>5. /\ bucketAllowed' \in [BucketKeys -> Seq(Nat)]
      /\ bucketAllowed'[k] = Append(bucketAllowed[k], bucketNow)
      /\ \A j \in BucketKeys \ {k} : bucketAllowed'[j] = bucketAllowed[j]
  BY <1>1, <1>3 DEF BucketInv, BucketTypes
<1> HIDE DEF b
<1>6. buckets' = Charged(v, k, b)
  BY <1>1 DEF b
<1>7. BucketTypes'
  BY <1>1, <1>4, <1>5, <1>6, VisitTypes DEF BucketInv
<1>8. ASSUME NEW j \in BucketKeys \ bucketEvicted' PROVE BucketKeyInv(j)'
  <2>1. CASE j # k
    BY <1>1, <1>5, <1>6, <2>1, Bystander
  <2>2. CASE j = k
    <3>1. k \in DOMAIN v.map /\ k \in BucketKeys \ bucketEvicted
      BY <1>1, <2>2 DEF Lost
    <3>2. k \in DOMAIN buckets' /\ buckets'[k] = b
      BY <1>6, <3>1 DEF Charged
    <3> DEFINE t == bucketAllowed[k]
               n == Len(t)
               u == Append(t, bucketNow)
    <3>3. t \in Seq(Nat)
      BY DEF BucketInv, BucketTypes
    <3>4. /\ n \in Nat /\ DOMAIN t = 1..n /\ DOMAIN u = 1..n + 1 /\ u[n + 1] = bucketNow
          /\ \A i \in 1..n : u[i] = t[i]
      BY <1>3, <3>3
    <3>5. PICK c \in BucketConfigs, d \in BucketConfigs :
            /\ c.burst >= bucketCfg.burst
            /\ d.rate >= bucketCfg.rate
            /\ \A from \in 0..bucketNow :
                 Cardinality(PassedSince(k, from)) * Cost + v.bucket.tokens
                   <= Full(c) + (bucketNow - from) * d.rate
      BY <3>1, VisitBudget
    <3>6. \A i \in DOMAIN t : t[i] <= bucketNow
      BY <3>1, VisitBudget
    <3> HIDE DEF n, u
    <3>7. \A i \in DOMAIN u : u[i] <= bucketNow
      <4> SUFFICES ASSUME NEW i \in 1..n + 1 PROVE u[i] <= bucketNow
        BY <3>4
      <4>1. CASE i \in 1..n
        BY <3>4, <3>6, <4>1
      <4>2. CASE i = n + 1
        BY <1>3, <3>4, <4>2
      <4> QED BY <3>4, <4>1, <4>2
    <3>8. ASSUME NEW from \in 0..bucketNow
          PROVE  Cardinality(PassedSince(k, from)') * Cost + b.tokens <= Full(c) + (bucketNow - from) * d.rate
      <4>1. PassedSince(k, from)' = PassedSince(k, from) \cup {n + 1}
        <5>1. PassedSince(k, from)' = {i \in DOMAIN u : u[i] >= from}
          BY <1>5 DEF PassedSince, u
        <5>2. PassedSince(k, from) = {i \in DOMAIN t : t[i] >= from}
          BY DEF PassedSince
        <5>3. bucketNow >= from
          BY <1>3
        <5> HIDE DEF t
        <5>4. \A i \in 1..n + 1 : i \in 1..n \/ i = n + 1
          BY <3>4
        <5>5. n + 1 \in 1..n + 1 /\ 1..n \subseteq 1..n + 1
          BY <3>4
        <5> QED BY <3>4, <5>1, <5>2, <5>3, <5>4, <5>5
      <4>2. n + 1 \notin PassedSince(k, from)
        <5>1. PassedSince(k, from) \subseteq DOMAIN t
          BY DEF PassedSince
        <5> QED BY <3>4, <5>1
      <4> DEFINE x == Cardinality(PassedSince(k, from))
                 y == Full(c) + (bucketNow - from) * d.rate
      <4>3. IsFiniteSet(PassedSince(k, from)) /\ x \in Nat
        BY <3>3, PassedFinite
      <4>4. Cardinality(PassedSince(k, from)') = x + 1
        BY <4>1, <4>2, <4>3, FS_AddElement
      <4>5. x * Cost + v.bucket.tokens <= y
        BY <3>5
      <4>6. y \in Nat
        <5>1. d.rate \in Nat /\ bucketNow - from \in Nat /\ Full(c) \in Nat
          BY <1>3, BucketConfigsType, FullIs
        <5>2. (bucketNow - from) * d.rate \in Nat
          BY <5>1, Monotone
        <5> QED BY <5>1, <5>2
      <4> HIDE DEF x, y
      <4>7. (x + 1) * Cost = x * Cost + Cost /\ x * Cost \in Nat
        BY <1>3, <4>3
      <4>8. (x + 1) * Cost + b.tokens <= y
        BY <1>2, <1>3, <1>4, <4>5, <4>6, <4>7
      <4> QED BY <4>4, <4>8 DEF y
    <3>9. Budget(k, c, d)'
      <4>1. bucketAllowed'[k] = u /\ bucketCfg' = bucketCfg /\ Full(c)' = Full(c)
        BY <1>1, <1>5 DEF u, Full
      <4>2. buckets'[k].last = bucketNow /\ buckets'[k].tokens = b.tokens
        BY <1>4, <3>2
      <4> QED BY <3>5, <3>7, <3>8, <4>1, <4>2 DEF Budget
    <3> QED BY <2>2, <3>2, <3>9 DEF BucketKeyInv
  <2> QED BY <2>1, <2>2
<1> QED BY <1>7, <1>8 DEF BucketInv

(* A request that is refused takes nothing.                                 *)
LEMMA BucketRefuseKeeps ==
  ASSUME BucketInv, NEW k \in BucketKeys, BucketRefuse(k)
  PROVE  BucketInv'
<1>1. PICK v \in Visited(k) :
        /\ buckets' = Charged(v, k, v.bucket)
        /\ bucketEvicted' = bucketEvicted \cup Lost(v, k)
        /\ bucketCfg' = bucketCfg /\ bucketNow' = bucketNow /\ bucketAllowed' = bucketAllowed
  BY DEF BucketRefuse
<1>2. v.bucket \in [tokens : Nat, last : Nat] /\ v.bucket.last = bucketNow /\ v.bucket.tokens <= Full(bucketCfg)
  BY VisitedIs DEF BucketInv
<1>3. bucketAllowed' \in [BucketKeys -> Seq(Nat)]
  BY <1>1 DEF BucketInv, BucketTypes
<1>4. BucketTypes'
  BY <1>1, <1>2, <1>3, VisitTypes DEF BucketInv
<1>5. ASSUME NEW j \in BucketKeys \ bucketEvicted' PROVE BucketKeyInv(j)'
  <2>1. CASE j # k
    BY <1>1, <2>1, Bystander
  <2>2. CASE j = k
    <3>1. k \in DOMAIN v.map /\ k \in BucketKeys \ bucketEvicted
      BY <1>1, <2>2 DEF Lost
    <3>2. k \in DOMAIN buckets' /\ buckets'[k] = v.bucket
      BY <1>1, <3>1 DEF Charged
    <3>3. PICK c \in BucketConfigs, d \in BucketConfigs :
            /\ c.burst >= bucketCfg.burst
            /\ d.rate >= bucketCfg.rate
            /\ \A from \in 0..bucketNow :
                 Cardinality(PassedSince(k, from)) * Cost + v.bucket.tokens
                   <= Full(c) + (bucketNow - from) * d.rate
      BY <3>1, VisitBudget
    <3>4. \A i \in DOMAIN bucketAllowed[k] : bucketAllowed[k][i] <= bucketNow
      BY <3>1, VisitBudget
    <3>5. \A from : PassedSince(k, from)' = PassedSince(k, from)
      BY <1>1 DEF PassedSince
    <3>6. Budget(k, c, d)'
      BY <1>1, <1>2, <3>2, <3>3, <3>4, <3>5 DEF Budget, Full
    <3> QED BY <2>2, <3>2, <3>6 DEF BucketKeyInv
  <2> QED BY <2>1, <2>2
<1> QED BY <1>4, <1>5 DEF BucketInv

(* Of two configurations one has the larger burst, one the larger rate.        *)
LEMMA Larger ==
  ASSUME NEW c \in BucketConfigs, NEW d \in BucketConfigs
  PROVE  /\ \E e \in BucketConfigs : e.burst >= c.burst /\ e.burst >= d.burst
         /\ \E e \in BucketConfigs : e.rate >= c.rate /\ e.rate >= d.rate
BY BucketConfigsType

(* A reconfiguration clamps tokens; the larger limits go on covering them.  *)
LEMMA BucketReconfigureKeeps ==
  ASSUME BucketInv, NEW e \in BucketConfigs, BucketReconfigure(e)
  PROVE  BucketInv'
<1>1. /\ bucketCfg' = e /\ bucketNow' = bucketNow /\ bucketAllowed' = bucketAllowed
      /\ bucketEvicted' = bucketEvicted /\ DOMAIN buckets' = DOMAIN buckets
      /\ \A k \in DOMAIN buckets :
           buckets'[k] = [buckets[k] EXCEPT !.tokens = Least(Full(e), buckets[k].tokens)]
  BY DEF BucketReconfigure
<1>2. Full(e) \in Nat /\ Full(e)' = Full(e)
  BY FullIs DEF Full
<1>3. ASSUME NEW k \in DOMAIN buckets
      PROVE  /\ buckets'[k] \in [tokens : Nat, last : Nat]
             /\ buckets'[k].tokens <= Full(e) /\ buckets'[k].tokens <= buckets[k].tokens
             /\ buckets'[k].last = buckets[k].last
  <2>1. buckets[k] \in [tokens : Nat, last : Nat]
    BY DEF BucketInv, BucketTypes
  <2> DEFINE x == Least(Full(e), buckets[k].tokens)
  <2>2. x \in Nat /\ x <= Full(e) /\ x <= buckets[k].tokens
    BY <1>2, <2>1, LeastIs
  <2> HIDE DEF x
  <2>3. buckets'[k] = [buckets[k] EXCEPT !.tokens = x]
    BY <1>1 DEF x
  <2> QED BY <2>1, <2>2, <2>3
<1>4. BucketTypes'
  <2>1. \A k \in DOMAIN buckets : buckets[k].last <= bucketNow
    BY DEF BucketInv, BucketTypes
  <2> QED BY <1>1, <1>2, <1>3, <2>1 DEF BucketInv, BucketTypes
<1>5. ASSUME NEW k \in BucketKeys \ bucketEvicted PROVE BucketKeyInv(k)'
  <2>1. BucketKeyInv(k)
    BY DEF BucketInv
  <2>2. CASE k \notin DOMAIN buckets
    BY <1>1, <2>1, <2>2 DEF BucketKeyInv
  <2>3. CASE k \in DOMAIN buckets
    <3>1. PICK c \in BucketConfigs, d \in BucketConfigs : Budget(k, c, d)
      BY <2>1, <2>3 DEF BucketKeyInv
    <3>2. PICK c2 \in BucketConfigs : c2.burst >= c.burst /\ c2.burst >= e.burst
      BY Larger
    <3>3. PICK d2 \in BucketConfigs : d2.rate >= d.rate /\ d2.rate >= e.rate
      BY Larger
    <3>4. Full(c) <= Full(c2) /\ Full(c) \in Nat /\ Full(c2) \in Nat
      BY <3>2, FullIs, Monotone, BucketConfigsType DEF Full
    <3>5. /\ buckets[k].last \in Nat /\ buckets[k].tokens \in Nat /\ buckets'[k].tokens \in Nat
          /\ bucketAllowed[k] \in Seq(Nat) /\ d.rate \in Nat /\ d2.rate \in Nat /\ Cost \in Nat
      BY <1>3, <2>3, BucketConfigsType, CostType DEF BucketInv, BucketTypes
    <3>6. ASSUME NEW from \in 0..buckets[k].last
          PROVE  Cardinality(PassedSince(k, from)) * Cost + buckets'[k].tokens
                   <= Full(c2) + (buckets[k].last - from) * d2.rate
      <4> DEFINE a == buckets[k].last - from
                 u == Cardinality(PassedSince(k, from)) * Cost
      <4>1. u + buckets[k].tokens <= Full(c) + a * d.rate
        BY <3>1 DEF Budget
      <4>2. u \in Nat
        <5>1. Cardinality(PassedSince(k, from)) \in Nat
          BY <3>5, PassedFinite
        <5> QED BY <3>5, <5>1, Monotone
      <4>3. a \in Nat
        BY <3>5
      <4> HIDE DEF a, u
      <4>4. a * d.rate <= a * d2.rate /\ a * d.rate \in Nat /\ a * d2.rate \in Nat
        <5> DEFINE y == d.rate
                   z == d2.rate
        <5>1. y \in Nat /\ z \in Nat /\ y <= z
          BY <3>3, <3>5
        <5> HIDE DEF y, z
        <5>2. a * y <= a * z /\ a * y \in Nat /\ a * z \in Nat
          BY <4>3, <5>1, Monotone
        <5> QED BY <5>2 DEF y, z
      <4>5. buckets'[k].tokens <= buckets[k].tokens
        BY <1>3, <2>3
      <4> DEFINE p == a * d.rate
                 q == a * d2.rate
                 tok == buckets[k].tokens
                 tok2 == buckets'[k].tokens
                 full == Full(c)
                 full2 == Full(c2)
      <4>6. /\ u + tok <= full + p /\ p <= q /\ p \in Nat /\ q \in Nat /\ tok2 <= tok
            /\ full <= full2 /\ full \in Nat /\ full2 \in Nat /\ tok \in Nat /\ tok2 \in Nat
        BY <3>4, <3>5, <4>1, <4>4, <4>5
      <4> HIDE DEF p, q, tok, tok2, full, full2
      <4>7. u + tok2 <= full2 + q
        BY <4>2, <4>6
      <4> QED BY <4>7 DEF a, u, q, tok2, full2
    <3>7. \A from : PassedSince(k, from)' = PassedSince(k, from)
      BY <1>1 DEF PassedSince
    <3>8. Budget(k, c2, d2)'
      <4>1. buckets'[k].last = buckets[k].last /\ Full(c2)' = Full(c2)
        BY <1>3, <2>3 DEF Full
      <4>2. \A i \in DOMAIN bucketAllowed[k] : bucketAllowed[k][i] <= buckets[k].last
        BY <3>1 DEF Budget
      <4> QED BY <1>1, <3>2, <3>3, <3>6, <3>7, <4>1, <4>2 DEF Budget
    <3> QED BY <1>1, <2>3, <3>8 DEF BucketKeyInv
  <2> QED BY <2>2, <2>3
<1> QED BY <1>1, <1>4, <1>5 DEF BucketInv

(* No bucket, no history.                                                   *)
LEMMA BucketStart == BucketInit => BucketInv
BY DEF BucketInit, BucketInv, BucketTypes, BucketKeyInv

(* Every step keeps the budgets.                                            *)
LEMMA BucketStep == BucketInv /\ [BucketNext]_bucketVars => BucketInv'
<1> SUFFICES ASSUME BucketInv, [BucketNext]_bucketVars PROVE BucketInv'
  OBVIOUS
<1>1. ASSUME NEW k \in BucketKeys, BucketAllow(k) PROVE BucketInv'
  BY <1>1, BucketPassKeeps, BucketRefuseKeeps DEF BucketAllow
<1>2. ASSUME NEW c \in BucketConfigs, BucketReconfigure(c) PROVE BucketInv'
  BY <1>2, BucketReconfigureKeeps
<1>3. CASE BucketTick \/ UNCHANGED bucketVars
  <2>1. /\ bucketCfg' = bucketCfg /\ buckets' = buckets /\ bucketAllowed' = bucketAllowed
        /\ bucketEvicted' = bucketEvicted /\ bucketNow' \in Nat /\ bucketNow <= bucketNow'
    BY <1>3 DEF BucketTick, bucketVars, BucketInv, BucketTypes
  <2>2. BucketTypes'
    <3>1. \A k \in DOMAIN buckets : buckets[k].last \in Nat /\ buckets[k].last <= bucketNow /\ bucketNow \in Nat
      BY DEF BucketInv, BucketTypes
    <3>2. \A k \in DOMAIN buckets : buckets[k].last <= bucketNow'
      BY <2>1, <3>1
    <3> QED BY <2>1, <3>2 DEF BucketInv, BucketTypes, Full
  <2>3. ASSUME NEW k \in BucketKeys \ bucketEvicted PROVE BucketKeyInv(k)'
    <3>1. BucketKeyInv(k) /\ \A from : PassedSince(k, from)' = PassedSince(k, from)
      BY <2>1 DEF BucketInv, PassedSince
    <3> QED BY <2>1, <3>1 DEF BucketKeyInv, Budget, Full
  <2> QED BY <2>1, <2>2, <2>3 DEF BucketInv
<1> QED BY <1>1, <1>2, <1>3 DEF BucketNext

(* The invariant holds in every reachable state.                               *)
THEOREM BucketInvariance == BucketSpec => []BucketInv
<1> QED BY BucketStart, BucketStep, PTL DEF BucketSpec

(* tokenBucketMap.allow (bucket.go:71): a key that was never evicted passes no *)
(* more than one burst and the refill since, whoever is evicted around it.     *)
THEOREM BurstCapHolds == BucketSpec => []BurstCap
<1>1. BucketInv => BurstCap
  <2> SUFFICES ASSUME BucketInv, NEW k \in BucketKeys \ bucketEvicted, NEW from \in 0..bucketNow
               PROVE  \E c, d \in BucketConfigs :
                        Cardinality(PassedSince(k, from)) * Cost <= Full(c) + (bucketNow - from) * d.rate
    BY DEF BurstCap, BurstLimited
  <2>1. /\ bucketCfg \in BucketConfigs /\ bucketNow \in Nat /\ Cost \in Nat /\ bucketCfg.rate \in Nat
        /\ bucketAllowed[k] \in Seq(Nat)
    BY BucketConfigsType, CostType DEF BucketInv, BucketTypes
  <2>2. BucketKeyInv(k)
    BY DEF BucketInv
  <2> DEFINE x == Cardinality(PassedSince(k, from))
  <2>3. x \in Nat
    BY <2>1, PassedFinite
  <2>4. ASSUME NEW c \in BucketConfigs, NEW d \in BucketConfigs, PassedSince(k, from) = {}
        PROVE  x * Cost <= Full(c) + (bucketNow - from) * d.rate
    <3>1. x * Cost = 0
      BY <2>1, <2>4, FS_EmptySet
    <3>2. d.rate \in Nat /\ bucketNow - from \in Nat /\ Full(c) \in Nat
      BY <2>1, BucketConfigsType, FullIs
    <3>3. (bucketNow - from) * d.rate \in Nat
      BY <3>2, Monotone
    <3> QED BY <3>1, <3>2, <3>3
  <2>5. CASE k \notin DOMAIN buckets
    <3>1. PassedSince(k, from) = {}
      BY <2>2, <2>5 DEF BucketKeyInv, PassedSince
    <3> QED BY <2>1, <2>4, <3>1
  <2>6. CASE k \in DOMAIN buckets
    <3>1. PICK c \in BucketConfigs, d \in BucketConfigs : Budget(k, c, d)
      BY <2>2, <2>6 DEF BucketKeyInv
    <3>2. buckets[k].last \in Nat /\ buckets[k].tokens \in Nat /\ buckets[k].last <= bucketNow
      BY <2>6 DEF BucketInv, BucketTypes
    <3>3. CASE from <= buckets[k].last
      <4> DEFINE u == x * Cost
                 a == buckets[k].last - from
                 b == bucketNow - from
      <4>1. from \in 0..buckets[k].last
        BY <2>1, <3>2, <3>3
      <4>2. u + buckets[k].tokens <= Full(c) + a * d.rate
        BY <3>1, <4>1 DEF Budget
      <4>3. u \in Nat
        <5> HIDE DEF x
        <5> QED BY <2>1, <2>3, Monotone
      <4>4. a \in Nat /\ b \in Nat /\ a <= b /\ d.rate \in Nat /\ Full(c) \in Nat
        <5>1. a \in Nat /\ b \in Nat /\ a <= b
          BY <2>1, <3>2, <4>1
        <5>2. d.rate \in Nat /\ Full(c) \in Nat
          BY BucketConfigsType, FullIs
        <5> QED BY <5>1, <5>2
      <4> HIDE DEF x, u, a, b
      <4>5. a * d.rate <= b * d.rate /\ d.rate * a \in Nat /\ d.rate * b \in Nat
            /\ d.rate * a = a * d.rate /\ d.rate * b = b * d.rate
        BY <4>4, Monotone
      <4> DEFINE p == a * d.rate
                 q == b * d.rate
      <4> HIDE DEF p, q
      <4>6. u <= Full(c) + q
        BY <3>2, <4>2, <4>3, <4>4, <4>5 DEF p, q
      <4> QED BY <4>6 DEF u, x, b, q
    <3>4. CASE ~(from <= buckets[k].last)
      <4>1. PassedSince(k, from) = {}
        <5> SUFFICES ASSUME NEW i \in DOMAIN bucketAllowed[k], bucketAllowed[k][i] >= from PROVE FALSE
          BY DEF PassedSince
        <5>1. bucketAllowed[k][i] <= buckets[k].last /\ bucketAllowed[k][i] \in Nat
          BY <2>1, <3>1 DEF Budget
        <5> QED BY <2>1, <3>2, <3>4, <5>1
      <4> QED BY <2>4, <4>1
    <3> QED BY <3>3, <3>4
  <2> QED BY <2>5, <2>6
<1> QED BY <1>1, BucketInvariance, PTL

(* The wait in whole seconds: less than one short of what is missing, and not
   short at all when less than a second's refill is missing. *)
LEMMA SecondsPay ==
  ASSUME NEW n \in Nat, NEW r \in Nat \ {0}, NEW S \in Nat \ {0}
  PROVE  LET q == n \div (r * S)
             w == S * (IF q < 1 THEN 1 ELSE q)
         IN /\ w \in Nat
            /\ n < w * r + r * S
            /\ n < r * S => n <= w * r
<1> DEFINE d == r * S
           q == n \div d
           m == IF q < 1 THEN 1 ELSE q
           p == d * m
<1>1. d \in Nat \ {0}
  OBVIOUS
<1>2. q \in Int /\ d * q <= n /\ n < d * q + d
  <2> HIDE DEF d
  <2> QED BY <1>1
<1>3. q >= 0
  <2> HIDE DEF q
  <2> SUFFICES ASSUME q <= -1 PROVE FALSE
    BY <1>2
  <2>1. PICK z \in Nat : q = -1 - z
    <3>1. -1 - q \in Nat /\ q = -1 - (-1 - q)
      BY <1>2
    <3> QED BY <3>1
  <2> HIDE DEF d
  <2>2. d * q = -d - d * z /\ d * z >= 0 /\ d * z \in Int
    BY <1>1, <2>1
  <2> QED BY <1>1, <1>2, <2>2
<1>4. m \in Nat /\ m >= 1 /\ (q >= 1 => m = q) /\ (q < 1 => q = 0 /\ m = 1)
  <2> HIDE DEF q
  <2> QED BY <1>2, <1>3
<1>5. (S * m) * r = p /\ S * m \in Nat
  <2> HIDE DEF m
  <2> QED BY <1>4
<1>6. p \in Nat /\ n < p + d /\ (n < d => n <= p)
  <2>1. CASE q >= 1
    <3>1. p = d * q /\ d * q \in Int
      <4> HIDE DEF d, q
      <4> QED BY <1>1, <1>2, <1>4, <2>1 
    <3>2. p \in Nat /\ p >= d
      <4>1. PICK z \in Nat : m = 1 + z
        <5> HIDE DEF m
        <5>1. m - 1 \in Nat /\ m = 1 + (m - 1)
          BY <1>4
        <5> QED BY <5>1
      <4> HIDE DEF d, m
      <4>2. d * (1 + z) = d + d * z /\ d * z \in Nat
        BY <1>1, <4>1
      <4> QED BY <1>1, <4>1, <4>2
    <3> HIDE DEF d, q, p
    <3> QED BY <1>1, <1>2, <3>1, <3>2
  <2>2. CASE q < 1
    <3>1. p = d /\ d * q = 0
      <4> HIDE DEF d, q
      <4> QED BY <1>1, <1>4, <2>2
    <3> HIDE DEF d, q, p
    <3> QED BY <1>1, <1>2, <3>1
  <2> HIDE DEF q
  <2> QED BY <1>2, <2>1, <2>2
<1> HIDE DEF p, m
<1>7. S * m \in Nat /\ n < (S * m) * r + r * S /\ (n < r * S => n <= (S * m) * r)
  BY <1>5, <1>6
<1> QED BY <1>7 DEF m

(* By the time h a bucket will be less than a second's refill short of a token,
   or will hold it. *)
Nearly(b, h) ==
  b.last <= h /\ Cost < b.tokens + (h - b.last) * bucketCfg.rate + bucketCfg.rate * BucketSecond
Paid(b, h) == Cost <= b.tokens + (h - b.last) * bucketCfg.rate

(* A hint stands for a bucket that is nearly ready by then; the hint after a
   wait, for one that is. *)
BucketPromise ==
  /\ bucketHint \in [BucketKeys -> Nat]
  /\ bucketHeeded \subseteq BucketKeys
  /\ \A k \in DOMAIN buckets : bucketHint[k] # 0 =>
       /\ Nearly(buckets[k], bucketHint[k])
       /\ k \in bucketHeeded => Paid(buckets[k], bucketHint[k])

(* What a hint promises. *)
LEMMA RetryAtIs ==
  ASSUME BucketTypes, NEW b \in [tokens : Nat, last : Nat], b.tokens < Cost, b.last = bucketNow
  PROVE  /\ BucketRetryAt(b) \in Nat
         /\ Nearly(b, BucketRetryAt(b))
         /\ Cost < b.tokens + bucketCfg.rate * BucketSecond => Paid(b, BucketRetryAt(b))
<1> DEFINE n == Missing(b)
           r == bucketCfg.rate
           q == n \div (r * BucketSecond)
           w == BucketSecond * (IF q < 1 THEN 1 ELSE q)
<1>1. n \in Nat /\ r \in Nat \ {0} /\ bucketNow \in Nat /\ b.tokens \in Nat /\ Cost \in Nat
      /\ n = Cost - b.tokens /\ BucketSecond \in Nat \ {0}
  BY BucketConfigsType, BucketSecondType, CostType DEF BucketTypes, Missing
<1>2. BucketRetryAt(b) = bucketNow + w
  BY DEF BucketRetryAt
<1> HIDE DEF n, r
<1>3. w \in Nat /\ n < w * r + r * BucketSecond /\ (n < r * BucketSecond => n <= w * r)
  BY <1>1, SecondsPay
<1> HIDE DEF q, w
<1>4. (bucketNow + w) - bucketNow = w /\ bucketNow + w \in Nat /\ bucketNow <= bucketNow + w
  BY <1>1, <1>3
<1>5. w * r \in Nat /\ r * BucketSecond \in Nat
  BY <1>1, <1>3
<1> DEFINE x == w * r
           y == r * BucketSecond
           h == bucketNow + w
<1>6. (h - b.last) * r = x
  BY <1>4
<1> HIDE DEF x, y, h
<1>7. /\ Cost < b.tokens + x + y
      /\ Cost < b.tokens + y => Cost <= b.tokens + x
  BY <1>1, <1>3, <1>5 DEF x, y
<1> QED BY <1>1, <1>2, <1>4, <1>6, <1>7 DEF Nearly, Paid, x, y, r, h

(* No hint is given at the start.                                           *)
LEMMA BucketPromiseStart == BucketInit => BucketPromise
BY DEF BucketInit, BucketPromise

(* The bucket of a key that comes back when it was told to: full, or refilled
   since by as much as the hint counted on. *)
LEMMA ComesBack ==
  ASSUME BucketTypes, BucketPromise, NEW k \in BucketKeys, BucketWaited(k), NEW v \in Visited(k)
  PROVE  \/ v.bucket.tokens >= Cost
         \/ /\ k \in DOMAIN buckets
            /\ Cost < v.bucket.tokens + bucketCfg.rate * BucketSecond
            /\ k \notin bucketHeeded
<1>1. /\ bucketCfg \in BucketConfigs /\ bucketNow \in Nat /\ Cost \in Nat /\ bucketCfg.rate \in Nat
      /\ Full(bucketCfg) \in Nat /\ Full(bucketCfg) >= Cost /\ BucketSecond \in Nat
  BY BucketConfigsType, BucketSecondType, FullIs DEF BucketTypes
<1>2. v.bucket = IF k \in DOMAIN buckets THEN Refilled(buckets[k]) ELSE Fresh
  BY VisitedIs
<1>3. CASE k \notin DOMAIN buckets
  BY <1>1, <1>2, <1>3 DEF Fresh
<1>4. CASE k \in DOMAIN buckets
  <2> DEFINE last == buckets[k].last
             tok == buckets[k].tokens
             h == bucketHint[k]
             s == bucketCfg.rate * BucketSecond
  <2>1. h \in Nat /\ h # 0 /\ h <= bucketNow
    BY <1>1 DEF BucketWaited
  <2>2. last \in Nat /\ tok \in Nat /\ s \in Nat
    BY <1>1, <1>4 DEF BucketTypes
  <2>3. /\ last <= h /\ Cost < tok + (h - last) * bucketCfg.rate + s
        /\ k \in bucketHeeded => Cost <= tok + (h - last) * bucketCfg.rate
    BY <1>4, <2>1 DEF BucketPromise, Nearly, Paid
  <2> DEFINE a == h - last
             b == bucketNow - last
             x == tok + b * bucketCfg.rate
  <2>4. \/ v.bucket.tokens = Full(bucketCfg)
        \/ v.bucket.tokens = x
    BY <1>2, <1>4, RefilledIs
  <2> HIDE DEF h, last, tok, x, s
  <2>5. a \in Nat /\ b \in Nat /\ a <= b
    BY <1>1, <2>1, <2>2, <2>3
  <2>6. Cost < tok + a * bucketCfg.rate + s /\ (k \in bucketHeeded => Cost <= tok + a * bucketCfg.rate)
    BY <2>3
  <2> HIDE DEF a, b
  <2>7. a * bucketCfg.rate <= b * bucketCfg.rate /\ bucketCfg.rate * a \in Nat
        /\ bucketCfg.rate * b \in Nat /\ bucketCfg.rate * a = a * bucketCfg.rate
        /\ bucketCfg.rate * b = b * bucketCfg.rate
    BY <1>1, <2>5, Monotone
  <2> DEFINE p == a * bucketCfg.rate
             q == b * bucketCfg.rate
  <2>8. /\ Cost < tok + p + s /\ p <= q /\ p \in Nat /\ q \in Nat /\ x = tok + q
        /\ k \in bucketHeeded => Cost <= tok + p
    BY <2>6, <2>7 DEF x
  <2> HIDE DEF p, q
  <2>9. Cost < x + s /\ x \in Nat /\ (k \in bucketHeeded => x >= Cost)
    BY <1>1, <2>2, <2>8
  <2> QED BY <1>1, <1>4, <2>2, <2>4, <2>9 DEF s
<1> QED BY <1>3, <1>4

(* A hint stands until its key is visited or the limits change.             *)
LEMMA BucketPromiseStep ==
  ASSUME BucketInv, BucketPromise, [BucketNext]_bucketVars
  PROVE  BucketPromise'
<1>1. BucketTypes
  BY DEF BucketInv
<1>2. ASSUME NEW k \in BucketKeys, NEW v \in Visited(k), NEW b,
             buckets' = Charged(v, k, b), bucketCfg' = bucketCfg,
             NEW h \in Nat, bucketHint' = [bucketHint EXCEPT ![k] = h],
             bucketHeeded' \in {bucketHeeded \cup {k}, bucketHeeded \ {k}},
             h # 0 => Nearly(b, h) /\ (k \in bucketHeeded' => Paid(b, h))
      PROVE  BucketPromise'
  <2>1. /\ DOMAIN v.map \subseteq DOMAIN buckets \cup {k}
        /\ \A j \in DOMAIN v.map \ {k} : j \in DOMAIN buckets /\ v.map[j] = buckets[j]
    BY <1>1, VisitedIs
  <2>2. DOMAIN buckets' = DOMAIN v.map
    BY <1>2 DEF Charged
  <2>3. bucketHint' \in [BucketKeys -> Nat] /\ bucketHeeded' \subseteq BucketKeys
    BY <1>2 DEF BucketPromise
  <2>4. ASSUME NEW j \in DOMAIN buckets', bucketHint'[j] # 0
        PROVE  /\ Nearly(buckets'[j], bucketHint'[j])
               /\ j \in bucketHeeded' => Paid(buckets'[j], bucketHint'[j])
    <3>1. CASE j = k
      <4>1. buckets'[j] = b /\ bucketHint'[j] = h
        BY <1>2, <2>2, <3>1 DEF Charged, BucketPromise
      <4> QED BY <1>2, <2>4, <3>1, <4>1
    <3>2. CASE j # k
      <4>1. j \in DOMAIN buckets /\ buckets'[j] = buckets[j]
        BY <1>2, <2>1, <2>2, <3>2 DEF Charged
      <4>2. bucketHint'[j] = bucketHint[j] /\ (j \in bucketHeeded' <=> j \in bucketHeeded)
        BY <1>1, <1>2, <3>2, <4>1 DEF BucketPromise, BucketTypes
      <4> QED BY <2>4, <4>1, <4>2 DEF BucketPromise
    <3> QED BY <3>1, <3>2
  <2>5. ASSUME NEW b2, NEW h2 PROVE Nearly(b2, h2)' = Nearly(b2, h2) /\ Paid(b2, h2)' = Paid(b2, h2)
    BY <1>2 DEF Nearly, Paid
  <2>6. \A j \in DOMAIN buckets' : bucketHint'[j] # 0 =>
          /\ Nearly(buckets[j], bucketHint[j])'
          /\ j \in bucketHeeded' => Paid(buckets[j], bucketHint[j])'
    BY <1>2, <2>4 DEF Nearly, Paid
  <2> QED BY <2>3, <2>6 DEF BucketPromise
<1>3. ASSUME NEW k \in BucketKeys, BucketPass(k) PROVE BucketPromise'
  <2>1. PICK v \in Visited(k) :
          /\ buckets' = Charged(v, k, [v.bucket EXCEPT !.tokens = @ - Cost])
          /\ bucketHint' = [bucketHint EXCEPT ![k] = 0] /\ bucketCfg' = bucketCfg
          /\ bucketHeeded' = bucketHeeded \ {k}
    BY <1>3 DEF BucketPass
  <2> QED BY <1>2, <2>1
<1>4. ASSUME NEW k \in BucketKeys, BucketRefuse(k) PROVE BucketPromise'
  <2>1. PICK v \in Visited(k) :
          /\ v.bucket.tokens < Cost
          /\ buckets' = Charged(v, k, v.bucket)
          /\ bucketHint' = [bucketHint EXCEPT ![k] = BucketRetryAt(v.bucket)]
          /\ bucketHeeded' = IF BucketWaited(k) THEN bucketHeeded \cup {k} ELSE bucketHeeded \ {k}
          /\ bucketCfg' = bucketCfg
    BY <1>4 DEF BucketRefuse
  <2> DEFINE h == BucketRetryAt(v.bucket)
  <2>2. v.bucket \in [tokens : Nat, last : Nat] /\ v.bucket.last = bucketNow
    BY <1>1, VisitedIs
  <2>3. /\ h \in Nat /\ Nearly(v.bucket, h)
        /\ Cost < v.bucket.tokens + bucketCfg.rate * BucketSecond => Paid(v.bucket, h)
    BY <1>1, <2>1, <2>2, RetryAtIs
  <2>4. k \in bucketHeeded' => Paid(v.bucket, h)
    <3> SUFFICES ASSUME BucketWaited(k) PROVE Paid(v.bucket, h)
      BY <2>1
    <3>1. ~(v.bucket.tokens >= Cost)
      BY <2>1, <2>2, CostType
    <3>2. Cost < v.bucket.tokens + bucketCfg.rate * BucketSecond
      BY <1>1, <3>1, ComesBack
    <3> QED BY <2>3, <3>2
  <2> HIDE DEF h
  <2>5. bucketHint' = [bucketHint EXCEPT ![k] = h]
    BY <2>1 DEF h
  <2> QED BY <1>2, <2>1, <2>3, <2>4, <2>5
<1>5. ASSUME NEW c \in BucketConfigs, BucketReconfigure(c) PROVE BucketPromise'
  <2>1. /\ bucketHint' = [k \in BucketKeys |-> 0] /\ DOMAIN buckets' = DOMAIN buckets
        /\ bucketHeeded' = {}
    BY <1>5 DEF BucketReconfigure
  <2>2. \A k \in DOMAIN buckets : k \in BucketKeys
    BY <1>1 DEF BucketTypes
  <2> QED BY <2>1, <2>2 DEF BucketPromise
<1>6. CASE BucketTick \/ UNCHANGED bucketVars
  BY <1>6 DEF BucketTick, bucketVars, BucketPromise, Nearly, Paid
<1> QED BY <1>3, <1>4, <1>5, <1>6 DEF BucketNext, BucketAllow

(* The Retry-After of tokenBucketMap.allow (bucket.go:95-102) as the header
   gives it (middleware.go:90), truncated to seconds: a key that waited as told
   is denied again at most once. *)
THEOREM RetrySettles == BucketSpec => []RetryAfterSettles
<1>1. BucketInv /\ BucketPromise /\ [BucketNext]_bucketVars => BucketPromise'
  BY BucketPromiseStep
<1>2. BucketInv /\ BucketPromise => RetryAfterSettles
  <2> SUFFICES ASSUME BucketTypes, BucketPromise, NEW k \in bucketHeeded, BucketWaited(k),
                      NEW v \in Visited(k)
               PROVE  v.bucket.tokens >= Cost
    BY DEF BucketInv, RetryAfterSettles, Admitted
  <2>1. k \in BucketKeys
    BY DEF BucketPromise
  <2> QED BY <2>1, ComesBack
<1> QED BY <1>1, <1>2, BucketPromiseStart, BucketInvariance, PTL DEF BucketSpec

(* Type correctness of the bucket map: tokens never exceed the burst in force, *)
(* no refill lies in the future.                                               *)
THEOREM BucketTypesHold == BucketSpec => []BucketTypeOK
<1> DEFINE Bounded == bucketNow <= BucketHorizon
<1>1. BucketInit => Bounded
  BY BucketHorizonType DEF BucketInit
<1>2. BucketTypes /\ Bounded /\ [BucketNext]_bucketVars => Bounded'
  <2> SUFFICES ASSUME BucketTypes, Bounded, [BucketNext]_bucketVars PROVE Bounded'
    OBVIOUS
  <2>1. CASE BucketTick
    BY <2>1, BucketHorizonType DEF BucketTick, BucketTypes
  <2>2. CASE ~BucketTick
    <3>1. bucketNow' = bucketNow
      BY <2>2 DEF BucketNext, BucketAllow, BucketPass, BucketRefuse, BucketReconfigure, bucketVars
    <3> QED BY <3>1
  <2> QED BY <2>1, <2>2
<1>3. BucketTypes /\ Bounded => BucketTypeOK
  <2> SUFFICES ASSUME BucketTypes, Bounded PROVE BucketTypeOK
    OBVIOUS
  <2>1. Full(bucketCfg) \in Nat /\ bucketNow \in Nat /\ bucketNow \in 0..BucketHorizon
    BY FullIs, BucketHorizonType DEF BucketTypes
  <2>2. ASSUME NEW k \in DOMAIN buckets
        PROVE  buckets[k].tokens \in 0..Full(bucketCfg) /\ buckets[k].last \in 0..bucketNow
    <3>1. /\ buckets[k] \in [tokens : Nat, last : Nat]
          /\ buckets[k].tokens <= Full(bucketCfg) /\ buckets[k].last <= bucketNow
      BY DEF BucketTypes
    <3> QED BY <2>1, <3>1
  <2> QED BY <2>1, <2>2 DEF BucketTypes, BucketTypeOK
<1>4. BucketInv => BucketTypes
  BY DEF BucketInv
<1> QED BY <1>1, <1>2, <1>3, <1>4, BucketInvariance, PTL DEF BucketSpec

--------------------------------------------------------------------------------
(* Sliding windows.                                                        *)

(* Induction on an interval: the subsets of an interval are well-founded.   *)
LEMMA Upwards ==
  ASSUME NEW n \in Nat, NEW T, 0 \in T, \A k \in 1..n : k - 1 \in T => k \in T
  PROVE  0..n \subseteq T
<1> DEFINE Bad == {k \in 0..n : k \notin T}
           Upto == {1..k : k \in Bad}
<1> SUFFICES ASSUME Bad # {} PROVE FALSE
  OBVIOUS
<1>1. Upto # {} /\ Upto \subseteq FiniteSubsetsOf(Nat)
  <2>1. ASSUME NEW k \in Bad PROVE 1..k \in FiniteSubsetsOf(Nat)
    BY FS_Interval DEF FiniteSubsetsOf
  <2> QED BY <2>1
<1>2. PICK S \in Upto : \A U \in Upto : ~(<<U, S>> \in StrictSubsetOrdering(Nat))
  BY <1>1, WFMin, FS_StrictSubsetOrderingWellFounded
<1>3. PICK k \in Bad : S = 1..k
  OBVIOUS
<1>4. k # 0
  OBVIOUS
<1>5. k - 1 \in T
  <2>1. 1..(k-1) \subseteq 1..k /\ 1..(k-1) # 1..k /\ 1..(k-1) \in SUBSET Nat /\ 1..k \in SUBSET Nat
    BY <1>4
  <2>2. <<1..(k-1), 1..k>> \in StrictSubsetOrdering(Nat)
    BY <2>1 DEF StrictSubsetOrdering
  <2>3. k - 1 \notin Bad
    BY <1>2, <1>3, <2>2
  <2> QED BY <1>4, <2>3
<1> QED BY <1>4, <1>5


Sorted(s) == \A i, j \in DOMAIN s : i <= j => s[i] <= s[j]

(* s is what is left of t without its first g elements. *)
Tails(s, t, g) == Len(s) = Len(t) - g /\ \A i \in 1..Len(s) : s[i] = t[g + i]

(* A list divided at h by a cutoff. *)
Divides(h, t, n, c) == (\A i \in 1..h : t[i] <= c) /\ (\A i \in h + 1..n : t[i] > c)

(* In a sorted list the times after the cutoff are a tail. *)
LEMMA Threshold ==
  ASSUME NEW t \in Seq(Nat), Sorted(t), NEW c \in Int
  PROVE  \E h \in 0..Len(t) : Divides(h, t, Len(t), c)
<1> DEFINE n == Len(t)
           T == {k \in 0..n : \E h \in 0..k : Divides(h, t, k, c)}
<1>1. n \in Nat /\ DOMAIN t = 1..n /\ \A i \in 1..n : t[i] \in Nat
  OBVIOUS
<1> HIDE DEF n
<1>2. 0 \in T
  <2>1. Divides(0, t, 0, c)
    BY DEF Divides
  <2> QED BY <1>1, <2>1
<1>3. ASSUME NEW k \in 1..n, k - 1 \in T PROVE k \in T
  <2>1. PICK h \in 0..k - 1 : Divides(h, t, k - 1, c)
    BY <1>3
  <2>2. CASE t[k] > c
    <3>1. Divides(h, t, k, c)
      BY <1>1, <2>1, <2>2 DEF Divides
    <3> QED BY <1>1, <3>1
  <2>3. CASE ~(t[k] > c)
    <3>1. \A i \in 1..k : t[i] <= t[k]
      BY <1>1 DEF Sorted
    <3>2. Divides(k, t, k, c)
      BY <1>1, <2>3, <3>1 DEF Divides
    <3> QED BY <1>1, <3>2
  <2> QED BY <2>2, <2>3
<1>4. n \in T
  <2> HIDE DEF T
  <2>1. 0..n \subseteq T
    BY <1>1, <1>2, <1>3, Upwards
  <2> QED BY <1>1, <2>1
<1> QED BY <1>1, <1>4 DEF n

(* The loop of allow, as far as it got. *)
Loop(g, t, n) ==
  [i \in 0..n |->
     IF i = 0 THEN <<>>
     ELSE IF t[i] > Cutoff THEN Append(g[i - 1], t[i]) ELSE g[i - 1]]

(* The loop has a value, however long the list.                             *)
LEMMA LoopExists == ASSUME NEW t, NEW n \in Nat PROVE \E g : g = Loop(g, t, n)
<1> DEFINE T == {k \in 0..n : \E g : g = Loop(g, t, k)}
<1>1. 0 \in T
  <2> DEFINE g == [i \in 0..0 |-> <<>>]
  <2>1. g = Loop(g, t, 0)
    BY DEF Loop
  <2> HIDE DEF g
  <2> QED BY <2>1
<1>2. ASSUME NEW k \in 1..n, k - 1 \in T PROVE k \in T
  <2>1. PICK f : f = Loop(f, t, k - 1)
    BY <1>2
  <2> DEFINE g == [i \in 0..k |->
                     IF i = k THEN IF t[k] > Cutoff THEN Append(f[k - 1], t[k]) ELSE f[k - 1]
                     ELSE f[i]]
  <2>2. g[0] = <<>>
    BY <2>1 DEF Loop
  <2>3. ASSUME NEW i \in 1..k
        PROVE  g[i] = IF t[i] > Cutoff THEN Append(g[i - 1], t[i]) ELSE g[i - 1]
    <3>1. CASE i = k
      BY <3>1
    <3>2. CASE i # k
      <4>1. i \in 0..k - 1 /\ i # 0
        BY <3>2
      <4>2. f[i] = IF t[i] > Cutoff THEN Append(f[i - 1], t[i]) ELSE f[i - 1]
        BY <2>1, <4>1 DEF Loop
      <4> QED BY <3>2, <4>2
    <3> QED BY <3>1, <3>2
  <2>4. g = [i \in 0..k |-> g[i]]
    OBVIOUS
  <2> HIDE DEF g
  <2>5. \A i \in 0..k :
          g[i] = IF i = 0 THEN <<>>
                 ELSE IF t[i] > Cutoff THEN Append(g[i - 1], t[i]) ELSE g[i - 1]
    BY <2>2, <2>3
  <2>6. g = Loop(g, t, k)
    BY <2>4, <2>5, Zenon DEF Loop
  <2> QED BY <2>6
<1>3. n \in T
  <2> HIDE DEF T
  <2>1. 0..n \subseteq T
    BY <1>1, <1>2, Upwards
  <2> QED BY <2>1
<1> QED BY <1>3

(* It returns a tail. *)
LEMMA AfterTails ==
  ASSUME NEW t \in Seq(Nat), Sorted(t), Cutoff \in Int
  PROVE  \E h \in 0..Len(t) : /\ After(t) \in Seq(Nat)
                              /\ Tails(After(t), t, h)
                              /\ Divides(h, t, Len(t), Cutoff)
<1> DEFINE n == Len(t)
<1>1. n \in Nat /\ DOMAIN t = 1..n /\ \A i \in 1..n : t[i] \in Nat
  OBVIOUS
<1>2. PICK h \in 0..n : Divides(h, t, n, Cutoff)
  BY Threshold
<1> HIDE DEF n
<1> DEFINE kept == CHOOSE g : g = Loop(g, t, n)
           Size(i) == IF i > h THEN i - h ELSE 0
           Good(s, i) == s \in Seq(Nat) /\ Len(s) = Size(i) /\ \A j \in 1..Size(i) : s[j] = t[h + j]
           T == {i \in 0..n : Good(kept[i], i)}
<1>3. kept = Loop(kept, t, n)
  BY <1>1, LoopExists
<1> HIDE DEF kept
<1>4. Good(<<>>, 0) /\ kept[0] = <<>>
  BY <1>1, <1>2, <1>3 DEF Loop
<1>5. ASSUME NEW k \in 1..n, Good(kept[k - 1], k - 1) PROVE Good(kept[k], k)
  <2>1. kept[k] = IF t[k] > Cutoff THEN Append(kept[k - 1], t[k]) ELSE kept[k - 1]
    <3>1. k \in 0..n /\ k # 0
      BY <1>1
    <3>2. kept[k] = Loop(kept, t, n)[k]
      BY <1>3
    <3> QED BY <3>1, <3>2 DEF Loop
  <2>2. CASE k <= h
    <3>1. ~(t[k] > Cutoff)
      BY <1>1, <1>2, <2>2 DEF Divides
    <3> QED BY <1>1, <1>2, <1>5, <2>1, <2>2, <3>1
  <2>3. CASE k > h
    <3>1. t[k] > Cutoff /\ t[k] \in Nat
      BY <1>1, <1>2, <2>3 DEF Divides
    <3> DEFINE s == kept[k - 1]
    <3> HIDE DEF s
    <3>2. s \in Seq(Nat) /\ Len(s) = k - 1 - h /\ \A j \in 1..k - 1 - h : s[j] = t[h + j]
      <4>1. Size(k - 1) = k - 1 - h
        BY <1>1, <1>2, <2>3
      <4>2. s \in Seq(Nat) /\ Len(s) = Size(k - 1) /\ \A j \in 1..Size(k - 1) : s[j] = t[h + j]
        BY <1>5 DEF s
      <4> HIDE DEF Size
      <4> QED BY <4>1, <4>2
    <3>3. /\ Append(s, t[k]) \in Seq(Nat) /\ Len(Append(s, t[k])) = k - h
          /\ \A j \in 1..k - 1 - h : Append(s, t[k])[j] = s[j]
          /\ Append(s, t[k])[k - h] = t[k]
      BY <1>1, <1>2, <2>3, <3>1, <3>2
    <3>4. \A j \in 1..k - h : Append(s, t[k])[j] = t[h + j]
      <4> SUFFICES ASSUME NEW j \in 1..k - h PROVE Append(s, t[k])[j] = t[h + j]
        OBVIOUS
      <4>1. CASE j = k - h
        <5>1. h + j = k
          BY <1>1, <1>2, <4>1
        <5> QED BY <3>3, <4>1, <5>1
      <4>2. CASE j # k - h
        <5>1. j \in 1..k - 1 - h
          BY <1>1, <1>2, <4>2
        <5> QED BY <3>2, <3>3, <5>1
      <4> QED BY <4>1, <4>2
    <3> QED BY <1>1, <1>2, <2>1, <2>3, <3>1, <3>3, <3>4 DEF s
  <2> QED BY <1>1, <1>2, <2>2, <2>3
<1>6. Good(kept[n], n)
  <2>1. 0 \in T
    <3> HIDE DEF Good
    <3> QED BY <1>1, <1>4
  <2>2. ASSUME NEW k \in 1..n, k - 1 \in T PROVE k \in T
    <3> HIDE DEF Good
    <3> QED BY <1>1, <1>5, <2>2
  <2>3. n \in T
    <3> HIDE DEF T
    <3>1. 0..n \subseteq T
      BY <1>1, <2>1, <2>2, Upwards
    <3> QED BY <1>1, <3>1
  <2> HIDE DEF Good
  <2> QED BY <2>3
<1>7. After(t) = kept[n]
  BY DEF After, kept, Loop, n
<1>8. Good(kept[n], n) => kept[n] \in Seq(Nat) /\ Tails(kept[n], t, h)
  <2>1. Size(n) = n - h
    BY <1>1, <1>2
  <2> QED BY <2>1 DEF Tails, n
<1> QED BY <1>2, <1>6, <1>7, <1>8 DEF n

--------------------------------------------------------------------------------
(* What the window has forgotten of a key, the first g requests that passed,   *)
(* is older than some configured window; within that window no more passed     *)
(* than some configured max.                                                   *)
Forgotten(k, c, d, g) ==
  /\ \A i \in 1..g : windowAllowed[k][i] <= windowNow - c.window
  /\ Cardinality(Since(k, windowNow - c.window)) <= d.max
  /\ IF k \in DOMAIN attempts THEN Tails(attempts[k], windowAllowed[k], g)
     ELSE g = Len(windowAllowed[k])

WindowKeyInv(k) ==
  /\ windowAllowed[k] \in Seq(Nat)
  /\ Sorted(windowAllowed[k])
  /\ \A i \in DOMAIN windowAllowed[k] : windowAllowed[k][i] <= windowNow
  /\ \E c, d \in WindowConfigs : \E g \in 0..Len(windowAllowed[k]) : Forgotten(k, c, d, g)

WindowInv ==
  /\ windowCfg \in WindowConfigs
  /\ windowNow \in Nat
  /\ DOMAIN attempts \subseteq WindowKeys
  /\ \A k \in DOMAIN attempts : attempts[k] \in Seq(Nat)
  /\ DOMAIN windowAllowed = WindowKeys
  /\ \A k \in WindowKeys : WindowKeyInv(k)

(* What is taken away more leaves less.                                     *)
LEMMA Differences ==
  ASSUME NEW n \in Nat, NEW x \in Nat, NEW y \in Nat, x <= y
  PROVE  n - y <= n - x
OBVIOUS

(* Chains of bounds.                                                        *)
LEMMA Transitive ==
  ASSUME NEW x \in Int, NEW y \in Int, NEW z \in Int, x <= y, y <= z
  PROVE  x <= z
OBVIOUS

(* Fewer of the passed requests lie in a shorter window. *)
LEMMA SinceShrinks ==
  ASSUME NEW k, windowAllowed[k] \in Seq(Nat), NEW t \in Int, NEW u \in Int, t <= u
  PROVE  /\ Cardinality(Since(k, u)) \in Nat
         /\ Cardinality(Since(k, u)) <= Cardinality(Since(k, t))
<1> DEFINE n == Len(windowAllowed[k])
<1>1. n \in Nat /\ DOMAIN windowAllowed[k] = 1..n /\ \A i \in 1..n : windowAllowed[k][i] \in Nat
  OBVIOUS
<1> HIDE DEF n
<1>2. Since(k, t) \subseteq 1..n /\ Since(k, u) \subseteq Since(k, t)
  BY <1>1 DEF Since
<1>3. IsFiniteSet(1..n)
  BY <1>1, FS_Interval
<1>4. IsFiniteSet(Since(k, t))
  BY <1>2, <1>3, FS_Subset
<1> QED BY <1>2, <1>4, FS_Subset, FS_CardinalityType

(* A tail is in the window whole if its requests are. *)
LEMMA TailCounts ==
  ASSUME NEW k, windowAllowed[k] \in Seq(Nat), NEW t \in Int, NEW g \in 0..Len(windowAllowed[k])
  PROVE  /\ (\A i \in 1..g : windowAllowed[k][i] <= t)
            => Cardinality(Since(k, t)) <= Len(windowAllowed[k]) - g
         /\ (\A i \in g + 1..Len(windowAllowed[k]) : windowAllowed[k][i] > t)
            => Cardinality(Since(k, t)) >= Len(windowAllowed[k]) - g
<1> DEFINE n == Len(windowAllowed[k])
<1>1. n \in Nat /\ DOMAIN windowAllowed[k] = 1..n /\ \A i \in 1..n : windowAllowed[k][i] \in Nat
  OBVIOUS
<1> HIDE DEF n
<1>2. g \in Nat /\ g <= n
  BY <1>1 DEF n
<1>3. IsFiniteSet(g + 1..n) /\ Cardinality(g + 1..n) = n - g
  <2>1. g + 1 \in Int /\ n \in Int /\ (g + 1 > n => n - g = 0) /\ n - (g + 1) + 1 = n - g
    BY <1>1, <1>2
  <2> DEFINE a == g + 1
  <2> HIDE DEF a
  <2>2. IsFiniteSet(a..n) /\ Cardinality(a..n) = IF a > n THEN 0 ELSE n - a + 1
    BY <2>1, FS_Interval DEF a
  <2> QED BY <2>1, <2>2 DEF a
<1>4. Since(k, t) \subseteq 1..n /\ IsFiniteSet(1..n)
  BY <1>1, FS_Interval DEF Since
<1>5. IsFiniteSet(Since(k, t))
  BY <1>4, FS_Subset
<1>6. ASSUME \A i \in 1..g : windowAllowed[k][i] <= t PROVE Cardinality(Since(k, t)) <= n - g
  <2>1. Since(k, t) \subseteq g + 1..n
    <3> SUFFICES ASSUME NEW i \in Since(k, t) PROVE i \in g + 1..n
      OBVIOUS
    <3>1. i \in 1..n /\ windowAllowed[k][i] > t
      BY <1>1 DEF Since
    <3>2. i \notin 1..g
      BY <1>1, <1>6, <3>1
    <3> QED BY <1>1, <1>2, <3>1, <3>2
  <2> QED BY <1>3, <2>1, FS_Subset
<1>7. ASSUME \A i \in g + 1..n : windowAllowed[k][i] > t PROVE Cardinality(Since(k, t)) >= n - g
  <2>1. g + 1..n \subseteq Since(k, t)
    <3> SUFFICES ASSUME NEW i \in g + 1..n PROVE i \in Since(k, t)
      OBVIOUS
    <3>1. i \in 1..n
      BY <1>1, <1>2
    <3>2. windowAllowed[k][i] > t
      BY <1>7
    <3> QED BY <1>1, <3>1, <3>2 DEF Since
  <2>2. Cardinality(g + 1..n) <= Cardinality(Since(k, t)) /\ Cardinality(Since(k, t)) \in Nat
    BY <1>5, <2>1, FS_Subset, FS_CardinalityType
  <2> QED BY <1>1, <1>2, <1>3, <2>2
<1> QED BY <1>6, <1>7 DEF n

(* Of two configurations one has the shorter window. *)
LEMMA Shorter ==
  ASSUME NEW c \in WindowConfigs, NEW d \in WindowConfigs
  PROVE  \E e \in WindowConfigs : e.window <= c.window /\ e.window <= d.window
BY WindowConfigsType

(* The list of a key is in order of time.                                      *)
LEMMA AttemptsSorted ==
  ASSUME WindowInv, NEW k \in DOMAIN attempts
  PROVE  Sorted(attempts[k])
<1> DEFINE t == windowAllowed[k]
           s == attempts[k]
<1>1. k \in WindowKeys /\ t \in Seq(Nat) /\ Sorted(t) /\ s \in Seq(Nat)
  BY DEF WindowInv, WindowKeyInv
<1>2. PICK g \in 0..Len(t) : Tails(s, t, g)
  BY <1>1 DEF WindowInv, WindowKeyInv, Forgotten
<1>3. DOMAIN s = 1..Len(s) /\ DOMAIN t = 1..Len(t) /\ Len(s) \in Nat /\ Len(t) \in Nat
  BY <1>1
<1> HIDE DEF s, t
<1> SUFFICES ASSUME NEW i \in 1..Len(s), NEW j \in 1..Len(s), i <= j PROVE s[i] <= s[j]
  BY <1>3 DEF Sorted, s
<1>4. Len(s) = Len(t) - g /\ s[i] = t[g + i] /\ s[j] = t[g + j]
  BY <1>2 DEF Tails
<1>5. g + i \in 1..Len(t) /\ g + j \in 1..Len(t) /\ g + i <= g + j
  BY <1>3, <1>4
<1>6. t[g + i] <= t[g + j]
  BY <1>1, <1>3, <1>5 DEF Sorted
<1> QED BY <1>4, <1>6

(* The recent requests of a key: all that passed after the cutoff, the oldest  *)
(* ones forgotten.                                                             *)
LEMMA RecentTails ==
  ASSUME WindowInv, NEW k \in WindowKeys
  PROVE  /\ Recent(k) \in Seq(Nat)
         /\ \E c, d \in WindowConfigs : \E g \in 0..Len(windowAllowed[k]) :
              /\ c.window <= windowCfg.window
              /\ \A i \in 1..g : windowAllowed[k][i] <= windowNow - c.window
              /\ Cardinality(Since(k, windowNow - c.window)) <= d.max
              /\ Tails(Recent(k), windowAllowed[k], g)
              /\ \A i \in g + 1..Len(windowAllowed[k]) : windowAllowed[k][i] > Cutoff
<1> DEFINE t == windowAllowed[k]
<1>1. t \in Seq(Nat) /\ Sorted(t) /\ windowNow \in Nat /\ windowCfg \in WindowConfigs
  BY DEF WindowInv, WindowKeyInv
<1>2. PICK c \in WindowConfigs, d \in WindowConfigs, g \in 0..Len(t) : Forgotten(k, c, d, g)
  BY DEF WindowInv, WindowKeyInv
<1>3. PICK e \in WindowConfigs : e.window <= c.window /\ e.window <= windowCfg.window
  BY <1>1, Shorter
<1>4. /\ c.window \in Nat /\ e.window \in Nat /\ windowCfg.window \in Nat /\ d.max \in Nat
      /\ Cutoff \in Int /\ Len(t) \in Nat /\ \A i \in 1..Len(t) : t[i] \in Nat
  BY <1>1, WindowConfigsType DEF Cutoff
<1>5. /\ Cardinality(Since(k, windowNow - e.window)) \in Nat
      /\ Cardinality(Since(k, windowNow - c.window)) \in Nat
      /\ Cardinality(Since(k, windowNow - e.window)) <= Cardinality(Since(k, windowNow - c.window))
  <2> DEFINE x == windowNow - c.window
             y == windowNow - e.window
  <2>1. x \in Int /\ y \in Int /\ x <= y
    <3>1. windowNow \in Int /\ c.window \in Int /\ e.window \in Int
      BY <1>1, <1>4
    <3> HIDE DEF x, y
    <3>2. x \in Int /\ y \in Int
      BY <3>1 DEF x, y
    <3>3. windowNow - c.window <= windowNow - e.window
      BY <1>3, <3>1, Differences
    <3> QED BY <3>2, <3>3 DEF x, y
  <2> HIDE DEF x, y
  <2>2. Cardinality(Since(k, y)) \in Nat /\ Cardinality(Since(k, y)) <= Cardinality(Since(k, x))
    BY <1>1, <2>1, SinceShrinks
  <2>3. x <= x
    BY <2>1
  <2>4. Cardinality(Since(k, x)) \in Nat
    BY <1>1, <2>1, <2>3, SinceShrinks
  <2> QED BY <2>2, <2>4 DEF x, y
<1>7. Cardinality(Since(k, windowNow - e.window)) <= d.max
  BY <1>2, <1>4, <1>5 DEF Forgotten
<1>8. \A i \in 1..g : t[i] <= windowNow - e.window
  <2> SUFFICES ASSUME NEW i \in 1..g PROVE t[i] <= windowNow - e.window
    OBVIOUS
  <2>1. t[i] <= windowNow - c.window
    BY <1>2 DEF Forgotten
  <2>2. t[i] \in Nat
    BY <1>4
  <2>3. windowNow - c.window <= windowNow - e.window
    BY <1>1, <1>3, <1>4, Differences
  <2>4. windowNow - c.window \in Int /\ windowNow - e.window \in Int
    BY <1>1, <1>4
  <2> QED BY <2>1, <2>2, <2>3, <2>4, Transitive
<1>9. CASE k \notin DOMAIN attempts
  <2>1. Recent(k) = <<>> /\ g = Len(t)
    BY <1>2, <1>9 DEF Recent, Forgotten
  <2>2. Tails(Recent(k), t, g)
    BY <1>4, <2>1 DEF Tails
  <2>3. \A i \in g + 1..Len(t) : t[i] > Cutoff
    BY <1>4, <2>1
  <2> QED BY <1>3, <1>7, <1>8, <2>1, <2>2, <2>3
<1>10. CASE k \in DOMAIN attempts
  <2> DEFINE s == attempts[k]
  <2>1. s \in Seq(Nat) /\ Tails(s, t, g) /\ Recent(k) = After(s)
    BY <1>2, <1>10 DEF WindowInv, Forgotten, Recent
  <2> HIDE DEF s
  <2>2. Len(s) = Len(t) - g /\ Len(s) \in Nat /\ \A i \in 1..Len(s) : s[i] = t[g + i] /\ s[i] \in Nat
    BY <2>1 DEF Tails
  <2>3. Sorted(s)
    BY <1>10, AttemptsSorted DEF s
  <2>4. PICK h \in 0..Len(s) : /\ After(s) \in Seq(Nat)
                               /\ Tails(After(s), s, h)
                               /\ Divides(h, s, Len(s), Cutoff)
    BY <1>4, <2>1, <2>3, AfterTails
  <2> DEFINE f == g + h
  <2>5. f \in 0..Len(t) /\ h \in Nat /\ g \in Nat /\ h <= Len(s)
    BY <1>4, <2>2
  <2>6. Tails(After(s), t, f)
    <3>1. Len(After(s)) = Len(t) - f /\ Len(After(s)) \in Nat
      BY <1>4, <2>2, <2>4, <2>5 DEF Tails
    <3>2. ASSUME NEW i \in 1..Len(After(s)) PROVE After(s)[i] = t[f + i]
      <4>1. h + i \in 1..Len(s) /\ After(s)[i] = s[h + i]
        BY <1>4, <2>2, <2>4, <2>5, <3>1 DEF Tails
      <4>2. s[h + i] = t[g + (h + i)]
        BY <2>2, <4>1
      <4>3. g + (h + i) = f + i
        BY <2>5, <3>1
      <4> QED BY <4>1, <4>2, <4>3
    <3> QED BY <3>1, <3>2 DEF Tails
  <2>7. \A i \in f + 1..Len(t) : t[i] > Cutoff
    <3> SUFFICES ASSUME NEW i \in f + 1..Len(t) PROVE t[i] > Cutoff
      OBVIOUS
    <3>0. i \in Nat /\ i > f /\ i <= Len(t)
      BY <1>4, <2>5
    <3>1. i - g \in h + 1..Len(s) /\ g + (i - g) = i /\ i - g \in 1..Len(s)
      BY <1>4, <2>2, <2>5, <3>0
    <3>2. s[i - g] > Cutoff
      BY <2>4, <3>1 DEF Divides
    <3>3. s[i - g] = t[g + (i - g)]
      BY <2>2, <3>1
    <3> QED BY <3>1, <3>2, <3>3
  <2>8. \A i \in 1..f : t[i] <= windowNow - e.window
    <3> SUFFICES ASSUME NEW i \in 1..f PROVE t[i] <= windowNow - e.window
      OBVIOUS
    <3>1. CASE i <= g
      BY <1>8, <2>5, <3>1
    <3>2. CASE i > g
      <4>1. i - g \in 1..h /\ g + (i - g) = i /\ i - g \in 1..Len(s)
        BY <1>4, <2>2, <2>5, <3>2
      <4>2. s[i - g] <= Cutoff
        BY <2>4, <4>1 DEF Divides
      <4>3. s[i - g] = t[g + (i - g)] /\ s[i - g] \in Nat
        BY <2>2, <4>1
      <4>4. t[i] <= Cutoff /\ t[i] \in Nat
        BY <4>1, <4>2, <4>3
      <4>5. Cutoff <= windowNow - e.window
        BY <1>1, <1>3, <1>4, Differences DEF Cutoff
      <4>6. Cutoff \in Int /\ windowNow - e.window \in Int
        BY <1>1, <1>4
      <4> QED BY <4>4, <4>5, <4>6, Transitive
    <3> QED BY <2>5, <3>1, <3>2
  <2> HIDE DEF f
  <2> QED BY <1>3, <1>7, <2>1, <2>4, <2>5, <2>6, <2>7, <2>8
<1> QED BY <1>9, <1>10

(* A key that another request leaves alone.                                    *)
LEMMA LeftAlone ==
  ASSUME NEW k, WindowKeyInv(k),
         windowNow' = windowNow, windowAllowed'[k] = windowAllowed[k],
         k \in DOMAIN attempts' <=> k \in DOMAIN attempts, attempts'[k] = attempts[k]
  PROVE  WindowKeyInv(k)'
<1>1. \A t : Since(k, t)' = Since(k, t)
  BY DEF Since
<1>2. PICK c \in WindowConfigs, d \in WindowConfigs, g \in 0..Len(windowAllowed[k]) : Forgotten(k, c, d, g)
  BY DEF WindowKeyInv
<1>3. Since(k, windowNow - c.window)' = Since(k, windowNow - c.window)
  BY DEF Since
<1>4. Forgotten(k, c, d, g)'
  BY <1>2, <1>3 DEF Forgotten
<1> QED BY <1>2, <1>4 DEF WindowKeyInv

(* A key without an entry that gets none.                                   *)
LEMMA LeftOut ==
  ASSUME NEW k, WindowKeyInv(k),
         windowNow' = windowNow, windowAllowed'[k] = windowAllowed[k],
         k \notin DOMAIN attempts, k \notin DOMAIN attempts'
  PROVE  WindowKeyInv(k)'
<1>1. PICK c \in WindowConfigs, d \in WindowConfigs, g \in 0..Len(windowAllowed[k]) : Forgotten(k, c, d, g)
  BY DEF WindowKeyInv
<1>2. Since(k, windowNow - c.window)' = Since(k, windowNow - c.window)
  BY DEF Since
<1>3. Forgotten(k, c, d, g)'
  BY <1>1, <1>2 DEF Forgotten
<1> QED BY <1>1, <1>3 DEF WindowKeyInv

(* An entry that is evicted took nothing along that is in the window.          *)
LEMMA Cold ==
  ASSUME WindowInv, NEW k \in DOMAIN attempts,
         attempts[k] # <<>> => attempts[k][Len(attempts[k])] < Cutoff,
         windowNow' = windowNow, windowAllowed'[k] = windowAllowed[k],
         k \notin DOMAIN attempts'
  PROVE  WindowKeyInv(k)'
<1> DEFINE t == windowAllowed[k]
<1> DEFINE s == attempts[k]
<1>1. /\ k \in WindowKeys /\ t \in Seq(Nat) /\ Sorted(t) /\ windowNow \in Nat
      /\ windowCfg \in WindowConfigs /\ s \in Seq(Nat)
  BY DEF WindowInv, WindowKeyInv
<1>2. PICK c \in WindowConfigs, d \in WindowConfigs, g \in 0..Len(t) : Forgotten(k, c, d, g)
  BY <1>1 DEF WindowInv, WindowKeyInv
<1>3. PICK e \in WindowConfigs : e.window <= c.window /\ e.window <= windowCfg.window
  BY <1>1, Shorter
<1>4. /\ c.window \in Nat /\ e.window \in Nat /\ windowCfg.window \in Nat /\ d.max \in Nat
      /\ Cutoff \in Int /\ Len(t) \in Nat /\ \A i \in 1..Len(t) : t[i] \in Nat
  <2>1. c.window \in Nat /\ e.window \in Nat /\ windowCfg.window \in Nat /\ d.max \in Nat
    BY <1>1, WindowConfigsType
  <2>2. Len(t) \in Nat /\ \A i \in 1..Len(t) : t[i] \in Nat
    BY <1>1
  <2> QED BY <1>1, <2>1, <2>2 DEF Cutoff
<1>5. Cutoff <= windowNow - e.window /\ windowNow - c.window <= windowNow - e.window
  BY <1>1, <1>3, <1>4, Differences DEF Cutoff
<1>6. windowNow - e.window \in Int /\ windowNow - c.window \in Int
  BY <1>1, <1>4
<1>7. Tails(s, t, g)
  BY <1>2 DEF Forgotten
<1>8. \A i \in 1..Len(t) : t[i] <= windowNow - e.window
  <2>1. CASE s = <<>>
    <3>1. g = Len(t)
      BY <1>4, <1>7, <2>1 DEF Tails
    <3> SUFFICES ASSUME NEW i \in 1..Len(t) PROVE t[i] <= windowNow - e.window
      OBVIOUS
    <3>2. t[i] <= windowNow - c.window /\ t[i] \in Nat
      BY <1>2, <1>4, <3>1 DEF Forgotten
    <3> QED BY <1>5, <1>6, <3>2, Transitive
  <2>2. CASE s # <<>>
    <3>1. Len(s) \in Nat /\ Len(s) > 0 /\ Len(s) = Len(t) - g /\ s[Len(s)] < Cutoff
      BY <1>1, <1>7, <2>2 DEF Tails
    <3>0. Len(s) \in 1..Len(s)
      BY <3>1
    <3>2. s[Len(s)] = t[g + Len(s)] /\ g + Len(s) = Len(t) /\ Len(t) > 0
      <4>1. s[Len(s)] = t[g + Len(s)]
        BY <1>7, <3>0 DEF Tails
      <4>2. g + Len(s) = Len(t) /\ Len(t) > 0
        BY <1>4, <3>1
      <4> QED BY <4>1, <4>2
    <3> SUFFICES ASSUME NEW i \in 1..Len(t) PROVE t[i] <= windowNow - e.window
      OBVIOUS
    <3>3. t[i] <= t[Len(t)] /\ t[i] \in Nat /\ t[Len(t)] \in Nat
      <4>1. i \in DOMAIN t /\ Len(t) \in DOMAIN t /\ i <= Len(t) /\ Len(t) \in 1..Len(t)
        BY <1>1, <1>4, <3>2
      <4>2. t[i] <= t[Len(t)]
        BY <1>1, <4>1 DEF Sorted
      <4> QED BY <1>4, <4>1, <4>2
    <3>4. t[Len(t)] < Cutoff
      BY <3>1, <3>2
    <3> QED BY <1>4, <1>5, <1>6, <3>3, <3>4
  <2> QED BY <2>1, <2>2
<1>9. Cardinality(Since(k, windowNow - e.window)) <= d.max
  <2>1. /\ Cardinality(Since(k, windowNow - e.window)) \in Nat
        /\ Cardinality(Since(k, windowNow - e.window)) <= Cardinality(Since(k, windowNow - c.window))
    BY <1>1, <1>5, <1>6, SinceShrinks
  <2>2. Cardinality(Since(k, windowNow - c.window)) \in Nat
    BY <1>1, <1>6, SinceShrinks
  <2> QED BY <1>2, <1>4, <2>1, <2>2 DEF Forgotten
<1>10. Since(k, windowNow - e.window)' = Since(k, windowNow - e.window)
  BY DEF Since
<1>11. Len(t) \in 0..Len(windowAllowed'[k])
  BY <1>4
<1>12. Forgotten(k, e, d, Len(windowAllowed[k]))'
  BY <1>8, <1>9, <1>10 DEF Forgotten
<1>13. \A i \in DOMAIN t : t[i] <= windowNow
  BY <1>1 DEF WindowInv, WindowKeyInv
<1>14. \E g2 \in 0..Len(windowAllowed'[k]) : Forgotten(k, e, d, g2)'
  <2>1. PICK n \in 0..Len(windowAllowed'[k]) : n = Len(windowAllowed'[k])
    BY <1>11
  <2>2. Forgotten(k, e, d, n)'
    BY <1>12, <2>1 DEF Forgotten
  <2> QED BY <2>2
<1> QED BY <1>1, <1>13, <1>14 DEF WindowKeyInv

(* A request that passes.                                                      *)
LEMMA PassKeeps ==
  ASSUME WindowInv, NEW k \in WindowKeys, WindowPass(k)
  PROVE  WindowKeyInv(k)'
<1> DEFINE t == windowAllowed[k]
<1> DEFINE r == Recent(k)
<1> DEFINE n == Len(t)
<1>1. r \in Seq(Nat)
  BY RecentTails
<1>2. PICK c \in WindowConfigs, d \in WindowConfigs, g \in 0..n :
        /\ c.window <= windowCfg.window
        /\ \A i \in 1..g : t[i] <= windowNow - c.window
        /\ Cardinality(Since(k, windowNow - c.window)) <= d.max
        /\ Tails(r, t, g)
        /\ \A i \in g + 1..n : t[i] > Cutoff
  BY RecentTails
<1>3. t \in Seq(Nat) /\ Sorted(t) /\ windowNow \in Nat /\ windowCfg \in WindowConfigs
      /\ \A i \in DOMAIN t : t[i] <= windowNow
  BY DEF WindowInv, WindowKeyInv
<1>4. /\ c.window \in Nat /\ windowCfg.window \in Nat \ {0} /\ windowCfg.max \in Nat
      /\ n \in Nat /\ DOMAIN t = 1..n /\ \A i \in 1..n : t[i] \in Nat
  BY <1>3, WindowConfigsType
<1>5. /\ Append(r, windowNow) \in Seq(Nat) /\ Len(Append(r, windowNow)) = Len(r) + 1
      /\ Append(r, windowNow) # <<>> /\ Len(r) \in Nat
      /\ Append(r, windowNow)[Len(r) + 1] = windowNow
      /\ \A i \in 1..Len(r) : Append(r, windowNow)[i] = r[i]
  BY <1>1, <1>3
<1>6. k \in DOMAIN attempts' /\ attempts'[k] = Append(r, windowNow)
  <2> DEFINE m == Put(attempts, k, Append(r, windowNow))
  <2>1. k \in DOMAIN m /\ m[k] = Append(r, windowNow)
    BY DEF Put
  <2>2. attempts' = EvictCold(m)
    BY DEF WindowPass
  <2> HIDE DEF m, r
  <2>3. m[k] # <<>> /\ m[k][Len(m[k])] >= Cutoff
    BY <1>3, <1>4, <1>5, <2>1 DEF Cutoff
  <2> QED BY <2>1, <2>2, <2>3 DEF EvictCold
<1>7. windowAllowed'[k] = Append(t, windowNow) /\ windowNow' = windowNow
  BY DEF WindowPass, WindowInv
<1> DEFINE u == Append(t, windowNow)
<1>8. /\ u \in Seq(Nat) /\ Len(u) = n + 1 /\ u[n + 1] = windowNow /\ DOMAIN u = 1..n + 1
      /\ \A i \in 1..n : u[i] = t[i]
  BY <1>3, <1>4
<1> HIDE DEF u, r
<1>9. Sorted(u) /\ \A i \in DOMAIN u : u[i] <= windowNow
  <2>1. \A i \in 1..n + 1 : i \in 1..n \/ i = n + 1
    BY <1>4
  <2>2. \A i \in 1..n + 1 : u[i] <= windowNow
    <3> SUFFICES ASSUME NEW i \in 1..n + 1 PROVE u[i] <= windowNow
      OBVIOUS
    <3>1. CASE i \in 1..n
      BY <1>3, <1>4, <1>8, <3>1
    <3>2. CASE i = n + 1
      BY <1>3, <1>8, <3>2
    <3> QED BY <2>1, <3>1, <3>2
  <2> SUFFICES ASSUME NEW i \in 1..n + 1, NEW j \in 1..n + 1, i <= j PROVE u[i] <= u[j]
    BY <1>8, <2>2 DEF Sorted
  <2>3. CASE j = n + 1
    BY <1>8, <2>2, <2>3
  <2>4. CASE j # n + 1
    <3>1. i \in 1..n /\ j \in 1..n
      BY <1>4, <2>4
    <3> QED BY <1>3, <1>4, <1>8, <3>1 DEF Sorted
  <2> QED BY <2>3, <2>4
<1>10. Tails(attempts'[k], u, g)
  <2>1. Len(r) = n - g /\ \A i \in 1..Len(r) : r[i] = t[g + i]
    BY <1>2 DEF Tails
  <2>2. Len(attempts'[k]) = Len(u) - g
    BY <1>4, <1>5, <1>6, <1>8, <2>1
  <2>3. ASSUME NEW i \in 1..Len(r) + 1 PROVE attempts'[k][i] = u[g + i]
    <3>1. CASE i = Len(r) + 1
      <4>1. g + i = n + 1
        BY <1>4, <2>1, <3>1
      <4> QED BY <1>5, <1>6, <1>8, <3>1, <4>1
    <3>2. CASE i # Len(r) + 1
      <4>0. Len(r) \in Nat /\ g \in Nat
        BY <1>4, <1>5
      <4>1. i \in 1..Len(r)
        BY <3>2, <4>0
      <4>2. g + i \in 1..n
        BY <1>4, <2>1, <4>0, <4>1
      <4> QED BY <1>5, <1>6, <1>8, <2>1, <4>1, <4>2
    <3> QED BY <3>1, <3>2
  <2> QED BY <1>5, <1>6, <2>2, <2>3 DEF Tails
<1>11. \A i \in 1..g : u[i] <= windowNow - c.window
  <2> SUFFICES ASSUME NEW i \in 1..g PROVE u[i] <= windowNow - c.window
    OBVIOUS
  <2>1. i \in 1..n
    BY <1>4
  <2> QED BY <1>2, <1>8, <2>1
<1>12. Cardinality(Since(k, windowNow - c.window)') <= windowCfg.max
  <2> DEFINE S == {i \in DOMAIN u : u[i] > windowNow - c.window}
  <2>1. Since(k, windowNow - c.window)' = S
    BY <1>7 DEF Since, u
  <2>2. S \subseteq g + 1..n + 1
    <3> SUFFICES ASSUME NEW i \in S PROVE i \in g + 1..n + 1
      OBVIOUS
    <3>1. i \in 1..n + 1 /\ u[i] > windowNow - c.window /\ u[i] \in Nat
      BY <1>8
    <3>2. i \notin 1..g
      BY <1>3, <1>4, <1>11, <3>1
    <3> QED BY <1>4, <3>1, <3>2
  <2> DEFINE a == g + 1
             b == n + 1
  <2>3. a \in Int /\ b \in Int /\ a <= b /\ b - a + 1 = n - g + 1
    BY <1>4
  <2> HIDE DEF a, b, S
  <2>4. IsFiniteSet(a..b) /\ Cardinality(a..b) = b - a + 1
    <3>1. IsFiniteSet(a..b) /\ Cardinality(a..b) = IF a > b THEN 0 ELSE b - a + 1
      BY <2>3, FS_Interval
    <3> QED BY <2>3, <3>1
  <2>5. S \subseteq a..b
    BY <2>2 DEF a, b
  <2>6. Cardinality(S) \in Nat /\ Cardinality(S) <= b - a + 1
    BY <2>4, <2>5, FS_Subset, FS_CardinalityType
  <2>7. n - g + 1 <= windowCfg.max
    <3>1. Len(r) < windowCfg.max /\ Len(r) = n - g
      BY <1>2 DEF WindowPass, Tails, r
    <3> QED BY <1>4, <1>5, <3>1
  <2> QED BY <1>4, <2>1, <2>3, <2>6, <2>7
<1>13. \E d2 \in WindowConfigs : Forgotten(k, c, d2, g)'
  <2>1. windowAllowed'[k] = u
    BY <1>7 DEF u
  <2>2. PICK d2 \in WindowConfigs : d2.max = windowCfg.max
    BY <1>3
  <2>3. (Since(k, windowNow - c.window))' = Since(k, windowNow - c.window)'
    OBVIOUS
  <2>4. Forgotten(k, c, d2, g)'
    BY <1>6, <1>7, <1>10, <1>11, <1>12, <2>1, <2>2, <2>3 DEF Forgotten
  <2> QED BY <2>4
<1>14. g \in 0..Len(windowAllowed'[k])
  BY <1>4, <1>7, <1>8 DEF u
<1>15. \E c2, d2 \in WindowConfigs : \E g2 \in 0..Len(windowAllowed'[k]) : Forgotten(k, c2, d2, g2)'
  BY <1>13, <1>14
<1> QED BY <1>7, <1>8, <1>9, <1>15 DEF WindowKeyInv, u

(* A request that is refused.                                                  *)
LEMMA RefuseKeeps ==
  ASSUME WindowInv, NEW k \in WindowKeys, WindowRefuse(k)
  PROVE  WindowKeyInv(k)'
<1> DEFINE t == windowAllowed[k]
<1>1. PICK c \in WindowConfigs, d \in WindowConfigs, g \in 0..Len(t) :
        /\ \A i \in 1..g : t[i] <= windowNow - c.window
        /\ Cardinality(Since(k, windowNow - c.window)) <= d.max
        /\ Tails(Recent(k), t, g)
  BY RecentTails
<1>2. t \in Seq(Nat) /\ Sorted(t) /\ \A i \in DOMAIN t : t[i] <= windowNow
  BY DEF WindowInv, WindowKeyInv
<1>3. k \in DOMAIN attempts' /\ attempts'[k] = Recent(k)
  BY DEF WindowRefuse, Put
<1>4. windowAllowed' = windowAllowed /\ windowNow' = windowNow
  BY DEF WindowRefuse
<1>5. Since(k, windowNow - c.window)' = Since(k, windowNow - c.window)
  BY <1>4 DEF Since
<1>6. Forgotten(k, c, d, g)'
  BY <1>1, <1>3, <1>4, <1>5 DEF Forgotten
<1> QED BY <1>2, <1>4, <1>6 DEF WindowKeyInv

(* No entry, no history.                                                    *)
LEMMA WindowStart == WindowInit => WindowInv
<1> SUFFICES ASSUME WindowInit PROVE WindowInv
  OBVIOUS
<1>1. ASSUME NEW k \in WindowKeys PROVE WindowKeyInv(k)
  <2>1. windowAllowed[k] = <<>> /\ k \notin DOMAIN attempts /\ windowCfg \in WindowConfigs
    BY DEF WindowInit
  <2>2. Since(k, windowNow - windowCfg.window) = {}
    BY <2>1 DEF Since
  <2>3. Forgotten(k, windowCfg, windowCfg, 0)
    <3>1. Cardinality(Since(k, windowNow - windowCfg.window)) = 0
      BY <2>2, FS_EmptySet
    <3> QED BY <2>1, <3>1, WindowConfigsType DEF Forgotten
  <2> QED BY <2>1, <2>3 DEF WindowKeyInv, Sorted
<1> QED BY <1>1 DEF WindowInv, WindowInit

(* Every step keeps what the windows need.                                  *)
LEMMA WindowStep == WindowInv /\ [WindowNext]_windowVars => WindowInv'
<1> SUFFICES ASSUME WindowInv, [WindowNext]_windowVars PROVE WindowInv'
  OBVIOUS
<1>1. ASSUME NEW k \in WindowKeys, WindowPass(k) PROVE WindowInv'
  <2> DEFINE r == Append(Recent(k), windowNow)
             m == Put(attempts, k, r)
  <2>1. r \in Seq(Nat) /\ windowNow \in Nat
    BY RecentTails DEF WindowInv
  <2>2. attempts' = EvictCold(m)
    BY <1>1 DEF WindowPass
  <2>3. /\ DOMAIN m = DOMAIN attempts \cup {k}
        /\ \A j \in DOMAIN attempts \ {k} : m[j] = attempts[j]
        /\ \A j \in DOMAIN m : m[j] \in Seq(Nat)
    BY <2>1 DEF Put, WindowInv
  <2> HIDE DEF m, r
  <2>4. /\ DOMAIN attempts' \subseteq DOMAIN m
        /\ \A j \in DOMAIN attempts' : attempts'[j] = m[j]
        /\ \A j \in DOMAIN m \ DOMAIN attempts' : m[j] # <<>> => ~(m[j][Len(m[j])] >= Cutoff)
    BY <2>2 DEF EvictCold
  <2>5. ASSUME NEW j \in WindowKeys PROVE WindowKeyInv(j)'
    <3>1. CASE j = k
      BY <1>1, <3>1, PassKeeps
    <3>2. CASE j # k
      <4>1. windowNow' = windowNow /\ windowAllowed'[j] = windowAllowed[j]
        BY <1>1, <3>2 DEF WindowPass, WindowInv
      <4>2. CASE j \in DOMAIN attempts /\ j \notin DOMAIN attempts'
        <5>1. m[j] = attempts[j] /\ j \in DOMAIN m /\ m[j] \in Seq(Nat)
          BY <2>3, <3>2, <4>2
        <5>2. ASSUME attempts[j] # <<>> PROVE attempts[j][Len(attempts[j])] < Cutoff
          <6>1. ~(attempts[j][Len(attempts[j])] >= Cutoff)
            BY <2>4, <4>2, <5>1, <5>2
          <6>2. attempts[j][Len(attempts[j])] \in Nat
            BY <5>1, <5>2
          <6>3. Cutoff \in Int
            BY <2>1, WindowConfigsType DEF Cutoff, WindowInv
          <6> QED BY <6>1, <6>2, <6>3
        <5> QED BY <4>1, <4>2, <5>2, Cold
      <4>3. CASE ~(j \in DOMAIN attempts /\ j \notin DOMAIN attempts')
        <5>1. j \in DOMAIN attempts' <=> j \in DOMAIN attempts
          BY <2>3, <2>4, <3>2, <4>3
        <5>2. CASE j \in DOMAIN attempts
          <6>1. attempts'[j] = attempts[j]
            BY <2>3, <2>4, <3>2, <5>1, <5>2
          <6>2. WindowKeyInv(j)
            BY DEF WindowInv
          <6> QED BY <4>1, <5>1, <6>1, <6>2, LeftAlone
        <5>3. CASE j \notin DOMAIN attempts
          <6>1. WindowKeyInv(j)
            BY DEF WindowInv
          <6> QED BY <4>1, <5>1, <5>3, <6>1, LeftOut
        <5> QED BY <5>2, <5>3
      <4> QED BY <4>2, <4>3
    <3> QED BY <3>1, <3>2
  <2>6. \A j \in DOMAIN attempts' : attempts'[j] \in Seq(Nat)
    BY <2>3, <2>4
  <2>7. DOMAIN attempts' \subseteq WindowKeys
    BY <2>3, <2>4 DEF WindowInv
  <2> QED BY <1>1, <2>5, <2>6, <2>7 DEF WindowInv, WindowPass
<1>2. ASSUME NEW k \in WindowKeys, WindowRefuse(k) PROVE WindowInv'
  <2>1. Recent(k) \in Seq(Nat)
    BY RecentTails
  <2>2. /\ DOMAIN attempts' = DOMAIN attempts \cup {k}
        /\ \A j \in DOMAIN attempts \ {k} : attempts'[j] = attempts[j]
        /\ attempts'[k] = Recent(k)
    BY <1>2 DEF WindowRefuse, Put
  <2>3. ASSUME NEW j \in WindowKeys PROVE WindowKeyInv(j)'
    <3>1. CASE j = k
      BY <1>2, <3>1, RefuseKeeps
    <3>2. CASE j # k
      <4>1. windowNow' = windowNow /\ windowAllowed'[j] = windowAllowed[j] /\ WindowKeyInv(j)
        BY <1>2 DEF WindowRefuse, WindowInv
      <4>2. j \in DOMAIN attempts' <=> j \in DOMAIN attempts
        BY <2>2, <3>2
      <4>3. CASE j \in DOMAIN attempts
        <5>1. attempts'[j] = attempts[j]
          BY <2>2, <3>2, <4>3
        <5> QED BY <4>1, <4>2, <5>1, LeftAlone
      <4>4. CASE j \notin DOMAIN attempts
        BY <4>1, <4>2, <4>4, LeftOut
      <4> QED BY <4>3, <4>4
    <3> QED BY <3>1, <3>2
  <2>4. \A j \in DOMAIN attempts' : attempts'[j] \in Seq(Nat)
    BY <2>1, <2>2 DEF WindowInv
  <2> QED BY <1>2, <2>2, <2>3, <2>4 DEF WindowInv, WindowRefuse
<1>3. ASSUME NEW c \in WindowConfigs, WindowReconfigure(c) PROVE WindowInv'
  <2>1. attempts' = attempts /\ windowNow' = windowNow /\ windowAllowed' = windowAllowed
    BY <1>3 DEF WindowReconfigure
  <2>2. ASSUME NEW j \in WindowKeys PROVE WindowKeyInv(j)'
    <3>1. WindowKeyInv(j)
      BY DEF WindowInv
    <3> QED BY <2>1, <3>1, LeftAlone
  <2> QED BY <1>3, <2>1, <2>2 DEF WindowInv, WindowReconfigure
<1>4. CASE WindowTick
  <2>1. /\ attempts' = attempts /\ windowNow' = windowNow + 1 /\ windowAllowed' = windowAllowed
        /\ windowCfg' = windowCfg /\ windowNow \in Nat
    BY <1>4 DEF WindowTick, WindowInv
  <2>2. ASSUME NEW k \in WindowKeys PROVE WindowKeyInv(k)'
    <3> DEFINE t == windowAllowed[k]
    <3>1. t \in Seq(Nat) /\ Sorted(t) /\ \A i \in DOMAIN t : t[i] <= windowNow /\ t[i] \in Nat
      BY DEF WindowInv, WindowKeyInv
    <3>2. PICK c \in WindowConfigs, d \in WindowConfigs, g \in 0..Len(t) : Forgotten(k, c, d, g)
      BY DEF WindowInv, WindowKeyInv
    <3>3. c.window \in Nat /\ d.max \in Nat
      BY WindowConfigsType
    <3> DEFINE x == windowNow - c.window
               y == windowNow' - c.window
    <3>4. x \in Int /\ y \in Int /\ x <= y
      BY <2>1, <3>3
    <3>5. /\ Cardinality(Since(k, x)) \in Nat /\ Cardinality(Since(k, y)) \in Nat
          /\ Cardinality(Since(k, y)) <= Cardinality(Since(k, x))
      <4> HIDE DEF x, y
      <4> QED BY <3>1, <3>4, SinceShrinks
    <3>6. Cardinality(Since(k, y)) <= d.max
      BY <3>2, <3>3, <3>5 DEF Forgotten
    <3>7. Since(k, windowNow - c.window)' = Since(k, y)
      <4>2. Since(k, windowNow - c.window)' = {i \in DOMAIN t : t[i] > windowNow' - c.window}
        BY <2>1 DEF Since
      <4> HIDE DEF y
      <4> QED BY <4>2 DEF Since, y
    <3>8. ASSUME NEW i \in 1..g PROVE t[i] <= y
      <4>1. t[i] <= x
        BY <3>2 DEF Forgotten
      <4>2. t[i] \in Nat
        BY <3>1
      <4> HIDE DEF x, y
      <4> QED BY <3>4, <4>1, <4>2
    <3>9. Forgotten(k, c, d, g)'
      <4>1. windowAllowed'[k] = t
        BY <2>1
      <4>2. IF k \in DOMAIN attempts' THEN Tails(attempts'[k], windowAllowed'[k], g)
            ELSE g = Len(windowAllowed'[k])
        BY <2>1, <3>2 DEF Forgotten
      <4>3. \A i \in 1..g : windowAllowed'[k][i] <= windowNow' - c.window
        BY <3>8, <4>1
      <4>4. Cardinality(Since(k, windowNow - c.window)') <= d.max
        BY <3>6, <3>7
      <4> QED BY <4>2, <4>3, <4>4 DEF Forgotten
    <3>10. \A i \in DOMAIN t : t[i] <= windowNow + 1
      BY <2>1, <3>1
    <3> QED BY <2>1, <3>1, <3>2, <3>9, <3>10 DEF WindowKeyInv
  <2> QED BY <2>1, <2>2 DEF WindowInv
<1>5. CASE UNCHANGED windowVars
  <2>1. /\ attempts' = attempts /\ windowNow' = windowNow /\ windowAllowed' = windowAllowed
        /\ windowCfg' = windowCfg
    BY <1>5 DEF windowVars
  <2>2. ASSUME NEW j \in WindowKeys PROVE WindowKeyInv(j)'
    <3>1. WindowKeyInv(j)
      BY DEF WindowInv
    <3> QED BY <2>1, <3>1, LeftAlone
  <2> QED BY <2>1, <2>2 DEF WindowInv
<1> QED BY <1>1, <1>2, <1>3, <1>4, <1>5 DEF WindowNext, WindowAllow

(* The invariant holds in every reachable state.                               *)
THEOREM WindowInvariance == WindowSpec => []WindowInv
<1> QED BY WindowStart, WindowStep, PTL DEF WindowSpec

(* slidingWindow.allow (sliding.go:66): no stretch of a window's length has    *)
(* more passed requests of a key than max, whatever was evicted.               *)
THEOREM WindowCapHolds == WindowSpec => []WindowCap
<1>1. WindowInv => WindowCap
  BY DEF WindowInv, WindowKeyInv, Forgotten, WindowCap
<1> QED BY <1>1, WindowInvariance, PTL

(* A denial finds the window full of requests that passed.                     *)
LEMMA FullWhenRefused ==
  ASSUME WindowInv, NEW k \in WindowKeys, WindowRefuse(k)
  PROVE  Cardinality(Since(k, Cutoff)) >= windowCfg.max
<1> DEFINE t == windowAllowed[k]
<1>1. t \in Seq(Nat) /\ windowNow \in Nat /\ windowCfg.window \in Nat /\ windowCfg.max \in Nat
  BY WindowConfigsType DEF WindowInv, WindowKeyInv
<1>2. Cutoff \in Int
  BY <1>1 DEF Cutoff
<1>3. PICK g \in 0..Len(t) : /\ Tails(Recent(k), t, g)
                             /\ \A i \in g + 1..Len(t) : t[i] > Cutoff
  BY RecentTails
<1>4. Cardinality(Since(k, Cutoff)) >= Len(t) - g
  BY <1>1, <1>2, <1>3, TailCounts
<1>5. Len(t) - g = Len(Recent(k)) /\ Len(Recent(k)) >= windowCfg.max
  BY <1>3 DEF Tails, WindowRefuse
<1>6. Len(t) - g \in Int /\ Cardinality(Since(k, Cutoff)) \in Nat
  BY <1>1, <1>2, SinceShrinks
<1> QED BY <1>1, <1>4, <1>5, <1>6

(* A denial is due: the window holds max requests that passed (sliding.go:81),
   whatever was reconfigured or evicted before. *)
THEOREM DenialsAreDue == WindowSpec => DeniedWhenFull
<1>1. WindowInv => [\A k \in WindowKeys :
                      WindowRefuse(k) => Cardinality(Since(k, Cutoff)) >= windowCfg.max]_windowVars
  BY FullWhenRefused
<1> QED BY <1>1, WindowInvariance, PTL DEF DeniedWhenFull

(* What a hint says of the list at its denial: the oldest request is less than a
   second from leaving the window by then; at the second denial in a row with
   the same list, it has left by then.                                        *)
Wait(k) == windowWaits[k]
Oldest(k) == attempts[k][1] + windowCfg.window

Awaited(k) ==
  /\ Wait(k) # <<>>
  /\ attempts[k] # <<>>
  /\ Len(attempts[k]) = Wait(k)[Len(Wait(k))]
  /\ Oldest(k) < windowHint[k] + WindowSecond
  /\ Len(Wait(k)) >= 2 /\ Wait(k)[Len(Wait(k)) - 1] = Wait(k)[Len(Wait(k))]
       => Oldest(k) <= windowHint[k]

(* Two denials on there are fewer requests in the list, and never more. *)
Shrinks(q) ==
  /\ q \in Seq(Nat)
  /\ \A i, j \in 1..Len(q) : i <= j => q[j] <= q[i]
  /\ \A i, j \in 1..Len(q) : j >= i + 2 => q[j] < q[i]

WaitInv ==
  /\ windowHint \in [WindowKeys -> Nat]
  /\ DOMAIN windowWaits = WindowKeys
  /\ \A k \in WindowKeys : Shrinks(Wait(k))
  /\ \A k \in DOMAIN attempts : windowHint[k] # 0 => Awaited(k)

(* One denial more, with no more requests than at the last one and fewer than at
   the last but one. *)
LEMMA ShrinksOn ==
  ASSUME NEW q, Shrinks(q), NEW n \in Nat,
         Len(q) >= 1 => n <= q[Len(q)],
         Len(q) >= 2 => n < q[Len(q) - 1]
  PROVE  Shrinks(Append(q, n))
<1> DEFINE p == Append(q, n)
           l == Len(q)
<1>1. q \in Seq(Nat) /\ l \in Nat /\ p \in Seq(Nat) /\ Len(p) = l + 1
  BY DEF Shrinks
<1>2. p[l + 1] = n /\ \A i \in 1..l : p[i] = q[i] /\ q[i] \in Nat
  BY <1>1
<1>3. /\ \A i, j \in 1..l : i <= j => q[j] <= q[i]
      /\ \A i, j \in 1..l : j >= i + 2 => q[j] < q[i]
      /\ l >= 1 => n <= q[l]
      /\ l >= 2 => n < q[l - 1]
  BY DEF Shrinks
<1> HIDE DEF p, l
<1>4. ASSUME NEW i \in 1..l + 1, NEW j \in 1..l + 1, i <= j PROVE p[j] <= p[i]
  <2>1. CASE j \in 1..l
    <3>1. i \in 1..l
      BY <1>1, <1>4, <2>1
    <3>2. p[j] = q[j] /\ p[i] = q[i]
      BY <1>2, <2>1, <3>1
    <3>3. q[j] <= q[i]
      BY <1>3, <1>4, <2>1, <3>1
    <3> QED BY <3>2, <3>3
  <2>2. CASE j = l + 1 /\ i = l + 1
    <3>1. p[j] = n /\ p[i] = n
      BY <1>2, <2>2
    <3> QED BY <3>1
  <2>3. CASE j = l + 1 /\ i \in 1..l
    <3>1. l >= 1 /\ l \in 1..l /\ i <= l
      BY <1>1, <2>3
    <3>2. n <= q[l] /\ q[l] <= q[i] /\ q[l] \in Nat /\ q[i] \in Nat
      BY <1>2, <1>3, <2>3, <3>1
    <3>3. p[j] = n /\ p[i] = q[i]
      BY <1>2, <2>3
    <3> QED BY <3>2, <3>3
  <2> QED BY <1>1, <2>1, <2>2, <2>3
<1>5. ASSUME NEW i \in 1..l + 1, NEW j \in 1..l + 1, j >= i + 2 PROVE p[j] < p[i]
  <2>1. CASE j \in 1..l
    BY <1>1, <1>2, <1>3, <1>5, <2>1
  <2>2. CASE j = l + 1
    <3>1. l >= 2 /\ i \in 1..l /\ l - 1 \in 1..l /\ i <= l - 1
      BY <1>1, <1>5, <2>2
    <3>2. n < q[l - 1] /\ q[l - 1] <= q[i] /\ q[l - 1] \in Nat /\ q[i] \in Nat
      BY <1>2, <1>3, <3>1
    <3> QED BY <1>2, <2>2, <3>1, <3>2
  <2> QED BY <1>1, <2>1, <2>2
<1> QED BY <1>1, <1>4, <1>5 DEF Shrinks, p

(* A first denial. *)
LEMMA ShrinksFrom == ASSUME NEW n \in Nat PROVE Shrinks(<<n>>) /\ Shrinks(<<>>)
BY DEF Shrinks

(* The wait in whole seconds: less than one short, and a second at least.    *)
HintFrom(now, n, S) == now + S * (IF n \div S < 1 THEN 1 ELSE n \div S)

LEMMA HintIs ==
  ASSUME NEW now \in Nat, NEW n \in Nat, NEW S \in Nat \ {0}
  PROVE  /\ HintFrom(now, n, S) \in Nat /\ HintFrom(now, n, S) # 0
         /\ now + n < HintFrom(now, n, S) + S
         /\ now + S <= HintFrom(now, n, S)
<1> DEFINE q == n \div S
           m == IF q < 1 THEN 1 ELSE q
<1>1. q \in Int /\ S * q <= n /\ n < S * q + S
  OBVIOUS
<1> HIDE DEF q
<1>2. m \in Int /\ m >= 1 /\ m >= q
  BY <1>1
<1> HIDE DEF m
<1>3. PICK z \in Nat : m = 1 + z
  <2>1. m - 1 \in Nat /\ m = 1 + (m - 1)
    BY <1>2
  <2> QED BY <2>1
<1>4. S * m = S + S * z /\ S * z \in Nat
  BY <1>3
<1>5. S * q <= S * m /\ S * q \in Int
  <2>1. PICK y \in Nat : m = q + y
    <3>1. m - q \in Nat /\ m = q + (m - q)
      BY <1>1, <1>2
    <3> QED BY <3>1
  <2>2. S * m = S * q + S * y /\ S * y \in Nat /\ S * q \in Int
    BY <1>1, <2>1
  <2> QED BY <2>2
<1> DEFINE x == S * m
           y == S * q
<1>6. x \in Nat /\ x >= S /\ y \in Int /\ y <= x /\ n < y + S
  BY <1>1, <1>4, <1>5
<1> HIDE DEF x, y
<1>7. now + x \in Nat /\ now + x # 0 /\ now + n < now + x + S /\ now + S <= now + x
  BY <1>6
<1> QED BY <1>7 DEF x, m, q, HintFrom

(* The recent requests are a tail of the list.                              *)
LEMMA RecentDrops ==
  ASSUME WindowInv, NEW k \in DOMAIN attempts
  PROVE  \E h \in 0..Len(attempts[k]) :
           /\ Tails(Recent(k), attempts[k], h)
           /\ \A i \in h + 1..Len(attempts[k]) : attempts[k][i] > Cutoff
<1>1. attempts[k] \in Seq(Nat) /\ Sorted(attempts[k])
  BY AttemptsSorted DEF WindowInv
<1>2. Cutoff \in Int
  BY WindowConfigsType DEF WindowInv, Cutoff
<1> QED BY <1>1, <1>2, AfterTails DEF Recent, Divides

(* Nobody waits at the start.                                               *)
LEMMA WaitStart == WindowInit => WaitInv
BY DEF WindowInit, WaitInv, Shrinks, Wait

(* A key that passes waits no more; the others' lists stay, or go whole.    *)
LEMMA WaitPass ==
  ASSUME WindowInv, WaitInv, NEW k \in WindowKeys, WindowPass(k)
  PROVE  WaitInv'
<1> DEFINE r == Append(Recent(k), windowNow)
           m == Put(attempts, k, r)
<1>1. /\ attempts' = EvictCold(m) /\ windowCfg' = windowCfg
      /\ windowHint' = [windowHint EXCEPT ![k] = 0]
      /\ windowWaits' = [windowWaits EXCEPT ![k] = <<>>]
  BY DEF WindowPass
<1>2. \A j \in DOMAIN m : j # k => j \in DOMAIN attempts /\ m[j] = attempts[j]
  BY DEF Put
<1> HIDE DEF m, r
<1>3. \A j \in DOMAIN attempts' : j \in DOMAIN m /\ attempts'[j] = m[j]
  BY <1>1 DEF EvictCold
<1>4. windowHint' \in [WindowKeys -> Nat] /\ DOMAIN windowWaits' = WindowKeys
  BY <1>1 DEF WaitInv
<1>5. ASSUME NEW j \in WindowKeys PROVE Shrinks(Wait(j))'
  BY <1>1, ShrinksFrom DEF WaitInv, Wait, Shrinks
<1>6. ASSUME NEW j \in DOMAIN attempts', windowHint'[j] # 0 PROVE Awaited(j)'
  <2>1. j # k
    BY <1>1, <1>6 DEF WaitInv
  <2>2. j \in DOMAIN attempts /\ attempts'[j] = attempts[j] /\ j \in WindowKeys
    BY <1>2, <1>3, <2>1 DEF WindowInv
  <2>3. windowHint'[j] = windowHint[j] /\ windowWaits'[j] = windowWaits[j]
    BY <1>1, <2>1, <2>2 DEF WaitInv
  <2>4. Awaited(j)
    BY <1>6, <2>2, <2>3 DEF WaitInv
  <2> QED BY <1>1, <2>2, <2>3, <2>4 DEF Awaited, Wait, Oldest
<1> QED BY <1>4, <1>5, <1>6 DEF WaitInv

(* A key that waited as it was told, and is denied again: fewer requests are
   left, unless the hint was short; then the next one is not.               *)
LEMMA DeniedAgain ==
  ASSUME WindowInv, WaitInv, NEW k \in WindowKeys, WindowRefuse(k), WindowWaited(k)
  PROVE  LET n == Len(Recent(k))
             q == Wait(k)
             l == Len(q)
         IN /\ l \in Nat /\ l >= 1
            /\ n <= q[l]
            /\ l >= 2 => n < q[l - 1]
            /\ n = q[l] => Head(Recent(k)) + windowCfg.window < windowNow + WindowSecond
<1> DEFINE s == attempts[k]
           q == Wait(k)
           l == Len(q)
           h == windowHint[k]
           n == Len(Recent(k))
<1>1. /\ windowCfg.window \in Nat /\ windowCfg.max \in Nat \ {0} /\ windowNow \in Nat
      /\ n >= windowCfg.max /\ Recent(k) \in Seq(Nat)
  BY RecentTails, WindowConfigsType DEF WindowInv, WindowRefuse
<1>2. k \in DOMAIN attempts
  <2>1. Recent(k) # <<>>
    BY <1>1
  <2> QED BY <2>1 DEF Recent
<1>3. h \in Nat /\ h # 0 /\ h <= windowNow
  BY <1>1 DEF WindowWaited
<1>4. /\ s \in Seq(Nat) /\ s # <<>> /\ q # <<>> /\ q \in Seq(Nat) /\ Len(s) = q[l]
      /\ s[1] + windowCfg.window < h + WindowSecond
      /\ l >= 2 /\ q[l - 1] = q[l] => s[1] + windowCfg.window <= h
  BY <1>2, <1>3 DEF WindowInv, WaitInv, Awaited, Oldest, Shrinks
<1>5. \A i, j \in 1..l : i <= j => q[j] <= q[i]
  BY DEF WaitInv, Shrinks
<1>6. PICK g \in 0..Len(s) : /\ Tails(Recent(k), s, g)
                             /\ \A i \in g + 1..Len(s) : s[i] > Cutoff
  BY <1>2, RecentDrops
<1>7. l \in Nat /\ l >= 1 /\ Len(s) \in Nat /\ Len(s) >= 1 /\ s[1] \in Nat
      /\ \A i \in 1..l : q[i] \in Nat
  BY <1>4
<1>8. n = Len(s) - g /\ n \in Nat /\ n <= q[l]
  BY <1>4, <1>6, <1>7 DEF Tails
<1>9. g = 0 => s[1] > windowNow - windowCfg.window
  BY <1>6, <1>7 DEF Cutoff
<1>10. ASSUME l >= 2 PROVE n < q[l - 1]
  <2>1. q[l] <= q[l - 1] /\ q[l] \in Nat /\ q[l - 1] \in Nat
    BY <1>5, <1>7, <1>10
  <2>2. CASE q[l - 1] = q[l]
    <3>1. s[1] + windowCfg.window <= windowNow
      <4>1. s[1] + windowCfg.window <= h
        BY <1>4, <1>10, <2>2
      <4> DEFINE a == s[1] + windowCfg.window
      <4>2. a \in Nat /\ a <= h
        BY <1>1, <1>7, <4>1
      <4> HIDE DEF a, h, s
      <4>3. a <= windowNow
        BY <1>1, <1>3, <4>2
      <4> QED BY <4>3 DEF a
    <3>2. g # 0
      BY <1>1, <1>7, <1>9, <3>1
    <3> QED BY <1>4, <1>7, <1>8, <2>1, <2>2, <3>2
  <2>3. CASE q[l - 1] # q[l]
    BY <1>8, <2>1, <2>3
  <2> QED BY <2>2, <2>3
<1>11. ASSUME n = q[l] PROVE Head(Recent(k)) + windowCfg.window < windowNow + WindowSecond
  <2>1. g = 0
    BY <1>4, <1>7, <1>8, <1>11
  <2>2. Head(Recent(k)) = s[1]
    <3>1. Recent(k)[1] = s[1]
      BY <1>6, <1>7, <1>8, <2>1 DEF Tails
    <3>2. Head(Recent(k)) = Recent(k)[1]
      BY <1>1, <1>7, <1>8, <2>1
    <3> QED BY <3>1, <3>2
  <2> DEFINE a == s[1] + windowCfg.window
  <2>3. a \in Nat /\ a < h + WindowSecond /\ WindowSecond \in Nat
    <3>1. s[1] + windowCfg.window < h + WindowSecond
      BY <1>4
    <3>2. s[1] + windowCfg.window \in Nat /\ WindowSecond \in Nat
      BY <1>1, <1>7, WindowSecondType
    <3> HIDE DEF h, s
    <3> QED BY <3>1, <3>2
  <2>4. Head(Recent(k)) + windowCfg.window = a
    BY <2>2
  <2> HIDE DEF a, h, s
  <2>5. a < windowNow + WindowSecond
    BY <1>1, <1>3, <2>3
  <2> QED BY <2>4, <2>5
<1> QED BY <1>7, <1>8, <1>10, <1>11

(* The hint of a denial, as the wait for the oldest request.                *)
LEMMA WindowRetryIs ==
  ASSUME NEW k \in WindowKeys
  PROVE  WindowRetryAt(k) = HintFrom(windowNow, (Head(Recent(k)) + windowCfg.window) - windowNow, WindowSecond)
<1> DEFINE e == ((Head(Recent(k)) + windowCfg.window) - windowNow) \div WindowSecond
<1>1. WindowRetryAt(k) = windowNow + WindowSecond * (IF e < 1 THEN 1 ELSE e)
  <2> HIDE DEF e
  <2> QED BY DEF WindowRetryAt, e
<1> QED BY <1>1 DEF HintFrom

(* A denial. *)
LEMMA WaitRefuse ==
  ASSUME WindowInv, WaitInv, NEW k \in WindowKeys, WindowRefuse(k)
  PROVE  WaitInv'
<1> DEFINE n == Len(Recent(k))
           q == Wait(k)
           h == WindowRetryAt(k)
           old == IF WindowWaited(k) THEN q ELSE <<>>
           o == Head(Recent(k)) + windowCfg.window
<1>1. /\ DOMAIN attempts' = DOMAIN attempts \cup {k}
      /\ \A j \in DOMAIN attempts \ {k} : attempts'[j] = attempts[j]
      /\ attempts'[k] = Recent(k) /\ windowCfg' = windowCfg
      /\ windowHint' = [windowHint EXCEPT ![k] = h]
      /\ windowWaits' = [windowWaits EXCEPT ![k] = Append(old, n)]
  BY DEF WindowRefuse, Put, Note, Wait
<1>2. /\ Recent(k) \in Seq(Nat) /\ n >= windowCfg.max /\ windowCfg.max \in Nat \ {0}
      /\ windowCfg.window \in Nat /\ windowNow \in Nat /\ WindowSecond \in Nat \ {0}
  BY RecentTails, WindowConfigsType, WindowSecondType DEF WindowRefuse, WindowInv
<1>3. /\ Recent(k) # <<>> /\ Head(Recent(k)) = Recent(k)[1] /\ Recent(k)[1] \in Nat
      /\ n \in Nat /\ n >= 1
  BY <1>2
<1>4. k \in DOMAIN attempts
  BY <1>3 DEF Recent
<1>5. o \in Nat /\ o > windowNow
  <2>1. PICK g \in 0..Len(attempts[k]) :
          /\ Tails(Recent(k), attempts[k], g)
          /\ \A i \in g + 1..Len(attempts[k]) : attempts[k][i] > Cutoff
    BY <1>4, RecentDrops
  <2>2. attempts[k] \in Seq(Nat) /\ Len(attempts[k]) \in Nat
    BY <1>4 DEF WindowInv
  <2>3. n = Len(attempts[k]) - g /\ Recent(k)[1] = attempts[k][g + 1] /\ g + 1 \in g + 1..Len(attempts[k])
    BY <1>3, <2>1, <2>2 DEF Tails
  <2>4. Recent(k)[1] > windowNow - windowCfg.window
    BY <2>1, <2>3 DEF Cutoff
  <2> QED BY <1>2, <1>3, <2>4
<1>6. h \in Nat /\ h # 0 /\ o < h + WindowSecond /\ windowNow + WindowSecond <= h
  <2> DEFINE d == o - windowNow
  <2>1. h = HintFrom(windowNow, d, WindowSecond)
    BY WindowRetryIs
  <2>2. d \in Nat /\ windowNow + d = o
    BY <1>2, <1>5
  <2> HIDE DEF d, h, o
  <2> QED BY <1>2, <2>1, <2>2, HintIs
<1>7. Shrinks(q) /\ DOMAIN windowWaits = WindowKeys /\ windowHint \in [WindowKeys -> Nat]
  BY DEF WaitInv
<1>8. ASSUME WindowWaited(k)
      PROVE  /\ Len(q) \in Nat /\ Len(q) >= 1 /\ n <= q[Len(q)]
             /\ Len(q) >= 2 => n < q[Len(q) - 1]
             /\ n = q[Len(q)] => o < windowNow + WindowSecond
  BY <1>8, DeniedAgain
<1>9. Shrinks(Append(old, n))
  <2>1. CASE WindowWaited(k)
    <3> HIDE DEF q, n
    <3> QED BY <1>3, <1>7, <1>8, <2>1, ShrinksOn
  <2>2. CASE ~WindowWaited(k)
    <3>1. Append(old, n) = <<n>>
      BY <2>2
    <3> HIDE DEF n, old
    <3> QED BY <1>3, <3>1, ShrinksFrom
  <2> QED BY <2>1, <2>2
<1>10. Awaited(k)'
  <2> DEFINE p == Append(old, n)
  <2>1. old \in Seq(Nat) /\ Len(old) \in Nat
    BY <1>7 DEF Shrinks
  <2> HIDE DEF old, n
  <2>2. /\ Len(p) = Len(old) + 1 /\ p[Len(p)] = n /\ p # <<>>
        /\ Len(p) >= 2 => p[Len(p) - 1] = old[Len(old)]
    <3>1. n \in Nat
      BY <1>3
    <3>2. p \in Seq(Nat) /\ Len(p) = Len(old) + 1
      BY <2>1, <3>1
    <3>3. p[Len(old) + 1] = n /\ \A i \in 1..Len(old) : p[i] = old[i]
      BY <2>1, <3>1
    <3>4. Len(p) >= 2 => Len(p) - 1 = Len(old) /\ Len(old) \in 1..Len(old)
      BY <2>1, <3>2
    <3>5. p # <<>>
      BY <2>1, <3>2
    <3> QED BY <3>2, <3>3, <3>4, <3>5
  <2>3. ASSUME Len(p) >= 2, p[Len(p) - 1] = p[Len(p)] PROVE o <= h
    <3>1. WindowWaited(k) /\ old = q
      BY <2>1, <2>2, <2>3 DEF old
    <3>2. n = q[Len(q)]
      BY <2>2, <2>3, <3>1
    <3>3. o < windowNow + WindowSecond
      BY <1>8, <3>1, <3>2
    <3> HIDE DEF o, h
    <3> QED BY <1>2, <1>5, <1>6, <3>3
  <2>4. Wait(k)' = p /\ windowHint'[k] = h /\ Oldest(k)' = o
    BY <1>1, <1>3, <1>7 DEF Wait, Oldest, n
  <2> HIDE DEF p, o, h
  <2>5. Len(attempts'[k]) = n /\ attempts'[k] # <<>>
    BY <1>1, <1>3 DEF n
  <2> QED BY <1>6, <2>2, <2>3, <2>4, <2>5 DEF Awaited
<1>11. ASSUME NEW j \in WindowKeys PROVE Shrinks(Wait(j))'
  <2>1. CASE j = k
    <3>1. Wait(j)' = Append(old, n)
      BY <1>1, <1>7, <2>1 DEF Wait
    <3> HIDE DEF old, n
    <3> QED BY <1>9, <3>1 DEF Shrinks
  <2>2. CASE j # k
    <3>1. Wait(j)' = Wait(j) /\ Shrinks(Wait(j))
      BY <1>1, <1>7, <2>2 DEF Wait, WaitInv
    <3> QED BY <3>1 DEF Shrinks
  <2> QED BY <2>1, <2>2
<1>12. ASSUME NEW j \in DOMAIN attempts', windowHint'[j] # 0 PROVE Awaited(j)'
  <2>1. CASE j = k
    BY <1>10, <2>1
  <2>2. CASE j # k
    <3>1. j \in DOMAIN attempts /\ attempts'[j] = attempts[j] /\ j \in WindowKeys
      BY <1>1, <2>2 DEF WindowInv
    <3>2. windowHint'[j] = windowHint[j] /\ windowWaits'[j] = windowWaits[j]
      BY <1>1, <1>7, <2>2, <3>1
    <3>3. Awaited(j)
      BY <1>12, <3>1, <3>2 DEF WaitInv
    <3> QED BY <1>1, <3>1, <3>2, <3>3 DEF Awaited, Wait, Oldest
  <2> QED BY <2>1, <2>2
<1>13. windowHint' \in [WindowKeys -> Nat] /\ DOMAIN windowWaits' = WindowKeys
  <2> HIDE DEF h
  <2> QED BY <1>1, <1>6, <1>7
<1> QED BY <1>11, <1>12, <1>13 DEF WaitInv

(* A key that waits as it is told has fewer requests held against it after two
   waits (sliding.go:81-91 with the header of middleware.go:90), also when max
   was lowered. *)
THEOREM WaitingHelpsHolds == WindowSpec => []WaitingHelps
<1>1. WindowInv /\ WaitInv /\ [WindowNext]_windowVars => WaitInv'
  <2> SUFFICES ASSUME WindowInv, WaitInv, [WindowNext]_windowVars PROVE WaitInv'
    OBVIOUS
  <2>1. ASSUME NEW k \in WindowKeys, WindowAllow(k) PROVE WaitInv'
    BY <2>1, WaitPass, WaitRefuse DEF WindowAllow
  <2>2. ASSUME NEW c \in WindowConfigs, WindowReconfigure(c) PROVE WaitInv'
    <3>1. /\ attempts' = attempts /\ windowHint' = [k \in WindowKeys |-> 0]
          /\ windowWaits' = [k \in WindowKeys |-> <<>>]
      BY <2>2 DEF WindowReconfigure
    <3>2. \A k \in DOMAIN attempts : k \in WindowKeys
      BY DEF WindowInv
    <3> QED BY <3>1, <3>2 DEF WaitInv, Shrinks, Wait
  <2>3. CASE WindowTick \/ UNCHANGED windowVars
    BY <2>3 DEF WindowTick, windowVars, WaitInv, Awaited, Shrinks, Wait, Oldest
  <2> QED BY <2>1, <2>2, <2>3 DEF WindowNext
<1>2. WaitInv => WaitingHelps
  <2> SUFFICES ASSUME WaitInv, NEW k \in WindowKeys, NEW i \in DOMAIN windowWaits[k],
                      NEW j \in DOMAIN windowWaits[k], j >= i + 2
               PROVE  windowWaits[k][j] < windowWaits[k][i]
    BY DEF WaitingHelps
  <2>1. Shrinks(windowWaits[k])
    BY DEF WaitInv, Wait
  <2> DEFINE q == windowWaits[k]
  <2> HIDE DEF q
  <2>2. DOMAIN q = 1..Len(q) /\ i \in DOMAIN q /\ j \in DOMAIN q /\ Shrinks(q)
    BY <2>1 DEF q, Shrinks
  <2> QED BY <2>2 DEF Shrinks, q
<1> QED BY <1>1, <1>2, WaitStart, WindowInvariance, PTL DEF WindowSpec

(* Type correctness of the window: no recorded event lies in the future.       *)
THEOREM WindowTypesHold == WindowSpec => []WindowTypeOK
<1> DEFINE Bounded == windowNow <= WindowHorizon
<1>1. WindowInit => Bounded
  BY WindowHorizonType DEF WindowInit
<1>2. WindowInv /\ Bounded /\ [WindowNext]_windowVars => Bounded'
  <2> SUFFICES ASSUME WindowInv, Bounded, [WindowNext]_windowVars PROVE Bounded'
    OBVIOUS
  <2>1. CASE WindowTick
    BY <2>1, WindowHorizonType DEF WindowTick, WindowInv
  <2>2. CASE ~WindowTick
    <3>1. windowNow' = windowNow
      BY <2>2 DEF WindowNext, WindowAllow, WindowPass, WindowRefuse, WindowReconfigure, windowVars
    <3> QED BY <3>1
  <2> QED BY <2>1, <2>2
<1>3. WindowInv /\ Bounded => WindowTypeOK
  <2> SUFFICES ASSUME WindowInv, Bounded PROVE WindowTypeOK
    OBVIOUS
  <2>1. windowNow \in Nat /\ windowNow \in 0..WindowHorizon
    BY WindowHorizonType DEF WindowInv
  <2>2. ASSUME NEW k \in DOMAIN attempts PROVE attempts[k] \in Seq(0..windowNow)
    <3> DEFINE s == attempts[k]
               t == windowAllowed[k]
    <3>1. s \in Seq(Nat) /\ t \in Seq(Nat) /\ \A i \in DOMAIN t : t[i] <= windowNow
      BY DEF WindowInv, WindowKeyInv
    <3>2. PICK g \in 0..Len(t) : Tails(s, t, g)
      BY DEF WindowInv, WindowKeyInv, Forgotten
    <3> HIDE DEF s, t
    <3>3. ASSUME NEW i \in 1..Len(s) PROVE s[i] \in 0..windowNow
      <4>1. Len(s) = Len(t) - g /\ Len(s) \in Nat /\ Len(t) \in Nat /\ s[i] = t[g + i] /\ DOMAIN t = 1..Len(t)
        BY <3>1, <3>2 DEF Tails
      <4>2. g + i \in 1..Len(t)
        BY <4>1
      <4>3. t[g + i] <= windowNow /\ t[g + i] \in Nat
        <5>1. g + i \in DOMAIN t
          BY <4>1, <4>2
        <5>2. t[g + i] <= windowNow
          BY <3>1, <5>1
        <5>3. t[g + i] \in Nat
          BY <3>1, <4>2
        <5> QED BY <5>2, <5>3
      <4> QED BY <2>1, <4>1, <4>3
    <3>4. s \in Seq(0..windowNow)
      <4>1. Len(s) \in Nat /\ s = [i \in 1..Len(s) |-> s[i]]
        BY <3>1
      <4>2. s \in [1..Len(s) -> 0..windowNow]
        BY <3>3, <4>1
      <4> DEFINE n == Len(s)
                 S == 0..windowNow
      <4>3. n \in Nat /\ s \in [1..n -> S]
        BY <4>1, <4>2
      <4> HIDE DEF n, S
      <4>4. s \in Seq(S)
        BY <4>3
      <4> QED BY <4>4 DEF S
    <3> QED BY <3>4 DEF s
  <2> QED BY <2>1, <2>2 DEF WindowInv, WindowTypeOK
<1> QED BY <1>1, <1>2, <1>3, WindowInvariance, PTL DEF WindowSpec

======================================================================================
