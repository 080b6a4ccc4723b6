------------------------------- MODULE SlidingWindow ------------------------------
(***************************************************************************)
(* slidingWindow of internal/ratelimit/sliding.go: the times of the recent *)
(* events of each key.  Every method holds the mutex, so each is one step. *)
(* Time passes in ticks, WindowSecond of them to a second.                 *)
(***************************************************************************)
EXTENDS Integers, Sequences, FiniteSets

CONSTANTS
  WindowKeys,
  WindowSecond,  \* ticks in a second
  WindowConfigs, \* [window, max, maxKeys]
  WindowHorizon  \* bound of the model: ticks

(* newSlidingWindow and reconfigure take positive numbers only. *)
ASSUME WindowConfigsType ==
  \A c \in WindowConfigs :
    c.window \in Nat \ {0} /\ c.max \in Nat \ {0} /\ c.maxKeys \in Nat \ {0}
ASSUME WindowSecondType == WindowSecond \in Nat \ {0}
ASSUME WindowHorizonType == WindowHorizon \in Nat

VARIABLES
  windowCfg,
  attempts,      \* key -> times, oldest first; a key without an entry has none
  windowNow,
  windowAllowed, \* history: the ticks at which a request of each key passed
  windowHint,    \* history: when the last denial told a key to come back; 0 is none
  windowWaits    \* history: the requests held against a key at each of its last
                 \* denials, all but the first met after the wait it was told

windowVars == <<windowCfg, attempts, windowNow, windowAllowed, windowHint, windowWaits>>

WindowInit ==
  /\ windowCfg \in WindowConfigs
  /\ attempts = [k \in {} |-> <<>>]
  /\ windowNow = 0
  /\ windowAllowed = [k \in WindowKeys |-> <<>>]
  /\ windowHint = [k \in WindowKeys |-> 0]
  /\ windowWaits = [k \in WindowKeys |-> <<>>]

Cutoff == windowNow - windowCfg.window

Put(m, k, times) == [j \in DOMAIN m \cup {k} |-> IF j = k THEN times ELSE m[j]]

(* The times of a list after the cutoff, in their order. *)
After(times) ==
  LET kept[i \in 0..Len(times)] ==
        IF i = 0 THEN <<>>
        ELSE IF times[i] > Cutoff THEN Append(kept[i - 1], times[i]) ELSE kept[i - 1]
  IN kept[Len(times)]

Recent(k) == IF k \in DOMAIN attempts THEN After(attempts[k]) ELSE <<>>

EvictWarm(m) ==
  IF Cardinality(DOMAIN m) <= windowCfg.maxKeys
  THEN m
  ELSE [k \in {j \in DOMAIN m : m[j] # <<>> /\ m[j][Len(m[j])] >= windowNow} |-> m[k]]

(* Entries whose last event has left the window go, all of them. *)
EvictCold(m) ==
  IF Cardinality(DOMAIN m) <= windowCfg.maxKeys
  THEN m
  ELSE [k \in {j \in DOMAIN m : m[j] # <<>> /\ m[j][Len(m[j])] >= Cutoff} |-> m[k]]

WindowHintMayBeNow(k) ==
  windowNow +
    WindowSecond * (((Head(Recent(k)) + windowCfg.window) - windowNow) \div WindowSecond)

(* The retry-after, when the oldest recent event leaves the window: a second at
   least, and the header drops what is left of the last one (middleware.go:90). *)
WindowRetryAt(k) ==
  LET seconds == ((Head(Recent(k)) + windowCfg.window) - windowNow) \div WindowSecond
  IN windowNow + WindowSecond * (IF seconds < 1 THEN 1 ELSE seconds)

(* The last denial told the key to come back by now. *)
WindowWaited(k) == windowHint[k] \in 1..windowNow

(* A denial, with so many requests held against the key. *)
Note(k) ==
  /\ windowHint' = [windowHint EXCEPT ![k] = WindowRetryAt(k)]
  /\ windowWaits' = [windowWaits EXCEPT
        ![k] = Append(IF WindowWaited(k) THEN @ ELSE <<>>, Len(Recent(k)))]

WindowPass(k) ==
  /\ Len(Recent(k)) < windowCfg.max
  /\ attempts' = EvictCold(Put(attempts, k, Append(Recent(k), windowNow)))
  /\ windowAllowed' = [windowAllowed EXCEPT ![k] = Append(@, windowNow)]
  /\ windowHint' = [windowHint EXCEPT ![k] = 0]
  /\ windowWaits' = [windowWaits EXCEPT ![k] = <<>>]
  /\ UNCHANGED <<windowCfg, windowNow>>

WindowRefuse(k) ==
  /\ Len(Recent(k)) >= windowCfg.max
  /\ attempts' = Put(attempts, k, Recent(k))
  /\ Note(k)
  /\ UNCHANGED <<windowCfg, windowNow, windowAllowed>>

WindowAllow(k) == WindowPass(k) \/ WindowRefuse(k)

(* reconfigure: histories stay. *)
WindowReconfigure(c) ==
  /\ c # windowCfg
  /\ windowCfg' = c
  /\ windowHint' = [k \in WindowKeys |-> 0]
  /\ windowWaits' = [k \in WindowKeys |-> <<>>]
  /\ UNCHANGED <<attempts, windowNow, windowAllowed>>

WindowTick ==
  /\ windowNow < WindowHorizon
  /\ windowNow' = windowNow + 1
  /\ UNCHANGED <<windowCfg, attempts, windowAllowed, windowHint, windowWaits>>

WindowNext ==
  \/ \E k \in WindowKeys : WindowAllow(k)
  \/ \E c \in WindowConfigs : WindowReconfigure(c)
  \/ WindowTick

WindowSpec == WindowInit /\ [][WindowNext]_windowVars

--------------------------------------------------------------------------------
WindowTypeOK ==
  /\ windowCfg \in WindowConfigs
  /\ DOMAIN attempts \subseteq WindowKeys
  /\ \A k \in DOMAIN attempts : attempts[k] \in Seq(0..windowNow)
  /\ windowNow \in 0..WindowHorizon

Since(k, t) == {i \in DOMAIN windowAllowed[k] : windowAllowed[k][i] > t}

(* The limit itself: no stretch of the window's length has more than max
   passed requests of one key, whatever was evicted between them (the shortest
   window and the largest max when they were reconfigured). *)
WindowCap ==
  \A k \in WindowKeys :
    \E c, d \in WindowConfigs : Cardinality(Since(k, windowNow - c.window)) <= d.max

(* A denial means that the window really is full: nobody is refused for
   requests that were themselves refused or that are too old. *)
DeniedWhenFull ==
  [][\A k \in WindowKeys :
       WindowRefuse(k) => Cardinality(Since(k, Cutoff)) >= windowCfg.max]_windowVars

(* Waiting as told gets a client somewhere: the header may be short by less than
   a second, but after two waits fewer requests are held against it than before.
   So it is admitted in the end, also when max was lowered below what it had
   sent; until the limits change again. *)
WaitingHelps ==
  \A k \in WindowKeys : \A i, j \in DOMAIN windowWaits[k] :
    j >= i + 2 => windowWaits[k][j] < windowWaits[k][i]

(* "RetryAfter on denial so the response's Retry-After header is accurate": a
   client that waited as it was told is not denied again. *)
RetryAfterAccurate == \A k \in WindowKeys : Len(windowWaits[k]) <= 1

(* MaxKeys, "per-limiter map cap". *)
WindowMapBounded == Cardinality(DOMAIN attempts) <= windowCfg.maxKeys

================================================================================
