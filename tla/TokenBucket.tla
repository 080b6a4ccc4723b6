------------------------------- MODULE TokenBucket -------------------------------
(***************************************************************************)
(* tokenBucketMap of internal/ratelimit/bucket.go: one bucket per key, a   *)
(* bounded map, limits that Registry.Reload changes in place.  Every       *)
(* method holds the map's mutex, so each is one step.                      *)
(*                                                                         *)
(* Time passes in ticks, BucketSecond of them to a second, which is what   *)
(* the Retry-After header counts in.  Tokens are counted in fractions: a   *)
(* request costs Cost of them and a tick refills the configured rate.      *)
(***************************************************************************)
EXTENDS Naturals, Sequences, FiniteSets

CONSTANTS
  BucketKeys,
  Cost,          \* fractions in one token
  BucketSecond,  \* ticks in a second
  BucketConfigs, \* [rate, burst, maxKeys]: fractions per tick, tokens, entries
  BucketHorizon  \* bound of the model: ticks

(* newTokenBucketMap and reconfigure take positive numbers only. *)
ASSUME CostType == Cost \in Nat \ {0}
ASSUME BucketSecondType == BucketSecond \in Nat \ {0}
ASSUME BucketConfigsType ==
  \A c \in BucketConfigs :
    c.rate \in Nat \ {0} /\ c.burst \in Nat \ {0} /\ c.maxKeys \in Nat \ {0}
ASSUME BucketHorizonType == BucketHorizon \in Nat

VARIABLES
  bucketCfg,
  buckets,       \* key -> [tokens, last]; a key without an entry has no bucket
  bucketNow,
  bucketAllowed, \* history: the ticks at which requests of each key passed
  bucketHint,    \* history: when the last denial told a key to come back; 0 is none
  bucketHeeded,  \* history: the keys that the last denial met after such a wait
  bucketEvicted  \* history: the keys that eviction ever took a bucket from

bucketVars ==
  <<bucketCfg, buckets, bucketNow, bucketAllowed, bucketHint, bucketHeeded, bucketEvicted>>

Full(c) == c.burst * Cost
Least(x, y) == IF x < y THEN x ELSE y

BucketInit ==
  /\ bucketCfg \in BucketConfigs
  /\ buckets = [k \in {} |-> {}]
  /\ bucketNow = 0
  /\ bucketAllowed = [k \in BucketKeys |-> <<>>]
  /\ bucketHint = [k \in BucketKeys |-> 0]
  /\ bucketHeeded = {}
  /\ bucketEvicted = {}

Accrued(b) == b.tokens + (bucketNow - b.last) * bucketCfg.rate

Refilled(b) == [tokens |-> Least(Full(bucketCfg), Accrued(b)), last |-> bucketNow]

(* evictIfNeededLocked: what is left of map m.  Map iteration is random, so
   any full buckets may go first, then the ones refilled longest ago. *)
Evicted(m) ==
  LET excess == Cardinality(DOMAIN m) - bucketCfg.maxKeys
      full == {k \in DOMAIN m : m[k].tokens >= Full(bucketCfg)}
      Rest(gone) == [k \in DOMAIN m \ gone |-> m[k]]
      Oldest(gone) ==
        \A k \in gone \ full, j \in (DOMAIN m \ gone) \ full : m[k].last <= m[j].last
  IN IF Cardinality(DOMAIN m) <= bucketCfg.maxKeys
     THEN {m}
     ELSE {Rest(gone) : gone \in
             {g \in SUBSET DOMAIN m :
                /\ Cardinality(g) = excess
                /\ g \subseteq full \/ (full \subseteq g /\ Oldest(g))}}

(* The bucket a request is charged to, and the maps that may be left: an
   evicted bucket is still charged, but nobody will find it again. *)
Visited(k) ==
  IF k \in DOMAIN buckets
  THEN {[bucket |-> Refilled(buckets[k]), map |-> buckets]}
  ELSE LET fresh == [tokens |-> Full(bucketCfg), last |-> bucketNow]
       IN {[bucket |-> fresh, map |-> m] :
             m \in Evicted([j \in DOMAIN buckets \cup {k} |->
                              IF j = k THEN fresh ELSE buckets[j]])}

Lost(v, k) == (DOMAIN buckets \cup {k}) \ DOMAIN v.map

Charged(v, k, b) == IF k \in DOMAIN v.map THEN [v.map EXCEPT ![k] = b] ELSE v.map

NoChargePass(k) ==
  \E v \in Visited(k) :
    /\ v.bucket.tokens >= Cost
    /\ buckets' = Charged(v, k, v.bucket)
    /\ bucketAllowed' = [bucketAllowed EXCEPT ![k] = Append(@, bucketNow)]
    /\ bucketHint' = [bucketHint EXCEPT ![k] = 0]
    /\ bucketHeeded' = bucketHeeded \ {k}
    /\ bucketEvicted' = bucketEvicted \cup Lost(v, k)
    /\ UNCHANGED <<bucketCfg, bucketNow>>

BucketPass(k) ==
  \E v \in Visited(k) :
    /\ v.bucket.tokens >= Cost
    /\ buckets' = Charged(v, k, [v.bucket EXCEPT !.tokens = @ - Cost])
    /\ bucketAllowed' = [bucketAllowed EXCEPT ![k] = Append(@, bucketNow)]
    /\ bucketHint' = [bucketHint EXCEPT ![k] = 0]
    /\ bucketHeeded' = bucketHeeded \ {k}
    /\ bucketEvicted' = bucketEvicted \cup Lost(v, k)
    /\ UNCHANGED <<bucketCfg, bucketNow>>

Missing(b) == Cost - b.tokens

HintMayBeNow(b) ==
  bucketNow + BucketSecond * (Missing(b) \div (bucketCfg.rate * BucketSecond))

(* The wait for the missing fractions: a second at least, and the header drops
   what is left of the last one (middleware.go:90). *)
BucketRetryAt(b) ==
  LET seconds == Missing(b) \div (bucketCfg.rate * BucketSecond)
  IN bucketNow + BucketSecond * (IF seconds < 1 THEN 1 ELSE seconds)

(* The last denial told the key to come back by now. *)
BucketWaited(k) == bucketHint[k] \in 1..bucketNow

BucketRefuse(k) ==
  \E v \in Visited(k) :
    /\ v.bucket.tokens < Cost
    /\ buckets' = Charged(v, k, v.bucket)
    /\ bucketHint' = [bucketHint EXCEPT ![k] = BucketRetryAt(v.bucket)]
    /\ bucketHeeded' = IF BucketWaited(k) THEN bucketHeeded \cup {k} ELSE bucketHeeded \ {k}
    /\ bucketEvicted' = bucketEvicted \cup Lost(v, k)
    /\ UNCHANGED <<bucketCfg, bucketNow, bucketAllowed>>

(* The requests of k that passed since a tick. *)
PassedSince(k, from) == {i \in DOMAIN bucketAllowed[k] : bucketAllowed[k][i] >= from}

(* The bound of the model on calls in one tick. *)
Room(k) == Cardinality(PassedSince(k, bucketNow)) <= bucketCfg.burst

BucketAllow(k) == Room(k) /\ (BucketPass(k) \/ BucketRefuse(k))

(* reconfigure: buckets keep their tokens, clamped to the new burst. *)
BucketReconfigure(c) ==
  /\ c # bucketCfg
  /\ bucketCfg' = c
  /\ buckets' = [k \in DOMAIN buckets |->
                   [buckets[k] EXCEPT !.tokens = Least(Full(c), @)]]
  /\ bucketHint' = [k \in BucketKeys |-> 0]
  /\ bucketHeeded' = {}
  /\ UNCHANGED <<bucketNow, bucketAllowed, bucketEvicted>>

BucketTick ==
  /\ bucketNow < BucketHorizon
  /\ bucketNow' = bucketNow + 1
  /\ UNCHANGED <<bucketCfg, buckets, bucketAllowed, bucketHint, bucketHeeded, bucketEvicted>>

BucketNext ==
  \/ \E k \in BucketKeys : BucketAllow(k)
  \/ \E c \in BucketConfigs : BucketReconfigure(c)
  \/ BucketTick

BucketSpec == BucketInit /\ [][BucketNext]_bucketVars

--------------------------------------------------------------------------------
BucketTypeOK ==
  /\ bucketCfg \in BucketConfigs
  /\ DOMAIN buckets \subseteq BucketKeys
  /\ \A k \in DOMAIN buckets :
       /\ buckets[k].tokens \in 0..Full(bucketCfg)
       /\ buckets[k].last \in 0..bucketNow
  /\ bucketNow \in 0..BucketHorizon

(* The limit itself: whatever the pattern of calls, between any tick and now
   a key passes at most one burst and what the rate refilled since (the largest
   of each when they were reconfigured). *)
BurstLimited(k) ==
  \A from \in 0..bucketNow :
    \E c, d \in BucketConfigs :
      Cardinality(PassedSince(k, from)) * Cost <= Full(c) + (bucketNow - from) * d.rate

(* A key is limited for as long as its bucket is the one it started with: other
   keys may come, go, and be evicted around it. *)
BurstCap == \A k \in BucketKeys \ bucketEvicted : BurstLimited(k)

(* "idle keys - zero fairness impact": the keys that are evicted are limited
   like the others. *)
EvictionIsFair == \A k \in BucketKeys : BurstLimited(k)

Admitted(k) == \A v \in Visited(k) : v.bucket.tokens >= Cost

(* A client that respects the Retry-After header is sent away once more at most:
   the header is short by less than a second, and the next one is at least one
   long.  Until the limits change, and whatever other clients do meanwhile. *)
RetryAfterSettles ==
  \A k \in bucketHeeded : BucketWaited(k) => Admitted(k)

(* The hint is the time at which the token is there: a client that waited as it
   was told is not denied again. *)
RetryAfterExact == \A k \in BucketKeys : BucketWaited(k) => Admitted(k)

================================================================================
