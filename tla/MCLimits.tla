-------------------------------- MODULE MCLimits --------------------------------
(* The three limiters, one at a time: three requests that evict each other's   *)
(* semaphores, a bucket map for one key of two, and windows that change.       *)
EXTENDS KeyedSemaphore, TokenBucket, SlidingWindow, TLC

CONSTANTS w1, w2, w3, k1, k2

VARIABLE focus

MCKeys == {k1, k2}
ThreeWorkers == {w1, w2, w3}

BucketLimits(rate, burst, maxKeys) == [rate |-> rate, burst |-> burst, maxKeys |-> maxKeys]
WindowLimits(window, max, maxKeys) == [window |-> window, max |-> max, maxKeys |-> maxKeys]

TwoRates == {BucketLimits(1, 2, 1), BucketLimits(2, 1, 1)}

(* Two ticks to a second; max is lowered below what a key has sent.            *)
Lowered == {WindowLimits(3, 2, 1), WindowLimits(5, 1, 2)}

(* The limiters share nothing: two of them rest in one of their initial states. *)
LimitsInit ==
  /\ Init /\ BucketInit /\ WindowInit
  /\ focus \in {"semaphore", "bucket", "window"}
  /\ focus # "semaphore" => capacity = 1 /\ \A w \in Workers : key[w] = k1
  /\ focus # "bucket" => bucketCfg.rate = 1
  /\ focus # "window" => windowCfg.window = 3

LimitsNext ==
  \/ focus = "semaphore" /\ Next /\ UNCHANGED <<bucketVars, windowVars>>
  \/ focus = "bucket" /\ BucketNext /\ UNCHANGED <<vars, windowVars>>
  \/ focus = "window" /\ WindowNext /\ UNCHANGED <<vars, bucketVars>>

LimitsSpec ==
  /\ LimitsInit /\ [][LimitsNext /\ UNCHANGED focus]_<<vars, bucketVars, windowVars, focus>>
  /\ \A w \in Workers : WF_vars(Prompt(w))
================================================================================
