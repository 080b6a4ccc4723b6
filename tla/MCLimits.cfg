CONSTANTS
  k1 = k1
  k2 = k2
  w1 = w1
  w2 = w2
  w3 = w3
  Keys <- MCKeys
  Workers <- ThreeWorkers
  Capacities = {1, 2}
  MaxKeys = 1
  MaxSems = 3
  BucketKeys <- MCKeys
  Cost = 3
  BucketConfigs <- TwoRates
  BucketSecond = 1
  BucketHorizon = 3
  WindowKeys <- MCKeys
  WindowConfigs <- Lowered
  WindowSecond = 2
  WindowHorizon = 6
SPECIFICATION LimitsSpec
INVARIANTS
  SlotsCounted
  KeyCap
  BurstCap
  WindowCap
  RetryAfterSettles
  WaitingHelps
PROPERTIES
  OnlyUpstreamLasts
