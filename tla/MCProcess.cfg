CONSTANTS
  k1 = k1 k2 = k2
  Clients = {1, 2}
  Keys <- MCKeys
  Uses <- MCUses
  Cap = 1
  MaxVersion = 2
  Tokens = {1}
  Requests = {1, 2}
  Second = 2
  TouchInterval = 4
  IdleTTL = 10
  LifeTime = 10
  NoTime = NoTime
  Horizon = 11
  p0 = p0 p1 = p1 p2 = p2 p3 = p3
  n1 = n1 n2 = n2
  Procs <- MCProcs
  Ports <- MCPorts
  None = None
  MaxDb = 2
SPECIFICATION MCSpec
INVARIANTS AccountedFor OneValuePerKey NoRetiredValue FailsClosed LagBounded KeyNeverLost
PROPERTY LiveOwnerRespected
CHECK_DEADLOCK FALSE
