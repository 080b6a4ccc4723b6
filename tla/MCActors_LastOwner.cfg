CONSTANTS
  u1 = u1
  u2 = u2
  a1 = a1
  Users <- MCUsers
  Agents <- MCAgents
  NoActor = NoActor
  Workers = {w1, w2}
  Requests <- Demote
  MaxTokens = 1
SPECIFICATION MCSpec
INVARIANT LastOwnerStays
SYMMETRY Alike
CHECK_DEADLOCK FALSE
