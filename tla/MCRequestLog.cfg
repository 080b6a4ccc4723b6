CONSTANTS
  v1 = v1 v2 = v2
  Vaults <- TwoVaults
  Viewed = v1
  BufferSize = 1
  BatchSize = 2
  PageSize = 1
  Settings <- SomeSettings
  DefaultRows = 1
  NoLimit = NoLimit
  Polls = {1, 2}
  MaxRecords = 4
SPECIFICATION MCSpec
INVARIANTS LoggedInOrder TailHasNoGap
PROPERTIES  CloseCompletes
CHECK_DEADLOCK FALSE
