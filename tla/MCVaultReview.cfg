SPECIFICATION GroupSpec
CONSTANTS
  w1 = w1 w2 = w2 n1 = n1 n2 = n2 h1 = h1 k1 = k1 v1 = v1 v2 = v2
  NoName = NoName NoPath = NoPath NoAuth = NoAuth Passthrough = Passthrough
  NoValue = NoValue NoWorker = NoWorker
  Names <- MCNames
  Hosts <- MCHosts
  Paths <- None
  Keys <- MCKeys
  Values <- MCValues
  Workers <- MCWorkers
  Bodies <- None
  Edits <- AllEdits
  Overrides <- AllOverrides
  CredentialRequests <- AllCredentials
  MaxPendingProposals = 1
  MaxProposals = 2
SYMMETRY Symmetry
INVARIANTS NoLostServiceUpdate StatusMatchesEffects ServiceNamesAreKeys
PROPERTY ImplementsVault
