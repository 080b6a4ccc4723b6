SPECIFICATION ListSpec
CONSTANTS
  n1 = n1 n2 = n2 n3 = n3 h1 = h1 p1 = p1 k1 = k1 k2 = k2 Star = star
  NoName = NoName NoPath = NoPath NoAuth = NoAuth Passthrough = Passthrough
  NoValue = NoValue
  Names <- MCNames
  Hosts <- MCHosts
  Paths <- MCPaths
  Keys <- MCKeys
  ListEdits <- MCEdits
  Submissions <- MCSubmissions
  Probes <- MCProbes
  Chars <- MCChars
  Labels <- MCLabels
  Slugs <- MCSlugs
INVARIANTS MergeMeetsReference MergeNeverShadows BestMatchWins NamesHealed
