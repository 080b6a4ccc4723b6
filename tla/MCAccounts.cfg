CONSTANTS
  e1 = e1 e2 = e2 p1 = p1 p2 = p2 w1 = w1 w2 = w2
  NoUser = NoUser
  Emails <- MCEmails
  Passwords <- MCPasswords
  Workers <- TwoWorkers
  Requests <- AllRequests
  Policies <- SomePolicies
  MaxFailures = 1
  MaxFailureKeys = 1
  MaxPending = 1
  MaxCodes = 3
  MaxUsers = 2
SPECIFICATION MCSpec
INVARIANTS SessionsOfVerified CapsOvershootBounded
PROPERTY ImplementsAdmission
SYMMETRY Alike
CHECK_DEADLOCK FALSE
