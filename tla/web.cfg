SPECIFICATION MCSpec
CONSTANTS
  Docs = {d1, d2}
  MaxVersion = 2
  Contents = {c1, c2}
  Limit = 2
  MaxDamage = 2
  Addresses = {a1, a2}
  Logins = {l1, l2}
  FailureLimit = 2
  FailureWindow = 3
  MaxFailureEntries = 1
  LoginTime = 1
  MaxNow = 6
  MaxFailures = 8
  Processes <- MCProcesses
  Skew <- MCSkew
  DatabaseSkew = 1
  Spread = 2
  Tokens = {t1, t2}
  Requests = {q1, q2}
  TTL = 3
  RequestTime = 1
  MaxTime = 7
SYMMETRY Symmetry
INVARIANT TypeOK
INVARIANT SupportedIsTrue
INVARIANT OnlyInactiveWasTrue
INVARIANT ClientFailsClosed
INVARIANT GuardIsBounded
INVARIANT SessionsLast
INVARIANT LogoutIsFinal
PROPERTY BlocksAreJust
\* A search ends with its answer, the others with their clocks.
CHECK_DEADLOCK FALSE
