SPECIFICATION MCSpec
CONSTANTS
  Processes = {p1, p2}
  OneProcess = {p1}
  Requests = {q1, q2, q3}
  FewerRequests = {q1, q2}
  Keys = {k1, k2}
  Contents = {c1, c2}
  None = None
  LateCommits = TRUE
  MaxFaults = 1
SYMMETRY Interchangeable
INVARIANT TypeOK
INVARIANT KeyRegistersOnce
INVARIANT AnswersAreTrue
INVARIANT NoOriginalLeftOver
INVARIANT OneProcessKeepsOriginals
PROPERTY ImplementsRequestKeys
