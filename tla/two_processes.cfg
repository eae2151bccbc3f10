SPECIFICATION Spec
CONSTANTS
  p1 = p1
  p2 = p2
  Processes = {p1, p2}
  q1 = q1
  q2 = q2
  Requests = {q1, q2}
  k1 = k1
  k2 = k2
  Keys = {k1, k2}
  c1 = c1
  Contents = {c1}
  None = None
  LateCommits = FALSE
  MaxFaults = 0
SYMMETRY Interchangeable
INVARIANTS
  OriginalsKept
