SPECIFICATION Spec
CONSTANTS
  p1 = p1
  Processes = {p1}
  q1 = q1
  q2 = q2
  Requests = {q1, q2}
  k1 = k1
  Keys = {k1}
  c1 = c1
  Contents = {c1}
  None = None
  LateCommits = TRUE
  MaxFaults = 0
SYMMETRY Interchangeable
INVARIANTS
  RepeatsAgree
