SPECIFICATION Spec
CONSTANTS
  Workers = {w1, w2}
  Operators = {o1}
  Runs = {r1, r2, r3}
  None = None
  MaxVersion = 2
  MaxAttempts = 1
  MaxFaults = 1
SYMMETRY Symmetry
INVARIANT TypeOK
INVARIANT RowsAgree
INVARIANT CirclesAreStaleRetries
