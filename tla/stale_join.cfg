SPECIFICATION Spec
CONSTANTS
  Workers = {w1, w2}
  Operators = {}
  Runs = {r1, r2}
  None = None
  MaxVersion = 2
  MaxAttempts = 1
  MaxFaults = 1
SYMMETRY Symmetry
PROPERTY ActiveNeverGoesBack
