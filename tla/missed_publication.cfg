SPECIFICATION Spec
CONSTANTS
  Docs = {d1}
  MaxVersion = 1
  Contents = {c1}
  Limit = 1
  MaxDamage = 0
INVARIANT NoHitsWasTrue
CHECK_DEADLOCK FALSE
