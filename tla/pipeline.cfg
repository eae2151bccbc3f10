SPECIFICATION MCSpec
CONSTANTS
  Workers = {w1, w2}
  Variants = {a, b, x}
  Unusable = {x}
  None = None
  MaxAttempts = 2
  MaxClaims = 3
  MaxFaults = 1
  Target = 2
  Most = 3
  Least = 2
  Overlap = 1
  Counters <- MCCounters
  Texts <- MCTexts
SYMMETRY Symmetry
INVARIANT TypeOK
INVARIANT PublishedFromOneParse
INVARIANT HistoryIsTrue
INVARIANT OpenAttemptsExplained
INVARIANT TextIsKept
INVARIANT WindowsGoForward
PROPERTY FencesSeparateClaims
\* A run of the pipeline ends or uses up its claims, a text is chunked once.
CHECK_DEADLOCK FALSE
