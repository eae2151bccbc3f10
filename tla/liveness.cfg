SPECIFICATION FairSpec
CONSTANTS
  Docs = {d1}
  Runs = {r1, r2}
  Workers = {w1, w2}
  Requests = {q1}
  RetryKeys = {k1}
  None = None
  NumCompute = 0
  MaxLive = 2
  MaxAttempts = 2
  MaxVersion = 2
  MaxFaults = 1
PROPERTY EveryRunEnds
