SPECIFICATION Spec
CONSTANTS
  Docs = {d1}
  Runs = {r1,r2,r3}
  Workers = {w1, w2}
  Requests = {q1}
  RetryKeys = {k1,k2}
  None = None
  NumCompute = 0
  MaxLive = 1
  MaxAttempts = 2
  MaxVersion = 3
  MaxFaults = 1
SYMMETRY Symmetry
INVARIANT TypeOK
INVARIANT FencesIdentifyClaims
INVARIANT OneLiveRunPerVersion
INVARIANT VersionsTrackRuns
INVARIANT PublishedByItsClaim
INVARIANT NoPoisonedRun
INVARIANT FailuresAreCounted
INVARIANT QueueIsBounded
PROPERTY FinishedRunsStay
PROPERTY PublishedChunksStay
PROPERTY ActiveGoesForward
PROPERTY ImplementsPublication
