SPECIFICATION MCFairSpec
CONSTANTS
  Releases <- MCReleases
  Migrators = {m1, m2}
  Services = {s1}
  NoProfile = NoProfile
  Nobody = Nobody
  Workers = {w1, w2}
  Operators = {o1}
  Runs = {r1, r2}
  None = None
  MaxVersion = 1
  MaxAttempts = 2
  MaxFaults = 0
INVARIANT ConclusionsAreTrue
PROPERTY ImplementsInstallation
PROPERTY EveryWaitEnds
\* Migrators end, and are started once.
CHECK_DEADLOCK FALSE
