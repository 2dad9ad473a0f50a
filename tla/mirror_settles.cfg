CONSTANTS
  p1 = p1
  c1 = c1
  c2 = c2
  NULL = NULL
  Projections <- OneCopy
  Contents <- Renderings
  Versions <- SomeVersions
  Generations <- Ids
  PoisonPillThreshold = 1
  MaxIdGenerations = 2
  MaxTotalIdGenerations = 3
  MaxPasses = 2
  FaultKinds <- AllFaults
  Budgets <- FailuresOrEdits
  AdminKinds <- None
SPECIFICATION FairSpec
INVARIANT SettledIsMirrored
PROPERTY Converges
