CONSTANTS
  p1 = p1
  c1 = c1
  c2 = c2
  NULL = NULL
  Projections <- OneCopy
  Contents <- Renderings
  Versions <- FewVersions
  Generations <- Ids
  PoisonPillThreshold = 1
  MaxIdGenerations = 2
  MaxTotalIdGenerations = 1
  MaxPasses = 2
  FaultKinds <- AllFaults
  Budgets <- OneOfEverything
  AdminKinds <- Endpoints
SPECIFICATION Spec
INVARIANTS TypeOK AtMostOneCopy EpisodeBounded StalePlanIsQueued
PROPERTIES BurnsOnlyTombstones OldNeverOverNew
