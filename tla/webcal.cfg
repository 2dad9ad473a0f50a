SPECIFICATION FairSpec
CONSTANTS
  meeting = meeting
  series = series
  moved = moved
  a = a
  b = b
  Stable = {meeting, series, moved}
  SeriesOf <- MCSeriesOf
  MaxSame = 2
  Contents = {a, b}
  Families <- AllFamilies
  Tags = {TRUE, FALSE}
  Placements = {"main", "client"}
  NULL = NULL
  FaultKinds = {"fetch", "poison", "crash", "release"}
  MaxMoves = 2
INVARIANTS TypeOK NoPlanStranded ETagIsHonest
PROPERTIES CancelledForCause CatchesUp
