SPECIFICATION Spec
CONSTANTS
  meeting = meeting
  series = series
  moved = moved
  a = a
  b = b
  Stable = {meeting, series, moved}
  SeriesOf <- MCSeriesOf
  MaxSame = 0
  Contents = {a, b}
  Families <- MeetingOnly
  Tags = {TRUE}
  Placements = {"main"}
  NULL = NULL
  FaultKinds = {}
  MaxMoves = 2
INVARIANT ReadAfresh
