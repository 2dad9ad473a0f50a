CONSTANTS
  x = x
  s = s
  o = o
  c1 = c1
  c2 = c2
  r1 = r1
  NULL = NULL
  Events <- AllEvents
  SeriesOf <- Series
  Casts <- Calendars
  Contents <- TwoHashes
  NewContents <- OneHash
  Rooms <- OneRoom
  Conferences <- Singles
  Kinds <- EveryKind
  FaultKinds <- Mishaps
  MaxFaults = 1
  MaxEdits = 3
  RestoredAsWas <- ClientSingles
SPECIFICATION FairSpec
INVARIANTS TypeOK NoChangeStranded TokenIsHonest NoEcho
PROPERTIES NoRoomFromOneRead RowsGoForward CatchesUp
