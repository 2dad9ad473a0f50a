CONSTANTS
  yes = yes
  no = no
  early = early
  late = late
  NULL = NULL
  Rsvps <- TwoRsvps
  Slots <- TwoSlots
  FirstRsvp = yes
  FirstSlot = early
  FaultKinds <- Mishaps
  MaxFaults = 1
  MaxEdits = 3
SPECIFICATION FairSpec
INVARIANTS TypeOK QuietIsMatched
PROPERTIES WritesWithinRights ErasesOnlyWhenAsked LiveMirrorIsKept FrozenCopyIsLeftAlone RsvpLands SidesAgree
