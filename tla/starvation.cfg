CONSTANTS
  u1 = u1
  u2 = u2
  restore = restore
  vacuum = vacuum
  NULL = NULL
  Users <- OneUser
  Holders <- JustRestore
  Restores <- JustRestore
  MaxFaults = 1
  MaxClicks = 1
SPECIFICATION FairSpec
PROPERTY NoRequestStarves
