CONSTANTS
  u1 = u1
  u2 = u2
  restore = restore
  vacuum = vacuum
  NULL = NULL
  Users <- TwoUsers
  Holders <- Both
  Restores <- NoHolder
  MaxFaults = 1
  MaxClicks = 0
SPECIFICATION Spec
INVARIANT ClaimHeld SwapExcludesSync
PROPERTY Coalesced
