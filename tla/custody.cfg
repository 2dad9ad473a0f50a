CONSTANTS
  a = a
  b = b
  main = main
  NULL = NULL
  Clients <- TwoClients
  Setups <- AnySetup
SPECIFICATION FairSpec
INVARIANTS TypeOK PurgedIsClean SettledIsShown PlanIsCurrent
PROPERTIES CopiesFollowPlan PlanFollowsEvent DisconnectedIsCleared ReleasedIsFrozen
