CONSTANTS
  a = a
  b = b
  main = main
  NULL = NULL
  Clients <- OneClient
  Setups <- Newcomer
SPECIFICATION FairSpec
PROPERTY EveryClientIsCovered
