SPECIFICATION FairSpec
CONSTANTS
  a = a  b = b  c = c
  Expert = {a, b, c}
  NoExpert = NoExpert
  Torn = Torn
  VramSlots = 1
  RamSlots = 2
  Rows = 1
  Active = 2
  MustRun = 1
  RamRanks = 2
  HostBudget = 1
  StandIn = FALSE
  MaxQueued = 2
  PromoteAfter = 2
  MaxDemand = 2
  Hot <- TheHot
  MaxLost = 1
INVARIANT ChosenExpertsAreWhole
PROPERTY LayerEnds
CHECK_DEADLOCK FALSE
