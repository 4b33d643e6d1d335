SPECIFICATION MCSpec
CONSTANTS
  Window = 2
  Layers <- MCLayers
  MaxChunk = 2
  Context = 6
  MaxPending = 60
  Routed = {"a", "b"}
  RouteLayers = {1}
  MaxConversations = 2
  MaxFails = 1
  Chunk = 8
  Align = 2
  Gap = 1
  Experts = {1, 2, 3, 4}
  VramSlots = 1
  RamSlots = 2
  PromoteMinHits = 2
  MaxAcquired = 6
  MaxWanted = 3
  MaxFailedReads = 1
  Row = {1, 2, 3, 4}
  Skip = 0
  EngramSet = {"low", "high"}
  Ways = 2
  SetIndex <- MCSetIndex
  MaxBatch = 2
  MaxLookups = 4
  MaxFailedLookups = 1
CHECK_DEADLOCK FALSE
INVARIANTS MirrorsReference  
