SPECIFICATION FlagsSpec
CONSTANTS
  r1 = r1
  r2 = r2
  t0 = t0
  Ids <- ThirtyIds
  Ranks <- OneRank
  Trainers <- OneTrainer
  Main = t0
  BlocksPerStep = 2
  MaxLag = 2
  MaxQueueBlocks = 0
  DropStale = FALSE
  StepOffset = 0
  TotalSteps = 7
  PublishEvery = 1
  KeepLoras = 3
  StaleRanks <- TwoRanks
INVARIANTS
  LagBounded
  NoneCrashes
PROPERTIES
  ImplementsStream
  RunsEnd
