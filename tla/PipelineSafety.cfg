SPECIFICATION Spec
CONSTANTS
  r1 = r1
  r2 = r2
  r3 = r3
  t0 = t0
  t1 = t1
  Ids <- ThirtyIds
  Ranks <- TwoRanks
  Trainers <- TwoTrainers
  Main = t0
  BlocksPerStep = 1
  MaxLag = 2
  MaxQueueBlocks = 0
  DropStale = FALSE
  StepOffset = 0
  TotalSteps = 2
  PublishEvery = 1
  KeepLoras = 1
INVARIANTS
  DepthBound
  BlocksAccounted
  LoadIntact
  LatestLoadable
  LabelsPublished
PROPERTIES
  ImplementsBatches
