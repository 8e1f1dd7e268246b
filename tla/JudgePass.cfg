SPECIFICATION Spec
CONSTANTS
  a = a
  b = b
  NRequests = 3
  Keys <- TwoKeys
  KeyOf <- ThreeRequests
  Workers = 2
  CheckpointEvery = 2
  Cap = 4
  Est = 2
  Costs = {1, 3}
  MaxCost = 3
  MaxPasses = 2
  MaxKills = 1
INVARIANTS
  AnsweredOnce
  NoDuplicates
  StageHonest
  OvershootBounded
  LedgerExact
  RecordsCovered
PROPERTIES
  PassEnds
