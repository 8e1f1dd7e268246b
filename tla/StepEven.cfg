SPECIFICATION Spec
CONSTANTS
  World = 2
  Batch = 3
  GroupSize = 2
  MaxLen = 2
  ZeroVarFilter = TRUE
  KL = TRUE
  ScoreBatch = 2
  RefMicroBatch = 3
  Aggs <- AllAggs
  Policies = {TRUE, FALSE}
  MicroBatches = {0, 2}
  Cands = {4, 6, 8, 20}
  Peaks = {1, 3, 4}
  Budget = 3
  ExtraEvals = TRUE
INVARIANTS
  UnionGradientNonEmpty
  OneDecision
  MicroBatchFits
  EvalsAgree
PROPERTIES
  StepEndsEven
CHECK_DEADLOCK FALSE
