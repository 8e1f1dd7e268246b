SPECIFICATION Spec
CONSTANTS
  World = 2
  Batch = 3
  GroupSize = 2
  MaxLen = 2
  ZeroVarFilter = TRUE
  KL = TRUE
  ScoreBatch = 2
  RefMicroBatch = 3
  Aggs <- AllAggs
  Policies <- LoRA
  MicroBatches = {2}
  Cands = {4}
  Peaks = {1, 3, 4}
  Budget = 3
  ExtraEvals = FALSE
INVARIANTS
  UnionGradient
