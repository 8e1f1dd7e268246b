SPECIFICATION Spec
CONSTANTS
  t0 = t0
  t1 = t1
  NRollout = 2
  Trainers <- TwoTrainers
  Main = t0
  NRows = 2
  ChunkRows = 1
  BlocksPerStep = 1
  Cap = 1
  TotalSteps = 3
  PublishEvery = 1
  KeepLoras = 1
  EvalEvery = 1
  Faulty = {0}
INVARIANTS
  EvalComplete
  NoWorkRepeated
  ShardsIntact
  ErrorsAccounted
PROPERTIES
  RunEnds
