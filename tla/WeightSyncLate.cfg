SPECIFICATION Spec
CONSTANTS
  r1 = r1
  r2 = r2
  r3 = r3
  t0 = t0
  t1 = t1
  Ranks <- TwoRanks
  Trainers <- TwoTrainers
  Main = t0
  PublishMode = "fs"
  BlocksPerStep = 1
  Cap = 2
  StepOffset = 0
  TotalSteps = 3
  PublishEvery = 1
  KeepLoras = 0
  FsKeepSteps = 0
INVARIANTS
  LabelIsServed
