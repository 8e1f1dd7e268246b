SPECIFICATION ModesSpec
CONSTANTS
  r1 = r1
  r2 = r2
  r3 = r3
  t0 = t0
  t1 = t1
  Ranks <- OneRank
  Trainers <- TwoTrainers
  Main = t0
  PublishMode = "fs"
  BlocksPerStep = 1
  Cap = 3
  StepOffset = 2
  TotalSteps = 8
  PublishEvery = 1
  KeepLoras = 0
  FsKeepSteps = 4
  NcclRanks <- ThreeRanks
  NcclBlocksPerStep = 2
  NcclCap = 4
  NcclStepOffset = 0
  NcclTotalSteps = 3
  NcclPublishEvery = 1
  NcclKeepLoras = 1
INVARIANTS
  LabelsServed
  NoneMixed
  NoneCrashes
PROPERTIES
  RunsEnd
