SPECIFICATION PartsSpec
CONSTANTS
  f1 = f1
  r1 = r1
  r2 = r2
  t0 = t0
  t1 = t1
  Features <- OneFeature
  NEvals = 2
  MaxStages = 1
  Workers = 1
  JudgeEvery = 1
  Ranks <- TwoRanks
  Trainers <- TwoTrainers
  Main = t0
  TotalSteps = 2
  Cap = 1
  MaxDeaths = 2
INVARIANTS
  NothingLost
  NoOrphans
  SuccessIsReal
PROPERTIES
  NaiveArmFixed
  PartsEnd
