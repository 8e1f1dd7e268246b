SPECIFICATION Spec
CONSTANTS
  r0 = r0
  r1 = r1
  Ranks <- TwoRanks
  Main = r0
  TotalSteps = 5
  SaveEvery = 2
  KeepCkpts = 2
  MaxLaunches = 4
  MaxStops = 2
  MaxKills = 3
INVARIANTS
  Resumable
  ResumeWhole
  DoneIsFinal
PROPERTIES
  LaunchEnds
