SPECIFICATION FairSpec
CONSTANTS
  NumWorkers = 2
  NumTypes = 1
  Tasks <- SmallTasks
  Roots <- SmallRoots
  Spawns <- SmallSpawns
  Stage <- SmallStage
  TypeOf <- SmallTypeOf
  NoTask = NoTask
  WaitFirst = TRUE
PROPERTY WaitAllReturns
