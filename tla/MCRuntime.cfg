SPECIFICATION FairSpec
CONSTANTS
  NumWorkers = 2
  NumTypes = 2
  Tasks <- FullTasks
  Roots <- FullRoots
  Spawns <- FullSpawns
  Stage <- FullStage
  TypeOf <- FullTypeOf
  NoTask = NoTask
  WaitFirst = FALSE
INVARIANTS TypeOK OpenTasksHeldOnce ExecutedOnce
PROPERTIES WaitAllSound EveryTaskFinishes ShutdownReturns
