SPECIFICATION Spec
CONSTANTS
  Nodes <- TwoNodes
  Tasks <- PairTasks
  NoTask = NoTask
  NoNode = NoNode
  Origin <- AllFromOrigin
  Roots <- PairTasks
  Stage <- PipelineStage
  NumWorkers <- OneWorkerEach
  Stealing <- JustThief
  Handled <- OnlyOriginHandles
  Droppers <- Nobody
  Mortal <- Nobody
  Stoppable <- Nobody
  MaxConns = 2
INVARIANTS BalancedMeansDone
CHECK_DEADLOCK FALSE
