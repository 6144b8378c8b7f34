SPECIFICATION FairSpec
CONSTANTS
  Nodes <- TwoNodes
  Tasks <- PairTasks
  NoTask = NoTask
  NoNode = NoNode
  Origin <- AllFromOrigin
  Roots <- PairTasks
  Stage <- PipelineStage
  NumWorkers <- OneWorkerEach
  Stealing <- JustThief
  Handled <- AllHandled
  Droppers <- Nobody
  Mortal <- Nobody
  Stoppable <- JustOrigin
  MaxConns = 2
PROPERTIES StopReturns
CHECK_DEADLOCK FALSE
