SPECIFICATION FairSpec
CONSTANTS
  Nodes <- TwoNodes
  Tasks <- ChainTasks
  NoTask = NoTask
  NoNode = NoNode
  Origin <- AllFromOrigin
  Roots <- ChainRoots
  Stage <- PipelineStage
  NumWorkers <- OneWorkerEach
  Stealing <- JustThief
  Handled <- AllHandled
  Droppers <- Nobody
  Mortal <- JustThief
  Stoppable <- JustThief
  MaxConns = 2
INVARIANTS TypeOK LedgerBalanced RerunsOnlyReaped AdvancesOnce BalancedMeansDone
PROPERTIES EveryTaskSettles
CHECK_DEADLOCK FALSE
