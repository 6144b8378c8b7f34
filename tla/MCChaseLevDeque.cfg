SPECIFICATION FairSpec
CONSTANTS
  Tasks = {a1, a2, a3}
  Thieves = {h1, h2}
  InitCap = 1
  NoTask = NoTask
INVARIANTS TypeOK NoDoubleTake NoLoss WithinCapacity
PROPERTIES PopMissMeansEmpty StealMissMeansEmpty ImplementsDeque EveryTaskTaken
