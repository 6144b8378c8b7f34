SPECIFICATION Spec
CONSTANTS
  Workers = {w1, w2}
  Client = client
  Main = "main"
  Tasks <- TreeTasks
  Prog <- TreeProg
INVARIANTS TypeOK ResultsAreRight ContinuationsOnce RunOnce
PROPERTIES EverythingJoins
