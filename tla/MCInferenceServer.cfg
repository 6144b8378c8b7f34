SPECIFICATION Spec
CONSTANTS
  Callers = {c1, c2}
  Executors = {w1, s1}
  Workers = {w1}
  NoJob = NoJob
  MaxRequests = 2
INVARIANTS TypeOK OneStageInFlight StageNeverAhead BalancedMeansServed NothingOutlivesRuntime
PROPERTIES DoneIsFinal EveryRequestServed ServerStops
CHECK_DEADLOCK FALSE
