\* Two workers, two callers that may stop at once, tasks that may post and stop.
CONSTANTS
  Workers = {w1, w2}
  Callers = {main, other}
  Owner = main
  Tasks = {a, b, c}
  NoWorker = NoWorker
  NoTask = NoTask
SPECIFICATION FairSpec
INVARIANTS
  NoWorkerSurvives
PROPERTIES
  PostedStarts
  StopReturns
