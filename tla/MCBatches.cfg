\* Two threads, two batches of two models, one builder, every fault.
CONSTANTS
  o1 = o1
  o2 = o2
  o3 = o3
  Threads = {t1, t2}
  Ops <- BatchOps
  Builders <- OneBuilder
  Size = 2
  NoThread = NoThread
  NoOp = NoOp
  Faults = {"begin", "callback", "commit", "rollback", "crash"}
  Late = TRUE
SPECIFICATION BatchSpec
SYMMETRY Interchangeable
INVARIANTS
  KeptIsCommitted
  CommittedIsComplete
  SuccessWithoutCommit
CHECK_DEADLOCK FALSE
