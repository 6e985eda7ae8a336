\* Two threads, four operations, every fault, callbacks that defer late.
CONSTANTS
  Threads = {t1, t2}
  Ops = {o1, o2, o3, o4}
  NoThread = NoThread
  NoOp = NoOp
  Faults = {"begin", "callback", "commit", "rollback", "crash"}
  Late = TRUE
SPECIFICATION Spec
SYMMETRY Interchangeable
INVARIANTS
  AllOrNothing
  NestedSharesFate
  RunAtMostOnce
  SetFlagMeansException
  AckedLostOnlyByOthers
PROPERTIES
  LeftoversNeverRun
  PromiseKept
CHECK_DEADLOCK FALSE
