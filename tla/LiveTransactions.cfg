\* Every call returns, whatever fails short of the process, and is committed
\* if nothing fails.
CONSTANTS
  Threads = {t1, t2}
  Ops = {o1, o2, o3, o4}
  NoThread = NoThread
  NoOp = NoOp
  Faults = {"begin", "callback", "commit", "rollback"}
  Late = TRUE
SPECIFICATION FairSpec
PROPERTIES
  CallsReturn
  AcceptedIsCommitted
CHECK_DEADLOCK FALSE
