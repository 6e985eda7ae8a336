\* Threads that notify, observe and read at once, from outside and from observers.
CONSTANTS
  Threads = {t1, t2, t3}
  Values = {v1, v2, v3}
  Observers = {o1, o2}
  NoThread = NoThread
  NoValue = NoValue
  NoObserver = NoObserver
  Torn = Torn
SPECIFICATION FairSpec
INVARIANTS
  ObserverReadsItsValue
PROPERTIES
  OnlyReentryBlocks
CHECK_DEADLOCK FALSE
