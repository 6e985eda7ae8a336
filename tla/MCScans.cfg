\* Readers and writers on one connection.
CONSTANTS
  x = x
  xy = xy
  null = null
  Threads = {t1}
  Ids = {1, 2, 3}
  Values = {x, xy, null}
  Like <- Containment
  Below <- NullFirst
  Limit = 2
  MaxChanges = 5
SPECIFICATION Spec
INVARIANTS
  ReadsRise
  NothingMissed
  PicksInOrder
