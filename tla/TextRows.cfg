\* Text keys that contain each other.
CONSTANTS
  ann = ann
  anna = anna
  joanna = joanna
  x = x
  xy = xy
  Threads = {t1, t2}
  Keys <- TextKeys
  Notes <- TextNotes
  Like <- Containment
  KeyIsRowid = FALSE
  OtherIds = {1, 2}
  Busy = TRUE
  MaxCalls = 4
SPECIFICATION Spec
SYMMETRY Interchangeable
INVARIANTS
  InsertReturnsOwn
  
  FailedInsertExplained
  UpdateIdentifies
  RemoveByRemoves
PROPERTIES
  RemovesOnlyMatching
CHECK_DEADLOCK FALSE
