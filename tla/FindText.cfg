\* find() on text keys.
CONSTANTS
  ann = ann
  anna = anna
  joanna = joanna
  x = x
  xy = xy
  Threads = {t1, t2}
  Keys <- TextKeys
  Notes <- TextNotes
  Like <- Containment
  KeyIsRowid = FALSE
  OtherIds = {1, 2}
  Busy = TRUE
  MaxCalls = 3
SPECIFICATION Spec
SYMMETRY Interchangeable
INVARIANTS
  FindUsesKey
CHECK_DEADLOCK FALSE
