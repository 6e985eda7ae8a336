\* Every declaration of up to two fields, and releases that follow on one file.
CONSTANTS
  main = main
  parent = parent
  a = a
  b = b
  z = z
  Models = {main, parent}
  NoModel = NoModel
  NoTable = NoTable
  NoRelease = NoRelease
  Order <- ParentFirst
  Releases <- AllReleases
  Sequels <- SuccessiveReleases
  MaxStarts = 3
SPECIFICATION Spec
INVARIANTS
  NoFailureIfConsistent
  InsertFits
CHECK_DEADLOCK FALSE
