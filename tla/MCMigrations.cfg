\* Two processes, ids below, at and above the id of the row, every fault.
CONSTANTS
  Processes = {p1, p2}
  Ids = {0, 1, 2}
  Faults = {"busy", "callback", "crash"}
  MaxBuilds = 3
SPECIFICATION Spec
SYMMETRY Interchangeable
INVARIANTS
  FirstMigrationOnce
  RecordedHasFinished
  NoGaps
  BuiltRanAll
  BuiltIsRecorded
CHECK_DEADLOCK FALSE
