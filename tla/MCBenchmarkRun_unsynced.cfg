SPECIFICATION Spec
CONSTANTS
  p1 = p1
  p2 = p2
  k1 = k1
  k2 = k2
  clean = clean
  other = other
  dirty = dirty
  Absent = Absent
  NoOne = NoOne
  Procs <- OneProc
  RunCount = 1
  Keys <- OneKey
  Envs <- OneClean
  Clean <- OneClean
  Strict = FALSE
  EntryJournaled = FALSE
  MaxStops = 1
  MaxChanges = 0
PROPERTY RowsAreFinal
CHECK_DEADLOCK FALSE
