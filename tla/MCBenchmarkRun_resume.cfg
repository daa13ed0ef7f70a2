SPECIFICATION FairSpec
CONSTANTS
  p1 = p1
  p2 = p2
  k1 = k1
  k2 = k2
  clean = clean
  other = other
  dirty = dirty
  Absent = Absent
  NoOne = NoOne
  Procs <- TwoProcs
  RunCount = 1
  Keys <- TwoKeys
  Envs <- AllEnvs
  Clean <- CleanEnvs
  Strict = TRUE
  EntryJournaled = TRUE
  MaxStops = 2
  MaxChanges = 2
INVARIANTS  EvidenceCoversEveryRow ActiveTimeIsHonest
  
CHECK_DEADLOCK FALSE
