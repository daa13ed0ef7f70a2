\* The matrix in two environments; every campaign; two compilers, two
\* generators, a validator; every cell of two trials with its row; documents of
\* two corpora with two changes, a stop and an edit.
SPECIFICATION MCSpec
CONSTANTS
  Generators = {"g1", "g2"}
  MaxFaults = 2
  Requests <- AllRequests
  Usual <- UsualRows
  Faulty <- FaultyRows
  ArchiveSize <- ArchiveSizes
  Original = 2000
  Blocks = 1
  MinReps = 2
  MaxMishaps = 2
  Envs <- TwoEnvs
  Threads = {"1"}
  Backends = {"scalar"}
  LeastReps = 2
  Caps <- AllCaps
  FullCaps <- EveryCap
  Endings <- AllEndings
  MaxSurprises = 1
  Contents <- CellContents
  SizeOf <- CellSizes
  Times = {1, 2}
  Repeats = {1, 2}
  StrictRepeats = 2
  Inputs <- TwoSources
  Codecs <- TwoCodecs
  Worlds <- UnusualWorlds
  Policies <- UnusualPolicies
  MaxChanges = 2
  MaxStops = 1
  Parts = {"matrix", "gates", "cells", "documents", "compilers"}
INVARIANTS MatrixIsEvidence ReportsAreTrue ReportsStandForBuilds ResultsVerify
CHECK_DEADLOCK FALSE
