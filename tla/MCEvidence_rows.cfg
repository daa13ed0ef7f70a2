\* Five command runners with a helper and a daemon; every outcome of two trials
\* over two contents and sizes below and above the limit,
\* every table of an interrupted campaign, every set of paired trials and every
\* set of evidence of two profiles.
SPECIFICATION MCSpec
CONSTANTS
  Helpers = {"h1"}
  Daemons = {"d1"}
  ArchiveHashes = {"a", "b"}
  Sizes = {1, 3}
  OriginalBytes = 2
  MaxArchive = 2
  Trials = 2
  Codecs <- NativeFirst
  Native = {"mathsvg"}
  Datasets <- TwoFiles
  Repetitions = 3
  MinReps = 2
  StrictReps = 3
  Outcomes <- TrialOutcomes
  Shapes <- RunShapes
  MinPairs = 2
  StrictPairs = 3
  TSquare <- TenTSquare
  SideOutcomes <- PairOutcomes
  Profiles = {"fast", "max"}
  Baselines = {"zstd", "xz"}
  Metrics = {"size", "time"}
  Evidence <- AllEvidence
  Parts = {"commands", "trials", "table", "pairs", "certificates"}
INVARIANTS CallsAreHonest RowsAreEvidence TablesHold 
PROPERTIES FilesReturn RowsTellWhatHappened
CHECK_DEADLOCK FALSE
