\* The table of a campaign stopped inside its last repetition.
SPECIFICATION MCSpec
CONSTANTS
  Helpers = {"h1"}
  Daemons = {"d1"}
  ArchiveHashes = {"a", "b"}
  Sizes = {1, 3}
  OriginalBytes = 2
  MaxArchive = 2
  Trials = 2
  Codecs <- NativeFirst
  Native = {"mathsvg"}
  Datasets <- TwoFiles
  Repetitions = 3
  MinReps = 2
  StrictReps = 3
  Outcomes <- TrialOutcomes
  Shapes <- RunShapes
  MinPairs = 2
  StrictPairs = 3
  TSquare <- TenTSquare
  SideOutcomes <- PairOutcomes
  Profiles = {"fast", "max"}
  Baselines = {"zstd", "xz"}
  Metrics = {"size", "time"}
  Evidence <- AllEvidence
  Parts = {"table"}
INVARIANT ConfirmedCorpusIsReplicated
CHECK_DEADLOCK FALSE
