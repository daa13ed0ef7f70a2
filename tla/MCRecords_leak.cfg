\* The sensor materializer on a corpus whose development manifest already
\* holds a file of the sensor's group.
SPECIFICATION MCSpec
CONSTANTS
  Runners = {"left", "right"}
  Cells <- Schedule
  Native = {"mathsvg"}
  Files = {"clean", "dirty"}
  DirtyAtStart = {"dirty"}
  MaxEdits = 1
  Splits = {"development", "holdout"}
  Profiles = {"fast", "max"}
  Baselines = {"xz", "zstd"}
  Manifests <- AllManifests
  Tomls <- AllTomls
  Catalogues <- AllCatalogues
  Binaries <- AllBinaries
  MaxChanges = 2
  Parts = {"corpora"}
  Beginnings <- LeakingBeginnings
  Runs = {one, two}
  Plan <- CorpusPlan
  Retired <- RetiredRows
  Requirements <- AllRequirements
  MaxStarts = 3
  MaxFaults = 1
INVARIANT SplitsAreDisjoint
SYMMETRY Alike
CHECK_DEADLOCK FALSE
