\* Two corpus programs at a time, three in all, with one fault; freezes of
\* sound and unsound inputs, and under two edits; two runners of a campaign.
SPECIFICATION MCSpec
CONSTANTS
  Runners = {"left", "right"}
  Cells <- Schedule
  Native = {"mathsvg"}
  Files = {"clean", "dirty"}
  DirtyAtStart = {"dirty"}
  MaxEdits = 1
  Splits = {"development", "holdout"}
  Profiles = {"fast", "max"}
  Baselines = {"xz", "zstd"}
  Manifests <- AllManifests
  Tomls <- AllTomls
  Catalogues <- AllCatalogues
  Binaries <- AllBinaries
  MaxChanges = 2
  Parts = {"corpora", "inputs", "edits", "campaign"}
  Beginnings <- SoundBeginnings
  Runs = {one, two}
  Plan <- CorpusPlan
  Retired <- RetiredRows
  Requirements <- AllRequirements
  MaxStarts = 3
  MaxFaults = 1
SYMMETRY Alike
INVARIANTS CorpusIsReal RecordIsOneState LogIsOneCampaign
PROPERTIES StepsKeepRecords
CHECK_DEADLOCK FALSE
