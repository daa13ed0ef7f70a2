\* A limit on archives that the literal archive just keeps.
CONSTANTS
    Programs <- P
    Restores <- MCRestores
    PayloadCells <- MCPayloadCells
    NodeCount <- MCNodeCount
    EncoderLimits <- Wide
    DecoderLimits <- NarrowBlocks
    Files <- AllFiles
    Inputs <- BlockLists
    Rewrites <- RewrittenFiles
    MaxWrites = 4
    MayFail = TRUE
    Parts = {"search"}
    SearchConfigs <- TightArchive
    SearchInputs <- OneBlock
    Wholes <- WholeProviders
    Intervals <- IntervalProviders
    Offers <- SearchAnswers
    FileBytes = 4
    BlockBytes = 2
    SplitBytes = 2
    BoundaryBytes <- Boundaries
    LiteralBytes <- Literals
    VerifyWork = 1
SPECIFICATION MCSpec
INVARIANT LiteralIsFallback
CHECK_DEADLOCK FALSE
