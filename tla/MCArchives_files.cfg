\* Every search under one tight cap at a time; every archive, every archive
\* damaged in one word or cut short, and five that another process rewrites word
\* by word between any two reads.
CONSTANTS
    Programs <- P
    Restores <- MCRestores
    PayloadCells <- MCPayloadCells
    NodeCount <- MCNodeCount
    EncoderLimits <- Wide
    DecoderLimits <- NarrowBlocks
    Files <- AllFiles
    Inputs <- BlockLists
    Rewrites <- RewrittenFiles
    MaxWrites = 4
    MayFail = TRUE
    Parts = {"decode", "search"}
    SearchConfigs <- AllCaps
    SearchInputs <- OneOrTwoBlocks
    Wholes <- WholeProviders
    Intervals <- IntervalProviders
    Offers <- SearchAnswers
    FileBytes = 4
    BlockBytes = 2
    SplitBytes = 2
    BoundaryBytes <- Boundaries
    LiteralBytes <- Literals
    VerifyWork = 1
SPECIFICATION MCSpec
INVARIANTS AgreesWithFormat AcceptedIsOneArchive SpoolIsPromisedPrefix MemoryIsBounded SearchIsHonest
PROPERTIES DecodesEnd
CHECK_DEADLOCK FALSE
