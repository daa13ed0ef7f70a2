CONSTANTS
    ThreadCounts = {0, 1, 2, 3, 4}
    MaxThreads = 3
    BlockSizes = {0, 1, 2, 3}
    MaxSourceBytes = 5
    SourceMayGrow = TRUE
    Outcomes <- Results
    SpoolStarts = {0, 1}
    SpoolCells = 20
    HeaderBytes = 2
    RecordBytes = 1
    BlockHeaderBytes = 1
    FooterBytes = 1
    CopyBytes = 2
    MaxArchive = 12
    MaxOutput = 4
    MaxBlockOutput = 2
    MaxBlockPayload = 3
SPECIFICATION MCFairSpec
INVARIANTS TypeOK CompleteOutputIsExact LateFailureIsIo FirstBadBlockReported BoundedResidency CanonicalBoundaries
PROPERTIES ImplementsSequential SpoolKeepsRecorded CallsReachTheirVerdict
CHECK_DEADLOCK FALSE
