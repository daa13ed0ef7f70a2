\* Two processes with any command lines over any of the directories.
CONSTANTS
    Names <- MCNames
    Processes = {p1, p2}
    Jobs <- AllJobs
    InitialFiles <- Files
    InitialEntries <- AllDirectories
    CorruptArchives <- CorruptOnes
    Chunks = 2
    MaxInodes = 6
SPECIFICATION MCSpec
SYMMETRY ProcessSymmetry
INVARIANTS NamesAreSafe InputSurvives ReportIsVerified
PROPERTIES ImplementsStore
CHECK_DEADLOCK FALSE
