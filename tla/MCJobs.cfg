SPECIFICATION JobSpec
CONSTANTS
    MergeFiles <- MCMergeFiles
    TextSize <- MCTextSize
    Unparsed = Unparsed
    Unreadable = Unreadable
    StreamFiles <- MCStreamFiles
    Failure = Failure
    ChannelBuffer = 1
    ChunkSize = 2
    Parallelisms <- MCParallelisms
    DataDirectories <- MCDataDirectories
    CdxFileLists <- MCCdxFileLists
    InvalidLogs <- MCInvalidLogs
    PartitionKeys <- MCPartitionKeys
    FileChunk = 2
    SnapshotFiles <- MCSnapshotFiles
    BadSnapshot = BadSnapshot
    CaptureIndexes <- MCCaptureIndexes
    ExpectedLogs <- MCExpectedLogs
    BatchSize = 2
    QueryCount = 2
    Payloads <- MCPayloads
    Empty = "empty"
    ResumeKeys <- MCResumeKeys
    BadRow = "bad"
    Binary <- MCBinary
    Attempts = 2
    Pause <- MCPause
    Trees <- MCTrees
    OldFiles <- MCOldFiles
    BadLine <- MCBadLine
    InputFiles <- MCInputFiles
    NewEntryLists <- MCNewEntryLists
    Bad = Bad
    Buffer = 1
\* Every job ends.
CHECK_DEADLOCK FALSE
INVARIANTS
    MergeIsSound
    JudgementIsOne
    FilesAreAccounted
    OutputsAreFinished
    EarliestCapture
    EnhanceLosesNothing
    SessionIsComplete
    LegacyIsKept
    OutputsAreMerged
    ResultIsTruthful
PROPERTIES
    JobsEnd
