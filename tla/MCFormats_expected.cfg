SPECIFICATION LinesSpec
CONSTANTS
    ByteValues = {0, 1, 2}
    Contents <- MCContents
    Levels <- MCLevels
    WindowSize = 8
    MinMatch = 2
    MaxMatch = 4
    MaxBlockTokens = 3
    MaxHashOffset = 12
    TooFar = 4
    HashSize = 4
    HashOf <- MCHashOf
    NoBlockStart = 16000
    Streams <- MCStreams
    LiteralBits = 4
    OffsetBits = 3
    CodegenBits = 4
    Archives <- MCArchives
    Metadata <- MCMetadata
    Texts <- MCTexts
    NotText = 0
    ClassOf <- MCClassOf
    Hidden <- MCHidden
    MaxDecompressedLen = 5
    MaxExtraFlushes = 3
    CounterMax = 56
    OutSlack = 4
    FlushMarkerLen = 3
    Symbols <- MCSymbols
    Digests <- MCDigests
    FileSets <- MCFileSets
    Cdx <- MCCdxAny
    Timestamps <- MCTimestamps
    Format <- MCFormat
    Contexts <- MCContexts
    Damaged <- MCUndamaged
    TooLong <- MCTooLong
    Inferred <- MCInferred
    Code <- MCCode
    Requests <- MCRequests
    SampleSize = 2
\* The reading of a file ends.
CHECK_DEADLOCK FALSE
INVARIANTS
    WrittenLinesParse
