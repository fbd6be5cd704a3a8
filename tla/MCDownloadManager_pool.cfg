SPECIFICATION Spec
CONSTANTS
    d1 = d1
    d2 = d2
    d3 = d3
    c1 = c1
    c2 = c2
    c3 = c3
    WorkerCount = 2
    Buffer = 1
    ItemCount = 2
    Digests = {d1, d2, d3}
    NoDigest = NoDigest
    Expected <- MCExpected
    Contents = {c1, c2, c3}
    DigestOf <- MCDigestOf
    Missing = Missing
    Existing <- MCExisting
    NoItem = NoItem
    KeepsReceiver = TRUE
    MaxRuns = 2
CHECK_DEADLOCK FALSE
INVARIANTS
    SharedByOne
    SuccessIsTrue
    FilesAreExplained
    DrainAccounts
    CloseIsTruthful
PROPERTIES
    CloseBlocksOnlyWhenFull
