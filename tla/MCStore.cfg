SPECIFICATION StoreSpec
CONSTANTS
    d1 = d1
    d2 = d2
    c1 = c1
    c2 = c2
    both = both
    copying = copying
    Savers = {cp, s1}
    copier = cp
    Source <- MCSource
    CopyVerify = TRUE
    Digests = {d1, d2}
    Contents = {c1, c2}
    Missing = Missing
    Partial = Partial
    NoTemp = NoTemp
    NoRequest = NoRequest
    DigestOf <- MCDigestOf
    MaxCrashes = 1
\* Alone, a copy and a verification end.
CHECK_DEADLOCK FALSE
INVARIANTS
    DirectoryIsSound
    VerifyCovers
    CopyAccountsForAll
PROPERTIES
    ImplementsContentStore
