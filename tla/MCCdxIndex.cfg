SPECIFICATION Spec
CONSTANTS
    w = w
    r = r
    d1 = d1
    d2 = d2
    u1 = u1
    u2 = u2
    Callers = {w, r}
    Keys = {1, 2}
    Digests = {d1, d2}
    NoDigest = NoDigest
    Originals = {u1, u2}
    Batches <- MCBatches
    All = All
    Missing = Missing
    Nothing = Nothing
    TimeOf <- MCTimeOf
    Nobody = Nobody
    MaxCalls <- MCMaxCalls
CHECK_DEADLOCK FALSE
INVARIANTS
    IndexIsSound
    ImportIsComplete
PROPERTIES
    ImplementsCatalog
