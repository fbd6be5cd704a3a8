SPECIFICATION Spec
CONSTANTS
    s1 = s1
    s2 = s2
    s3 = s3
    s4 = s4
    p1 = p1
    p2 = p2
    p3 = p3
    Snapshots = {s1, s2, s3, s4}
    Requested = s1
    MaxRetries = 2
    MaxRedirects = 2
    Pages = {p1, p2, p3}
    HtmlOf <- MCHtmlOf
    GoodPages = {p1}
    Nothing = Nothing
CHECK_DEADLOCK FALSE
INVARIANTS
    BoundedWork
    ChainsAreSound
PROPERTIES
    CallEnds
