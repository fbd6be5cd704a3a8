SPECIFICATION Spec
CONSTANTS
    e1 = e1
    u1 = u1
    t1 = t1
    t2 = t2
    Databases = {1, 2}
    Tasks = {t1, t2}
    Entries = {e1}
    Urls = {u1}
    Times <- MCTimes
    Never = Never
    Nobody = Nobody
    Operations = {"insert", "merge", "export", "import"}
    Contents0 <- MCSome
    MaxCalls <- MCCalls
CHECK_DEADLOCK FALSE
INVARIANTS
    CallsAreTruthful
    MergesConverge
PROPERTIES
    NothingForgotten
    CallsEnd
