SPECIFICATION Spec
CONSTANTS
    e1 = e1
    u1 = u1
    t1 = t1
    t2 = t2
    Databases = {1}
    Tasks = {t1, t2}
    Entries = {e1}
    Urls = {u1}
    Times <- MCTimes
    Never = Never
    Nobody = Nobody
    Operations = {"insert", "export"}
    Contents0 <- MCEmptyOnly
    MaxCalls <- MCCalls
CHECK_DEADLOCK FALSE
INVARIANTS
    ExportIsASnapshot
