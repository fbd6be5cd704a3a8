SPECIFICATION ClaimSpec
CONSTANTS
    Workers = {w1, w2}
    NoWorker = NoWorker
    Durations = {1, 3, 4}
    TicksPerSecond = 2
    Absent = Absent
    Done = Done
    MaxTime = 9
    MaxCrashes = 1
CHECK_DEADLOCK FALSE
INVARIANTS
    ClaimsExcludeToTheSecond
PROPERTIES
    ItemGetsDone
