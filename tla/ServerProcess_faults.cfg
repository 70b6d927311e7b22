SPECIFICATION FairSpec
CONSTANTS
    Tasks = {t1, t2}
    NoTask = NoTask
    Pids = {p1, p2}
    NoPid = NoPid
    MaxBirths = 2
    Faults = {"crash", "disk", "cancel"}
INVARIANTS
    SignalsOnlyServers
PROPERTIES
    LiveRecordKept
    CallsAnswered
