SPECIFICATION Spec
CONSTANTS
    Tasks = {t1, t2}
    NoTask = NoTask
    Pids = {p1, p2}
    NoPid = NoPid
    MaxBirths = 3
    Faults = {"crash"}
INVARIANTS
    ReconnectsAfterRestart
