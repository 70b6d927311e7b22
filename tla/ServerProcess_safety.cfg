SPECIFICATION Spec
CONSTANTS
    Tasks = {t1, t2, t3}
    NoTask = NoTask
    Pids = {p1, p2}
    NoPid = NoPid
    MaxBirths = 3
    Faults = {"cancel"}
SYMMETRY Symmetry
INVARIANTS
    TypeOK
    OneServer
    RunningIsManaged
PROPERTIES
    ImplementsLifecycle
