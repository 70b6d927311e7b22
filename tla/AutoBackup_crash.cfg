SPECIFICATION Spec
CONSTANTS
    Servers = {s1, s2}
    Users = {u1}
    Scheduler = Scheduler
    NoSchedule = NoSchedule
    Interval = 1
    Retry = 1
    Faults = {"crash", "restart"}
SYMMETRY Symmetry
INVARIANTS
    TypeOK
    SavedWhenUnlocked
PROPERTIES
    OwedUntilMade
    RetryBackoff
