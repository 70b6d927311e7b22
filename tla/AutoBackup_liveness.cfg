SPECIFICATION FairSpec
CONSTANTS
    Servers = {s1, s2}
    Users = {u1}
    Scheduler = Scheduler
    NoSchedule = NoSchedule
    Interval = 1
    Retry = 1
    Faults = {"raise", "disk"}
PROPERTIES
    OncePerInterval
    OwedIsAttempted
