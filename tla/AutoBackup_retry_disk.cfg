SPECIFICATION Spec
CONSTANTS
    Servers = {s1}
    Users = {u1}
    Scheduler = Scheduler
    NoSchedule = NoSchedule
    Interval = 3
    Retry = 2
    Faults = {"disk"}
PROPERTY RetryBackoff
