SPECIFICATION FairSpec
CONSTANTS
    Timers = {k1, k2}
    NoTimer = NoTimer
    Users = {u1, u2}
    Players = {p1}
    MaxLines = 1
    Faults = {"disk", "restart"}
INVARIANTS
    TypeOK
    OneCountdown
    DisabledMeansQuiet
PROPERTIES
    KnownPlayersSpared
    EmptyIsStopped
