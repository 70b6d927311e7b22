SPECIFICATION Spec
CONSTANTS
    Terminals = 2
    Users = {u1}
    Ids = {a, b, c}
    NoId = NoId
    Remote = {c}
    ServerId = a
    Secrets = {k1, k2}
    NoSecret = NoSecret
    MaxOpened = 3
    Faults = {"disk", "link", "kill"}
SYMMETRY Symmetry
ACTION_CONSTRAINT Bounded
INVARIANTS
    TypeOK
    EditsKept
    NoWidening
    DefaultRegistered
    RconReachable
    Forgotten
    RolledBack
CHECK_DEADLOCK FALSE
