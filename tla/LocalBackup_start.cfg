SPECIFICATION Spec
CONSTANTS
    Manual = {m1}
    Scheduled = {a1}
    Control = {c1}
    NoTask = NoTask
    RconFaults = {}
INVARIANTS
    ArchivesConsistent
