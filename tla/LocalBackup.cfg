SPECIFICATION FairSpec
CONSTANTS
    Manual = {m1, m2}
    Scheduled = {a1}
    Control = {c1}
    NoTask = NoTask
    RconFaults = {"command", "answer"}
INVARIANTS
    TypeOK
    ScheduledArchivesConsistent
    NoAutosaveInArchive
    SavesRestored
PROPERTY BackupsEnd
