SPECIFICATION FairSpec
CONSTANTS
    Bots = {b1}
    NoBot = NoBot
    Agents = {a1, a2}
    NoAgent = NoAgent
    Ids = {i1, i2}
    NoId = NoId
    MaxBoots = 1
    Faults = {"link", "kill", "disk", "rcon", "stuck", "reboot"}
INVARIANTS
    TypeOK
    OneServer
    SignalsOnlyServers
    ScheduledArchivesConsistent
    SavesRestored
PROPERTIES
    AnswersTrue
    FlockFreed
