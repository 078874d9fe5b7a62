\* Every command ends when the operator answers.
CONSTANTS
    c1 = c1
    c2 = c2
    c3 = c3
    None = None
    Main = main
    Clients = {c1, c2, c3}
    Commands <- OneAttacher
    Mountpoints = {"m"}
    TempPoints = {"tmp"}
    MaxAttach = 2
    Signals = FALSE
    MountFails = TRUE
    LogFails = FALSE
\* The session may end, and a process may wait for a decision for ever.
CHECK_DEADLOCK FALSE
SPECIFICATION FairSpec
INVARIANTS
    BlockedIsQueued
PROPERTIES
    CommandsEnd
