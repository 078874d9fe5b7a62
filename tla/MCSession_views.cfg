\* Views come and go: attach and trusted commands against detach and destroy.
CONSTANTS
    c1 = c1
    c2 = c2
    c3 = c3
    None = None
    Main = main
    Clients = {c1, c2, c3}
    Commands <- OneAttacher
    Mountpoints = {"m"}
    TempPoints = {"tmp"}
    MaxAttach = 3
    Signals = TRUE
    MountFails = FALSE
    LogFails = TRUE
\* The session may end, and a process may wait for a decision for ever.
CHECK_DEADLOCK FALSE
SPECIFICATION Spec
INVARIANTS
    EntryHasSession
    OneViewPerMountpoint
    NoOrphanView
