\* Ctrl-C while a process may be about to ask for an authorization.
CONSTANTS
    c1 = c1
    c2 = c2
    c3 = c3
    None = None
    Main = main
    Clients = {c1, c2, c3}
    Commands <- Operator
    Mountpoints = {"m"}
    TempPoints = {}
    MaxAttach = 1
    Signals = TRUE
    MountFails = FALSE
    LogFails = FALSE
\* The session may end, and a process may wait for a decision for ever.
CHECK_DEADLOCK FALSE
SPECIFICATION FairSpec
PROPERTIES
    ExitCompletes
