\* Two starts of one name, one after the other, a kill, a monitor.
CONSTANTS
    main_thread = main_thread
    h1 = h1
    Procs = {1, 2}
    Main = main_thread
    Handlers = {h1}
    Threads = {main_thread, h1}
    MaxLines = 2
    LogFails = TRUE
    NoFile = NoFile
    None = 0
    Overlap = FALSE
    MaxKills = 1
    TailLines = 1
SPECIFICATION StartSpec
CHECK_DEADLOCK FALSE
INVARIANTS
    SessionReachable
    AcknowledgedLogged
    FollowPrintsOnce
PROPERTIES
    StartsAndAppendsEnd
