\* Two requests, an edit, killed processes, a pid that is used again.
CONSTANTS
    edit = edit
    Commands = {edit}
    EditCommand = edit
    CommandLines <- PlainLines
    Pids = {1}
    NoPid = 0
    MaxRequests = 2
    MetadataIds = {1}
    Keys = {"deny", "edit", "quit", "up", "down"}
    NoKey = NoKey
\* The session, the TUI and the command may all have ended.
CHECK_DEADLOCK FALSE
SPECIFICATION ConsoleSpec
INVARIANTS
    ConsoleTypeOK
    NeverReachesUnregistered
    HostUntouched
    NothingLeftBehind
    MessageTruthful
PROPERTIES
    ChildrenEnd
    
