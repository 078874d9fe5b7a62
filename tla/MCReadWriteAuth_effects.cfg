\* Operations of two effects on two views against every command, two of them
\* in flight at once, and their progress.
CONSTANTS
    v1 = v1
    v2 = v2
    c1 = c1
    c2 = c2
    p1 = p1
    p2 = p2
    p3 = p3
    None = None
    PidOf <- ThePids
    Paths <- ThePaths
    Views <- TwoViews
    Controllers = {c1, c2}
    Procs = {p1}
    Operations <- Renames
    ProtectRules <- WriteRules
    BypassRules = {}
    GrantPatterns = {{"a"}}
    Trees = {}
    Durations = {}
    MaxId = 4
    MaxNow = 0
    LookupFails = FALSE
    LogFails = FALSE
SPECIFICATION FairSpec
INVARIANTS
    PendingHasRequester
PROPERTIES
    LifecycleSpec
    DecidedOperationReturns
