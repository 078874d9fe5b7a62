\* Grants: two views and two processes write, one-shot and duration grants for
\* one process or the tree, a clock that expires them.
CONSTANTS
    v1 = v1
    v2 = v2
    c1 = c1
    c2 = c2
    p1 = p1
    p2 = p2
    p3 = p3
    None = None
    PidOf <- ThePids
    Paths <- ThePaths
    Views <- TwoViews
    Controllers = {c1}
    Procs = {p1, p2, p3}
    Operations <- SingleWrite
    ProtectRules <- WriteRules
    BypassRules = {}
    GrantPatterns = {{"a", "b"}}
    Trees = {{p1, p2}, {p2, p3}}
    Durations = {1}
    MaxId = 3
    MaxNow = 1
    LookupFails = FALSE
    LogFails = FALSE
SYMMETRY ViewSymmetry
SPECIFICATION Spec
INVARIANTS
    NoLostWaiter
    OneShotNeverStored
    GrantReachesRequester
    NoneBlockedUnderGrant
    OneApprovalOneRelease
    ProceedOnlyApproved
