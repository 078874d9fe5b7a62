\* Operations with several kinds of effect under changing protection and bypass
\* rules, with a timed grant that expires, identities that may be unknown and a
\* failing log.
CONSTANTS
    v1 = v1
    v2 = v2
    c1 = c1
    c2 = c2
    p1 = p1
    p2 = p2
    p3 = p3
    None = None
    PidOf <- ThePids
    Paths <- ThePaths
    Views = {v1}
    Controllers = {c1}
    Procs = {p1}
    Operations <- MixedOps
    ProtectRules <- MixedRules
    BypassRules <- XattrRules
    GrantPatterns = {{"a", "b"}}
    Trees = {}
    Durations = {1}
    MaxId = 3
    MaxNow = 1
    LookupFails = TRUE
    LogFails = TRUE
SPECIFICATION Spec
INVARIANTS
    TypeOK
PROPERTIES
    GateComplete
