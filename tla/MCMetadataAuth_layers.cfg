\* Changes of times decided while their path is mounted over, unmounted and
\* hidden, with trusted commands, bypass rules and a failing log.
CONSTANTS
    v1 = v1
    p1 = p1
    t1 = t1
    mode = mode
    uid = uid
    None = None
    Paths <- ThePaths
    Locals = {"file"}
    HostPaths <- TheHost
    HostDirs <- NoDirs
    MountPoints <- MountAt
    HidePoints <- MountAt
    MaxOrder = 2
    Views = {v1}
    Procs = {p1}
    Fields = {"times"}
    Changes <- TimesOnly
    ProtectPatterns <- XPattern
    BypassPatterns <- XPattern
    Tokens = {t1}
    ScopeOf <- TheScope
    MaxId = 2
    LogFails = TRUE
SPECIFICATION FairSpec
INVARIANTS
    OverridesAuthorized
PROPERTIES
    FreshLayerHasNoOverride
    DecidedChangeReturns
