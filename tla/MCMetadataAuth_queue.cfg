\* Changes of overlapping fields replace one another while commands decide them.
CONSTANTS
    v1 = v1
    p1 = p1
    t1 = t1
    mode = mode
    uid = uid
    None = None
    Paths <- ThePaths
    Locals = {"file"}
    HostPaths <- TheHost
    HostDirs <- NoDirs
    MountPoints <- MountAt
    HidePoints = {}
    MaxOrder = 1
    Views = {v1}
    Procs = {p1}
    Fields = {mode, uid}
    Changes <- Overlapping
    ProtectPatterns <- XPattern
    BypassPatterns = {}
    Tokens = {}
    ScopeOf <- TheScope
    MaxId = 3
    LogFails = FALSE
SYMMETRY FieldSymmetry
SPECIFICATION Spec
INVARIANTS
    IndexExact
    NoLostWaiter
PROPERTIES
    LifecycleSpec
