\* Every handler against mounts, hides and unmounts during its wait.
CONSTANTS
    None = None
    Paths <- ThePaths
    Locals = {"tree", "file"}
    HostPaths <- TheHost
    HostDirs <- TheHostDirs
    MountPoints <- Points
    HidePoints <- Points
    MaxOrder = 3
    Names <- EveryName
    Targets <- Points
    MaxHandle = 2
SPECIFICATION Spec
PROPERTIES
    HandleStable
    VirtualDirsReadOnly
    LateResolution
