\* Mounts, hides and unmounts in every order, with rules.
CONSTANTS
    Paths <- ThePaths
    Locals = {"full", "flat"}
    HostPaths <- TheHost
    HostDirs <- TheHostDirs
    MountPoints <- Dirs
    HidePoints <- Dirs
    MaxOrder = 4
    Texts <- TheTexts
    Reads <- TheReads
    Malformed = {"["}
    Kinds = {"read", "write"}
    MaxRules = 1
    MaxOrderWithRules = 2
SPECIFICATION PolicySpec
INVARIANTS
    ResolutionFollowsStack
    ListingAgrees
    RulesCoverAligned
    ListedTextNamesRule
