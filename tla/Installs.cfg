SPECIFICATION Spec
CONSTANTS
    SupportedTools <- MCTools
    DefaultPass <- MCDefaultPass
    Installer = {i1, i2}
    Uninstaller = {}
    Old = old
    Binary = {i1, i2, old}
    NoHash = noHash
    NoFile = noFile
    Corrupt = corrupt
    None = none
    Partial = partial
    NoLock = noLock
    Prior <- MCPrior
    Windows = TRUE
    Faults = TRUE
    MaxKills = 2
SYMMETRY InstallSymmetry
INVARIANTS
    TypeOK
    MutualExclusion
PROPERTIES
    KeepsModes
    RegistrySpec
