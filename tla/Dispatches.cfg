SPECIFICATION DFairSpec
CONSTANTS
    SupportedTools <- MCTools
    DefaultPass <- MCDefaultPass
    Installer = {i1, i2}
    Uninstaller = {}
    Old = old
    Binary = {i1, i2, old}
    NoHash = noHash
    NoFile = noFile
    Corrupt = corrupt
    None = none
    Partial = partial
    NoLock = noLock
    Prior <- MCUntrimmed
    Windows = FALSE
    Faults = FALSE
    MaxKills = 0
    Dispatcher = {d1}
    Paths <- MCPaths
    ExecKeepsPath = FALSE
    MaxHops = 1
INVARIANTS
    InstallTakesEffect
    DTypeOK
    NoSelfExec
    VerdictWasConfigured
PROPERTIES
    EveryDispatchEnds
