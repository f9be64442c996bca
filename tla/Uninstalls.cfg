SPECIFICATION FairSpec
CONSTANTS
    SupportedTools <- MCOneTool
    DefaultPass <- MCDefaultPass
    Installer = {i1}
    Uninstaller = {u1, u2}
    Old = old
    Binary = {i1, old}
    NoHash = noHash
    NoFile = noFile
    Corrupt = corrupt
    None = none
    Partial = partial
    NoLock = noLock
    Prior <- MCEdited
    Windows = FALSE
    Faults = FALSE
    MaxKills = 1
INVARIANTS
    OnlyKilledLeaveFiles
PROPERTIES
    UninstallRemovesAll
    Termination
