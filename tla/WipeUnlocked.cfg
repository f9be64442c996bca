SPECIFICATION Spec
CONSTANTS
    SupportedTools <- MCTools
    DefaultPass <- MCDefaultPass
    Installer = {i1}
    Uninstaller = {u1}
    Old = old
    Binary = {i1, old}
    NoHash = noHash
    NoFile = noFile
    Corrupt = corrupt
    None = none
    Partial = partial
    NoLock = noLock
    Prior <- MCEdited
    Windows = FALSE
    Faults = FALSE
    MaxKills = 0
INVARIANTS
    NoRecreationMidRemoval
