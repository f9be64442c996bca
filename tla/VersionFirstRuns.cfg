SPECIFICATION Spec
CONSTANTS
    Run = {r1, r2}
    Interval = 2
    MaxTime = 2
    Prior <- MCNoFile
    WritesFail = FALSE
    MaxKills = 0
    NoFile = noFile
    Empty = empty
    Unset = unset
    Garbled = garbled
INVARIANTS
    StaysReadable
