SPECIFICATION Spec
CONSTANTS
    Run = {r1, r2, r3}
    Interval = 2
    MaxTime = 3
    Prior <- MCAny
    WritesFail = TRUE
    MaxKills = 3
    NoFile = noFile
    Empty = empty
    Unset = unset
    Garbled = garbled
INVARIANTS
    TypeOK
    ChecksAreApart
    CheckIsMade
    KeepsParsing
