SPECIFICATION Spec
CONSTANTS
    SupportedTools <- MCTools
    DefaultPass <- MCDefaultPass
    Binary = {}
    NoHash = noHash
    NoFile = noFile
    Corrupt = corrupt
    Word <- MCWord
    Flag <- MCFlag
    Lower <- MCLower
    MaxArgs = 3
    Key <- MCKey
INVARIANTS
    TypeOK
    MostSpecificWins
