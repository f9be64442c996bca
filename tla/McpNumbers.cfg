SPECIFICATION Spec
CONSTANTS
    Installer = {}
    Uninstaller = {u1}
    Name = {jfrog, other}
    Agent = agent
    None = none
    Missing = missing
    NotAMap = notAMap
    Rest <- MCRest
    NoRest = "nothing"
    Unparsable = unparsable
    NoFile = noFile
    Blank = blank
    Null = null
    NilMap = nilMap
    Rounded <- MCRounded
    Prior <- MCWide
    Failing = {}
    MaxEdits = 0
    MaxKills = 0
INVARIANTS
    OthersAreUntouched
