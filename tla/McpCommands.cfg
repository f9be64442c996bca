SPECIFICATION Spec
CONSTANTS
    Installer = {i1, i2}
    Uninstaller = {u1}
    Name = {jfrog, other}
    Agent = agent
    None = none
    Missing = missing
    NotAMap = notAMap
    Rest <- MCRest
    NoRest = "nothing"
    Unparsable = unparsable
    NoFile = noFile
    Blank = blank
    Null = null
    NilMap = nilMap
    Rounded <- MCRounded
    Prior <- MCPrior
    Failing = {"check", "read", "open", "write"}
    MaxEdits = 1
    MaxKills = 1
INVARIANTS
    TypeOK
    LoneInstallTakesEffect
PROPERTIES
    RegistrySpec
