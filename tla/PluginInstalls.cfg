SPECIFICATION SSpec
CONSTANTS
    Publisher = {p1, p2}
    Version = {v1, v2}
    Arch = {linux}
    PublisherArc = linux
    None = none
    Request <- MCGood
    PublishFaults = FALSE
    Installer = {i1, i2}
    Uninstaller = {u1}
    Wanted <- MCDir
    InstallArc = linux
    Partial = partial
    InstallFaults = TRUE
    MaxKills = 1
    Runner = {r1}
    Plugin = plugin
    Neighbour = {other}
    Directory = directory
    StartFaults = TRUE
SYMMETRY InstallSymmetry
CONSTRAINTS
    PublishInTurn
    StartsApart
    DisturbedStarts
INVARIANTS
    STypeOK
    InstallIsWhole
    CalmStartsHavePlugin
