SPECIFICATION PSpec
CONSTANTS
    Publisher = {p1, p2}
    Version = {v1, v2}
    Arch = {linux, mac}
    PublisherArc = linux
    None = none
    Request <- MCRequest
    PublishFaults = TRUE
INVARIANTS
    PTypeOK
    VersionIsWhatWasBuilt
    LatestIsPublished
    ResourcesBeforeExec
PROPERTIES
    SettledVersionsStay
