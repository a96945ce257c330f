SPECIFICATION FairSpec
CONSTANTS
    broken = broken
    rejected = rejected
    Uris = {"a", "b"}
    Texts = {broken, rejected}
    ParseErrors <- Errors
    Ungenerable = {rejected}
    FirstVersions = {1}
    Lanes = 3
    MaxSends = 4
INVARIANTS
    ServesCurrent
    ShownIsCurrent
    VersionsTell
PROPERTIES
    EventuallyShown
CHECK_DEADLOCK FALSE
