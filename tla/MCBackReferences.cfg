SPECIFICATION FairSpec
CONSTANTS
    Base = 4
    Tag = 3
    MaxJumps = 3
    Messages <- Openings
    Names <- SomeNames
    Blobs <- SomeBlobs
    Capacity = 10
INVARIANTS
    ItemsReadBack
PROPERTIES
    LabelsEnd
CHECK_DEADLOCK FALSE
