SPECIFICATION FairSpec
CONSTANTS
    Layouts <- AllLayouts
    Inputs <- SmallInputs
INVARIANTS
    ItemsTile
    EndsForAReason
    ChildrenTile
PROPERTIES
    EventuallyEnds
CHECK_DEADLOCK FALSE
