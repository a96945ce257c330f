SPECIFICATION FairSpec
CONSTANTS
    Specs <- AllSpecs
    ErrorName = 0
INVARIANTS
    Bookkeeping
    QueueIsExact
    BlameIsOwn
    CycleVerdict
    OutputInOrder
PROPERTIES
    ImplementsOrder
    AlwaysAnswers
CHECK_DEADLOCK FALSE
