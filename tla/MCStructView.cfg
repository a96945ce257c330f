SPECIFICATION Spec
CONSTANTS
    UsizeMax = 63
    Layouts <- AllLayouts
    Inputs <- SmallInputs
    Answers <- SmallAnswers
    DebugAsserts = TRUE
INVARIANTS
    GuardedNeverPanics
    WalkIsSafe
    FieldsInOrder
    IteratorsInside
    RemainderUntouched
    ParseDissectAgree
    TreesAgree
    NodesTile
    HandoffIsPayload
CHECK_DEADLOCK FALSE
