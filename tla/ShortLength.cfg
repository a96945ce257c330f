SPECIFICATION Spec
CONSTANTS
    UsizeMax = 63
    Layouts <- OnlyShortLength
    Inputs <- SmallInputs
    Answers <- SmallAnswers
    DebugAsserts = FALSE
INVARIANTS
    NeverPanics
CHECK_DEADLOCK FALSE
