SPECIFICATION CachedSpec
CONSTANTS
    Layouts <- SmallLayouts
    Inputs <- SmallInputs
    Answers <- SmallAnswers
INVARIANTS
    AcceptedIsReadable
    BodyTiled
    DissectAgrees
PROPERTIES
    AnswersAsUncached
CHECK_DEADLOCK FALSE
