SPECIFICATION OffsetSpec
CONSTANTS
    UsizeMax = 33
    ElementLengths <- MCElementLengths
    Counts = {0, 1, 2, 5, 8, 33}
    Alignments = {0, 1, 3, 4}
    MaxFields = 4
INVARIANTS OffsetTypeOK ExactOrHuge
PROPERTY NeverBackwards
CHECK_DEADLOCK FALSE
