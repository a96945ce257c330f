SPECIFICATION Spec
CONSTANTS
    ByteBits = 4
    Lists <- UniformLists
    Buffers <- SomeBuffers
    Values <- SomeValues
INVARIANTS
    ReadsWhatWasSet
