SPECIFICATION Spec
CONSTANTS
    ChunkSize = 3
    MaxData = 7
    MaxRead = 3
    MaxFailures = 1
    MayBeCut = TRUE
CHECK_DEADLOCK FALSE
INVARIANTS
    StreamReadsBack NothingSkipped TruncationTold Framed
PROPERTIES
    ReadsEnd
