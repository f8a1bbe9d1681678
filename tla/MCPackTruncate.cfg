SPECIFICATION Spec
CONSTANTS
    Crcs = {1}
    Contents = {"large", "small"}
    UncompressedSize <- MCUncompressedSize
    CompressedSize <- MCCompressedSize
    PointerSpan = 100
    ForeignSizes = {0}
    MaxRevision = 1
    Faults = {"truncate"}
    Explored = {"intact", "hurt"}
    MaxSize = 100
CONSTRAINT Bounded
INVARIANTS
    ReportedSaved
