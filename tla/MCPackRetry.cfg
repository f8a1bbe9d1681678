SPECIFICATION Spec
CONSTANTS
    Crcs = {1, 2}
    Contents = {"large"}
    UncompressedSize <- MCUncompressedSize
    CompressedSize <- MCCompressedSize
    PointerSpan = 100
    ForeignSizes = {0}
    MaxRevision = 1
    Faults = {"reader"}
    Explored = {"intact", "hurt"}
    MaxSize = 100
CONSTRAINT Bounded
INVARIANTS
    StoredReadable
