SPECIFICATION Spec
CONSTANTS
    Crcs = {1, 2}
    Contents = {"empty"}
    UncompressedSize <- MCUncompressedSize
    CompressedSize <- MCCompressedSize
    PointerSpan = 8
    ForeignSizes = {0, 3}
    MaxRevision = 1
    Faults = {"crash", "reader", "write", "truncate", "reuse"}
    Explored = {"intact"}
    MaxSize = 11
CONSTRAINT Bounded
INVARIANTS
    TypeOK Durable Safe
PROPERTIES
    FailureSparesOthers
