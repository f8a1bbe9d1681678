SPECIFICATION Spec
CONSTANTS
    Crcs = {1, 2, 3}
    Contents = {"large"}
    UncompressedSize <- MCUncompressedSize
    CompressedSize <- MCCompressedSize
    PointerSpan = 100
    ForeignSizes = {0}
    MaxRevision = 2
    Faults = {"crash"}
    Explored = {"intact"}
    MaxSize = 100
CONSTRAINT Bounded
INVARIANTS
    SafeStored SafeLayout CopyAligned
PROPERTIES
    RevisionTellsVersions Implements
