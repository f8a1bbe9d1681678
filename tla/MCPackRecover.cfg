SPECIFICATION Spec
CONSTANTS
    Crcs = {1, 2}
    Contents = {"empty"}
    UncompressedSize <- MCUncompressedSize
    CompressedSize <- MCCompressedSize
    PointerSpan = 8
    ForeignSizes = {0}
    MaxRevision = 1
    Faults = {"crash", "reader", "truncate"}
    Explored = {"intact", "hurt", "lost"}
    MaxSize = 12
CONSTRAINT Bounded
INVARIANTS
    SortedByCrc IndicesCurrent
