SPECIFICATION MCSpec
CONSTANTS
    Texts = {e, a, b, c}
    e = e
    a = a
    b = b
    c = c
    Star = Star
    NaNs = {511, 1023}
    OtherTypes = {"DATETIME"}
    NoText = NoText
    TextSize <- MCTextSize
    Hash <- MCHash
    Rank <- MCRank
    Span = 1024
    LongSpan = 8192
    Start = 0
    Faults = {"write", "read", "stop"}
    Builds <- MCBuilds
    Ids <- MCIds
    Files <- MCFiles
    Another = Another
    Databases <- MCDatabases
    Exclusions <- MCExclusions
INVARIANTS
    GbInvariant PromisesKept ReadsBack  EqualIdsInOrder TablesWhole ImportExports
PROPERTIES
    IteratesAll IterationEnds CallsEnd
