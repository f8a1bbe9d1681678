SPECIFICATION Spec
CONSTANTS
    Texts = {e, a, b, c}
    e = e
    a = a
    b = b
    c = c
    NoText = NoText
    TextSize <- MCTextSize
    Hash <- MCHash
    Rank <- MCRank
    Span = 1024
    LongSpan = 8192
    Start = 0
    Faults = {"read"}
    Builds <- MCBuilds
    Ids = {}
INVARIANTS
    ReportsReads
