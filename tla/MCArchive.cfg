SPECIFICATION Spec
CONSTANTS
    Paths = {p1, p2}
    Contents = {d1, d2}
    Names = {"A.pk", "a.pk", "./a.pk", "a.pKelvin"}
    LowerCase <- MCLowerCase
    FileOf <- MCFileOf
    Flags = {TRUE}
    Listed <- MCListed
    MaxEdits = 1
    Faults = {"crash", "open", "store", "close"}
SYMMETRY Symmetry
INVARIANTS
    TypeOK Safe LoadsStored Durable
PROPERTIES
    ReadingIsHarmless
