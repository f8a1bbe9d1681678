SPECIFICATION Spec
CONSTANTS
    Crcs = {1}
    Keys = {"x/a.pk", "b.pk"}
    Cleaned <- MCCleaned
    Flags = {TRUE}
    InsertionLimit = 2
    MaxEntries = 2
    MaxRecords = 3
    ForeignFiles <- MCForeignFiles
    Faults = {}
CONSTRAINT Bounded
INVARIANTS
    OnePackPerPath
