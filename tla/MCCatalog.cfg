SPECIFICATION Spec
CONSTANTS
    Crcs = {1, 2, 3}
    Keys = {"x/a.pk", "b.pk"}
    Cleaned <- MCCleaned
    Flags = {TRUE}
    InsertionLimit = 2
    MaxEntries = 2
    MaxRecords = 3
    ForeignFiles <- MCForeignFiles
    Faults = {"crash", "write"}
CONSTRAINT Bounded
INVARIANTS
    TypeOK SearchFindsStored RecordsNamed NodesFit Durable NothingBehind OldOrNew
