-------------------------- MODULE CatalogInvariant --------------------------
(***************************************************************************)
(* The inductive invariant of Catalog: how the list in memory, the file and*)
(* what was stored belong together between any two steps, also while the   *)
(* file is half written.                                                   *)
(***************************************************************************)
EXTENDS Catalog

Names == {Cleaned[k] : k \in Keys}

\* The records that the program makes.
Made == [Crc : Crcs, node : Nat \X Nat, IsCompressed : Flags, PackName : Names]

Distinct(names) == \A i, j \in DOMAIN names : i # j => names[i] # names[j]
NamedIn(list, names) == \A i \in DOMAIN list :
    \E k \in DOMAIN names : names[k] = list[i].PackName
Ascending(list) == \A i, j \in DOMAIN list : i < j => list[i].Crc <= list[j].Crc
Indexed(list) == \A i \in DOMAIN list : list[i].node = <<i, Len(list)>>

\* A file that can be opened and used, but for records that are written in
\* part.
WholeFile ==
    /\ Acceptable
    /\ Len(disk) = 3 + NumNames + NumRecords
    /\ DiskNames \in Seq(Names) /\ Distinct(DiskNames)
    /\ DiskRecords \in Seq(Made)
    /\ Ascending(DiskRecords) /\ Indexed(DiskRecords)

\* No record is written in part.
Untorn == \A j \in DOMAIN disk : disk[j].kind # "torn"

\* Since it was read or written, names and records have only been added: a
\* place in the list has the CRC it had, or a smaller one.
Grown(names, list) ==
    /\ NumNames <= Len(names)
    /\ \A i \in 1 .. NumNames : DiskNames[i] = names[i]
    /\ NumRecords <= Len(list)
    /\ \A i \in 1 .. NumRecords :
          /\ list[i].Crc <= DiskRecords[i].Crc
          /\ NumRecords = Len(list) => list[i].Crc = DiskRecords[i].Crc
    /\ Paths(DiskRecords) \subseteq Paths(list)

\* A Flush of more names or records than the file had has not come to its
\* end: it stopped inside a number; or behind the cells up to k, all are
\* garbled, or there are none, and k is before the last record that the head
\* of the file announces.
EndsAt(k, list) ==
    /\ \A j \in k + 1 .. Len(disk) : disk[j] = Garbled
    /\ \/ k < 3 + NumNames
       \/ /\ disk[3 + NumNames].kind = "count"
          /\ NumRecords \in 0 .. Len(list)
          /\ k < 3 + NumNames + NumRecords
HeadStops(names, list) ==
    \/ disk[2] = Garbled
    \/ /\ disk[2].kind = "count" /\ NumNames \in 0 .. Len(names)
       /\ \/ Len(disk) >= 3 + NumNames /\ disk[3 + NumNames] = Garbled
          \/ \E k \in 2 .. Len(disk) : EndsAt(k, list)
HalfWritten(names, list) ==
    /\ 2 <= Len(disk) /\ Len(disk) <= 3 + Len(names) + Len(list)
    /\ Len(list) # 0 => Len(disk) # 3 + Len(names) + Len(list)
    /\ disk[1] = Version
    /\ HeadStops(names, list)

\* The list in memory while a Store is running: what it has stored, or what
\* was stored before; update leaves alone what it does not find.
Storing ==
    /\ Paths(records) \cup Paths(added) = DOMAIN stored \cup Paths(given)
    /\ \A c \in Paths(records) : Settled(records, c) =>
          \A i \in Found(records, c) :
             IF c \in Paths(given) THEN <<c, ValueOf(records[i])>> \in Pairs(given)
             ELSE ValueOf(records[i]) \in stored[c]
    /\ \A i \in DOMAIN added :
          /\ added[i].Crc \notin Paths(records)
          /\ \E j \in DOMAIN given : given[j] = added[i]

WhenStoring == pc = "store" =>
    /\ dirty
    /\ Storing

WhenOpen == pc = "open" =>
    /\ order = << >> /\ added = << >> /\ given = << >>
    /\ Indexed(records)
    /\ Serves(records, stored)

InMemory == pc \in {"open", "store"} =>
    /\ disk \in Seq(Cell)
    /\ Distinct(packNames)
    /\ NamedIn(records, packNames) /\ NamedIn(added, packNames)
    /\ \A i \in DOMAIN order : Contains(packNames, Cleaned[order[i]])
    /\ Ascending(records)
    /\ \/ WholeFile /\ Grown(packNames, records)
       \/ HalfWritten(packNames, records) /\ health = "torn"
    /\ ~dirty => WholeFile /\ packNames = DiskNames /\ records = DiskRecords
    /\ IF health = "torn" THEN dirty /\ begun.paths \subseteq Paths(records)
       ELSE Untorn

OnDisk == pc \in {"closed", "garbled"} =>
    /\ ~dirty /\ packNames = << >> /\ records = << >>
    /\ order = << >> /\ added = << >> /\ given = << >>
    /\ pc = "garbled" => ~Readable
    /\ Acceptable => WholeFile
    /\ health # "torn" => IF Acceptable THEN Untorn /\ Serves(DiskRecords, stored)
                          ELSE DOMAIN stored = {}

\* Of a record that is written in part, history knows the record.
WhenTorn == health = "torn" =>
    /\ disk # << >>
    /\ Acceptable => Pairs(DiskRecords) \subseteq begun.values
                     /\ begun.paths \subseteq Paths(DiskRecords)

Typed ==
    /\ disk \in ForeignFiles \cup Seq(Cell)
    /\ pc \in {"closed", "open", "store", "garbled"}
    /\ dirty \in BOOLEAN
    /\ packNames \in Seq(Names)
    /\ records \in Seq(Made) /\ added \in Seq(Made) /\ given \in Seq(Made)
    /\ order \in Seq(Keys)
    /\ \A c \in DOMAIN stored : c \in Crcs /\ stored[c] \subseteq Value
    /\ begun \in [paths : SUBSET Crcs, values : SUBSET (Crcs \X Value)]
    /\ health \in {"whole", "torn", "lost"}

CatalogInvariant ==
    Typed /\ WhenStoring /\ WhenOpen /\ InMemory /\ OnDisk /\ WhenTorn
=============================================================================
