------------------------------ MODULE Catalog -------------------------------
(***************************************************************************)
(* archive/catalog.go: the .pki file that says which pack holds a path, and*)
(* the Catalog object that reads and edits it.                             *)
(*                                                                         *)
(*   version | number of names | names | number of records | records       *)
(*                                                                         *)
(* The file is a sequence of cells, one per field or record.  Flush writes *)
(* all of it again over the old one, and never truncates; a write that     *)
(* fails may have stopped inside a cell.  As in Pack, a path is represented*)
(* by its CRC, and the tree indices of a record by its position and the    *)
(* length of the list.                                                     *)
(***************************************************************************)
EXTENDS Integers, Sequences, FiniteSets, SequencesExt

CONSTANTS
    Crcs,           \* checksums of the paths that are stored
    Keys,           \* the pack names callers use
    Cleaned,        \* each of them with '\' for every separator
    Flags,          \* values of IsCompressed that are stored
    InsertionLimit, \* the longest list that slices.SortFunc sorts by insertion
    MaxEntries,     \* bound: entries of one Store
    MaxRecords,     \* bound: records of the catalog
    ForeignFiles,   \* what the file may hold before the first call
    Faults          \* what the environment may do wrong

ASSUME CatalogAssumption ==
    /\ Crcs \subseteq Nat
    /\ DOMAIN Cleaned = Keys
    /\ Flags \subseteq BOOLEAN
    /\ InsertionLimit \in Nat
    /\ MaxEntries \in Nat /\ MaxRecords \in Nat
    /\ Faults \subseteq {"crash", "write"}

VARIABLES
    disk,               \* the file
    pc,                 \* what the Catalog is doing
    dirty, packNames, records,  \* fields of Catalog
    order, added,       \* locals of Store: the keys iterated over, the new records
    given,              \* history: the records of this Store
    stored,             \* history: what Search may return for each CRC
    begun,              \* history: what was in the file, and in memory, when a
                        \* Flush was left unfinished
    health              \* history: whether one was

catalog == <<dirty, packNames, records>>
locals  == <<order, added, given>>
past    == <<stored, begun, health>>
vars    == <<disk, pc, catalog, locals, past>>

-----------------------------------------------------------------------------
(* Records, cells and the file.                                            *)

Value == [PackName : {Cleaned[k] : k \in Keys}, IsCompressed : Flags]
ValueOf(r) == [PackName |-> r.PackName, IsCompressed |-> r.IsCompressed]

Version  == [kind |-> "version", value |-> 3]
Count(n) == [kind |-> "count", value |-> n]
Name(s)  == [kind |-> "name", value |-> s]
Entry(r, i) == [kind |-> "record", Crc |-> r.Crc, node |-> r.node, pack |-> i,
                IsCompressed |-> r.IsCompressed]

\* A record that is written in part: readRecord does one Read of 20 bytes, and
\* takes what is there of it with the bytes of an older record, or zeros,
\* behind.  Only history knows the record that was being written.
Torn(record) == [record EXCEPT !.kind = "torn"]

\* Bytes that are not those of a field: of another field, because what was
\* before them has grown, or of a number half old and half new.
Garbled == [kind |-> "garbled"]

\* A file that is not empty before the first call is another program's, or
\* was cut in its head: a catalog in use is one that Stores have led to.
ASSUME ForeignAssumption == \A f \in ForeignFiles :
    f = << >> \/ f = <<Version>> \/ f[1] # Version

\* A file that NewCatalog may accept, with records that are written in part.
NumNames   == disk[2].value
NumRecords == disk[3 + NumNames].value
Acceptable ==
    /\ Len(disk) >= 2 /\ disk[1] = Version
    /\ disk[2].kind = "count"
    /\ Len(disk) >= 3 + NumNames
    /\ \A i \in 1 .. NumNames : disk[2 + i].kind = "name"
    /\ disk[3 + NumNames].kind = "count"
    /\ Len(disk) >= 3 + NumNames + NumRecords
    /\ \A i \in 1 .. NumRecords :
          /\ disk[3 + NumNames + i].kind \in {"record", "torn"}
          /\ disk[3 + NumNames + i].pack \in 1 .. NumNames
DiskNames   == [i \in 1 .. NumNames |-> disk[2 + i].value]
DiskRecords == [i \in 1 .. NumRecords |->
    LET cell == disk[3 + NumNames + i]
    IN  [Crc |-> cell.Crc, node |-> cell.node, IsCompressed |-> cell.IsCompressed,
         PackName |-> DiskNames[cell.pack]]]
IsTorn(i) == disk[3 + NumNames + i].kind = "torn"

\* What NewCatalog reads as it was written.
Readable == Acceptable /\ \A i \in 1 .. NumRecords : ~IsTorn(i)

\* The index sort.Search finds in a list sorted by CRC, if its record is the
\* one looked for.
Found(list, c) == {i \in DOMAIN list :
    list[i].Crc = c /\ \A j \in 1 .. i - 1 : list[j].Crc < c}

Paths(list) == {list[i].Crc : i \in DOMAIN list}

\* What Search returns for every CRC it finds.
Contents(list) ==
    [c \in Paths(list) |->
        {ValueOf(list[i]) : i \in Found(list, c)}]

Pairs(list) == {<<list[i].Crc, ValueOf(list[i])>> : i \in DOMAIN list}

Nothing == [c \in {} |-> {}]
NoFlush == [paths |-> {}, values |-> {}]

Forget == /\ dirty' = FALSE /\ packNames' = << >> /\ records' = << >>
          /\ order' = << >> /\ added' = << >> /\ given' = << >>

Init ==
    /\ disk \in ForeignFiles
    /\ pc = "closed"
    /\ dirty = FALSE /\ packNames = << >> /\ records = << >>
    /\ order = << >> /\ added = << >> /\ given = << >>
    /\ stored = Nothing
    /\ begun = NoFlush
    /\ health = "whole"

-----------------------------------------------------------------------------
(* Opening.                                                                *)

Empty == <<Version, Count(0), Count(0)>>

\* init: an empty catalog is written to an empty file.
Create ==
    /\ pc = "closed" /\ disk = << >>
    /\ disk' = Empty
    /\ pc' = "open"
    /\ UNCHANGED <<catalog, locals, past>>

CreateFails ==
    /\ "write" \in Faults
    /\ pc = "closed" /\ disk = << >>
    /\ \E n \in 0 .. Len(Empty) - 1, part \in {<< >>, <<Garbled>>} :
          disk' = SubSeq(Empty, 1, n) \o part
    /\ UNCHANGED <<pc, catalog, locals, past>>

Open ==
    /\ pc = "closed" /\ Readable
    /\ pc' = "open"
    /\ packNames' = DiskNames /\ records' = DiskRecords
    /\ stored' = IF health = "torn" THEN Contents(DiskRecords) ELSE stored
    /\ begun' = NoFlush
    /\ health' = IF health = "torn" THEN "lost" ELSE health
    /\ UNCHANGED <<disk, dirty, locals>>

\* Another version, the end of the file before the end of the records, or a
\* record that names a pack which is not there.
OpenRefused ==
    /\ pc = "closed" /\ disk # << >> /\ ~Readable
    /\ UNCHANGED vars

\* A file with a half written record, or one that is read at the wrong
\* places: what the program makes of it is outside the model.
OpenGarbled ==
    /\ pc = "closed" /\ ~Readable
    /\ Acceptable \/ Contains(disk, Garbled)
    /\ pc' = "garbled"
    /\ UNCHANGED <<disk, catalog, locals, past>>

-----------------------------------------------------------------------------
(* Store.  Its loops run over a map from pack names to lists of entries:   *)
(* the names in any order, and each of them once.                          *)

\* Mutant: a pack name is used as it is given.
AsGiven(key) == key

CleanName(key) == Cleaned[key]

BeginStore ==
    /\ pc = "open"
    /\ pc' = "store"
    /\ dirty' = TRUE
    /\ UNCHANGED <<disk, packNames, records, locals, past>>

StoreName(key) ==
    /\ pc = "store" /\ ~Contains(order, key)
    /\ order' = Append(order, key)
    /\ packNames' = IF Contains(packNames, Cleaned[key]) THEN packNames
                    ELSE Append(packNames, Cleaned[key])
    /\ UNCHANGED <<disk, pc, dirty, records, added, given, past>>

NewRecord(c, flag) ==
    [Crc |-> c, node |-> <<0, 0>>, IsCompressed |-> flag,
     PackName |-> CleanName(order[Len(order)])]

\* update looks in the list of the catalog only, which gets the new records
\* when the loops have ended.
StoreEntry(c, flag) ==
    LET r == NewRecord(c, flag)
    IN  /\ pc = "store" /\ order # << >>
        /\ IF Found(records, c) # {}
           THEN /\ records' = [i \in DOMAIN records |->
                                  IF i \in Found(records, c) THEN r ELSE records[i]]
                /\ UNCHANGED added
           ELSE /\ Len(records) + Len(added) < MaxRecords
                /\ added' = Append(added, r)
                /\ UNCHANGED records
        /\ Len(given) < MaxEntries
        /\ given' = Append(given, r)
        /\ UNCHANGED <<disk, pc, dirty, packNames, order, past>>

\* Mutant: the list is not sorted.
BeforeAsListed(list, i, j) == i < j

\* Mutant: the list is sorted by pack first.
BeforeByPack(list, i, j) ==
    LET p == CHOOSE k \in DOMAIN packNames : packNames[k] = list[i].PackName
        q == CHOOSE k \in DOMAIN packNames : packNames[k] = list[j].PackName
    IN  \/ p < q
        \/ p = q /\ list[i].Crc < list[j].Crc
        \/ p = q /\ list[i].Crc = list[j].Crc /\ i < j

\* slices.SortFunc keeps equal CRCs in order only while it sorts by insertion.
Before(list, i, j) ==
    \/ list[i].Crc < list[j].Crc
    \/ list[i].Crc = list[j].Crc /\ (Len(list) <= InsertionLimit => i < j)

Orders(list) == {p \in Bijection(DOMAIN list, DOMAIN list) :
    \A k, l \in DOMAIN list : k < l => Before(list, p[k], p[l])}
SortedBy(list, p) == [k \in DOMAIN list |-> list[p[k]]]

\* binarytree.UpdateIndices
UpdateIndices(list) ==
    [i \in DOMAIN list |-> [list[i] EXCEPT !.node = <<i, Len(list)>>]]

\* Mutant: the indices are filled in before the list is sorted.
IndexedFirst(list, p) == SortedBy(UpdateIndices(list), p)

Ordered(list, p) == UpdateIndices(SortedBy(list, p))

EndStore ==
    /\ pc = "store"
    /\ pc' = "open"
    /\ \E p \in Orders(records \o added) : records' = Ordered(records \o added, p)
    /\ order' = << >> /\ added' = << >> /\ given' = << >>
    /\ stored' = [c \in DOMAIN stored \cup Paths(given) |->
                    IF c \in Paths(given) THEN {v \in Value : <<c, v>> \in Pairs(given)}
                    ELSE stored[c]]
    /\ UNCHANGED <<disk, dirty, packNames, begun, health>>

-----------------------------------------------------------------------------
(* Flush and Close.  Close is Flush and then forgets the catalog, whatever *)
(* Flush returned.                                                         *)

Stays  == pc' = "open" /\ UNCHANGED <<packNames, records, locals>>
Closes == pc' = "closed" /\ Forget

FlushClean ==
    /\ pc = "open" /\ ~dirty
    /\ UNCHANGED <<disk, past>>
    /\ \/ Stays /\ UNCHANGED dirty
       \/ Closes

\* Mutant: only the names of packs that hold a record are written.
UsedNames == SelectSeq(packNames, LAMBDA s : \E i \in DOMAIN records : records[i].PackName = s)

WrittenNames == packNames

\* The index that is written for the pack of a record.
PlaceOf(r) == CHOOSE i \in DOMAIN WrittenNames : WrittenNames[i] = r.PackName

Block ==
    <<Version, Count(Len(WrittenNames))>>
    \o [i \in DOMAIN WrittenNames |-> Name(WrittenNames[i])]
    \o <<Count(Len(records))>>
    \o [i \in DOMAIN records |-> Entry(records[i], PlaceOf(records[i]))]

\* writeRecord fails for a record whose pack has no name.
Nameless == {i \in DOMAIN records : ~Contains(packNames, records[i].PackName)}

\* n cells of the block are written.  When there are more names than in the
\* file, the bytes behind them are not where they are looked for.
Reached(n) == IF n < Len(disk) THEN Len(disk) ELSE n
Overwritten(n) == [i \in 1 .. Reached(n) |->
    IF i <= n THEN Block[i]
    ELSE IF n < 2 \/ disk[2] = Block[2] THEN disk[i]
    ELSE Garbled]

\* And a part of the one behind them, over other bytes.
Half(cell) == IF cell.kind = "record" THEN Torn(cell) ELSE Garbled
Changes(n) == n < Len(disk) => Overwritten(n)[n + 1] # Block[n + 1]
Cut(n) == [i \in 1 .. Reached(n + 1) |->
    IF i = n + 1 THEN Half(Block[i]) ELSE Overwritten(n)[i]]

Flush ==
    /\ pc = "open" /\ dirty /\ Nameless = {}
    /\ disk' = Overwritten(Len(Block))
    /\ begun' = NoFlush
    /\ health' = IF health = "torn" THEN "whole" ELSE health
    /\ UNCHANGED stored
    /\ \/ Stays /\ dirty' = FALSE
       \/ Closes

\* Mutant: the catalog is clean before it is written.
CleanFirst == dirty' = FALSE

StillDirty == UNCHANGED dirty

\* A record has no pack, or a write fails, between two cells or inside one:
\* the catalog stays dirty.
FlushFails ==
    /\ pc = "open" /\ dirty
    /\ IF Nameless # {}
       THEN disk' = Overwritten(Len(Block) - Len(records) + Min(Nameless) - 1)
       ELSE /\ "write" \in Faults
            /\ \E n \in 0 .. Len(Block) - 1 :
                  \/ disk' = Overwritten(n)
                  \/ Changes(n) /\ disk' = Cut(n)
    /\ begun' = IF health = "torn" THEN [begun EXCEPT !.values = @ \cup Pairs(records)]
                ELSE [paths  |-> Paths(DiskRecords),
                      values |-> Pairs(DiskRecords) \cup Pairs(records)]
    /\ health' = "torn"
    /\ UNCHANGED stored
    /\ \/ Stays /\ StillDirty
       \/ Closes

\* The process ends; what was stored since the last Flush is not promised.
Crash ==
    /\ "crash" \in Faults
    /\ pc \in {"open", "store"}
    /\ Closes
    /\ stored' = IF health = "torn" THEN stored ELSE Contents(DiskRecords)
    /\ UNCHANGED <<disk, begun, health>>

\* A catalog that was read at the wrong places is given up.
Abandon ==
    /\ pc = "garbled"
    /\ Closes
    /\ UNCHANGED <<disk, past>>

Next ==
    \/ Create \/ CreateFails \/ Open \/ OpenRefused \/ OpenGarbled
    \/ BeginStore
    \/ \E key \in Keys : StoreName(key)
    \/ \E c \in Crcs, flag \in Flags : StoreEntry(c, flag)
    \/ EndStore
    \/ FlushClean \/ Flush \/ FlushFails
    \/ Crash \/ Abandon

Spec == Init /\ [][Next]_vars

-----------------------------------------------------------------------------
(* Properties.                                                             *)

Record == [Crc : Crcs, node : Nat \X Nat, IsCompressed : BOOLEAN,
           PackName : {Cleaned[k] : k \in Keys}]

Cell == [kind : {"version", "count"}, value : Nat]
        \cup [kind : {"name"}, value : {Cleaned[k] : k \in Keys}]
        \cup [kind : {"record", "torn"}, Crc : Crcs, node : Nat \X Nat, pack : Nat,
              IsCompressed : BOOLEAN]
        \cup {Garbled}

\* The list has never been long enough for its records of a path to change
\* places, or it has one record of the path.
Settled(list, c) ==
    \/ Len(list) <= InsertionLimit
    \/ \A i, j \in DOMAIN list : list[i].Crc = c /\ list[j].Crc = c => i = j

Serves(list, contents) ==
    /\ Paths(list) = DOMAIN contents
    /\ \A c \in DOMAIN contents :
          /\ Contents(list)[c] # {}
          /\ Settled(list, c) => Contents(list)[c] \subseteq contents[c]

\* Search finds each path that was stored and no other, after any Stores,
\* Flushes and openings, with the pack and the compression it was last stored
\* with; if the last Store named the path several times, with one of them.
\* A path that a Store has named several times while it was new has several
\* records: in a list longer than InsertionLimit an older one may be found.
SearchFindsStored == pc = "open" => Serves(records, stored)

\* Every record's pack is in the list of names, which has each name once: so
\* Flush does not stop at a record, with the head of the file overwritten.
RecordsNamed ==
    /\ \A i, j \in DOMAIN packNames : i # j => packNames[i] # packNames[j]
    /\ \A i \in DOMAIN records : Contains(packNames, records[i].PackName)

\* A catalog that is clean is in its file, and so is one that was closed
\* with no Flush left unfinished; it can be opened again.
Durable == ~dirty /\ (pc = "open" \/ health = "whole") /\ DOMAIN stored # {} =>
    Readable /\ Serves(DiskRecords, stored)

\* Flush need not truncate: the file ends with the last record.
NothingBehind == pc = "open" /\ ~dirty => Len(disk) = 3 + NumNames + NumRecords

\* The tree indices fit the list, however it has been changed and sorted.
NodesFit == pc = "open" => \A i \in DOMAIN records : records[i].node = <<i, Len(records)>>

\* What an unfinished Flush leaves behind, unless it stopped inside a number
\* or a name, or new pack names have shifted the file: every record that is
\* not itself written in part is the one that was in the file, or the one that
\* was in memory, and of the paths that were saved none is missing but that of
\* such a record.
OldOrNew == health = "torn" /\ Acceptable =>
    /\ \A i \in 1 .. NumRecords :
          ~IsTorn(i) => <<DiskRecords[i].Crc, ValueOf(DiskRecords[i])>> \in begun.values
    /\ begun.paths \subseteq Paths(DiskRecords)

\* A path that was stored in several packs ends up in one of them.
OnePackPerPath == pc = "open" =>
    \A i, j \in DOMAIN records :
        records[i].Crc = records[j].Crc => records[i].PackName = records[j].PackName

\* The shape of every variable.
TypeOK ==
    /\ disk \in ForeignFiles \cup Seq(Cell)
    /\ pc \in {"closed", "open", "store", "garbled"}
    /\ dirty \in BOOLEAN
    /\ packNames \in Seq({Cleaned[k] : k \in Keys})
    /\ records \in Seq(Record) /\ added \in Seq(Record)
    /\ order \in Seq(Keys)
    /\ given \in Seq(Record)
    /\ \A c \in DOMAIN stored : c \in Crcs /\ stored[c] \subseteq Value
    /\ health \in {"whole", "torn", "lost"}
=============================================================================
