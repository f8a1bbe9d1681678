-------------------------------- MODULE Pack --------------------------------
(***************************************************************************)
(* archive/pack.go: a .pk file and the Pack object that reads and edits it.*)
(*                                                                         *)
(*   signature | data divider | data divider | ... | listing | trailer     *)
(*                                                                         *)
(* The listing (a count and one entry per record, sorted by CRC) starts at *)
(* numRecordsPointer; the trailer is that pointer and the revision.  Store *)
(* writes over the listing, Flush writes it again behind the data.         *)
(*                                                                         *)
(* The file is a function from positions to cells.  Every field the code   *)
(* writes with one call is one cell, and a record's data is one cell per   *)
(* unit of its size, so partial writes and overlapping copies are visible. *)
(* A path is represented by its CRC (GetCrc): the code never looks at the  *)
(* path again.                                                             *)
(***************************************************************************)
EXTENDS Integers, Sequences, FiniteSets, SequencesExt

CONSTANTS
    Crcs,               \* checksums of the paths that are stored
    Contents,           \* the file contents that are stored
    UncompressedSize,   \* Info.UncompressedSize of each content
    CompressedSize,     \* Info.CompressedSize of each content
    PointerSpan,        \* 2^32 in the code: pointers are uint32
    ForeignSizes,       \* sizes of the file found before the first call
    MaxRevision,        \* bound: a clean pack of this revision is not edited
    Faults              \* what the environment may do wrong

FaultKinds ==
    {"crash",       \* the process stops between two calls or inside one
     "reader",      \* the reader given to Store fails
     "write",       \* a write to the file, or to WriteTo's writer, fails
     "truncate",    \* Truncate, or a call between the listing and it, fails
     "reuse"}       \* NewPack is given a handle that stands at the file's end

ASSUME PackAssumption ==
    /\ Crcs \subseteq Nat
    /\ UncompressedSize \in [Contents -> Nat]
    /\ CompressedSize \in [Contents -> Nat]
    /\ PointerSpan \in Nat \ {0, 1}
    /\ ForeignSizes \subseteq Nat
    /\ MaxRevision \in Nat
    /\ Faults \subseteq FaultKinds

VARIABLES
    disk, size,         \* the file: its cells, at positions 0 .. size-1
    pc,                 \* what the Pack is doing
    dirty, records, numRecordsPointer, revision,    \* fields of Pack
    index, pos, pending,    \* locals of the loops of updateRecord and WriteTo
    result,             \* whether the last call was a Flush, or failed
    stored,             \* history: what each CRC was last stored as
    saved,              \* history: the last revision that was flushed
    health              \* history: whether a call failed or unsaved work was lost

file   == <<disk, size>>
pack   == <<dirty, records, numRecordsPointer, revision>>
locals == <<index, pos, pending>>
past   == <<stored, saved, health>>
vars   == <<file, pc, pack, locals, result, past>>

-----------------------------------------------------------------------------
(* Records, cells and blocks of cells.                                     *)

Version == [content : Contents, compressed : BOOLEAN]

DataSize(r) == IF r.compressed THEN CompressedSize[r.content]
                               ELSE UncompressedSize[r.content]

Hole        == [kind |-> "hole"]        \* bytes no Pack has written
Signature   == [kind |-> "signature"]
Divider     == [kind |-> "divider"]
Byte(r, k)  == [kind |-> "byte", content |-> r.content,
                compressed |-> r.compressed, at |-> k]
Count(n)    == [kind |-> "count", value |-> n]
Entry(r)    == [kind |-> "entry", record |-> r]
Pointer(p)  == [kind |-> "pointer", value |-> p]
Revision(n) == [kind |-> "revision", value |-> n]

\* Mutant: the indices are left as they are.
IndicesKept(list) == list

\* UpdateIndices fills LowerIndex and UpperIndex from the position of the
\* record and the length of the list alone (module BinaryTree): that pair
\* stands for both.
UpdateIndices(list) ==
    [i \in DOMAIN list |-> [list[i] EXCEPT !.node = <<i, Len(list)>>]]

\* Mutant: pointers are signed.
I32(n) == ((n + PointerSpan \div 2) % PointerSpan) - (PointerSpan \div 2)

U32(n) == IF n \in 0 .. PointerSpan - 1 THEN n ELSE n % PointerSpan

\* The file after n cells of block are written at position at, when it is
\* end cells long.
Patched(at, n, block, end) ==
    [k \in 0 .. end - 1 |->
        IF at <= k /\ k < at + n THEN block[k - at]
        ELSE IF k < size THEN disk[k] ELSE Hole]

Larger(a, b) == IF a >= b THEN a ELSE b

Write(at, n, block) ==
    /\ size' = Larger(size, at + n)
    /\ disk' = Patched(at, n, block, Larger(size, at + n))

\* What a section reader over the record's data yields: it stops without an
\* error at the end of the file.
Available(r) == IF r.dataPointer + DataSize(r) <= size THEN DataSize(r)
                ELSE IF r.dataPointer < size THEN size - r.dataPointer ELSE 0

\* The blocks of a new version of r, of the bytes r has in the file, and of
\* a list of records with the trailer behind it.
Fresh(r)  == [k \in 0 .. DataSize(r) |->
                IF k < DataSize(r) THEN Byte(r, k) ELSE Divider]
Copied(r) == [k \in 0 .. Available(r) |->
                IF k < Available(r) THEN disk[r.dataPointer + k] ELSE Divider]
Listing(list, pointer, rev) ==
    [k \in 0 .. Len(list) + 2 |->
        IF k = 0 THEN Count(Len(list))
        ELSE IF k <= Len(list) THEN Entry(list[k])
        ELSE IF k = Len(list) + 1 THEN Pointer(pointer) ELSE Revision(rev)]

\* A list can be read at p: a count and that many entries are there.
ListAt(p) ==
    /\ p < size
    /\ disk[p].kind = "count"
    /\ p + disk[p].value < size
    /\ \A i \in 1 .. disk[p].value : disk[p + i].kind = "entry"
DiskList(p) == [i \in 1 .. disk[p].value |-> disk[p + i].record]

TrailerAt(end) ==
    /\ end >= 2
    /\ disk[end - 2].kind = "pointer"
    /\ disk[end - 1].kind = "revision"

-----------------------------------------------------------------------------
\* Mutant: the new record is appended.
IsLast(list, c, i) == i = Len(list) + 1

\* The index sort.Search finds in a list sorted by CRC.
IsSlot(list, c, i) ==
    /\ i \in 1 .. Len(list) + 1
    /\ \A j \in 1 .. i - 1 : list[j].crc < c
    /\ \A j \in i .. Len(list) : list[j].crc >= c

\* ReadRecords: the list in memory of a dirty pack, the one in the file of a
\* clean one.
Readable == dirty \/ ListAt(numRecordsPointer)
List     == IF dirty THEN records ELSE DiskList(numRecordsPointer)

\* Records, Search, Flush and WriteTo keep a list that is not empty.
Cached == IF records = << >> THEN List ELSE records

\* A call that fails, a crash with unsaved work and a pointer that wraps
\* hurt the pack; the history stays "hurt" until the file is opened again or
\* its listing is lost.
intact == health = "intact"
HurtUnless(b) == health' = IF intact /\ ~b THEN "hurt" ELSE health

Put(f, c, v) == [x \in DOMAIN f \cup {c} |-> IF x = c THEN v ELSE f[x]]
Drop(f, c)   == [x \in DOMAIN f \ {c} |-> f[x]]
Nothing      == [x \in {} |-> x]

Forget == /\ dirty' = FALSE /\ records' = << >>
          /\ numRecordsPointer' = 0 /\ revision' = 0
          /\ index' = 0 /\ pos' = 0 /\ pending' = {}

Init ==
    /\ size \in ForeignSizes
    /\ disk = [k \in 0 .. size - 1 |-> Hole]
    /\ pc = "closed"
    /\ dirty = FALSE /\ records = << >>
    /\ numRecordsPointer = 0 /\ revision = 0
    /\ index = 0 /\ pos = 0 /\ pending = {}
    /\ result = "none"
    /\ stored = Nothing
    /\ saved = [revision |-> -1, contents |-> Nothing]
    /\ health = "intact"

-----------------------------------------------------------------------------
(* Opening.                                                                *)

\* NewPack reads the signature where the handle stands: at the start of a
\* file just opened, at the end of one the handle has written.
Handles == IF "reuse" \in Faults THEN {0, size} ELSE {0}

\* init: the read hit the end of the file.
Create(from) ==
    /\ pc = "closed" /\ from >= size
    /\ Write(0, 1, [k \in {0} |-> Signature])
    /\ pc' = "idle"
    /\ dirty' = TRUE /\ numRecordsPointer' = 1
    /\ result' = "none"
    /\ HurtUnless(saved.revision < 0)
    /\ UNCHANGED <<records, revision, locals, stored, saved>>

\* readHeader: the trailer of a file that starts with the signature.
Open(from) ==
    /\ pc = "closed" /\ from < size
    /\ disk[from] = Signature
    /\ TrailerAt(size)
    /\ pc' = "idle"
    /\ numRecordsPointer' = disk[size - 2].value
    /\ revision' = disk[size - 1].value
    /\ result' = "none"
    /\ health' = IF intact THEN health ELSE "lost"
    /\ UNCHANGED <<file, dirty, records, locals, stored, saved>>

\* Another signature, or too few bytes for a trailer.
OpenRefused(from) ==
    /\ pc = "closed" /\ from < size
    /\ disk[from] # Signature \/ size < 2
    /\ result' = "none"
    /\ UNCHANGED <<file, pc, pack, locals, past>>

\* The bytes where a trailer or a list should be are others: what the
\* program does with them is outside the model.
Garble == pc' = "garbled" /\ Forget /\ result' = "none" /\ UNCHANGED <<file, past>>

GarbledTrailer(from) ==
    /\ pc = "closed" /\ from < size
    /\ disk[from] = Signature /\ size >= 2 /\ ~TrailerAt(size)
    /\ Garble

GarbledList == pc = "idle" /\ ~Readable /\ Garble

NewPack == \E from \in Handles :
    Create(from) \/ Open(from) \/ OpenRefused(from) \/ GarbledTrailer(from)

-----------------------------------------------------------------------------
(* Reading the list.                                                       *)

\* Records and Search read the list of a pack that holds none.
Records ==
    /\ pc = "idle" /\ Readable
    /\ records' = Cached
    /\ result' = "none"
    /\ UNCHANGED <<file, pc, dirty, numRecordsPointer, revision, locals, past>>

ReadRecords ==
    /\ pc = "idle" /\ Readable
    /\ records' = List
    /\ result' = "none"
    /\ UNCHANGED <<file, pc, dirty, numRecordsPointer, revision, locals, past>>

-----------------------------------------------------------------------------
(* Store.                                                                  *)

\* Mutant: an edited pack keeps its revision.
BeginStoreAsIs ==
    /\ pc = "idle" /\ Readable
    /\ dirty' = TRUE
    /\ revision' = revision

\* The list is read, then the pack marked dirty.
BeginStore ==
    /\ pc = "idle" /\ Readable
    /\ dirty \/ revision < MaxRevision
    /\ dirty' = TRUE
    /\ revision' = IF dirty THEN revision ELSE revision + 1

NewRecord(c, v) ==
    [crc |-> c, content |-> v.content, compressed |-> v.compressed,
     dataPointer |-> numRecordsPointer, node |-> <<0, 0>>]

\* A path that is not listed gets a record at its place in the CRC order.
BeginInsert(c, v) ==
    /\ BeginStore
    /\ \A j \in DOMAIN List : List[j].crc # c
    /\ \E i \in 1 .. Len(List) + 1 :
          /\ IsSlot(List, c, i)
          /\ records' = UpdateIndices(InsertAt(List, i, NewRecord(c, v)))

\* The data and the divider are written over the old listing.
Insert(c, v) ==
    LET r   == NewRecord(c, v)
        end == numRecordsPointer + DataSize(r) + 1
    IN  /\ BeginInsert(c, v)
        /\ Write(numRecordsPointer, DataSize(r) + 1, Fresh(r))
        /\ numRecordsPointer' = U32(end)
        /\ result' = "none"
        /\ stored' = Put(stored, c, v)
        /\ HurtUnless(end < PointerSpan)
        /\ UNCHANGED <<pc, locals, saved>>

\* The copy fails after n bytes: the record stays listed, numRecordsPointer
\* stays.
InsertFails(c, v) ==
    /\ Faults \cap {"reader", "write"} # {}
    /\ BeginInsert(c, v)
    /\ \E n \in 0 .. DataSize(v) :
          Write(numRecordsPointer, n, Fresh(v))
    /\ result' = "failed"
    /\ stored' = Drop(stored, c) /\ HurtUnless(FALSE)
    /\ UNCHANGED <<pc, numRecordsPointer, locals, saved>>

\* The divider fails: numRecordsPointer has moved behind the data.
InsertUndivided(c, v) ==
    /\ "write" \in Faults
    /\ BeginInsert(c, v)
    /\ Write(numRecordsPointer, DataSize(v), Fresh(v))
    /\ numRecordsPointer' = U32(numRecordsPointer + DataSize(v))
    /\ result' = "failed"
    /\ stored' = Drop(stored, c) /\ HurtUnless(FALSE)
    /\ UNCHANGED <<pc, locals, saved>>

\* Mutant: the list is not sorted by data pointer.
BeforeByCrc(list, i, j) == i <= j

\* i is before j once the list is sorted by data pointer.  slices.SortFunc
\* sorts up to 12 elements by insertion, which leaves equal ones as they are
\* listed; it does not promise so for longer lists.
Before(list, i, j) ==
    \/ list[i].dataPointer < list[j].dataPointer
    \/ /\ list[i].dataPointer = list[j].dataPointer
       /\ Len(list) <= 12 => i <= j

\* updateRecord: the record takes the new Info, and every record behind it
\* in the file is to move up.  When several records have the target's data
\* pointer, the search finds the first, and leaves that one in place.
BeginUpdate(c, v) ==
    /\ BeginStore
    /\ \E t \in DOMAIN List :
          /\ List[t].crc = c
          /\ index' = t
          /\ pos' = List[t].dataPointer
          /\ \E found \in DOMAIN List :
                /\ List[found].dataPointer = List[t].dataPointer
                /\ \A j \in DOMAIN List : List[j].dataPointer = pos' => Before(List, found, j)
                /\ pending' = {j \in DOMAIN List : Before(List, found, j)} \ {found}
          /\ records' = [List EXCEPT ![t].content = v.content,
                                     ![t].compressed = v.compressed]
    /\ pc' = "update"
    /\ result' = "none"
    /\ stored' = Drop(stored, c)
    /\ UNCHANGED <<file, numRecordsPointer, saved, health>>

\* Both loops take the records in that order.
IsNext(i) == i \in pending /\ \A j \in pending : Before(records, i, j)

\* One turn of the loop of updateRecord.
Shift ==
    /\ pc = "update"
    /\ \E i \in pending :
          /\ IsNext(i)
          /\ Write(pos, Available(records[i]) + 1, Copied(records[i]))
          /\ records' = [records EXCEPT ![i].dataPointer = U32(pos)]
          /\ pos' = pos + Available(records[i]) + 1
          /\ pending' = pending \ {i}
    /\ UNCHANGED <<pc, dirty, numRecordsPointer, revision, index, result, past>>

EndUpdate == pc' = "idle" /\ index' = 0 /\ pos' = 0 /\ pending' = {}

ShiftFails ==
    /\ "write" \in Faults
    /\ pc = "update"
    /\ \E i \in pending :
          /\ IsNext(i)
          /\ \E n \in 0 .. Available(records[i]) :
                Write(pos, n, Copied(records[i]))
    /\ records' = UpdateIndices(records)
    /\ EndUpdate
    /\ result' = "failed"
    /\ HurtUnless(FALSE)
    /\ UNCHANGED <<dirty, numRecordsPointer, revision, stored, saved>>

\* Mutant: the updated record keeps its pointer.
NotMoved == records

\* The new data goes behind the last record moved.
Moved == [records EXCEPT ![index].dataPointer = U32(pos)]

Replace ==
    LET r   == records[index]
        end == pos + DataSize(r) + 1
    IN  /\ pc = "update" /\ pending = {}
        /\ records' = UpdateIndices(Moved)
        /\ Write(pos, DataSize(r) + 1, Fresh(r))
        /\ numRecordsPointer' = U32(end)
        /\ EndUpdate
        /\ result' = "none"
        /\ stored' = Put(stored, r.crc, [content |-> r.content, compressed |-> r.compressed])
        /\ HurtUnless(end < PointerSpan)
        /\ UNCHANGED <<dirty, revision, saved>>

\* The copy fails after n bytes, or the divider does: numRecordsPointer is
\* not assigned.
ReplaceFails ==
    /\ Faults \cap {"reader", "write"} # {}
    /\ pc = "update" /\ pending = {}
    /\ records' = UpdateIndices(Moved)
    /\ \E n \in 0 .. DataSize(records[index]) :
          Write(pos, n, Fresh(records[index]))
    /\ EndUpdate
    /\ result' = "failed"
    /\ HurtUnless(FALSE)
    /\ UNCHANGED <<dirty, numRecordsPointer, revision, stored, saved>>

-----------------------------------------------------------------------------
(* Flush and Close.  Close is Flush and then forgets the pack, whatever    *)
(* Flush returned.                                                         *)

Stays  == pc' = "idle" /\ UNCHANGED <<records, numRecordsPointer, revision, locals>>
Closes == pc' = "closed" /\ Forget

FlushClean ==
    /\ pc = "idle" /\ ~dirty
    /\ result' = "flushed"
    /\ UNCHANGED <<file, past>>
    /\ \/ Stays /\ UNCHANGED dirty
       \/ Closes

\* Mutant: the file is not truncated.
Untruncated == Larger(size, numRecordsPointer + Len(records) + 3)

ListingOfPack == Listing(records, numRecordsPointer, revision)
ListingSize   == Len(records) + 3
ListingEnd    == numRecordsPointer + ListingSize

\* Everything is written, and what is left behind the trailer is cut off.
Flush ==
    /\ pc = "idle" /\ dirty
    /\ size' = ListingEnd
    /\ disk' = Patched(numRecordsPointer, ListingSize, ListingOfPack, ListingEnd)
    /\ result' = "flushed"
    /\ saved' = [revision |-> revision, contents |-> stored]
    /\ UNCHANGED <<stored, health>>
    /\ \/ Stays /\ dirty' = FALSE
       \/ Closes

\* A write fails after n cells: the pack stays dirty.
FlushFails ==
    /\ "write" \in Faults
    /\ pc = "idle" /\ dirty
    /\ \E n \in 0 .. ListingSize - 1 :
          Write(numRecordsPointer, n, ListingOfPack)
    /\ result' = "failed"
    /\ UNCHANGED <<stored, saved>>
    /\ \/ Stays /\ UNCHANGED <<dirty, health>>
       \/ Closes /\ HurtUnless(FALSE)

\* Seek, Stat or Truncate fails behind the listing, the last one where there
\* is something to cut off: the pack is no longer dirty.
TruncateFails ==
    /\ "truncate" \in Faults
    /\ pc = "idle" /\ dirty
    /\ Write(numRecordsPointer, ListingSize, ListingOfPack)
    /\ result' = "failed"
    /\ HurtUnless(FALSE)
    /\ UNCHANGED <<stored, saved>>
    /\ \/ Stays /\ dirty' = FALSE
       \/ Closes

-----------------------------------------------------------------------------
(* WriteTo: the records are copied to a writer in the order of their data  *)
(* pointers, and listed with the pointers they have in this file.          *)

BeginCopy ==
    /\ pc = "idle" /\ Readable
    /\ records' = Cached
    /\ pos' = 1
    /\ pending' = DOMAIN Cached
    /\ pc' = "copy"
    /\ result' = "none"
    /\ UNCHANGED <<file, dirty, numRecordsPointer, revision, index, past>>

CopyRecord ==
    /\ pc = "copy"
    /\ \E i \in pending :
          /\ IsNext(i)
          /\ pos' = pos + Available(records[i]) + 1
          /\ pending' = pending \ {i}
    /\ UNCHANGED <<file, pc, pack, index, result, past>>

\* The pointer of a flushed pack that a failure has hurt may come to lead
\* somewhere else than to its listing.
LoseIfMoved ==
    health' = IF ~intact /\ ~dirty /\ numRecordsPointer' # numRecordsPointer
              THEN "lost" ELSE health

\* flush(w, n) takes the length of the copy for the pack's own pointer.
EndCopy ==
    /\ pc = "copy" /\ pending = {}
    /\ numRecordsPointer' = U32(pos)
    /\ pc' = "idle" /\ pos' = 0
    /\ result' = "none"
    /\ LoseIfMoved
    /\ UNCHANGED <<file, dirty, records, revision, index, pending, stored, saved>>

\* The writer fails: the pointer is the pack's own still, unless the listing
\* was begun.
CopyFails ==
    /\ "write" \in Faults
    /\ pc = "copy"
    /\ numRecordsPointer' \in {numRecordsPointer} \cup IF pending = {} THEN {U32(pos)} ELSE {}
    /\ pc' = "idle" /\ pos' = 0 /\ pending' = {}
    /\ result' = "failed"
    /\ LoseIfMoved
    /\ UNCHANGED <<file, dirty, records, revision, index, stored, saved>>

-----------------------------------------------------------------------------
\* The process ends; what was stored since the last Flush is not promised.
Crash ==
    /\ "crash" \in Faults
    /\ pc # "closed"
    /\ Closes
    /\ result' = "none"
    /\ HurtUnless(~dirty)
    /\ UNCHANGED <<file, stored, saved>>

\* A garbled pack can only be given up.
Abandon ==
    /\ pc = "garbled"
    /\ Closes
    /\ result' = "none"
    /\ UNCHANGED <<file, past>>

Next ==
    \/ NewPack \/ GarbledList
    \/ Records \/ ReadRecords
    \/ \E c \in Crcs, v \in Version :
          \/ Insert(c, v) \/ InsertFails(c, v) \/ InsertUndivided(c, v)
          \/ BeginUpdate(c, v)
    \/ Shift \/ ShiftFails \/ Replace \/ ReplaceFails
    \/ FlushClean \/ Flush \/ FlushFails \/ TruncateFails
    \/ BeginCopy \/ CopyRecord \/ EndCopy \/ CopyFails
    \/ Crash \/ Abandon

Spec == Init /\ [][Next]_vars

-----------------------------------------------------------------------------
(* Properties.                                                             *)

Record == [crc : Crcs, content : Contents, compressed : BOOLEAN,
           dataPointer : Nat, node : Nat \X Nat]

Cell == [kind : {"hole", "signature", "divider"}]
        \cup [kind : {"byte"}, content : Contents, compressed : BOOLEAN, at : Nat]
        \cup [kind : {"count", "pointer", "revision"}, value : Nat]
        \cup [kind : {"entry"}, record : Record]

\* The shape of every variable; the cells of the file cover 0 .. size-1.
TypeOK ==
    /\ size \in Nat
    /\ DOMAIN disk = 0 .. size - 1
    /\ \A k \in DOMAIN disk : disk[k] \in Cell
    /\ pc \in {"closed", "idle", "update", "copy", "garbled"}
    /\ dirty \in BOOLEAN
    /\ records \in Seq(Record)
    /\ numRecordsPointer \in Nat /\ revision \in Nat
    /\ pos \in Nat /\ index \in Nat
    /\ pending \subseteq DOMAIN records
    /\ pc \in {"update", "copy"} \/ pending = {}
    /\ (pc = "update") => (index \in DOMAIN records)
    /\ result \in {"none", "failed", "flushed"}
    /\ DOMAIN stored \subseteq Crcs
    /\ \A c \in DOMAIN stored : stored[c] \in Version
    /\ saved.revision \in Int
    /\ health \in {"intact", "hurt", "lost"}

\* The bytes the record points at are the ones that were stored.
Good(r) ==
    /\ r.dataPointer + DataSize(r) <= size
    /\ \A k \in 0 .. DataSize(r) - 1 : disk[r.dataPointer + k] = Byte(r, k)

Serves(list, contents) == \A c \in DOMAIN contents :
    \E i \in DOMAIN list :
        /\ list[i].crc = c
        /\ list[i].content = contents[c].content
        /\ list[i].compressed = contents[c].compressed
        /\ Good(list[i])

Sorted(list) == \A i, j \in DOMAIN list : i < j => list[i].crc < list[j].crc

\* The list a call works on is strictly sorted by CRC, so that the binary
\* searches of Search and Store find the record of a path, and only one --
\* whatever calls failed, until another process opens the damaged file, or
\* WriteTo leaves the pointer of a damaged pack where no listing belongs.
SortedByCrc == health # "lost" =>
    /\ Sorted(records)
    /\ pc = "idle" /\ Readable => Sorted(List)

\* Every path that Store accepted is listed and its data reads back as it
\* was stored: no later Store of another path, no Flush and no WriteTo may
\* touch it.
StoredReadable ==
    /\ pc = "idle" => Readable /\ Serves(List, stored)
    /\ pc \in {"update", "copy"} => Serves(records, stored)

\* So it is as long as no call failed, and nothing else is listed.
SafeStored == intact =>
    /\ StoredReadable
    /\ pc = "idle" => \A i \in DOMAIN List : List[i].crc \in DOMAIN stored

\* The first call that fails, be it the reader, the write of the new data or
\* the flush, costs no other path its data; only a failure in the middle of
\* the loop of updateRecord may.
FailureSparesOthers ==
    [][intact /\ result' = "failed" /\ pending = {} => StoredReadable']_vars

Disjoint(r, s) ==
    \/ r.dataPointer + DataSize(r) < s.dataPointer
    \/ s.dataPointer + DataSize(s) < r.dataPointer

\* The blocks of the records are disjoint and lie between the signature and
\* the listing; in the loop of updateRecord, all but the target's.
SafeLayout == intact /\ pc \in {"idle", "update", "copy"} =>
    LET list == IF pc = "idle" THEN List ELSE records
        live == DOMAIN list \ (IF pc = "update" THEN {index} ELSE {})
    IN  /\ \A i \in live : /\ list[i].dataPointer >= 1
                           /\ list[i].dataPointer + DataSize(list[i]) < numRecordsPointer
        /\ \A i, j \in live : i # j => Disjoint(list[i], list[j])

\* The file alone, as another process would open it, serves contents.
FileServes(contents) ==
    /\ size >= 2
    /\ disk[0] = Signature
    /\ TrailerAt(size)
    /\ LET p == disk[size - 2].value
       IN  ListAt(p) /\ Serves(DiskList(p), contents)

\* A pack that is clean, or closed, is in its file: every stored path, with
\* the revision last flushed.
Durable == intact /\ ~dirty /\ DOMAIN stored # {} =>
    /\ FileServes(stored)
    /\ disk[size - 1].value = saved.revision

\* The tree indices of the list fit the list: nodes are never left over
\* from a shorter one, not even by a Store that fails.
IndicesCurrent == health # "lost" /\ pc = "idle" /\ Readable =>
    \A i \in DOMAIN List : List[i].node = <<i, Len(List)>>

\* WriteTo lists the records with the pointers they have in this file: each
\* must be copied to that very place, and the pointer that the pack takes
\* over from the copy must be its own.
CopyAligned == pc = "copy" /\ intact =>
    /\ \A i \in pending : IsNext(i) => records[i].dataPointer = pos
    /\ pending = {} => pos = numRecordsPointer

\* Two flushed states of one pack have the same revision only if they are
\* the same, and a later one never has a lower revision.
RevisionTellsVersions ==
    [][intact' /\ saved' # saved => saved'.revision > saved.revision]_vars

\* Flush and Close report success only when the file holds what was stored.
ReportedSaved == result = "flushed" /\ DOMAIN stored # {} => FileServes(stored)
=============================================================================
