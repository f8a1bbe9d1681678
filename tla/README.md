# Verification of GOverbuild

GOverbuild is a Go library for the file formats of LEGO Universe: pack files,
catalogs, manifests, databases, segmented compression and a text encoding.
This directory models the parts of it that keep state and can lose it, checks
the models with TLC and proves the most important facts with TLAPS.
Paths below are relative to `src/`.

1. [The system](#the-system)
2. [Plan](#plan)
3. [Modules and the code](#modules-and-the-code)
4. [Runs](#runs)
5. [Scheduling and fairness](#scheduling-and-fairness)
6. [Proofs](#proofs)
7. [Findings and observations](#findings-and-observations)
8. [What is not modelled](#what-is-not-modelled)

## The system

The library is called from one goroutine at a time: apart from two
`sync.Map`s (the quick-check cache, and the type cache of the text encoding)
nothing in it is locked, and the command line programs are sequential.  What
makes it hard is the files: they are edited in place, in several writes, by
calls that may fail in the middle, in processes that may end.

| component | state | operations | behaves badly when | correct when |
|---|---|---|---|---|
| **Pack** `archive/pack.go` | the `.pk` file; `dirty`, `records`, `numRecordsPointer`, `revision` | NewPack, OpenPack, Records, ReadRecords, Search, Store (insert or update), Flush, WriteTo, Close | an update moves data in place through one file; Store writes over the listing; a write, a reader or a truncation fails; pointers are 32 bits wide; a process ends before Flush | a stored path reads back as it was last stored; blocks never overlap; a clean pack is in its file; a revision names one version |
| **Tree indices** `archive/internal/binarytree` | none (two fields of every record) | UpdateIndices | positions in a slice, in the list and -1 are mixed | every record is reached, in a logarithmic number of steps |
| **Catalog** `archive/catalog.go` | the `.pki` file; `dirty`, `packNames`, `records` | NewCatalog, Store (several entries, in map order), Search, Flush, Close | Flush writes over the file and never truncates; entries of one call name a path twice; a write fails or the process ends in between | Search finds what was stored; a file is never silently half new; no record is without a pack name |
| **Archive** `archive/archive.go` | `root`, `closer`, the Catalog, the open Packs by lower-cased name | Open, New, Catalog, FindPack, Store, Load, Close | spellings name packs; the catalog is edited while packs are open; one pack of several fails to close | what was stored loads, now and in later sessions; one pack per file; one failure costs one pack |
| **Manifest** `archive/manifest` | a list and a map of entries | Read, Write, AddEntries, GetEntry | versions and duplicate keys | what is written is read |
| **Quick-check cache** `archive/cache` | a `sync.Map` by lower-cased path | Store, Load, Range, Read, Write, ReadFile, WriteFile | a write error is dropped; the file is truncated first | a file reported as written is complete |
| **Segmented compression** `compress/segmented` | the chunk being filled or read; whether the signature was written | Write, Close, BytesWritten, NewDataReader, Read | data ends at a chunk boundary; a write fails and is repeated; the stream is cut | the reader yields what was written, chunks are full, what is missing is told |
| **FDB builder** `database/fdb/builder.go`, `internal/deferredwriter` | the handle, `pos`, the queue of deferred values, the interned strings, the nested arrays | NewBuilder, Flush, Defer*, Put*, Array, DeferredArray | the handle and `pos` part; a pointer is set after its value was moved; rows come from a map | every pointer leads to its value; nothing written is overwritten |
| **FDB reader** `database/fdb/reader.go`, `hashtable.go`, `row.go`, `entry.go` | the tables; a cursor over buckets and lists | OpenReader, Rows, Next, Err, Find, FindString, Close | a read fails in the middle of an iteration; no buckets; negative keys | each row is seen once, Find finds the first row of its id, a lost row is reported |
| **gb-fdb** `cmd/gb-fdb` | the database and its transactions | toFdb, fromFdb, exclude tables | tables are dropped first; a statement is refused or the command stops; types do not map one to one | each table is there whole or not at all; an import exports as it was |
| **LDF text** `encoding/ldf` | the scanner and its current token | Next, Token, Decode, Encode | token values share the scanner's buffer; an error ends a decode half way | a decoded value is the token's |
| **Models** `models/` | none | struct declarations | | |
| **goverbuild** `cmd/goverbuild` | none | flags, printing, loops over the libraries | | |

How they interact: an Archive calls its Catalog (`Search`) to learn the pack of
a path, opens the Pack by name, keeps it by the lower case of that name, and
calls `Store` or `Search` on it; both Pack and Catalog call the tree indices
after every change of their lists.  The Archive hands its Catalog and its Packs
out to callers, who may edit and flush them behind its back.  Manifest, cache
and segmented compression share only the value `archive.Info`.  The builder
writes through the deferred writer, and the reader follows its pointers; gb-fdb
hands the rows of a database to the builder, and those of a reader to a
database.  All
shared state is in files and in the objects named above; there are no threads,
messages or timers.

The hazards of the code, each at its line, are listed in `PROJECT.json`.

## Plan

Most important first: what can lose a user's data is modelled first.

| step | modules | abstract specification | state |
|---|---|---|---|
| 1 | `Pack`, `PackInvariant`, `MCPack` | | done |
| 2 | `PackProofs`: type correctness, the inductive invariant, what follows from it | | done |
| 3 | `BinaryTree`, `BinaryTreeProofs` | search tree over a sorted list | done |
| 4 | `PackPromise`, `PackStore`, `PackRefinement`, the rest of `PackProofs` | `PackStore`: one file, one map, Flush makes it durable | done |
| 5 | `Catalog`, `MCCatalog`, `CatalogInvariant`, `CatalogProofs` | | done |
| 6 | `Archive` over `PackPromise`, `MCArchive`, `ArchiveInvariant`, `ArchiveProofs` | | done |
| 7 | `FdbFile`, `DeferredWriter`, `FdbRow`, `FdbBuilder`: the writing of a database file | | done |
| 8 | `FdbReader`, `RowSet`, `Fdb`: reading it | `RowSet`: a table is a bag of rows, an iteration gives each once | done |
| 9 | `FdbInvariant`, `FdbContent`, `FdbProofs`: every pointer leads to its value, and a file holds what was built; `FdbReading`, `FdbReadingProofs`: it reads back | | done |
| 10 | `GbFdb`, `MCGbFdb`, `GbFdbInvariant`, `GbFdbProofs`: a database, the library and a command between them | | done |
| 11 | `Segmented`, `SegmentedInvariant`, `SegmentedProofs` | the stream of bytes, as `ReadsBack` | done |

Every invariant and every action property that a passing run checks is proved;
what the plan leaves is liveness, which the provers do not reach.

The modules are written to be proved about: parameters are CONSTANTS with named
assumptions, every operation or loop turn is one action, invariants are
conjunctions of named parts, and recursion is by recursive functions.

## Modules and the code

### Pack

`Pack.tla` models one `.pk` file and the one `Pack` that may have it open.

* **The file** is `disk`, a function from positions `0 .. size-1` to cells.
  A cell is one field the code writes with one call (the signature, the
  divider, a count, a listed record, the trailer's pointer and its revision),
  or one unit of a record's data.  So a write that fails half way, a copy onto
  overlapping bytes and stale bytes behind the trailer are visible.  The listing
  is written by one `binary.Write` per field in the code; the model has one
  cell per record, and a failure may fall between any two cells.
* **Paths** are represented by their CRC: after `GetCrc` the code never looks
  at the path again.  The tree indices of a record are the pair of its position
  and the length of the list, which is all `UpdateIndices` looks at.
* **`pc`** is `closed`, `idle`, `update` (in the loop of `updateRecord`),
  `copy` (in the loop of `WriteTo`) or `garbled`: the file has been opened and
  the bytes read as a trailer or a list are others.  What the program makes of
  arbitrary bytes is not modelled; a garbled pack can only be given up.
* **Actions**: `Create`, `Open`, `OpenRefused`, `GarbledTrailer` are NewPack
  with `init` and `readHeader`; `Records` and `ReadRecords` are those methods
  (and Search); `Insert`, `InsertFails`, `InsertUndivided` and `BeginUpdate`,
  `Shift`, `Replace` with their failures are Store and updateRecord;
  `FlushClean`, `Flush`, `FlushFails`, `TruncateFails` are Flush, and Close
  when they end in `Closes`; `BeginCopy`, `CopyRecord`, `EndCopy`, `CopyFails`
  are WriteTo; `Crash` is the end of the process.  The loop of `updateRecord`
  is one action per turn because it may fail in every turn, and because the
  file in between is what a crash leaves.
* **Sorting**: `slices.SortFunc` keeps equal elements in order for lists of up
  to 12 elements (insertion sort) and does not promise it for longer ones;
  `Before` says exactly that.
* **History**: `stored` is what each path was last stored as, `saved` the
  revision and contents of the last Flush, `health` whether a call has failed
  or unsaved work was lost (`hurt`), or such a file was opened again or
  WriteTo has moved the pointer of such a pack while it was flushed (`lost`).
  They are in no guard of a call.

`BinaryTree.tla` models `updateNodeIndices` as a recursive function of the number
of nodes, whose values are functions of the position they start at, and the
search of a program that follows the indices as a little machine.  `Searching`
is its inductive invariant.

`PackPromise.tla` says what each call makes of a pack for a caller who does not
know the layout: the file is absent, broken or whole.  `PackStore.tla` is that
as a specification, and `PackRefinement.tla` maps the bytes and lists of `Pack`
to it.  `PackInvariant.tla` has the inductive invariant of `Pack`;
`PackProofs` proves its types, what a state keeps and what a step does.

### Catalog

`Catalog.tla` models one `.pki` file, a sequence of cells (version, count,
names, count, records), and the `Catalog` that has it open.  `Store` is
`BeginStore`, one `StoreName` per key of the map in any order, one `StoreEntry`
per entry, `EndStore`: the call takes a Go map, whose order is not determined.
The sort is any order by CRC that keeps equal CRCs as they are in a list of up
to `InsertionLimit` records (`Orders`): slices.SortFunc sorts up to twelve by
insertion, and longer ones by an unstable method.
`Flush` overwrites and never truncates (`Overwritten`); when it fails, or the
process ends in the middle, the rest of the old file stays behind the new
start.  A write may also stop inside a cell (`Cut`).  `readRecord` takes a
record that is there in part with whatever is behind it (catalog.go:100), a
`Torn` record that no one can tell from another; a number or a name that is half
old and half new is `Garbled`.  If the two files have different numbers of
names, the old bytes are not where fields begin: they are `Garbled` as well.
What is read from a garbled cell or a torn record is outside the model
(`OpenGarbled`, `Abandon`).  `ForeignAssumption`: a file that was there
before the first call is empty, ends after the version, or begins with
something else than the version; what another program may have written behind
a right version is no input of the model.  `CatalogInvariant.tla` has the
inductive invariant.

### Archive

`Archive.tla` composes the promises: `files` says for each pack file what
`PackPromise` says of it, `pki` is the catalog in its file, `catalog` the one in
memory, `packs` the open Packs by key.  `Key` is the lower case of the record's
pack name (archive.go:144), `At` the file it names (149).  `NotCataloged`,
`NotOpened`, `StoreRefused` and `OpenRefused` are the error returns, with the
file a failed `findPack` leaves behind; `EditCatalog`, `FlushCatalog` and
`FlushPack` are what callers do with what `Catalog` and `FindPack` hand them.
`Close` is `BeginClose`, one `ClosePack` or `ClosePackFails` per pack in any
order, `EndClose`.  `kept`, `hurt` and `edits` are history.  Simplifications:
callers only flush the Packs they are handed and do not store to them or close
them; the `Flush` of a caller does not fail (the one of Close may); names in the
catalog are clean paths, as `Catalog.Store` makes them.

### FDB

One Builder, one file and one Reader, with these modules:

* **`FdbFile`**: the file by byte offsets, each with the field that begins
  there: a word of 4 bytes, a long of 8, a text with its NUL and padding.  A
  write takes out every field it overlaps, whatever is left of it, so a write
  at a wrong place is seen.
* **`DeferredWriter`**: the methods of `Writer` as operators on `file`,
  `offset` (the handle), `pos` (the writer's own count), `strings`, `deferred`
  and `calls`, the stack of running `DeferredArray`s.  The code never compares
  handle and count; `Positioned` does.  `promised` (what a pointer was deferred
  for) and `owed` (what an array's element was) are history, and in no guard.
* **`FdbRow`**: entries, their widths and signs (`uint32`, `int` and Go's `%`
  as `Rem`), `Row.Id`, `bitCeil` (the smallest power of two that is not less,
  where the powers of two below the span are its divisors).  `Entries` are of
  the Go type of their variant.  `Sfhash` is the constant `Hash`.
* **`FdbBuilder`**: `Builder.Flush`.  The recursion of arrays in arrays is the
  stack `calls`; an element to be written is a job (a description, the rows of
  a table, a bucket, a row), and what a description or a row puts field by field
  waits in `todo`.  The map in `collectBuckets` gives any order of keys: the
  rows of a bucket are in the order of an `Orders`, which keeps that of rows
  with one key (`InOrder`).  `SortFunc` gives any order of tables of one name
  (`Sortings`).
* **`FdbReader`**: `TablesAt` reads what `init` reads; `StartRows` and
  `RowsNext` are `Rows`, one row a step, and `StartFind` and `FindStep` are
  `Find`.  `RowUnread`, `ListUnread` and `FindUnread` are reads that fail.  The
  wrapped error of line 158 and the comparison with `==` of line 185 are in
  `NoMore`: the error stays, behind a bucket that is nil.
* **`Fdb`** composes builder and reader.  Files are read when they are complete.
* **`RowSet`** is what an iteration promises; `IteratesAll` (its steps) and
  `IterationEnds` (its fairness) map `Fdb` to it, until a read fails, the file
  is replaced or the reader closed.
* **`FdbInvariant`**, **`FdbContent`** and **`FdbReading`** have the inductive
  invariants of the writer, of what a file holds, and of the reader.

### gb-fdb

`GbFdb` adds a database, a function from table names to columns and rows, which
changes only by committed transactions.  A cell is null, an integer, a real, a
text or a blob (`Cells`); the type of a column is one that `toVariant` knows or
another (`OtherTypes`).  `WriteFdb` is toFdb up to `Builder.Flush`, which then
runs step by step, for every exclude table of `Options`; `ReadFdb`, `DropTables`,
`CreateTable`, `InsertRow` and `Commit` are fromFdb.  `Refused` is an
error of its own: a table that cannot be created, a row that `rowValues` or
database/sql refuses (`Inserts`), an iteration that reports one.  `ImportStops` is
one from outside, at any step, or the end of the process.  `OtherProgram` builds
the files that gb-fdb reads and has not written.

`GbFdbInvariant` is the inductive invariant of library and command.

### Segmented

`Segmented` is one `DataWriter`, its stream, and one `DataReader` of that stream.
The stream is a sequence of tokens; zlib is external, and gives the bytes of a
chunk in pieces of any length, with the end together with the last or after it.
A level of `Write`'s recursion is `WriteChunk`.  A write to the stream may fail
with any part of it written; the caller may call again, as after any error.
`SegmentedInvariant.tla` has the inductive invariants of the writer and of the
reader.

## Runs

All runs check for deadlock, except `binary_tree`, whose search ends, and
`segmented`, where a writer that was closed and a stream that was read to its
end have nothing left to do.

| run | configuration | checks | result |
|---|---|---|---|
| `pack_edit` | `MCPackEdit` | `SafeStored`, `SafeLayout`, `CopyAligned`, `RevisionTellsVersions`, `Implements` | pass |
| `pack_faults` | `MCPackFaults` | `TypeOK`, `Durable`, `Safe`, `FailureSparesOthers` | pass |
| `pack_recover` | `MCPackRecover` | `SortedByCrc`, `IndicesCurrent` | pass |
| `binary_tree` | `MCBinaryTree` | `NeverLost`, `Logarithmic` | pass |
| `catalog` | `MCCatalog` | `TypeOK`, `SearchFindsStored`, `RecordsNamed`, `NodesFit`, `Durable`, `NothingBehind`, `OldOrNew` | pass |
| `archive` | `MCArchive` | `TypeOK`, `Safe`, `OnePackPerFile`, `LoadsStored`, `Durable`, `ReadingIsHarmless` | pass |
| `fdb` | `MCGbFdb` | `GbInvariant`, `PromisesKept`, `ReadsBack`, `FindFirst`, `EqualIdsInOrder`, `TablesWhole`, `ImportExports`, `IteratesAll`, `IterationEnds`, `CallsEnd` | pass |
| `segmented` | `MCSegmented` | `ReadsBack`, `TruncationTold`, `Framed`, `CallsEnd` | pass |
| `pack_retry` | `MCPackRetry` | `StoredReadable` | violated |
| `pack_truncate` | `MCPackTruncate` | `ReportedSaved` | violated |
| `catalog_twice` | `MCCatalogTwice` | `OnePackPerPath` | violated |
| `rows_error` | `MCRowsError` | `ReportsReads` | violated |

What they show, and why the bounds suffice:

* **pack_edit** has three paths, in every order of CRC, data pointer and time
  of storing.  The one content is two units long or one when compressed, so an
  update grows or shrinks its record, and the loop of `updateRecord` moves zero,
  one or two records by less, as much or more than their length, over their own
  bytes.  Three is the smallest number for which a record is moved over a third
  one's place.  Two revisions allow flush, edit, flush, reopening and editing
  again.  The one fault is a crash.  That `Pack` implements `PackStore` says of
  each call what may become of every path, in memory and in the file; a path may
  be withdrawn while `updateRecord` replaces it, for between the first move and
  the last write it cannot be read.
* **pack_faults** has every fault, and a pointer span of 8 so that pointers
  wrap; a foreign file of three cells and an empty one; a handle that is used
  for a second NewPack.  States after the first fault are checked but not
  explored (`Explored`), for after it the properties say nothing: the run is
  about what *one* failure may cost.  `FailureSparesOthers`: one that is not in
  the middle of the update loop costs no other path anything.
* **pack_recover** explores what follows failures too, any number of them, with
  two paths: the list stays strictly sorted with fitting tree indices, until the
  file is opened again or WriteTo misplaces the pointer.  The proof covers
  failing writes and any sizes as well.
* **binary_tree** takes every list length up to 40 and every record in it.
* **catalog** has one pack name with a separator, which `Store` replaces, and one
  without; up to three records, Stores of up to two entries, so one may name a
  path twice, or a path that exists and a new one; with `InsertionLimit` at two,
  lists of three records have their equal CRCs in any order.  A write may fail at
  each cell and inside it.  `Bounded` does not explore what follows the opening of a half written
  file, nor large Stores while one exists.
* **archive** has two files with three spellings, so that two spellings of one
  file and two files are both open; two paths, so that one pack is hurt while
  another must not be; two edits of the catalog, so that a path is moved and
  moved back.  Sessions, crashes and failures are unbounded.  Paths and contents
  are symmetric.
* **fdb** runs two kinds of programs.  Programs without a database take every
  step of `Fdb`, with one build for every case the code tells apart: no tables, no
  columns, no rows; one and two tables; ids that are equal, that share 32 bits
  (a long one more than the span), that share a bucket and not a key, that are
  negative or hashes; every variant; rows `Flush` refuses.  Four texts of
  different padding, one of them used several times, so that it is interned;
  three rows give up to four buckets (two keys and two buckets, three keys and
  four, one of them empty), lists of up to three rows and every order of the
  map.  Words are below 1024 and longs below 8192, large enough for the files
  (which stay below `Room`), small enough that numbers wrap.  A write or a read
  may fail at any step.  gb-fdb takes the steps of `GbFdb`: six files of other
  programs, among them unsigned longs that are signed ones and not, columns of a
  variant that no column of the database has, no columns and two tables of one
  name, meet five databases, with columns of every type, cells of every kind,
  a key in the middle, a compound key, an unknown type, a blob; four exclusions,
  one before the key.  fromFdb may stop at any step and be started again.  Files
  of other programs, and exclusions, meet only databases that have not been
  changed yet; what has been imported is exported in one turn of the same run.
  `MCGbFdb` tells the two by `before`, which is `Another` for a program without a
  database.  `GbInvariant` is what the proofs rest on; it has `FileInvariant` in
  it, and is checked at every step of both.
* **segmented** has chunks of three bytes and up to seven bytes in Writes of any
  length, zero included: two full chunks and a rest, data that ends with a
  chunk, one Write over three chunks.  Reads ask for up to three bytes.  One
  write fails, the signature's, a chunk's or the last one's, with any part
  written; the stream is cut between or in any of its tokens.
* The four violated runs are the findings below; each is the smallest
  configuration that shows one.

Each property of a passing run has a mutant in `PROJECT.json`, a plausible bug
put into one definition, for which the property fails under the same
configuration.

## Scheduling and fairness

The library starts no goroutine and no timer: a step happens when a caller makes
a call, and no caller is obliged to flush, close or retry.  `Pack`, `Catalog` and
`Archive` therefore state no fairness; their loops end by a count.

A call that has begun goes on by itself, and that is the one thing `Fdb`,
`GbFdb` and `Segmented` assume: weak fairness of `FlushStep` (a Builder.Flush
that runs), `NextRow` and `Look` (an iteration or a lookup that has begun),
`ImportStep` (a fromFdb that runs, its iteration included), `Exit` (a fromFdb that
is done or has failed returns and closes its file), `Calls` (a Write or Close that runs) and
`Read` (`io.Copy` and every caller in the repository read a stream until it
ends).  Nothing makes a caller begin: opening, building, closing, stopping and
failing are in no fairness condition.

`CallsEnd` of `GbFdb` says that a build and an import come to an end, whatever
the tables and databases: the recursion of `writeBucket` and the pointers of a
list of rows do not loop.  `IterationEnds` is the fairness of `RowSet`: an
iteration that is not broken off yields every row and ends.  `CallsEnd` of
`Segmented` says that calls end, and that a reader comes to the end, or an
error, of every stream, cut or not: a `Read` that returns no bytes and no error
cannot do so for ever.

## Proofs

TLAPS proves the following for all values of the constants.

**Pack** (assumption `PackAssumption`: CRCs and sizes are natural numbers, a
pointer span of at least two, known kinds of faults).

| theorem | states |
|---|---|
| `PackProofs!TypeCorrect` | `Spec => []TypeOK`, with wrapped pointers and all faults |
| `PackProofs!PackSafe` | `Spec => []Safe` |
| `PackProofs!StoredIsSafe` | `Spec => []SafeStored` |
| `PackProofs!LayoutIsSafe` | `Spec => []SafeLayout` |
| `PackProofs!CleanIsDurable` | `Spec => []Durable` |
| `PackProofs!CopyIsAligned` | `Spec => []CopyAligned` |
| `PackProofs!RevisionsTell` | `Spec => RevisionTellsVersions` |
| `PackProofs!ListIsSorted` | `Spec => []SortedByCrc`, also after failures |
| `PackProofs!IndicesFit` | `Spec => []IndicesCurrent`, also after failures |
| `PackProofs!OthersAreSpared` | `Spec => FailureSparesOthers`, with all faults |
| `PackProofs!PackImplements` | `Spec /\ [][intact /\ (intact' \/ Crash)]_vars => Implements`, where no foreign file is there and no handle is used twice |

None of the safety properties is inductive.  That a stored path reads back
after an update needs that the record being moved is not yet overwritten, which
needs that the records still to be moved lie behind the position that is written
to, which needs the order of the loop and that the blocks before it leave no
gap.  `Safe` (module `PackInvariant`) says all of this, by what the Pack is
doing: `WhenClosed` and `WhenClean` describe a flushed file; `WhenDirty` says
that the list in memory is `Sound` (sorted, blocks good, disjoint and without
gaps, matching `stored`); `WhenUpdating` splits the records into those settled
before `pos` and those pending behind it; `WhenCopying` says that the copy is as
long as what lies before `pos`.  The absence of gaps (`Tiled`) is what makes
`WriteTo` list positions that are right in the copy, although it lists those of
the original.  `Safe` holds while no call has failed: `health = "intact"`.
It is also checked by `pack_edit` and `pack_faults`.

The proof goes action by action: general lemmas about writes and blocks
(`GoodKept`, `LaidKept`, `FreshGood`, `CopiedGood`), the heart in `SafeShift`
and `SafeReplace`, and `SafeInsert`, `SafeFlush`, `SafeOpen`, `SafeRead` for the
rest.

`Safe` ends with the first failure, and the list in memory does not: Store goes
on with it.  `ListInvariant` says that it is sorted and indexed whenever a call
may use it, and that what a flushed pack reads at its pointer is (`ListedAt`).
One thing breaks that, which the attempt to prove it without an exception
showed, and a run of nineteen calls confirmed: `flush(w, n)` (pack.go:409) takes
the length of the copy for the pack's own pointer, and after a failed Store,
when there is a gap, or two records have one place, that is not where the
listing is.  A flushed pack then reads its list from there, be it an older one
or parts of two.  `LoseIfMoved` records it, and both properties end there, as
they do when the damaged file is opened again.

The last part of `PackProofs` says what a step does.  A call that fails writes behind the blocks of
the other records, or not at all, so that they read back after it
(`FailureSparesOthers`); that needs `Safe` before the call only.  For the
refinement, `Seen` says what a caller sees in each state that `Safe` allows: the
file and the memory of a flushed pack are `stored`, those of an edited one are a
broken file and `stored`, those in the middle of an update are without the path
that is being replaced.  Each action of `Pack` then is one call of `PackStore`,
or none (`CallsOfPackStore`).  The conjunct next to `Spec` confines the theorem
to what `PackStore` promises: calls that succeed, and crashes.  A file of
another program (`ForeignSizes`) and a handle that is used for a second NewPack
(`"reuse"`) have no counterpart in `PackStore`, so the theorem excludes them, as
the run `pack_edit` does.

**Tree indices** (assumption `LengthAssumption`: lists of any length).

| theorem | states |
|---|---|
| `BinaryTreeProofs!SearchNarrows` | `Spec => []Searching` |
| `BinaryTreeProofs!EveryRecordIsReached` | `Spec => []NeverLost` |
| `BinaryTreeProofs!SearchIsLogarithmic` | `Spec => []Logarithmic` |

That a position is in the list says nothing of what its indices lead to.
`Searching` says that the search is at the root of the tree of a slice that has
the record, that the indices of the whole list agree with those that
`updateNodeIndices` returns for that slice, and that its length times two to the
number of steps is at most the length of the list.  A step halves the slice.
The recursive function is not taken for granted: `BinaryTreeProofs` shows that
there is one function that satisfies the definition, from the fact that a set of
natural numbers has a smallest.

**Catalog** (assumptions `CatalogAssumption`: CRCs are natural numbers, every key
has a name; `MaxRecords` and `InsertionLimit` are any natural numbers;
`ForeignAssumption`, above).

| theorem | states |
|---|---|
| `CatalogProofs!CatalogInvariantHolds` | `Spec => []CatalogInvariant` |
| `CatalogProofs!TypesHold` | `Spec => []TypeOK` |
| `CatalogProofs!SearchFinds` | `Spec => []SearchFindsStored` |
| `CatalogProofs!RecordsAreNamed` | `Spec => []RecordsNamed` |
| `CatalogProofs!NodesFitTheList` | `Spec => []NodesFit` |
| `CatalogProofs!CleanIsDurable` | `Spec => []Durable` |
| `CatalogProofs!NothingLeftBehind` | `Spec => []NothingBehind` |
| `CatalogProofs!OldOrNewIsRead` | `Spec => []OldOrNew` |

Flush overwrites a file of one length with one that must not be shorter, and may
stop at every cell and inside it.  `CatalogInvariant` says when the result is still
a catalog, but for records that are torn (`Acceptable`):
a file is a `WholeFile` or `HalfWritten`, and while the catalog is open its names
and records have only `Grown` since the file was read, where a place in the list
has the CRC it had or a smaller one.  So an unfinished Flush of as many names and
records as the file had leaves old records behind new ones of the same CRC, and
one of more leaves a head that announces more than there is, which NewCatalog
refuses.  A Flush of more that is cut inside its very last record leaves a file
that NewCatalog accepts, with that one record torn; `HalfWritten` therefore says
that the file is not yet as long as the new one.  `Storing` says what the list is
between the steps of one Store, where it is neither sorted nor complete.  The
lemmas on `Orders` and `SortedBy` (a sorted list has the same elements,
ascending; what was added only moves CRCs up) carry the list through EndStore.
A path may have several records, if one Store named it several times while it
was new.  Update changes the first of them; in a list longer than
`InsertionLimit` the next sort may bring an older one to the front.  So
`SearchFindsStored` says *what* is found only for paths that are `Settled`, which
have one record or are in a short list, and that something is found for all.
`OldOrNew` says nothing of a record that is itself torn: catalog.go:100 takes
its missing bytes from the old file, or as zeros, so that a path may be read
with another pack, another compression or another CRC than it ever had.

**Archive** (assumption `ArchiveAssumption`: two spellings have the same lower
case exactly when they are one file).  The assumption is that of the game's
platform.  Where file names are case-sensitive, `A.pk` and `a.pk` share one
Pack (archive.go:144) but are two files (149): a path that is stored under the
second spelling goes to the first one's file, and is not found there after
reopening.

| theorem | states |
|---|---|
| `ArchiveProofs!TypeCorrect` | `Spec => []TypeOK` |
| `ArchiveProofs!ArchiveSafe` | `Spec => []Safe` |
| `ArchiveProofs!OneFileOnePack` | `Spec => []OnePackPerFile` |
| `ArchiveProofs!StoredLoads` | `Spec => []LoadsStored` |
| `ArchiveProofs!ClosedIsDurable` | `Spec => []Durable` |
| `ArchiveProofs!ReadingChangesNothing` | `Spec => ReadingIsHarmless` |

Here `Safe` (module `ArchiveInvariant`) says that every open pack is kept under
a name of its own file (`Named`), that only packs still to be closed are dirty
while the archive closes (`Sessions`), and where a stored path is: in the memory
of the pack that has its file open, and in the file unless that pack is dirty
(`Keeping`).  `LoadsStored` alone is not inductive: it says nothing of a path
whose record is edited away and back, nor of a closed archive.
`ReadingIsHarmless` is about a step: a Load, or a Store that is refused, opens a
pack, may leave a file behind, and changes no answer.  It needs one fact more,
`Existing`: the file of an open pack is there, so that what is opened is not one
that a failed call has just made.

**FDB** (assumptions `TextAssumption`: a text takes at least one byte;
`HashAssumption`: a hash is a natural number; `SpanAssumption`: the span of words
is a power of two above 16, that of longs even;
`StartAssumption`: the file begins at some offset; `BuildAssumption`: callers
give tables and rows of the library's types, and rows for every table
(`IsBuild`); `IdAssumption`: they look up integers).

| theorem | states |
|---|---|
| `FdbProofs!WriterInvariantHolds` | `Spec => []WriterInvariant` |
| `FdbProofs!PointersLeadToTheirValues` | `Spec => []PromisesKept` |
| `FdbProofs!HandleStandsAtTheEnd` | `Spec => []Positioned` |
| `FdbProofs!ContentHolds` | `Spec => []ContentInvariant` |
| `FdbReadingProofs!ReaderInvariantHolds` | `Spec => []ReaderInvariant` |
| `FdbReadingProofs!FileInvariantHolds` | `Spec => []FileInvariant`, the three invariants together |
| `FdbReadingProofs!ReaderReadsBack` | `Spec => []ReadsBack` |
| `FdbReadingProofs!FindFindsFirst` | `Spec => []FindFirst` |
| `FdbReadingProofs!RowsKeepOrder` | `Spec => []EqualIdsInOrder`, also after failed reads |
| `FdbReadingProofs!RowsYieldAll` | `Spec => IteratesAll`: every step is one of `RowSet` |

`Spec` is that of `Fdb`, with any set of builds.  The steps of a builder are
proved for any tables and rows, so that they hold for what gb-fdb gives it too.
A pointer is promised when its value is deferred, set when the queue is flushed,
and read when the file is complete, after every other table and row has been
written.  That it still leads to its value then is not inductive: it needs that
no write in between ends in what is written.  `WriterInvariant` (module
`FdbInvariant`) says why.  Fields do not overlap and end at `pos` (`LaidOut`);
the handle stands at `pos` wherever the writer appends (`Positioned`); every
deferred value has a word of its own as the place for its pointer, and no two
the same (`Homes`); so has every element of every running array, and none of
them is the place of a value (`Slots`); an interned string is where `strings`
says it is (`Interned`).  A write then is either behind everything
(`PutWords`, the values of `FlushText` and `FlushLong`) or on one of the places
that wait for it (`PointAt`, `Return`), and lemma by lemma `FdbProofs` shows
that such a write keeps every other field.  Its first part has the types of jobs,
calls, items and of what a description or a row puts.

That every pointer keeps its promise does not say which tables and rows the
pointers make up.  `ContentInvariant` (module `FdbContent`) says that, without
an induction over what is written: `owed` remembers for the slot of each element
which job it was made for, and of a slot that waits no more the invariant says
that it leads to what that job puts (`Fulfilled`), one level deep.  A
description or a row is its words; a bucket is a row and a bucket with one row
less, whose slots are in `owed` again; the rows of a table are buckets that
`collectBuckets` may have made of them in some order (`BucketsOf`).  Because
each level only names the slots of the next, no step needs to look further than
one pointer, lists of any length included.  A field that waits for nothing is
never written again, so what is fulfilled stays (`FulfilledStays` and the lemmas
before it).

The reader follows these levels.  `ReaderInvariant` (module `FdbReading`)
describes a cursor by one of `Placings`: for every bucket, the places its rows
had among the rows given to the builder, in the order of the list.  An
iteration stands behind so many rows of one bucket, has yielded all rows of the
buckets before it, and its `from` says for each yielded row which one it was
(`Following`); a lookup has behind it only rows of other ids (`LooksUp`).  A
step reads one level of what `ContentInvariant` promises, and moves the cursor
by one.  That `collectBuckets` puts all rows of an id in one bucket, which is
the one `Find` looks in, is `BucketOf` of the key on both sides; that their order
is kept is `InOrder`.  Rows lost by a failed read leave gaps in `from`, and
`EqualIdsInOrder` holds still, as a bucket is given up from the lost row on.
`RowsYieldAll` then needs that two lists of rows with a one-to-one map between
them are one bag.

**gb-fdb** (assumptions, besides those of FDB, `FilesAssumption`: other programs
give their builders tables and rows as `BuildAssumption` says;
`DatabaseAssumption`: a database to begin with has finitely many tables, with
cells of the kinds there are and rows as long as the list of columns;
`WidthAssumption`: a long has twice the span of a word or more).

| theorem | states |
|---|---|
| `GbFdbProofs!GbInvariantHolds` | `GbSpec => []GbInvariant` |
| `GbFdbProofs!FilesReadBack` | `GbSpec => [](PromisesKept /\ ReadsBack /\ FindFirst /\ EqualIdsInOrder)` |
| `GbFdbProofs!ImportsIterateAll` | `GbSpec => IteratesAll` |
| `GbFdbProofs!TablesAreWhole` | `GbSpec => []TablesWhole` |
| `GbFdbProofs!ImportsExport` | `GbSpec => []ImportExports` |

No bound of the runs is in these theorems but that of `OtherProgram` and
`Options`, of which the steps of the library and of fromFdb know nothing: the
lemmas on `WriteFdb` and `OtherProgramFile` hold for any options and any database.
`TablesWhole` compares bags, and says neither which row came from which nor what
the transaction that is open will commit.  `GbInvariant` (module
`GbFdbInvariant`) has `FileInvariant` for the file that is open; that the database
is one (`IsDatabase`), and with it that what toFdb gives a builder is a build
(`ExportIsBuild`: the columns that are picked are columns of the table, and what
`Scan` returns is an entry of the Go type of its variant); where fromFdb stands
(`Converting`); and which tables are in the database (`Importing`), each with a
one-to-one map from its rows to those the builder of the file got (`Imported`).
The map comes with Commit: an iteration that has ended without an error has
yielded rows by a `from` of `ReaderInvariant` that leaves none out, unless a read
has lost it without an error, which `lost` remembers (finding 4).  The steps in
between leave committed tables alone (`ImportingStays`), because a name that is in
the database is not `Creatable`.

`ImportExports` then is about conversions.  A table that fromFdb has made has no
key, so `moveToFront` moves nothing (`KeylessPicked`); the type that `toColType`
gives a variant is one that `toVariant` reads as that variant, but for null
(`VariantsReturn`); and an entry of its column's variant is scanned from the cell
it was stored in and comes back as it was (`EntryReturns`): a signed word through
an integer cell of at least twice its span, for any spans.  No row fails to be
scanned, so `iterRows` does not end early, and the same one-to-one map makes the
exported rows one bag with the imported ones.

**Segmented** (assumptions `ChunkAssumption`: a chunk has room for at least one
byte; `FaultAssumption`; any amount of data, any number of failing writes).

| theorem | states |
|---|---|
| `SegmentedProofs!StreamsAreFramed` | `Spec => []Framed` |
| `SegmentedProofs!StreamsReadBack` | `Spec => []ReadsBack`, if at most one write fails |
| `SegmentedProofs!TruncationIsTold` | `Spec => []TruncationTold` |

`Framed` speaks of what is on the stream, and does not say how full the next
chunk will be.  `FramingInvariant` adds that the buffer holds a head and just
the bytes that `bytesLeft` counts down (`Filling`), that sizes lead from chunk to
chunk, where only a closed writer has one that is not full (`Chained`), and that
`compressedBytes` counts what was written (`Written`).  A Write flushes a chunk
only when `bytesLeft` has come to zero, so the chunk is full; a Close may flush
one that is not, but nothing is written after it.  `ChunkChained` is the lemma
that a chunk put behind full chunks keeps the chain.

`ReadsBack` and `TruncationTold` relate the writer, who may have failed and been
called again, to a reader who has no way of telling where.  `ReadingInvariant`
says what is left to rely on.  Any stretch of bytes is a stretch of what was
given (`Running`); the first byte of a chunk follows the last one of a whole
chunk before it (`Continuing`); a checksum that a reader comes to ends its chunk,
or is the first of two that do (`Ending`); none stands alone (`Summed`).  Every
write keeps these laws, whatever part of a chunk it leaves (`LawsKept`,
`PartLaws`).  `Buffer` says what the next write will put there: a chunk that was
written in part is still in the buffer, with the checksum that zlib adds again.
A stream without a failure is `Whole`.  `Reached` says where a reader is in it,
between chunks or inside one, and what it has yielded.  The invariant holds
for up to one failure, and `StreamsReadBack` says so: a second one may leave a
chunk that lacks nothing but the second checksum, which no reader misses, and the
chunk is written again behind it.  `TruncationTold` is about streams without a
failure, so that theorem needs no bound.

**Only model-checked**:

* Liveness, which is out of the prover's reach: `CallsEnd` of `GbFdb` and of
  `Segmented`, and `IterationEnds`.

## Findings and observations

Findings, each with a run whose counterexample shows it:

1. `pack_retry`: a Store that fails while it inserts leaves a listed record
   whose data pointer the next record gets too (pack.go:364).  A later update of
   one of the two overwrites the other's data, and no call reports an error.
2. `pack_truncate`: Flush counts the pack as clean before it truncates
   (pack.go:292).  When the truncation fails, a second Flush or Close reports
   success, and the next NewPack reads its trailer from stale bytes.
3. `catalog_twice`: a Store that names a new path under two packs lists it twice
   (catalog.go:182), where the comment at 162-163 says that one pack name is
   chosen.
4. `rows_error`: an iteration that cannot read a row goes on with the next
   bucket, and one that cannot read a list ends, and `Rows.Err` returns nil
   (hashtable.go:174-195, 227-230), where `Table.Rows` means to yield the error
   (reader.go:44-45) as builder.go:19-20 asks of such a sequence.  Rows that a
   read has lost are missing without a word.

What the models say of the code, and no comment or test contradicts: WriteTo of
a pack that a failed Store has damaged may leave its pointer where there is no
listing, or an old one (pack.go:255, 409), see the proofs of Pack; `Find` on a
table without rows divides by zero (hashtable.go:302), and for a negative id
reads in front of the buckets; `Find` answers "not found" when a row cannot be
read (311-328).  In gb-fdb, the position of the primary key counts excluded
columns, so that with an excluded column before the key another column is moved
to the front, or `moveToFront` panics (sqlite.go:61-65, 98-118); a key of several
columns cannot be scanned (87-89); a table whose column holds only nulls is
imported as `BLOB_NONE` and exported as text (34, 55); a table with an unsigned
long, in a column of another variant, that is no signed one is not imported, because database/sql refuses the value
(row.go:38, sqlite.go:264), and the tables behind it stay dropped.  In segmented compression
one write that fails and is repeated costs nothing: zlib's checksum is in the
chunk twice, the reader stops at the first and, as `io.LimitReader` may leave
the second unread, reports an error or goes on.  Two failures in a row can repeat
bytes, with two failures allowed `ReadsBack` is violated.

Seen while reading, without a run: the comments of NewPack (pack.go:565-566) and
NewCatalog (catalog.go:299-300) say that a file whose signature or version is
wrong is written over, while the code does so only for an empty file
and returns an error for any other one; the comment of FindPack
(archive.go:171) says that a missing pack is created, while the call at 173 asks
findPack not to; `cache.Write` (cache.go:230) sets its error and returns nil;
arshaler.go:267 leaves the loop over a struct's fields after the first one with
an `UnmarshalText` method; entry.go:189-206 takes `int64` for the kind of an
unsigned number without a hint and then refuses it; sqlite.go:83 and 133 never
ask for the error that ended the loop over a schema; `NewDataReader`
(data.go:195) takes a short first read for another signature.

## What is not modelled

* The manifest and the quick-check cache: one pass reads lines into a map, one
  writes it.  They keep no state between calls but the map and recover from
  nothing; what could be wrong is in their patterns and formats.
* The text encoding: which bytes are a key, and which Go field takes which value,
  by reflection.  A model would put strings together character by character.
* FDB: a file that was not written to its end and is opened all the same; what a
  read at a wrong place makes of other bytes (`NoText`, `noData` and 0 stand for
  them); the answer of `Find` for a negative id; files beyond 4 GiB (`Room`);
  `Bucket`s and `Reset` used by themselves; a Builder whose rows come from the
  Reader of another file.
* gb-fdb: SQL text and identifiers, the affinity of column types (the cells
  written have the type of their column), errors of the database while it
  lists its tables and rows.
* zlib, as a library: its stream is a head, the bytes and a checksum.
* Models and programs: declarations, printing and loops over the library.
* `Info` and its checksums, the CRC, formats of numbers and strings, byte order:
  computations without state.  Two paths with one CRC are one path to the code
  and to the model.
* A reader passed to Store yields exactly the size its `Info` declares, or
  fails: the callers in the repository compute the one from the other.
* A `PackRecord` that a caller holds across a Store, and a Store that reads from
  the pack it changes: see the hazards.
* Two processes with one file open: nothing in the library is meant for it.
