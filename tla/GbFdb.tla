-------------------------------- MODULE GbFdb --------------------------------
(***************************************************************************)
(* The command gb-fdb (src/cmd/gb-fdb) between a database and the library  *)
(* src/database/fdb: toFdb writes the tables of the database to a file,    *)
(* fromFdb replaces tables of the database by those of a file, one         *)
(* transaction for all drops and one for every table.                      *)
(*                                                                         *)
(* The database is an external component: committed transactions last, and *)
(* an open one is gone when the command fails or stops.  A cell holds null,*)
(* an integer, a real, a text or a blob.  A real is written as the word    *)
(* that holds it in a file.  Abstracted: SQL text, reals no word holds, and*)
(* the affinities of column types but that of REAL, since the cells written*)
(* have the type of their column.                                          *)
(***************************************************************************)
EXTENDS Fdb

CONSTANTS
    Files,       \* what other programs build
    Databases,   \* databases to begin with
    Exclusions,  \* exclude tables: sets of pairs of a table and a column
    Star,        \* the column that excludes all of a table
    NaNs,        \* the words that are no number as a real
    OtherTypes   \* types of columns that gb-fdb does not know

VARIABLES
    db,     \* table |-> its columns and its rows
    conv,   \* fromFdb: what it does, at which table, and the tables whose
            \* reading has failed (a history)
    before  \* history: db when fromFdb began

gb == <<db, conv, before>>

ASSUME FilesAssumption == \A b \in Files : IsBuild(b.tables, b.source)
ASSUME WidthAssumption == 2 * Span <= LongSpan

\* The words of 0.0, which is 0, and of -0.0.
NegativeZero == Span \div 2
ASSUME RealAssumption == NaNs \subseteq 1..Span - 1 \ {NegativeZero}

Resting == [state |-> "none", at |-> 0, lost |-> {}]
SqlColumn(name, type, pk) == [name |-> name, type |-> type, pk |-> pk]
Cell(kind, of) == [kind |-> kind, of |-> of]

Cells ==
    [kind : {"null", "blob"}, of : {0}]
        \cup [kind : {"integer"}, of : Signed64]
        \cup [kind : {"real"}, of : 0..Span - 1 \ NaNs]
        \cup [kind : {"text"}, of : Texts]
SqlTypes ==
    {"INTEGER", "INT", "INT32", "REAL", "TEXT", "TEXT4", "INT_BOOL", "INT64", "TEXT8", "TEXT_XML",
     "BLOB", "BLOB_NONE"} \cup OtherTypes
SqlTables ==
    {table \in [columns : Seq([name : Texts, type : SqlTypes, pk : Nat]), rows : Seq(Seq(Cells))] :
        \A i \in 1..Len(table.rows) : Len(table.rows[i]) = Len(table.columns)}
IsDatabase(d) == IsFiniteSet(DOMAIN d) /\ DOMAIN d \subseteq Texts /\ \A n \in DOMAIN d : d[n] \in SqlTables

ASSUME DatabaseAssumption == \A d \in Databases : IsDatabase(d)

toVariant(type) ==
    CASE type \in {"INTEGER", "INT", "INT32"} -> VariantI32
      [] type = "REAL" -> VariantReal
      [] type \in {"TEXT", "TEXT4"} -> VariantNVarChar
      [] type = "INT_BOOL" -> VariantBool
      [] type = "INT64" -> VariantI64
      [] type \in {"TEXT8", "TEXT_XML", "BLOB", "BLOB_NONE"} -> VariantText
      [] OTHER -> VariantNull

toColType(variant) ==
    CASE variant = VariantI32 -> "INT32"
      [] variant = VariantReal -> "REAL"
      [] variant = VariantNVarChar -> "TEXT4"
      [] variant = VariantBool -> "INT_BOOL"
      [] variant = VariantI64 -> "INT64"
      [] variant = VariantText -> "BLOB"
      [] variant = VariantNull -> "BLOB_NONE"
      [] OTHER -> ""

(* DataEntry.Scan of what the driver returns, the variant being the        *)
(* column's; Row.Value and what the driver stores.                         *)
Scans(variant, cell) ==
    \/ cell.kind = "null"
    \/ cell.kind = "text" /\ variant \in TextVariants
    \/ cell.kind = "real" /\ variant = VariantReal
    \/ cell.kind = "integer" /\ variant \in {VariantI32, VariantI64, VariantBool}

Scan(variant, cell) ==
    CASE cell.kind = "null" -> Entry(VariantNull, 0)
      [] cell.kind = "integer" /\ variant = VariantI32 ->
             Entry(variant, Signed(uint32(cell.of), Span))
      [] cell.kind = "integer" /\ variant = VariantBool ->
             Entry(variant, IF cell.of = 0 THEN 0 ELSE 1)
      [] OTHER -> Entry(variant, cell.of)

\* Mutant: a real is stored as an integer.
IntegerKind(variant) ==
    CASE variant = VariantNull -> "null"
      [] variant \in TextVariants -> "text"
      [] OTHER -> "integer"

SqlKind(variant) ==
    CASE variant = VariantNull -> "null"
      [] variant \in TextVariants -> "text"
      [] variant = VariantReal -> "real"
      [] OTHER -> "integer"

(* SQLite stores a NaN as null, and an integral real of a REAL column as an*)
(* integer, which has no -0.0.                                             *)
IsReal(entry, words) == entry.variant = VariantReal /\ entry.value \in words
Value(entry) ==
    CASE IsReal(entry, NaNs) -> Cell("null", 0)
      [] IsReal(entry, {NegativeZero}) -> Cell(SqlKind(entry.variant), 0)
      [] OTHER -> Cell(SqlKind(entry.variant), entry.value)

(* queryTable: the columns that are kept, the key in front.  Its index     *)
(* counts the excluded columns too, and moveToFront takes it for one of    *)
(* the kept columns: with too few of them it panics.                       *)
Kept(table, excluded) ==
    LET mine == {i \in 1..Len(table.columns) : table.columns[i].name \notin excluded}
    IN  [k \in 1..Cardinality(mine) |->
            CHOOSE i \in mine : Cardinality({j \in mine : j <= i}) = k]
KeyIndex(table, kept) ==
    LET keys == {i \in ToSet(kept) : table.columns[i].pk = 1}
    IN  IF keys = {} THEN 1 ELSE Min(keys)

(* A type is unknown, or pk, the place in a key of several columns, is no  *)
(* bool.                                                                   *)
Queried(table, excluded) ==
    LET kept == Kept(table, excluded)
    IN  /\ \A i \in 1..Len(table.columns) :
              /\ toVariant(table.columns[i].type) # VariantNull
              /\ table.columns[i].pk \in {0, 1}
        /\ KeyIndex(table, kept) <= Max({1, Len(kept)})

Picked(table, excluded) ==
    LET kept == Kept(table, excluded)
        key  == KeyIndex(table, kept)
    IN  IF kept = <<>> THEN <<>> ELSE <<kept[key]>> \o RemoveAt(kept, key)

ColumnsOf(table, picked) ==
    [k \in 1..Len(picked) |->
        LET column == table.columns[picked[k]] IN Column(toVariant(column.type), column.name)]

(* iterRows: the rows up to the first that cannot be scanned.              *)
ScannedRows(table, picked) ==
    LET columns == ColumnsOf(table, picked)
        Fails(i) == \E k \in 1..Len(picked) :
                       ~Scans(columns[k].variant, table.rows[i][picked[k]])
        failing == {i \in 1..Len(table.rows) : Fails(i)}
        end     == Min(failing \cup {Len(table.rows) + 1}) - 1
    IN  [rows |-> [i \in 1..end |-> [k \in 1..Len(picked) |->
                      Scan(columns[k].variant, table.rows[i][picked[k]])]],
         err  |-> failing # {}]

(* toFdb: GetExcludeTable, collectTables, and the builder.  The output file*)
(* is created before anything can fail.                                    *)
Excluded(name, excludes) == {pair[2] : pair \in {p \in excludes : p[1] = name}}

WriteFdb(options) ==
    /\ state = "idle" /\ conv.state = "none"
    /\ \E excludes \in options :
          LET names == {n \in DOMAIN db : Star \notin Excluded(n, excludes)}
              picks == [n \in names |-> Picked(db[n], Excluded(n, excludes))]
              ts    == {[name |-> n, columns |-> ColumnsOf(db[n], picks[n])] : n \in names}
          IN  IF \A n \in names : Queried(db[n], Excluded(n, excludes))
              THEN \E sorted \in Sortings(SetToSeq(ts)) :
                      BeginFlush(sorted, [n \in names |-> ScannedRows(db[n], picks[n])])
              ELSE Fail
    /\ UNCHANGED <<cursors, gb>>

(* fromFdb, with the file open.                                            *)
FileNames == {reader.tables[t].name : t \in 1..Len(reader.tables)}

ReadFdb ==
    /\ reader.open /\ conv.state = "none"
    /\ conv' = [Resting EXCEPT !.state = "drop"]
    /\ before' = db
    /\ UNCHANGED <<vars, db>>

From(t) == IF t > Len(reader.tables) THEN "done" ELSE "create"

DropTables ==
    /\ conv.state = "drop"
    /\ db' = [n \in DOMAIN db \ FileNames |-> db[n]]
    /\ conv' = [conv EXCEPT !.state = From(1), !.at = 1]
    /\ UNCHANGED <<vars, before>>

(* createTable, in a transaction that Commit ends.  No table has a column  *)
(* of an unknown type, no columns, or a name or column that is taken.      *)
Creatable(table) ==
    /\ table.columns # <<>> /\ table.name \notin DOMAIN db
    /\ \A i \in 1..Len(table.columns) : toColType(table.columns[i].variant) # ""
    /\ \A i, j \in 1..Len(table.columns) :
          table.columns[i].name = table.columns[j].name => i = j

CreateTable ==
    /\ conv.state = "create" /\ Creatable(reader.tables[conv.at])
    /\ StartRows(conv.at)
    /\ conv' = [conv EXCEPT !.state = "insert"]
    /\ UNCHANGED <<writer, builder, db, before>>

(* rowValues, and the values that database/sql passes on: no unsigned long *)
(* that is no signed one.                                                  *)
Inserts(table, row) ==
    \A k \in 1..Len(table.columns) :
        /\ k <= Len(row) /\ row[k].variant \in Variants
        /\ row[k].variant = VariantU64 => row[k].value \in Signed64
Taken == \A i \in 1..Len(rows.yielded) : Inserts(reader.tables[conv.at], rows.yielded[i])

InsertRow == conv.state = "insert" /\ Taken /\ NextRow /\ UNCHANGED gb

SqlColumns(table) ==
    [i \in 1..Len(table.columns) |->
        SqlColumn(table.columns[i].name, toColType(table.columns[i].variant), 0)]
SqlRow(table, row) == [k \in 1..Len(table.columns) |-> Value(row[k])]
SqlTable(table, rs) ==
    [columns |-> SqlColumns(table), rows |-> [i \in 1..Len(rs) |-> SqlRow(table, rs[i])]]

\* Mutant: the loop over the rows ends early.
NoError == ~RowsErr

Iterated == rows.state = "ended" /\ ~RowsErr

Commit ==
    /\ conv.state = "insert" /\ Iterated /\ Taken
    /\ LET table == reader.tables[conv.at]
       IN  db' = [n \in DOMAIN db \cup {table.name} |->
                     IF n = table.name THEN SqlTable(table, rows.yielded) ELSE db[n]]
    /\ conv' = [state |-> From(conv.at + 1), at |-> conv.at + 1,
                lost |-> conv.lost \cup (IF rows.lost THEN {conv.at} ELSE {})]
    /\ UNCHANGED <<vars, before>>

(* The table cannot be created, a row cannot be inserted, the iteration    *)
(* reports an error, or at any time: the database refuses a statement, a   *)
(* read of the file fails, or the command is stopped.  What is committed   *)
(* stays.                                                                  *)
Stops == conv' = [conv EXCEPT !.state = "failed"] /\ UNCHANGED <<vars, db, before>>
Running == conv.state \in {"drop", "create", "insert"}
Refused ==
    /\ \/ conv.state = "create" /\ ~Creatable(reader.tables[conv.at])
       \/ conv.state = "insert" /\ (~Taken \/ (rows.state = "ended" /\ RowsErr))
    /\ Stops
ImportStops == "stop" \in Faults /\ Running /\ Stops

(* The command ends; it may be started again.                              *)
Exit ==
    /\ conv.state \in {"done", "failed"}
    /\ Close
    /\ conv' = Resting /\ before' = <<>>
    /\ UNCHANGED <<writer, builder, db>>

ImportStep == DropTables \/ CreateTable \/ InsertRow \/ Commit \/ Refused

Library == (Forget \/ BuildStep \/ Open) /\ UNCHANGED gb

(* Two bounds of the runs: files of other programs meet a database that    *)
(* gb-fdb has not changed yet, and a changed one is exported whole.        *)
OtherProgram ==
    /\ db \in Databases
    /\ Build(Files)
    /\ UNCHANGED gb
Options == IF db \in Databases THEN Exclusions ELSE {{}}

GbInit ==
    /\ Init
    /\ db \in Databases
    /\ conv = Resting /\ before = <<>>

GbNext ==
    \/ Library \/ OtherProgram
    \/ WriteFdb(Options) \/ ReadFdb \/ ImportStep \/ ImportStops \/ Exit

gbvars == <<vars, gb>>

(* A call that runs goes on, and the command ends behind its last one;     *)
(* nothing makes it begin another.                                         *)
GbFairness ==
    /\ WF_gbvars(FlushStep /\ UNCHANGED <<cursors, gb>>)
    /\ WF_gbvars(ImportStep)
    /\ WF_gbvars(Exit)

GbSpec == GbInit /\ [][GbNext]_gbvars /\ GbFairness
-----------------------------------------------------------------------------
(* Each table of the file is in the database whole, or not at all: those   *)
(* before the one that is being created, and no others.  Other tables are  *)
(* left alone, and a command that has not dropped any has changed nothing. *)
TablesWhole ==
    conv.state # "none" =>
        IF conv.at = 0 THEN db = before
        ELSE /\ DOMAIN db = (DOMAIN before \ FileNames)
                                \cup {tables[t].name : t \in 1..conv.at - 1}
             /\ \A n \in DOMAIN db \ FileNames : db[n] = before[n]
             /\ \A t \in 1..conv.at - 1 :
                   LET table == tables[t]
                       whole == SqlTable(table, RowsOf(t))
                   IN  /\ db[table.name].columns = whole.columns
                       /\ t \in conv.lost \/ ToBag(db[table.name].rows) = ToBag(whole.rows)

(* Each entry is null or of its column's variant.                          *)
Uniform(table, rs) ==
    \A k \in 1..Len(table.columns) :
        LET variant == table.columns[k].variant
        IN  /\ variant # VariantNull
            /\ \A i \in 1..Len(rs) : rs[i][k].variant \in {variant, VariantNull}

(* The entry of a row that has been through a database.                    *)
Returned(entry) ==
    IF IsReal(entry, NaNs) THEN Entry(VariantNull, 0)
    ELSE IF IsReal(entry, {NegativeZero}) THEN Entry(VariantReal, 0)
    ELSE entry
ReturnedRow(row) == [k \in 1..Len(row) |-> Returned(row[k])]
ReturnedRows(rs) == [i \in 1..Len(rs) |-> ReturnedRow(rs[i])]

(* toFdb after fromFdb gives the tables of the file back, where each entry *)
(* is null or of its column's variant, but for two reals: a NaN comes back *)
(* as null and -0.0 as 0.0.  A column of nulls does not come back:         *)
(* BLOB_NONE is read as text.                                              *)
ImportExports ==
    conv.state = "done" =>
        \A t \in 1..Len(tables) :
            LET table  == db[tables[t].name]
                picked == Picked(table, {})
                read   == ScannedRows(table, picked)
            IN  Uniform(tables[t], RowsOf(t)) =>
                    /\ Queried(table, {})
                    /\ ColumnsOf(table, picked) = tables[t].columns
                    /\ ~read.err
                    /\ t \in conv.lost \/ ToBag(read.rows) = ToBag(ReturnedRows(RowsOf(t)))

(* A build ends, and an import does; that reading a bucket ends is what the *)
(* latter rests on.                                                        *)
ImportEnds == Running ~> ~Running
CallsEnd == BuildEnds /\ ImportEnds
=============================================================================
