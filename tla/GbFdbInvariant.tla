---------------------------- MODULE GbFdbInvariant ----------------------------
(***************************************************************************)
(* Why an import takes every table of a file whole: an invariant of GbFdb  *)
(* that its steps preserve.  While fromFdb runs, the tables it has         *)
(* committed are those in front of the one at conv.at, and the rows of each*)
(* are rows that the builder of the file was given, every one once.        *)
(***************************************************************************)
EXTENDS GbFdb, FdbReading

(* What fromFdb is about to do fits where it is.                           *)
Converting ==
    /\ DOMAIN conv = DOMAIN Resting
    /\ conv.state \in {"none", "drop", "create", "insert", "done", "failed"}
    /\ conv.state # "none" => reader.open /\ conv.at \in 0..Len(tables) + 1
    /\ conv.state = "drop" => conv.at = 0
    /\ conv.state \in {"create", "insert"} => conv.at \in 1..Len(tables)
    /\ conv.state = "done" => conv.at = Len(tables) + 1
    /\ conv.state = "insert" =>
          /\ rows.state # "none" /\ rows.table = conv.at
          /\ Creatable(reader.tables[conv.at])

(* The rows rs of the database are those of the table, or some of them if  *)
(* reading has lost one.                                                   *)
Copied(rs, t, from) ==
    /\ \A i \in 1..Len(rs) : rs[i] = SqlRow(tables[t], RowsOf(t)[from[i]])
    /\ \A i, j \in 1..Len(rs) : from[i] = from[j] => i = j
    /\ t \in conv.lost \/ \A k \in 1..Len(RowsOf(t)) : IsRead(from, k)

Imported(t, table) ==
    /\ tables[t].columns # <<>>
    /\ \A i \in 1..Len(tables[t].columns) : toColType(tables[t].columns[i].variant) # ""
    /\ table.columns = SqlColumns(tables[t])
    /\ \E from \in [1..Len(table.rows) -> 1..Len(RowsOf(t))] : Copied(table.rows, t, from)

Importing ==
    conv.state # "none" =>
        IF conv.at = 0 THEN db = before
        ELSE /\ DOMAIN db = (DOMAIN before \ FileNames)
                                \cup {tables[t].name : t \in 1..conv.at - 1}
             /\ \A n \in DOMAIN db \ FileNames : db[n] = before[n]
             /\ \A t \in 1..conv.at - 1 : Imported(t, db[tables[t].name])

GbInvariant == FileInvariant /\ IsDatabase(db) /\ Converting /\ Importing
=============================================================================
