--------------------------------- MODULE Fdb ---------------------------------
(***************************************************************************)
(* The library src/database/fdb: a file is built, then opened and read.    *)
(* The caller builds one of Builds, and while nothing is being written it  *)
(* may open the file, iterate over its tables and look up Ids.             *)
(***************************************************************************)
EXTENDS FdbBuilder, FdbReader

CONSTANTS
    Builds,  \* what the caller gives to NewBuilder and Flush
    Ids      \* the ids it looks up

(* There are rows, and perhaps an error, for each of the tables.           *)
IsBuild(ts, from) ==
    /\ ts \in Seq(Tables)
    /\ \A n \in DOMAIN from : from[n] \in [rows : Seq(Rows), err : BOOLEAN]
    /\ \A i \in 1..Len(ts) : ts[i].name \in DOMAIN from

ASSUME BuildAssumption == \A b \in Builds : IsBuild(b.tables, b.source)

(* Find takes an int.                                                      *)
ASSUME IdAssumption == Ids \subseteq Int

vars == <<writer, builder, cursors>>

Idle == state \in {"idle", "built", "failed"}

Build(builds) ==
    /\ \E b \in builds : \E ts \in Sortings(b.tables) : BeginFlush(ts, b.source)
    /\ UNCHANGED cursors

Forget ==
    /\ state \in {"built", "failed"} /\ ~reader.open
    /\ state' = "idle" /\ NoFile
    /\ UNCHANGED cursors

BuildStep == (FlushStep \/ WriteFails) /\ UNCHANGED cursors

(* A file that was not written to its end is not opened.                   *)
Open == state = "built" /\ OpenReader /\ UNCHANGED <<writer, builder>>

Read ==
    /\ \/ \E t \in 1..Len(reader.tables) : StartRows(t)
       \/ \E t \in 1..Len(reader.tables), id \in Ids : StartFind(t, id)
       \/ Close
    /\ UNCHANGED <<writer, builder>>

NextRow == RowsNext /\ UNCHANGED <<writer, builder>>
Look == FindStep /\ UNCHANGED <<writer, builder>>

Init == BuilderInit /\ ReaderInit
Next == Build(Builds) \/ Forget \/ BuildStep \/ Open \/ Read \/ NextRow \/ Look

(* A call that runs goes on; nothing makes the caller begin another.       *)
Fairness ==
    /\ WF_vars(FlushStep /\ UNCHANGED cursors)
    /\ WF_vars(NextRow)
    /\ WF_vars(Look)

Spec == Init /\ [][Next]_vars /\ Fairness
-----------------------------------------------------------------------------
RowsOf(t) == IF tables[t].columns = <<>> THEN <<>> ELSE source[tables[t].name].rows

(* Where the writer appends, the handle stands at pos.                     *)
Positioned == state = "job" \/ (state = "put" /\ todo # <<>>) => offset = pos

(* A pointer leads to the value it was promised for, from when that value  *)
(* is flushed until the file is complete: no later write moves or hides it.*)
Pending == {deferred[i].home : i \in 1..Len(deferred)}
PromisesKept ==
    \A home \in DOMAIN promised \ Pending :
        /\ IsWord(home)
        /\ Holds(file[home].of, promised[home].kind)
        /\ file[file[home].of].of = promised[home].of

(* What a reader finds is what was built.                                  *)
ReadsBack ==
    reader.open =>
        /\ Len(reader.tables) = Len(tables)
        /\ \A t \in 1..Len(tables) :
              /\ reader.tables[t].name = tables[t].name
              /\ reader.tables[t].columns = tables[t].columns

(* Find: the first row with the id, or none if there is none.  That it     *)
(* panics where its comment promises ErrRowNotFound (hashtable.go:299-302) *)
(* happens for tables that hold no row at all, and for no other.           *)
With(id, t) == {i \in 1..Len(RowsOf(t)) : Id(RowsOf(t)[i]) = id}
FindFirst ==
    find.id >= 0 /\ ~find.lost =>
        /\ find.state = "found" =>
              \E i \in With(find.id, find.table) :
                  /\ find.row = RowsOf(find.table)[i]
                  /\ \A j \in With(find.id, find.table) : i <= j
        /\ find.state = "notFound" => With(find.id, find.table) = {}
        /\ find.state \notin {"error", "astray"}
        /\ find.state = "panic" => RowsOf(find.table) = <<>>

(* The rows yielded are rows the builder got, none of them twice, and of   *)
(* the rows with one id the first ones in their order, also where a read   *)
(* has failed.                                                             *)
EqualIdsInOrder ==
    rows.state # "none" =>
        LET got   == rows.yielded
            given == RowsOf(rows.table)
        IN  \E from \in [1..Len(got) -> 1..Len(given)] :
                /\ \A i \in 1..Len(got) : got[i] = given[from[i]]
                /\ \A i, j \in 1..Len(got) :
                      /\ from[i] = from[j] => i = j
                      /\ i < j /\ Id(got[i]) = Id(got[j]) => from[i] < from[j]
                /\ \A j \in 1..Len(got), k \in 1..Len(given) :
                      k < from[j] /\ Id(given[k]) = Id(got[j]) => \E i \in 1..Len(got) : from[i] = k

(* Iterating implements RowSet, until a read fails: it yields every row    *)
(* once and then ends, and it does end.                                    *)
Sound == reader.open /\ ~rows.lost
Content == IF reader.open THEN [t \in 1..Len(tables) |-> ToBag(RowsOf(t))] ELSE <<>>
Phase == IF Sound THEN rows.state ELSE "none"
IteratedTable == IF Sound THEN rows.table ELSE 0
Got == IF Sound THEN ToBag(rows.yielded) ELSE <<>>

RowsPromise == INSTANCE RowSet WITH
    content <- Content, phase <- Phase, table <- IteratedTable, got <- Got
IteratesAll == RowsPromise!Safety
IterationEnds == RowsPromise!Ending

(* An iteration reports an error exactly if it has lost a row.             *)
ReportsReads == rows.state = "ended" => (RowsErr <=> rows.lost)

BuildEnds == state \in {"job", "put"} ~> Idle
=============================================================================
