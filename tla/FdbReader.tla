------------------------------ MODULE FdbReader ------------------------------
(***************************************************************************)
(* Reader, HashTable, Rows and Bucket (src/database/fdb/reader.go,         *)
(* hashtable.go): what is read from the fields of a file.  Opening reads   *)
(* the tables once; Rows and Find then follow the pointers of a table, one *)
(* row a step.  Each call seeks before it reads, so the handle is not kept.*)
(* With the fault "read" any of these reads may fail.                      *)
(***************************************************************************)
EXTENDS FdbRow

VARIABLES
    reader,  \* Reader: is it open, and its tables
    rows,    \* Rows: the iteration that is running
    find     \* HashTable.Find: the lookup that is running, or its answer
             \* (yielded and lost are histories: the rows the caller has
             \* got, and whether a read has failed)

cursors == <<reader, rows, find>>

(* A Bucket that has been reset to a list; one that is used up, or nil.    *)
BucketAt(list) == [next |-> list, finished |-> FALSE]
UsedUp == [next |-> noData, finished |-> TRUE]

Closed == [open |-> FALSE, tables |-> <<>>]
NoRows == [state |-> "none", table |-> 0, index |-> 0, bucket |-> UsedUp, isNil |-> TRUE,
           err |-> FALSE, yielded |-> <<>>, lost |-> FALSE]
NoFind == [state |-> "none", table |-> 0, id |-> 0, bucket |-> UsedUp, row |-> <<>>, lost |-> FALSE]

ReaderInit == reader = Closed /\ rows = NoRows /\ find = NoFind

(* init, readTable, readColumns, readHashTable.                            *)
ColumnAt(o) == Column(WordAt(o), TextAt(WordAt(o + 4)))
TableAt(description, hashTable) ==
    LET columns == WordAt(description + 8)
    IN  [name |-> TextAt(WordAt(description + 4)),
         columns |-> [i \in 1..WordAt(description) |-> ColumnAt(columns + 8 * (i - 1))],
         numBuckets |-> WordAt(hashTable), base |-> WordAt(hashTable + 4)]

TablesAt(o) ==
    LET first == WordAt(o + 4)
    IN  [i \in 1..WordAt(o) |->
            TableAt(WordAt(first + 8 * (i - 1)), WordAt(first + 8 * (i - 1) + 4))]

OpenReader ==
    /\ ~reader.open
    /\ reader' = [open |-> TRUE, tables |-> TablesAt(Start)]
    /\ UNCHANGED <<rows, find>>

Close == reader.open /\ reader' = Closed /\ rows' = NoRows /\ find' = NoFind

(* Bucket.readRow: the row of the list's first node, and what follows.     *)
RowAt(o) ==
    LET data == WordAt(o)
    IN  [i \in 1..WordAt(data) |-> EntryAt(WordAt(data + 4) + 8 * (i - 1))]
After(bucket) ==
    LET next == WordAt(bucket.next + 4)
    IN  [next |-> next, finished |-> next = noData]

(* nextBucket: the first list behind index that is not empty.              *)
ListOf(table, i) == WordAt(table.base + 4 * i)
NextIndex(table, index) ==
    CHOOSE i \in index + 1..table.numBuckets :
        /\ i = table.numBuckets \/ ListOf(table, i) # noData
        /\ \A j \in index + 1..i - 1 : ListOf(table, j) = noData

(* HashTable.Rows, Rows.Reset.  Without a list the bucket stays nil.       *)
StartRows(t) ==
    /\ reader.open /\ rows.state # "running"
    /\ LET table == reader.tables[t]
           first == NextIndex(table, -1)
           some  == first < table.numBuckets
       IN  rows' = [NoRows EXCEPT !.state = "running", !.table = t, !.index = first,
                                  !.isNil = ~some,
                                  !.bucket = IF some THEN BucketAt(ListOf(table, first))
                                             ELSE UsedUp]
    /\ UNCHANGED <<reader, find>>

(* Rows.Next: the next row of the bucket, or the first of the next one.    *)
(* Without a next one the bucket becomes nil, and err says so (line 158):  *)
(* the comparison of line 185 does not see through the wrapping.           *)
RowsTable == reader.tables[rows.table]

Yield(index, bucket) ==
    [rows EXCEPT !.index = index, !.bucket = After(bucket), !.isNil = FALSE,
                 !.err = FALSE, !.yielded = Append(@, RowAt(bucket.next))]
NoMore(index) ==
    [rows EXCEPT !.state = "ended", !.index = index, !.bucket = UsedUp,
                 !.isNil = TRUE, !.err = TRUE]

FromNextBucket(index) ==
    LET i == NextIndex(RowsTable, index)
    IN  IF i < RowsTable.numBuckets
        THEN Yield(i, BucketAt(ListOf(RowsTable, i)))
        ELSE NoMore(i)

\* Mutant: the last bucket is forgotten.
InRangeButLast == rows.state = "running" /\ rows.index < RowsTable.numBuckets - 1

InRange == rows.state = "running" /\ rows.index < RowsTable.numBuckets

NextInBucket ==
    /\ InRange /\ ~rows.bucket.finished
    /\ rows' = Yield(rows.index, rows.bucket)
    /\ UNCHANGED <<reader, find>>

NextBucket ==
    /\ InRange /\ rows.bucket.finished
    /\ rows' = FromNextBucket(rows.index)
    /\ UNCHANGED <<reader, find>>

\* Mutant: an index that is as large as the number of buckets is no end.
NoBucketsPast ==
    /\ rows.state = "running" /\ rows.index > RowsTable.numBuckets
    /\ rows' = [rows EXCEPT !.state = "ended"]
    /\ UNCHANGED <<reader, find>>

NoBuckets ==
    /\ rows.state = "running" /\ ~InRange
    /\ rows' = [rows EXCEPT !.state = "ended"]
    /\ UNCHANGED <<reader, find>>

(* Reads of rows fail, the bucket's next one or the first ones of buckets  *)
(* behind it: after each, Next goes on with the bucket behind it (line     *)
(* 184), until it reads a row or comes to the end.                         *)
ReadsRowOf(index) ==
    IF index = rows.index THEN ~rows.bucket.finished ELSE ListOf(RowsTable, index) # noData

RowUnread ==
    /\ "read" \in Faults /\ InRange
    /\ \E last \in rows.index..RowsTable.numBuckets - 1 :
          ReadsRowOf(last) /\ rows' = [FromNextBucket(last) EXCEPT !.lost = TRUE]
    /\ UNCHANGED <<reader, find>>

(* A read of a list of a bucket fails, and Next ends: also where the reads *)
(* of the rows in front of it have failed in the same call.                *)
ListUnread ==
    /\ "read" \in Faults /\ InRange
    /\ \E i \in rows.index + 1..RowsTable.numBuckets - 1 :
          rows' = [NoMore(i) EXCEPT !.lost = TRUE]
    /\ UNCHANGED <<reader, find>>

RowsNext == NextInBucket \/ NextBucket \/ NoBuckets \/ RowUnread \/ ListUnread

(* Rows.Err                                                                *)
RowsErr == ~rows.isNil /\ rows.err

(* HashTable.Find: the list of the id, then its rows one by one.  An index *)
(* below 0 takes whatever stands in front of the lists for one, and a table*)
(* without buckets divides by zero.                                        *)
FindEnds(answer, row) == find' = [find EXCEPT !.state = answer, !.bucket = UsedUp, !.row = row]

StartFind(t, id) ==
    /\ reader.open /\ find.state # "running"
    /\ LET table == reader.tables[t]
           asked == [NoFind EXCEPT !.table = t, !.id = id]
           index == Rem(id, table.numBuckets)
       IN  \/ /\ table.numBuckets = 0
              /\ find' = [asked EXCEPT !.state = "panic"]
           \/ /\ table.numBuckets # 0 /\ index < 0
              /\ find' \in {[asked EXCEPT !.state = s] : s \in {"notFound", "astray"}}
           \/ /\ table.numBuckets # 0 /\ index >= 0
              /\ find' = IF ListOf(table, index) = noData
                         THEN [asked EXCEPT !.state = "notFound"]
                         ELSE [asked EXCEPT !.state = "running",
                                            !.bucket = BucketAt(ListOf(table, index))]
    /\ UNCHANGED <<reader, rows>>

FindNext ==
    /\ find.state = "running" /\ ~find.bucket.finished
    /\ LET row == RowAt(find.bucket.next)
       IN  \/ /\ ~HasId(row) /\ ~IsNullId(row)
              /\ FindEnds("error", <<>>)
           \/ /\ HasId(row) /\ Id(row) = find.id
              /\ FindEnds("found", row)
           \/ /\ IsNullId(row) \/ (HasId(row) /\ Id(row) # find.id)
              /\ find' = [find EXCEPT !.bucket = After(find.bucket)]
    /\ UNCHANGED <<reader, rows>>

FindExhausted ==
    /\ find.state = "running" /\ find.bucket.finished
    /\ FindEnds("notFound", <<>>)
    /\ UNCHANGED <<reader, rows>>

(* Reading the list or an id fails, or reading a row does, which Find      *)
(* takes for the end of the list.                                          *)
FindUnread ==
    /\ "read" \in Faults /\ find.state = "running"
    /\ \E answer \in {"error"} \cup (IF find.bucket.finished THEN {} ELSE {"notFound"}) :
          find' = [find EXCEPT !.state = answer, !.bucket = UsedUp, !.lost = TRUE]
    /\ UNCHANGED <<reader, rows>>

FindStep == FindNext \/ FindExhausted \/ FindUnread
=============================================================================
