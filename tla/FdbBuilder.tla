----------------------------- MODULE FdbBuilder -----------------------------
(***************************************************************************)
(* Builder.Flush (src/database/fdb/builder.go): one run through the tables,*)
(* each described and then written as buckets of rows.  The nested calls   *)
(* of the code are the stack calls; an element of a running array is a job:*)
(* a table's description, a table's rows, a bucket, or a row.  What a job  *)
(* puts word by word waits in todo.                                        *)
(***************************************************************************)
EXTENDS DeferredWriter, FdbRow, SequencesExt

VARIABLES
    state,   \* of Flush: "idle", "job" between two elements of an array,
             \* "put" in an element, "built" or "failed"
    tables,  \* Builder.tables
    source,  \* what RowsFunc yields for a table: its rows, and an error
    todo     \* what the present job still puts

builder == <<state, tables, source, todo>>

Job(kind, given) == [job |-> kind, given |-> given]

(* NewBuilder sorts the tables by name; those of one name come in any order.*)
Sortings(ts) ==
    {[i \in 1..Len(ts) |-> ts[p[i]]] : p \in
        {q \in [1..Len(ts) -> 1..Len(ts)] :
            \A i, j \in 1..Len(ts) :
                i < j => q[i] # q[j] /\ Rank[ts[q[i]].name] <= Rank[ts[q[j]].name]}}

(* Flush as far as the loop over the tables.                               *)
TableJobs(ts) ==
    [i \in 1..2 * Len(ts) |->
        Job(IF i % 2 = 1 THEN "description" ELSE "rows", ts[(i + 1) \div 2])]

BeginFlush(ts, rows) ==
    /\ state = "idle"
    /\ Room(Start + 8 + 8 * Len(ts))
    /\ file' = PatchedWords(<<>>, Start,
                            <<Len(ts), Start + 8>> \o [i \in 1..2 * Len(ts) |-> 0])
    /\ offset' = Start + 8 + 8 * Len(ts)
    /\ pos' = Start + 8 + 8 * Len(ts)
    /\ calls' = <<Call(Start + 8, TableJobs(ts))>>
    /\ strings' = <<>> /\ deferred' = <<>> /\ promised' = <<>>
    /\ owed' = Owing(<<>>, Start + 8, TableJobs(ts))
    /\ state' = "job" /\ todo' = <<>>
    /\ tables' = ts /\ source' = rows

(* collectBuckets: the rows by uint32(key), then the keys in the order of  *)
(* a map, which is any order.  Rows of one key keep theirs.                *)
Key(row) == uint32(Id(row))
Keys(rows) == {Key(rows[i]) : i \in 1..Len(rows)}

\* Mutant: buckets are counted from one.
BucketFromOne(key, n) == (key + 1) % n

BucketOf(key, n) == key % n

\* Mutant: a row is put in front of those of its key.
Prepended(i, j) == i > j

Appended(i, j) == i < j

InBucket(rows, n, b) == {i \in 1..Len(rows) : BucketOf(Key(rows[i]), n) = b}
Orders(rows, mine) ==
    LET n == Cardinality(mine)
        Same(i, j) == Key(rows[i]) = Key(rows[j])
    IN  {p \in [1..n -> mine] :
            \A j \in 1..n : \A i \in 1..j - 1 :
                /\ p[i] # p[j]
                /\ Same(p[i], p[j]) =>
                      Appended(p[i], p[j]) /\ \A k \in i..j : Same(p[i], p[k])}
InOrder(rows, p) == [k \in DOMAIN p |-> rows[p[k]]]

Buckets(rows) ==
    LET n == bitCeil(Cardinality(Keys(rows)))
        ListsOf(b) == {InOrder(rows, p) : p \in Orders(rows, InBucket(rows, n, b - 1))}
    IN  {buckets \in [1..n -> UNION {ListsOf(b) : b \in 1..n}] :
            \A b \in 1..n : buckets[b] \in ListsOf(b)}

BucketsOf(table) ==
    IF table.columns = <<>> THEN {<<>>} ELSE Buckets(source[table.name].rows)

Fits(table, row) == Len(row) = Len(table.columns) /\ HasId(row)
Collects(table) ==
    LET from == source[table.name]
    IN  ~from.err /\ \A i \in 1..Len(from.rows) : Fits(table, from.rows[i])

(* What a description and a row put.                                       *)
Pairs(n, first, second) ==
    [i \in 1..2 * n |-> IF i % 2 = 1 THEN first[(i + 1) \div 2] ELSE second[i \div 2]]

DescriptionOf(table) ==
    LET cols == table.columns
        n    == Len(cols)
    IN  <<Word(n), Text(table.name), Pointer>>
            \o Pairs(n, [i \in 1..n |-> Word(cols[i].variant)], [i \in 1..n |-> Text(cols[i].name)])

RowOf(row) ==
    LET n == Len(row)
    IN  <<Word(n), Pointer>>
            \o Pairs(n, [i \in 1..n |-> Word(row[i].variant)], [i \in 1..n |-> Payload(row[i])])

Writes(row) == \A i \in 1..Len(row) : row[i].variant \in Variants

(* The elements of the arrays, innermost first: a job is begun, puts what  *)
(* it has to put, flushes what it deferred, and sets the element's pointer.*)
Due(kind) == state = "job" /\ Inner.work # <<>> /\ Head(Inner.work).job = kind
Given == Head(Inner.work).given

BeginPutting(words) ==
    /\ calls' = WithInner(Begun(Inner))
    /\ state' = "put" /\ todo' = words
    /\ UNCHANGED <<file, offset, pos, strings, deferred, promised, owed, tables, source>>

BeginArray(before, work, withPointer) ==
    /\ OpenArray(before, work, withPointer, noData)
    /\ UNCHANGED builder

WriteDescription == Due("description") /\ BeginPutting(DescriptionOf(Given))
WriteRow == Due("row") /\ Writes(Given) /\ BeginPutting(RowOf(Given))

WriteRows ==
    /\ Due("rows")
    /\ Given.columns # <<>> => Collects(Given)
    /\ \E buckets \in BucketsOf(Given) :
           BeginArray(<<Len(buckets)>>,
                      [b \in 1..Len(buckets) |-> Job("bucket", buckets[b])], TRUE)

(* An entry of a bucket: its row, and the rest of the list.                *)
\* Mutant: the rest of the list is the list.
SameAgain(bucket) == <<Job("row", Head(bucket)), Job("bucket", bucket)>>

RowAndRest(bucket) == <<Job("row", Head(bucket)), Job("bucket", Tail(bucket))>>

WriteBucket ==
    /\ Due("bucket")
    /\ Given # <<>>
    /\ BeginArray(<<>>, RowAndRest(Given), FALSE)

NoBucket == Due("bucket") /\ Given = <<>> /\ Skip /\ UNCHANGED builder

PutNext ==
    /\ state = "put" /\ todo # <<>>
    /\ IF Head(todo).kind \in {"word", "pointer"} THEN Put(Head(todo)) ELSE Defer(Head(todo))
    /\ todo' = Tail(todo)
    /\ UNCHANGED <<state, tables, source>>

Flush == state = "put" /\ todo = <<>> /\ FlushNext /\ UNCHANGED builder

EndElement ==
    /\ state = "put" /\ todo = <<>> /\ deferred = <<>>
    /\ Return(calls)
    /\ state' = "job"
    /\ UNCHANGED <<tables, source, todo>>

EndArray ==
    /\ state = "job" /\ Inner.work = <<>> /\ Len(calls) > 1
    /\ Return(SubSeq(calls, 1, Len(calls) - 1))
    /\ UNCHANGED builder

EndFlush ==
    /\ state = "job" /\ Inner.work = <<>> /\ Len(calls) = 1
    /\ state' = "built"
    /\ UNCHANGED <<writer, tables, source, todo>>

(* The file that was built, or begun, is not looked at any more.           *)
NoFile ==
    /\ file' = <<>> /\ offset' = Start /\ pos' = Start
    /\ strings' = <<>> /\ deferred' = <<>> /\ promised' = <<>> /\ owed' = <<>> /\ calls' = <<>>
    /\ tables' = <<>> /\ source' = <<>> /\ todo' = <<>>

(* Flush returns an error: the rows are not what the table says, RowsFunc  *)
(* yields an error, an entry's variant is unknown, or a write fails.  What *)
(* is left of the file is of no use.                                       *)
Fail == state' = "failed" /\ NoFile
RowsFail == Due("rows") /\ Given.columns # <<>> /\ ~Collects(Given) /\ Fail
RowFails == Due("row") /\ ~Writes(Given) /\ Fail
WriteFails == "write" \in Faults /\ state \in {"job", "put"} /\ Fail

FlushStep ==
    \/ WriteDescription \/ WriteRows \/ WriteBucket \/ NoBucket \/ WriteRow
    \/ PutNext \/ Flush \/ EndElement \/ EndArray \/ EndFlush
    \/ RowsFail \/ RowFails

BuilderInit ==
    /\ file = <<>> /\ offset = Start /\ pos = Start
    /\ strings = <<>> /\ deferred = <<>> /\ promised = <<>> /\ owed = <<>> /\ calls = <<>>
    /\ state = "idle" /\ tables = <<>> /\ source = <<>> /\ todo = <<>>
=============================================================================
