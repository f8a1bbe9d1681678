------------------------------ MODULE FdbReading ------------------------------
(***************************************************************************)
(* Why what a reader finds is what was built: an invariant of Fdb that its *)
(* steps preserve, next to WriterInvariant and ContentInvariant.  A cursor *)
(* stands in the list of one bucket, and what it has behind it and before  *)
(* it is told by the places that the rows of the bucket had in the rows    *)
(* the builder got.                                                        *)
(***************************************************************************)
EXTENDS FdbContent

CursorTypeOK ==
    /\ DOMAIN rows = DOMAIN NoRows /\ rows.state \in {"none", "running", "ended"}
    /\ DOMAIN find = DOMAIN NoFind
    /\ find.state \in {"none", "running", "found", "notFound", "error", "astray", "panic"}

(* A file that is open is complete, and its tables were read from it.      *)
Complete == reader.open => state = "built" /\ reader.tables = TablesAt(Start)

BucketsIn(t) == 0..reader.tables[t].numBuckets - 1

(* place[b][k] is the place of row k of bucket b.                          *)
OrdersOf(t, b) ==
    LET table == reader.tables[t]
    IN  {p \in Orders(RowsOf(t), InBucket(RowsOf(t), table.numBuckets, b)) :
            Owes(table.base + 4 * b, Job("bucket", InOrder(RowsOf(t), p)))}
Placings(t) ==
    {place \in [BucketsIn(t) -> UNION {OrdersOf(t, b) : b \in BucketsIn(t)}] :
        \A b \in BucketsIn(t) : place[b] \in OrdersOf(t, b)}

(* A Bucket that has read the first c rows of those at the places p.       *)
Rest(rs, p, c) == [k \in 1..Len(p) - c |-> rs[p[k + c]]]
StandsAt(bucket, rs, p, c) ==
    /\ c \in 0..Len(p)
    /\ IF bucket.finished THEN c = Len(p)
       ELSE bucket.next # noData /\ RowAndRestAt(bucket.next, Rest(rs, p, c))

(* Each row yielded is one of the builder's, and comes after those in front*)
(* of it in its bucket.                                                    *)
IsRead(from, k) == \E i \in DOMAIN from : from[i] = k
InFront(p, k, from, j) == \A l \in 1..k - 1 : \E i \in 1..j - 1 : from[i] = p[l]
Drawn(place, from, got, rs) ==
    /\ from \in [1..Len(got) -> 1..Len(rs)]
    /\ \A i \in 1..Len(got) : got[i] = rs[from[i]]
    /\ \A i, j \in 1..Len(got) : from[i] = from[j] => i = j
    /\ \A j \in 1..Len(got), b \in DOMAIN place : \A k \in 1..Len(place[b]) :
          from[j] = place[b][k] => InFront(place[b], k, from, j)

(* What has been read when row c of the bucket at index has been: all that *)
(* is in front of it, but what a read that failed has lost.                *)
Reached(place, from, index, c, lost) ==
    \A b \in DOMAIN place : \A k \in 1..Len(place[b]) :
        /\ IsRead(from, place[b][k]) => b < index \/ (b = index /\ k <= c)
        /\ b = index /\ k <= c => IsRead(from, place[b][k])
        /\ b < index /\ ~lost => IsRead(from, place[b][k])

Following(it, place, from) ==
    LET rs == RowsOf(it.table)
    IN  /\ Drawn(place, from, it.yielded, rs)
        /\ it.state = "running" =>
              /\ it.index \in 0..reader.tables[it.table].numBuckets
              /\ IF it.index \in DOMAIN place
                 THEN \E c \in 0..Len(place[it.index]) :
                          /\ Reached(place, from, it.index, c, it.lost)
                          /\ StandsAt(it.bucket, rs, place[it.index], c)
                 ELSE Reached(place, from, it.index, 0, it.lost)
        /\ it.state # "running" /\ ~it.lost => \A k \in 1..Len(rs) : IsRead(from, k)

Iterates(it) ==
    /\ it.state = "none" => it = NoRows
    /\ it.state # "none" =>
          /\ reader.open /\ it.table \in 1..Len(tables) /\ it.yielded \in Seq(Rows)
          /\ \E place \in Placings(it.table),
                from \in [1..Len(it.yielded) -> 1..Len(RowsOf(it.table))] :
                Following(it, place, from)

(* No row behind the cursor of a lookup has the id.                        *)
LooksUp(f) ==
    f.state # "none" =>
        /\ reader.open /\ f.table \in 1..Len(tables) /\ f.id \in Int
        /\ f.state = "running" =>
              LET bucket == Rem(f.id, reader.tables[f.table].numBuckets)
                  rs == RowsOf(f.table)
              IN  /\ bucket \in BucketsIn(f.table)
                  /\ \E place \in Placings(f.table) : \E c \in 0..Len(place[bucket]) :
                        /\ StandsAt(f.bucket, rs, place[bucket], c)
                        /\ \A k \in 1..c : Id(rs[place[bucket][k]]) # f.id

ReaderInvariant == CursorTypeOK /\ Complete /\ Iterates(rows) /\ LooksUp(find) /\ FindFirst

(* All that the proofs about a file and its reader rest on.                *)
FileInvariant == WriterInvariant /\ ContentInvariant /\ ReaderInvariant
=============================================================================
