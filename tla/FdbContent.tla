------------------------------ MODULE FdbContent ------------------------------
(***************************************************************************)
(* Why a file that is complete holds what was built: an invariant of Fdb   *)
(* that its steps preserve, next to WriterInvariant.  A place that waits   *)
(* for a pointer may still change, all other fields stay; when a place     *)
(* waits no more, it leads to the element it was made for.                 *)
(***************************************************************************)
EXTENDS FdbInvariant

Waits(o) ==
    \/ o \in Pending
    \/ \E i \in 1..Len(calls) : \E k \in 1..Len(calls[i].work) : o = Slot(calls[i], k)

(* The word at o will not change, and is what puts item.                   *)
Leads(o, item) ==
    /\ IsWord(o) /\ ~Waits(o)
    /\ item.kind = "word" => file[o].of = item.of
    /\ item.kind = "pointer" => file[o].of = Behind(o)
    /\ item.kind \in {"text", "long"} =>
          Holds(file[o].of, item.kind) /\ file[file[o].of].of = item.of

Stored(o, items) ==
    o \in Nat /\ \A j \in 1..Len(items) : Leads(o + 4 * (j - 1), items[j])

Owes(o, job) == o \in DOMAIN owed /\ owed[o] = job

(* What an element is at the place it begins.                              *)
RowAndRestAt(o, list) ==
    IF list = <<>> THEN o = noData
    ELSE Owes(o, Job("row", Head(list))) /\ Owes(o + 4, Job("bucket", Tail(list)))

BucketsAt(o, table) ==
    /\ table.columns # <<>> => Collects(table)
    /\ \E buckets \in BucketsOf(table) :
          /\ Stored(o, <<Word(Len(buckets)), Pointer>>)
          /\ \A b \in 1..Len(buckets) : Owes(o + 8 + 4 * (b - 1), Job("bucket", buckets[b]))

Fulfilled(o, job) ==
    /\ job.job = "description" => Stored(o, DescriptionOf(job.given))
    /\ job.job = "rows" => BucketsAt(o, job.given)
    /\ job.job = "bucket" => RowAndRestAt(o, job.given)
    /\ job.job = "row" => Writes(job.given) /\ Stored(o, RowOf(job.given))

(* A slot that is still to be set holds its placeholder.                   *)
OwedOnce ==
    /\ \A s \in DOMAIN owed : IsPlace(file, s) /\ s \notin DOMAIN promised /\ owed[s] \in Jobs
    /\ \A i \in 1..Len(calls) : \A k \in 1..Len(calls[i].work) :
          Owes(Slot(calls[i], k), calls[i].work[k])
    /\ \A i, j \in 1..Len(calls) :
          \A k \in 1..Len(calls[i].work), l \in 1..Len(calls[j].work) :
             Slot(calls[i], k) = Slot(calls[j], l) => i = j /\ k = l

OwedKept ==
    \A s \in DOMAIN owed :
        IF Waits(s) THEN owed[s].job = "bucket" => file[s].of = noData
        ELSE Fulfilled(file[s].of, owed[s])

(* The arrays that run are those of the elements at work above them.       *)
Opened ==
    \A i \in 1..Len(calls) - 1 :
        /\ Head(calls[i].work).job \in {"rows", "bucket"}
        /\ Fulfilled(calls[i].at, Head(calls[i].work))

(* The element at work has been put up to todo.                            *)
Words(job) == IF job.job = "description" THEN DescriptionOf(job.given) ELSE RowOf(job.given)

IsPut(o, item) ==
    IF item.kind \in {"word", "pointer"} THEN Leads(o, item)
    ELSE o \in DOMAIN promised /\ promised[o] = item

PutSoFar ==
    state = "put" =>
        LET job == Head(Inner.work)
            n   == Len(Words(job)) - Len(todo)
        IN  /\ job.job \in {"description", "row"}
            /\ job.job = "row" => Writes(job.given)
            /\ n >= 0 /\ \A k \in 1..Len(todo) : todo[k] = Words(job)[n + k]
            /\ todo # <<>> => pos = Inner.at + 4 * n
            /\ \A j \in 1..n : IsPut(Inner.at + 4 * (j - 1), Words(job)[j])

Headed ==
    state \in {"job", "put", "built"} =>
        /\ pos < noData
        /\ Stored(Start, <<Word(Len(tables)), Word(Start + 8)>>)
        /\ \A k \in 1..2 * Len(tables) : Owes(Start + 8 + 4 * (k - 1), TableJobs(tables)[k])

Settled ==
    /\ tables \in Seq(Tables)
    /\ state # "put" => deferred = <<>>
    /\ state = "built" => calls # <<>> /\ Len(calls) = 1 /\ Inner.work = <<>>

ContentInvariant ==
    OwedOnce /\ OwedKept /\ Opened /\ PutSoFar /\ Headed /\ Settled
=============================================================================
