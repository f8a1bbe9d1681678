---------------------------- MODULE FdbInvariant ----------------------------
(***************************************************************************)
(* Why the pointers of a file lead where they were promised to: an         *)
(* invariant of Fdb that its steps preserve.                               *)
(***************************************************************************)
EXTENDS Fdb

Values == [kind : {"text"}, of : Texts] \cup [kind : {"long"}, of : Int]
Items == Values \cup [kind : {"word", "pointer"}, of : Int]
Jobs ==
    [job : {"description"}, given : Tables]
        \cup [job : {"rows"}, given : {t \in Tables : t.name \in DOMAIN source}]
        \cup [job : {"bucket"}, given : Seq(Rows)]
        \cup [job : {"row"}, given : Rows]
Calls == [slot : Nat, work : Seq(Jobs), at : Nat]

(* What collectBuckets asks of rows, but for their length.                 *)
Identified(rs) == \A i \in 1..Len(rs) : rs[i] # <<>> /\ HasId(rs[i])

BuilderTypeOK ==
    /\ state \in {"idle", "job", "put", "built", "failed"}
    /\ offset \in Nat /\ pos \in Nat
    /\ todo \in Seq(Items)
    /\ deferred \in Seq([home : Nat, value : Values])
    /\ calls \in Seq(Calls)
    /\ \A n \in DOMAIN source : source[n] \in [rows : Seq(Rows), err : BOOLEAN]

(* The calls that wait for an inner one have an element at work.           *)
Nested ==
    /\ state \in {"job", "put"} => calls # <<>>
    /\ state = "put" => Inner.work # <<>>
    /\ \A i \in 1..Len(calls) - 1 : calls[i].work # <<>>

(* Fields do not overlap, and end where the writer counts the file to.     *)
LaidOut(f, end) ==
    /\ \A p \in DOMAIN f : p \in Nat /\ f[p].size \in Nat \ {0} /\ p + f[p].size <= end
    /\ \A p, q \in DOMAIN f : p < q => p + f[p].size <= q

IsPlace(f, h) == h \in DOMAIN f /\ f[h].kind = "word" /\ f[h].size = 4

(* What a write does: of the fields there are, it changes the places H.    *)
Keeps(f, g, H) ==
    /\ DOMAIN f \subseteq DOMAIN g
    /\ \A p \in DOMAIN f \ H : g[p] = f[p]
    /\ \A h \in H : IsPlace(f, h) /\ IsPlace(g, h)

(* Every deferred value has a place of its own for its pointer.            *)
Homes ==
    /\ \A h \in DOMAIN promised : IsPlace(file, h) /\ promised[h] \in Values
    /\ \A i \in 1..Len(deferred) :
          /\ deferred[i].home \in DOMAIN promised
          /\ promised[deferred[i].home] = deferred[i].value
    /\ \A i, j \in 1..Len(deferred) : deferred[i].home = deferred[j].home => i = j

Interned ==
    \A t \in DOMAIN strings :
        Holds(strings[t], "text") /\ file[strings[t]].of = t

(* So has every element of an array that is still to be written.           *)
Slot(call, k) == call.slot + 4 * (k - 1)
Slots ==
    \A i \in 1..Len(calls) : \A k \in 1..Len(calls[i].work) :
        IsPlace(file, Slot(calls[i], k)) /\ Slot(calls[i], k) \notin DOMAIN promised

(* The pointers of a complete file cannot be spoiled any more, because no  *)
(* write of the builder ends in what is written, but at a place that waits *)
(* for it.                                                                 *)
WriterInvariant ==
    /\ BuilderTypeOK /\ Nested /\ LaidOut(file, pos)
    /\ Homes /\ Interned /\ Slots
    /\ Positioned /\ PromisesKept
=============================================================================
