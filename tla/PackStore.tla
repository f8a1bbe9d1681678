----------------------------- MODULE PackStore ------------------------------
(***************************************************************************)
(* The promise of a Pack as a specification: one path changes at a time,   *)
(* and Flush makes all of it durable.                                      *)
(***************************************************************************)
EXTENDS PackPromise

CONSTANTS Paths, Versions

VARIABLE p      \* the file and the Pack

Init == p = Closed(Absent)

(* The calls, as relations between what was promised and what is.          *)
Open(a, b) == ~a.open /\ a.file.kind # "broken" /\ b = Opened(a)

Store(a, b) == a.open /\ \E c \in Paths, v \in Versions : b = Stored(a, c, v)

Withdraw(a, b) == a.open /\ \E c \in DOMAIN a.memory : b = Withdrawn(a, c)

Flush(a, b) == a.open /\ b = Flushed(a)

Close(a, b) == a.open /\ b = Closed(Flushed(a).file)

\* What is left of a Pack that was not clean is not promised.
Crash(a, b) ==
    /\ a.open
    /\ b = Closed(b.file)
    /\ a.dirty \/ b.file = a.file

Step(a, b) ==
    \/ Open(a, b) \/ Store(a, b) \/ Withdraw(a, b)
    \/ Flush(a, b) \/ Close(a, b) \/ Crash(a, b)

\* The quantifiers make TLC look at each state once.
Next == \E a \in {p}, b \in {p'} : Step(a, b)

Spec == Init /\ [][Next]_p
=============================================================================
