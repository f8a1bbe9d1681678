--------------------------- MODULE PackRefinement ---------------------------
(***************************************************************************)
(* Pack implements PackStore: what the bytes in the file and the list in   *)
(* memory amount to for a caller.                                          *)
(***************************************************************************)
EXTENDS PackInvariant

Promise == INSTANCE PackPromise

\* What reads back of the records at the indices live.
View(list, live) ==
    [c \in {list[i].crc : i \in {j \in live : Good(list[j])}} |->
        LET r == list[CHOOSE i \in live : Good(list[i]) /\ list[i].crc = c]
        IN  [content |-> r.content, compressed |-> r.compressed]]

FileView ==
    IF size = 0 THEN Promise!Absent
    ELSE IF /\ ~dirty /\ pc # "garbled"
            /\ size >= 2 /\ disk[0] = Signature /\ TrailerAt(size)
            /\ ListAt(disk[size - 2].value)
    THEN LET list == DiskList(disk[size - 2].value)
         IN  Promise!Whole(View(list, DOMAIN list))
    ELSE Promise!Broken

MemoryView ==
    CASE pc = "idle" /\ Readable -> View(List, DOMAIN List)
      [] pc = "update" -> View(records, DOMAIN records \ {index})
      [] pc = "copy"   -> View(records, DOMAIN records)
      [] OTHER         -> Promise!Nothing

PackView == [file |-> FileView, open |-> pc \in {"idle", "update", "copy"},
             dirty |-> dirty, memory |-> MemoryView]

Abstract == INSTANCE PackStore WITH Paths <- Crcs, Versions <- Version, p <- PackView

\* A Pack whose calls succeed does what PackStore says: each Store changes
\* one path, WriteTo none, Flush and Close make everything durable, and what
\* was not flushed is all a crash can cost.
Implements == Abstract!Spec
=============================================================================
