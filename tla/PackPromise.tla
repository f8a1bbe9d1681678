---------------------------- MODULE PackPromise -----------------------------
(***************************************************************************)
(* What a Pack promises its callers, whatever the layout of its file: the  *)
(* state of one .pk file and of the Pack that has it open, and what each   *)
(* call makes of it.  Module Pack implements this, module Archive is built *)
(* on it.                                                                  *)
(***************************************************************************)

Nothing        == [x \in {} |-> x]
Put(f, c, v)   == [x \in DOMAIN f \cup {c} |-> IF x = c THEN v ELSE f[x]]
Without(f, c)  == [x \in DOMAIN f \ {c} |-> f[x]]

\* A file: not there yet or empty, one that every process can open, or one
\* that must not be opened.
Absent         == [kind |-> "absent", contents |-> Nothing]
Broken         == [kind |-> "broken", contents |-> Nothing]
Whole(f)       == [kind |-> "whole", contents |-> f]

Closed(file) == [file |-> file, open |-> FALSE, dirty |-> FALSE, memory |-> Nothing]

\* A new file is not whole before it is flushed for the first time.
Opened(p) ==
    IF p.file.kind = "absent"
    THEN [file |-> Broken, open |-> TRUE, dirty |-> TRUE, memory |-> Nothing]
    ELSE [file |-> p.file, open |-> TRUE, dirty |-> p.dirty, memory |-> p.file.contents]

\* Changing a Pack puts its file at risk until it is flushed.
Changed(p, memory) ==
    [file |-> Broken, open |-> p.open, dirty |-> TRUE, memory |-> memory]

Stored(p, c, v) == Changed(p, Put(p.memory, c, v))

\* The path is being replaced: until it is stored it cannot be read.
Withdrawn(p, c) == Changed(p, Without(p.memory, c))

Flushed(p) == [file |-> IF p.dirty THEN Whole(p.memory) ELSE p.file,
               open |-> p.open, dirty |-> FALSE, memory |-> p.memory]
=============================================================================
