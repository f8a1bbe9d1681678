------------------------------- MODULE RowSet -------------------------------
(***************************************************************************)
(* What an iteration over a table promises (Table.Rows and                 *)
(* HashTable.Rows): every row of the table once, in some order, and then   *)
(* the end.                                                                *)
(***************************************************************************)
EXTENDS BagsExt, Integers

VARIABLES
    content,  \* what the tables hold: a sequence of bags of rows
    phase,    \* of the iteration: "none", "running" or "ended"
    table,    \* the table that is iterated
    got       \* the bag of the rows it has yielded

vars == <<content, phase, table, got>>

Init == content = <<>> /\ phase = "none" /\ table = 0 /\ got = <<>>

(* The file is written anew, the reader closed or a read fails: nothing is *)
(* promised of an iteration that is broken off.                            *)
Replace ==
    /\ phase' = "none" /\ table' = 0 /\ got' = <<>>

Begin ==
    /\ phase # "running"
    /\ phase' = "running" /\ got' = <<>>
    /\ table' \in DOMAIN content
    /\ UNCHANGED content

Yield ==
    /\ phase = "running"
    /\ \E row \in DOMAIN content[table] :
          /\ got' = BagAdd(got, row)
          /\ got'[row] <= content[table][row]
    /\ UNCHANGED <<content, phase, table>>

End ==
    /\ phase = "running" /\ got = content[table]
    /\ phase' = "ended"
    /\ UNCHANGED <<content, table, got>>

Next == Replace \/ Begin \/ Yield \/ End

Safety == Init /\ [][Next]_vars
Ending == WF_vars(Yield \/ End)
=============================================================================
