------------------------------ MODULE MCCatalog -----------------------------
(* Catalog instantiated for TLC: a pack name with a separator and one      *)
(* without; an empty file, one of another version and a short one.          *)
EXTENDS Catalog

MCCleaned == [k \in Keys |-> IF k = "x/a.pk" THEN "x\\a.pk" ELSE k]
MCForeignFiles == {<< >>, <<[kind |-> "version", value |-> 2]>>, <<Version>>}

(* Bounds: what follows the opening of a half written file is not explored,*)
(* and a catalog with a half written file is stored to only while small.   *)
Bounded ==
    /\ health # "lost"
    /\ health = "torn" /\ pc = "store" => Len(records) + Len(added) <= 1
=============================================================================
