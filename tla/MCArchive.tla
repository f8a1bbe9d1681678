------------------------------ MODULE MCArchive -----------------------------
(* Archive instantiated for TLC: a pack in two spellings of one lower case *)
(* and one of another, and a second file whose name, with a Kelvin sign,   *)
(* has the lower case of the first.                                        *)
EXTENDS ArchiveInvariant, TLC

MCLowerCase == [n \in Names |-> IF n = "./a.pk" THEN n ELSE "a.pk"]
MCFileOf    == [n \in Names |-> IF n = "a.pKelvin" THEN 2 ELSE 1]
MCListed    == {[c \in {p} |-> [PackName |-> "A.pk", IsCompressed |-> TRUE]] : p \in Paths}

Symmetry == Permutations(Paths) \cup Permutations(Contents)
=============================================================================
