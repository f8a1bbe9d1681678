-------------------------- MODULE ArchiveInvariant --------------------------
(***************************************************************************)
(* The inductive invariant of Archive: where a path that was stored is,    *)
(* between any two steps.                                                  *)
(***************************************************************************)
EXTENDS Archive

\* A pack is kept by the lower case of the name it was opened by.
Named == \A k \in DOMAIN packs : k = LowerCase[packs[k].name]

\* Two open packs work on one file only when they were opened by names of
\* different lower case.
OnePack == \A k, l \in DOMAIN packs : Opens(k) = Opens(l) => k = l \/ Opens(k) \in shared

\* The packs that are open, and those that Close has yet to close.
Sessions ==
    /\ pc = "closed" => packs = Nothing
    /\ pc = "closing" => \A k \in DOMAIN packs \ closing : ~packs[k].dirty

\* A file of which no error is known can be told, and is broken only while a
\* pack has yet to write its listing.
Sound == \A f \in Files \ (hurt \cup shared) :
    /\ files[f].kind # "garbled"
    /\ files[f].kind = "broken" => \E k \in DOMAIN packs : Opens(k) = f /\ packs[k].dirty

\* The file holds version v of path c, and so does the pack that has it open.
Holds(file, c, v) == /\ file.kind = "whole"
                     /\ c \in DOMAIN file.contents
                     /\ file.contents[c] = v

Remembers(pack, c, v) == c \in DOMAIN pack.memory /\ pack.memory[c] = v

\* A path that was stored is in the open pack's memory; once it is flushed,
\* or no pack has the file open, it is in the file.
KeptAt(c, f, v) ==
    /\ f \in Files /\ f \in present
    /\ \A k \in DOMAIN packs : Opens(k) = f =>
          Remembers(packs[k], c, v) /\ (packs[k].dirty \/ Holds(files[f], c, v))
    /\ (\A k \in DOMAIN packs : Opens(k) # f) => Holds(files[f], c, v)

Keeping == \A c \in DOMAIN kept : kept[c].at \notin hurt \cup shared =>
    KeptAt(c, kept[c].at, kept[c].version)

Safe == Named /\ OnePack /\ Sessions /\ Sound /\ Keeping
=============================================================================
