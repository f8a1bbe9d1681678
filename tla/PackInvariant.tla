--------------------------- MODULE PackInvariant ---------------------------
(***************************************************************************)
(* The inductive invariant of Pack: what the file and the list look like   *)
(* between any two steps, as long as no call has failed.                   *)
(***************************************************************************)
EXTENDS Pack

End(r) == r.dataPointer + DataSize(r) + 1   \* behind the record's divider

\* The blocks of the records at the indices live lie between the signature
\* and limit, do not overlap, and hold what was stored.
Laid(list, live, limit) ==
    /\ \A i \in live : /\ 1 <= list[i].dataPointer
                       /\ End(list[i]) <= limit
                       /\ Good(list[i])
    /\ \A i, j \in live : i # j => \/ End(list[i]) <= list[j].dataPointer
                                   \/ End(list[j]) <= list[i].dataPointer

\* Those records are the ones of contents.
Matches(list, live, contents) ==
    /\ \A i \in live :
          /\ list[i].crc \in DOMAIN contents
          /\ contents[list[i].crc] = [content |-> list[i].content,
                                      compressed |-> list[i].compressed]
    /\ \A c \in DOMAIN contents : \E i \in live : list[i].crc = c

\* A position where a block may start without leaving a gap.
Borders(list, live, p) == p = 1 \/ \E j \in live : End(list[j]) = p

Tiled(list, live, limit) ==
    /\ Borders(list, live, limit)
    /\ \A i \in live : Borders(list, live, list[i].dataPointer)

\* A list that is complete, with its listing to be written at limit.
Sound(list, limit) ==
    /\ Sorted(list)
    /\ Laid(list, DOMAIN list, limit)
    /\ Matches(list, DOMAIN list, stored)
    /\ Tiled(list, DOMAIN list, limit)
    /\ 1 <= limit /\ limit < PointerSpan

\* The file ends in the listing at p and the trailer.
FlushedAt(p) ==
    /\ p \in Nat /\ ListAt(p)
    /\ size = p + disk[p].value + 3
    /\ disk[0] = Signature
    /\ disk[size - 2] = Pointer(p)
    /\ disk[size - 1] = Revision(saved.revision)
    /\ Sound(DiskList(p), p)

\* A file no pack has been flushed to.
Untouched == /\ DOMAIN stored = {}
             /\ saved.revision < 0
             /\ size > 0 => disk[0] # Signature

WhenClosed == pc = "closed" =>
    /\ ~dirty /\ records = << >> /\ revision = 0
    /\ Untouched \/ \E p \in 0 .. size : FlushedAt(p)

WhenClean == pc \in {"idle", "copy"} /\ ~dirty =>
    /\ FlushedAt(numRecordsPointer)
    /\ revision = saved.revision
    /\ records = << >> \/ records = DiskList(numRecordsPointer)
    /\ pc = "copy" => records = DiskList(numRecordsPointer)

WhenDirty == pc \in {"idle", "copy"} /\ dirty =>
    /\ disk[0] = Signature
    /\ numRecordsPointer <= size
    /\ saved.revision < revision
    /\ Sound(records, numRecordsPointer)

\* The records of the loop of updateRecord that are in their final place.
Settled == DOMAIN records \ (pending \cup {index})

WhenUpdating == pc = "update" =>
    /\ dirty
    /\ disk[0] = Signature
    /\ numRecordsPointer <= size /\ numRecordsPointer < PointerSpan
    /\ saved.revision < revision
    /\ index \notin pending
    /\ records[index].crc \notin DOMAIN stored
    /\ Sorted(records)
    /\ Laid(records, DOMAIN records \ {index}, numRecordsPointer)
    /\ Matches(records, DOMAIN records \ {index}, stored)
    /\ Tiled(records, Settled, pos)
    /\ 1 <= pos /\ pos < numRecordsPointer
    /\ \A i \in Settled : End(records[i]) <= pos
    /\ \A i \in pending : pos < records[i].dataPointer

WhenCopying == pc = "copy" =>
    /\ 1 <= pos
    /\ Borders(records, DOMAIN records \ pending, pos)
    /\ \A i \in DOMAIN records \ pending : End(records[i]) <= pos
    /\ \A i \in pending : pos <= records[i].dataPointer

Safe == intact =>
    /\ pc # "garbled"
    /\ WhenClosed /\ WhenClean /\ WhenDirty /\ WhenUpdating /\ WhenCopying
-----------------------------------------------------------------------------
(* The list, also after calls have failed, up to the point where what is   *)
(* in the file is no longer known.                                         *)

Listed(list) == Sorted(list) /\ \A i \in DOMAIN list : list[i].node = <<i, Len(list)>>
ListedAt(p)  == ListAt(p) => Listed(DiskList(p))

ShutIsEmpty == pc \in {"closed", "garbled"} => ~dirty /\ records = << >>
FileListed  == intact /\ pc = "closed" /\ TrailerAt(size) => ListedAt(disk[size - 2].value)
OpenListed  == health # "lost" =>
    /\ pc = "update" => dirty /\ Sorted(records)
    /\ pc \in {"idle", "copy"} =>
          Listed(records) /\ (~dirty => ListedAt(numRecordsPointer))

ListInvariant == ShutIsEmpty /\ FileListed /\ OpenListed
=============================================================================
