------------------------------- MODULE Archive -------------------------------
(***************************************************************************)
(* archive/archive.go: a catalog and the packs it names, opened on demand. *)
(*                                                                         *)
(* The packs are what module PackPromise says of them, the catalog is what *)
(* module Catalog shows of it: a map from paths to pack names.  The names  *)
(* are spellings, which nothing cleans: the archive keeps the open packs   *)
(* by their lower case, the file system finds a file for each, and the two *)
(* need not agree.  "./a.pk" and "a.pk" are two Packs of one file.         *)
(***************************************************************************)
EXTENDS Integers, FiniteSets, PackPromise

CONSTANTS
    Paths,          \* the paths that are cataloged and stored
    Contents,       \* what is stored
    Names,          \* the spellings of pack names in the catalog
    LowerCase,      \* the lower case of each
    FileOf,         \* the file that the file system has for each, once cleaned
    Flags,          \* values of IsCompressed in the catalog
    Listed,         \* what the catalog lists before the first call
    MaxEdits,       \* bound: edits of the catalog
    Faults          \* what the environment may do wrong

Files   == {FileOf[n] : n \in Names}
Record  == [PackName : Names, IsCompressed : Flags]
Catalogs == UNION {[listed -> Record] : listed \in SUBSET Paths}
Version == [content : Contents, compressed : BOOLEAN]

ASSUME ArchiveAssumption ==
    /\ DOMAIN LowerCase = Names /\ DOMAIN FileOf = Names
    /\ Flags \subseteq BOOLEAN
    /\ Listed \subseteq Catalogs
    /\ MaxEdits \in Nat
    /\ Faults \subseteq {"crash", "open", "store", "close"}

VARIABLES
    files,      \* what each file is worth (PackPromise)
    present,    \* the files that exist; an empty one is worth nothing either
    pki,        \* the catalog in its file, and whether it can be read
    unsaved,    \* Catalog.dirty
    pc,         \* what the Archive is doing
    closer, catalog, packs,     \* fields of Archive
    closing,    \* the packs that Close has not closed yet
    kept,       \* history: where each path was last stored, and what
    hurt,       \* history: the files of which a call has reported an error, or
                \* that a crash has left unsaved
    shared,     \* history: the files that were asked for, while they were open,
                \* by a name of another lower case
    edits       \* history: the number of edits of the catalog

disk    == <<files, present>>
archive == <<pc, closer, packs, closing>>
past    == <<kept, hurt, shared, edits>>
vars    == <<disk, pki, unsaved, archive, catalog, past>>

Init ==
    /\ files = [f \in Files |-> Absent]
    /\ present = {}
    /\ pki \in {[whole |-> TRUE, records |-> m] : m \in Listed}
    /\ pc = "closed" /\ closer = FALSE /\ unsaved = FALSE
    /\ catalog = Nothing /\ packs = Nothing /\ closing = {}
    /\ kept = Nothing /\ hurt = {} /\ shared = {} /\ edits = 0

-----------------------------------------------------------------------------
(* Open and New: the catalog of an Archive made by New is the caller's.    *)

Open ==
    /\ pc = "closed" /\ pki.whole
    /\ pc' = "open"
    /\ closer' \in BOOLEAN
    /\ catalog' = pki.records
    /\ packs' = Nothing /\ closing' = {}
    /\ unsaved' = FALSE
    /\ UNCHANGED <<disk, pki, past>>

OpenRefused ==
    /\ pc = "closed" /\ ~pki.whole
    /\ UNCHANGED <<disk, pki, unsaved, archive, catalog, past>>

-----------------------------------------------------------------------------
(* Catalog: the caller gets the catalog itself, and may edit and flush it. *)

EditCatalog(c, r) ==
    /\ pc = "open" /\ edits < MaxEdits
    /\ catalog' = Put(catalog, c, r)
    /\ edits' = edits + 1
    /\ unsaved' = TRUE
    /\ UNCHANGED <<disk, pki, archive, kept, hurt, shared>>

Saved == [whole |-> TRUE, records |-> catalog]

\* A Flush left unfinished.  What can be told of the records (Catalog!OldOrNew)
\* does not matter here: they may name any pack.
HalfSaved ==
    {[whole |-> FALSE, records |-> Nothing]} \cup [whole : {TRUE}, records : Catalogs]

FlushCatalog ==
    /\ pc = "open" /\ unsaved
    /\ pki' = Saved /\ unsaved' = FALSE
    /\ UNCHANGED <<disk, archive, catalog, past>>

-----------------------------------------------------------------------------
(* findPack.                                                               *)

\* Mutant: a pack is kept by its name as it is spelled.
AsSpelled(r) == r.PackName

Key(r) == LowerCase[r.PackName]
At(r)  == FileOf[r.PackName]

\* The file that an open pack works on.
Opens(k) == FileOf[packs[k].name]

IsOpen(r) == Key(r) \in DOMAIN packs

\* The file in which findPack looks.
Where(r) == IF IsOpen(r) THEN Opens(Key(r)) ELSE At(r)

\* A file of which nothing is said any more: it is open in two Packs, each of
\* which writes over the other's data and listing, or it was opened broken.
Garbled           == [kind |-> "garbled", contents |-> Nothing]
Stands(old, file) == IF old.kind = "garbled" THEN old ELSE file

\* There is a file to open, once it has been created if create is TRUE.
CanOpen(r, create) == create \/ At(r) \in present

\* Another Pack has the file open.
Twice(r) == ~IsOpen(r) /\ \E k \in DOMAIN packs : Opens(k) = At(r)

Unsound(r) == Twice(r) \/ files[At(r)].kind \in {"broken", "garbled"}

\* The open pack, or a newly opened one.
PackOf(r) ==
    IF IsOpen(r)
    THEN LET k == packs[Key(r)]
         IN  [file |-> files[Where(r)], open |-> TRUE, dirty |-> k.dirty, memory |-> k.memory]
    ELSE Opened(Closed(IF Unsound(r) THEN Garbled ELSE files[At(r)]))

\* History: the file has been open by a name of another lower case.
Aliased(r) == \E k \in DOMAIN packs :
    Opens(k) = Where(r) /\ LowerCase[packs[k].name] # LowerCase[r.PackName]

\* The pack is open now, and is p.
Keeps(r, p) ==
    LET name == IF IsOpen(r) THEN packs[Key(r)].name ELSE r.PackName
    IN  /\ packs' = Put(packs, Key(r), [name |-> name, dirty |-> p.dirty, memory |-> p.memory])
        /\ files' = [files EXCEPT ![Where(r)] = Stands(PackOf(r).file, p.file)]
        /\ present' = present \cup {Where(r)}
        /\ shared' = shared \cup IF Aliased(r) THEN {Where(r)} ELSE {}

\* findPack fails: the path is not cataloged, or its pack cannot be opened.
NotCataloged(c) ==
    /\ pc = "open" /\ c \notin DOMAIN catalog
    /\ UNCHANGED vars

\* A file that was created for it stays, maybe with half a signature.
NotOpened(c, create) ==
    /\ pc = "open" /\ c \in DOMAIN catalog
    /\ ~IsOpen(catalog[c])
    /\ ~CanOpen(catalog[c], create) \/ Unsound(catalog[c]) \/ "open" \in Faults
    /\ present' \in {present} \cup IF create THEN {present \cup {At(catalog[c])}} ELSE {}
    /\ \/ UNCHANGED <<files, hurt>>
       \/ /\ files[At(catalog[c])].kind = "absent" /\ At(catalog[c]) \in present'
          /\ "open" \in Faults
          /\ files' = [files EXCEPT ![At(catalog[c])] = Broken]
          /\ hurt' = hurt \cup {At(catalog[c])}
    /\ UNCHANGED <<pki, unsaved, archive, catalog, kept, shared, edits>>

FindPack(c, create) ==
    /\ pc = "open" /\ c \in DOMAIN catalog
    /\ IsOpen(catalog[c]) \/ CanOpen(catalog[c], create)

-----------------------------------------------------------------------------
(* Store and Load.                                                         *)

\* Mutant: the compression state is looked at after the data is stored.
StoresFirst(p, c, v) == Stored(p, c, v)

\* The pack has been opened, and nothing else.
Refuses(p, c, v) == p

\* The file data does not have the compression state that is cataloged.
StoreRefused(c, v) ==
    /\ FindPack(c, TRUE)
    /\ v.compressed # catalog[c].IsCompressed
    /\ Keeps(catalog[c], Refuses(PackOf(catalog[c]), c, v))
    /\ UNCHANGED <<pki, unsaved, pc, closer, closing, catalog, kept, hurt, edits>>

Store(c, v) ==
    /\ FindPack(c, TRUE)
    /\ v.compressed = catalog[c].IsCompressed
    /\ Keeps(catalog[c], Stored(PackOf(catalog[c]), c, v))
    /\ kept' = Put(kept, c, [at |-> Where(catalog[c]), version |-> v])
    /\ UNCHANGED <<pki, unsaved, pc, closer, closing, catalog, hurt, edits>>

\* Pack.Store fails: the path is lost, and more of this pack may be.
StoreFails(c, v) ==
    /\ "store" \in Faults
    /\ FindPack(c, TRUE)
    /\ v.compressed = catalog[c].IsCompressed
    /\ Keeps(catalog[c], Withdrawn(PackOf(catalog[c]), c))
    /\ hurt' = hurt \cup {Where(catalog[c])}
    /\ UNCHANGED <<pki, unsaved, pc, closer, closing, catalog, kept, edits>>

Load(c) ==
    /\ FindPack(c, FALSE)
    /\ Keeps(catalog[c], PackOf(catalog[c]))
    /\ UNCHANGED <<pki, unsaved, pc, closer, closing, catalog, kept, hurt, edits>>

\* A caller flushes the pack that FindPack has returned.
FlushPack(c) ==
    /\ FindPack(c, FALSE)
    /\ Keeps(catalog[c], Flushed(PackOf(catalog[c])))
    /\ UNCHANGED <<pki, unsaved, pc, closer, closing, catalog, kept, hurt, edits>>

-----------------------------------------------------------------------------
(* Close.                                                                  *)

BeginClose ==
    /\ pc = "open"
    /\ pc' = "closing"
    /\ closing' = DOMAIN packs
    /\ UNCHANGED <<disk, pki, unsaved, closer, packs, catalog, past>>

PackAt(k) == [file |-> files[Opens(k)], open |-> TRUE,
              dirty |-> packs[k].dirty, memory |-> packs[k].memory]

\* What the file of a pack may be when its last writes may have failed.
Remains(k) == IF packs[k].dirty
              THEN {Stands(files[Opens(k)], file) : file \in {Broken, Whole(packs[k].memory)}}
              ELSE {files[Opens(k)]}

\* The packs are closed in any order.
ClosePack(k) ==
    /\ pc = "closing" /\ k \in closing
    /\ files' = [files EXCEPT ![Opens(k)] = Stands(@, Flushed(PackAt(k)).file)]
    /\ packs' = [packs EXCEPT ![k].dirty = FALSE]
    /\ closing' = closing \ {k}
    /\ UNCHANGED <<present, pki, unsaved, pc, closer, catalog, past>>

\* Mutant: Close returns at the first error.
NoMore(k) == {}

Others(k) == closing \ {k}

ClosePackFails(k) ==
    /\ "close" \in Faults
    /\ pc = "closing" /\ k \in closing
    /\ \E left \in Remains(k) : files' = [files EXCEPT ![Opens(k)] = left]
    /\ packs' = [packs EXCEPT ![k].dirty = FALSE]
    /\ closing' = Others(k)
    /\ hurt' = hurt \cup {Opens(k)}
    /\ UNCHANGED <<present, pki, unsaved, pc, closer, catalog, kept, shared, edits>>

\* Then the catalog, if the Archive has opened it.
EndClose ==
    /\ pc = "closing" /\ closing = {}
    /\ pc' = "closed"
    /\ packs' = Nothing
    /\ \/ closer /\ pki' = IF unsaved THEN Saved ELSE pki
       \/ closer /\ unsaved /\ "close" \in Faults /\ pki' \in HalfSaved
       \/ ~closer /\ UNCHANGED pki
    /\ unsaved' = FALSE
    /\ catalog' = Nothing
    /\ UNCHANGED <<disk, closer, closing, past>>

\* The process ends.
Crash ==
    /\ "crash" \in Faults
    /\ pc # "closed"
    /\ pc' = "closed" /\ packs' = Nothing /\ closing' = {} /\ catalog' = Nothing
    /\ files' \in {g \in [Files -> UNION {Remains(k) : k \in DOMAIN packs}
                                   \cup {files[f] : f \in Files}] :
            \A f \in Files :
                LET own == {k \in DOMAIN packs : Opens(k) = f}
                IN  IF own = {} THEN g[f] = files[f]
                    ELSE \E k \in own : g[f] \in Remains(k)}
    /\ hurt' = hurt \cup {Opens(k) : k \in {k \in DOMAIN packs : packs[k].dirty}}
    /\ unsaved' = FALSE /\ UNCHANGED <<present, pki, closer, kept, shared, edits>>

Next ==
    \/ Open \/ OpenRefused
    \/ \E c \in Paths, r \in Record : EditCatalog(c, r)
    \/ FlushCatalog
    \/ \E c \in Paths, create \in BOOLEAN : NotCataloged(c) \/ NotOpened(c, create)
    \/ \E c \in Paths, v \in Version :
          StoreRefused(c, v) \/ Store(c, v) \/ StoreFails(c, v)
    \/ \E c \in Paths : Load(c) \/ FlushPack(c)
    \/ BeginClose
    \/ \E k \in closing : ClosePack(k) \/ ClosePackFails(k)
    \/ EndClose
    \/ Crash

Spec == Init /\ [][Next]_vars

-----------------------------------------------------------------------------
(* Properties.                                                             *)

\* What Load returns for a path.
Loads(c) ==
    IF /\ c \in DOMAIN catalog
       /\ IsOpen(catalog[c]) \/ CanOpen(catalog[c], FALSE)
       /\ c \in DOMAIN PackOf(catalog[c]).memory
    THEN {PackOf(catalog[c]).memory[c]} ELSE {}

\* The catalog leads findPack to file f for path c, and nobody has the file
\* open by a name of another lower case.
InPlace(c, f) ==
    /\ c \in DOMAIN catalog /\ Where(catalog[c]) = f
    /\ ~Aliased(catalog[c]) /\ f \notin shared

\* A path that was stored loads as it was last stored as long as the catalog
\* leads findPack to that file, no call has failed on it, and it was not open
\* by a name of another lower case: in the session that stored it and in later
\* ones, whatever happens to other packs, those that are shared among them,
\* and however often the catalog is edited in between.  One name in upper and
\* lower case is one pack.
LoadsStored == pc = "open" =>
    \A c \in DOMAIN kept :
        InPlace(c, kept[c].at) /\ kept[c].at \notin hurt => Loads(c) = {kept[c].version}

\* After Close, every pack of which no error was reported is in its file,
\* also when another pack could not be closed, or was lost because a second
\* one was opened on its file.
Durable == pc = "closed" =>
    \A c \in DOMAIN kept : kept[c].at \notin hurt \cup shared =>
        LET file == files[kept[c].at]
        IN  file.kind = "whole" /\ c \in DOMAIN file.contents
            /\ file.contents[c] = kept[c].version

\* A Load and a Store that is refused change nothing that another Load of the
\* same file returns, and put no file at risk that was whole, unless they open
\* a second Pack of it.
ReadingIsHarmless ==
    [][/\ <<packs, files>>' # <<packs, files>> /\ UNCHANGED <<catalog, kept>>
       /\ \E c \in Paths : Load(c) \/ \E v \in Version : StoreRefused(c, v)
       =>
        /\ \A c \in Paths, f \in Files :
              InPlace(c, f) /\ InPlace(c, f)' => Loads(c)' = Loads(c)
        /\ \A f \in Files \ shared' : files[f].kind = "whole" => files'[f] = files[f]]_vars

Memories == UNION {[known -> Version] : known \in SUBSET Paths}
File     == [kind : {"absent", "broken", "garbled", "whole"}, contents : Memories]

\* The shape of every variable.
TypeOK ==
    /\ files \in [Files -> File]
    /\ present \in SUBSET Files
    /\ pki \in [whole : BOOLEAN, records : Catalogs]
    /\ catalog \in Catalogs
    /\ pc \in {"closed", "open", "closing"}
    /\ closer \in BOOLEAN /\ unsaved \in BOOLEAN
    /\ \A k \in DOMAIN packs :
          /\ k \in {LowerCase[n] : n \in Names}
          /\ packs[k] \in [name : Names, dirty : BOOLEAN, memory : Memories]
    /\ closing \subseteq DOMAIN packs
    /\ \A c \in DOMAIN kept : c \in Paths /\ kept[c] \in [at : Files, version : Version]
    /\ hurt \in SUBSET Files /\ shared \in SUBSET Files
=============================================================================
