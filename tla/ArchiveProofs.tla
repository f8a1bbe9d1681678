---------------------------- MODULE ArchiveProofs ---------------------------
(***************************************************************************)
(* What an Archive promises holds for any number of paths, spellings and   *)
(* packs: first the type of every variable, then the safety properties.    *)
(***************************************************************************)
EXTENDS ArchiveInvariant, TLAPS

PackState == [file : File, open : BOOLEAN, dirty : BOOLEAN, memory : Memories]

-----------------------------------------------------------------------------
(* The operators of PackPromise.                                           *)

LEMMA MemoryIs ==
    ASSUME NEW m \in Memories
    PROVE  DOMAIN m \subseteq Paths /\ \A c \in DOMAIN m : m[c] \in Version
BY DEF Memories

LEMMA NothingType == Nothing \in Memories /\ Nothing \in Catalogs
<1>1. Nothing \in [{} -> Version] /\ Nothing \in [{} -> Record]
  BY DEF Nothing
<1>2. QED
  BY <1>1 DEF Memories, Catalogs

LEMMA PutType ==
    ASSUME NEW m \in Memories, NEW c \in Paths, NEW v \in Version
    PROVE  Put(m, c, v) \in Memories
<1>1. DOMAIN m \cup {c} \in SUBSET Paths
  BY MemoryIs
<1>2. Put(m, c, v) \in [DOMAIN m \cup {c} -> Version]
  BY MemoryIs DEF Put
<1>3. QED
  BY <1>1, <1>2 DEF Memories

LEMMA PutRecordType ==
    ASSUME NEW m \in Catalogs, NEW c \in Paths, NEW r \in Record
    PROVE  Put(m, c, r) \in Catalogs
<1>1. DOMAIN m \subseteq Paths /\ \A d \in DOMAIN m : m[d] \in Record
  BY DEF Catalogs
<1>2. DOMAIN m \cup {c} \in SUBSET Paths
  BY <1>1
<1>3. Put(m, c, r) \in [DOMAIN m \cup {c} -> Record]
  BY <1>1 DEF Put
<1>4. QED
  BY <1>2, <1>3 DEF Catalogs

LEMMA WithoutType ==
    ASSUME NEW m \in Memories, NEW c
    PROVE  Without(m, c) \in Memories
<1>1. DOMAIN m \ {c} \in SUBSET Paths
  BY MemoryIs
<1>2. Without(m, c) \in [DOMAIN m \ {c} -> Version]
  BY MemoryIs DEF Without
<1>3. QED
  BY <1>1, <1>2 DEF Memories

LEMMA FileType ==
    /\ Absent \in File /\ Broken \in File
    /\ \A m \in Memories : Whole(m) \in File
    /\ Garbled \in File
    /\ \A old, file \in File : Stands(old, file) \in File
BY NothingType DEF File, Absent, Broken, Whole, Garbled, Stands

LEMMA OpenedType ==
    ASSUME NEW f \in File
    PROVE  Opened(Closed(f)) \in PackState
<1>1. Closed(f) \in PackState /\ Closed(f).file = f
  BY NothingType DEF Closed, PackState
<1>2. CASE f.kind = "absent"
  BY <1>1, <1>2, FileType, NothingType DEF Opened, PackState
<1>3. CASE f.kind # "absent"
  <2>1. f.contents \in Memories
    BY DEF File
  <2>2. QED
    BY <1>1, <1>3, <2>1 DEF Opened, PackState
<1>4. QED
  BY <1>2, <1>3

LEMMA ChangedType ==
    ASSUME NEW p \in PackState, NEW m \in Memories
    PROVE  Changed(p, m) \in PackState /\ Changed(p, m).memory = m /\ Changed(p, m).dirty
BY FileType DEF Changed, PackState

LEMMA FlushedType ==
    ASSUME NEW p \in PackState
    PROVE  /\ Flushed(p) \in PackState
           /\ Flushed(p).memory = p.memory /\ ~Flushed(p).dirty
           /\ Flushed(p).file = IF p.dirty THEN Whole(p.memory) ELSE p.file
<1>1. (IF p.dirty THEN Whole(p.memory) ELSE p.file) \in File
  BY FileType DEF PackState
<1>2. QED
  BY <1>1 DEF Flushed, PackState

-----------------------------------------------------------------------------
(* The steps.                                                              *)

LEMMA RecordType ==
    ASSUME NEW r \in Record
    PROVE  At(r) \in Files /\ Key(r) \in {LowerCase[n] : n \in Names}
BY DEF Record, At, Key, Files

LEMMA OpensType ==
    ASSUME TypeOK, NEW k \in DOMAIN packs
    PROVE  Opens(k) \in Files /\ packs[k].name \in Names
BY DEF TypeOK, Opens, Files

LEMMA WhereType ==
    ASSUME TypeOK, NEW r \in Record
    PROVE  Where(r) \in Files
BY RecordType, OpensType DEF Where, IsOpen

LEMMA CatalogType ==
    ASSUME NEW m \in Catalogs, NEW c \in DOMAIN m
    PROVE  m[c] \in Record /\ c \in Paths
BY DEF Catalogs

LEMMA PackOfType ==
    ASSUME TypeOK, NEW r \in Record
    PROVE  PackOf(r) \in PackState
<1>1. CASE IsOpen(r)
  <2> DEFINE k == packs[Key(r)]
  <2>1. k \in [name : Names, dirty : BOOLEAN, memory : Memories]
    BY <1>1 DEF IsOpen, TypeOK
  <2>2. files[Where(r)] \in File
    BY WhereType DEF TypeOK
  <2>3. PackOf(r) = [file |-> files[Where(r)], open |-> TRUE, dirty |-> k.dirty,
                     memory |-> k.memory]
    BY <1>1 DEF PackOf
  <2>4. QED
    BY <2>1, <2>2, <2>3 DEF PackState
<1>2. CASE ~IsOpen(r)
  <2>1. (IF Unsound(r) THEN Garbled ELSE files[At(r)]) \in File
    BY RecordType, FileType DEF TypeOK
  <2>2. QED
    BY <1>2, <2>1, OpenedType DEF PackOf
<1>3. QED
  BY <1>1, <1>2

\* The name by which a record's pack is open, or will be.
Name(r) == IF IsOpen(r) THEN packs[Key(r)].name ELSE r.PackName

\* What Keeps assigns.
LEMMA KeepsIs ==
    ASSUME TypeOK, NEW r \in Record, NEW p, Keeps(r, p)
    PROVE  /\ DOMAIN packs' = DOMAIN packs \cup {Key(r)}
           /\ packs'[Key(r)] = [name |-> Name(r), dirty |-> p.dirty, memory |-> p.memory]
           /\ \A k \in DOMAIN packs : k # Key(r) => packs'[k] = packs[k]
           /\ DOMAIN files' = Files
           /\ files'[Where(r)] = Stands(PackOf(r).file, p.file)
           /\ \A f \in Files : f # Where(r) => files'[f] = files[f]
           /\ present' = present \cup {Where(r)}
           /\ shared' = shared \cup IF Aliased(r) THEN {Where(r)} ELSE {}
<1>1. Where(r) \in Files /\ DOMAIN files = Files
  BY WhereType DEF TypeOK
<1>2. /\ packs' = Put(packs, Key(r), [name |-> Name(r), dirty |-> p.dirty, memory |-> p.memory])
      /\ files' = [files EXCEPT ![Where(r)] = Stands(PackOf(r).file, p.file)]
      /\ present' = present \cup {Where(r)}
      /\ shared' = shared \cup IF Aliased(r) THEN {Where(r)} ELSE {}
  BY DEF Keeps, Name
<1>3. /\ DOMAIN packs' = DOMAIN packs \cup {Key(r)}
      /\ packs'[Key(r)] = [name |-> Name(r), dirty |-> p.dirty, memory |-> p.memory]
      /\ \A k \in DOMAIN packs : k # Key(r) => packs'[k] = packs[k]
  BY <1>2 DEF Put
<1>4. /\ DOMAIN files' = Files /\ files'[Where(r)] = Stands(PackOf(r).file, p.file)
      /\ \A f \in Files : f # Where(r) => files'[f] = files[f]
  BY <1>1, <1>2
<1>5. QED
  BY <1>2, <1>3, <1>4

\* The types of what Keeps assigns.
LEMMA KeepsType ==
    ASSUME TypeOK, NEW r \in Record, NEW p \in PackState, Keeps(r, p)
    PROVE  /\ files' \in [Files -> File] /\ present' \in SUBSET Files
           /\ shared' \in SUBSET Files
           /\ \A k \in DOMAIN packs' :
                 /\ k \in {LowerCase[n] : n \in Names}
                 /\ packs'[k] \in [name : Names, dirty : BOOLEAN, memory : Memories]
           /\ DOMAIN packs \subseteq DOMAIN packs'
<1> DEFINE new == [name |-> Name(r), dirty |-> p.dirty, memory |-> p.memory]
<1>1. Where(r) \in Files
  BY WhereType
<1>2. Name(r) \in Names
  BY OpensType DEF Name, IsOpen, Record
<1>3. new \in [name : Names, dirty : BOOLEAN, memory : Memories]
  BY <1>2 DEF PackState
<1>4. Stands(PackOf(r).file, p.file) \in File
  <2>1. PackOf(r).file \in File /\ p.file \in File
    BY PackOfType DEF PackState
  <2>2. QED
    BY <2>1, FileType
<1>5. /\ files' = [files EXCEPT ![Where(r)] = Stands(PackOf(r).file, p.file)]
      /\ present' = present \cup {Where(r)}
      /\ shared' = shared \cup IF Aliased(r) THEN {Where(r)} ELSE {}
  BY DEF Keeps
<1>6. /\ files' \in [Files -> File] /\ present' \in SUBSET Files
      /\ shared' \in SUBSET Files
  BY <1>1, <1>4, <1>5 DEF TypeOK
<1>7. /\ DOMAIN packs' = DOMAIN packs \cup {Key(r)}
      /\ \A k \in DOMAIN packs' : packs'[k] = IF k = Key(r) THEN new ELSE packs[k]
  BY DEF Keeps, Name, Put
<1> HIDE DEF new
<1>8. QED
  BY <1>3, <1>6, <1>7, RecordType DEF TypeOK

LEMMA TypeCall ==
    ASSUME TypeOK, NEW c \in Paths,
           \/ Load(c) \/ FlushPack(c)
           \/ \E v \in Version : StoreRefused(c, v) \/ Store(c, v) \/ StoreFails(c, v)
    PROVE  TypeOK'
<1> DEFINE r == catalog[c]
<1>1. r \in Record
  BY CatalogType DEF Load, FlushPack, StoreRefused, Store, StoreFails, FindPack, TypeOK
<1>2. PackOf(r) \in PackState
  BY <1>1, PackOfType
<1>3. ASSUME NEW p \in PackState, Keeps(r, p), UNCHANGED <<pki, unsaved, pc, closer, closing, catalog>>,
             \A d \in DOMAIN kept' : d \in Paths /\ kept'[d] \in [at : Files, version : Version],
             hurt' \in SUBSET Files
      PROVE  TypeOK'
  <2>1. /\ files' \in [Files -> File] /\ present' \in SUBSET Files
        /\ shared' \in SUBSET Files
        /\ \A k \in DOMAIN packs' :
              /\ k \in {LowerCase[n] : n \in Names}
              /\ packs'[k] \in [name : Names, dirty : BOOLEAN, memory : Memories]
        /\ DOMAIN packs \subseteq DOMAIN packs'
    BY <1>1, <1>3, KeepsType
  <2>2. QED
    BY <1>3, <2>1 DEF TypeOK
<1>4. ASSUME Load(c) \/ \E v \in Version : StoreRefused(c, v) PROVE TypeOK'
  <2>1. Keeps(r, PackOf(r)) /\ UNCHANGED <<pki, unsaved, pc, closer, closing, catalog, kept, hurt>>
    BY <1>4 DEF Load, StoreRefused, Refuses
  <2>2. QED
    BY <1>2, <1>3, <2>1 DEF TypeOK
<1>5. ASSUME FlushPack(c) PROVE TypeOK'
  <2>1. /\ Keeps(r, Flushed(PackOf(r)))
        /\ UNCHANGED <<pki, unsaved, pc, closer, closing, catalog, kept, hurt>>
    BY <1>5 DEF FlushPack
  <2>2. QED
    BY <1>2, <1>3, <2>1, FlushedType DEF TypeOK
<1>6. ASSUME NEW v \in Version, Store(c, v) PROVE TypeOK'
  <2>1. /\ Keeps(r, Stored(PackOf(r), c, v)) /\ hurt' = hurt
        /\ kept' = Put(kept, c, [at |-> Where(r), version |-> v])
        /\ UNCHANGED <<pki, unsaved, pc, closer, closing, catalog>>
    BY <1>6 DEF Store
  <2>2. Stored(PackOf(r), c, v) \in PackState
    BY <1>2, PutType, ChangedType DEF Stored, PackState
  <2>3. [at |-> Where(r), version |-> v] \in [at : Files, version : Version]
    BY <1>1, WhereType
  <2>4. \A d \in DOMAIN kept' : d \in Paths /\ kept'[d] \in [at : Files, version : Version]
    BY <2>1, <2>3 DEF Put, TypeOK
  <2>5. QED
    BY <1>3, <2>1, <2>2, <2>4 DEF TypeOK
<1>7. ASSUME NEW v \in Version, StoreFails(c, v) PROVE TypeOK'
  <2>1. /\ Keeps(r, Withdrawn(PackOf(r), c)) /\ hurt' = hurt \cup {Where(r)}
        /\ UNCHANGED <<pki, unsaved, pc, closer, closing, catalog, kept>>
    BY <1>7 DEF StoreFails
  <2>2. Withdrawn(PackOf(r), c) \in PackState
    BY <1>2, WithoutType, ChangedType DEF Withdrawn, PackState
  <2>3. hurt' \in SUBSET Files
    BY <1>1, <2>1, WhereType DEF TypeOK
  <2>4. QED
    BY <1>3, <2>1, <2>2, <2>3 DEF TypeOK
<1>8. QED
  BY <1>4, <1>5, <1>6, <1>7

LEMMA TypeInit == Init => TypeOK
<1> SUFFICES ASSUME Init PROVE TypeOK
  OBVIOUS
<1>1. files \in [Files -> File]
  BY FileType DEF Init
<1>2. DOMAIN packs = {} /\ DOMAIN kept = {}
  BY DEF Init, Nothing
<1>3. pki \in [whole : BOOLEAN, records : Catalogs]
  <2>1. PICK m \in Listed : pki = [whole |-> TRUE, records |-> m]
    BY DEF Init
  <2>2. m \in Catalogs
    BY ArchiveAssumption
  <2>3. QED
    BY <2>1, <2>2
<1>4. QED
  BY <1>1, <1>2, <1>3, NothingType DEF Init, TypeOK

\* Open, and what concerns the catalog only.
LEMMA TypeCatalog ==
    ASSUME TypeOK,
           \/ Open \/ OpenRefused \/ FlushCatalog \/ BeginClose
           \/ \E c \in Paths, r \in Record : EditCatalog(c, r)
           \/ UNCHANGED vars
    PROVE  TypeOK'
<1>1. CASE Open
  <2>1. DOMAIN packs' = {} /\ closing' = {}
    BY <1>1 DEF Open, Nothing
  <2>2. QED
    BY <1>1, <2>1 DEF Open, TypeOK, disk, past
<1>2. CASE FlushCatalog
  BY <1>2 DEF FlushCatalog, Saved, TypeOK, disk, archive, past
<1>3. CASE BeginClose
  BY <1>3 DEF BeginClose, TypeOK, disk, past
<1>4. ASSUME NEW c \in Paths, NEW r \in Record, EditCatalog(c, r) PROVE TypeOK'
  <2>1. catalog' \in Catalogs
    BY <1>4, PutRecordType DEF EditCatalog, TypeOK
  <2>2. QED
    BY <1>4, <2>1 DEF EditCatalog, TypeOK, disk, archive
<1>5. CASE OpenRefused \/ UNCHANGED vars
  BY <1>5 DEF OpenRefused, TypeOK, vars, disk, archive, past
<1>6. QED
  BY <1>1, <1>2, <1>3, <1>4, <1>5

LEMMA TypeNotOpened ==
    ASSUME TypeOK, NEW c \in Paths, NEW create \in BOOLEAN, NotOpened(c, create)
    PROVE  TypeOK'
<1>1. catalog[c] \in Record
  BY CatalogType DEF NotOpened, TypeOK
<1>2. present' \in SUBSET Files
  BY <1>1, RecordType DEF NotOpened, TypeOK
<1>3. files' \in [Files -> File]
  BY FileType DEF NotOpened, TypeOK
<1>4. hurt' \in SUBSET Files
  BY <1>1, RecordType DEF NotOpened, TypeOK
<1>5. QED
  BY <1>2, <1>3, <1>4 DEF NotOpened, TypeOK, archive

LEMMA RemainsType ==
    ASSUME TypeOK, NEW k \in DOMAIN packs
    PROVE  /\ Opens(k) \in Files /\ Remains(k) \subseteq File
           /\ PackAt(k) \in PackState
<1>1. packs[k] \in [name : Names, dirty : BOOLEAN, memory : Memories]
  BY DEF TypeOK
<1>2. Opens(k) \in Files /\ files[Opens(k)] \in File
  BY OpensType DEF TypeOK
<1>3. QED
  BY <1>1, <1>2, FileType DEF Remains, PackAt, PackState

LEMMA TypeClosePack ==
    ASSUME TypeOK, \E k \in closing : ClosePack(k) \/ ClosePackFails(k)
    PROVE  TypeOK'
<1> SUFFICES ASSUME NEW k \in closing, ClosePack(k) \/ ClosePackFails(k) PROVE TypeOK'
  OBVIOUS
<1>1. k \in DOMAIN packs
  BY DEF TypeOK
<1>2. files' \in [Files -> File]
  <2>1. Flushed(PackAt(k)).file \in File /\ files[Opens(k)] \in File
    BY <1>1, RemainsType, FlushedType DEF PackState, TypeOK
  <2>2. Stands(files[Opens(k)], Flushed(PackAt(k)).file) \in File
    BY <2>1, FileType
  <2>4. PICK file \in File : files' = [files EXCEPT ![Opens(k)] = file]
    BY <1>1, <2>2, RemainsType DEF ClosePack, ClosePackFails, TypeOK
  <2>3. QED
    BY <2>4 DEF TypeOK
<1>3. packs' = [packs EXCEPT ![k].dirty = FALSE]
  BY DEF ClosePack, ClosePackFails
<1>4. \A l \in DOMAIN packs' :
         /\ l \in {LowerCase[n] : n \in Names}
         /\ packs'[l] \in [name : Names, dirty : BOOLEAN, memory : Memories]
  BY <1>3 DEF TypeOK
<1>5. closing' \subseteq DOMAIN packs' /\ hurt' \in SUBSET Files
  BY <1>1, <1>3, RemainsType DEF ClosePack, ClosePackFails, Others, TypeOK, past
<1>6. QED
  BY <1>2, <1>4, <1>5 DEF ClosePack, ClosePackFails, TypeOK, past

\* What a crash leaves of each file.
LEMMA CrashIs ==
    ASSUME Crash
    PROVE  /\ files' = [f \in Files |-> files'[f]]
           /\ \A f \in Files :
                 \/ \E k \in DOMAIN packs : Opens(k) = f /\ files'[f] \in Remains(k)
                 \/ (\A k \in DOMAIN packs : Opens(k) # f) /\ files'[f] = files[f]
<1> DEFINE all == UNION {Remains(k) : k \in DOMAIN packs} \cup {files[f] : f \in Files}
           own(f) == {k \in DOMAIN packs : Opens(k) = f}
<1>1. /\ files' \in [Files -> all]
      /\ \A f \in Files : IF own(f) = {} THEN files'[f] = files[f]
                          ELSE \E k \in own(f) : files'[f] \in Remains(k)
  BY DEF Crash
<1> HIDE DEF all
<1>2. files' = [f \in Files |-> files'[f]]
  BY <1>1
<1>3. QED
  BY <1>1, <1>2

LEMMA TypeEnd ==
    ASSUME TypeOK, EndClose \/ Crash
    PROVE  TypeOK'
<1>1. DOMAIN packs' = {} /\ catalog' \in Catalogs /\ closing' = {}
  BY NothingType DEF EndClose, Crash, Nothing
<1>2. CASE EndClose
  <2>1. Saved \in [whole : BOOLEAN, records : Catalogs]
    BY DEF Saved, TypeOK
  <2>2. ASSUME NEW h \in HalfSaved PROVE h \in [whole : BOOLEAN, records : Catalogs]
    <3>1. CASE h = [whole |-> FALSE, records |-> Nothing]
      BY <3>1, NothingType
    <3>2. CASE \E m \in Catalogs : h = [whole |-> TRUE, records |-> m]
      BY <3>2
    <3>3. QED
      BY <3>1, <3>2 DEF HalfSaved
  <2>3. pki' \in [whole : BOOLEAN, records : Catalogs]
    BY <1>2, <2>1, <2>2 DEF EndClose, TypeOK
  <2>4. QED
    BY <1>1, <1>2, <2>3 DEF EndClose, TypeOK, disk, past
<1>3. CASE Crash
  <2>1. ASSUME NEW f \in Files PROVE files'[f] \in File
    <3>1. CASE \E k \in DOMAIN packs : files'[f] \in Remains(k)
      BY <3>1, RemainsType
    <3>2. CASE files'[f] = files[f]
      BY <3>2 DEF TypeOK
    <3>3. QED
      BY <1>3, <3>1, <3>2, CrashIs
  <2>2. DOMAIN files' = Files /\ files' = [f \in Files |-> files'[f]]
    BY <1>3, CrashIs
  <2>3. files' \in [Files -> File]
    BY <2>1, <2>2
  <2>4. hurt' \in SUBSET Files
    BY <1>3, RemainsType DEF Crash, TypeOK
  <2>5. QED
    BY <1>1, <1>3, <2>3, <2>4 DEF Crash, TypeOK
<1>4. QED
  BY <1>2, <1>3

LEMMA TypeStep == TypeOK /\ [Next]_vars => TypeOK'
<1> SUFFICES ASSUME TypeOK, [Next]_vars PROVE TypeOK'
  OBVIOUS
<1>1. ASSUME NEW c \in Paths, NotCataloged(c) PROVE TypeOK'
  BY <1>1, TypeCatalog DEF NotCataloged
<1>2. QED
  BY <1>1, TypeCatalog, TypeCall, TypeNotOpened, TypeClosePack, TypeEnd DEF Next

\* Every variable keeps its shape through all calls, failures and crashes.
THEOREM TypeCorrect == Spec => []TypeOK
<1>1. QED
  BY TypeInit, TypeStep, PTL DEF Spec

-----------------------------------------------------------------------------
\* A file that another pack has open was opened by another lower case.
LEMMA TwiceIsAliased ==
    ASSUME Safe, NEW r \in Record, Twice(r)
    PROVE  Aliased(r)
<1>1. PICK k \in DOMAIN packs : Opens(k) = At(r)
  BY DEF Twice
<1>2. k = LowerCase[packs[k].name] /\ k # LowerCase[r.PackName]
  BY DEF Safe, Named, Twice, IsOpen, Key
<1>3. Where(r) = At(r)
  BY DEF Where, Twice
<1>4. QED
  BY <1>1, <1>2, <1>3 DEF Aliased

\* Only one pack works on a file that nobody has shared.
LEMMA OneOwner ==
    ASSUME Safe, NEW r \in Record, Where(r) \notin shared, ~Aliased(r)
    PROVE  /\ \A k \in DOMAIN packs : Opens(k) = Where(r) => k = Key(r) /\ IsOpen(r)
           /\ ~Twice(r)
<1>1. ~Twice(r)
  BY TwiceIsAliased
<1>2. ASSUME NEW k \in DOMAIN packs, Opens(k) = Where(r) PROVE k = Key(r) /\ IsOpen(r)
  <2>1. IsOpen(r)
    BY <1>1, <1>2 DEF Twice, Where
  <2>2. Opens(Key(r)) = Where(r) /\ Key(r) \in DOMAIN packs
    BY <2>1 DEF Where, IsOpen
  <2>3. QED
    BY <1>2, <2>1, <2>2 DEF Safe, OnePack
<1>3. QED
  BY <1>1, <1>2

\* What findPack finds in a file of which no error is known.
LEMMA PackOfSound ==
    ASSUME TypeOK, Safe, NEW r \in Record, Where(r) \notin hurt \cup shared, ~Aliased(r)
    PROVE  /\ PackOf(r).file.kind # "garbled"
           /\ PackOf(r).file.kind = "broken" => PackOf(r).dirty
           /\ ~IsOpen(r) => Where(r) = At(r) /\ ~Unsound(r)
<1>1. /\ Where(r) \in Files
      /\ files[Where(r)].kind # "garbled"
      /\ files[Where(r)].kind = "broken" =>
            \E k \in DOMAIN packs : Opens(k) = Where(r) /\ packs[k].dirty
  BY WhereType DEF Safe, Sound
<1>2. CASE IsOpen(r)
  <2>1. PackOf(r).file = files[Where(r)] /\ PackOf(r).dirty = packs[Key(r)].dirty
    BY <1>2 DEF PackOf
  <2>2. QED
    BY <1>1, <1>2, <2>1, OneOwner
<1>3. CASE ~IsOpen(r)
  <2>1. Where(r) = At(r)
    BY <1>3 DEF Where
  <2>2. ~Twice(r) /\ files[At(r)].kind # "broken"
    BY <1>1, <1>3, <2>1, OneOwner
  <2>3. ~Unsound(r)
    BY <1>1, <2>1, <2>2 DEF Unsound
  <2>4. PackOf(r) = Opened(Closed(files[At(r)]))
    BY <1>3, <2>3 DEF PackOf
  <2>5. PackOf(r).file = files[At(r)] \/ (PackOf(r).dirty /\ PackOf(r).file = Broken)
    BY <2>4 DEF Opened, Closed
  <2>6. QED
    BY <1>1, <1>3, <2>1, <2>2, <2>3, <2>5 DEF Broken
<1>4. QED
  BY <1>2, <1>3

\* A path that was stored in the record's pack is in the memory of the open
\* pack, or of the one that is opened.
LEMMA PackOfKeeps ==
    ASSUME TypeOK, Safe, NEW r \in Record, Where(r) \notin hurt \cup shared, ~Aliased(r),
           NEW c, NEW v, KeptAt(c, Where(r), v)
    PROVE  /\ Remembers(PackOf(r), c, v)
           /\ PackOf(r).dirty \/ Holds(PackOf(r).file, c, v)
           /\ IsOpen(r) \/ CanOpen(r, FALSE)
<1>1. CASE IsOpen(r)
  <2>1. Opens(Key(r)) = Where(r) /\ Key(r) \in DOMAIN packs
    BY <1>1 DEF IsOpen, Where
  <2>2. /\ Remembers(packs[Key(r)], c, v)
        /\ packs[Key(r)].dirty \/ Holds(files[Where(r)], c, v)
    BY <2>1 DEF KeptAt
  <2>3. /\ PackOf(r).file = files[Where(r)] /\ PackOf(r).dirty = packs[Key(r)].dirty
        /\ PackOf(r).memory = packs[Key(r)].memory
    BY <1>1 DEF PackOf
  <2>4. QED
    BY <1>1, <2>2, <2>3 DEF Remembers
<1>2. CASE ~IsOpen(r)
  <2>1. Where(r) = At(r) /\ ~Unsound(r)
    BY <1>2, PackOfSound
  <2>2. Holds(files[At(r)], c, v)
    BY <1>2, <2>1, OneOwner DEF KeptAt
  <2>3. PackOf(r).memory = files[At(r)].contents /\ PackOf(r).file = files[At(r)]
    BY <1>2, <2>1, <2>2 DEF PackOf, Opened, Closed, Holds
  <2>4. CanOpen(r, FALSE)
    BY <2>1 DEF KeptAt, CanOpen
  <2>5. QED
    BY <2>2, <2>3, <2>4 DEF Remembers, Holds
<1>3. QED
  BY <1>1, <1>2

-----------------------------------------------------------------------------
(* A step that opens or changes the pack of one record.                    *)

\* The packs after such a step: the names that were there stay.
LEMMA KeepsOpens ==
    ASSUME TypeOK, NEW r \in Record, NEW p, Keeps(r, p)
    PROVE  /\ \A k \in DOMAIN packs : k \in DOMAIN packs' /\ packs'[k].name = packs[k].name
           /\ \A k \in DOMAIN packs' : k = Key(r) \/ (k \in DOMAIN packs /\ packs'[k] = packs[k])
           /\ Key(r) \in DOMAIN packs'
           /\ FileOf[packs'[Key(r)].name] = Where(r)
           /\ packs'[Key(r)].dirty = p.dirty /\ packs'[Key(r)].memory = p.memory
<1>1. /\ DOMAIN packs' = DOMAIN packs \cup {Key(r)}
      /\ packs'[Key(r)] = [name |-> Name(r), dirty |-> p.dirty, memory |-> p.memory]
      /\ \A k \in DOMAIN packs : k # Key(r) => packs'[k] = packs[k]
  BY KeepsIs
<1>2. /\ packs'[Key(r)].name = Name(r) /\ packs'[Key(r)].dirty = p.dirty
      /\ packs'[Key(r)].memory = p.memory
  BY <1>1
<1>3. FileOf[Name(r)] = Where(r)
  BY DEF Name, Where, Opens, At
<1>4. Key(r) \in DOMAIN packs => Name(r) = packs[Key(r)].name
  BY DEF Name, IsOpen
<1>5. QED
  BY <1>1, <1>2, <1>3, <1>4

\* Each pack keeps its name, and a second one of a file is told of.
LEMMA KeepsNamed ==
    ASSUME TypeOK, Safe, NEW r \in Record, NEW p, Keeps(r, p)
    PROVE  Named' /\ OnePack'
<1>1. /\ \A k \in DOMAIN packs : k \in DOMAIN packs' /\ packs'[k].name = packs[k].name
      /\ \A k \in DOMAIN packs' : k = Key(r) \/ (k \in DOMAIN packs /\ packs'[k] = packs[k])
      /\ FileOf[packs'[Key(r)].name] = Where(r)
  BY KeepsOpens
<1>2. shared' = shared \cup IF Aliased(r) THEN {Where(r)} ELSE {}
  BY KeepsIs
<1>3. Named'
  <2> SUFFICES ASSUME NEW k \in DOMAIN packs' PROVE k = LowerCase[packs'[k].name]
    BY DEF Named
  <2>1. CASE k \in DOMAIN packs
    BY <1>1, <2>1 DEF Safe, Named
  <2>2. CASE k \notin DOMAIN packs
    <3>1. k = Key(r) /\ ~IsOpen(r)
      BY <1>1, <2>2 DEF IsOpen
    <3>2. packs'[k].name = r.PackName
      <4>1. packs'[Key(r)] = [name |-> Name(r), dirty |-> p.dirty, memory |-> p.memory]
        BY KeepsIs
      <4>2. QED
        BY <3>1, <4>1 DEF Name
    <3>3. QED
      BY <3>1, <3>2 DEF Key
  <2>3. QED
    BY <2>1, <2>2
<1>4. ASSUME NEW k \in DOMAIN packs', NEW l \in DOMAIN packs',
             FileOf[packs'[k].name] = FileOf[packs'[l].name]
      PROVE  k = l \/ FileOf[packs'[k].name] \in shared'
  <2>1. CASE k \in DOMAIN packs /\ l \in DOMAIN packs
    <3>1. Opens(k) = Opens(l) /\ Opens(k) = FileOf[packs'[k].name]
      BY <1>1, <1>4, <2>1 DEF Opens
    <3>2. QED
      BY <1>2, <2>1, <3>1 DEF Safe, OnePack
  <2>2. ASSUME NEW m \in DOMAIN packs', Key(r) \notin DOMAIN packs, m # Key(r),
               FileOf[packs'[m].name] = Where(r)
        PROVE  Where(r) \in shared'
    <3>1. m \in DOMAIN packs /\ Opens(m) = Where(r)
      BY <1>1, <2>2 DEF Opens
    <3>2. Twice(r)
      BY <2>2, <3>1 DEF Twice, IsOpen, Where
    <3>3. QED
      BY <1>2, <3>2, TwiceIsAliased
  <2>3. CASE k \notin DOMAIN packs
    <3>1. k = Key(r)
      BY <1>1, <2>3
    <3>2. QED
      BY <1>1, <1>4, <2>2, <2>3, <3>1
  <2>4. CASE l \notin DOMAIN packs
    <3>1. l = Key(r)
      BY <1>1, <2>4
    <3>2. QED
      BY <1>1, <1>4, <2>2, <2>4, <3>1
  <2>5. QED
    BY <2>1, <2>3, <2>4
<1>5. OnePack'
  BY <1>4 DEF OnePack, Opens
<1>6. QED
  BY <1>3, <1>5

\* The other files keep what they hold.
LEMMA KeepsOthers ==
    ASSUME TypeOK, NEW r \in Record, NEW p, Keeps(r, p), NEW c, NEW f, NEW v,
           f # Where(r), KeptAt(c, f, v)
    PROVE  KeptAt(c, f, v)'
<1>1. /\ \A k \in DOMAIN packs : k \in DOMAIN packs' /\ packs'[k].name = packs[k].name
      /\ \A k \in DOMAIN packs' : k = Key(r) \/ (k \in DOMAIN packs /\ packs'[k] = packs[k])
      /\ FileOf[packs'[Key(r)].name] = Where(r)
  BY KeepsOpens
<1>2. f \in Files /\ f \in present' /\ files'[f] = files[f]
  BY KeepsIs DEF KeptAt
<1>3. \A k \in DOMAIN packs' : FileOf[packs'[k].name] = f =>
         k \in DOMAIN packs /\ packs'[k] = packs[k] /\ Opens(k) = f
  BY <1>1 DEF Opens
<1>4. (\A k \in DOMAIN packs' : FileOf[packs'[k].name] # f) => (\A k \in DOMAIN packs : Opens(k) # f)
  BY <1>1 DEF Opens
<1>5. QED
  BY <1>2, <1>3, <1>4 DEF KeptAt, Remembers, Holds, Opens

\* A path is kept by the step when it is in the new pack p.
LEMMA KeepsKept ==
    ASSUME TypeOK, Safe, NEW r \in Record, NEW p, Keeps(r, p), NEW c, NEW f, NEW v,
           f = Where(r), f \notin hurt \cup shared, ~Aliased(r),
           Remembers(p, c, v), p.dirty \/ Holds(p.file, c, v)
    PROVE  KeptAt(c, f, v)'
<1>1. f \in Files /\ f \in present' /\ files'[f] = p.file
  <2>1. files'[f] = Stands(PackOf(r).file, p.file) /\ f \in present'
    BY KeepsIs
  <2>2. QED
    BY <2>1, WhereType, PackOfSound DEF Stands
<1>2. ASSUME NEW k \in DOMAIN packs', FileOf[packs'[k].name] = f PROVE k = Key(r)
  <2>1. k # Key(r) => k \in DOMAIN packs /\ Opens(k) = f
    BY <1>2, KeepsOpens DEF Opens
  <2>2. QED
    BY <2>1, OneOwner
<1>3. /\ Key(r) \in DOMAIN packs' /\ FileOf[packs'[Key(r)].name] = f
      /\ packs'[Key(r)].dirty = p.dirty /\ packs'[Key(r)].memory = p.memory
  BY KeepsOpens
<1>4. QED
  BY <1>1, <1>2, <1>3 DEF KeptAt, Remembers, Holds, Opens

\* The file of the pack stays one that can be told.
LEMMA KeepsSound ==
    ASSUME TypeOK, Safe, NEW r \in Record, NEW p, Keeps(r, p), hurt \subseteq hurt',
           Where(r) \notin hurt' \cup shared' =>
              p.file.kind # "garbled" /\ (p.file.kind = "broken" => p.dirty)
    PROVE  Sound'
<1> SUFFICES ASSUME NEW f \in Files, f \notin hurt', f \notin shared'
             PROVE  /\ files'[f].kind # "garbled"
                    /\ files'[f].kind = "broken" =>
                          \E k \in DOMAIN packs' : FileOf[packs'[k].name] = f /\ packs'[k].dirty
  BY DEF Sound, Opens
<1>1. shared' = shared \cup IF Aliased(r) THEN {Where(r)} ELSE {}
  BY KeepsIs
<1>2. f \notin hurt \cup shared
  BY <1>1
<1>3. CASE f = Where(r)
  <2>1. files'[f] = Stands(PackOf(r).file, p.file)
    BY <1>3, KeepsIs
  <2>2. files'[f] = p.file
    BY <1>1, <1>2, <1>3, <2>1, PackOfSound DEF Stands
  <2>3. /\ Key(r) \in DOMAIN packs' /\ FileOf[packs'[Key(r)].name] = f
        /\ packs'[Key(r)].dirty = p.dirty
    BY <1>3, KeepsOpens
  <2>4. QED
    BY <1>3, <2>2, <2>3
<1>4. CASE f # Where(r)
  <2>1. files'[f] = files[f]
    BY <1>4, KeepsIs
  <2>2. ASSUME NEW k \in DOMAIN packs, Opens(k) = f
        PROVE  k \in DOMAIN packs' /\ packs'[k] = packs[k] /\ FileOf[packs'[k].name] = f
    <3>1. k \in DOMAIN packs' /\ FileOf[packs'[k].name] = f
      BY <2>2, KeepsOpens DEF Opens
    <3>2. k # Key(r)
      BY <1>4, <3>1, KeepsOpens
    <3>3. QED
      BY <3>1, <3>2, KeepsOpens
  <2>3. QED
    BY <1>2, <2>1, <2>2 DEF Safe, Sound
<1>5. QED
  BY <1>3, <1>4

\* What such a step must see to: the paths that were stored in this pack.
LEMMA KeepsSafe ==
    ASSUME TypeOK, Safe, NEW r \in Record, NEW p, Keeps(r, p),
           pc = "open", UNCHANGED pc, hurt \subseteq hurt',
           Where(r) \notin hurt' \cup shared' =>
              p.file.kind # "garbled" /\ (p.file.kind = "broken" => p.dirty),
           \A c \in DOMAIN kept' : kept'[c].at \notin hurt' \cup shared' =>
              \/ kept'[c].at # Where(r) /\ c \in DOMAIN kept /\ kept[c] = kept'[c]
              \/ /\ kept'[c].at = Where(r)
                 /\ Remembers(p, c, kept'[c].version)
                 /\ p.dirty \/ Holds(p.file, c, kept'[c].version)
    PROVE  Safe'
<1>1. Named' /\ OnePack' /\ Sound'
  BY KeepsNamed, KeepsSound
<1>2. Sessions'
  BY DEF Sessions
<1>3. shared' = shared \cup IF Aliased(r) THEN {Where(r)} ELSE {}
  BY KeepsIs
<1>4. ASSUME NEW c \in DOMAIN kept', kept'[c].at \notin hurt' \cup shared',
             NEW f, f = kept'[c].at, NEW v, v = kept'[c].version
      PROVE  KeptAt(c, f, v)'
  <2>1. CASE f # Where(r) /\ c \in DOMAIN kept /\ kept[c] = kept'[c]
    <3>1. KeptAt(c, f, v)
      BY <1>3, <1>4, <2>1 DEF Safe, Keeping
    <3>2. QED
      BY <2>1, <3>1, KeepsOthers
  <2>2. CASE /\ f = Where(r)
             /\ Remembers(p, c, v)
             /\ p.dirty \/ Holds(p.file, c, v)
    BY <1>3, <1>4, <2>2, KeepsKept
  <2>3. QED
    BY <1>4, <2>1, <2>2
<1>5. Keeping'
  <2> SUFFICES ASSUME NEW c \in DOMAIN kept', kept'[c].at \notin hurt' \cup shared'
               PROVE  KeptAt(c, kept[c].at, kept[c].version)'
    BY DEF Keeping
  <2>1. \A f, v : f = kept'[c].at /\ v = kept'[c].version => KeptAt(c, f, v)'
    BY <1>4
  <2>2. \A f, v : f = kept'[c].at /\ v = kept'[c].version /\ KeptAt(c, f, v)'
           => KeptAt(c, kept[c].at, kept[c].version)'
    OBVIOUS
  <2>3. QED
    BY <2>1, <2>2
<1>6. QED
  BY <1>1, <1>2, <1>5 DEF Safe

\* Store, Load and FlushPack.
LEMMA SafeCall ==
    ASSUME TypeOK, Safe, NEW c \in Paths,
           \/ Load(c) \/ FlushPack(c)
           \/ \E v \in Version : StoreRefused(c, v) \/ Store(c, v) \/ StoreFails(c, v)
    PROVE  Safe'
<1> DEFINE r == catalog[c]
           q == PackOf(r)
           w == Where(r)
           Old(d) == kept[d].at \notin hurt \cup shared /\ ~Aliased(r) /\ kept[d].at = w
<1>1. r \in Record /\ pc = "open" /\ UNCHANGED pc
  <2>1. c \in DOMAIN catalog /\ pc = "open" /\ UNCHANGED pc
    BY DEF Load, FlushPack, StoreRefused, Store, StoreFails, FindPack
  <2>2. QED
    BY <2>1, CatalogType DEF TypeOK
<1>2. ASSUME NEW d \in DOMAIN kept, Old(d)
      PROVE  Remembers(q, d, kept[d].version) /\ (q.dirty \/ Holds(q.file, d, kept[d].version))
  <2>1. KeptAt(d, w, kept[d].version)
    BY <1>2 DEF Safe, Keeping
  <2>2. QED
    BY <1>1, <1>2, <2>1, PackOfKeeps
<1>3. w \notin hurt \cup shared /\ ~Aliased(r) =>
         q.file.kind # "garbled" /\ (q.file.kind = "broken" => q.dirty)
  BY <1>1, PackOfSound
<1>4. ASSUME NEW p, Keeps(r, p) PROVE shared' = shared \cup IF Aliased(r) THEN {w} ELSE {}
  BY <1>1, <1>4, KeepsIs
<1>5. q = [file |-> q.file, open |-> q.open, dirty |-> q.dirty, memory |-> q.memory]
  BY DEF PackOf, Opened, Closed
<1>6. \A m : Whole(m).kind = "whole" /\ Broken.kind = "broken"
  BY DEF Whole, Broken
<1>7. ASSUME NEW p, Keeps(r, p), UNCHANGED <<kept, hurt>>,
             p.memory = q.memory,
             \/ p.dirty = q.dirty /\ p.file = q.file
             \/ p.file = IF q.dirty THEN Whole(p.memory) ELSE q.file
      PROVE  Safe'
  <2>1. ASSUME NEW d \in DOMAIN kept', kept'[d].at \notin hurt' \cup shared', kept'[d].at = w
        PROVE  /\ Remembers(p, d, kept'[d].version)
               /\ p.dirty \/ Holds(p.file, d, kept'[d].version)
    <3>1. Remembers(q, d, kept[d].version) /\ (q.dirty \/ Holds(q.file, d, kept[d].version))
      BY <1>2, <1>4, <1>7, <2>1
    <3>2. Remembers(p, d, kept[d].version)
      BY <1>7, <3>1 DEF Remembers
    <3>3. p.file = Whole(p.memory) => Holds(p.file, d, kept[d].version)
      BY <3>2 DEF Whole, Holds, Remembers
    <3>4. QED
      BY <1>7, <3>1, <3>2, <3>3
  <2>2. w \notin hurt' \cup shared' =>
           p.file.kind # "garbled" /\ (p.file.kind = "broken" => p.dirty)
    <3>1. \A m : Whole(m).kind # "garbled" /\ Whole(m).kind # "broken"
      BY <1>6
    <3>2. QED
      BY <1>3, <1>4, <1>7, <3>1
  <2>3. QED
    <3> HIDE DEF q, r
    <3>1. QED
      BY <1>1, <1>7, <2>1, <2>2, KeepsSafe
<1>8. ASSUME Load(c) \/ \E v \in Version : StoreRefused(c, v) PROVE Safe'
  <2>1. Keeps(r, q) /\ UNCHANGED <<kept, hurt>>
    BY <1>8 DEF Load, StoreRefused, Refuses
  <2>2. QED
    BY <1>7, <2>1
<1>9. ASSUME FlushPack(c) PROVE Safe'
  <2>1. Keeps(r, Flushed(q)) /\ UNCHANGED <<kept, hurt>>
    BY <1>9 DEF FlushPack
  <2>2. /\ Flushed(q).memory = q.memory
        /\ Flushed(q).file = IF q.dirty THEN Whole(q.memory) ELSE q.file
    BY <1>5 DEF Flushed
  <2>3. QED
    <3> HIDE DEF q, r
    <3>1. QED
      BY <1>7, <2>1, <2>2
<1>10. ASSUME NEW p, Keeps(r, p), p.dirty, p.file = Broken, hurt \subseteq hurt',
              \A d \in DOMAIN kept' : kept'[d].at \notin hurt' \cup shared' =>
                 \/ kept'[d].at # w /\ d \in DOMAIN kept /\ kept[d] = kept'[d]
                 \/ kept'[d].at = w /\ Remembers(p, d, kept'[d].version)
       PROVE  Safe'
  <2>1. p.file.kind = "broken"
    BY <1>6, <1>10
  <2> HIDE DEF q, r
  <2>2. QED
    BY <1>1, <1>10, <2>1, KeepsSafe
<1>11. ASSUME NEW v \in Version, Store(c, v) PROVE Safe'
  <2> DEFINE p == Stored(q, c, v)
  <2>1. /\ Keeps(r, p) /\ hurt' = hurt
        /\ kept' = Put(kept, c, [at |-> w, version |-> v])
    BY <1>11 DEF Store
  <2>2. p.memory = Put(q.memory, c, v) /\ p.dirty = TRUE /\ p.file = Broken
    BY <1>5 DEF Stored, Changed
  <2>3. /\ DOMAIN kept' = DOMAIN kept \cup {c} /\ kept'[c] = [at |-> w, version |-> v]
        /\ \A d \in DOMAIN kept : d # c => kept'[d] = kept[d]
    BY <2>1 DEF Put
  <2>4. Remembers(p, c, v)
    BY <2>2 DEF Remembers, Put
  <2>5. ASSUME NEW d \in DOMAIN kept, d # c, Old(d) PROVE Remembers(p, d, kept[d].version)
    BY <1>2, <2>2, <2>5 DEF Remembers, Put
  <2>6. ASSUME NEW d \in DOMAIN kept', kept'[d].at \notin hurt' \cup shared'
        PROVE  \/ kept'[d].at # w /\ d \in DOMAIN kept /\ kept[d] = kept'[d]
               \/ kept'[d].at = w /\ Remembers(p, d, kept'[d].version)
    <3>1. CASE d = c
      BY <2>3, <2>4, <3>1
    <3>2. CASE d # c
      <4>1. d \in DOMAIN kept /\ kept'[d] = kept[d]
        BY <2>3, <3>2
      <4>2. CASE kept[d].at = w
        <5>1. Old(d)
          BY <1>4, <2>1, <2>6, <4>1, <4>2
        <5>2. QED
          BY <2>5, <3>2, <4>1, <4>2, <5>1
      <4>3. QED
        BY <4>1, <4>2
    <3>3. QED
      BY <3>1, <3>2
  <2> HIDE DEF p, q, w, r
  <2>7. QED
    BY <1>10, <2>1, <2>2, <2>6
<1>12. ASSUME NEW v \in Version, StoreFails(c, v) PROVE Safe'
  <2> DEFINE p == Withdrawn(q, c)
  <2>1. /\ Keeps(r, p) /\ kept' = kept /\ hurt' = hurt \cup {w}
    BY <1>12 DEF StoreFails
  <2>2. p.dirty = TRUE /\ p.file = Broken
    BY <1>5 DEF Withdrawn, Changed
  <2> HIDE DEF p, q, w, r
  <2>3. QED
    BY <1>10, <2>1, <2>2
<1>13. QED
  BY <1>8, <1>9, <1>11, <1>12

-----------------------------------------------------------------------------
(* The other steps.                                                        *)

\* Neither the files nor the packs nor the history change.
LEMMA SafeSame ==
    ASSUME TypeOK, Safe, UNCHANGED <<files, packs, kept, hurt, shared>>, present \subseteq present',
           Sessions'
    PROVE  Safe'
<1>1. Named' /\ OnePack'
  BY DEF Safe, Named, OnePack, Opens
<1>2. Keeping'
  BY DEF Safe, Keeping, KeptAt, Remembers, Holds, Opens
<1>3. Sound'
  BY DEF Safe, Sound, Opens
<1>4. QED
  BY <1>1, <1>2, <1>3 DEF Safe

\* Open, and what concerns the catalog only.
LEMMA SafeCatalog ==
    ASSUME TypeOK, Safe,
           \/ Open \/ OpenRefused \/ FlushCatalog \/ BeginClose
           \/ \E c \in Paths, r \in Record : EditCatalog(c, r)
           \/ UNCHANGED vars
    PROVE  Safe'
<1>1. CASE Open
  <2>1. packs = Nothing
    BY <1>1 DEF Open, Safe, Sessions
  <2>2. UNCHANGED <<files, packs, kept, hurt, shared, present>>
    BY <1>1, <2>1 DEF Open, disk, past
  <2>3. Sessions'
    BY <1>1 DEF Open, Sessions
  <2>4. QED
    BY <2>2, <2>3, SafeSame
<1>2. CASE FlushCatalog
  <2>1. UNCHANGED <<files, packs, kept, hurt, shared, present, pc, closing>>
    BY <1>2 DEF FlushCatalog, disk, archive, past
  <2>2. Sessions'
    BY <2>1 DEF Safe, Sessions
  <2>3. QED
    BY <2>1, <2>2, SafeSame
<1>3. CASE BeginClose
  <2>1. /\ UNCHANGED <<files, packs, kept, hurt, shared, present>>
        /\ pc' = "closing" /\ closing' = DOMAIN packs
    BY <1>3 DEF BeginClose, disk, past
  <2>2. Sessions'
    BY <2>1 DEF Safe, Sessions
  <2>3. QED
    BY <2>1, <2>2, SafeSame
<1>4. ASSUME NEW c \in Paths, NEW r \in Record, EditCatalog(c, r) PROVE Safe'
  <2>1. UNCHANGED <<files, packs, kept, hurt, shared, present, pc, closing>>
    BY <1>4 DEF EditCatalog, disk, archive
  <2>2. Sessions'
    BY <2>1 DEF Safe, Sessions
  <2>3. QED
    BY <2>1, <2>2, SafeSame
<1>5. CASE OpenRefused \/ UNCHANGED vars
  <2>1. UNCHANGED <<files, packs, kept, hurt, shared, present, pc, closing>>
    BY <1>5 DEF OpenRefused, vars, disk, archive, past
  <2>2. Sessions'
    BY <2>1 DEF Safe, Sessions
  <2>3. QED
    BY <2>1, <2>2, SafeSame
<1>6. QED
  BY <1>1, <1>2, <1>3, <1>4, <1>5

\* A file that cannot be opened was worth nothing before.
LEMMA SafeNotOpened ==
    ASSUME TypeOK, Safe, NEW c \in Paths, NEW create \in BOOLEAN, NotOpened(c, create)
    PROVE  Safe'
<1>1. /\ UNCHANGED <<packs, kept, shared, pc, closing>>
      /\ present \subseteq present' /\ hurt \subseteq hurt'
  BY DEF NotOpened, archive
<1>2. Sessions'
  BY <1>1 DEF Safe, Sessions
<1>3. /\ DOMAIN files' = Files
      /\ \A f \in Files : files[f].kind = "whole" \/ f \notin hurt' => files'[f] = files[f]
  <2>1. CASE UNCHANGED files
    BY <2>1 DEF TypeOK
  <2>2. CASE /\ files[At(catalog[c])].kind = "absent"
             /\ files' = [files EXCEPT ![At(catalog[c])] = Broken]
             /\ hurt' = hurt \cup {At(catalog[c])}
    BY <2>2 DEF TypeOK
  <2>3. QED
    BY <2>1, <2>2 DEF NotOpened
<1>4. ASSUME NEW d, NEW f, NEW v, KeptAt(d, f, v) PROVE KeptAt(d, f, v)'
  BY <1>1, <1>3, <1>4 DEF KeptAt, Holds, Remembers, Opens
<1>5. Keeping'
  BY <1>1, <1>4 DEF Safe, Keeping
<1>6. Sound'
  BY <1>1, <1>3 DEF Safe, Sound, Opens
<1>7. Named' /\ OnePack'
  BY <1>1 DEF Safe, Named, OnePack, Opens
<1>8. QED
  BY <1>2, <1>5, <1>6, <1>7 DEF Safe

\* One pack is closed, and what becomes of its file.
LEMMA CloseSafe ==
    ASSUME TypeOK, Safe, NEW k \in closing, k \in DOMAIN packs, pc = "closing", NEW file,
           files' = [files EXCEPT ![Opens(k)] = file],
           packs' = [packs EXCEPT ![k].dirty = FALSE],
           closing' = closing \ {k},
           UNCHANGED <<present, pc, kept, shared>>, hurt \subseteq hurt',
           Opens(k) \in hurt' \/ Opens(k) \in shared
              \/ file = (IF packs[k].dirty THEN Whole(packs[k].memory) ELSE files[Opens(k)])
    PROVE  Safe'
<1>1. /\ DOMAIN packs' = DOMAIN packs
      /\ packs'[k] = [packs[k] EXCEPT !.dirty = FALSE]
      /\ \A l \in DOMAIN packs : l # k => packs'[l] = packs[l]
  OBVIOUS
<1>2. packs[k] \in [name : Names, dirty : BOOLEAN, memory : Memories]
  BY DEF TypeOK
<1>3. /\ packs'[k].name = packs[k].name /\ ~packs'[k].dirty
      /\ packs'[k].memory = packs[k].memory
  BY <1>1, <1>2
<1>4. \A l \in DOMAIN packs : packs'[l].name = packs[l].name
  BY <1>1, <1>3
<1>5. /\ DOMAIN files' = Files /\ files'[Opens(k)] = file
      /\ \A f \in Files : f # Opens(k) => files'[f] = files[f]
  BY OpensType DEF TypeOK
<1>6. Named' /\ OnePack'
  BY <1>1, <1>4 DEF Safe, Named, OnePack, Opens
<1>7. Sessions'
  <2>1. \A l \in DOMAIN packs \ closing' : ~packs'[l].dirty
    BY <1>1, <1>3 DEF Safe, Sessions
  <2>2. QED
    BY <1>1, <2>1 DEF Sessions
<1>8. ASSUME NEW f \in Files, f \notin hurt' \cup shared, f = Opens(k)
      PROVE  /\ \A l \in DOMAIN packs : Opens(l) = f => l = k
             /\ files'[f] = IF packs[k].dirty THEN Whole(packs[k].memory) ELSE files[f]
  BY <1>5, <1>8 DEF Safe, OnePack
<1>9. ASSUME NEW f \in Files, f \notin hurt' \cup shared
      PROVE  /\ files'[f].kind # "garbled"
             /\ files'[f].kind = "broken" =>
                   \E l \in DOMAIN packs' : FileOf[packs'[l].name] = f /\ packs'[l].dirty
  <2>1. /\ files[f].kind # "garbled"
        /\ files[f].kind = "broken" => \E l \in DOMAIN packs : Opens(l) = f /\ packs[l].dirty
    BY <1>9 DEF Safe, Sound
  <2>2. CASE f = Opens(k)
    BY <1>8, <1>9, <2>1, <2>2 DEF Whole
  <2>3. CASE f # Opens(k)
    <3>1. \A l \in DOMAIN packs : Opens(l) = f => packs'[l] = packs[l]
      BY <1>1, <2>3
    <3>2. files'[f] = files[f]
      BY <1>5, <2>3
    <3>3. QED
      BY <1>1, <2>1, <3>1, <3>2 DEF Opens
  <2>4. QED
    BY <2>2, <2>3
<1>10. Sound'
  BY <1>9 DEF Sound, Opens
<1>11. ASSUME NEW c, NEW f, NEW v, KeptAt(c, f, v), f \notin hurt' \cup shared
       PROVE  KeptAt(c, f, v)'
  <2>1. f \in Files /\ f \in present'
    BY <1>11 DEF KeptAt
  <2>2. \A l \in DOMAIN packs : FileOf[packs'[l].name] = Opens(l)
    BY <1>4 DEF Opens
  <2>3. CASE f # Opens(k)
    <3>1. \A l \in DOMAIN packs : Opens(l) = f => packs'[l] = packs[l]
      BY <1>1, <2>3
    <3>2. files'[f] = files[f]
      BY <1>5, <2>1, <2>3
    <3>3. \A l \in DOMAIN packs' : FileOf[packs'[l].name] = f =>
             Remembers(packs'[l], c, v) /\ (packs'[l].dirty \/ Holds(files'[f], c, v))
      BY <1>1, <1>11, <2>2, <3>1, <3>2 DEF KeptAt
    <3>4. (\A l \in DOMAIN packs' : FileOf[packs'[l].name] # f) => Holds(files'[f], c, v)
      BY <1>1, <1>11, <2>2, <3>2 DEF KeptAt
    <3>5. QED
      BY <2>1, <3>3, <3>4 DEF KeptAt, Remembers, Holds, Opens
  <2>4. CASE f = Opens(k)
    <3>1. Remembers(packs[k], c, v) /\ (packs[k].dirty \/ Holds(files[f], c, v))
      BY <1>11, <2>4 DEF KeptAt
    <3>2. Holds(files'[f], c, v)
      BY <1>8, <1>11, <2>1, <2>4, <3>1 DEF Holds, Whole, Remembers
    <3>3. \A l \in DOMAIN packs' : FileOf[packs'[l].name] = f => l = k
      BY <1>1, <1>8, <1>11, <2>1, <2>2, <2>4
    <3>4. Remembers(packs'[k], c, v)
      BY <1>3, <3>1 DEF Remembers
    <3>5. QED
      BY <2>1, <3>2, <3>3, <3>4 DEF KeptAt, Remembers, Holds, Opens
  <2>5. QED
    BY <2>3, <2>4
<1>12. Keeping'
  <2> SUFFICES ASSUME NEW c \in DOMAIN kept', kept'[c].at \notin hurt' \cup shared'
               PROVE  KeptAt(c, kept[c].at, kept[c].version)'
    BY DEF Keeping
  <2>1. KeptAt(c, kept[c].at, kept[c].version)
    BY DEF Safe, Keeping
  <2>2. \A f, v : KeptAt(c, f, v) /\ f \notin hurt' \cup shared => KeptAt(c, f, v)'
    BY <1>11
  <2>3. \A f, v : f = kept[c].at /\ v = kept[c].version /\ KeptAt(c, f, v)'
           => KeptAt(c, kept[c].at, kept[c].version)'
    OBVIOUS
  <2>4. QED
    BY <2>1, <2>2, <2>3
<1>13. QED
  BY <1>6, <1>7, <1>10, <1>12 DEF Safe

\* The loop of Close.
LEMMA SafeClosePack ==
    ASSUME TypeOK, Safe, closing \subseteq DOMAIN packs,
           \E k \in closing : ClosePack(k) \/ ClosePackFails(k)
    PROVE  Safe'
<1>1. ASSUME NEW k \in closing, ClosePack(k) PROVE Safe'
  <2> DEFINE file == Stands(files[Opens(k)], Flushed(PackAt(k)).file)
  <2>1. Flushed(PackAt(k)).file
           = IF packs[k].dirty THEN Whole(packs[k].memory) ELSE files[Opens(k)]
    BY DEF Flushed, PackAt
  <2>2. /\ pc = "closing" /\ k \in DOMAIN packs
        /\ packs' = [packs EXCEPT ![k].dirty = FALSE]
        /\ closing' = closing \ {k}
        /\ UNCHANGED <<present, pc, kept, shared, hurt>>
    BY <1>1 DEF ClosePack, past
  <2>3. files' = [files EXCEPT ![Opens(k)] = file]
    BY <1>1, <2>2, OpensType DEF ClosePack, TypeOK
  <2>4. Opens(k) \in Files
    BY <2>2, OpensType
  <2>5. Opens(k) \notin hurt \cup shared => file = Flushed(PackAt(k)).file
    BY <2>4 DEF Safe, Sound, Stands
  <2> HIDE DEF file
  <2>6. QED
    BY <2>1, <2>2, <2>3, <2>5, CloseSafe
<1>2. ASSUME NEW k \in closing, ClosePackFails(k) PROVE Safe'
  <2>1. PICK left \in Remains(k) : files' = [files EXCEPT ![Opens(k)] = left]
    BY <1>2 DEF ClosePackFails
  <2>2. /\ pc = "closing" /\ k \in DOMAIN packs
        /\ packs' = [packs EXCEPT ![k].dirty = FALSE]
        /\ closing' = closing \ {k}
        /\ UNCHANGED <<present, pc, kept, shared>>
        /\ hurt \subseteq hurt' /\ Opens(k) \in hurt'
    BY <1>2 DEF ClosePackFails, Others
  <2>3. QED
    BY <2>1, <2>2, CloseSafe
<1>3. QED
  BY <1>1, <1>2

\* When no pack is dirty, the packs can be forgotten.
LEMMA Forgotten ==
    ASSUME TypeOK, Safe, packs' = Nothing, UNCHANGED <<present, kept, shared>>,
           DOMAIN files' = Files, hurt \subseteq hurt',
           \A f \in Files \ (hurt' \cup shared) :
              /\ files'[f] = files[f]
              /\ \A k \in DOMAIN packs : Opens(k) = f => ~packs[k].dirty,
           Sessions'
    PROVE  Safe'
<1>1. DOMAIN packs' = {}
  BY DEF Nothing
<1>2. Named' /\ OnePack'
  BY <1>1 DEF Named, OnePack
<1>3. ASSUME NEW c, NEW f, NEW v, KeptAt(c, f, v), f \notin hurt' \cup shared
      PROVE  KeptAt(c, f, v)'
  <2>1. f \in Files /\ f \in present' /\ Holds(files[f], c, v)
    BY <1>3 DEF KeptAt
  <2>2. QED
    BY <1>1, <1>3, <2>1 DEF KeptAt, Holds
<1>4. Keeping'
  <2> SUFFICES ASSUME NEW c \in DOMAIN kept', kept'[c].at \notin hurt' \cup shared'
               PROVE  KeptAt(c, kept[c].at, kept[c].version)'
    BY DEF Keeping
  <2>1. KeptAt(c, kept[c].at, kept[c].version)
    BY DEF Safe, Keeping
  <2>2. \A f, v : KeptAt(c, f, v) /\ f \notin hurt' \cup shared => KeptAt(c, f, v)'
    BY <1>3
  <2>3. \A f, v : f = kept[c].at /\ v = kept[c].version /\ KeptAt(c, f, v)'
           => KeptAt(c, kept[c].at, kept[c].version)'
    OBVIOUS
  <2>4. QED
    BY <2>1, <2>2, <2>3
<1>5. Sound'
  BY DEF Safe, Sound
<1>6. QED
  BY <1>2, <1>4, <1>5 DEF Safe

\* Close is done, or the process ends.
LEMMA SafeEnd ==
    ASSUME TypeOK, Safe, EndClose \/ Crash
    PROVE  Safe'
<1>1. CASE EndClose
  <2>1. /\ packs' = Nothing /\ UNCHANGED <<present, kept, files, hurt, shared>>
        /\ pc' = "closed" /\ pc = "closing" /\ closing = {}
    BY <1>1 DEF EndClose, disk, past
  <2>2. \A k \in DOMAIN packs : ~packs[k].dirty
    BY <2>1 DEF Safe, Sessions
  <2>3. Sessions'
    BY <2>1 DEF Sessions
  <2>4. DOMAIN files' = Files
    BY <2>1 DEF TypeOK
  <2>5. QED
    BY <2>1, <2>2, <2>3, <2>4, Forgotten
<1>2. CASE Crash
  <2>1. /\ packs' = Nothing /\ UNCHANGED <<present, kept, shared>> /\ pc' = "closed"
        /\ hurt' = hurt \cup {Opens(k) : k \in {k \in DOMAIN packs : packs[k].dirty}}
    BY <1>2 DEF Crash
  <2>2. /\ files' = [f \in Files |-> files'[f]]
        /\ \A f \in Files :
              \/ \E k \in DOMAIN packs : Opens(k) = f /\ files'[f] \in Remains(k)
              \/ (\A k \in DOMAIN packs : Opens(k) # f) /\ files'[f] = files[f]
    BY <1>2, CrashIs
  <2>3. DOMAIN files' = Files
    BY <2>2
  <2>4. ASSUME NEW f \in Files \ (hurt' \cup shared), NEW k \in DOMAIN packs, Opens(k) = f
        PROVE  ~packs[k].dirty
    BY <2>1, <2>4
  <2>5. ASSUME NEW f \in Files \ (hurt' \cup shared) PROVE files'[f] = files[f]
    <3>1. CASE \E k \in DOMAIN packs : Opens(k) = f /\ files'[f] \in Remains(k)
      BY <2>4, <3>1 DEF Remains
    <3>2. QED
      BY <2>2, <3>1
  <2>6. Sessions'
    BY <2>1 DEF Sessions
  <2>7. QED
    BY <2>1, <2>3, <2>4, <2>5, <2>6, Forgotten
<1>3. QED
  BY <1>1, <1>2

LEMMA SafeInit == Init => Safe
<1> SUFFICES ASSUME Init PROVE Safe
  OBVIOUS
<1>1. DOMAIN packs = {} /\ DOMAIN kept = {} /\ packs = Nothing /\ pc = "closed"
  BY DEF Init, Nothing
<1>2. Sound
  BY DEF Init, Sound, Absent
<1>3. QED
  BY <1>1, <1>2 DEF Safe, Named, OnePack, Sessions, Keeping

LEMMA SafeStep == TypeOK /\ Safe /\ [Next]_vars => Safe'
<1> SUFFICES ASSUME TypeOK, Safe, [Next]_vars PROVE Safe'
  OBVIOUS
<1>1. ASSUME NEW c \in Paths, NotCataloged(c) PROVE Safe'
  BY <1>1, SafeCatalog DEF NotCataloged
<1>2. closing \subseteq DOMAIN packs
  BY DEF TypeOK
<1>3. QED
  BY <1>1, <1>2, SafeCatalog, SafeCall, SafeNotOpened, SafeClosePack, SafeEnd DEF Next

-----------------------------------------------------------------------------
(* The theorems.                                                           *)

\* Every pack is kept under the lower case of the name it was opened by, two
\* of them work on one file only when their names differ in more than case,
\* Close leaves nothing unwritten behind it, and a path that was stored is in
\* the memory of the pack that has its file open, and in the file unless that
\* pack is dirty, until an error is reported of the file or it is shared.
THEOREM ArchiveSafe == Spec => []Safe
<1>1. QED
  BY SafeInit, SafeStep, TypeCorrect, PTL DEF Spec

LEMMA LoadsKept ==
    ASSUME TypeOK, Safe, NEW c \in DOMAIN kept,
           InPlace(c, kept[c].at), kept[c].at \notin hurt
    PROVE  Loads(c) = {kept[c].version}
<1> DEFINE r == catalog[c]
<1>1. r \in Record /\ c \in DOMAIN catalog
  BY CatalogType DEF TypeOK, InPlace
<1>2. Where(r) = kept[c].at /\ Where(r) \notin hurt \cup shared /\ ~Aliased(r)
  BY DEF InPlace
<1>3. KeptAt(c, Where(r), kept[c].version)
  BY <1>2 DEF Safe, Keeping
<1>4. Remembers(PackOf(r), c, kept[c].version) /\ (IsOpen(r) \/ CanOpen(r, FALSE))
  BY <1>1, <1>2, <1>3, PackOfKeeps
<1>5. QED
  BY <1>1, <1>4 DEF Loads, Remembers

\* Load returns what was last stored, in this session and in every later one,
\* as long as the catalog leads to the file it was stored in, no error was
\* reported of that file, and it was not open by a name of another lower case.
THEOREM StoredLoads == Spec => []LoadsStored
<1>1. TypeOK /\ Safe => LoadsStored
  BY LoadsKept DEF LoadsStored
<1>2. QED
  BY <1>1, TypeCorrect, ArchiveSafe, PTL

\* After Close, what was stored is in its file, also when Close has reported
\* an error of another pack, or two packs have shared another file.
THEOREM ClosedIsDurable == Spec => []Durable
<1>1. TypeOK /\ Safe => Durable
  <2> SUFFICES ASSUME TypeOK, Safe, pc = "closed",
                      NEW c \in DOMAIN kept, kept[c].at \notin hurt \cup shared
               PROVE  Holds(files[kept[c].at], c, kept[c].version)
    BY DEF Durable, Holds
  <2>1. DOMAIN packs = {}
    BY DEF Safe, Sessions, Nothing
  <2>2. KeptAt(c, kept[c].at, kept[c].version)
    BY DEF Safe, Keeping
  <2>3. QED
    BY <2>1, <2>2 DEF KeptAt
<1>2. QED
  BY <1>1, TypeCorrect, ArchiveSafe, PTL

-----------------------------------------------------------------------------
(* A Load, and a Store that is refused, open a pack and do nothing else.   *)

\* The file of an open pack exists, and one that does not is worth nothing.
Existing ==
    /\ \A k \in DOMAIN packs : Opens(k) \in present
    /\ \A f \in Files \ present : files[f].kind = "absent"

\* Only files that exist are written to.
LEMMA ExistingStep == TypeOK /\ Existing /\ [Next]_vars => Existing'
<1> SUFFICES ASSUME TypeOK, Existing, [Next]_vars PROVE Existing'
  OBVIOUS
<1>1. ASSUME UNCHANGED <<files, packs, present>> PROVE Existing'
  BY <1>1 DEF Existing, Opens
<1>2. ASSUME packs' = Nothing, present' = present,
             \A f \in Files \ present : files'[f] = files[f]
      PROVE  Existing'
  BY <1>2 DEF Existing, Nothing
<1>3. ASSUME NEW r \in Record, NEW p, Keeps(r, p) PROVE Existing'
  <2>1. /\ \A k \in DOMAIN packs' : k = Key(r) \/ (k \in DOMAIN packs /\ packs'[k] = packs[k])
        /\ FileOf[packs'[Key(r)].name] = Where(r)
    BY <1>3, KeepsOpens
  <2>2. /\ \A f \in Files : f # Where(r) => files'[f] = files[f]
        /\ present' = present \cup {Where(r)}
    BY <1>3, KeepsIs
  <2>3. QED
    BY <2>1, <2>2 DEF Existing, Opens
<1>4. CASE Open
  BY <1>2, <1>4 DEF Open, disk
<1>5. CASE \/ OpenRefused \/ FlushCatalog \/ BeginClose \/ UNCHANGED vars
           \/ \E c \in Paths, r \in Record : EditCatalog(c, r)
           \/ \E c \in Paths : NotCataloged(c)
  BY <1>1, <1>5
     DEF OpenRefused, FlushCatalog, BeginClose, EditCatalog, NotCataloged, vars, disk, archive
<1>6. ASSUME NEW c \in Paths, NEW create \in BOOLEAN, NotOpened(c, create) PROVE Existing'
  <2>1. packs' = packs /\ present \subseteq present'
    BY <1>6 DEF NotOpened, archive
  <2>2. \A f \in Files \ present' : files'[f] = files[f]
    BY <1>6 DEF NotOpened, TypeOK
  <2>3. QED
    BY <2>1, <2>2 DEF Existing, Opens
<1>7. ASSUME NEW c \in Paths,
             \/ Load(c) \/ FlushPack(c)
             \/ \E v \in Version : StoreRefused(c, v) \/ Store(c, v) \/ StoreFails(c, v)
      PROVE  Existing'
  <2>1. catalog[c] \in Record
    BY <1>7, CatalogType DEF Load, FlushPack, StoreRefused, Store, StoreFails, FindPack, TypeOK
  <2>2. QED
    BY <1>3, <1>7, <2>1 DEF Load, FlushPack, StoreRefused, Store, StoreFails
<1>8. ASSUME NEW k \in closing, ClosePack(k) \/ ClosePackFails(k) PROVE Existing'
  <2>1. k \in DOMAIN packs /\ Opens(k) \in present
    BY DEF TypeOK, Existing
  <2>2. present' = present /\ packs' = [packs EXCEPT ![k].dirty = FALSE]
    BY <1>8 DEF ClosePack, ClosePackFails
  <2>3. \A l \in DOMAIN packs' : l \in DOMAIN packs /\ packs'[l].name = packs[l].name
    BY <2>1, <2>2 DEF TypeOK
  <2>4. \A f \in Files \ present : files'[f] = files[f]
    BY <1>8, <2>1 DEF ClosePack, ClosePackFails, TypeOK
  <2>5. QED
    BY <2>2, <2>3, <2>4 DEF Existing, Opens
<1>9. CASE EndClose
  BY <1>2, <1>9 DEF EndClose, disk
<1>10. CASE Crash
  <2>1. packs' = Nothing /\ present' = present
    BY <1>10 DEF Crash
  <2>2. \A f \in Files \ present : files'[f] = files[f]
    BY <1>10, CrashIs DEF Existing
  <2>3. QED
    BY <1>2, <2>1, <2>2
<1>11. QED
  BY <1>4, <1>5, <1>6, <1>7, <1>8, <1>9, <1>10 DEF Next

LEMMA ExistingHolds == Spec => []Existing
<1>1. Init => Existing
  BY DEF Init, Existing, Nothing, Absent
<1>2. QED
  BY <1>1, ExistingStep, TypeCorrect, PTL DEF Spec

\* A whole file is opened as it is, unless a second pack is opened on it.
LEMMA WholeStays ==
    ASSUME TypeOK, Safe, NEW r \in Record, Keeps(r, PackOf(r)),
           NEW f \in Files, f \notin shared', files[f].kind = "whole"
    PROVE  files'[f] = files[f]
<1>1. CASE f # Where(r)
  BY <1>1, KeepsIs
<1>2. CASE f = Where(r)
  <2>1. files'[f] = PackOf(r).file /\ ~Aliased(r)
    BY <1>2, KeepsIs DEF Stands
  <2>2. CASE IsOpen(r)
    BY <1>2, <2>1, <2>2 DEF PackOf
  <2>3. CASE ~IsOpen(r)
    <3>1. f = At(r) /\ ~Unsound(r)
      BY <1>2, <2>1, <2>3, TwiceIsAliased DEF Where, Unsound
    <3>2. PackOf(r) = Opened(Closed(files[f]))
      BY <2>3, <3>1 DEF PackOf
    <3>3. QED
      BY <2>1, <3>2 DEF Opened, Closed
  <2>4. QED
    BY <2>2, <2>3
<1>3. QED
  BY <1>1, <1>2

\* What Load returns, as a function of the pack that findPack finds.
Shown(s, c) ==
    IF (IsOpen(s) \/ CanOpen(s, FALSE)) /\ c \in DOMAIN PackOf(s).memory
    THEN {PackOf(s).memory[c]} ELSE {}

\* A path that findPack looks for in the same file before and after.
LEMMA OpeningIsHarmless ==
    ASSUME TypeOK, Safe, Existing, NEW r \in Record, Keeps(r, PackOf(r)),
           NEW s \in Record, NEW c, NEW f, Where(s) = f, (Where(s) = f)', (~Aliased(s))'
    PROVE  Shown(s, c)' = Shown(s, c)
<1> DEFINE q == PackOf(r)
           Of(m) == IF c \in DOMAIN m THEN {m[c]} ELSE {}
<1>1. /\ \A k \in DOMAIN packs : k \in DOMAIN packs' /\ packs'[k].name = packs[k].name
      /\ \A k \in DOMAIN packs' : k = Key(r) \/ (k \in DOMAIN packs /\ packs'[k] = packs[k])
      /\ Key(r) \in DOMAIN packs'
      /\ FileOf[packs'[Key(r)].name] = Where(r)
      /\ packs'[Key(r)].memory = q.memory
  BY KeepsOpens
<1>2. IsOpen(s)' <=> Key(s) \in DOMAIN packs'
  BY DEF IsOpen, Key
<1>3. ASSUME Key(s) \in DOMAIN packs' PROVE Shown(s, c)' = Of(packs'[Key(s)].memory)
  BY <1>2, <1>3 DEF Shown, PackOf, Key
<1>4. CASE IsOpen(s)
  <2>1. Key(s) \in DOMAIN packs'
    BY <1>1, <1>4 DEF IsOpen
  <2>2. packs'[Key(s)].memory = packs[Key(s)].memory
    <3>1. CASE Key(s) = Key(r)
      <4>1. q.memory = packs[Key(r)].memory
        BY <1>4, <3>1 DEF PackOf, IsOpen
      <4>2. QED
        BY <1>1, <3>1, <4>1
    <3>2. CASE Key(s) # Key(r)
      BY <1>1, <2>1, <3>2
    <3>3. QED
      BY <3>1, <3>2
  <2>3. Shown(s, c) = Of(packs[Key(s)].memory)
    BY <1>4 DEF Shown, PackOf
  <2>4. QED
    BY <1>3, <2>1, <2>2, <2>3
<1>5. CASE ~IsOpen(s) /\ Key(s) = Key(r)
  <2>1. ~IsOpen(r) /\ Where(r) = At(r) /\ Where(s) = At(s)
    BY <1>5 DEF IsOpen, Where
  <2>2. At(s) = At(r)
    <3>1. Where(s)' = FileOf[packs'[Key(r)].name]
      BY <1>1, <1>2, <1>5 DEF Where, Opens, Key
    <3>2. QED
      BY <1>1, <2>1, <3>1
  <2>3. PackOf(s) = q
    BY <1>5, <2>1, <2>2 DEF PackOf, Unsound, Twice
  <2>4. Shown(s, c)' = Of(q.memory)
    BY <1>1, <1>3, <1>5
  <2>5. CASE CanOpen(s, FALSE)
    BY <2>3, <2>4, <2>5 DEF Shown
  <2>6. CASE ~CanOpen(s, FALSE)
    <3>1. files[At(r)].kind = "absent"
      BY <2>2, <2>6, RecordType DEF CanOpen, Existing
    <3>2. DOMAIN q.memory = {}
      BY <2>1, <3>1 DEF PackOf, Opened, Closed, Nothing, Garbled
    <3>3. Shown(s, c) = {}
      BY <1>5, <2>6 DEF Shown
    <3>4. QED
      BY <2>4, <3>2, <3>3
  <2>7. QED
    BY <2>5, <2>6
<1>6. CASE ~IsOpen(s) /\ Key(s) # Key(r)
  <2>1. Key(s) \notin DOMAIN packs'
    BY <1>1, <1>6 DEF IsOpen
  <2>2. Where(s) = At(s) /\ Where(s)' = At(s) /\ At(s) = f
    BY <1>2, <1>6, <2>1 DEF Where, At
  <2>3. f # Where(r)
    <3>1. SUFFICES ASSUME f = Where(r) PROVE Aliased(s)'
      OBVIOUS
    <3>2. LowerCase[packs'[Key(r)].name] = Key(r)
      BY <1>1, KeepsNamed DEF Named
    <3>3. FileOf[packs'[Key(r)].name] = Where(s)'
      BY <1>1, <2>2, <3>1
    <3>4. QED
      BY <1>1, <1>6, <3>2, <3>3 DEF Aliased, Opens, Key
  <2>4. /\ files'[f] = files[f] /\ (f \in present' <=> f \in present)
    BY <2>2, <2>3, KeepsIs, RecordType
  <2>5. (\E k \in DOMAIN packs' : FileOf[packs'[k].name] = f) <=> \E k \in DOMAIN packs : Opens(k) = f
    BY <1>1, <2>3 DEF Opens
  <2>6. ~IsOpen(s)' /\ (CanOpen(s, FALSE)' <=> CanOpen(s, FALSE))
    BY <1>2, <2>1, <2>2, <2>4 DEF CanOpen, At
  <2>7. (Unsound(s))' <=> Unsound(s)
    BY <1>6, <2>2, <2>4, <2>5, <2>6 DEF Unsound, Twice, Opens, At
  <2>8. PackOf(s)' = PackOf(s)
    BY <1>6, <2>2, <2>4, <2>6, <2>7 DEF PackOf, At
  <2>9. QED
    BY <1>6, <2>6, <2>8 DEF Shown
<1>7. QED
  BY <1>4, <1>5, <1>6

\* A Load, and a Store that is refused because of the compression state, both
\* open packs, and a refused Store creates them.  Neither is seen by a Load of
\* a path whose pack findPack looks for in the same file as before, and a file
\* that was whole stays as it is, unless a second pack has been opened on it.
THEOREM ReadingChangesNothing == Spec => ReadingIsHarmless
<1> DEFINE Reads == \E c \in Paths : Load(c) \/ \E v \in Version : StoreRefused(c, v)
           Same  == /\ \A c \in Paths, f \in Files :
                          InPlace(c, f) /\ InPlace(c, f)' => Loads(c)' = Loads(c)
                    /\ \A f \in Files \ shared' : files[f].kind = "whole" => files'[f] = files[f]
<1>1. TypeOK /\ Safe /\ Existing /\ [Next]_vars => [Reads => Same]_vars
  <2> SUFFICES ASSUME TypeOK, Safe, Existing, NEW c \in Paths,
                      Load(c) \/ \E v \in Version : StoreRefused(c, v)
               PROVE  Same
    OBVIOUS
  <2>1. c \in DOMAIN catalog
    BY DEF Load, StoreRefused, FindPack
  <2>2. catalog[c] \in Record
    BY <2>1, CatalogType DEF TypeOK
  <2>3. Keeps(catalog[c], PackOf(catalog[c])) /\ UNCHANGED catalog
    BY DEF Load, StoreRefused, Refuses
  <2>4. PICK r \in Record : Keeps(r, PackOf(r))
    BY <2>2, <2>3
  <2>5. ASSUME NEW d \in Paths, NEW f \in Files, InPlace(d, f), InPlace(d, f)'
        PROVE  Loads(d)' = Loads(d)
    <3>1. PICK s \in Record : s = catalog[d]
      BY <2>5, CatalogType DEF InPlace, TypeOK
    <3>2. catalog'[d] = s /\ d \in DOMAIN catalog /\ d \in DOMAIN catalog'
      BY <2>3, <2>5, <3>1 DEF InPlace
    <3>3. Where(s) = f /\ (Where(s) = f)' /\ (~Aliased(s))'
      BY <2>5, <3>1, <3>2 DEF InPlace
    <3>4. Shown(s, d)' = Shown(s, d)
      BY <2>4, <3>3, OpeningIsHarmless
    <3>5. Loads(d) = Shown(s, d)
      BY <3>1, <3>2 DEF Loads, Shown
    <3>6. Loads(d)' = Shown(s, d)'
      BY <3>2 DEF Loads, Shown
    <3>7. QED
      BY <3>4, <3>5, <3>6
  <2>6. QED
    BY <2>4, <2>5, WholeStays
<1>2. QED
  BY <1>1, TypeCorrect, ArchiveSafe, ExistingHolds, PTL DEF Spec, ReadingIsHarmless
=============================================================================
