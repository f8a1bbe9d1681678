----------------------------- MODULE PackProofs -----------------------------
(***************************************************************************)
(* Proofs about Pack, for every set of paths, every content and size,      *)
(* every bound and every combination of faults. First its type correctness *)
(* and the operators it is built from; then that Safe is an invariant: as  *)
(* long as no call has failed, every stored path is in the file, at the    *)
(* place its record says, whatever sequence of calls led there, and the    *)
(* list stays sorted and indexed, whatever calls have failed; then what a  *)
(* caller sees of one step: a call that fails costs no other path its      *)
(* data, and a call that succeeds does what PackStore says.                *)
(***************************************************************************)
EXTENDS PackInvariant, PackRefinement, SequenceTheorems, TLAPS

-----------------------------------------------------------------------------
(* The operators the model is built from.                                  *)

\* A record, and a version, has a natural size.
LEMMA SizeIsNat ==
    ASSUME NEW r, r.content \in Contents, r.compressed \in BOOLEAN
    PROVE  DataSize(r) \in Nat
BY PackAssumption DEF DataSize

LEMMA U32Type == ASSUME NEW n \in Nat PROVE U32(n) \in Nat
BY PackAssumption DEF U32

LEMMA U32Small == ASSUME NEW n \in Nat, n < PointerSpan PROVE U32(n) = n
BY PackAssumption DEF U32

\* InsertAt makes room for the new element and keeps the others in order.
LEMMA InsertAtIs ==
    ASSUME NEW S, NEW s \in Seq(S), NEW i \in 1 .. Len(s) + 1, NEW e \in S
    PROVE  /\ InsertAt(s, i, e) \in Seq(S)
           /\ Len(InsertAt(s, i, e)) = Len(s) + 1
           /\ \A j \in 1 .. Len(s) + 1 :
                 InsertAt(s, i, e)[j] = IF j < i THEN s[j]
                                        ELSE IF j = i THEN e ELSE s[j - 1]
<1> DEFINE a == SubSeq(s, 1, i - 1)
           b == SubSeq(s, i, Len(s))
<1>1. a \in Seq(S) /\ Len(a) = i - 1 /\ \A j \in 1 .. i - 1 : a[j] = s[j]
  BY SubSeqProperties
<1>2. b \in Seq(S) /\ Len(b) = Len(s) - i + 1
      /\ \A j \in 1 .. Len(s) - i + 1 : b[j] = s[i + j - 1]
  BY SubSeqProperties
<1>3. a \o <<e>> \in Seq(S) /\ Len(a \o <<e>>) = i
      /\ \A j \in 1 .. i : (a \o <<e>>)[j] = IF j = i THEN e ELSE s[j]
  BY <1>1
<1>4. InsertAt(s, i, e) = (a \o <<e>>) \o b
  BY DEF InsertAt
<1> HIDE DEF a, b
<1>5. /\ (a \o <<e>>) \o b \in Seq(S)
      /\ Len((a \o <<e>>) \o b) = Len(s) + 1
      /\ \A j \in 1 .. Len(s) + 1 :
            ((a \o <<e>>) \o b)[j] = IF j <= i THEN (a \o <<e>>)[j] ELSE b[j - i]
  <2> DEFINE c == a \o <<e>>
  <2>1. c \in Seq(S) /\ Len(c) = i
    BY <1>3
  <2>2. b \in Seq(S) /\ Len(b) = Len(s) - i + 1
    BY <1>2
  <2> HIDE DEF c
  <2>3. c \o b \in Seq(S) /\ Len(c \o b) = Len(s) + 1
    BY <2>1, <2>2
  <2>4. \A j \in 1 .. Len(s) + 1 : (c \o b)[j] = IF j <= i THEN c[j] ELSE b[j - i]
    BY <2>1, <2>2
  <2>5. QED
    BY <2>3, <2>4 DEF c
<1>6. ASSUME NEW j \in 1 .. Len(s) + 1
      PROVE  InsertAt(s, i, e)[j] = IF j < i THEN s[j]
                                    ELSE IF j = i THEN e ELSE s[j - 1]
  <2>1. CASE j <= i
    BY <1>3, <1>4, <1>5, <2>1
  <2>2. CASE j > i
    <3>1. j - i \in 1 .. Len(s) - i + 1 /\ i + (j - i) - 1 = j - 1
      BY <2>2
    <3>2. QED
      BY <1>2, <1>4, <1>5, <2>2, <3>1
  <2>3. QED
    BY <2>1, <2>2
<1>7. QED
  BY <1>4, <1>5, <1>6

\* UpdateIndices changes the tree indices only.
LEMMA UpdateIndicesIs ==
    ASSUME NEW list \in Seq(Record)
    PROVE  /\ UpdateIndices(list) \in Seq(Record)
           /\ Len(UpdateIndices(list)) = Len(list)
           /\ DOMAIN UpdateIndices(list) = DOMAIN list
           /\ \A i \in DOMAIN list :
                 UpdateIndices(list)[i] = [list[i] EXCEPT !.node = <<i, Len(list)>>]
<1> DEFINE F(i) == [list[i] EXCEPT !.node = <<i, Len(list)>>]
<1>1. DOMAIN list = 1 .. Len(list) /\ Len(list) \in Nat
  OBVIOUS
<1>2. UpdateIndices(list) = [i \in 1 .. Len(list) |-> F(i)]
  BY <1>1 DEF UpdateIndices
<1>3. ASSUME NEW i \in 1 .. Len(list) PROVE F(i) \in Record
  <2>1. list[i] \in Record
    BY <1>1
  <2>2. <<i, Len(list)>> \in Nat \X Nat
    BY <1>1
  <2>3. \A n \in Nat \X Nat : [list[i] EXCEPT !.node = n] \in Record
    BY <2>1 DEF Record
  <2>4. QED
    BY <2>2, <2>3
<1> HIDE DEF F
<1>4. UpdateIndices(list) \in Seq(Record) /\ Len(UpdateIndices(list)) = Len(list)
  <2>1. UpdateIndices(list) \in [1 .. Len(list) -> Record]
    BY <1>2, <1>3
  <2>2. UpdateIndices(list) \in Seq(Record)
    BY <1>1, <2>1, SeqDef
  <2>3. QED
    BY <1>1, <2>1, <2>2, LenProperties
<1>5. QED
  BY <1>1, <1>2, <1>4 DEF F

\* What a write of n cells leaves and what it brings.
LEMMA WriteIs ==
    ASSUME size \in Nat, DOMAIN disk = 0 .. size - 1,
           NEW at \in Nat, NEW n \in Nat, NEW block, Write(at, n, block)
    PROVE  /\ size' \in Nat /\ size' >= size /\ size' >= at + n
           /\ DOMAIN disk' = 0 .. size' - 1
           /\ \A k \in DOMAIN disk' : at <= k /\ k < at + n => disk'[k] = block[k - at]
           /\ \A k \in DOMAIN disk : k < at \/ at + n <= k => disk'[k] = disk[k]
           /\ \A k \in DOMAIN disk' \ DOMAIN disk :
                 k < at \/ at + n <= k => disk'[k] = Hole
<1> DEFINE end == IF size >= at + n THEN size ELSE at + n
<1>1. size' = end /\ disk' = [k \in 0 .. end - 1 |->
                                IF at <= k /\ k < at + n THEN block[k - at]
                                ELSE IF k < size THEN disk[k] ELSE Hole]
  BY DEF Write, Patched, Larger
<1>2. end \in Nat /\ end >= size /\ end >= at + n
  OBVIOUS
<1> HIDE DEF end
<1>3. DOMAIN disk' = 0 .. end - 1
  BY <1>1
<1>4. \A k \in 0 .. end - 1 : disk'[k] = IF at <= k /\ k < at + n THEN block[k - at]
                                         ELSE IF k < size THEN disk[k] ELSE Hole
  BY <1>1
<1>5. QED
  BY <1>1, <1>2, <1>3, <1>4

-----------------------------------------------------------------------------
(* Type correctness.                                                       *)

\* The conjuncts of TypeOK about the file.
FileType ==
    /\ size \in Nat
    /\ DOMAIN disk = 0 .. size - 1
    /\ \A k \in DOMAIN disk : disk[k] \in Cell

LEMMA CellKinds ==
    ASSUME NEW x \in Cell
    PROVE  /\ x.kind \in {"count", "pointer", "revision"} => x.value \in Nat
           /\ x.kind = "entry" => x.record \in Record
BY DEF Cell

LEMMA CellForms ==
    /\ Hole \in Cell /\ Signature \in Cell /\ Divider \in Cell
    /\ \A n \in Nat : Count(n) \in Cell /\ Pointer(n) \in Cell /\ Revision(n) \in Cell
    /\ \A r \in Record : Entry(r) \in Cell
    /\ \A r, k : r.content \in Contents /\ r.compressed \in BOOLEAN /\ k \in Nat
                 => Byte(r, k) \in Cell
BY DEF Cell, Hole, Signature, Divider, Count, Pointer, Revision, Entry, Byte

\* A write of cells leaves a file of cells.
LEMMA WriteType ==
    ASSUME FileType, NEW at \in Nat, NEW n \in Nat, NEW block,
           \A k \in 0 .. n - 1 : block[k] \in Cell,
           Write(at, n, block)
    PROVE  FileType'
<1>1. /\ size' \in Nat /\ size' >= size /\ size' >= at + n
      /\ DOMAIN disk' = 0 .. size' - 1
      /\ \A k \in DOMAIN disk' : at <= k /\ k < at + n => disk'[k] = block[k - at]
      /\ \A k \in DOMAIN disk : k < at \/ at + n <= k => disk'[k] = disk[k]
      /\ \A k \in DOMAIN disk' \ DOMAIN disk :
            k < at \/ at + n <= k => disk'[k] = Hole
  BY WriteIs DEF FileType
<1>2. ASSUME NEW k \in DOMAIN disk' PROVE disk'[k] \in Cell
  <2>1. k \in Nat
    BY <1>1
  <2>2. CASE at <= k /\ k < at + n
    <3>1. k - at \in 0 .. n - 1
      BY <2>1, <2>2
    <3>2. QED
      BY <1>1, <2>2, <3>1
  <2>3. CASE ~(at <= k /\ k < at + n)
    <3>1. k < at \/ at + n <= k
      BY <2>1, <2>3
    <3>2. QED
      BY <1>1, <3>1, CellForms DEF FileType
  <2>4. QED
    BY <2>2, <2>3
<1>3. QED
  BY <1>1, <1>2 DEF FileType

LEMMA FreshType ==
    ASSUME NEW r, r.content \in Contents, r.compressed \in BOOLEAN,
           NEW k \in 0 .. DataSize(r)
    PROVE  Fresh(r)[k] \in Cell
BY SizeIsNat, CellForms DEF Fresh

LEMMA AvailableIs ==
    ASSUME FileType, NEW r \in Record
    PROVE  /\ Available(r) \in 0 .. DataSize(r)
           /\ Available(r) > 0 => r.dataPointer + Available(r) <= size
<1>1. DataSize(r) \in Nat /\ r.dataPointer \in Nat
  BY SizeIsNat DEF Record
<1>2. QED
  BY <1>1 DEF Available, FileType

LEMMA CopiedType ==
    ASSUME FileType, NEW r \in Record, NEW k \in 0 .. Available(r)
    PROVE  Copied(r)[k] \in Cell
<1>1. Available(r) \in Nat /\ r.dataPointer \in Nat
  BY AvailableIs, SizeIsNat DEF Record
<1>2. CASE k < Available(r)
  <2>1. r.dataPointer + k \in 0 .. size - 1
    BY <1>1, <1>2, AvailableIs DEF FileType
  <2>2. QED
    BY <1>1, <1>2, <2>1 DEF Copied, FileType
<1>3. CASE k >= Available(r)
  BY <1>1, <1>3, CellForms DEF Copied
<1>4. QED
  BY <1>1, <1>2, <1>3

LEMMA ListingType ==
    ASSUME NEW list \in Seq(Record), NEW p \in Nat, NEW n \in Nat,
           NEW k \in 0 .. Len(list) + 2
    PROVE  Listing(list, p, n)[k] \in Cell
<1>1. Len(list) \in Nat /\ \A i \in 1 .. Len(list) : list[i] \in Record
  OBVIOUS
<1>2. QED
  BY <1>1, CellForms DEF Listing

LEMMA DiskListType ==
    ASSUME FileType, NEW p \in Nat, ListAt(p)
    PROVE  /\ disk[p].value \in Nat
           /\ DiskList(p) \in Seq(Record)
           /\ Len(DiskList(p)) = disk[p].value
<1>1. disk[p].value \in Nat
  BY CellKinds DEF FileType, ListAt
<1>2. ASSUME NEW i \in 1 .. disk[p].value PROVE disk[p + i].record \in Record
  BY <1>1, CellKinds DEF FileType, ListAt
<1>3. DiskList(p) \in [1 .. disk[p].value -> Record]
  BY <1>2 DEF DiskList
<1>4. DiskList(p) \in Seq(Record)
  BY <1>1, <1>3, SeqDef
<1>5. QED
  BY <1>1, <1>3, <1>4, LenProperties

LEMMA ListType ==
    ASSUME TypeOK, Readable
    PROVE  List \in Seq(Record) /\ Cached \in Seq(Record)
<1>1. FileType
  BY DEF TypeOK, FileType
<1>2. QED
  BY <1>1, DiskListType DEF TypeOK, Readable, List, Cached

LEMMA InsertType ==
    ASSUME TypeOK, NEW c \in Crcs, NEW v \in Version, BeginInsert(c, v)
    PROVE  /\ records' \in Seq(Record)
           /\ dirty' = TRUE /\ revision' \in Nat
           /\ pending = {} /\ pc = "idle"
           /\ v.content \in Contents /\ v.compressed \in BOOLEAN
           /\ DataSize(v) \in Nat
           /\ DataSize(NewRecord(c, v)) = DataSize(v)
           /\ \A k \in 0 .. DataSize(v) : /\ Fresh(v)[k] \in Cell
                                          /\ Fresh(NewRecord(c, v))[k] \in Cell
<1>1. /\ v.content \in Contents /\ v.compressed \in BOOLEAN
  BY DEF Version
<1>2. NewRecord(c, v) \in Record
  BY <1>1 DEF NewRecord, Record, TypeOK
<1>3. List \in Seq(Record)
  BY ListType DEF BeginInsert, BeginStore
<1>4. PICK i \in 1 .. Len(List) + 1 :
         records' = UpdateIndices(InsertAt(List, i, NewRecord(c, v)))
  BY DEF BeginInsert
<1>5. records' \in Seq(Record)
  <2>1. InsertAt(List, i, NewRecord(c, v)) \in Seq(Record)
    BY <1>2, <1>3, InsertAtIs
  <2>2. QED
    BY <1>4, <2>1, UpdateIndicesIs
<1>6. DataSize(NewRecord(c, v)) = DataSize(v) /\ DataSize(v) \in Nat
  BY <1>1, SizeIsNat DEF DataSize, NewRecord
<1>7. NewRecord(c, v).content \in Contents /\ NewRecord(c, v).compressed \in BOOLEAN
  BY <1>2 DEF Record
<1>8. \A k \in 0 .. DataSize(v) : /\ Fresh(v)[k] \in Cell
                                  /\ Fresh(NewRecord(c, v))[k] \in Cell
  BY <1>1, <1>6, <1>7, FreshType
<1>9. dirty' = TRUE /\ revision' \in Nat /\ pending = {} /\ pc = "idle"
  BY DEF BeginInsert, BeginStore, TypeOK
<1>10. QED
  BY <1>1, <1>5, <1>6, <1>8, <1>9

LEMMA TypeInit == Init => TypeOK
<1> SUFFICES ASSUME Init PROVE TypeOK
  OBVIOUS
<1>1. size \in Nat /\ DOMAIN disk = 0 .. size - 1 /\ \A k \in DOMAIN disk : disk[k] \in Cell
  BY PackAssumption, CellForms DEF Init
<1>2. DOMAIN stored = {}
  BY DEF Init, Nothing
<1>3. /\ pc = "closed" /\ dirty = FALSE /\ records = << >>
      /\ numRecordsPointer = 0 /\ revision = 0 /\ pos = 0 /\ index = 0 /\ pending = {}
      /\ result = "none" /\ health = "intact"
  BY DEF Init
<1>4. saved.revision \in Int
  BY DEF Init
<1>5. records \in Seq(Record)
  BY <1>3
<1>6. QED
  BY <1>1, <1>2, <1>3, <1>4, <1>5 DEF TypeOK

\* What a step leaves alone keeps its type, and a pack that is given up has
\* the fields of none.
LEMMA KeptTypes ==
    ASSUME TypeOK
    PROVE  /\ UNCHANGED file => FileType'
           /\ Forget => /\ dirty' \in BOOLEAN /\ records' \in Seq(Record)
                        /\ numRecordsPointer' \in Nat /\ revision' \in Nat
                        /\ pos' \in Nat /\ index' \in Nat /\ pending' = {}
           /\ \A b : HurtUnless(b) => health' \in {"intact", "hurt", "lost"}
           /\ \A c \in Crcs, v \in Version : stored' = Put(stored, c, v) =>
                 DOMAIN stored' \subseteq Crcs /\ \A x \in DOMAIN stored' : stored'[x] \in Version
           /\ \A c : stored' = Drop(stored, c) =>
                 DOMAIN stored' \subseteq Crcs /\ \A x \in DOMAIN stored' : stored'[x] \in Version
<1>1. UNCHANGED file => FileType'
  BY DEF TypeOK, FileType, file
<1>2. Forget => /\ dirty' \in BOOLEAN /\ records' \in Seq(Record)
                /\ numRecordsPointer' \in Nat /\ revision' \in Nat
                /\ pos' \in Nat /\ index' \in Nat /\ pending' = {}
  <2> SUFFICES ASSUME Forget PROVE /\ dirty' \in BOOLEAN /\ records' \in Seq(Record)
                /\ numRecordsPointer' \in Nat /\ revision' \in Nat
                /\ pos' \in Nat /\ index' \in Nat /\ pending' = {}
    OBVIOUS
  <2>1. dirty' \in BOOLEAN
    BY DEF Forget
  <2>2. records' \in Seq(Record)
    <3>1. << >> \in Seq(Record)
      OBVIOUS
    <3>2. QED
      BY <3>1 DEF Forget
  <2>3. numRecordsPointer' \in Nat /\ revision' \in Nat /\ pos' \in Nat /\ index' \in Nat
    BY DEF Forget
  <2>4. QED
    BY <2>1, <2>2, <2>3 DEF Forget
<1>3. \A b : HurtUnless(b) => health' \in {"intact", "hurt", "lost"}
  BY DEF HurtUnless, TypeOK
<1>4. \A c \in Crcs, v \in Version : stored' = Put(stored, c, v) =>
         DOMAIN stored' \subseteq Crcs /\ \A x \in DOMAIN stored' : stored'[x] \in Version
  BY DEF Put, TypeOK
<1>5. \A c : stored' = Drop(stored, c) =>
         DOMAIN stored' \subseteq Crcs /\ \A x \in DOMAIN stored' : stored'[x] \in Version
  BY DEF Drop, TypeOK
<1>6. QED
  BY <1>1, <1>2, <1>3, <1>4, <1>5

\* TypeOK in the parts the actions change.
PackType ==
    /\ dirty \in BOOLEAN
    /\ records \in Seq(Record)
    /\ numRecordsPointer \in Nat /\ revision \in Nat
LocalsType ==
    /\ pos \in Nat /\ index \in Nat
    /\ pending \subseteq DOMAIN records
    /\ pc \in {"update", "copy"} \/ pending = {}
    /\ pc = "update" => index \in DOMAIN records
ControlType ==
    /\ pc \in {"closed", "idle", "update", "copy", "garbled"}
    /\ result \in {"none", "failed", "flushed"}
PastType ==
    /\ DOMAIN stored \subseteq Crcs
    /\ \A c \in DOMAIN stored : stored[c] \in Version
    /\ saved.revision \in Int
    /\ health \in {"intact", "hurt", "lost"}

LEMMA TypeParts ==
    /\ TypeOK <=> FileType /\ PackType /\ LocalsType /\ ControlType /\ PastType
    /\ TypeOK' <=> FileType' /\ PackType' /\ LocalsType' /\ ControlType' /\ PastType'
BY DEF TypeOK, FileType, PackType, LocalsType, ControlType, PastType

\* Opening, reading the list, and giving a pack up.
LEMMA TypeOpen ==
    ASSUME TypeOK, NewPack \/ GarbledList \/ Crash \/ Abandon
    PROVE  TypeOK'
<1> USE TypeParts, KeptTypes
<1>1. ASSUME NEW from \in Handles, Create(from) PROVE TypeOK'
  <2>1. FileType'
    <3>1. Signature \in Cell
      BY CellForms
    <3>2. \A k \in 0 .. 0 : [j \in {0} |-> Signature][k] \in Cell
      BY <3>1
    <3>3. QED
      BY <1>1, <3>2, WriteType DEF Create
  <2>2. QED
    BY <1>1, <2>1 DEF Create, PackType, LocalsType, ControlType, PastType, locals
<1>2. ASSUME NEW from \in Handles, Open(from) PROVE TypeOK'
  <2>1. numRecordsPointer' \in Nat /\ revision' \in Nat
    BY <1>2, CellKinds DEF Open, TrailerAt, FileType
  <2>2. QED
    BY <1>2, <2>1 DEF Open, PackType, LocalsType, ControlType, PastType, locals
<1>3. ASSUME NEW from \in Handles, OpenRefused(from) PROVE TypeOK'
  BY <1>3 DEF OpenRefused, PackType, LocalsType, ControlType, PastType, pack, locals, past
<1>4. ASSUME Garble PROVE TypeOK'
  BY <1>4 DEF Garble, PackType, LocalsType, ControlType, PastType, past
<1>5. ASSUME Crash PROVE TypeOK'
  BY <1>5 DEF Crash, Closes, PackType, LocalsType, ControlType, PastType
<1>6. ASSUME Abandon PROVE TypeOK'
  BY <1>6 DEF Abandon, Closes, PackType, LocalsType, ControlType, PastType, past
<1>7. QED
  BY <1>1, <1>2, <1>3, <1>4, <1>5, <1>6 DEF NewPack, GarbledTrailer, GarbledList

LEMMA TypeInsert ==
    ASSUME TypeOK, NEW c \in Crcs, NEW v \in Version,
           Insert(c, v) \/ InsertFails(c, v) \/ InsertUndivided(c, v)
    PROVE  TypeOK'
<1> USE TypeParts, KeptTypes
<1>1. BeginInsert(c, v) /\ UNCHANGED locals /\ UNCHANGED pc
  BY DEF Insert, InsertFails, InsertUndivided
<1>2. /\ records' \in Seq(Record)
      /\ dirty' = TRUE /\ revision' \in Nat
      /\ pending = {} /\ pc = "idle"
      /\ DataSize(v) \in Nat
      /\ DataSize(NewRecord(c, v)) = DataSize(v)
      /\ \A k \in 0 .. DataSize(v) : /\ Fresh(v)[k] \in Cell
                                     /\ Fresh(NewRecord(c, v))[k] \in Cell
  BY <1>1, InsertType
<1>3. FileType' /\ numRecordsPointer' \in Nat
  <2>0. FileType /\ numRecordsPointer \in Nat
    BY DEF PackType
  <2>1. CASE Insert(c, v)
    <3>1. FileType'
      BY <1>2, <2>0, <2>1, WriteType DEF Insert
    <3>2. QED
      BY <1>2, <2>0, <2>1, <3>1, U32Type DEF Insert
  <2>2. CASE InsertFails(c, v)
    <3>1. PICK n \in 0 .. DataSize(v) : Write(numRecordsPointer, n, Fresh(v))
      BY <2>2 DEF InsertFails
    <3>2. n \in Nat /\ \A k \in 0 .. n - 1 : Fresh(v)[k] \in Cell
      BY <1>2
    <3>3. FileType'
      BY <2>0, <3>1, <3>2, WriteType
    <3>4. QED
      BY <2>0, <2>2, <3>3 DEF InsertFails
  <2>3. CASE InsertUndivided(c, v)
    <3>1. \A k \in 0 .. DataSize(v) - 1 : Fresh(v)[k] \in Cell
      BY <1>2
    <3>2. FileType'
      BY <1>2, <2>0, <2>3, <3>1, WriteType DEF InsertUndivided
    <3>3. QED
      BY <1>2, <2>0, <2>3, <3>2, U32Type DEF InsertUndivided
  <2>4. QED
    BY <2>1, <2>2, <2>3
<1>4. PastType'
  BY DEF Insert, InsertFails, InsertUndivided, PastType
<1>5. ControlType'
  BY <1>1 DEF Insert, InsertFails, InsertUndivided, ControlType
<1>6. LocalsType'
  BY <1>1, <1>2 DEF LocalsType, locals
<1>7. QED
  BY <1>2, <1>3, <1>4, <1>5, <1>6 DEF PackType

LEMMA TypeUpdate ==
    ASSUME TypeOK,
           (\E c \in Crcs, v \in Version : BeginUpdate(c, v))
           \/ Shift \/ ShiftFails \/ Replace \/ ReplaceFails
    PROVE  TypeOK'
<1> USE TypeParts, KeptTypes
<1>1. ASSUME NEW c \in Crcs, NEW v \in Version, BeginUpdate(c, v) PROVE TypeOK'
  <2>1. List \in Seq(Record)
    BY <1>1, ListType DEF BeginUpdate, BeginStore
  <2>2. PICK t \in DOMAIN List :
          /\ index' = t /\ pos' = List[t].dataPointer
          /\ pending' \subseteq DOMAIN List
          /\ records' = [List EXCEPT ![t].content = v.content,
                                     ![t].compressed = v.compressed]
    BY <1>1 DEF BeginUpdate
  <2>3. List[t] \in Record /\ t \in 1 .. Len(List)
    BY <2>1
  <2>4. [List[t] EXCEPT !.content = v.content, !.compressed = v.compressed] \in Record
    BY <2>3 DEF Record, Version
  <2>5. records' \in Seq(Record) /\ DOMAIN records' = DOMAIN List
    <3> DEFINE e == [List[t] EXCEPT !.content = v.content, !.compressed = v.compressed]
    <3>1. records' = [List EXCEPT ![t] = e]
      BY <2>2
    <3>2. e \in Record
      BY <2>4
    <3> HIDE DEF e
    <3>3. QED
      BY <2>1, <2>3, <3>1, <3>2, ExceptSeq
  <2>6. /\ pc' = "update" /\ result' = "none" /\ dirty' = TRUE
        /\ revision' \in Nat /\ numRecordsPointer' = numRecordsPointer
        /\ saved' = saved /\ health' = health /\ UNCHANGED file
        /\ stored' = Drop(stored, c)
    <3>1. BeginStore /\ pc' = "update" /\ result' = "none" /\ stored' = Drop(stored, c)
          /\ UNCHANGED <<file, numRecordsPointer, saved, health>>
      BY <1>1 DEF BeginUpdate
    <3>2. dirty' = TRUE /\ revision' = IF dirty THEN revision ELSE revision + 1
      BY <3>1 DEF BeginStore
    <3>3. revision' \in Nat
      BY <3>2 DEF PackType
    <3>4. QED
      BY <3>1, <3>2, <3>3
  <2>7. LocalsType'
    <3>1. List[t].dataPointer \in Nat
      BY <2>3 DEF Record
    <3>2. t \in Nat
      BY <2>1, <2>3
    <3>3. QED
      BY <2>2, <2>5, <2>6, <3>1, <3>2 DEF LocalsType
  <2>8. PackType'
    BY <2>5, <2>6 DEF PackType
  <2>9. PastType'
    BY <2>6 DEF PastType
  <2>10. QED
    BY <2>6, <2>7, <2>8, <2>9 DEF ControlType
<1>2. ASSUME Shift PROVE TypeOK'
  <2>1. PICK i \in pending :
          /\ Write(pos, Available(records[i]) + 1, Copied(records[i]))
          /\ records' = [records EXCEPT ![i].dataPointer = U32(pos)]
          /\ pos' = pos + Available(records[i]) + 1
          /\ pending' = pending \ {i}
    BY <1>2 DEF Shift
  <2>2. i \in 1 .. Len(records) /\ records[i] \in Record
    BY DEF LocalsType, PackType
  <2>3. Available(records[i]) \in Nat
    BY <2>2, AvailableIs, SizeIsNat DEF Record
  <2>4. FileType'
    <3> DEFINE n == Available(records[i]) + 1
    <3>1. n \in Nat /\ \A k \in 0 .. n - 1 : Copied(records[i])[k] \in Cell
      BY <2>2, <2>3, CopiedType
    <3>2. Write(pos, n, Copied(records[i])) /\ pos \in Nat
      BY <2>1 DEF LocalsType
    <3> HIDE DEF n
    <3>3. QED
      BY <3>1, <3>2, WriteType
  <2>5. [records[i] EXCEPT !.dataPointer = U32(pos)] \in Record
    BY <2>2, U32Type DEF LocalsType, Record
  <2>6. records' \in Seq(Record) /\ DOMAIN records' = DOMAIN records
    BY <2>1, <2>2, <2>5 DEF PackType
  <2>7. PackType'
    BY <1>2, <2>6 DEF Shift, PackType
  <2>8. LocalsType'
    BY <1>2, <2>1, <2>3, <2>6 DEF Shift, LocalsType
  <2>9. QED
    BY <1>2, <2>4, <2>7, <2>8 DEF Shift, ControlType, PastType, past
<1>3. ASSUME ShiftFails PROVE TypeOK'
  <2>0. PICK i \in pending : \E n \in 0 .. Available(records[i]) :
          Write(pos, n, Copied(records[i]))
    BY <1>3 DEF ShiftFails
  <2>1. PICK n \in 0 .. Available(records[i]) : Write(pos, n, Copied(records[i]))
    BY <2>0
  <2>2. records[i] \in Record
    BY DEF LocalsType, PackType
  <2>3. n \in Nat /\ \A k \in 0 .. n - 1 : Copied(records[i])[k] \in Cell
    BY <2>2, AvailableIs, SizeIsNat, CopiedType DEF Record
  <2>4. FileType'
    BY <2>1, <2>3, WriteType DEF LocalsType
  <2>5. records' \in Seq(Record)
    BY <1>3, UpdateIndicesIs DEF ShiftFails, PackType
  <2>6. QED
    BY <1>3, <2>4, <2>5
    DEF ShiftFails, EndUpdate, PackType, LocalsType, ControlType, PastType
<1>4. ASSUME Replace \/ ReplaceFails PROVE TypeOK'
  <2>0. pc = "update"
    BY <1>4 DEF Replace, ReplaceFails
  <2>1. index \in 1 .. Len(records) /\ records[index] \in Record
    BY <2>0 DEF LocalsType, PackType
  <2>2. [records[index] EXCEPT !.dataPointer = U32(pos)] \in Record
    BY <2>1, U32Type DEF LocalsType, Record
  <2>3. Moved \in Seq(Record)
    BY <2>1, <2>2 DEF Moved, PackType
  <2>4. records' \in Seq(Record)
    BY <1>4, <2>3, UpdateIndicesIs DEF Replace, ReplaceFails
  <2>5. /\ records[index].crc \in Crcs
        /\ records[index].content \in Contents /\ records[index].compressed \in BOOLEAN
        /\ DataSize(records[index]) \in Nat
    BY <2>1, SizeIsNat DEF Record
  <2>6. \A k \in 0 .. DataSize(records[index]) : Fresh(records[index])[k] \in Cell
    BY <2>5, FreshType
  <2>7. CASE Replace
    <3>1. FileType'
      BY <2>5, <2>6, <2>7, WriteType DEF Replace, LocalsType
    <3>2. numRecordsPointer' \in Nat
      BY <2>5, <2>7, U32Type DEF Replace, LocalsType
    <3>3. [content |-> records[index].content,
           compressed |-> records[index].compressed] \in Version
      BY <2>5 DEF Version
    <3>4. PastType'
      BY <2>5, <2>7, <3>3 DEF Replace, PastType
    <3>5. QED
      BY <2>4, <2>7, <3>1, <3>2, <3>4
      DEF Replace, EndUpdate, PackType, LocalsType, ControlType
  <2>8. CASE ReplaceFails
    <3>1. PICK n \in 0 .. DataSize(records[index]) : Write(pos, n, Fresh(records[index]))
      BY <2>8 DEF ReplaceFails
    <3>2. n \in Nat /\ \A k \in 0 .. n - 1 : Fresh(records[index])[k] \in Cell
      BY <2>5, <2>6
    <3>3. FileType'
      BY <3>1, <3>2, WriteType DEF LocalsType
    <3>4. QED
      BY <2>4, <2>8, <3>3
      DEF ReplaceFails, EndUpdate, PackType, LocalsType, ControlType, PastType
  <2>9. QED
    BY <1>4, <2>7, <2>8
<1>5. QED
  BY <1>1, <1>2, <1>3, <1>4

LEMMA TypeFlush ==
    ASSUME TypeOK, FlushClean \/ Flush \/ FlushFails \/ TruncateFails
    PROVE  TypeOK'
<1> USE TypeParts, KeptTypes
<1>1. /\ Len(records) \in Nat /\ ListingSize \in Nat
      /\ numRecordsPointer \in Nat /\ ListingEnd \in Nat
      /\ \A k \in 0 .. ListingSize - 1 : ListingOfPack[k] \in Cell
  <2>1. Len(records) \in Nat /\ ListingSize = Len(records) + 3 /\ numRecordsPointer \in Nat
    BY DEF PackType, ListingSize
  <2>2. \A k \in 0 .. Len(records) + 2 : ListingOfPack[k] \in Cell
    BY ListingType DEF ListingOfPack, PackType
  <2>3. QED
    BY <2>1, <2>2 DEF ListingEnd
<1>2. FileType'
  <2>1. CASE FlushClean
    BY <2>1 DEF FlushClean
  <2>2. CASE Flush
    <3>1. size' \in Nat /\ DOMAIN disk' = 0 .. size' - 1
      BY <1>1, <2>2 DEF Flush, Patched
    <3>2. ASSUME NEW k \in DOMAIN disk' PROVE disk'[k] \in Cell
      <4>1. k \in Nat /\ k < ListingEnd
        BY <1>1, <2>2, <3>1 DEF Flush
      <4>2. disk'[k] = IF numRecordsPointer <= k THEN ListingOfPack[k - numRecordsPointer]
                       ELSE IF k < size THEN disk[k] ELSE Hole
        BY <1>1, <2>2, <4>1 DEF Flush, Patched, ListingEnd
      <4>3. CASE numRecordsPointer <= k
        <5>1. k - numRecordsPointer \in 0 .. ListingSize - 1
          BY <1>1, <4>1, <4>3 DEF ListingEnd
        <5>2. QED
          BY <1>1, <4>2, <4>3, <5>1
      <4>4. CASE ~(numRecordsPointer <= k)
        BY <4>1, <4>2, <4>4, CellForms DEF FileType
      <4>5. QED
        BY <4>3, <4>4
    <3>3. QED
      BY <3>1, <3>2 DEF FileType
  <2>3. CASE FlushFails
    <3>1. PICK n \in 0 .. ListingSize - 1 : Write(numRecordsPointer, n, ListingOfPack)
      BY <2>3 DEF FlushFails
    <3>2. n \in Nat /\ \A k \in 0 .. n - 1 : ListingOfPack[k] \in Cell
      BY <1>1
    <3>3. QED
      BY <1>1, <3>1, <3>2, WriteType
  <2>4. CASE TruncateFails
    BY <1>1, <2>4, WriteType DEF TruncateFails
  <2>5. QED
    BY <2>1, <2>2, <2>3, <2>4
<1>0. stored' = stored /\ saved'.revision \in Int /\ health' \in {"intact", "hurt", "lost"}
  <2>1. stored' = stored
    BY DEF FlushClean, Flush, FlushFails, TruncateFails, past
  <2>2. saved'.revision \in Int
    <3>1. saved' = saved \/ saved' = [revision |-> revision, contents |-> stored]
      BY DEF FlushClean, Flush, FlushFails, TruncateFails, past
    <3>2. QED
      BY <3>1 DEF PastType, PackType
  <2>3. health' = health \/ HurtUnless(FALSE)
    BY DEF FlushClean, Flush, FlushFails, TruncateFails, past
  <2>4. QED
    BY <2>1, <2>2, <2>3 DEF PastType
<1>3. CASE Closes
  <2>1. ControlType'
    BY <1>3 DEF Closes, ControlType, FlushClean, Flush, FlushFails, TruncateFails
  <2>2. PastType'
    BY <1>0 DEF PastType
  <2>3. QED
    BY <1>2, <1>3, <2>1, <2>2 DEF Closes, PackType, LocalsType
<1>4. CASE Stays
  <2>1. ControlType'
    BY <1>4 DEF Stays, ControlType, FlushClean, Flush, FlushFails, TruncateFails
  <2>2. PastType'
    BY <1>0 DEF PastType
  <2>3. dirty' \in BOOLEAN
    BY <1>4 DEF FlushClean, Flush, FlushFails, TruncateFails, PackType, Closes, Forget
  <2>4. pc = "idle"
    BY DEF FlushClean, Flush, FlushFails, TruncateFails
  <2>5. QED
    BY <1>2, <1>4, <2>1, <2>2, <2>3, <2>4 DEF Stays, PackType, LocalsType, locals
<1>5. QED
  BY <1>3, <1>4 DEF FlushClean, Flush, FlushFails, TruncateFails

LEMMA TypeRead ==
    ASSUME TypeOK,
           Records \/ ReadRecords \/ BeginCopy \/ CopyRecord \/ EndCopy \/ CopyFails
    PROVE  TypeOK'
<1> USE TypeParts, KeptTypes
<1>1. CASE Records \/ ReadRecords
  <2>1. List \in Seq(Record) /\ Cached \in Seq(Record)
    BY <1>1, ListType DEF Records, ReadRecords
  <2>2. QED
    BY <1>1, <2>1 DEF Records, ReadRecords, PackType, LocalsType, ControlType, PastType,
                      locals, past
<1>2. CASE BeginCopy
  <2>1. Cached \in Seq(Record)
    BY <1>2, ListType DEF BeginCopy
  <2>2. QED
    BY <1>2, <2>1 DEF BeginCopy, PackType, LocalsType, ControlType, PastType, past
<1>3. CASE CopyRecord
  <2>1. PICK i \in pending : /\ pos' = pos + Available(records[i]) + 1
                             /\ pending' = pending \ {i}
    BY <1>3 DEF CopyRecord
  <2>2. Available(records[i]) \in Nat
    <3>1. records[i] \in Record
      BY DEF LocalsType, PackType
    <3>2. QED
      BY <3>1, AvailableIs, SizeIsNat DEF Record
  <2>3. QED
    BY <1>3, <2>1, <2>2 DEF CopyRecord, PackType, LocalsType, ControlType, PastType,
                            pack, past
<1>4. CASE EndCopy
  BY <1>4, U32Type DEF EndCopy, LoseIfMoved, PackType, LocalsType, ControlType, PastType, past
<1>5. CASE CopyFails
  <2>1. numRecordsPointer' \in Nat
    BY <1>5, U32Type DEF CopyFails, PackType, LocalsType
  <2>2. QED
    BY <1>5, <2>1 DEF CopyFails, LoseIfMoved, PackType, LocalsType, ControlType, PastType
<1>6. QED
  BY <1>1, <1>2, <1>3, <1>4, <1>5

\* The state of the file and of the pack has the shape the code gives it,
\* whatever calls are made and whatever fails.
THEOREM TypeCorrect == Spec => []TypeOK
<1>1. Init => TypeOK
  BY TypeInit
<1>2. TypeOK /\ [Next]_vars => TypeOK'
  <2> SUFFICES ASSUME TypeOK, [Next]_vars PROVE TypeOK'
    OBVIOUS
  <2>1. CASE UNCHANGED vars
    BY <2>1 DEF TypeOK, vars, file, pack, locals, past
  <2>2. CASE Next
    BY <2>2, TypeOpen, TypeInsert, TypeUpdate, TypeFlush, TypeRead DEF Next
  <2>3. QED
    BY <2>1, <2>2
<1>3. QED
  BY <1>1, <1>2, PTL DEF Spec

-----------------------------------------------------------------------------
(* Good, Laid and Sound of a list of this state, in the next state's file. *)

GoodNext(r) ==
    /\ r.dataPointer + DataSize(r) <= size'
    /\ \A k \in 0 .. DataSize(r) - 1 : disk'[r.dataPointer + k] = Byte(r, k)

LaidNext(list, live, limit) ==
    /\ \A i \in live : /\ 1 <= list[i].dataPointer
                       /\ End(list[i]) <= limit
                       /\ GoodNext(list[i])
    /\ \A i, j \in live : i # j => \/ End(list[i]) <= list[j].dataPointer
                                   \/ End(list[j]) <= list[i].dataPointer

SoundNext(list, limit) ==
    /\ Sorted(list)
    /\ LaidNext(list, DOMAIN list, limit)
    /\ Matches(list, DOMAIN list, stored')
    /\ Tiled(list, DOMAIN list, limit)
    /\ 1 <= limit /\ limit < PointerSpan

DiskListNext(p) == [i \in 1 .. disk'[p].value |-> disk'[p + i].record]

FlushedNext(p) ==
    /\ p \in Nat
    /\ p < size' /\ disk'[p].kind = "count"
    /\ p + disk'[p].value < size'
    /\ \A i \in 1 .. disk'[p].value : disk'[p + i].kind = "entry"
    /\ size' = p + disk'[p].value + 3
    /\ disk'[0] = Signature
    /\ disk'[size' - 2] = Pointer(p)
    /\ disk'[size' - 1] = Revision(saved'.revision)
    /\ SoundNext(DiskListNext(p), p)

\* They are the primed forms, whatever the list has become.
LEMMA NextForms ==
    /\ LaidNext(records', DOMAIN records', numRecordsPointer')
       <=> Laid(records, DOMAIN records, numRecordsPointer)'
    /\ LaidNext(records', DOMAIN records' \ {index'}, numRecordsPointer')
       <=> Laid(records, DOMAIN records \ {index}, numRecordsPointer)'
    /\ SoundNext(records', numRecordsPointer') <=> Sound(records, numRecordsPointer)'
    /\ \A p : FlushedNext(p) <=> FlushedAt(p)'
    /\ FlushedNext(numRecordsPointer') <=> FlushedAt(numRecordsPointer)'
<1>1. /\ LaidNext(records', DOMAIN records', numRecordsPointer')
         <=> Laid(records, DOMAIN records, numRecordsPointer)'
      /\ LaidNext(records', DOMAIN records' \ {index'}, numRecordsPointer')
         <=> Laid(records, DOMAIN records \ {index}, numRecordsPointer)'
      /\ SoundNext(records', numRecordsPointer') <=> Sound(records, numRecordsPointer)'
  BY DEF LaidNext, Laid, GoodNext, Good, SoundNext, Sound
<1>2. ASSUME NEW p PROVE FlushedNext(p) <=> FlushedAt(p)'
  <2>1. SoundNext(DiskListNext(p), p) <=> Sound(DiskList(p), p)'
    BY DEF DiskList, DiskListNext, LaidNext, Laid, GoodNext, Good, SoundNext, Sound
  <2>2. QED
    BY <2>1 DEF FlushedNext, FlushedAt, ListAt
<1>3. FlushedNext(numRecordsPointer') <=> FlushedAt(numRecordsPointer)'
  <2>1. SoundNext(DiskListNext(numRecordsPointer'), numRecordsPointer')
        <=> Sound(DiskList(numRecordsPointer), numRecordsPointer)'
    BY DEF DiskList, DiskListNext, LaidNext, Laid, GoodNext, Good, SoundNext, Sound
  <2>2. QED
    BY <2>1 DEF FlushedNext, FlushedAt, ListAt
<1>4. QED
  BY <1>1, <1>2, <1>3

-----------------------------------------------------------------------------
(* Records and lists of records.                                           *)

LEMMA RecordFacts ==
    ASSUME NEW r \in Record
    PROVE  /\ r.dataPointer \in Nat /\ DataSize(r) \in Nat
           /\ End(r) \in Nat /\ End(r) = r.dataPointer + DataSize(r) + 1
           /\ r.crc \in Crcs /\ r.crc \in Nat
           /\ r.content \in Contents /\ r.compressed \in BOOLEAN
<1>1. r.content \in Contents /\ r.compressed \in BOOLEAN
      /\ r.dataPointer \in Nat /\ r.crc \in Crcs
  BY DEF Record
<1>2. DataSize(r) \in Nat
  BY <1>1, SizeIsNat
<1>3. r.crc \in Nat
  BY <1>1, PackAssumption
<1>4. End(r) = r.dataPointer + DataSize(r) + 1
  BY DEF End
<1>5. QED
  BY <1>1, <1>2, <1>3, <1>4

LEMMA SeqFacts ==
    ASSUME NEW list \in Seq(Record)
    PROVE  /\ Len(list) \in Nat /\ DOMAIN list = 1 .. Len(list)
           /\ \A i \in DOMAIN list : i \in Nat /\ list[i] \in Record
OBVIOUS

\* Positions in a block of d cells and a divider.
LEMMA InBlock ==
    ASSUME NEW a \in Nat, NEW d \in Nat, NEW z \in Nat, z >= a + (d + 1),
           NEW k \in 0 .. d - 1
    PROVE  a + k \in 0 .. z - 1 /\ (a + k) - a = k /\ a + k < a + (d + 1) /\ a <= a + k
OBVIOUS

\* Two lists that differ in their tree indices only.
SameButNodes(a, b) ==
    /\ DOMAIN a = DOMAIN b
    /\ \A i \in DOMAIN a : /\ a[i].crc = b[i].crc
                           /\ a[i].content = b[i].content
                           /\ a[i].compressed = b[i].compressed
                           /\ a[i].dataPointer = b[i].dataPointer

LEMMA NodesDoNotMatter ==
    ASSUME NEW a \in Seq(Record), NEW b \in Seq(Record), SameButNodes(a, b)
    PROVE  /\ Sorted(a) => Sorted(b)
           /\ \A live \in SUBSET DOMAIN a : \A limit :
                 /\ LaidNext(a, live, limit) => LaidNext(b, live, limit)
                 /\ Tiled(a, live, limit) => Tiled(b, live, limit)
                 /\ \A contents : Matches(a, live, contents) => Matches(b, live, contents)
           /\ \A limit : SoundNext(a, limit) => SoundNext(b, limit)
<1>1. \A i \in DOMAIN a : /\ DataSize(a[i]) = DataSize(b[i]) /\ End(a[i]) = End(b[i])
                          /\ \A k : Byte(a[i], k) = Byte(b[i], k)
  BY DEF SameButNodes, DataSize, End, Byte
<1>2. \A i \in DOMAIN a : GoodNext(a[i]) => GoodNext(b[i])
  BY <1>1 DEF GoodNext, SameButNodes
<1>3. Sorted(a) => Sorted(b)
  BY DEF Sorted, SameButNodes
<1>4. ASSUME NEW live \in SUBSET DOMAIN a, NEW limit
      PROVE  /\ LaidNext(a, live, limit) => LaidNext(b, live, limit)
             /\ Tiled(a, live, limit) => Tiled(b, live, limit)
             /\ \A contents : Matches(a, live, contents) => Matches(b, live, contents)
  <2>1. LaidNext(a, live, limit) => LaidNext(b, live, limit)
    BY <1>1, <1>2 DEF LaidNext, SameButNodes
  <2>2. Tiled(a, live, limit) => Tiled(b, live, limit)
    BY <1>1 DEF Tiled, Borders, SameButNodes
  <2>3. \A contents : Matches(a, live, contents) => Matches(b, live, contents)
    BY DEF Matches, SameButNodes
  <2>4. QED
    BY <2>1, <2>2, <2>3
<1>5. \A limit : SoundNext(a, limit) => SoundNext(b, limit)
  BY <1>3, <1>4 DEF SoundNext, SameButNodes
<1>6. QED
  BY <1>3, <1>4, <1>5

LEMMA UpdateIndicesSame ==
    ASSUME NEW list \in Seq(Record)
    PROVE  UpdateIndices(list) \in Seq(Record) /\ SameButNodes(list, UpdateIndices(list))
<1>1. UpdateIndices(list) \in Seq(Record)
      /\ DOMAIN UpdateIndices(list) = DOMAIN list
      /\ \A i \in DOMAIN list :
            UpdateIndices(list)[i] = [list[i] EXCEPT !.node = <<i, Len(list)>>]
  BY UpdateIndicesIs
<1>2. \A i \in DOMAIN list : list[i] \in Record
  BY SeqFacts
<1>3. QED
  BY <1>1, <1>2 DEF SameButNodes, Record

-----------------------------------------------------------------------------
(* The data in the file.                                                   *)

\* A write beside a record's data does not touch it.
LEMMA GoodKept ==
    ASSUME FileType, NEW at \in Nat, NEW n \in Nat, NEW block, Write(at, n, block),
           NEW r \in Record, Good(r),
           r.dataPointer + DataSize(r) <= at \/ at + n <= r.dataPointer
    PROVE  GoodNext(r)
<1>1. r.dataPointer \in Nat /\ DataSize(r) \in Nat
  BY RecordFacts
<1>2. /\ size' >= size
      /\ \A k \in DOMAIN disk : k < at \/ at + n <= k => disk'[k] = disk[k]
      /\ size \in Nat /\ DOMAIN disk = 0 .. size - 1 /\ size' \in Nat
  BY WriteIs DEF FileType
<1>3. r.dataPointer + DataSize(r) <= size'
  BY <1>1, <1>2 DEF Good
<1>4. ASSUME NEW k \in 0 .. DataSize(r) - 1
      PROVE  disk'[r.dataPointer + k] = Byte(r, k)
  <2>1. r.dataPointer + k \in DOMAIN disk
    BY <1>1, <1>2 DEF Good
  <2>2. r.dataPointer + k < at \/ at + n <= r.dataPointer + k
    BY <1>1
  <2>3. QED
    BY <1>2, <2>1, <2>2 DEF Good
<1>5. QED
  BY <1>3, <1>4 DEF GoodNext

\* A new version that is written with its divider is there.
LEMMA FreshGood ==
    ASSUME FileType, NEW r \in Record, NEW w, w.content = r.content,
           w.compressed = r.compressed,
           Write(r.dataPointer, DataSize(r) + 1, Fresh(w))
    PROVE  GoodNext(r)
<1>1. r.dataPointer \in Nat /\ DataSize(r) \in Nat
  BY RecordFacts
<1>2. DataSize(w) = DataSize(r) /\ \A k : Byte(w, k) = Byte(r, k)
  BY DEF DataSize, Byte
<1>3. /\ size' >= r.dataPointer + (DataSize(r) + 1) /\ size' \in Nat
      /\ DOMAIN disk' = 0 .. size' - 1
      /\ \A k \in DOMAIN disk' : r.dataPointer <= k /\ k < r.dataPointer + (DataSize(r) + 1)
                                 => disk'[k] = Fresh(w)[k - r.dataPointer]
  <2> DEFINE n == DataSize(r) + 1
  <2>1. n \in Nat /\ Write(r.dataPointer, n, Fresh(w))
    BY <1>1
  <2> HIDE DEF n
  <2>2. /\ size' >= r.dataPointer + n /\ size' \in Nat
        /\ DOMAIN disk' = 0 .. size' - 1
        /\ \A k \in DOMAIN disk' : r.dataPointer <= k /\ k < r.dataPointer + n
                                   => disk'[k] = Fresh(w)[k - r.dataPointer]
    BY <1>1, <2>1, WriteIs DEF FileType
  <2>3. QED
    BY <2>2 DEF n
<1>4. ASSUME NEW k \in 0 .. DataSize(r) - 1
      PROVE  disk'[r.dataPointer + k] = Byte(r, k)
  <2>1. r.dataPointer + k \in DOMAIN disk' /\ (r.dataPointer + k) - r.dataPointer = k
    <3>1. /\ r.dataPointer + k \in 0 .. size' - 1
          /\ (r.dataPointer + k) - r.dataPointer = k
      BY <1>1, <1>3
    <3>2. QED
      BY <1>3, <3>1
  <2>2. disk'[r.dataPointer + k] = Fresh(w)[k]
    BY <1>1, <1>3, <2>1
  <2>3. QED
    BY <1>1, <1>2, <2>2 DEF Fresh
<1>5. QED
  BY <1>1, <1>3, <1>4 DEF GoodNext

\* So is one that is copied from where it was, to any place.
LEMMA CopiedGood ==
    ASSUME FileType, NEW r \in Record, Good(r), NEW at \in Nat,
           Write(at, Available(r) + 1, Copied(r))
    PROVE  /\ Available(r) = DataSize(r)
           /\ GoodNext([r EXCEPT !.dataPointer = at])
<1>1. r.dataPointer \in Nat /\ DataSize(r) \in Nat
  BY RecordFacts
<1>2. Available(r) = DataSize(r)
  BY <1>1 DEF Available, Good
<1>3. /\ size' >= at + (DataSize(r) + 1) /\ size' \in Nat
      /\ DOMAIN disk' = 0 .. size' - 1
      /\ \A k \in DOMAIN disk' : at <= k /\ k < at + (DataSize(r) + 1)
                                 => disk'[k] = Copied(r)[k - at]
  BY <1>1, <1>2, WriteIs DEF FileType
<1> DEFINE q == [r EXCEPT !.dataPointer = at]
<1>4. q.dataPointer = at /\ DataSize(q) = DataSize(r) /\ \A k : Byte(q, k) = Byte(r, k)
  BY DEF DataSize, Byte, Record
<1> HIDE DEF q
<1>5. ASSUME NEW k \in 0 .. DataSize(r) - 1
      PROVE  disk'[at + k] = Byte(r, k)
  <2>1. at + k \in DOMAIN disk' /\ (at + k) - at = k
    <3>1. at + k \in 0 .. size' - 1 /\ (at + k) - at = k
      BY <1>1, <1>3, InBlock
    <3>2. QED
      BY <1>3, <3>1
  <2>2. disk'[at + k] = Copied(r)[k]
    BY <1>1, <1>3, <2>1
  <2>3. Copied(r)[k] = disk[r.dataPointer + k]
    BY <1>1, <1>2 DEF Copied
  <2>4. QED
    BY <2>2, <2>3 DEF Good
<1>6. GoodNext(q)
  <2>1. q.dataPointer + DataSize(q) <= size'
    BY <1>1, <1>3, <1>4
  <2>2. \A k \in 0 .. DataSize(q) - 1 : disk'[q.dataPointer + k] = Byte(q, k)
    BY <1>4, <1>5
  <2>3. QED
    BY <2>1, <2>2 DEF GoodNext
<1>7. QED
  BY <1>2, <1>6 DEF q

\* A write behind all blocks keeps them.
LEMMA LaidKept ==
    ASSUME FileType, NEW list \in Seq(Record), NEW live \in SUBSET DOMAIN list,
           NEW limit \in Nat, Laid(list, live, limit),
           NEW at \in Nat, NEW n \in Nat, NEW block, Write(at, n, block),
           limit <= at
    PROVE  LaidNext(list, live, limit)
<1>1. ASSUME NEW i \in live PROVE GoodNext(list[i])
  <2>1. list[i] \in Record
    BY SeqFacts
  <2>2. list[i].dataPointer + DataSize(list[i]) <= at
    BY <2>1, RecordFacts DEF Laid
  <2>3. QED
    BY <2>1, <2>2, GoodKept DEF Laid
<1>2. QED
  BY <1>1 DEF Laid, LaidNext

LEMMA SameFile ==
    ASSUME UNCHANGED file
    PROVE  /\ \A r : Good(r) => GoodNext(r)
           /\ \A list, live, limit : Laid(list, live, limit) => LaidNext(list, live, limit)
BY DEF file, Good, GoodNext, Laid, LaidNext

\* While the file and what was stored stay, so does the flushed list.
LEMMA FlushedKept ==
    ASSUME UNCHANGED <<file, stored, saved>>, NEW p, FlushedAt(p)
    PROVE  FlushedNext(p)
<1>1. Sound(DiskList(p), p) => SoundNext(DiskList(p), p)
  BY SameFile DEF Sound, SoundNext
<1>2. DiskListNext(p) = DiskList(p)
  BY DEF DiskList, DiskListNext, file
<1>3. QED
  BY <1>1, <1>2 DEF FlushedAt, FlushedNext, ListAt, file

-----------------------------------------------------------------------------
(* What Safe says of a pack between two calls.                             *)

LEMMA FlushedFacts ==
    ASSUME TypeOK, NEW p, FlushedAt(p)
    PROVE  /\ p \in 0 .. size /\ 1 <= p /\ size >= 3
           /\ DiskList(p) \in Seq(Record)
           /\ TrailerAt(size)
           /\ disk[size - 2].value = p
           /\ disk[size - 1].value = saved.revision
           /\ saved.revision \in Nat
<1>1. FileType
  BY TypeParts
<1>2. p \in Nat /\ ListAt(p) /\ size = p + disk[p].value + 3
  BY DEF FlushedAt
<1>3. DiskList(p) \in Seq(Record) /\ disk[p].value \in Nat
  BY <1>1, <1>2, DiskListType
<1>4. 1 <= p
  BY DEF FlushedAt, Sound
<1>5. size >= 3 /\ p \in 0 .. size
  BY <1>2, <1>3
<1>6. disk[size - 2] = Pointer(p) /\ disk[size - 1] = Revision(saved.revision)
  BY DEF FlushedAt
<1>7. TrailerAt(size) /\ disk[size - 2].value = p /\ disk[size - 1].value = saved.revision
  <2>1. /\ Pointer(p).kind = "pointer" /\ Pointer(p).value = p
        /\ Revision(saved.revision).kind = "revision"
        /\ Revision(saved.revision).value = saved.revision
    BY DEF Pointer, Revision
  <2>2. size >= 2
    BY <1>1, <1>5 DEF FileType
  <2>3. QED
    BY <1>6, <2>1, <2>2 DEF TrailerAt
<1>8. disk[size - 1].value \in Nat
  <2>1. size - 1 \in DOMAIN disk
    BY <1>1, <1>5 DEF FileType
  <2>2. QED
    BY <1>1, <1>7, <2>1, CellKinds DEF FileType, TrailerAt
<1>9. QED
  BY <1>3, <1>4, <1>5, <1>7, <1>8

\* The list of an idle pack, in memory or in the file, is complete.
LEMMA ListSound ==
    ASSUME TypeOK, Safe, intact, pc = "idle"
    PROVE  /\ Readable
           /\ List \in Seq(Record)
           /\ Sound(List, numRecordsPointer)
           /\ 1 <= numRecordsPointer /\ numRecordsPointer <= size
           /\ numRecordsPointer < PointerSpan
           /\ disk[0] = Signature
           /\ saved.revision < IF dirty THEN revision ELSE revision + 1
<1>1. WhenClean /\ WhenDirty
  BY DEF Safe
<1>2. /\ numRecordsPointer \in Nat /\ revision \in Nat /\ dirty \in BOOLEAN
      /\ records \in Seq(Record) /\ saved.revision \in Int /\ size \in Nat
  BY DEF TypeOK
<1>3. CASE dirty
  <2>1. List = records /\ Readable
    BY <1>3 DEF List, Readable
  <2>2. /\ Sound(records, numRecordsPointer) /\ numRecordsPointer <= size
        /\ disk[0] = Signature /\ saved.revision < revision
    BY <1>1, <1>3 DEF WhenDirty
  <2>3. QED
    BY <1>2, <1>3, <2>1, <2>2 DEF Sound
<1>4. CASE ~dirty
  <2>1. FlushedAt(numRecordsPointer) /\ revision = saved.revision
    BY <1>1, <1>4 DEF WhenClean
  <2>2. List = DiskList(numRecordsPointer) /\ Readable
    BY <1>4, <2>1 DEF List, Readable, FlushedAt
  <2>3. numRecordsPointer <= size /\ DiskList(numRecordsPointer) \in Seq(Record)
    BY <2>1, <1>2, FlushedFacts
  <2>4. Sound(DiskList(numRecordsPointer), numRecordsPointer) /\ disk[0] = Signature
    BY <2>1 DEF FlushedAt
  <2>5. QED
    BY <1>2, <1>4, <2>1, <2>2, <2>3, <2>4 DEF Sound
<1>5. QED
  BY <1>2, <1>3, <1>4

\* So is the list of a pack that is being copied.
LEMMA CopySound ==
    ASSUME TypeOK, Safe, intact, pc = "copy"
    PROVE  Sound(records, numRecordsPointer)
BY DEF Safe, WhenClean, WhenDirty, FlushedAt, TypeOK

-----------------------------------------------------------------------------
(* The steps.  Nothing is promised after one that hurts the pack.          *)

LEMMA SafeSame ==
    ASSUME Safe, UNCHANGED <<file, pc, pack, locals, past>>
    PROVE  Safe'
<1>1. \A p : FlushedAt(p) => FlushedAt(p)'
  BY FlushedKept, NextForms DEF file, past
<1>2. FlushedAt(numRecordsPointer) => FlushedAt(numRecordsPointer)'
  BY FlushedKept, NextForms DEF file, past, pack
<1>3. DiskList(numRecordsPointer)' = DiskList(numRecordsPointer)
  BY DEF DiskList, file, pack
<1>4. WhenClosed => WhenClosed'
  BY <1>1 DEF WhenClosed, Untouched, file, pack, past
<1>5. WhenClean => WhenClean'
  BY <1>2, <1>3 DEF WhenClean, pack, past
<1>6. WhenDirty => WhenDirty'
  BY DEF WhenDirty, Sound, Laid, Good, file, pack, past
<1>7. WhenUpdating => WhenUpdating'
  BY DEF WhenUpdating, Settled, Laid, Good, file, pack, locals, past
<1>8. WhenCopying => WhenCopying'
  BY DEF WhenCopying, pack, locals
<1>9. QED
  BY <1>4, <1>5, <1>6, <1>7, <1>8 DEF Safe, intact, past

LEMMA SafeOpen ==
    ASSUME TypeOK, Safe, NewPack \/ GarbledList \/ Crash \/ Abandon
    PROVE  Safe'
<1> SUFFICES ASSUME intact' PROVE Safe'
  BY DEF Safe
<1>1. ASSUME NEW from \in Handles, Create(from) PROVE Safe'
  <2>1. intact /\ saved.revision < 0 /\ pc = "closed"
    BY <1>1 DEF Create, HurtUnless, intact
  <2>2. records = << >> /\ revision = 0 /\ DOMAIN stored = {}
    <3>1. WhenClosed
      BY <2>1 DEF Safe
    <3>2. \A p : FlushedAt(p) => saved.revision \in Nat
      BY FlushedFacts
    <3>3. QED
      BY <2>1, <3>1, <3>2 DEF WhenClosed, Untouched
  <2>3. /\ pc' = "idle" /\ dirty' = TRUE /\ numRecordsPointer' = 1
        /\ records' = << >> /\ revision' = 0 /\ stored' = stored /\ saved' = saved
    BY <1>1, <2>2 DEF Create
  <2>4. disk'[0] = Signature /\ size' >= 1
    <3>1. Write(0, 1, [k \in {0} |-> Signature]) /\ FileType
      BY <1>1, TypeParts DEF Create
    <3>2. size \in Nat /\ size' = Larger(size, 0 + 1)
          /\ disk' = Patched(0, 1, [k \in {0} |-> Signature], size')
      BY <3>1 DEF FileType, Write
    <3>3. size' \in Nat /\ size' >= 1
      BY <3>2 DEF Larger
    <3>4. disk'[0] = [k \in {0} |-> Signature][0]
      BY <3>2, <3>3 DEF Patched
    <3>5. QED
      BY <3>3, <3>4
  <2>5. Sound(records, numRecordsPointer)'
    <3>1. SoundNext(<< >>, 1)
      <4>1. DOMAIN << >> = {} /\ 1 < PointerSpan
        BY PackAssumption
      <4>2. QED
        BY <2>2, <2>3, <4>1
        DEF SoundNext, Sorted, LaidNext, Matches, Tiled, Borders
    <3>2. QED
      BY <2>3, <3>1, NextForms
  <2>6. WhenDirty'
    BY <2>1, <2>3, <2>4, <2>5 DEF WhenDirty
  <2>7. QED
    BY <2>3, <2>6 DEF Safe, WhenClosed, WhenClean, WhenUpdating, WhenCopying
<1>2. ASSUME NEW from \in Handles, from < size, disk[from] = Signature, pc = "closed", intact
      PROVE  \E p : FlushedAt(p) /\ records = << >> /\ ~dirty
  <2>1. from = 0 /\ size > 0
    BY <1>2 DEF Handles, TypeOK
  <2>2. WhenClosed
    BY <1>2 DEF Safe
  <2>3. QED
    BY <1>2, <2>1, <2>2 DEF WhenClosed, Untouched
<1>3. ASSUME NEW from \in Handles, Open(from) PROVE Safe'
  <2>1. intact /\ pc = "closed" /\ UNCHANGED <<file, dirty, records, stored, saved>>
    BY <1>3 DEF Open, intact
  <2>2. PICK p : FlushedAt(p) /\ records = << >> /\ ~dirty
    BY <1>2, <1>3, <2>1 DEF Open
  <2>3. numRecordsPointer' = p /\ revision' = saved.revision /\ pc' = "idle"
    BY <1>3, <2>2, FlushedFacts DEF Open
  <2>4. FlushedAt(numRecordsPointer)'
    BY <2>1, <2>2, <2>3, FlushedKept, NextForms
  <2>5. QED
    BY <2>1, <2>2, <2>3, <2>4
    DEF Safe, WhenClosed, WhenClean, WhenDirty, WhenUpdating, WhenCopying
<1>4. ASSUME NEW from \in Handles, OpenRefused(from) PROVE Safe'
  BY <1>4, SafeSame DEF OpenRefused
<1>5. ASSUME NEW from \in Handles, GarbledTrailer(from) PROVE FALSE
  <2>1. intact /\ pc = "closed" /\ from < size /\ disk[from] = Signature
    BY <1>5 DEF GarbledTrailer, Garble, past, intact
  <2>2. QED
    BY <1>2, <1>5, <2>1, FlushedFacts DEF GarbledTrailer
<1>6. ASSUME GarbledList PROVE FALSE
  <2>1. intact /\ pc = "idle"
    BY <1>6 DEF GarbledList, Garble, past, intact
  <2>2. QED
    BY <1>6, <2>1, ListSound DEF GarbledList
<1>7. ASSUME Crash PROVE Safe'
  <2>1. intact /\ ~dirty /\ pc # "closed" /\ UNCHANGED <<file, stored, saved>>
    BY <1>7 DEF Crash, HurtUnless, intact
  <2>2. pc \in {"idle", "copy"}
    BY <2>1 DEF Safe, WhenUpdating, TypeOK
  <2>3. FlushedAt(numRecordsPointer) /\ numRecordsPointer \in 0 .. size
    BY <2>1, <2>2, FlushedFacts DEF Safe, WhenClean
  <2>4. FlushedAt(numRecordsPointer) => FlushedNext(numRecordsPointer)
    BY <2>1, FlushedKept
  <2>5. \E p \in 0 .. size' : FlushedAt(p)'
    BY <2>1, <2>3, <2>4, NextForms DEF file
  <2>6. pc' = "closed" /\ ~dirty' /\ records' = << >> /\ revision' = 0
    BY <1>7 DEF Crash, Closes, Forget
  <2>7. WhenClosed'
    BY <2>5, <2>6 DEF WhenClosed
  <2>8. QED
    BY <2>6, <2>7 DEF Safe, WhenClean, WhenDirty, WhenUpdating, WhenCopying
<1>8. ASSUME Abandon PROVE FALSE
  BY <1>8 DEF Abandon, past, Safe, intact
<1>9. QED
  BY <1>1, <1>3, <1>4, <1>5, <1>6, <1>7, <1>8 DEF NewPack

\* The order the loops take the records in.
LEMMA BeforeIs ==
    ASSUME NEW list \in Seq(Record), NEW i \in DOMAIN list, NEW j \in DOMAIN list,
           Before(list, i, j)
    PROVE  list[i].dataPointer <= list[j].dataPointer
<1>1. list[i].dataPointer \in Nat /\ list[j].dataPointer \in Nat
  BY SeqFacts, RecordFacts
<1>2. list[i].dataPointer < list[j].dataPointer \/ list[i].dataPointer = list[j].dataPointer
  BY DEF Before
<1>3. QED
  BY <1>1, <1>2

\* No record starts where another one has its data.
LEMMA Apart ==
    ASSUME NEW list \in Seq(Record), NEW live \in SUBSET DOMAIN list, NEW limit,
           Laid(list, live, limit), NEW i \in live, NEW j \in live, i # j,
           list[i].dataPointer <= list[j].dataPointer
    PROVE  End(list[i]) <= list[j].dataPointer
<1>1. list[i] \in Record /\ list[j] \in Record
  BY SeqFacts
<1>2. End(list[i]) <= list[j].dataPointer \/ End(list[j]) <= list[i].dataPointer
  BY DEF Laid
<1>3. QED
  BY <1>1, <1>2, RecordFacts

\* The data that is copied next is where the copy has got to: the blocks
\* leave no gaps.
LEMMA CopyMeets ==
    ASSUME TypeOK, Safe, intact, pc = "copy"
    PROVE  /\ \A i \in pending : IsNext(i) => /\ records[i].dataPointer = pos
                                             /\ Available(records[i]) = DataSize(records[i])
           /\ pending = {} => pos = numRecordsPointer
<1>1. /\ Laid(records, DOMAIN records, numRecordsPointer)
      /\ Tiled(records, DOMAIN records, numRecordsPointer)
  BY CopySound DEF Sound
<1>2. /\ 1 <= pos
      /\ Borders(records, DOMAIN records \ pending, pos)
      /\ \A i \in DOMAIN records \ pending : End(records[i]) <= pos
      /\ \A i \in pending : pos <= records[i].dataPointer
  BY DEF Safe, WhenCopying
<1>3. records \in Seq(Record) /\ pending \subseteq DOMAIN records /\ pos \in Nat
      /\ numRecordsPointer \in Nat
  BY DEF TypeOK
<1>4. \A i \in DOMAIN records : /\ records[i].dataPointer \in Nat
                                /\ DataSize(records[i]) \in Nat
                                /\ End(records[i]) = records[i].dataPointer + DataSize(records[i]) + 1
  BY <1>3, SeqFacts, RecordFacts
<1>5. ASSUME NEW i \in pending, IsNext(i) PROVE records[i].dataPointer = pos
  <2>1. \A j \in pending : records[i].dataPointer <= records[j].dataPointer
    <3>1. \A j \in pending : Before(records, i, j)
      BY <1>5 DEF IsNext
    <3>2. QED
      BY <1>3, <3>1, BeforeIs
  <2>2. CASE records[i].dataPointer = 1
    BY <1>2, <1>3, <2>2
  <2>3. ASSUME NEW j \in DOMAIN records, End(records[j]) = records[i].dataPointer
        PROVE  records[i].dataPointer = pos
    <3>1. j \notin pending
      BY <1>4, <2>1, <2>3
    <3>2. QED
      BY <1>2, <1>3, <1>4, <2>3, <3>1
  <2>4. QED
    BY <1>1, <1>3, <2>2, <2>3 DEF Tiled, Borders
<1>6. ASSUME NEW i \in pending PROVE Available(records[i]) = DataSize(records[i])
  <2>1. Good(records[i])
    BY <1>1, <1>3 DEF Laid
  <2>2. QED
    BY <1>3, <1>4, <2>1 DEF Good, Available
<1>7. ASSUME pending = {} PROVE pos = numRecordsPointer
  <2>1. numRecordsPointer = 1 \/ \E j \in DOMAIN records : End(records[j]) = numRecordsPointer
    BY <1>1 DEF Tiled, Borders
  <2>2. numRecordsPointer <= pos
    BY <1>2, <1>7, <2>1
  <2>3. pos = 1 \/ \E j \in DOMAIN records : End(records[j]) = pos
    BY <1>2, <1>7 DEF Borders
  <2>4. 1 <= numRecordsPointer
    BY CopySound DEF Sound
  <2>5. pos <= numRecordsPointer
    BY <1>1, <2>3, <2>4 DEF Laid
  <2>6. QED
    BY <1>3, <2>2, <2>5
<1>8. QED
  BY <1>5, <1>6, <1>7

\* Reading the list, and WriteTo.
LEMMA SafeRead ==
    ASSUME TypeOK, Safe,
           Records \/ ReadRecords \/ BeginCopy \/ CopyRecord \/ EndCopy \/ CopyFails
    PROVE  Safe'
<1> SUFFICES ASSUME intact' PROVE Safe'
  BY DEF Safe
<1>1. intact /\ UNCHANGED <<file, dirty, revision, stored, saved>>
  BY DEF Records, ReadRecords, BeginCopy, CopyRecord, EndCopy, CopyFails, LoseIfMoved,
         pack, past, intact
<1>2. \A p : FlushedAt(p) => FlushedNext(p) /\ DiskListNext(p) = DiskList(p)
  BY <1>1, FlushedKept DEF DiskListNext, DiskList, file
<1>3. \A list, p : Sound(list, p) => SoundNext(list, p)
  BY <1>1, SameFile DEF Sound, SoundNext
<1>4. DiskListNext(numRecordsPointer') = DiskList(numRecordsPointer)'
  BY DEF DiskListNext, DiskList
\* A step that leaves the list of a dirty pack, and takes the one in the file
\* of a clean one.
<1>5. ASSUME numRecordsPointer' = numRecordsPointer, pc \in {"idle", "copy"},
             pc' \in {"idle", "copy"},
             dirty => records' = records,
             ~dirty => \/ records' = DiskList(numRecordsPointer)
                       \/ records' = << >> /\ pc' = "idle",
             WhenCopying'
      PROVE  Safe'
  <2>1. ASSUME dirty PROVE WhenDirty'
    <3>1. Sound(records, numRecordsPointer) /\ disk[0] = Signature
          /\ numRecordsPointer <= size /\ saved.revision < revision
      BY <1>1, <1>5, <2>1 DEF Safe, WhenDirty
    <3>2. Sound(records, numRecordsPointer)'
      BY <1>3, <1>5, <2>1, <3>1, NextForms
    <3>3. QED
      BY <1>1, <1>5, <2>1, <3>1, <3>2 DEF WhenDirty, file
  <2>2. ASSUME ~dirty PROVE WhenClean'
    <3>1. FlushedAt(numRecordsPointer) /\ revision = saved.revision
      BY <1>1, <1>5, <2>2 DEF Safe, WhenClean
    <3>2. FlushedAt(numRecordsPointer)'
      BY <1>2, <1>5, <3>1, NextForms
    <3>3. DiskList(numRecordsPointer)' = DiskList(numRecordsPointer)
      BY <1>2, <1>4, <1>5, <3>1
    <3>4. QED
      BY <1>1, <1>5, <2>2, <3>1, <3>2, <3>3 DEF WhenClean
  <2>3. QED
    BY <1>1, <1>5, <2>1, <2>2 DEF Safe, WhenClosed, WhenClean, WhenDirty, WhenUpdating
<1>6. pc = "idle" /\ ~dirty => records \in {<< >>, DiskList(numRecordsPointer)}
  BY <1>1 DEF Safe, WhenClean
<1>7. CASE Records \/ ReadRecords
  <2>1. /\ numRecordsPointer' = numRecordsPointer /\ pc = "idle" /\ pc' = "idle"
        /\ records' = Cached \/ records' = List
    BY <1>7 DEF Records, ReadRecords
  <2>2. WhenCopying'
    BY <2>1 DEF WhenCopying
  <2>3. QED
    BY <1>5, <1>6, <2>1, <2>2 DEF Cached, List
<1>8. CASE BeginCopy
  <2>1. /\ numRecordsPointer' = numRecordsPointer /\ pc = "idle" /\ pc' = "copy"
        /\ records' = Cached /\ pos' = 1 /\ pending' = DOMAIN Cached
    BY <1>8 DEF BeginCopy
  <2>2. Cached = List
    BY <1>6, <2>1 DEF Cached, List
  <2>3. Sound(List, numRecordsPointer)
    BY <1>1, <2>1, ListSound
  <2>4. WhenCopying'
    BY <2>1, <2>2, <2>3 DEF WhenCopying, Borders, Sound, Laid
  <2>5. QED
    BY <1>5, <2>1, <2>2, <2>4 DEF List
<1>9. ASSUME pc = "copy" PROVE ~dirty => records = DiskList(numRecordsPointer)
  BY <1>1, <1>9 DEF Safe, WhenClean
<1>10. CASE CopyRecord
  <2>1. PICK i \in pending : /\ IsNext(i)
                             /\ pos' = pos + Available(records[i]) + 1
                             /\ pending' = pending \ {i}
    BY <1>10 DEF CopyRecord
  <2>2. /\ pc = "copy" /\ pc' = "copy"
        /\ records' = records /\ numRecordsPointer' = numRecordsPointer
    BY <1>10 DEF CopyRecord, pack
  <2>3. /\ 1 <= pos
        /\ \A j \in DOMAIN records \ pending : End(records[j]) <= pos
    BY <1>1, <2>2 DEF Safe, WhenCopying
  <2>4. records \in Seq(Record) /\ pending \subseteq DOMAIN records /\ pos \in Nat
    BY DEF TypeOK
  <2>5. \A j \in DOMAIN records : /\ records[j].dataPointer \in Nat
                                  /\ End(records[j]) \in Nat
                                  /\ DataSize(records[j]) \in Nat
    BY <2>4, SeqFacts, RecordFacts
  <2>6. records[i].dataPointer = pos /\ pos' = End(records[i])
    <3>1. /\ records[i].dataPointer = pos
          /\ Available(records[i]) = DataSize(records[i])
      BY <1>1, <2>1, <2>2, CopyMeets
    <3>2. QED
      BY <2>1, <3>1 DEF End
  <2>7. pos <= pos' /\ 1 <= pos'
    BY <2>1, <2>3, <2>4, <2>5, <2>6 DEF End
  <2>8. ASSUME NEW j \in DOMAIN records \ pending' PROVE End(records[j]) <= pos'
    BY <2>1, <2>3, <2>4, <2>5, <2>6, <2>7, <2>8
  <2>9. ASSUME NEW j \in pending' PROVE pos' <= records[j].dataPointer
    <3>0. j \in pending /\ j # i /\ Before(records, i, j)
      BY <2>1, <2>9 DEF IsNext
    <3>1. j \in pending /\ j # i /\ records[i].dataPointer <= records[j].dataPointer
      BY <2>1, <2>4, <3>0, BeforeIs
    <3>2. Laid(records, DOMAIN records, numRecordsPointer)
      BY <1>1, <2>2, CopySound DEF Sound
    <3>3. QED
      BY <2>4, <2>6, <3>1, <3>2, Apart
  <2>10. Borders(records, DOMAIN records \ pending', pos')
    BY <2>1, <2>4, <2>6 DEF Borders
  <2>11. WhenCopying'
    BY <2>2, <2>7, <2>8, <2>9, <2>10 DEF WhenCopying, Borders
  <2>12. QED
    BY <1>5, <1>9, <2>2, <2>11
<1>11. CASE EndCopy \/ CopyFails
  <2>1. /\ pc = "copy" /\ pc' = "idle" /\ records' = records
        /\ \/ numRecordsPointer' = numRecordsPointer
           \/ numRecordsPointer' = U32(pos) /\ pending = {}
    BY <1>11 DEF EndCopy, CopyFails
  <2>2. pending = {} => pos = numRecordsPointer /\ numRecordsPointer < PointerSpan /\ pos \in Nat
    BY <1>1, <2>1, CopyMeets, CopySound DEF Sound, TypeOK
  <2>3. numRecordsPointer' = numRecordsPointer
    BY <2>1, <2>2, U32Small
  <2>4. WhenCopying'
    BY <2>1 DEF WhenCopying
  <2>5. QED
    BY <1>5, <1>9, <2>1, <2>3, <2>4
<1>12. QED
  BY <1>7, <1>8, <1>10, <1>11

LEMMA InsertRecord ==
    ASSUME NEW list \in Seq(Record), NEW r \in Record, NEW i \in 1 .. Len(list) + 1
    PROVE  /\ InsertAt(list, i, r) \in Seq(Record)
           /\ Len(InsertAt(list, i, r)) = Len(list) + 1
           /\ \A j \in 1 .. Len(list) + 1 :
                 InsertAt(list, i, r)[j] = IF j < i THEN list[j]
                                           ELSE IF j = i THEN r ELSE list[j - 1]
<1>1. InsertAt(list, i, r) \in Seq(Record)
  BY InsertAtIs
<1>2. Len(InsertAt(list, i, r)) = Len(list) + 1
  BY InsertAtIs
<1>3. ASSUME NEW j \in 1 .. Len(list) + 1
      PROVE  InsertAt(list, i, r)[j] = IF j < i THEN list[j]
                                       ELSE IF j = i THEN r ELSE list[j - 1]
  BY InsertAtIs, SMTT(30)
<1>4. QED
  BY <1>1, <1>2, <1>3

\* A complete list with a record more, whose block begins at the limit.
LEMMA InsertSound ==
    ASSUME NEW list \in Seq(Record), NEW limit \in Nat, 1 <= limit,
           Sorted(list), LaidNext(list, DOMAIN list, limit),
           Matches(list, DOMAIN list, stored), Tiled(list, DOMAIN list, limit),
           NEW r \in Record, r.dataPointer = limit, GoodNext(r), End(r) < PointerSpan,
           NEW i \in 1 .. Len(list) + 1, IsSlot(list, r.crc, i),
           \A j \in DOMAIN list : list[j].crc # r.crc,
           stored' = Put(stored, r.crc, [content |-> r.content, compressed |-> r.compressed])
    PROVE  /\ InsertAt(list, i, r) \in Seq(Record)
           /\ SoundNext(InsertAt(list, i, r), End(r))
<1>0. /\ InsertAt(list, i, r) \in Seq(Record)
      /\ Len(InsertAt(list, i, r)) = Len(list) + 1
      /\ \A j \in 1 .. Len(list) + 1 :
            InsertAt(list, i, r)[j] = IF j < i THEN list[j]
                                      ELSE IF j = i THEN r ELSE list[j - 1]
  BY InsertRecord
<1> DEFINE new == InsertAt(list, i, r)
           Old(j) == IF j < i THEN j ELSE j - 1
           New(j) == IF j < i THEN j ELSE j + 1
<1>1. i \in 1 .. Len(list) + 1 /\ Len(list) \in Nat /\ DOMAIN list = 1 .. Len(list)
  BY SeqFacts DEF IsSlot
<1>2. /\ new \in Seq(Record) /\ DOMAIN new = 1 .. Len(list) + 1
      /\ \A j \in 1 .. Len(list) + 1 :
            new[j] = IF j < i THEN list[j] ELSE IF j = i THEN r ELSE list[j - 1]
  <2>1. new \in Seq(Record) /\ Len(new) = Len(list) + 1
    BY <1>0
  <2>2. \A j \in 1 .. Len(list) + 1 :
            new[j] = IF j < i THEN list[j] ELSE IF j = i THEN r ELSE list[j - 1]
    BY <1>0
  <2> HIDE DEF new
  <2>3. QED
    BY <2>1, <2>2
<1> HIDE DEF new
<1>3. \A j \in DOMAIN new \ {i} : Old(j) \in DOMAIN list /\ new[j] = list[Old(j)]
  BY <1>1, <1>2
<1>4. \A j \in DOMAIN list : New(j) \in DOMAIN new \ {i} /\ new[New(j)] = list[j]
  BY <1>1, <1>2
<1>5. i \in DOMAIN new /\ new[i] = r
  BY <1>1, <1>2
<1>6. \A j, k \in DOMAIN new \ {i} : /\ j < k => Old(j) < Old(k)
                                     /\ j # k => Old(j) # Old(k)
  BY <1>1, <1>2
<1>7. Sorted(new)
  <2>1. ASSUME NEW j \in DOMAIN new, NEW k \in DOMAIN new, j < k
        PROVE  new[j].crc < new[k].crc
    <3>1. CASE j # i /\ k # i
      BY <1>3, <1>6, <2>1, <3>1 DEF Sorted
    <3>2. CASE k = i
      BY <1>1, <1>2, <1>5, <2>1, <3>2 DEF IsSlot
    <3>3. CASE j = i
      <4>1. Old(k) \in i .. Len(list) /\ new[k] = list[Old(k)]
        BY <1>1, <1>2, <1>3, <2>1, <3>3
      <4>2. list[Old(k)].crc >= r.crc /\ list[Old(k)].crc # r.crc
        BY <1>1, <4>1 DEF IsSlot
      <4>3. list[Old(k)].crc \in Nat /\ r.crc \in Nat
        BY <1>1, <4>1, SeqFacts, RecordFacts
      <4>4. QED
        BY <1>5, <3>3, <4>1, <4>2, <4>3
    <3>4. QED
      BY <2>1, <3>1, <3>2, <3>3
  <2>2. QED
    BY <2>1 DEF Sorted
<1> HIDE DEF Old, New
<1>8. limit <= End(r) /\ End(r) \in Nat /\ 1 <= End(r)
  BY RecordFacts
<1>9. \A j \in DOMAIN list : End(list[j]) \in Nat
  BY SeqFacts, RecordFacts
<1>10. LaidNext(new, DOMAIN new, End(r))
  <2>1. ASSUME NEW j \in DOMAIN new
        PROVE  1 <= new[j].dataPointer /\ End(new[j]) <= End(r) /\ GoodNext(new[j])
    <3>1. CASE j = i
      BY <1>5, <1>8, <3>1
    <3>2. CASE j # i
      BY <1>3, <1>8, <1>9, <3>2 DEF LaidNext
    <3>3. QED
      BY <3>1, <3>2
  <2>2. ASSUME NEW j \in DOMAIN new, NEW k \in DOMAIN new, j # k
        PROVE  End(new[j]) <= new[k].dataPointer \/ End(new[k]) <= new[j].dataPointer
    <3>1. CASE j # i /\ k # i
      BY <1>3, <1>6, <2>2, <3>1 DEF LaidNext
    <3>2. CASE k = i
      BY <1>3, <1>5, <2>2, <3>2 DEF LaidNext
    <3>3. CASE j = i
      BY <1>3, <1>5, <2>2, <3>3 DEF LaidNext
    <3>4. QED
      BY <3>1, <3>2, <3>3
  <2>3. QED
    BY <2>1, <2>2 DEF LaidNext
<1>11. Matches(new, DOMAIN new, stored')
  <2>1. ASSUME NEW j \in DOMAIN new
        PROVE  /\ new[j].crc \in DOMAIN stored'
               /\ stored'[new[j].crc] = [content |-> new[j].content,
                                         compressed |-> new[j].compressed]
    <3>1. CASE j = i
      BY <1>5, <3>1 DEF Put
    <3>2. CASE j # i
      BY <1>3, <3>2 DEF Put, Matches
    <3>3. QED
      BY <3>1, <3>2
  <2>2. ASSUME NEW c \in DOMAIN stored' PROVE \E j \in DOMAIN new : new[j].crc = c
    <3>1. CASE c = r.crc
      BY <1>5, <3>1
    <3>2. CASE c # r.crc
      <4>1. PICK j \in DOMAIN list : list[j].crc = c
        BY <3>2 DEF Put, Matches
      <4>2. QED
        BY <1>4, <4>1
    <3>3. QED
      BY <3>1, <3>2
  <2>3. QED
    BY <2>1, <2>2 DEF Matches
<1>12. Tiled(new, DOMAIN new, End(r))
  <2>1. \A p : Borders(list, DOMAIN list, p) => Borders(new, DOMAIN new, p)
    BY <1>4 DEF Borders
  <2>2. Borders(new, DOMAIN new, End(r))
    BY <1>5 DEF Borders
  <2>3. ASSUME NEW j \in DOMAIN new PROVE Borders(new, DOMAIN new, new[j].dataPointer)
    <3>1. CASE j = i
      BY <1>5, <2>1, <3>1 DEF Tiled
    <3>2. CASE j # i
      BY <1>3, <2>1, <3>2 DEF Tiled
    <3>3. QED
      BY <3>1, <3>2
  <2>4. QED
    BY <2>2, <2>3 DEF Tiled
<1>13. QED
  BY <1>2, <1>7, <1>8, <1>10, <1>11, <1>12 DEF SoundNext, new

\* A path that is stored for the first time.
LEMMA SafeInsert ==
    ASSUME TypeOK, Safe, NEW c \in Crcs, NEW v \in Version,
           Insert(c, v) \/ InsertFails(c, v) \/ InsertUndivided(c, v)
    PROVE  Safe'
<1> SUFFICES ASSUME intact' PROVE Safe'
  BY DEF Safe
<1>1. intact /\ Insert(c, v)
  BY DEF Insert, InsertFails, InsertUndivided, HurtUnless, intact
<1> DEFINE r == NewRecord(c, v)
           n == DataSize(r) + 1
<1>2. /\ r \in Record /\ r.crc = c /\ r.content = v.content
      /\ r.compressed = v.compressed /\ r.dataPointer = numRecordsPointer
  BY DEF NewRecord, Record, Version, TypeOK
<1>3. n \in Nat /\ End(r) = numRecordsPointer + n /\ numRecordsPointer \in Nat /\ End(r) \in Nat
  BY <1>2, RecordFacts
<1>4. /\ BeginInsert(c, v) /\ Write(numRecordsPointer, n, Fresh(r))
      /\ numRecordsPointer' = U32(End(r)) /\ stored' = Put(stored, c, v)
      /\ End(r) < PointerSpan /\ pc' = pc /\ saved' = saved
  BY <1>1, <1>2 DEF Insert, HurtUnless, intact, End
<1>5. /\ pc = "idle" /\ dirty' = TRUE
      /\ revision' = IF dirty THEN revision ELSE revision + 1
      /\ \A j \in DOMAIN List : List[j].crc # c
  BY <1>4 DEF BeginInsert, BeginStore
<1>6. /\ List \in Seq(Record)
      /\ Sound(List, numRecordsPointer)
      /\ 1 <= numRecordsPointer /\ numRecordsPointer <= size
      /\ disk[0] = Signature
      /\ saved.revision < revision'
  BY <1>1, <1>5, ListSound
<1>7. PICK i \in 1 .. Len(List) + 1 :
         /\ IsSlot(List, c, i)
         /\ records' = UpdateIndices(InsertAt(List, i, r))
  BY <1>4 DEF BeginInsert
<1>8. FileType
  BY TypeParts
<1>9. /\ n = DataSize(r) + 1 /\ r.content \in Contents /\ r.compressed \in BOOLEAN
      /\ v = [content |-> r.content, compressed |-> r.compressed]
  BY <1>2, RecordFacts DEF Version
<1> HIDE DEF r, n
<1>10. GoodNext(r)
  BY <1>2, <1>4, <1>8, <1>9, FreshGood
<1>11. LaidNext(List, DOMAIN List, numRecordsPointer)
  BY <1>3, <1>4, <1>6, <1>8, LaidKept DEF Sound
<1>12. numRecordsPointer' = End(r)
  BY <1>3, <1>4, U32Small
<1>13. SoundNext(records', numRecordsPointer')
  <2>1. /\ InsertAt(List, i, r) \in Seq(Record)
        /\ SoundNext(InsertAt(List, i, r), End(r))
    BY <1>2, <1>3, <1>4, <1>5, <1>6, <1>7, <1>9, <1>10, <1>11, InsertSound DEF Sound
  <2>2. QED
    BY <1>7, <1>12, <2>1, UpdateIndicesSame, NodesDoNotMatter
<1>14. disk'[0] = Signature /\ numRecordsPointer' <= size'
  <2>1. /\ size' >= numRecordsPointer + n
        /\ \A k \in DOMAIN disk : k < numRecordsPointer => disk'[k] = disk[k]
    BY <1>3, <1>4, <1>8, WriteIs DEF FileType
  <2>2. 0 \in DOMAIN disk /\ 0 < numRecordsPointer
    BY <1>3, <1>6, <1>8 DEF FileType
  <2>3. QED
    BY <1>3, <1>6, <1>12, <2>1, <2>2
<1>15. WhenDirty'
  BY <1>4, <1>6, <1>13, <1>14, NextForms DEF WhenDirty
<1>16. QED
  BY <1>4, <1>5, <1>15 DEF Safe, WhenClosed, WhenClean, WhenUpdating, WhenCopying

-----------------------------------------------------------------------------
(* updateRecord.                                                           *)

\* An update begins: the target leaves the list of what is stored, and only
\* the records behind it are to be moved.
LEMMA SafeBeginUpdate ==
    ASSUME TypeOK, Safe, NEW c \in Crcs, NEW v \in Version, BeginUpdate(c, v)
    PROVE  Safe'
<1> SUFFICES ASSUME intact' PROVE Safe'
  BY DEF Safe
<1>1. /\ intact /\ pc = "idle" /\ pc' = "update" /\ dirty' = TRUE
      /\ revision' = IF dirty THEN revision ELSE revision + 1
      /\ stored' = Drop(stored, c)
      /\ UNCHANGED <<file, numRecordsPointer, saved>>
  BY DEF BeginUpdate, BeginStore, intact
<1>2. /\ List \in Seq(Record)
      /\ Sound(List, numRecordsPointer)
      /\ numRecordsPointer <= size /\ numRecordsPointer < PointerSpan
      /\ disk[0] = Signature
      /\ saved.revision < revision'
      /\ numRecordsPointer \in Nat
  BY <1>1, ListSound DEF TypeOK
<1> DEFINE d(j) == List[j].dataPointer
<1>3. PICK t \in DOMAIN List :
        /\ List[t].crc = c /\ index' = t /\ pos' = d(t)
        /\ \E found \in DOMAIN List :
              /\ d(found) = d(t)
              /\ pending' = {j \in DOMAIN List : Before(List, found, j)} \ {found}
        /\ records' = [List EXCEPT ![t].content = v.content,
                                   ![t].compressed = v.compressed]
  BY DEF BeginUpdate
<1>4. \A j \in DOMAIN List : /\ d(j) \in Nat /\ End(List[j]) \in Nat /\ DataSize(List[j]) \in Nat
                             /\ End(List[j]) = d(j) + DataSize(List[j]) + 1
  BY <1>2, SeqFacts, RecordFacts
<1>5. \A i, j \in DOMAIN List : i # j /\ d(i) <= d(j) => End(List[i]) <= d(j)
  BY <1>2, Apart DEF Sound
<1>6. \A i, j \in DOMAIN List : i # j => d(i) # d(j)
  BY <1>4, <1>5
<1>7. /\ DOMAIN records' = DOMAIN List
      /\ \A j \in DOMAIN List : /\ records'[j].crc = List[j].crc
                                /\ records'[j].dataPointer = d(j)
                                /\ j # t => records'[j] = List[j]
  <2>1. List[t] \in Record
    BY <1>2, SeqFacts
  <2>2. records' = [List EXCEPT ![t] = [List[t] EXCEPT !.content = v.content,
                                                       !.compressed = v.compressed]]
    BY <1>3
  <2>3. QED
    BY <2>1, <2>2 DEF Record
<1>8. pending' = {j \in DOMAIN List : d(t) < d(j)}
  <2>1. pending' = {j \in DOMAIN List : Before(List, t, j)} \ {t}
    BY <1>3, <1>6
  <2>2. QED
    BY <1>4, <1>6, <2>1 DEF Before
<1>9. Settled' = {j \in DOMAIN List : d(j) < d(t)}
  <2>1. Settled' = DOMAIN List \ (pending' \cup {t})
    BY <1>3, <1>7 DEF Settled
  <2>2. QED
    BY <1>4, <1>6, <1>8, <2>1
<1> HIDE DEF d
<1>10. Sorted(records)'
  <2>1. Sorted(List)
    BY <1>2 DEF Sound
  <2>2. QED
    BY <1>7, <2>1 DEF Sorted
<1>11. Laid(records, DOMAIN records \ {index}, numRecordsPointer)'
  <2>1. LaidNext(List, DOMAIN List, numRecordsPointer)
    BY <1>1, <1>2, SameFile DEF Sound
  <2>2. LaidNext(records', DOMAIN records' \ {index'}, numRecordsPointer')
    BY <1>1, <1>3, <1>7, <2>1 DEF LaidNext
  <2>3. QED
    BY <2>2, NextForms
<1>12. Matches(records, DOMAIN records \ {index}, stored)'
  <2>1. Matches(List, DOMAIN List, stored) /\ Sorted(List)
    BY <1>2 DEF Sound
  <2>2. ASSUME NEW j \in DOMAIN List, j # t PROVE List[j].crc # c
    <3>1. j \in Nat /\ t \in Nat /\ List[j].crc \in Nat /\ List[t].crc \in Nat
      BY <1>2, SeqFacts, RecordFacts
    <3>2. j < t \/ t < j
      BY <2>2, <3>1
    <3>3. QED
      BY <1>3, <2>1, <3>1, <3>2 DEF Sorted
  <2>3. ASSUME NEW j \in DOMAIN List, j # t
        PROVE  /\ List[j].crc \in DOMAIN stored'
               /\ stored'[List[j].crc] = [content |-> List[j].content,
                                          compressed |-> List[j].compressed]
    BY <1>1, <2>1, <2>2, <2>3 DEF Matches, Drop
  <2>4. ASSUME NEW e \in DOMAIN stored' PROVE \E j \in DOMAIN List \ {t} : List[j].crc = e
    BY <1>1, <1>3, <2>1 DEF Matches, Drop
  <2>5. QED
    BY <1>3, <1>7, <2>3, <2>4 DEF Matches
<1>13. Tiled(records, Settled, pos)'
  <2>1. \A p : Borders(List, DOMAIN List, p) =>
                 p = 1 \/ \E j \in DOMAIN List : End(List[j]) = p
    BY DEF Borders
  <2>2. ASSUME NEW p \in Nat, Borders(List, DOMAIN List, p), p <= d(t)
        PROVE  Borders(records', Settled', p)
    <3>1. CASE p = 1
      BY <3>1 DEF Borders
    <3>2. ASSUME NEW j \in DOMAIN List, End(List[j]) = p
          PROVE  Borders(records', Settled', p)
      <4>1. d(j) < d(t)
        BY <1>4, <2>2, <3>2
      <4>2. j \in Settled' /\ j # t
        BY <1>4, <1>9, <4>1
      <4>3. QED
        BY <1>7, <3>2, <4>2 DEF Borders
    <3>3. QED
      BY <2>1, <2>2, <3>1, <3>2
  <2>3. \A j \in DOMAIN List : Borders(List, DOMAIN List, d(j))
    BY <1>2 DEF Sound, Tiled, d
  <2>4. Borders(records', Settled', pos')
    <3>1. d(t) \in Nat /\ d(t) <= d(t) /\ Borders(List, DOMAIN List, d(t))
      BY <1>4, <2>3
    <3>2. QED
      BY <1>3, <2>2, <3>1
  <2>5. ASSUME NEW j \in Settled' PROVE Borders(records', Settled', records'[j].dataPointer)
    <3>1. j \in DOMAIN List /\ d(j) <= d(t) /\ d(j) \in Nat
      BY <1>4, <1>9
    <3>2. QED
      BY <1>7, <2>2, <2>3, <3>1
  <2>6. QED
    BY <2>4, <2>5 DEF Tiled, Borders
<1>14. 1 <= pos' /\ pos' < numRecordsPointer
  <2>1. 1 <= d(t) /\ End(List[t]) <= numRecordsPointer
    BY <1>2 DEF Sound, Laid, d
  <2>2. QED
    BY <1>2, <1>3, <1>4, <2>1
<1>15. \A j \in Settled' : End(records'[j]) <= pos'
  BY <1>3, <1>4, <1>5, <1>7, <1>9
<1>16. \A j \in pending' : pos' < records'[j].dataPointer
  BY <1>3, <1>7, <1>8
<1>17. index' \notin pending' /\ records'[index'].crc \notin DOMAIN stored'
  <2>1. c \notin DOMAIN stored'
    BY <1>1 DEF Drop
  <2>2. t \notin pending'
    BY <1>4, <1>8
  <2>3. QED
    BY <1>3, <1>7, <2>1, <2>2
<1>18. WhenUpdating'
  BY <1>1, <1>2, <1>10, <1>11, <1>12, <1>13, <1>14, <1>15, <1>16, <1>17
  DEF WhenUpdating, file
<1>19. QED
  BY <1>1, <1>18 DEF Safe, WhenClosed, WhenClean, WhenDirty, WhenCopying

\* A record moves up to where the last one ended.
LEMMA SafeShift ==
    ASSUME TypeOK, Safe, Shift
    PROVE  Safe'
<1> SUFFICES ASSUME intact' PROVE Safe'
  BY DEF Safe
<1>1. /\ intact /\ pc = "update"
      /\ UNCHANGED <<pc, dirty, numRecordsPointer, revision, index, stored, saved>>
  BY DEF Shift, past, intact
<1>2. PICK i \in pending :
        /\ IsNext(i)
        /\ Write(pos, Available(records[i]) + 1, Copied(records[i]))
        /\ records' = [records EXCEPT ![i].dataPointer = U32(pos)]
        /\ pos' = pos + Available(records[i]) + 1
        /\ pending' = pending \ {i}
  BY DEF Shift
<1>3. WhenUpdating
  BY <1>1 DEF Safe
<1>4. /\ records \in Seq(Record) /\ pending \subseteq DOMAIN records
      /\ pos \in Nat /\ numRecordsPointer \in Nat /\ index \in DOMAIN records
      /\ FileType
  BY <1>1, TypeParts DEF TypeOK
<1>5. /\ Laid(records, DOMAIN records \ {index}, numRecordsPointer)
      /\ Matches(records, DOMAIN records \ {index}, stored)
      /\ Tiled(records, Settled, pos) /\ Sorted(records)
      /\ 1 <= pos /\ pos < numRecordsPointer /\ numRecordsPointer < PointerSpan
      /\ \A j \in Settled : End(records[j]) <= pos
      /\ \A j \in pending : pos < records[j].dataPointer
      /\ index \notin pending
  BY <1>1, <1>3 DEF WhenUpdating
<1> DEFINE r == records[i]
           q == [r EXCEPT !.dataPointer = pos]
<1>6. \A j \in DOMAIN records : /\ records[j] \in Record
                                /\ records[j].dataPointer \in Nat
                                /\ DataSize(records[j]) \in Nat
                                /\ End(records[j]) \in Nat
                                /\ End(records[j]) = records[j].dataPointer + DataSize(records[j]) + 1
  BY <1>4, SeqFacts, RecordFacts
<1>7. i \in DOMAIN records /\ i # index /\ r \in Record /\ Good(r)
  BY <1>4, <1>5, <1>6 DEF Laid
<1>8. Available(r) = DataSize(r) /\ GoodNext(q)
  BY <1>2, <1>4, <1>7, CopiedGood
<1>9. /\ q.dataPointer = pos /\ q.crc = r.crc /\ q.content = r.content
      /\ q.compressed = r.compressed /\ End(q) = pos + DataSize(r) + 1
  BY <1>7 DEF End, DataSize, Record
<1>10. U32(pos) = pos
  <2>1. pos < PointerSpan
    BY <1>4, <1>5, PackAssumption
  <2>2. QED
    BY <1>4, <2>1, U32Small
<1>11. /\ DOMAIN records' = DOMAIN records /\ records'[i] = q
       /\ \A j \in DOMAIN records : j # i => records'[j] = records[j]
  BY <1>2, <1>4, <1>7, <1>10
<1>12. pos' = End(q)
  BY <1>2, <1>8, <1>9
<1>13. \A j \in pending' : j \in DOMAIN records /\ j # i /\ j # index
                            /\ End(r) <= records[j].dataPointer
  <2>1. ASSUME NEW j \in pending' PROVE End(r) <= records[j].dataPointer
    <3>1. j \in pending /\ j # i /\ j # index /\ i # index
      BY <1>2, <1>5, <2>1
    <3>2. r.dataPointer <= records[j].dataPointer
      <4>1. Before(records, i, j)
        BY <1>2, <3>1 DEF IsNext
      <4>2. QED
        BY <1>4, <3>1, <4>1, BeforeIs
    <3>3. i \in DOMAIN records \ {index} /\ j \in DOMAIN records \ {index}
      BY <1>4, <3>1
    <3>4. QED
      BY <1>4, <1>5, <3>1, <3>2, <3>3, Apart
  <2>2. QED
    BY <1>2, <1>4, <1>5, <2>1
<1> HIDE DEF q
<1>14. /\ pos < r.dataPointer /\ pos' < End(r) /\ End(r) <= numRecordsPointer
       /\ pos' \in Nat /\ pos < pos'
  <2>1. pos < r.dataPointer /\ End(r) <= numRecordsPointer
    BY <1>5, <1>7 DEF Laid
  <2>2. QED
    BY <1>4, <1>6, <1>7, <1>9, <1>12, <2>1
<1>15. Settled' = Settled \cup {i} /\ Settled \subseteq DOMAIN records \ {i, index}
  BY <1>1, <1>2, <1>4, <1>7, <1>11 DEF Settled
<1>16. ASSUME NEW j \in DOMAIN records, j # i, j # index
       PROVE  j \in Settled \/ j \in pending'
  BY <1>2, <1>16 DEF Settled
<1>17. Sorted(records)'
  BY <1>5, <1>7, <1>9, <1>11 DEF Sorted
<1>18. Laid(records, DOMAIN records \ {index}, numRecordsPointer)'
  <2>1. ASSUME NEW j \in DOMAIN records, j # i, j # index PROVE GoodNext(records[j])
    <3>1. records[j] \in Record /\ Good(records[j])
      BY <1>5, <1>6, <2>1 DEF Laid
    <3> DEFINE n == DataSize(r) + 1
    <3>2. n \in Nat /\ Write(pos, n, Copied(r)) /\ pos + n = pos'
      <4>1. DataSize(r) \in Nat
        BY <1>6, <1>7
      <4>2. Write(pos, n, Copied(r))
        BY <1>2, <1>8
      <4>3. pos + n = pos'
        BY <1>2, <1>4, <1>8, <4>1
      <4>4. QED
        BY <4>1, <4>2, <4>3
    <3> HIDE DEF n
    <3>3. records[j].dataPointer + DataSize(records[j]) <= pos \/ pos + n <= records[j].dataPointer
      <4>1. CASE j \in Settled
        BY <1>4, <1>5, <1>6, <4>1
      <4>2. CASE j \in pending'
        BY <1>6, <1>7, <1>13, <1>14, <3>2, <4>2
      <4>3. QED
        BY <1>16, <2>1, <4>1, <4>2
    <3>4. QED
      BY <1>4, <3>1, <3>2, <3>3, GoodKept
  <2>2. ASSUME NEW j \in DOMAIN records, j # index
        PROVE  /\ 1 <= records'[j].dataPointer
               /\ End(records'[j]) <= numRecordsPointer
               /\ GoodNext(records'[j])
    <3>1. CASE j = i
      BY <1>4, <1>5, <1>6, <1>7, <1>8, <1>9, <1>11, <1>12, <1>14, <3>1
    <3>2. CASE j # i
      BY <1>5, <1>11, <2>1, <2>2, <3>2 DEF Laid
    <3>3. QED
      BY <3>1, <3>2
  <2>3. ASSUME NEW j \in DOMAIN records, j # i, j # index
        PROVE  End(records[j]) <= q.dataPointer \/ End(q) <= records[j].dataPointer
    <3>1. CASE j \in Settled
      BY <1>5, <1>9, <3>1
    <3>2. CASE j \in pending'
      BY <1>6, <1>7, <1>12, <1>13, <1>14, <3>2
    <3>3. QED
      BY <1>16, <2>3, <3>1, <3>2
  <2>4. ASSUME NEW j \in DOMAIN records \ {index}, NEW k \in DOMAIN records \ {index}, j # k
        PROVE  \/ End(records'[j]) <= records'[k].dataPointer
               \/ End(records'[k]) <= records'[j].dataPointer
    <3>1. CASE j # i /\ k # i
      BY <1>5, <1>11, <2>4, <3>1 DEF Laid
    <3>2. CASE j = i
      BY <1>11, <2>3, <2>4, <3>2
    <3>3. CASE k = i
      BY <1>11, <2>3, <2>4, <3>3
    <3>4. QED
      BY <3>1, <3>2, <3>3
  <2>5. LaidNext(records', DOMAIN records' \ {index'}, numRecordsPointer')
    BY <1>1, <1>11, <2>2, <2>4 DEF LaidNext
  <2>6. QED
    BY <2>5, NextForms
<1>19. Matches(records, DOMAIN records \ {index}, stored)'
  <2>1. \A j \in DOMAIN records : /\ records'[j].crc = records[j].crc
                                  /\ records'[j].content = records[j].content
                                  /\ records'[j].compressed = records[j].compressed
    BY <1>9, <1>11
  <2>2. QED
    BY <1>1, <1>5, <1>11, <2>1 DEF Matches
<1>20. Tiled(records, Settled, pos)'
  <2>1. \A p : Borders(records, Settled, p) => Borders(records', Settled', p)
    BY <1>11, <1>15 DEF Borders
  <2>2. Borders(records', Settled', pos')
    BY <1>11, <1>12, <1>15 DEF Borders
  <2>3. \A j \in Settled' : Borders(records', Settled', records'[j].dataPointer)
    <3>1. ASSUME NEW j \in Settled' PROVE Borders(records', Settled', records'[j].dataPointer)
      <4>1. CASE j = i
        BY <1>5, <1>9, <1>11, <2>1, <4>1 DEF Tiled
      <4>2. CASE j # i
        BY <1>5, <1>11, <1>15, <2>1, <4>2 DEF Tiled
      <4>3. QED
        BY <4>1, <4>2
    <3>2. QED
      BY <3>1
  <2>4. QED
    BY <2>2, <2>3 DEF Tiled, Borders
<1>21. \A j \in Settled' : End(records'[j]) <= pos'
  BY <1>4, <1>5, <1>6, <1>11, <1>12, <1>14, <1>15
<1>22. \A j \in pending' : pos' < records'[j].dataPointer
  BY <1>6, <1>7, <1>11, <1>13, <1>14
<1>23. disk'[0] = Signature /\ numRecordsPointer' <= size'
  <2> DEFINE n == DataSize(r) + 1
  <2>1. n \in Nat /\ Write(pos, n, Copied(r))
    BY <1>2, <1>6, <1>7, <1>8
  <2> HIDE DEF n
  <2>2. /\ size' >= size /\ size' \in Nat /\ \A k \in DOMAIN disk : k < pos => disk'[k] = disk[k]
    BY <1>4, <2>1, WriteIs DEF FileType
  <2>3. numRecordsPointer <= size /\ disk[0] = Signature
    BY <1>1, <1>3 DEF WhenUpdating
  <2>4. 0 \in DOMAIN disk /\ 0 < pos /\ numRecordsPointer <= size'
    BY <1>4, <1>5, <2>2, <2>3 DEF FileType
  <2>5. QED
    BY <1>1, <2>2, <2>3, <2>4
<1>24. /\ index' \notin pending' /\ records'[index'].crc \notin DOMAIN stored'
       /\ dirty' /\ saved'.revision < revision' /\ numRecordsPointer' < PointerSpan
  BY <1>1, <1>2, <1>3, <1>4, <1>7, <1>11 DEF WhenUpdating
<1>25. 1 <= pos' /\ pos' < numRecordsPointer'
  BY <1>1, <1>4, <1>5, <1>6, <1>7, <1>14
<1>26. WhenUpdating'
  BY <1>17, <1>18, <1>19, <1>20, <1>21, <1>22, <1>23, <1>24, <1>25 DEF WhenUpdating
<1>27. QED
  BY <1>1, <1>26 DEF Safe, WhenClosed, WhenClean, WhenDirty, WhenCopying

\* The new data of the target is written behind the records that were moved.
LEMMA SafeReplace ==
    ASSUME TypeOK, Safe, Replace
    PROVE  Safe'
<1> SUFFICES ASSUME intact' PROVE Safe'
  BY DEF Safe
<1> DEFINE r == records[index]
           q == [r EXCEPT !.dataPointer = pos]
           n == DataSize(r) + 1
<1>1. /\ intact /\ pc = "update" /\ pending = {} /\ pc' = "idle"
      /\ UNCHANGED <<dirty, revision, saved>>
      /\ records' = UpdateIndices(Moved)
      /\ Write(pos, n, Fresh(r))
      /\ numRecordsPointer' = U32(pos + DataSize(r) + 1)
      /\ stored' = Put(stored, r.crc, [content |-> r.content, compressed |-> r.compressed])
      /\ pos + DataSize(r) + 1 < PointerSpan
  BY DEF Replace, EndUpdate, HurtUnless, intact
<1>2. WhenUpdating
  BY <1>1 DEF Safe
<1>3. /\ records \in Seq(Record) /\ pos \in Nat /\ numRecordsPointer \in Nat
      /\ index \in DOMAIN records /\ FileType
  BY <1>1, TypeParts DEF TypeOK
<1>4. Settled = DOMAIN records \ {index}
  BY <1>1 DEF Settled
<1>5. /\ Laid(records, DOMAIN records \ {index}, numRecordsPointer)
      /\ Matches(records, DOMAIN records \ {index}, stored)
      /\ Tiled(records, DOMAIN records \ {index}, pos) /\ Sorted(records)
      /\ 1 <= pos /\ pos < numRecordsPointer /\ numRecordsPointer < PointerSpan
      /\ \A j \in DOMAIN records \ {index} : End(records[j]) <= pos
      /\ r.crc \notin DOMAIN stored
  BY <1>1, <1>2, <1>4 DEF WhenUpdating
<1>6. \A j \in DOMAIN records : /\ records[j] \in Record
                                /\ records[j].dataPointer \in Nat
                                /\ DataSize(records[j]) \in Nat
                                /\ End(records[j]) \in Nat
                                /\ End(records[j]) = records[j].dataPointer + DataSize(records[j]) + 1
  BY <1>3, SeqFacts, RecordFacts
<1>7. U32(pos) = pos
  <2>1. pos < PointerSpan
    BY <1>3, <1>5, PackAssumption
  <2>2. QED
    BY <1>3, <2>1, U32Small
<1>8. /\ q \in Record /\ q.dataPointer = pos /\ q.crc = r.crc /\ q.content = r.content
      /\ q.compressed = r.compressed /\ DataSize(q) = DataSize(r)
      /\ End(q) = pos + DataSize(r) + 1
  <2>1. r \in Record
    BY <1>3, <1>6
  <2>2. QED
    BY <1>3, <2>1 DEF End, DataSize, Record
<1>9. /\ Moved \in Seq(Record) /\ DOMAIN Moved = DOMAIN records /\ Moved[index] = q
      /\ \A j \in DOMAIN records : j # index => Moved[j] = records[j]
  <2>1. Moved = [records EXCEPT ![index] = q]
    BY <1>7 DEF Moved
  <2> HIDE DEF q
  <2>2. QED
    BY <1>3, <1>8, <2>1, ExceptSeq
<1>10. /\ n \in Nat /\ n = DataSize(q) + 1 /\ End(q) = pos + n /\ End(q) \in Nat
       /\ r.content = q.content /\ r.compressed = q.compressed
  BY <1>3, <1>6, <1>8
<1>11. numRecordsPointer' = End(q) /\ End(q) < PointerSpan
  BY <1>1, <1>8, <1>10, U32Small
<1> HIDE DEF q, n
<1>12. GoodNext(q)
  BY <1>1, <1>3, <1>8, <1>10, FreshGood
<1>13. \A j \in DOMAIN records \ {index} : GoodNext(records[j])
  <2>1. ASSUME NEW j \in DOMAIN records \ {index} PROVE GoodNext(records[j])
    <3>1. records[j] \in Record /\ Good(records[j])
      BY <1>5, <1>6 DEF Laid
    <3>2. records[j].dataPointer + DataSize(records[j]) <= pos
      BY <1>3, <1>5, <1>6
    <3>3. QED
      BY <1>1, <1>3, <1>10, <3>1, <3>2, GoodKept
  <2>2. QED
    BY <2>1
<1>14. pos <= End(q) /\ 1 <= End(q)
  BY <1>3, <1>5, <1>10
<1>15. SoundNext(Moved, End(q))
  <2>1. Sorted(Moved)
    BY <1>3, <1>5, <1>8, <1>9 DEF Sorted
  <2>2. LaidNext(Moved, DOMAIN Moved, End(q))
    <3>1. ASSUME NEW j \in DOMAIN records
          PROVE  1 <= Moved[j].dataPointer /\ End(Moved[j]) <= End(q) /\ GoodNext(Moved[j])
      <4>1. CASE j = index
        BY <1>5, <1>8, <1>9, <1>10, <1>12, <4>1
      <4>2. CASE j # index
        BY <1>3, <1>5, <1>6, <1>9, <1>10, <1>13, <1>14, <4>2 DEF Laid
      <4>3. QED
        BY <4>1, <4>2
    <3>2. ASSUME NEW j \in DOMAIN records, NEW k \in DOMAIN records, j # k
          PROVE  \/ End(Moved[j]) <= Moved[k].dataPointer
                 \/ End(Moved[k]) <= Moved[j].dataPointer
      <4>1. CASE j # index /\ k # index
        BY <1>5, <1>9, <3>2, <4>1 DEF Laid
      <4>2. CASE j = index
        BY <1>5, <1>8, <1>9, <3>2, <4>2
      <4>3. CASE k = index
        BY <1>5, <1>8, <1>9, <3>2, <4>3
      <4>4. QED
        BY <4>1, <4>2, <4>3
    <3>3. QED
      BY <1>9, <3>1, <3>2 DEF LaidNext
  <2>3. Matches(Moved, DOMAIN Moved, stored')
    <3>1. ASSUME NEW j \in DOMAIN records
          PROVE  /\ Moved[j].crc \in DOMAIN stored'
                 /\ stored'[Moved[j].crc] = [content |-> Moved[j].content,
                                             compressed |-> Moved[j].compressed]
      <4>1. CASE j = index
        BY <1>1, <1>8, <1>9, <4>1 DEF Put
      <4>2. CASE j # index
        BY <1>1, <1>5, <1>9, <4>2 DEF Put, Matches
      <4>3. QED
        BY <4>1, <4>2
    <3>2. ASSUME NEW c \in DOMAIN stored' PROVE \E j \in DOMAIN records : Moved[j].crc = c
      <4>1. CASE c = r.crc
        BY <1>3, <1>8, <1>9, <4>1
      <4>2. CASE c # r.crc
        <5>1. PICK j \in DOMAIN records \ {index} : records[j].crc = c
          BY <1>1, <1>5, <4>2 DEF Put, Matches
        <5>2. QED
          BY <1>9, <5>1
      <4>3. QED
        BY <4>1, <4>2
    <3>3. QED
      BY <1>9, <3>1, <3>2 DEF Matches
  <2>4. Tiled(Moved, DOMAIN Moved, End(q))
    <3>1. \A p : Borders(records, DOMAIN records \ {index}, p) => Borders(Moved, DOMAIN Moved, p)
      BY <1>9 DEF Borders
    <3>2. Borders(Moved, DOMAIN Moved, End(q))
      BY <1>3, <1>9 DEF Borders
    <3>3. ASSUME NEW j \in DOMAIN records PROVE Borders(Moved, DOMAIN Moved, Moved[j].dataPointer)
      <4>1. CASE j = index
        BY <1>5, <1>8, <1>9, <3>1, <4>1 DEF Tiled
      <4>2. CASE j # index
        BY <1>5, <1>9, <3>1, <4>2 DEF Tiled
      <4>3. QED
        BY <4>1, <4>2
    <3>4. QED
      BY <1>9, <3>2, <3>3 DEF Tiled
  <2>5. QED
    BY <1>11, <1>14, <2>1, <2>2, <2>3, <2>4 DEF SoundNext
<1>16. SoundNext(records', numRecordsPointer')
  BY <1>1, <1>9, <1>11, <1>15, UpdateIndicesSame, NodesDoNotMatter
<1>17. disk'[0] = Signature /\ numRecordsPointer' <= size'
  <2>1. /\ size' \in Nat /\ size' >= pos + n
        /\ \A k \in DOMAIN disk : k < pos => disk'[k] = disk[k]
    BY <1>1, <1>3, <1>10, WriteIs DEF FileType
  <2>2. numRecordsPointer <= size /\ disk[0] = Signature
    BY <1>1, <1>2 DEF WhenUpdating
  <2>3. 0 \in DOMAIN disk /\ 0 < pos
    BY <1>3, <1>5, <2>2 DEF FileType
  <2>4. QED
    BY <1>10, <1>11, <2>1, <2>2, <2>3
<1>18. dirty' /\ saved'.revision < revision'
  BY <1>1, <1>2 DEF WhenUpdating
<1>19. WhenDirty'
  BY <1>16, <1>17, <1>18, NextForms DEF WhenDirty
<1>20. QED
  BY <1>1, <1>18, <1>19 DEF Safe, WhenClosed, WhenClean, WhenUpdating, WhenCopying

-----------------------------------------------------------------------------
(* Flush and Close.                                                        *)

\* What Flush leaves behind is the list in memory, at its place.
LEMMA FlushWrites ==
    ASSUME TypeOK, Safe, intact, Flush
    PROVE  /\ FlushedNext(numRecordsPointer)
           /\ DiskListNext(numRecordsPointer) = records
           /\ numRecordsPointer \in 0 .. size'
<1> DEFINE p == numRecordsPointer
           m == Len(records)
<1>1. /\ size' = p + m + 3
      /\ disk' = Patched(p, m + 3, Listing(records, p, revision), p + m + 3)
      /\ saved'.revision = revision /\ stored' = stored
      /\ pc = "idle" /\ dirty
  <2>1. ListingEnd = p + (m + 3) /\ p + (m + 3) = p + m + 3
    BY DEF ListingEnd, ListingSize, TypeOK
  <2>2. QED
    BY <2>1 DEF Flush, ListingSize, ListingOfPack
<1>2. /\ records \in Seq(Record) /\ m \in Nat /\ p \in Nat /\ DOMAIN records = 1 .. m
      /\ FileType
  BY TypeParts, SeqFacts DEF TypeOK
<1>3. Sound(records, p) /\ p <= size /\ disk[0] = Signature /\ 1 <= p
  BY <1>1 DEF Safe, WhenDirty, Sound
<1> HIDE DEF p, m
<1>4. \A k \in 0 .. m + 2 : disk'[p + k] = Listing(records, p, revision)[k]
  <2>1. ASSUME NEW k \in 0 .. m + 2 PROVE disk'[p + k] = Listing(records, p, revision)[k]
    <3>1. /\ p + k \in 0 .. (p + m + 3) - 1 /\ p <= p + k
          /\ p + k < p + (m + 3) /\ (p + k) - p = k
      BY <1>2
    <3>2. QED
      BY <1>1, <3>1 DEF Patched
  <2>2. QED
    BY <2>1
<1>5. \A k \in 0 .. p - 1 : disk'[k] = disk[k]
  <2>1. ASSUME NEW k \in 0 .. p - 1 PROVE disk'[k] = disk[k]
    <3>1. k \in 0 .. (p + m + 3) - 1 /\ ~(p <= k) /\ k < size
      BY <1>2, <1>3 DEF FileType
    <3>2. QED
      BY <1>1, <3>1 DEF Patched
  <2>2. QED
    BY <2>1
<1>6. Listing(records, p, revision)[0] = Count(m)
  BY <1>2 DEF Listing, m
<1>7. \A k \in 1 .. m : Listing(records, p, revision)[k] = Entry(records[k])
  BY <1>2 DEF Listing, m
<1>8. /\ Listing(records, p, revision)[m + 1] = Pointer(p)
      /\ Listing(records, p, revision)[m + 2] = Revision(revision)
  BY <1>2 DEF Listing, m
<1>9. disk'[p] = Count(m)
  <2>1. 0 \in 0 .. m + 2 /\ p + 0 = p
    BY <1>2
  <2>2. QED
    BY <1>4, <1>6, <2>1
<1>10. \A k \in 1 .. m : disk'[p + k] = Entry(records[k])
  <2>1. \A k \in 1 .. m : k \in 0 .. m + 2
    BY <1>2
  <2>2. QED
    BY <1>4, <1>7, <2>1
<1>11. disk'[size' - 2] = Pointer(p) /\ disk'[size' - 1] = Revision(revision)
  <2>1. size' - 2 = p + (m + 1) /\ size' - 1 = p + (m + 2)
        /\ m + 1 \in 0 .. m + 2 /\ m + 2 \in 0 .. m + 2
    BY <1>1, <1>2
  <2>2. QED
    BY <1>4, <1>8, <2>1
<1>12. disk'[p].kind = "count" /\ disk'[p].value = m
  BY <1>9 DEF Count
<1>13. \A k \in 1 .. m : disk'[p + k].kind = "entry" /\ disk'[p + k].record = records[k]
  <2>1. \A r : Entry(r).kind = "entry" /\ Entry(r).record = r
    BY DEF Entry
  <2>2. QED
    BY <1>10, <2>1
<1>14. DiskListNext(p) = records
  <2>1. DiskListNext(p) = [i \in 1 .. m |-> records[i]]
    BY <1>12, <1>13 DEF DiskListNext
  <2>2. QED
    BY <1>2, <2>1
<1>15. size' \in Nat /\ p <= size' /\ p < size' /\ p + m < size'
  BY <1>1, <1>2
<1>16. LaidNext(records, DOMAIN records, p)
  <2>1. ASSUME NEW i \in DOMAIN records PROVE GoodNext(records[i])
    <3>1. /\ records[i].dataPointer \in Nat /\ DataSize(records[i]) \in Nat
          /\ End(records[i]) = records[i].dataPointer + DataSize(records[i]) + 1
          /\ End(records[i]) <= p /\ Good(records[i])
      BY <1>2, <1>3, SeqFacts, RecordFacts DEF Sound, Laid
    <3>2. \A k \in 0 .. DataSize(records[i]) - 1 : records[i].dataPointer + k \in 0 .. p - 1
      BY <1>2, <3>1
    <3>3. records[i].dataPointer + DataSize(records[i]) <= size'
      BY <1>2, <1>15, <3>1
    <3>4. QED
      BY <1>5, <3>1, <3>2, <3>3 DEF Good, GoodNext
  <2>2. QED
    BY <1>3, <2>1 DEF Sound, Laid, LaidNext
<1>17. SoundNext(DiskListNext(p), p)
  BY <1>1, <1>3, <1>14, <1>16 DEF Sound, SoundNext
<1>18. disk'[0] = Signature
  BY <1>2, <1>3, <1>5
<1>19. FlushedNext(p)
  BY <1>1, <1>2, <1>11, <1>12, <1>13, <1>15, <1>17, <1>18 DEF FlushedNext
<1>20. p \in 0 .. size'
  BY <1>2, <1>15
<1>21. QED
  BY <1>14, <1>19, <1>20 DEF p

LEMMA SafeFlush ==
    ASSUME TypeOK, Safe, FlushClean \/ Flush \/ FlushFails \/ TruncateFails
    PROVE  Safe'
<1> SUFFICES ASSUME intact' PROVE Safe'
  BY DEF Safe
<1>1. intact /\ pc = "idle" /\ ~TruncateFails /\ (FlushFails => Stays)
  BY DEF FlushClean, Flush, FlushFails, TruncateFails, HurtUnless, past, intact
\* A pack that is closed in a file it has been flushed to.
<1>2. ASSUME NEW p \in 0 .. size', FlushedNext(p), Closes PROVE Safe'
  <2>1. \E x \in 0 .. size' : FlushedAt(x)'
    BY <1>2, NextForms
  <2>2. pc' = "closed" /\ ~dirty' /\ records' = << >> /\ revision' = 0
    BY <1>2 DEF Closes, Forget
  <2>3. WhenClosed'
    BY <2>1, <2>2 DEF WhenClosed
  <2>4. QED
    BY <2>2, <2>3 DEF Safe, WhenClean, WhenDirty, WhenUpdating, WhenCopying
<1>3. CASE FlushClean
  <2>1. ~dirty /\ UNCHANGED <<file, past>>
    BY <1>3 DEF FlushClean
  <2>2. CASE Stays /\ UNCHANGED dirty
    BY <1>1, <2>1, <2>2, SafeSame DEF Stays, pack
  <2>3. CASE Closes
    <3>1. FlushedAt(numRecordsPointer)
      BY <1>1, <2>1 DEF Safe, WhenClean
    <3>2. FlushedNext(numRecordsPointer) /\ numRecordsPointer \in 0 .. size'
      BY <2>1, <3>1, FlushedKept, FlushedFacts DEF file, past
    <3>3. QED
      BY <1>2, <2>3, <3>2
  <2>4. QED
    BY <1>3, <2>2, <2>3 DEF FlushClean
<1>4. CASE Flush
  <2>1. /\ FlushedNext(numRecordsPointer) /\ DiskListNext(numRecordsPointer) = records
        /\ numRecordsPointer \in 0 .. size' /\ saved'.revision = revision
    BY <1>1, <1>4, FlushWrites DEF Flush
  <2>2. CASE Stays /\ dirty' = FALSE
    <3>1. /\ pc' = "idle" /\ records' = records /\ revision' = revision
          /\ numRecordsPointer' = numRecordsPointer
      BY <2>2 DEF Stays
    <3>2. FlushedAt(numRecordsPointer)' /\ DiskList(numRecordsPointer)' = records'
      BY <2>1, <3>1, NextForms DEF DiskList, DiskListNext
    <3>3. WhenClean'
      BY <2>1, <3>1, <3>2 DEF WhenClean
    <3>4. QED
      BY <2>2, <3>1, <3>3 DEF Safe, WhenClosed, WhenDirty, WhenUpdating, WhenCopying
  <2>3. CASE Closes
    BY <1>2, <2>1, <2>3
  <2>4. QED
    BY <1>4, <2>2, <2>3 DEF Flush
<1>5. CASE FlushFails
  <2>1. /\ dirty /\ pc' = "idle" /\ dirty' = dirty
        /\ UNCHANGED <<records, numRecordsPointer, revision, stored, saved>>
    BY <1>1, <1>5 DEF FlushFails, Stays, Closes
  <2>2. PICK n \in 0 .. ListingSize - 1 : Write(numRecordsPointer, n, ListingOfPack)
    BY <1>5 DEF FlushFails
  <2>3. /\ Sound(records, numRecordsPointer) /\ disk[0] = Signature
        /\ numRecordsPointer <= size /\ saved.revision < revision
        /\ 1 <= numRecordsPointer
    BY <1>1, <2>1 DEF Safe, WhenDirty, Sound
  <2>4. /\ records \in Seq(Record) /\ numRecordsPointer \in Nat /\ n \in Nat /\ FileType
    BY TypeParts DEF TypeOK, ListingSize
  <2>5. LaidNext(records, DOMAIN records, numRecordsPointer)
    BY <2>2, <2>3, <2>4, LaidKept DEF Sound
  <2>6. Sound(records, numRecordsPointer)'
    <3>1. SoundNext(records, numRecordsPointer)
      BY <2>1, <2>3, <2>5 DEF Sound, SoundNext
    <3>2. QED
      BY <2>1, <3>1, NextForms
  <2>7. disk'[0] = Signature /\ numRecordsPointer <= size'
    <3>1. /\ size' \in Nat /\ size' >= size
          /\ \A k \in DOMAIN disk : k < numRecordsPointer => disk'[k] = disk[k]
      BY <2>2, <2>4, WriteIs DEF FileType
    <3>2. 0 \in DOMAIN disk /\ 0 < numRecordsPointer
      BY <2>3, <2>4 DEF FileType
    <3>3. QED
      BY <2>3, <2>4, <3>1, <3>2 DEF FileType
  <2>8. WhenDirty'
    BY <2>1, <2>3, <2>6, <2>7 DEF WhenDirty
  <2>9. QED
    BY <2>1, <2>8 DEF Safe, WhenClosed, WhenClean, WhenUpdating, WhenCopying
<1>6. QED
  BY <1>1, <1>3, <1>4, <1>5

-----------------------------------------------------------------------------
(* The theorems.                                                           *)

LEMMA SafeInit == Init => Safe
<1> SUFFICES ASSUME Init PROVE Safe
  OBVIOUS
<1>1. /\ pc = "closed" /\ ~dirty /\ records = << >> /\ revision = 0
      /\ DOMAIN stored = {} /\ saved.revision = -1
      /\ size \in Nat /\ disk = [k \in 0 .. size - 1 |-> Hole]
  BY PackAssumption DEF Init, Nothing
<1>2. size > 0 => disk[0] # Signature
  <2>1. Hole # Signature
    BY DEF Hole, Signature
  <2>2. size > 0 => disk[0] = Hole
    BY <1>1
  <2>3. QED
    BY <2>1, <2>2
<1>3. QED
  BY <1>1, <1>2 DEF Safe, WhenClosed, WhenClean, WhenDirty, WhenUpdating, WhenCopying, Untouched

LEMMA SafeStep == TypeOK /\ Safe /\ [Next]_vars => Safe'
<1> SUFFICES ASSUME TypeOK, Safe, [Next]_vars PROVE Safe'
  OBVIOUS
<1>1. CASE UNCHANGED vars
  BY <1>1, SafeSame DEF vars
<1>2. ASSUME ShiftFails \/ ReplaceFails PROVE Safe'
  BY <1>2 DEF ShiftFails, ReplaceFails, HurtUnless, intact, Safe
<1>3. CASE Next
  BY <1>2, <1>3, SafeOpen, SafeRead, SafeInsert, SafeBeginUpdate, SafeShift, SafeReplace,
     SafeFlush DEF Next
<1>4. QED
  BY <1>1, <1>3

\* The file, the list and the history fit together in every state that no
\* failed call has led to, whatever calls were made: the inductive invariant.
THEOREM PackSafe == Spec => []Safe
<1>1. Init => TypeOK /\ Safe
  BY TypeInit, SafeInit
<1>2. TypeOK /\ Safe /\ [Next]_vars => Safe'
  BY SafeStep
<1>3. Spec => []TypeOK
  BY TypeCorrect
<1>4. QED
  BY <1>1, <1>2, <1>3, PTL DEF Spec

\* What a complete list promises of each path that is stored.
LEMMA LaidServes ==
    ASSUME NEW list \in Seq(Record), NEW live \in SUBSET DOMAIN list, NEW limit,
           Laid(list, live, limit), Matches(list, live, stored)
    PROVE  Serves(list, stored)
<1> SUFFICES ASSUME NEW c \in DOMAIN stored
             PROVE  \E i \in DOMAIN list : /\ list[i].crc = c
                                           /\ list[i].content = stored[c].content
                                           /\ list[i].compressed = stored[c].compressed
                                           /\ Good(list[i])
  BY DEF Serves
<1>1. PICK i \in live : list[i].crc = c
  BY DEF Matches
<1>2. stored[c] = [content |-> list[i].content, compressed |-> list[i].compressed]
  BY <1>1 DEF Matches
<1>3. Good(list[i])
  BY DEF Laid
<1>4. QED
  BY <1>1, <1>2, <1>3

LEMMA UpdatingFacts ==
    ASSUME TypeOK, Safe, intact, pc = "update"
    PROVE  /\ Laid(records, DOMAIN records \ {index}, numRecordsPointer)
           /\ Matches(records, DOMAIN records \ {index}, stored)
BY DEF Safe, WhenUpdating

\* While no call has failed, every path that Store accepted is listed, and
\* its data reads back as it was stored, after any sequence of calls.
THEOREM StoredIsSafe == Spec => []SafeStored
<1>1. TypeOK /\ Safe => SafeStored
  <2> SUFFICES ASSUME TypeOK, Safe, intact
               PROVE  /\ StoredReadable
                      /\ pc = "idle" => \A i \in DOMAIN List : List[i].crc \in DOMAIN stored
    BY DEF SafeStored
  <2>1. ASSUME pc = "idle"
        PROVE  /\ Readable /\ Serves(List, stored)
               /\ \A i \in DOMAIN List : List[i].crc \in DOMAIN stored
    <3>1. /\ Readable /\ List \in Seq(Record)
          /\ Laid(List, DOMAIN List, numRecordsPointer)
          /\ Matches(List, DOMAIN List, stored)
      BY <2>1, ListSound DEF Sound
    <3>2. QED
      BY <3>1, LaidServes DEF Matches
  <2>2. ASSUME pc = "update" PROVE Serves(records, stored)
    BY <2>2, UpdatingFacts, LaidServes DEF TypeOK
  <2>3. ASSUME pc = "copy" PROVE Serves(records, stored)
    BY <2>3, CopySound, LaidServes DEF TypeOK, Sound
  <2>4. QED
    BY <2>1, <2>2, <2>3 DEF StoredReadable
<1>2. QED
  BY <1>1, TypeCorrect, PackSafe, PTL

\* While no call has failed, no two records share a byte of the file, and
\* none reaches into the listing.
THEOREM LayoutIsSafe == Spec => []SafeLayout
<1>1. ASSUME NEW list \in Seq(Record), NEW live \in SUBSET DOMAIN list,
             NEW limit \in Nat, Laid(list, live, limit)
      PROVE  /\ \A i \in live : /\ list[i].dataPointer >= 1
                               /\ list[i].dataPointer + DataSize(list[i]) < limit
             /\ \A i, j \in live : i # j => Disjoint(list[i], list[j])
  <2>1. \A i \in live : /\ list[i].dataPointer \in Nat /\ DataSize(list[i]) \in Nat
                        /\ End(list[i]) = list[i].dataPointer + DataSize(list[i]) + 1
    BY SeqFacts, RecordFacts
  <2>2. QED
    BY <1>1, <2>1 DEF Laid, Disjoint
<1>2. TypeOK /\ Safe => SafeLayout
  <2> SUFFICES ASSUME TypeOK, Safe, intact, pc \in {"idle", "update", "copy"} PROVE SafeLayout
    BY DEF SafeLayout
  <2>1. numRecordsPointer \in Nat /\ records \in Seq(Record)
    BY DEF TypeOK
  <2>2. CASE pc = "idle"
    <3>1. List \in Seq(Record) /\ Laid(List, DOMAIN List, numRecordsPointer)
      BY <2>2, ListSound DEF Sound
    <3>2. QED
      BY <1>1, <2>1, <2>2, <3>1 DEF SafeLayout
  <2>3. CASE pc = "update"
    BY <1>1, <2>1, <2>3, UpdatingFacts DEF SafeLayout
  <2>4. CASE pc = "copy"
    <3>1. Laid(records, DOMAIN records, numRecordsPointer)
      BY <2>4, CopySound DEF Sound
    <3>2. QED
      BY <1>1, <2>1, <2>4, <3>1 DEF SafeLayout
  <2>5. QED
    BY <2>2, <2>3, <2>4
<1>3. QED
  BY <1>2, TypeCorrect, PackSafe, PTL

\* A pack that is clean or closed is in its file, for another process to
\* open: every stored path, with the revision of the last Flush.
THEOREM CleanIsDurable == Spec => []Durable
<1>1. ASSUME TypeOK, NEW p, FlushedAt(p)
      PROVE  FileServes(stored) /\ disk[size - 1].value = saved.revision
  <2>1. /\ DiskList(p) \in Seq(Record) /\ size >= 3 /\ size \in Nat /\ TrailerAt(size)
        /\ disk[size - 2].value = p /\ disk[size - 1].value = saved.revision
    BY <1>1, FlushedFacts DEF TypeOK
  <2>2. disk[0] = Signature /\ ListAt(p) /\ Sound(DiskList(p), p)
    BY <1>1 DEF FlushedAt
  <2>3. Serves(DiskList(p), stored)
    BY <2>1, <2>2, LaidServes DEF Sound
  <2>4. QED
    BY <2>1, <2>2, <2>3 DEF FileServes
<1>2. TypeOK /\ Safe => Durable
  <2> SUFFICES ASSUME TypeOK, Safe, intact, ~dirty, DOMAIN stored # {}
               PROVE  \E p : FlushedAt(p)
    BY <1>1 DEF Durable
  <2>1. CASE pc = "closed"
    BY <2>1 DEF Safe, WhenClosed, Untouched
  <2>2. CASE pc \in {"idle", "copy"}
    BY <2>2 DEF Safe, WhenClean
  <2>3. QED
    BY <2>1, <2>2 DEF Safe, WhenUpdating, TypeOK
<1>3. QED
  BY <1>2, TypeCorrect, PackSafe, PTL

\* WriteTo copies every record to the very place its entry names, and takes
\* over a pointer that is its own.
THEOREM CopyIsAligned == Spec => []CopyAligned
<1>1. TypeOK /\ Safe => CopyAligned
  BY CopyMeets DEF CopyAligned
<1>2. QED
  BY <1>1, TypeCorrect, PackSafe, PTL

\* A Flush that succeeds stores a higher revision than the one before.
THEOREM RevisionsTell == Spec => RevisionTellsVersions
<1>1. TypeOK /\ Safe /\ [Next]_vars
      => [intact' /\ saved' # saved => saved'.revision > saved.revision]_vars
  <2> SUFFICES ASSUME TypeOK, Safe, Next, intact', saved' # saved
               PROVE  saved'.revision > saved.revision
    BY DEF vars, past
  <2>1. Flush
    BY DEF Next, NewPack, Create, Open, OpenRefused, GarbledTrailer, GarbledList, Garble,
           Records, ReadRecords, Insert, InsertFails, InsertUndivided, BeginUpdate, Shift,
           ShiftFails, Replace, ReplaceFails, FlushClean, FlushFails, TruncateFails,
           BeginCopy, CopyRecord, EndCopy, CopyFails, LoseIfMoved, Crash, Abandon, past
  <2>2. /\ intact /\ pc = "idle" /\ dirty /\ saved'.revision = revision
    BY <2>1 DEF Flush, intact
  <2>3. QED
    BY <2>2 DEF Safe, WhenDirty, TypeOK
<1>2. QED
  BY <1>1, TypeCorrect, PackSafe, PTL DEF Spec, RevisionTellsVersions

-----------------------------------------------------------------------------
(* The list, also after calls have failed.                                 *)

LEMMA UpdatedListed ==
    ASSUME NEW list \in Seq(Record), Sorted(list)
    PROVE  Listed(UpdateIndices(list))
<1>1. /\ DOMAIN UpdateIndices(list) = DOMAIN list
      /\ Len(UpdateIndices(list)) = Len(list)
      /\ \A i \in DOMAIN list :
            UpdateIndices(list)[i] = [list[i] EXCEPT !.node = <<i, Len(list)>>]
  BY UpdateIndicesIs
<1>2. \A i \in DOMAIN list : list[i] \in Record
  BY SeqFacts
<1>3. \A i \in DOMAIN list : /\ UpdateIndices(list)[i].crc = list[i].crc
                             /\ UpdateIndices(list)[i].node = <<i, Len(list)>>
  BY <1>1, <1>2 DEF Record
<1>4. Sorted(UpdateIndices(list))
  BY <1>1, <1>3 DEF Sorted
<1>5. QED
  BY <1>1, <1>3, <1>4 DEF Listed

\* What sort.Search finds is the place of a record that is not there.
LEMMA InsertSorted ==
    ASSUME NEW list \in Seq(Record), Sorted(list), NEW r \in Record, NEW i, IsSlot(list, r.crc, i),
           \A j \in DOMAIN list : list[j].crc # r.crc
    PROVE  InsertAt(list, i, r) \in Seq(Record) /\ Sorted(InsertAt(list, i, r))
<1> DEFINE b == InsertAt(list, i, r)
<1>1. i \in 1 .. Len(list) + 1 /\ Len(list) \in Nat /\ DOMAIN list = 1 .. Len(list)
  BY SeqFacts DEF IsSlot
<1>2. /\ b \in Seq(Record) /\ Len(b) = Len(list) + 1
      /\ \A j \in 1 .. Len(list) + 1 :
            b[j] = IF j < i THEN list[j] ELSE IF j = i THEN r ELSE list[j - 1]
  BY <1>1, InsertRecord
<1>3. DOMAIN b = 1 .. Len(list) + 1
  BY <1>2, SeqFacts
<1> HIDE DEF b
<1>4. r.crc \in Nat /\ \A j \in 1 .. Len(list) : list[j].crc \in Nat
  <2>1. \A j \in 1 .. Len(list) : list[j] \in Record
    BY <1>1, SeqFacts
  <2>2. QED
    BY <2>1, PackAssumption DEF Record
<1>5. /\ \A j \in 1 .. i - 1 : list[j].crc < r.crc
      /\ \A j \in i .. Len(list) : r.crc < list[j].crc
  BY <1>1, <1>4 DEF IsSlot
<1>6. ASSUME NEW j \in 1 .. Len(list) + 1, NEW k \in 1 .. Len(list) + 1, j < k
      PROVE  b[j].crc < b[k].crc
  <2>1. CASE k < i
    <3>1. b[j] = list[j] /\ b[k] = list[k] /\ j \in DOMAIN list /\ k \in DOMAIN list
      BY <1>1, <1>2, <1>6, <2>1
    <3>2. QED
      BY <1>6, <3>1 DEF Sorted
  <2>2. CASE k = i
    <3>1. b[j] = list[j] /\ b[k] = r /\ j \in 1 .. i - 1
      BY <1>1, <1>2, <1>6, <2>2
    <3>2. QED
      BY <1>5, <3>1
  <2>3. CASE k > i /\ j = i
    <3>1. b[j] = r /\ b[k] = list[k - 1] /\ k - 1 \in i .. Len(list)
      BY <1>1, <1>2, <1>6, <2>3
    <3>2. QED
      BY <1>5, <3>1
  <2>4. CASE k > i /\ j > i
    <3>1. b[j] = list[j - 1] /\ b[k] = list[k - 1] /\ j - 1 \in DOMAIN list /\ k - 1 \in DOMAIN list
      BY <1>1, <1>2, <1>6, <2>4
    <3>2. QED
      BY <1>6, <3>1 DEF Sorted
  <2>5. CASE k > i /\ j < i
    <3>1. b[j] = list[j] /\ b[k] = list[k - 1] /\ j \in 1 .. i - 1 /\ k - 1 \in i .. Len(list)
      BY <1>1, <1>2, <1>6, <2>5
    <3>2. list[j].crc < r.crc /\ r.crc < list[k - 1].crc /\ list[j].crc \in Nat
          /\ list[k - 1].crc \in Nat
      BY <1>1, <1>4, <1>5, <3>1
    <3>3. QED
      BY <1>4, <3>1, <3>2
  <2>6. QED
    BY <1>1, <1>6, <2>1, <2>2, <2>3, <2>4, <2>5
<1>7. QED
  BY <1>2, <1>3, <1>6 DEF b, Sorted

\* The list a call works on.
LEMMA ListIsListed ==
    ASSUME TypeOK, OpenListed, health # "lost", pc = "idle", Readable
    PROVE  List \in Seq(Record) /\ Listed(List) /\ Listed(Cached)
<1>1. List \in Seq(Record)
  BY ListType
<1>2. Listed(List)
  BY DEF OpenListed, ListedAt, Readable, List
<1>3. Listed(Cached)
  BY <1>2 DEF OpenListed, Cached
<1>4. QED
  BY <1>1, <1>2, <1>3

\* Flush and a failing Truncate both leave the whole list at its place.
LEMMA ListingWritten ==
    ASSUME TypeOK, Flush \/ TruncateFails
    PROVE  /\ DiskListNext(numRecordsPointer) = records
           /\ Flush => disk'[size' - 2].value = numRecordsPointer
<1>1. PICK p \in Nat, m \in Nat : p = numRecordsPointer /\ m = Len(records)
  BY DEF TypeOK
<1>0. records \in Seq(Record) /\ DOMAIN records = 1 .. m /\ FileType
  BY <1>1, TypeParts, SeqFacts DEF TypeOK
<1>2. /\ Flush => size' = p + m + 3
      /\ \A k \in 0 .. m + 2 : disk'[p + k] = Listing(records, p, revision)[k]
  <2>1. ListingSize = m + 3 /\ ListingEnd = p + m + 3 /\ ListingOfPack = Listing(records, p, revision)
    BY <1>1 DEF ListingSize, ListingEnd, ListingOfPack
  <2>2. CASE Flush
    <3>1. /\ size' = p + m + 3
          /\ disk' = Patched(p, m + 3, Listing(records, p, revision), p + m + 3)
      BY <1>1, <2>1, <2>2 DEF Flush
    <3>2. ASSUME NEW k \in 0 .. m + 2
          PROVE  disk'[p + k] = Listing(records, p, revision)[k]
      <4>1. /\ p + k \in 0 .. p + m + 3 - 1 /\ p <= p + k /\ p + k < p + (m + 3)
            /\ (p + k) - p = k
        BY <1>1
      <4> DEFINE block == Listing(records, p, revision)
      <4> HIDE DEF block
      <4>2. disk' = [j \in 0 .. p + m + 3 - 1 |->
                        IF p <= j /\ j < p + (m + 3) THEN block[j - p]
                        ELSE IF j < size THEN disk[j] ELSE Hole]
        BY <3>1 DEF Patched, block
      <4>3. disk'[p + k] = block[(p + k) - p]
        BY <4>1, <4>2
      <4>4. QED
        BY <4>1, <4>3 DEF block
    <3>3. QED
      BY <3>1, <3>2
  <2>3. CASE ~Flush
    <3>1. PICK n \in Nat : n = m + 3
      BY <1>1
    <3>2. Write(p, n, Listing(records, p, revision))
      BY <1>1, <2>1, <2>3, <3>1 DEF TruncateFails
    <3> DEFINE block == Listing(records, p, revision)
    <3> HIDE DEF block
    <3>3. Write(p, n, block)
      BY <3>2 DEF block
    <3>4. PICK end \in Nat :
          /\ end = size' /\ end >= p + n
          /\ DOMAIN disk' = 0 .. end - 1
          /\ \A k \in DOMAIN disk' : p <= k /\ k < p + n => disk'[k] = block[k - p]
      BY <1>0, <1>1, <3>1, <3>3, WriteIs DEF FileType
    <3>5. ASSUME NEW k \in 0 .. m + 2 PROVE disk'[p + k] = block[k]
      <4>1. k \in Nat /\ k <= m + 2
        BY <1>1
      <4>2. PICK q \in Int : q = p + k
        BY <1>1, <4>1
      <4>3. p <= q /\ q < p + n /\ q - p = k
        BY <1>1, <3>1, <4>1, <4>2
      <4>4. q < end
        BY <1>1, <3>1, <3>4, <4>3
      <4>5. q \in 0 .. end - 1
        BY <1>1, <4>3, <4>4
      <4>6. QED
        BY <3>4, <4>2, <4>3, <4>5
    <3>6. QED
      BY <2>3, <3>5 DEF block
  <2>4. QED
    BY <2>2, <2>3
<1>3. /\ \A k \in 1 .. m : disk'[p + k] = Entry(records[k])
      /\ disk'[p] = Count(m) /\ disk'[p + m + 1] = Pointer(p)
  <2>1. /\ Listing(records, p, revision)[0] = Count(m)
        /\ Listing(records, p, revision)[m + 1] = Pointer(p)
        /\ \A k \in 1 .. m : Listing(records, p, revision)[k] = Entry(records[k])
    BY <1>1 DEF Listing
  <2>2. p + 0 = p /\ p + (m + 1) = p + m + 1 /\ 0 \in 0 .. m + 2 /\ m + 1 \in 0 .. m + 2
        /\ 1 .. m \subseteq 0 .. m + 2
    BY <1>1
  <2>3. /\ disk'[p + 0] = Listing(records, p, revision)[0]
        /\ disk'[p + (m + 1)] = Listing(records, p, revision)[m + 1]
        /\ \A k \in 1 .. m : disk'[p + k] = Listing(records, p, revision)[k]
    BY <1>2, <2>2
  <2>4. QED
    BY <2>1, <2>2, <2>3
<1>4. DiskListNext(p) = records
  <2>1. Count(m).value = m /\ \A r : Entry(r).record = r
    BY DEF Count, Entry
  <2>2. disk'[p].value = m /\ \A k \in 1 .. m : disk'[p + k].record = records[k]
    BY <1>3, <2>1
  <2>3. DiskListNext(p) = [i \in 1 .. m |-> records[i]]
    BY <2>2 DEF DiskListNext
  <2>4. records = [i \in 1 .. m |-> records[i]]
    BY <1>0
  <2>5. QED
    BY <2>3, <2>4
<1>5. Flush => disk'[size' - 2].value = p
  <2>1. Flush => size' - 2 = p + m + 1
    BY <1>1, <1>2
  <2>2. QED
    BY <1>3, <2>1 DEF Pointer
<1>6. QED
  BY <1>1, <1>4, <1>5

\* Where the trailer of a flushed file leads.
LEMMA CleanListed ==
    ASSUME TypeOK, Safe, OpenListed, intact, pc \in {"idle", "copy"}, ~dirty, UNCHANGED file
    PROVE  TrailerAt(size)' => ListedAt(disk[size - 2].value)'
<1>1. FlushedAt(numRecordsPointer)
  BY DEF Safe, WhenClean
<1>2. disk[size - 2].value = numRecordsPointer
  BY <1>1, FlushedFacts
<1>3. ListedAt(disk[size - 2].value)
  BY <1>2 DEF OpenListed, intact
<1>4. QED
  BY <1>3 DEF ListedAt, ListAt, DiskList, file

\* A pack that is closed, or given up.
LEMMA ListClose ==
    ASSUME TypeOK, Safe, ListInvariant, pc' \in {"closed", "garbled"}, Forget,
           intact' => /\ pc' = "closed" /\ intact /\ pc \in {"idle", "copy"} /\ ~dirty
                      /\ UNCHANGED file
    PROVE  ListInvariant'
<1>1. ShutIsEmpty'
  BY DEF Forget, ShutIsEmpty
<1>2. FileListed'
  BY CleanListed DEF FileListed, ListInvariant
<1>3. OpenListed'
  BY DEF OpenListed
<1>4. QED
  BY <1>1, <1>2, <1>3 DEF ListInvariant

LEMMA EmptyListed == Listed(<< >>)
BY DEF Listed, Sorted

LEMMA ListOpen ==
    ASSUME TypeOK, Safe, ListInvariant, NewPack \/ GarbledList \/ Abandon \/ Crash
    PROVE  ListInvariant'
<1>1. ASSUME NEW from \in Handles, Create(from) PROVE ListInvariant'
  <2>1. /\ pc = "closed" /\ pc' = "idle" /\ dirty' = TRUE /\ records' = records
    BY <1>1 DEF Create
  <2>2. records' = << >>
    BY <2>1 DEF ListInvariant, ShutIsEmpty
  <2>3. Listed(records)'
    BY <2>2, EmptyListed DEF Listed, Sorted
  <2>4. QED
    BY <2>1, <2>3 DEF ListInvariant, ShutIsEmpty, FileListed, OpenListed
<1>2. ASSUME NEW from \in Handles, Open(from) PROVE ListInvariant'
  <2>1. /\ pc = "closed" /\ pc' = "idle" /\ dirty' = dirty /\ records' = records
        /\ numRecordsPointer' = disk[size - 2].value /\ UNCHANGED file
        /\ TrailerAt(size) /\ health' = IF intact THEN health ELSE "lost"
    BY <1>2 DEF Open
  <2>2. records' = << >> /\ ~dirty'
    BY <2>1 DEF ListInvariant, ShutIsEmpty
  <2>3. Listed(records)'
    BY <2>2, EmptyListed DEF Listed, Sorted
  <2>4. intact => ListedAt(numRecordsPointer)'
    BY <2>1 DEF ListInvariant, FileListed, ListedAt, ListAt, DiskList, file
  <2>5. QED
    BY <2>1, <2>2, <2>3, <2>4 DEF ListInvariant, ShutIsEmpty, FileListed, OpenListed
<1>3. ASSUME NEW from \in Handles, OpenRefused(from) PROVE ListInvariant'
  BY <1>3 DEF OpenRefused, ListInvariant, ShutIsEmpty, FileListed, OpenListed, ListedAt, ListAt,
     DiskList, TrailerAt, intact, file, pack, past
<1>4. ASSUME NEW from \in Handles, GarbledTrailer(from) PROVE ListInvariant'
  <2>1. Forget /\ pc' = "garbled" /\ UNCHANGED <<file, past>>
    BY <1>4 DEF GarbledTrailer, Garble
  <2>2. ~intact'
    <3>1. Safe'
      BY <1>4, SafeOpen DEF NewPack
    <3>2. QED
      BY <2>1, <3>1 DEF Safe
  <2>3. QED
    BY <2>1, <2>2, ListClose
<1>5. CASE GarbledList
  <2>1. Forget /\ pc' = "garbled" /\ UNCHANGED <<file, past>>
    BY <1>5 DEF GarbledList, Garble
  <2>2. ~intact'
    <3>1. Safe'
      BY <1>5, SafeOpen
    <3>2. QED
      BY <2>1, <3>1 DEF Safe
  <2>3. QED
    BY <2>1, <2>2, ListClose
<1>6. CASE Abandon
  <2>1. Forget /\ pc' = "closed" /\ ~intact'
    BY <1>6 DEF Abandon, Closes, Safe, intact, past
  <2>2. QED
    BY <2>1, ListClose
<1>7. CASE Crash
  <2>1. Forget /\ pc' = "closed" /\ UNCHANGED file /\ pc # "closed"
    BY <1>7 DEF Crash, Closes
  <2>2. intact' => intact /\ ~dirty
    BY <1>7 DEF Crash, HurtUnless, intact
  <2>3. intact' => pc \in {"idle", "copy"}
    BY <2>1, <2>2 DEF Safe, WhenUpdating, TypeOK
  <2>4. QED
    BY <2>1, <2>2, <2>3, ListClose
<1>8. QED
  BY <1>1, <1>2, <1>3, <1>4, <1>5, <1>6, <1>7 DEF NewPack

\* A pack stays open, and the list of a flushed one in the file.
LEMMA ListRead ==
    ASSUME TypeOK, Safe, ListInvariant,
           Records \/ ReadRecords \/ BeginCopy \/ CopyRecord \/ EndCopy \/ CopyFails
    PROVE  ListInvariant'
<1>1. /\ pc \in {"idle", "copy"} /\ pc' \in {"idle", "copy"}
      /\ UNCHANGED <<file, dirty>>
      /\ health' # "lost" => /\ health # "lost"
                             /\ dirty \/ intact \/ numRecordsPointer' = numRecordsPointer
  BY DEF Records, ReadRecords, BeginCopy, CopyRecord, EndCopy, CopyFails, LoseIfMoved,
         pack, past, intact
<1>2. intact /\ ~dirty => numRecordsPointer' = numRecordsPointer
  <2> SUFFICES ASSUME intact, ~dirty PROVE numRecordsPointer' = numRecordsPointer
    OBVIOUS
  <2>1. CASE EndCopy \/ CopyFails
    <3>1. /\ pc = "copy"
          /\ \/ numRecordsPointer' = numRecordsPointer
             \/ numRecordsPointer' = U32(pos) /\ pending = {}
      BY <2>1 DEF EndCopy, CopyFails
    <3>2. pending = {} => pos = numRecordsPointer /\ numRecordsPointer < PointerSpan /\ pos \in Nat
      BY <3>1, CopyMeets, CopySound DEF Sound, TypeOK
    <3>3. QED
      BY <3>1, <3>2, U32Small
  <2>2. CASE Records \/ ReadRecords \/ BeginCopy \/ CopyRecord
    BY <2>2 DEF Records, ReadRecords, BeginCopy, CopyRecord, pack
  <2>3. QED
    BY <2>1, <2>2
<1>3. health # "lost" => Listed(records')
  <2> SUFFICES ASSUME health # "lost" PROVE Listed(records')
    OBVIOUS
  <2>1. \/ pc = "idle" /\ Readable /\ (records' = List \/ records' = Cached)
        \/ records' = records
    BY DEF Records, ReadRecords, BeginCopy, CopyRecord, EndCopy, CopyFails, pack
  <2>2. QED
    BY <1>1, <2>1, ListIsListed DEF ListInvariant, OpenListed
<1>4. health' # "lost" => Listed(records)'
  BY <1>1, <1>3 DEF Listed, Sorted
<1>5. health' # "lost" /\ ~dirty' => ListedAt(numRecordsPointer)'
  <2> SUFFICES ASSUME health' # "lost", ~dirty' PROVE ListedAt(numRecordsPointer)'
    OBVIOUS
  <2>1. numRecordsPointer' = numRecordsPointer /\ ListedAt(numRecordsPointer)
    BY <1>1, <1>2 DEF ListInvariant, OpenListed
  <2>2. QED
    BY <1>1, <2>1 DEF ListedAt, ListAt, DiskList, file
<1>6. QED
  BY <1>1, <1>4, <1>5 DEF ListInvariant, ShutIsEmpty, FileListed, OpenListed

LEMMA ListInsert ==
    ASSUME TypeOK, ListInvariant, NEW c \in Crcs, NEW v \in Version,
           Insert(c, v) \/ InsertFails(c, v) \/ InsertUndivided(c, v)
    PROVE  ListInvariant'
<1>1. /\ BeginInsert(c, v) /\ pc' = pc
      /\ health' # "lost" => health # "lost"
  BY DEF Insert, InsertFails, InsertUndivided, HurtUnless, intact
<1>2. pc = "idle" /\ Readable /\ dirty' = TRUE /\ \A j \in DOMAIN List : List[j].crc # c
  BY <1>1 DEF BeginInsert, BeginStore
<1>3. PICK i \in 1 .. Len(List) + 1 :
         IsSlot(List, c, i) /\ records' = UpdateIndices(InsertAt(List, i, NewRecord(c, v)))
  BY <1>1 DEF BeginInsert
<1>4. NewRecord(c, v) \in Record /\ NewRecord(c, v).crc = c
  BY DEF NewRecord, Record, Version, TypeOK
<1>5. health # "lost" => Listed(records')
  <2> SUFFICES ASSUME health # "lost" PROVE Listed(records')
    OBVIOUS
  <2>1. List \in Seq(Record) /\ Sorted(List)
    BY <1>2, ListIsListed DEF ListInvariant, Listed
  <2>2. /\ InsertAt(List, i, NewRecord(c, v)) \in Seq(Record)
        /\ Sorted(InsertAt(List, i, NewRecord(c, v)))
    BY <1>2, <1>3, <1>4, <2>1, InsertSorted
  <2>3. QED
    BY <1>3, <2>2, UpdatedListed
<1>6. health' # "lost" => Listed(records)'
  BY <1>1, <1>5 DEF Listed, Sorted
<1>7. QED
  BY <1>1, <1>2, <1>6 DEF ListInvariant, ShutIsEmpty, FileListed, OpenListed

\* The loop of updateRecord changes data pointers, and the new Info is that of
\* the same path.
LEMMA ListUpdate ==
    ASSUME TypeOK, TypeOK', ListInvariant,
           \/ \E c \in Crcs, v \in Version : BeginUpdate(c, v)
           \/ Shift \/ ShiftFails \/ Replace \/ ReplaceFails
    PROVE  ListInvariant'
<1>1. /\ health' # "lost" => health # "lost"
      /\ pc' \in {"idle", "update"}
  BY DEF BeginUpdate, BeginStore, Shift, ShiftFails, Replace, ReplaceFails, EndUpdate,
         HurtUnless, past, intact
<1>2. records \in Seq(Record) /\ records' \in Seq(Record)
  BY DEF TypeOK
<1>3. ASSUME NEW c \in Crcs, NEW v \in Version, BeginUpdate(c, v), health # "lost"
      PROVE  pc' = "update" /\ dirty' = TRUE /\ Sorted(records')
  <2>1. pc = "idle" /\ Readable /\ dirty' = TRUE /\ pc' = "update"
    BY <1>3 DEF BeginUpdate, BeginStore
  <2>2. PICK t \in DOMAIN List :
           records' = [List EXCEPT ![t].content = v.content, ![t].compressed = v.compressed]
    BY <1>3 DEF BeginUpdate
  <2>3. List \in Seq(Record) /\ Sorted(List)
    BY <1>3, <2>1, ListIsListed DEF ListInvariant, Listed
  <2>4. \A i \in DOMAIN List : List[i] \in Record
    BY <2>3, SeqFacts
  <2>5. DOMAIN records' = DOMAIN List /\ \A i \in DOMAIN List : records'[i].crc = List[i].crc
    BY <2>2, <2>4 DEF Record
  <2>6. QED
    BY <2>1, <2>3, <2>5 DEF Sorted
<1>4. ASSUME Shift, health # "lost" PROVE pc' = "update" /\ dirty' /\ Sorted(records')
  <2>1. pc = "update" /\ pc' = "update" /\ dirty' = dirty
    BY <1>4 DEF Shift
  <2>2. PICK i \in pending : records' = [records EXCEPT ![i].dataPointer = U32(pos)]
    BY <1>4 DEF Shift
  <2>3. \A j \in DOMAIN records : records[j] \in Record
    BY <1>2, SeqFacts
  <2>4. DOMAIN records' = DOMAIN records /\ \A j \in DOMAIN records : records'[j].crc = records[j].crc
    BY <2>2, <2>3 DEF Record
  <2>5. dirty /\ Sorted(records)
    BY <1>4, <2>1 DEF ListInvariant, OpenListed
  <2>6. QED
    BY <2>1, <2>4, <2>5 DEF Sorted
<1>5. ASSUME ShiftFails \/ Replace \/ ReplaceFails, health # "lost"
      PROVE  pc' = "idle" /\ dirty' /\ Listed(records')
  <2>1. /\ pc = "update" /\ pc' = "idle" /\ dirty' = dirty
        /\ records' = UpdateIndices(records) \/ records' = UpdateIndices(Moved)
    BY <1>5 DEF ShiftFails, Replace, ReplaceFails, EndUpdate
  <2>2. dirty /\ Sorted(records)
    BY <1>5, <2>1 DEF ListInvariant, OpenListed
  <2>3. index \in DOMAIN records /\ pos \in Nat
    BY <2>1 DEF TypeOK
  <2>4. Moved \in Seq(Record) /\ Sorted(Moved)
    <3>1. \A j \in DOMAIN records : records[j] \in Record
      BY <1>2, SeqFacts
    <3>2. U32(pos) \in Nat
      BY <2>3, U32Type
    <3>3. [records[index] EXCEPT !.dataPointer = U32(pos)] \in Record
      BY <2>3, <3>1, <3>2 DEF Record
    <3>4. Moved = [records EXCEPT ![index] = [records[index] EXCEPT !.dataPointer = U32(pos)]]
      BY <2>3 DEF Moved
    <3>5. Moved \in Seq(Record)
      BY <1>2, <2>3, <3>3, <3>4, ExceptSeq
    <3>6. DOMAIN Moved = DOMAIN records /\ \A j \in DOMAIN records : Moved[j].crc = records[j].crc
      BY <2>3, <3>1 DEF Moved, Record
    <3>7. QED
      BY <2>2, <3>5, <3>6 DEF Sorted
  <2>5. QED
    BY <1>2, <2>1, <2>2, <2>4, UpdatedListed
<1>6. health' # "lost" => /\ pc' = "update" => dirty' /\ Sorted(records)'
                          /\ pc' = "idle" => dirty' /\ Listed(records)'
  BY <1>1, <1>3, <1>4, <1>5 DEF Listed, Sorted
<1>7. QED
  BY <1>1, <1>6 DEF ListInvariant, ShutIsEmpty, FileListed, OpenListed

LEMMA ListFlush ==
    ASSUME TypeOK, Safe, ListInvariant, FlushClean \/ Flush \/ FlushFails \/ TruncateFails
    PROVE  ListInvariant'
<1>1. pc = "idle" /\ (health' # "lost" => health # "lost") /\ (intact' => intact)
  BY DEF FlushClean, Flush, FlushFails, TruncateFails, HurtUnless, intact, past
<1>2. CASE Stays
  <2>1. pc' = "idle" /\ records' = records /\ numRecordsPointer' = numRecordsPointer
    BY <1>2 DEF Stays
  <2>2. health' # "lost" => Listed(records)'
    BY <1>1, <2>1 DEF ListInvariant, OpenListed, Listed, Sorted
  <2>3. health' # "lost" /\ ~dirty' => ListedAt(numRecordsPointer)'
    <3> SUFFICES ASSUME health' # "lost", ~dirty' PROVE ListedAt(numRecordsPointer)'
      OBVIOUS
    <3>1. CASE FlushClean
      <4>1. ListedAt(numRecordsPointer) /\ UNCHANGED file
        BY <1>1, <3>1 DEF FlushClean, ListInvariant, OpenListed
      <4>2. QED
        BY <2>1, <4>1 DEF ListedAt, ListAt, DiskList, file
    <3>2. CASE Flush \/ TruncateFails
      <4>1. DiskList(numRecordsPointer)' = records'
        BY <2>1, <3>2, ListingWritten DEF DiskList, DiskListNext
      <4>2. QED
        BY <2>2, <4>1 DEF ListedAt, Listed, Sorted
    <3>3. CASE FlushFails
      BY <2>1, <3>3 DEF FlushFails, Closes
    <3>4. QED
      BY <3>1, <3>2, <3>3
  <2>4. QED
    BY <2>1, <2>2, <2>3 DEF ListInvariant, ShutIsEmpty, FileListed, OpenListed
<1>3. CASE Closes
  <2>1. pc' = "closed" /\ Forget
    BY <1>3 DEF Closes
  <2>2. CASE FlushClean
    BY <1>1, <2>1, <2>2, ListClose DEF FlushClean
  <2>3. CASE FlushFails \/ TruncateFails
    <3>1. ~intact'
      BY <2>1, <2>3 DEF FlushFails, TruncateFails, Stays, HurtUnless, intact
    <3>2. QED
      BY <2>1, <3>1, ListClose
  <2>4. CASE Flush
    <3>1. intact' => ListedAt(disk[size - 2].value)'
      <4> SUFFICES ASSUME intact' PROVE ListedAt(disk[size - 2].value)'
        OBVIOUS
      <4>1. DiskListNext(disk'[size' - 2].value) = records
        BY <2>4, ListingWritten
      <4>2. DiskList(disk[size - 2].value)' = records
        BY <4>1 DEF DiskList, DiskListNext
      <4>3. Listed(records)
        BY <1>1 DEF ListInvariant, OpenListed, intact
      <4>4. QED
        BY <4>2, <4>3 DEF ListedAt, Listed, Sorted
    <3>2. ~dirty' /\ records' = << >>
      BY <2>1 DEF Forget
    <3>3. QED
      BY <2>1, <3>1, <3>2 DEF ListInvariant, ShutIsEmpty, FileListed, OpenListed
  <2>5. QED
    BY <2>2, <2>3, <2>4
<1>4. QED
  BY <1>2, <1>3 DEF FlushClean, Flush, FlushFails, TruncateFails

LEMMA ListInit == Init => ListInvariant
<1> SUFFICES ASSUME Init PROVE ListInvariant
  OBVIOUS
<1>1. /\ pc = "closed" /\ ~dirty /\ records = << >>
      /\ size \in Nat /\ disk = [k \in 0 .. size - 1 |-> Hole]
  BY PackAssumption DEF Init
<1>2. ~TrailerAt(size)
  <2>1. Hole.kind # "pointer"
    BY DEF Hole
  <2>2. size >= 2 => disk[size - 2] = Hole
    BY <1>1
  <2>3. QED
    BY <2>1, <2>2 DEF TrailerAt
<1>3. QED
  BY <1>1, <1>2 DEF ListInvariant, ShutIsEmpty, FileListed, OpenListed

LEMMA ListStep == TypeOK /\ TypeOK' /\ Safe /\ ListInvariant /\ [Next]_vars => ListInvariant'
<1> SUFFICES ASSUME TypeOK, TypeOK', Safe, ListInvariant, [Next]_vars PROVE ListInvariant'
  OBVIOUS
<1>1. CASE UNCHANGED vars
  <2>1. /\ UNCHANGED <<disk, size, pc, dirty, records, numRecordsPointer, health>>
        /\ intact' = intact /\ TrailerAt(size)' = TrailerAt(size)
    BY <1>1 DEF vars, file, pack, past, intact, TrailerAt
  <2>2. /\ ListedAt(numRecordsPointer)' = ListedAt(numRecordsPointer)
        /\ ListedAt(disk[size - 2].value)' = ListedAt(disk[size - 2].value)
        /\ Listed(records)' = Listed(records) /\ Sorted(records)' = Sorted(records)
    BY <2>1 DEF ListedAt, ListAt, DiskList, Listed, Sorted
  <2>3. QED
    BY <2>1, <2>2 DEF ListInvariant, ShutIsEmpty, FileListed, OpenListed
<1>2. CASE Next
  BY <1>2, ListOpen, ListRead, ListInsert, ListUpdate, ListFlush DEF Next
<1>3. QED
  BY <1>1, <1>2

LEMMA ListHolds == Spec => []ListInvariant
<1>1. TypeOK /\ TypeOK' /\ Safe /\ ListInvariant /\ [Next]_vars => ListInvariant'
  BY ListStep
<1>2. QED
  BY <1>1, ListInit, TypeCorrect, PackSafe, PTL DEF Spec

\* The binary searches of Search and Store (pack.go:172, 339) find what they
\* look for, however many calls have failed.
THEOREM ListIsSorted == Spec => []SortedByCrc
<1>1. TypeOK /\ ListInvariant => SortedByCrc
  <2> SUFFICES ASSUME TypeOK, ListInvariant, health # "lost"
               PROVE  Sorted(records) /\ (pc = "idle" /\ Readable => Sorted(List))
    BY DEF SortedByCrc
  <2>1. Sorted(records)
    <3>1. CASE pc \in {"closed", "garbled"}
      BY <3>1 DEF ListInvariant, ShutIsEmpty, Sorted
    <3>2. CASE pc \in {"idle", "copy", "update"}
      BY <3>2 DEF ListInvariant, OpenListed, Listed
    <3>3. QED
      BY <3>1, <3>2 DEF TypeOK
  <2>2. pc = "idle" /\ Readable => Sorted(List)
    BY ListIsListed DEF ListInvariant, Listed
  <2>3. QED
    BY <2>1, <2>2
<1>2. QED
  BY <1>1, ListHolds, TypeCorrect, PTL

\* The tree indices are never those of a shorter list, whichever way Store is
\* left (pack.go:319-321).
THEOREM IndicesFit == Spec => []IndicesCurrent
<1>1. TypeOK /\ ListInvariant => IndicesCurrent
  BY ListIsListed DEF IndicesCurrent, ListInvariant, Listed
<1>2. QED
  BY <1>1, ListHolds, TypeCorrect, PTL

-----------------------------------------------------------------------------
(* A call that fails.                                                      *)

ServesNext(list, contents) == \A c \in DOMAIN contents :
    \E i \in DOMAIN list : /\ list[i].crc = c
                           /\ list[i].content = contents[c].content
                           /\ list[i].compressed = contents[c].compressed
                           /\ GoodNext(list[i])

\* The records of what is stored serve all of it, or all but one path.
LEMMA KeptServes ==
    ASSUME NEW list, NEW live \in SUBSET DOMAIN list, \A i \in live : GoodNext(list[i]),
           Matches(list, live, stored)
    PROVE  ServesNext(list, stored) /\ \A c : ServesNext(list, Drop(stored, c))
<1>1. ASSUME NEW e \in DOMAIN stored
      PROVE  \E i \in DOMAIN list : /\ list[i].crc = e
                                    /\ list[i].content = stored[e].content
                                    /\ list[i].compressed = stored[e].compressed
                                    /\ GoodNext(list[i])
  <2>1. PICK i \in live : list[i].crc = e
    BY DEF Matches
  <2>2. stored[e] = [content |-> list[i].content, compressed |-> list[i].compressed]
    BY <2>1 DEF Matches
  <2>3. QED
    BY <2>1, <2>2
<1>2. ASSUME NEW c PROVE ServesNext(list, Drop(stored, c))
  <2>1. \A e \in DOMAIN Drop(stored, c) : e \in DOMAIN stored /\ Drop(stored, c)[e] = stored[e]
    BY DEF Drop
  <2>2. QED
    BY <1>1, <2>1 DEF ServesNext
<1>3. QED
  BY <1>1, <1>2 DEF ServesNext

\* Neither a tree index nor a record more makes a list serve less.
LEMMA MoreServes ==
    ASSUME NEW a \in Seq(Record), NEW contents, ServesNext(a, contents)
    PROVE  /\ \A b \in Seq(Record) : SameButNodes(a, b) => ServesNext(b, contents)
           /\ \A i \in 1 .. Len(a) + 1, r \in Record :
                 InsertAt(a, i, r) \in Seq(Record) /\ ServesNext(InsertAt(a, i, r), contents)
<1>1. ASSUME NEW b \in Seq(Record), SameButNodes(a, b) PROVE ServesNext(b, contents)
  <2>1. \A i \in DOMAIN a : GoodNext(a[i]) => GoodNext(b[i])
    BY <1>1 DEF SameButNodes, GoodNext, DataSize, Byte
  <2>2. QED
    BY <1>1, <2>1 DEF SameButNodes, ServesNext
<1>2. ASSUME NEW i \in 1 .. Len(a) + 1, NEW r \in Record
      PROVE  InsertAt(a, i, r) \in Seq(Record) /\ ServesNext(InsertAt(a, i, r), contents)
  <2> DEFINE b == InsertAt(a, i, r)
  <2>1. /\ b \in Seq(Record) /\ Len(b) = Len(a) + 1
        /\ \A j \in 1 .. Len(a) + 1 : b[j] = IF j < i THEN a[j] ELSE IF j = i THEN r ELSE a[j - 1]
    BY InsertRecord
  <2>2. DOMAIN a = 1 .. Len(a) /\ DOMAIN b = 1 .. Len(b) /\ Len(a) \in Nat
    BY <2>1, SeqFacts
  <2> HIDE DEF b
  <2>3. ASSUME NEW j \in DOMAIN a PROVE \E k \in DOMAIN b : b[k] = a[j]
    <3>1. CASE j < i
      <4>1. j \in 1 .. Len(a) + 1 /\ b[j] = a[j]
        BY <2>1, <2>2, <3>1
      <4>2. QED
        BY <2>1, <2>2, <4>1
    <3>2. CASE j >= i
      <4>1. /\ j + 1 \in 1 .. Len(a) + 1 /\ ~(j + 1 < i) /\ j + 1 # i /\ (j + 1) - 1 = j
        BY <2>2, <3>2
      <4>2. b[j + 1] = a[j]
        BY <2>1, <4>1
      <4>3. QED
        BY <2>1, <2>2, <4>1, <4>2
    <3>3. QED
      BY <2>2, <3>1, <3>2
  <2>4. ServesNext(b, contents)
    BY <2>3 DEF ServesNext
  <2>5. QED
    BY <2>1, <2>4 DEF b
<1>3. QED
  BY <1>1, <1>2

\* A Store of a new path that fails: its record stays listed, and the data
\* it has written is behind that of the others.
LEMMA InsertSpares ==
    ASSUME TypeOK, Safe, intact, NEW c \in Crcs, NEW v \in Version,
           InsertFails(c, v) \/ InsertUndivided(c, v)
    PROVE  StoredReadable'
<1>1. /\ BeginInsert(c, v) /\ stored' = Drop(stored, c) /\ pc' = pc
      /\ \E n \in 0 .. DataSize(v) : Write(numRecordsPointer, n, Fresh(v))
  <2>1. DataSize(v) \in 0 .. DataSize(v)
    <3>1. v.content \in Contents /\ v.compressed \in BOOLEAN
      BY DEF Version
    <3>2. QED
      BY <3>1, SizeIsNat
  <2>2. QED
    BY <2>1 DEF InsertFails, InsertUndivided
<1>2. PICK n \in 0 .. DataSize(v) : Write(numRecordsPointer, n, Fresh(v))
  BY <1>1
<1> DEFINE r == NewRecord(c, v)
<1>3. PICK i \in 1 .. Len(List) + 1 : records' = UpdateIndices(InsertAt(List, i, r))
  BY <1>1 DEF BeginInsert
<1>4. pc = "idle" /\ dirty' = TRUE
  BY <1>1 DEF BeginInsert, BeginStore
<1>5. /\ List \in Seq(Record) /\ Laid(List, DOMAIN List, numRecordsPointer)
      /\ Matches(List, DOMAIN List, stored)
  BY <1>4, ListSound DEF Sound
<1>6. r \in Record
  BY DEF NewRecord, Record, Version, TypeOK
<1>7. FileType /\ numRecordsPointer \in Nat /\ n \in Nat
  <2>1. v.content \in Contents /\ v.compressed \in BOOLEAN
    BY DEF Version
  <2>2. QED
    BY <2>1, SizeIsNat, TypeParts DEF TypeOK
<1> HIDE DEF r
<1>8. \A j \in DOMAIN List : GoodNext(List[j])
  <2>1. LaidNext(List, DOMAIN List, numRecordsPointer)
    BY <1>2, <1>5, <1>7, LaidKept
  <2>2. QED
    BY <2>1 DEF LaidNext
<1>9. ServesNext(List, stored')
  BY <1>1, <1>5, <1>8, KeptServes
<1>10. InsertAt(List, i, r) \in Seq(Record) /\ ServesNext(InsertAt(List, i, r), stored')
  BY <1>5, <1>6, <1>9, MoreServes
<1>11. ServesNext(records', stored')
  BY <1>3, <1>10, UpdateIndicesSame, MoreServes
<1>12. QED
  BY <1>1, <1>4, <1>11 DEF StoredReadable, Readable, List, ServesNext, Serves, GoodNext, Good

\* A Store of a listed path that fails behind the last record it has moved.
LEMMA ReplaceSpares ==
    ASSUME TypeOK, Safe, intact, ReplaceFails
    PROVE  StoredReadable'
<1>1. /\ pc = "update" /\ pending = {} /\ pc' = "idle" /\ dirty' = dirty /\ stored' = stored
      /\ records' = UpdateIndices(Moved)
  BY DEF ReplaceFails, EndUpdate
<1>2. PICK n \in 0 .. DataSize(records[index]) : Write(pos, n, Fresh(records[index]))
  BY DEF ReplaceFails
<1>3. /\ records \in Seq(Record) /\ pos \in Nat /\ index \in DOMAIN records /\ FileType
      /\ numRecordsPointer \in Nat
  BY <1>1, TypeParts DEF TypeOK
<1>4. /\ dirty /\ Settled = DOMAIN records \ {index}
      /\ Laid(records, DOMAIN records \ {index}, numRecordsPointer)
      /\ Matches(records, DOMAIN records \ {index}, stored)
      /\ \A j \in DOMAIN records \ {index} : End(records[j]) <= pos
      /\ pos < numRecordsPointer /\ numRecordsPointer < PointerSpan
  BY <1>1 DEF Safe, WhenUpdating, Settled
<1>5. \A j \in DOMAIN records :
         /\ records[j] \in Record /\ DataSize(records[j]) \in Nat
         /\ records[j].dataPointer \in Nat
         /\ End(records[j]) = records[j].dataPointer + DataSize(records[j]) + 1
  BY <1>3, SeqFacts, RecordFacts
<1>6. \A j \in DOMAIN records \ {index} : GoodNext(records[j])
  <2>1. ASSUME NEW j \in DOMAIN records \ {index} PROVE GoodNext(records[j])
    <3>1. records[j] \in Record /\ Good(records[j])
      BY <1>4, <1>5 DEF Laid
    <3>2. records[j].dataPointer + DataSize(records[j]) <= pos
      BY <1>3, <1>4, <1>5
    <3>3. n \in Nat
      BY <1>3, <1>5
    <3>4. QED
      BY <1>2, <1>3, <3>1, <3>2, <3>3, GoodKept
  <2>2. QED
    BY <2>1
<1>7. U32(pos) = pos
  <2>1. pos < PointerSpan
    BY <1>3, <1>4, PackAssumption
  <2>2. QED
    BY <1>3, <2>1, U32Small
<1> DEFINE q == [records[index] EXCEPT !.dataPointer = pos]
<1>8. q \in Record
  <2>1. records[index] \in Record
    BY <1>3, <1>5
  <2>2. QED
    BY <1>3, <2>1 DEF Record
<1>9. Moved = [records EXCEPT ![index] = q]
  BY <1>7 DEF Moved
<1>10. /\ Moved \in Seq(Record) /\ DOMAIN Moved = DOMAIN records
       /\ \A j \in DOMAIN records : j # index => Moved[j] = records[j]
  <2> HIDE DEF q
  <2>1. QED
    BY <1>3, <1>8, <1>9, ExceptSeq
<1>11. ServesNext(Moved, stored')
  <2>1. Matches(Moved, DOMAIN Moved \ {index}, stored)
    BY <1>4, <1>10 DEF Matches
  <2>2. \A j \in DOMAIN Moved \ {index} : GoodNext(Moved[j])
    BY <1>6, <1>10
  <2>3. QED
    BY <1>1, <2>1, <2>2, KeptServes
<1>12. ServesNext(records', stored')
  BY <1>1, <1>10, <1>11, UpdateIndicesSame, MoreServes
<1>13. QED
  BY <1>1, <1>4, <1>12 DEF StoredReadable, Readable, List, ServesNext, Serves, GoodNext, Good

\* A Flush that fails once the listing is written: the file behind it has
\* only kept what should have been cut off.
LEMMA TruncateSpares ==
    ASSUME TypeOK, Safe, intact, TruncateFails
    PROVE  StoredReadable'
<1> DEFINE p == numRecordsPointer
           m == Len(records)
<1>1. /\ pc = "idle" /\ dirty /\ stored' = stored
      /\ Write(p, m + 3, Listing(records, p, revision))
      /\ \/ pc' = "closed"
         \/ pc' = "idle" /\ numRecordsPointer' = p /\ dirty' = FALSE
  BY DEF TruncateFails, Stays, Closes, ListingSize, ListingOfPack
<1>2. /\ records \in Seq(Record) /\ m \in Nat /\ p \in Nat /\ m + 3 \in Nat
      /\ DOMAIN records = 1 .. m /\ FileType
  BY TypeParts, SeqFacts DEF TypeOK
<1>3. Laid(records, DOMAIN records, p) /\ Matches(records, DOMAIN records, stored)
  BY <1>1 DEF Safe, WhenDirty, Sound
<1>4. /\ Listing(records, p, revision)[0] = Count(m)
      /\ \A k \in 1 .. m : Listing(records, p, revision)[k] = Entry(records[k])
  BY <1>2 DEF Listing
<1> HIDE DEF p, m
<1>5. /\ size' \in Nat /\ size' >= p + (m + 3) /\ DOMAIN disk' = 0 .. size' - 1
      /\ \A k \in DOMAIN disk' : p <= k /\ k < p + (m + 3)
                               => disk'[k] = Listing(records, p, revision)[k - p]
  <2> DEFINE block == Listing(records, p, revision)
             n == m + 3
  <2>1. size \in Nat /\ DOMAIN disk = 0 .. size - 1
    BY <1>2 DEF FileType
  <2>2. Write(p, n, block) /\ n \in Nat
    BY <1>1, <1>2
  <2> HIDE DEF block, n
  <2>3. p \in Nat
    BY <1>2
  <2>4. size' \in Nat /\ size' >= p + n
    BY <2>1, <2>2, <2>3, WriteIs
  <2>5. DOMAIN disk' = 0 .. size' - 1
    BY <2>1, <2>2, <2>3, WriteIs
  <2>6. \A k \in DOMAIN disk' : p <= k /\ k < p + n => disk'[k] = block[k - p]
    BY <2>1, <2>2, <2>3, WriteIs
  <2>7. QED
    BY <2>4, <2>5, <2>6 DEF n, block
<1>6. \A k \in 0 .. m : disk'[p + k] = Listing(records, p, revision)[k]
  <2>1. ASSUME NEW k \in 0 .. m PROVE disk'[p + k] = Listing(records, p, revision)[k]
    <3>1. /\ p + k \in 0 .. size' - 1 /\ p <= p + k
          /\ p + k < p + (m + 3) /\ (p + k) - p = k
      BY <1>2, <1>5
    <3>2. QED
      BY <1>5, <3>1
  <2>2. QED
    BY <2>1
<1>7. disk'[p].kind = "count" /\ disk'[p].value = m
  <2>1. 0 \in 0 .. m /\ p + 0 = p
    BY <1>2
  <2>2. QED
    BY <1>4, <1>6, <2>1 DEF Count
<1>8. \A k \in 1 .. m : disk'[p + k].kind = "entry" /\ disk'[p + k].record = records[k]
  <2>1. \A k \in 1 .. m : k \in 0 .. m
    BY <1>2
  <2>2. \A r : Entry(r).kind = "entry" /\ Entry(r).record = r
    BY DEF Entry
  <2>3. QED
    BY <1>4, <1>6, <2>1, <2>2
<1>9. [i \in 1 .. m |-> disk'[p + i].record] = records
  <2>1. [i \in 1 .. m |-> disk'[p + i].record] = [i \in 1 .. m |-> records[i]]
    BY <1>8
  <2>2. QED
    BY <1>2, <2>1
<1>10. ServesNext(records, stored')
  <2>1. LaidNext(records, DOMAIN records, p)
    BY <1>1, <1>2, <1>3, LaidKept
  <2>2. QED
    BY <1>1, <1>3, <2>1, KeptServes DEF LaidNext
<1>11. ASSUME pc' = "idle" PROVE Readable' /\ Serves(List, stored)'
  <2>1. numRecordsPointer' = p /\ dirty' = FALSE
    BY <1>1, <1>11
  <2>2. p < size' /\ p + m < size'
    BY <1>2, <1>5
  <2>3. Readable'
    BY <1>7, <1>8, <2>1, <2>2 DEF Readable, ListAt
  <2>4. List' = records
    BY <1>7, <1>9, <2>1 DEF List, DiskList
  <2>5. QED
    BY <1>10, <2>3, <2>4 DEF ServesNext, Serves, GoodNext, Good
<1>12. QED
  BY <1>1, <1>11 DEF StoredReadable

\* The first call that fails costs no other path its data, whatever fails:
\* the reader that Store is given, the write of the data or of the divider,
\* the listing, the truncation or the writer of WriteTo.  Only a failure in
\* the loop of updateRecord, with records still to be moved, may.
THEOREM OthersAreSpared == Spec => FailureSparesOthers
<1>1. TypeOK /\ Safe /\ SafeStored' /\ [Next]_vars
      => [intact /\ result' = "failed" /\ pending = {} => StoredReadable']_vars
  <2> SUFFICES ASSUME TypeOK, Safe, SafeStored', Next,
                      intact, result' = "failed", pending = {}, ~intact'
               PROVE  StoredReadable'
    BY DEF SafeStored
  <2>1. ASSUME pc' = "closed" PROVE StoredReadable'
    BY <2>1 DEF StoredReadable
  <2>2. \/ \E c \in Crcs, v \in Version : InsertFails(c, v) \/ InsertUndivided(c, v)
        \/ ReplaceFails \/ TruncateFails \/ pc' = "closed"
    BY DEF Next, NewPack, Create, Open, OpenRefused, GarbledTrailer, GarbledList, Garble,
           Records, ReadRecords, Insert, BeginUpdate, Shift, ShiftFails, Replace,
           FlushClean, Flush, FlushFails, Closes, Stays, BeginCopy, CopyRecord, EndCopy,
           CopyFails, LoseIfMoved, Crash, Abandon, past, intact
  <2>3. QED
    BY <2>1, <2>2, InsertSpares, ReplaceSpares, TruncateSpares
<1>2. QED
  BY <1>1, TypeCorrect, PackSafe, StoredIsSafe, PTL DEF Spec, FailureSparesOthers

-----------------------------------------------------------------------------
(* A call that succeeds.                                                   *)

\* A pack that is open, its file whole or at risk, and one that is not.
Clean(contents)  == [file |-> Promise!Whole(contents), open |-> TRUE,
                     dirty |-> FALSE, memory |-> contents]
Edited(contents) == [file |-> Promise!Broken, open |-> TRUE,
                     dirty |-> TRUE, memory |-> contents]
Shut(f)          == [file |-> f, open |-> FALSE, dirty |-> FALSE, memory |-> Nothing]

\* What the abstract calls make of them.
LEMMA CallsOfPackStore ==
    /\ Abstract!Opened(Shut(Promise!Absent)) = Edited(Nothing)
    /\ \A f : Abstract!Closed(f) = Shut(f)
    /\ \A s : /\ Abstract!Opened(Shut(Promise!Whole(s))) = Clean(s)
             /\ Abstract!Flushed(Clean(s)) = Clean(s)
             /\ Abstract!Flushed(Edited(s)) = Clean(s)
    /\ \A s, c, v : /\ Abstract!Stored(Clean(s), c, v) = Edited(Put(s, c, v))
                   /\ Abstract!Stored(Edited(s), c, v) = Edited(Put(s, c, v))
    /\ \A s, c : /\ Abstract!Withdrawn(Clean(s), c) = Edited(Drop(s, c))
                /\ Abstract!Withdrawn(Edited(s), c) = Edited(Drop(s, c))
<1>1. Promise!Broken = Abstract!Broken /\ Promise!Absent = Abstract!Absent
      /\ \A s : Promise!Whole(s) = Abstract!Whole(s)
  BY DEF Promise!Broken, Promise!Absent, Promise!Whole, Abstract!Broken, Abstract!Absent,
         Abstract!Whole, Promise!Nothing, Abstract!Nothing
<1>2. Nothing = Abstract!Nothing
  BY DEF Nothing, Abstract!Nothing
<1>3. Abstract!Absent.kind = "absent" /\ \A s : /\ Abstract!Whole(s).kind = "whole"
                                                /\ Abstract!Whole(s).contents = s
  BY DEF Abstract!Absent, Abstract!Whole
<1>4. \A s, c, v : Abstract!Put(s, c, v) = Put(s, c, v) /\ Abstract!Without(s, c) = Drop(s, c)
  BY DEF Abstract!Put, Put, Abstract!Without, Drop
<1>5. Abstract!Opened(Shut(Promise!Absent)) = Edited(Nothing)
  BY <1>1, <1>2, <1>3 DEF Abstract!Opened, Shut, Edited
<1>6. \A f : Abstract!Closed(f) = Shut(f)
  BY <1>2 DEF Abstract!Closed, Shut
<1>7. ASSUME NEW s
      PROVE  /\ Abstract!Opened(Shut(Promise!Whole(s))) = Clean(s)
             /\ Abstract!Flushed(Clean(s)) = Clean(s)
             /\ Abstract!Flushed(Edited(s)) = Clean(s)
  BY <1>1, <1>3 DEF Abstract!Opened, Abstract!Flushed, Shut, Clean, Edited
<1>8. ASSUME NEW s, NEW m
      PROVE  Abstract!Changed(Clean(s), m) = Edited(m) /\ Abstract!Changed(Edited(s), m) = Edited(m)
  BY <1>1 DEF Abstract!Changed, Clean, Edited
<1>9. \A s : Clean(s).memory = s /\ Edited(s).memory = s
  BY DEF Clean, Edited
<1>10. QED
  BY <1>4, <1>5, <1>6, <1>7, <1>8, <1>9 DEF Abstract!Stored, Abstract!Withdrawn

StoredIsFunction == stored = [c \in DOMAIN stored |-> stored[c]]

LEMMA StoredStaysFunction == StoredIsFunction /\ [Next]_vars => StoredIsFunction'
<1> SUFFICES ASSUME StoredIsFunction, [Next]_vars PROVE StoredIsFunction'
  OBVIOUS
<1>1. \/ stored' = stored
      \/ \E c, v : stored' = Put(stored, c, v)
      \/ \E c : stored' = Drop(stored, c)
  BY DEF Next, NewPack, Create, Open, OpenRefused, GarbledTrailer, GarbledList, Garble,
         Records, ReadRecords, Insert, InsertFails, InsertUndivided, BeginUpdate, Shift,
         ShiftFails, Replace, ReplaceFails, FlushClean, Flush, FlushFails, TruncateFails,
         BeginCopy, CopyRecord, EndCopy, CopyFails, Crash, Abandon, past, vars
<1>2. \A c, v : /\ DOMAIN Put(stored, c, v) = DOMAIN stored \cup {c}
               /\ Put(stored, c, v) = [x \in DOMAIN Put(stored, c, v) |-> Put(stored, c, v)[x]]
  BY DEF Put
<1>3. \A c : Drop(stored, c) = [x \in DOMAIN Drop(stored, c) |-> Drop(stored, c)[x]]
  BY DEF Drop
<1>4. QED
  BY <1>1, <1>2, <1>3 DEF StoredIsFunction

\* What reads back of records that hold what was stored is what was stored.
LEMMA ViewIs ==
    ASSUME NEW list \in Seq(Record), NEW live \in SUBSET DOMAIN list,
           \A i \in live : Good(list[i]), Matches(list, live, stored), StoredIsFunction
    PROVE  View(list, live) = stored
<1>1. {j \in live : Good(list[j])} = live
  OBVIOUS
<1>2. {list[i].crc : i \in live} = DOMAIN stored
  BY DEF Matches
<1>3. ASSUME NEW c \in DOMAIN stored
      PROVE  LET r == list[CHOOSE i \in live : Good(list[i]) /\ list[i].crc = c]
             IN  [content |-> r.content, compressed |-> r.compressed] = stored[c]
  <2> DEFINE P(i) == Good(list[i]) /\ list[i].crc = c
             k == CHOOSE i \in live : P(i)
  <2>1. \E i \in live : P(i)
    BY DEF Matches
  <2>2. k \in live /\ P(k)
    BY <2>1
  <2> HIDE DEF k
  <2>3. stored[c] = [content |-> list[k].content, compressed |-> list[k].compressed]
    BY <2>2 DEF Matches
  <2>4. QED
    BY <2>3 DEF k
<1>4. View(list, live) = [c \in DOMAIN stored |-> stored[c]]
  BY <1>1, <1>2, <1>3 DEF View
<1>5. QED
  BY <1>4 DEF StoredIsFunction

\* What a caller sees in a state that no failed call has led to.
Seen ==
    /\ pc = "closed" =>
          /\ PackView = Shut(FileView)
          /\ \/ FileView = Promise!Whole(stored) /\ size > 0 /\ disk[0] = Signature
             \/ Untouched /\ (size = 0 => FileView = Promise!Absent)
    /\ pc \in {"idle", "copy"} /\ ~dirty =>
          PackView = Clean(stored) /\ size > 0 /\ disk[0] = Signature
    /\ pc \in {"idle", "copy", "update"} /\ dirty => PackView = Edited(stored)

LEMMA SeenHolds == TypeOK /\ Safe /\ StoredIsFunction => (intact => Seen)
<1> SUFFICES ASSUME TypeOK, Safe, StoredIsFunction, intact PROVE Seen
  OBVIOUS
<1>1. records \in Seq(Record) /\ dirty \in BOOLEAN /\ size \in Nat
  BY DEF TypeOK
<1>2. ASSUME NEW p, FlushedAt(p), ~dirty, pc # "garbled"
      PROVE  FileView = Promise!Whole(stored) /\ size > 0 /\ disk[0] = Signature
  <2>1. /\ DiskList(p) \in Seq(Record) /\ size >= 3 /\ TrailerAt(size)
        /\ disk[size - 2].value = p
    BY <1>2, FlushedFacts
  <2>2. disk[0] = Signature /\ ListAt(p) /\ Sound(DiskList(p), p)
    BY <1>2 DEF FlushedAt
  <2>3. View(DiskList(p), DOMAIN DiskList(p)) = stored
    BY <2>1, <2>2, ViewIs DEF Sound, Laid
  <2>4. size # 0 /\ size >= 2 /\ size > 0
    BY <1>1, <2>1
  <2>5. QED
    BY <1>2, <2>1, <2>2, <2>3, <2>4 DEF FileView
<1>3. ASSUME pc = "closed"
      PROVE  /\ PackView = Shut(FileView)
             /\ \/ FileView = Promise!Whole(stored) /\ size > 0 /\ disk[0] = Signature
                \/ Untouched /\ (size = 0 => FileView = Promise!Absent)
  <2>1. /\ ~dirty /\ dirty = FALSE
        /\ Untouched \/ \E p \in 0 .. size : FlushedAt(p)
    BY <1>1, <1>3 DEF Safe, WhenClosed
  <2>2. MemoryView = Nothing
    BY <1>3 DEF MemoryView, Promise!Nothing, Nothing
  <2>3. (pc \in {"idle", "update", "copy"}) = FALSE
    BY <1>3
  <2>4. PackView = Shut(FileView)
    BY <2>1, <2>2, <2>3, Zenon DEF PackView, Shut
  <2>5. size = 0 => FileView = Promise!Absent
    BY DEF FileView
  <2>6. QED
    BY <1>2, <1>3, <2>1, <2>4, <2>5
<1>4. ASSUME pc \in {"idle", "copy", "update"} PROVE MemoryView = stored
  <2>1. CASE pc = "idle"
    <3>1. /\ Readable /\ List \in Seq(Record)
          /\ Laid(List, DOMAIN List, numRecordsPointer) /\ Matches(List, DOMAIN List, stored)
      BY <2>1, ListSound DEF Sound
    <3>2. View(List, DOMAIN List) = stored
      BY <3>1, ViewIs DEF Laid
    <3>3. QED
      BY <2>1, <3>1, <3>2 DEF MemoryView
  <2>2. CASE pc = "update"
    <3>1. View(records, DOMAIN records \ {index}) = stored
      BY <1>1, <2>2, UpdatingFacts, ViewIs DEF Laid
    <3>2. QED
      BY <2>2, <3>1 DEF MemoryView
  <2>3. CASE pc = "copy"
    <3>1. View(records, DOMAIN records) = stored
      BY <1>1, <2>3, CopySound, ViewIs DEF Laid, Sound
    <3>2. QED
      BY <2>3, <3>1 DEF MemoryView
  <2>4. QED
    BY <1>4, <2>1, <2>2, <2>3
<1>5. ASSUME pc \in {"idle", "copy", "update"} PROVE (pc \in {"idle", "update", "copy"}) = TRUE
  BY <1>5
<1>6. ASSUME pc \in {"idle", "copy"}, ~dirty
      PROVE  PackView = Clean(stored) /\ size > 0 /\ disk[0] = Signature
  <2>1. FlushedAt(numRecordsPointer) /\ pc # "garbled"
    BY <1>6 DEF Safe, WhenClean
  <2>2. dirty = FALSE
    BY <1>1, <1>6
  <2>3. FileView = Promise!Whole(stored) /\ size > 0 /\ disk[0] = Signature
    BY <1>2, <1>6, <2>1
  <2>4. MemoryView = stored /\ (pc \in {"idle", "update", "copy"}) = TRUE
    BY <1>4, <1>5, <1>6
  <2>5. QED
    BY <2>2, <2>3, <2>4, Zenon DEF PackView, Clean
<1>7. ASSUME pc \in {"idle", "copy", "update"}, dirty PROVE PackView = Edited(stored)
  <2>1. dirty = TRUE
    BY <1>1, <1>7
  <2>2. size # 0
    <3>1. CASE pc = "update"
      BY <1>1, <3>1 DEF Safe, WhenUpdating, TypeOK
    <3>2. CASE pc \in {"idle", "copy"}
      <4>1. numRecordsPointer <= size /\ 1 <= numRecordsPointer /\ numRecordsPointer \in Nat
        BY <1>7, <3>2 DEF Safe, WhenDirty, Sound, TypeOK
      <4>2. QED
        BY <1>1, <4>1
    <3>3. QED
      BY <1>7, <3>1, <3>2
  <2>3. FileView = Promise!Broken
    BY <1>7, <2>2 DEF FileView
  <2>4. MemoryView = stored /\ (pc \in {"idle", "update", "copy"}) = TRUE
    BY <1>4, <1>5, <1>7
  <2>5. QED
    BY <2>1, <2>3, <2>4, Zenon DEF PackView, Edited
<1>8. QED
  BY <1>3, <1>6, <1>7 DEF Seen

LEMMA SeenNext == TypeOK' /\ Safe' /\ StoredIsFunction' => (intact' => Seen')
BY SeenHolds, PTL

\* A step from such a state to another, or to what a crash leaves, is a step
\* of PackStore.
LEMMA StepIsPromised ==
    ASSUME TypeOK, Safe, StoredIsFunction, TypeOK', Safe', StoredIsFunction',
           "reuse" \notin Faults, Next, intact, intact' \/ Crash
    PROVE  Abstract!Next \/ PackView' = PackView
<1> DEFINE a == PackView
           b == PackView'
<1>1. Seen /\ (intact' => Seen')
  BY SeenHolds, SeenNext
<1>2. /\ pc = "closed" =>
            /\ a = Shut(FileView)
            /\ \/ FileView = Promise!Whole(stored) /\ size > 0 /\ disk[0] = Signature
               \/ Untouched /\ (size = 0 => FileView = Promise!Absent)
      /\ pc \in {"idle", "copy"} /\ ~dirty =>
            a = Clean(stored) /\ size > 0 /\ disk[0] = Signature
      /\ pc \in {"idle", "copy", "update"} /\ dirty => a = Edited(stored)
  BY <1>1 DEF Seen
<1>3. intact' =>
      /\ pc' = "closed" =>
            /\ b = Shut(FileView')
            /\ \/ FileView' = Promise!Whole(stored') /\ size' > 0 /\ disk'[0] = Signature
               \/ Untouched' /\ (size' = 0 => FileView' = Promise!Absent)
      /\ pc' \in {"idle", "copy"} /\ ~dirty' =>
            b = Clean(stored') /\ size' > 0 /\ disk'[0] = Signature
      /\ pc' \in {"idle", "copy", "update"} /\ dirty' => b = Edited(stored')
  BY <1>1 DEF Seen, Clean, Edited, Shut, Promise!Whole, Promise!Absent, Promise!Broken
<1>4. Untouched' <=> /\ DOMAIN stored' = {}
                     /\ saved'.revision < 0
                     /\ (size' > 0 => disk'[0] # Signature)
  BY DEF Untouched
<1>5. /\ \A s : Clean(s).open /\ Clean(s).memory = s /\ Clean(s).file = Promise!Whole(s)
      /\ \A s : Edited(s).open /\ Edited(s).memory = s /\ Edited(s).dirty
      /\ \A f : ~Shut(f).open /\ Shut(f).file = f
      /\ Promise!Absent.kind # "broken" /\ \A s : Promise!Whole(s).kind # "broken"
  BY DEF Clean, Edited, Shut, Promise!Absent, Promise!Whole
<1>6. pc \in {"closed", "idle", "update", "copy"} /\ pc' \in {"closed", "idle", "update", "copy", "garbled"}
      /\ (pc = "update" => dirty) /\ (intact' /\ pc' = "update" => dirty')
      /\ (intact' => pc' # "garbled") /\ size \in Nat
      /\ dirty \in BOOLEAN
  BY DEF Safe, WhenUpdating, TypeOK
<1> HIDE DEF a, b
\* Nothing that a caller sees has changed.
<1>7. ASSUME intact', stored' = stored, pc # "closed", pc' \in {"idle", "copy", "update"},
             dirty' = dirty
      PROVE  b = a
  BY <1>2, <1>3, <1>6, <1>7
<1>8. /\ a = Shut(Promise!Absent) /\ b = Edited(Nothing) => Abstract!Open(a, b)
      /\ \A s : a = Shut(Promise!Whole(s)) /\ b = Clean(s) => Abstract!Open(a, b)
  BY <1>5, CallsOfPackStore DEF Abstract!Open
<1>9. \A s, c, v : /\ c \in Crcs /\ v \in Version
                  /\ a \in {Clean(s), Edited(s)} /\ b = Edited(Put(s, c, v))
                  => Abstract!Store(a, b)
  BY <1>5, CallsOfPackStore DEF Abstract!Store
<1>10. \A s, c : c \in DOMAIN s /\ a \in {Clean(s), Edited(s)} /\ b = Edited(Drop(s, c))
                => Abstract!Withdraw(a, b)
  BY <1>5, CallsOfPackStore DEF Abstract!Withdraw
<1>11. \A s : a = Edited(s) /\ b = Clean(s) => Abstract!Flush(a, b)
  BY <1>5, CallsOfPackStore DEF Abstract!Flush
<1>12. \A s : a \in {Clean(s), Edited(s)} /\ b = Shut(Promise!Whole(s)) => Abstract!Close(a, b)
  BY <1>5, CallsOfPackStore DEF Abstract!Close
<1>13. /\ \A s, f : a = Edited(s) /\ b = Shut(f) => Abstract!Crash(a, b)
       /\ \A s : a = Clean(s) /\ b = Shut(Promise!Whole(s)) => Abstract!Crash(a, b)
  BY <1>5, CallsOfPackStore DEF Abstract!Crash
<1>14. Abstract!Open(a, b) \/ Abstract!Store(a, b) \/ Abstract!Withdraw(a, b)
       \/ Abstract!Flush(a, b) \/ Abstract!Close(a, b) \/ Abstract!Crash(a, b)
       => Abstract!Next
  BY DEF Abstract!Next, Abstract!Step, a, b
\* A pack that was clean is closed.
<1>15. ASSUME intact', pc \in {"idle", "copy"}, ~dirty, pc' = "closed", UNCHANGED <<file, stored>>
       PROVE  a = Clean(stored) /\ b = Shut(Promise!Whole(stored))
  BY <1>2, <1>3, <1>4, <1>6, <1>15 DEF file
<1>16. ASSUME NewPack PROVE Abstract!Next \/ b = a
  <2>1. Create(0) \/ Open(0) \/ OpenRefused(0) \/ GarbledTrailer(0)
    BY <1>16 DEF NewPack, Handles
  <2>2. CASE Create(0)
    <3>1. size = 0 /\ pc = "closed" /\ pc' = "idle" /\ dirty' = TRUE /\ stored' = stored
      BY <1>6, <2>2 DEF Create
    <3>2. DOMAIN stored = {} /\ FileView = Promise!Absent /\ intact'
      BY <1>2, <1>16, <2>2, <3>1 DEF Untouched, Create, Crash
    <3>3. stored = Nothing
      BY <3>2 DEF StoredIsFunction, Nothing
    <3>4. QED
      BY <1>2, <1>3, <1>8, <1>14, <3>1, <3>2, <3>3
  <2>3. CASE Open(0)
    <3>1. /\ size > 0 /\ disk[0] = Signature /\ pc = "closed" /\ pc' = "idle" /\ dirty' = dirty
          /\ stored' = stored /\ intact'
      BY <1>6, <2>3 DEF Open, intact
    <3>2. ~dirty
      BY <3>1 DEF Safe, WhenClosed
    <3>3. a = Shut(Promise!Whole(stored)) /\ b = Clean(stored)
      BY <1>2, <1>3, <3>1, <3>2 DEF Untouched
    <3>4. QED
      BY <1>8, <1>14, <3>3
  <2>4. CASE OpenRefused(0)
    BY <2>4 DEF OpenRefused, PackView, FileView, MemoryView, Readable, List, View, Good, ListAt,
       DiskList, TrailerAt, file, pack, locals, past, a, b
  <2>5. ~GarbledTrailer(0)
    BY <1>6 DEF GarbledTrailer, Garble, past, Crash, intact
  <2>6. QED
    BY <2>1, <2>2, <2>3, <2>4, <2>5
<1>17. ASSUME NEW c \in Crcs, NEW v \in Version, Insert(c, v) PROVE Abstract!Next
  <2>1. /\ pc = "idle" /\ pc' = "idle" /\ dirty' = TRUE /\ stored' = Put(stored, c, v) /\ intact'
    BY <1>17 DEF Insert, BeginInsert, BeginStore, Crash, Closes
  <2>2. a \in {Clean(stored), Edited(stored)} /\ b = Edited(Put(stored, c, v))
    BY <1>2, <1>3, <1>6, <2>1
  <2>3. QED
    BY <1>9, <1>14, <2>2
<1>18. ASSUME NEW c \in Crcs, NEW v \in Version, BeginUpdate(c, v) PROVE Abstract!Next
  <2>1. /\ pc = "idle" /\ pc' = "update" /\ dirty' = TRUE /\ stored' = Drop(stored, c) /\ intact'
        /\ \E t \in DOMAIN List : List[t].crc = c
    BY <1>18 DEF BeginUpdate, BeginStore, intact
  <2>2. c \in DOMAIN stored
    BY <2>1, ListSound DEF Sound, Matches
  <2>3. a \in {Clean(stored), Edited(stored)} /\ b = Edited(Drop(stored, c))
    BY <1>2, <1>3, <1>6, <2>1
  <2>4. QED
    BY <1>10, <1>14, <2>2, <2>3
<1>19. ASSUME Replace PROVE Abstract!Next
  <2>1. pc = "update" /\ pc' = "idle" /\ dirty' = dirty /\ intact'
    BY <1>19 DEF Replace, EndUpdate, Crash, Closes
  <2>2. PICK c \in Crcs, v \in Version : stored' = Put(stored, c, v)
    <3>1. records \in Seq(Record) /\ index \in DOMAIN records
      BY <2>1 DEF TypeOK
    <3>2. records[index] \in Record
      BY <3>1, SeqFacts
    <3>3. /\ records[index].crc \in Crcs
          /\ [content |-> records[index].content, compressed |-> records[index].compressed]
             \in Version
      BY <3>2 DEF Record, Version
    <3>4. QED
      BY <1>19, <3>3 DEF Replace
  <2>3. a = Edited(stored) /\ b = Edited(Put(stored, c, v))
    BY <1>2, <1>3, <1>6, <2>1, <2>2
  <2>4. QED
    BY <1>9, <1>14, <2>3
<1>20. ASSUME FlushClean PROVE Abstract!Next \/ b = a
  <2>1. pc = "idle" /\ ~dirty /\ UNCHANGED <<file, stored>> /\ intact'
        /\ ((pc' = "idle" /\ dirty' = dirty) \/ pc' = "closed")
    BY <1>20 DEF FlushClean, Stays, Closes, past, intact
  <2>2. QED
    BY <1>7, <1>12, <1>14, <1>15, <2>1
<1>21. ASSUME Flush PROVE Abstract!Next
  <2>1. /\ pc = "idle" /\ dirty /\ stored' = stored /\ intact' /\ saved'.revision = revision
        /\ (pc' = "idle" /\ dirty' = FALSE) \/ pc' = "closed"
    BY <1>21 DEF Flush, Stays, Closes, intact
  <2>2. ~Untouched'
    <3>1. ~(saved'.revision < 0)
      BY <2>1 DEF TypeOK
    <3>2. QED
      BY <1>4, <3>1
  <2>3. a = Edited(stored) /\ b \in {Clean(stored), Shut(Promise!Whole(stored))}
    BY <1>2, <1>3, <2>1, <2>2
  <2>4. QED
    BY <1>11, <1>12, <1>14, <2>3
<1>22. ASSUME Crash PROVE Abstract!Next
  <2>1. /\ pc # "closed" /\ pc' = "closed" /\ dirty' = FALSE /\ UNCHANGED <<file, stored>>
        /\ (~dirty => intact')
    BY <1>22 DEF Crash, Closes, Forget, HurtUnless, intact
  <2>2. CASE dirty
    <3>1. b = Shut(FileView')
      <4>1. MemoryView' = Nothing
        BY <2>1 DEF MemoryView, Promise!Nothing, Nothing
      <4>2. (pc' \in {"idle", "update", "copy"}) = FALSE
        BY <2>1
      <4>3. QED
        BY <2>1, <4>1, <4>2, Zenon DEF PackView, Shut, b
    <3>2. a = Edited(stored)
      BY <1>2, <1>6, <2>1, <2>2
    <3>3. QED
      BY <1>13, <1>14, <3>1, <3>2
  <2>3. CASE ~dirty
    <3>1. pc \in {"idle", "copy"}
      BY <1>6, <2>1, <2>3
    <3>2. a = Clean(stored) /\ b = Shut(Promise!Whole(stored))
      BY <1>15, <2>1, <2>3, <3>1
    <3>3. QED
      BY <1>13, <1>14, <3>2
  <2>4. QED
    BY <2>2, <2>3
<1>23. ASSUME \/ Records \/ ReadRecords \/ Shift \/ BeginCopy \/ CopyRecord \/ EndCopy
              \/ CopyFails \/ FlushFails
       PROVE  b = a
  <2>1. ~Crash
    BY <1>6, <1>23 DEF Crash, Closes, Records, ReadRecords, Shift, BeginCopy, CopyRecord,
       EndCopy, CopyFails, FlushFails
  <2>2. FlushFails => Stays /\ dirty' = dirty
    BY <2>1 DEF FlushFails, HurtUnless, intact
  <2>3. QED
    BY <1>7, <1>23, <2>1, <2>2
    DEF Records, ReadRecords, Shift, BeginCopy, CopyRecord, EndCopy, CopyFails, FlushFails,
        Stays, pack, past
<1>24. ~GarbledList /\ ~Abandon
  BY <1>6 DEF GarbledList, Garble, Abandon, past, Crash, intact
<1>25. /\ ~ShiftFails /\ ~ReplaceFails /\ ~TruncateFails
       /\ \A c \in Crcs, v \in Version : ~InsertFails(c, v) /\ ~InsertUndivided(c, v)
  BY DEF ShiftFails, ReplaceFails, TruncateFails, InsertFails, InsertUndivided, HurtUnless,
         intact, Crash
<1>26. QED
  BY <1>16, <1>17, <1>18, <1>19, <1>20, <1>21, <1>22, <1>23, <1>24, <1>25 DEF Next, a, b

\* As long as no call hurts the pack, and up to a crash that loses what was
\* not flushed, every call does what PackStore says: each Store changes one
\* path, WriteTo none, Flush and Close make everything durable.  The pack
\* starts from no file, and every handle stands at the start of its file.
THEOREM PackImplements ==
    ASSUME ForeignSizes = {0}, "reuse" \notin Faults
    PROVE  Spec /\ [][intact /\ (intact' \/ Crash)]_vars => Implements
<1>1. Init => StoredIsFunction /\ Abstract!Init
  <2> SUFFICES ASSUME Init PROVE StoredIsFunction /\ Abstract!Init
    OBVIOUS
  <2>1. /\ size = 0 /\ pc = "closed" /\ dirty = FALSE /\ stored = Nothing
    BY DEF Init
  <2>2. StoredIsFunction
    BY <2>1 DEF StoredIsFunction, Nothing
  <2>3. FileView = Promise!Absent /\ MemoryView = Nothing
    BY <2>1 DEF FileView, MemoryView, Promise!Nothing, Nothing
  <2>4. (pc \in {"idle", "update", "copy"}) = FALSE
    BY <2>1
  <2>5. PackView = Shut(Promise!Absent)
    BY <2>1, <2>3, <2>4, Zenon DEF PackView, Shut
  <2>6. Promise!Absent = Abstract!Absent
    BY DEF Promise!Absent, Abstract!Absent, Promise!Nothing, Abstract!Nothing
  <2>7. QED
    BY <2>2, <2>5, <2>6, CallsOfPackStore DEF Abstract!Init
<1>2. /\ TypeOK /\ Safe /\ StoredIsFunction /\ TypeOK' /\ Safe' /\ StoredIsFunction'
      /\ [Next]_vars /\ [intact /\ (intact' \/ Crash)]_vars
      => [Abstract!Next]_PackView
  <2> SUFFICES ASSUME TypeOK, Safe, StoredIsFunction, TypeOK', Safe', StoredIsFunction',
                      [Next]_vars, [intact /\ (intact' \/ Crash)]_vars
               PROVE  Abstract!Next \/ PackView' = PackView
    OBVIOUS
  <2>1. CASE UNCHANGED vars
    BY <2>1 DEF vars, file, pack, locals, past, PackView, FileView, MemoryView, Readable, List,
       View, Good, ListAt, DiskList, TrailerAt
  <2>2. CASE Next /\ intact /\ (intact' \/ Crash)
    BY <2>2, StepIsPromised
  <2>3. QED
    BY <2>1, <2>2
<1>3. Spec => []StoredIsFunction
  BY <1>1, StoredStaysFunction, PTL DEF Spec
<1>4. QED
  BY <1>1, <1>2, <1>3, TypeCorrect, PackSafe, PTL DEF Spec, Implements, Abstract!Spec
=============================================================================
