----------------------------- MODULE GbFdbProofs -----------------------------
(***************************************************************************)
(* What gb-fdb does to a database, for any files and databases.  First     *)
(* what toFdb gives to the builder is a build; then every step preserves   *)
(* GbInvariant; from it follow that fromFdb takes tables whole, and that   *)
(* toFdb gives them back.                                                  *)
(***************************************************************************)
EXTENDS GbFdbInvariant, FdbReadingProofs

LEMMA MinIs == ASSUME NEW S \in SUBSET Nat, S # {} PROVE Min(S) \in S /\ \A x \in S : Min(S) <= x
<1>1. \E x \in S : \A y \in S : x <= y BY Least
<1> QED BY <1>1 DEF Min

LEMMA IsSequence ==
    ASSUME NEW S, NEW n \in Nat, NEW f \in [1..n -> S]
    PROVE  f \in Seq(S) /\ Len(f) = n
OBVIOUS

LEMMA ElementOf ==
    ASSUME NEW S, NEW s \in Seq(S), NEW i \in 1..Len(s)
    PROVE  s[i] \in S
OBVIOUS

(* The k-th smallest of some indices.                                      *)
UpTo(mine, i) == {j \in mine : j <= i}

LEMMA Smallest ==
    ASSUME NEW n \in Nat, NEW mine \in SUBSET (1..n)
    PROVE  /\ IsFiniteSet(mine) /\ Cardinality(mine) \in 0..n
           /\ \A k \in 1..Cardinality(mine) : \E i \in mine : Cardinality(UpTo(mine, i)) = k
<1>1. IsFiniteSet(1..n) /\ Cardinality(1..n) = n BY FS_Interval
<1>2. IsFiniteSet(mine) /\ Cardinality(mine) \in 0..n
  <2>1. IsFiniteSet(mine) /\ Cardinality(mine) <= n BY <1>1, FS_Subset
  <2> QED BY <2>1, FS_CardinalityType
<1>3. \A i : IsFiniteSet(UpTo(mine, i)) /\ Cardinality(UpTo(mine, i)) \in Nat
  <2> TAKE i
  <2>1. UpTo(mine, i) \in SUBSET mine BY DEF UpTo
  <2> QED BY <1>2, <2>1, FS_Subset, FS_CardinalityType
<1>6. \A j \in mine : j \in Nat /\ 1 <= j /\ j <= n OBVIOUS
<1>4. UpTo(mine, n) = mine
  <2>1. \A j \in mine : j <= n BY <1>6
  <2> QED BY <2>1 DEF UpTo
<1>5. ASSUME NEW k \in 1..Cardinality(mine)
      PROVE  \E i \in mine : Cardinality(UpTo(mine, i)) = k
  <2>1. PICK S : S = {i \in 1..n : Cardinality(UpTo(mine, i)) >= k} OBVIOUS
  <2>2. n \in S
    <3>1. n # 0 BY <1>2
    <3> QED BY <1>2, <1>4, <2>1, <3>1
  <2>3. PICK i \in S : \A j \in S : i <= j
    <3>1. S \in SUBSET Nat BY <2>1
    <3> QED BY <2>2, <3>1, Least
  <2>4. i \in 1..n /\ Cardinality(UpTo(mine, i)) >= k BY <2>1, <2>3
  <2>5. Cardinality(UpTo(mine, i - 1)) < k
    <3>1. CASE i = 1
      <4>1. \A j \in mine : ~(j <= i - 1) BY <1>6, <3>1
      <4>2. UpTo(mine, i - 1) = {} BY <4>1 DEF UpTo
      <4> QED BY <4>2, FS_EmptySet
    <3>2. CASE i # 1
      <4>1. i - 1 \in 1..n /\ ~(i <= i - 1) BY <2>4, <3>2
      <4>2. i - 1 \notin S BY <2>3, <4>1
      <4>3. ~(Cardinality(UpTo(mine, i - 1)) >= k) BY <2>1, <4>1, <4>2
      <4> QED BY <1>3, <4>3
    <3> QED BY <3>1, <3>2
  <2>6. UpTo(mine, i) \ {i} = UpTo(mine, i - 1)
    <3>1. \A j \in mine : j <= i /\ j # i <=> j <= i - 1 BY <1>6, <2>4
    <3> QED BY <3>1 DEF UpTo
  <2>7. i \in mine
    <3> SUFFICES ASSUME i \notin mine PROVE FALSE OBVIOUS
    <3>1. UpTo(mine, i) = UpTo(mine, i - 1) BY <2>6 DEF UpTo
    <3> QED BY <1>3, <2>4, <2>5, <3>1
  <2>8. Cardinality(UpTo(mine, i - 1)) = Cardinality(UpTo(mine, i)) - 1
    <3>1. i \in UpTo(mine, i) BY <2>4, <2>7 DEF UpTo
    <3> QED BY <1>3, <2>6, <3>1, FS_RemoveElement
  <2>9. Cardinality(UpTo(mine, i)) = k BY <1>3, <2>4, <2>5, <2>8
  <2> QED BY <2>7, <2>9
<1> QED BY <1>2, <1>5

LEMMA KeptType ==
    ASSUME NEW table, table.columns \in Seq([name : Texts, type : SqlTypes, pk : Nat]), NEW excluded
    PROVE  /\ Kept(table, excluded) \in Seq(1..Len(table.columns))
           /\ Len(Kept(table, excluded)) <= Len(table.columns)
<1>1. PICK n, mine : /\ n = Len(table.columns)
                     /\ mine = {i \in 1..n : table.columns[i].name \notin excluded}
  OBVIOUS
<1>2. n \in Nat /\ mine \in SUBSET (1..n) BY <1>1
<1>3. PICK c : c = Cardinality(mine) OBVIOUS
<1>4. c \in 0..n /\ \A k \in 1..c : \E i \in mine : Cardinality(UpTo(mine, i)) = k
  BY <1>2, <1>3, Smallest
<1>5. Kept(table, excluded) = [k \in 1..c |-> CHOOSE i \in mine : Cardinality(UpTo(mine, i)) = k]
  BY <1>1, <1>3 DEF Kept, UpTo
<1>6. \A k \in 1..c : (CHOOSE i \in mine : Cardinality(UpTo(mine, i)) = k) \in 1..n
  BY <1>2, <1>4
<1>7. PICK kept : kept = Kept(table, excluded) OBVIOUS
<1>8. kept \in [1..c -> 1..n] BY <1>5, <1>6, <1>7
<1>9. c \in Nat /\ c <= n BY <1>2, <1>4
<1>10. kept \in Seq(1..n) /\ Len(kept) = c BY <1>8, <1>9, IsSequence
<1> QED BY <1>1, <1>7, <1>9, <1>10

LEMMA MovedToFront ==
    ASSUME NEW S, NEW s \in Seq(S), NEW k \in 1..Len(s)
    PROVE  <<s[k]>> \o RemoveAt(s, k) \in Seq(S)
<1>1. Len(s) \in Nat /\ k \in Nat OBVIOUS
<1>2. SubSeq(s, 1, k - 1) \in Seq(S) BY <1>1
<1>3. SubSeq(s, k + 1, Len(s)) \in Seq(S) BY <1>1
<1>4. SubSeq(s, 1, k - 1) \o SubSeq(s, k + 1, Len(s)) \in Seq(S) BY <1>2, <1>3
<1>5. RemoveAt(s, k) \in Seq(S) BY <1>4 DEF RemoveAt
<1>6. s[k] \in S OBVIOUS
<1> QED BY <1>5, <1>6

LEMMA PickedType ==
    ASSUME NEW table, table.columns \in Seq([name : Texts, type : SqlTypes, pk : Nat]), NEW excluded,
           Queried(table, excluded)
    PROVE  Picked(table, excluded) \in Seq(1..Len(table.columns))
<1>1. PICK kept, key, n : /\ kept = Kept(table, excluded) /\ key = KeyIndex(table, kept)
                          /\ n = Len(table.columns)
  OBVIOUS
<1>2. kept \in Seq(1..n) /\ n \in Nat
  <2>1. Len(table.columns) \in Nat OBVIOUS
  <2> QED BY <1>1, <2>1, KeptType
<1>3. key \in Nat \ {0}
  <2>1. PICK keys : keys = {i \in ToSet(kept) : table.columns[i].pk = 1} OBVIOUS
  <2>2. ToSet(kept) \in SUBSET (1..n)
    <3>1. \A i \in DOMAIN kept : kept[i] \in 1..n BY <1>2
    <3> QED BY <3>1 DEF ToSet
  <2>3. keys \in SUBSET Nat /\ 0 \notin keys BY <1>2, <2>1, <2>2
  <2>4. key = IF keys = {} THEN 1 ELSE Min(keys) BY <1>1, <2>1 DEF KeyIndex
  <2>5. keys # {} => Min(keys) \in keys BY <2>3, MinIs
  <2> QED BY <2>3, <2>4, <2>5
<1>4. kept # <<>> => key \in 1..Len(kept)
  <2> SUFFICES ASSUME kept # <<>> PROVE key \in 1..Len(kept) OBVIOUS
  <2>1. Len(kept) \in Nat \ {0} BY <1>2
  <2>2. Max({1, Len(kept)}) = Len(kept) BY <2>1 DEF Max
  <2>3. key <= Len(kept) BY <1>1, <2>2 DEF Queried
  <2> QED BY <1>3, <2>1, <2>3
<1>5. Picked(table, excluded) = IF kept = <<>> THEN <<>> ELSE <<kept[key]>> \o RemoveAt(kept, key)
  BY <1>1 DEF Picked
<1>6. kept # <<>> => <<kept[key]>> \o RemoveAt(kept, key) \in Seq(1..n)
  BY <1>2, <1>4, MovedToFront
<1> QED BY <1>1, <1>5, <1>6, Nothing

(* What toFdb gives to the builder: its tables and their rows are typed.   *)
LEMMA VariantTypes == \A type : toVariant(type) \in Nat
BY DEF toVariant, VariantNull, VariantI32, VariantReal, VariantNVarChar, VariantBool, VariantI64,
       VariantText

LEMMA ColumnsType ==
    ASSUME NEW table, table.columns \in Seq([name : Texts, type : SqlTypes, pk : Nat]),
           NEW picked \in Seq(1..Len(table.columns))
    PROVE  /\ ColumnsOf(table, picked) \in Seq([variant : Nat, name : Texts])
           /\ Len(ColumnsOf(table, picked)) = Len(picked)
           /\ \A k \in 1..Len(picked) :
                 ColumnsOf(table, picked)[k].variant = toVariant(table.columns[picked[k]].type)
<1>1. PICK n, columns : n = Len(picked) /\ columns = ColumnsOf(table, picked) OBVIOUS
<1>2. n \in Nat BY <1>1
<1>3. columns = [k \in 1..n |-> Column(toVariant(table.columns[picked[k]].type),
                                      table.columns[picked[k]].name)]
  BY <1>1 DEF ColumnsOf
<1>4. ASSUME NEW k \in 1..n
      PROVE  Column(toVariant(table.columns[picked[k]].type), table.columns[picked[k]].name)
               \in [variant : Nat, name : Texts]
  <2>1. picked[k] \in 1..Len(table.columns) BY <1>1
  <2>2. table.columns[picked[k]] \in [name : Texts, type : SqlTypes, pk : Nat]
    BY <2>1, ElementOf
  <2> QED BY <2>2, VariantTypes DEF Column
<1>5. columns \in [1..n -> [variant : Nat, name : Texts]] BY <1>3, <1>4
<1>6. columns \in Seq([variant : Nat, name : Texts]) /\ Len(columns) = n BY <1>2, <1>5, IsSequence
<1>7. \A k \in 1..n : columns[k].variant = toVariant(table.columns[picked[k]].type)
  BY <1>3 DEF Column
<1> QED BY <1>1, <1>6, <1>7

LEMMA SignedType == \A n \in Int : Signed(uint32(n), Span) \in Signed32
<1> TAKE n \in Int
<1>1. PICK m, h : m = n % Span /\ h = Span \div 2 OBVIOUS
<1>2. h \in Nat /\ Span = 2 * h /\ m \in 0..Span - 1 BY <1>1, SpanAssumption
<1>3. (IF m < h THEN m ELSE m - Span) \in 0 - h..h - 1 BY <1>2
<1> QED BY <1>1, <1>3 DEF Signed, uint32, Signed32

LEMMA EntriesOfCells ==
    /\ Entry(VariantNull, 0) \in Entries
    /\ \A variant \in TextVariants, t \in Texts : Entry(variant, t) \in Entries
    /\ \A n \in 0..Span - 1 : Entry(VariantReal, n) \in Entries
    /\ \A n \in Int : /\ n \in Signed32 => Entry(VariantI32, n) \in Entries
                      /\ n \in {0, 1} => Entry(VariantBool, n) \in Entries
                      /\ n \in Signed64 => Entry(VariantI64, n) \in Entries
BY DEF Entry, Entries, Typed, TextVariants, VariantNull, VariantI32, VariantU32, VariantReal,
       VariantNVarChar, VariantBool, VariantI64, VariantU64, VariantText

LEMMA Widths == Signed32 \subseteq Int /\ Signed64 \subseteq Int
BY SpanAssumption DEF Signed32, Signed64

LEMMA ScanType ==
    ASSUME NEW cell \in Cells, NEW variant, Scans(variant, cell)
    PROVE  Scan(variant, cell) \in Entries
<1>1. CASE cell.kind = "null"
  <2>1. Scan(variant, cell) = Entry(VariantNull, 0) BY <1>1 DEF Scan
  <2> QED BY <2>1, EntriesOfCells
<1>2. CASE cell.kind = "text"
  <2>1. variant \in TextVariants /\ cell.of \in Texts BY <1>2 DEF Scans, Cells
  <2>2. Scan(variant, cell) = Entry(variant, cell.of) BY <1>2 DEF Scan
  <2> QED BY <2>1, <2>2, EntriesOfCells
<1>3. CASE cell.kind = "real"
  <2>1. variant = VariantReal /\ cell.of \in 0..Span - 1 BY <1>3 DEF Scans, Cells
  <2>2. Scan(variant, cell) = Entry(variant, cell.of) BY <1>3 DEF Scan
  <2> QED BY <2>1, <2>2, EntriesOfCells
<1>4. CASE cell.kind = "integer"
  <2>1. cell.of \in Signed64 /\ cell.of \in Int BY <1>4, Widths DEF Cells
  <2>2. CASE variant = VariantI32
    <3>1. Scan(variant, cell) = Entry(variant, Signed(uint32(cell.of), Span))
      BY <1>4, <2>2 DEF Scan, VariantI32, VariantBool
    <3>2. Signed(uint32(cell.of), Span) \in Signed32 BY <2>1, SignedType
    <3> QED BY <2>2, <3>1, <3>2, Widths, EntriesOfCells
  <2>3. CASE variant = VariantBool
    <3>1. Scan(variant, cell) = Entry(variant, IF cell.of = 0 THEN 0 ELSE 1)
      BY <1>4, <2>3 DEF Scan, VariantI32, VariantBool
    <3> QED BY <2>3, <3>1, EntriesOfCells
  <2>4. CASE variant = VariantI64
    <3>1. Scan(variant, cell) = Entry(variant, cell.of)
      BY <1>4, <2>4 DEF Scan, VariantI32, VariantBool, VariantI64
    <3> QED BY <2>1, <2>4, <3>1, EntriesOfCells
  <2> QED BY <1>4, <2>2, <2>3, <2>4 DEF Scans
<1> QED BY <1>1, <1>2, <1>3, <1>4 DEF Scans

SqlTyped(table) ==
    /\ table.columns \in Seq([name : Texts, type : SqlTypes, pk : Nat])
    /\ table.rows \in Seq(Seq(Cells))
    /\ \A i \in 1..Len(table.rows) : Len(table.rows[i]) = Len(table.columns)

LEMMA SqlTablesTyped == \A table \in SqlTables : SqlTyped(table)
<1> HIDE DEF Cells
<1> QED BY DEF SqlTables, SqlTyped

(* The rows of a table that can be scanned.                                *)
Scanned(table, picked, j) ==
    \A k \in 1..Len(picked) :
        Scans(ColumnsOf(table, picked)[k].variant, table.rows[j][picked[k]])
ScannedRow(table, picked, j) ==
    [k \in 1..Len(picked) |->
        Scan(ColumnsOf(table, picked)[k].variant, table.rows[j][picked[k]])]

LEMMA ScannedUpTo ==
    ASSUME NEW table, SqlTyped(table), NEW picked \in Seq(1..Len(table.columns))
    PROVE  \E end \in 0..Len(table.rows) :
              /\ \A j \in 1..end : Scanned(table, picked, j)
              /\ ScannedRows(table, picked).rows = [j \in 1..end |-> ScannedRow(table, picked, j)]
              /\ ScannedRows(table, picked).err \in BOOLEAN
              /\ (\A j \in 1..Len(table.rows) : Scanned(table, picked, j)) =>
                    end = Len(table.rows) /\ ~ScannedRows(table, picked).err
<1>1. PICK n : n = Len(table.rows) OBVIOUS
<1>2. n \in Nat BY <1>1 DEF SqlTyped
<1>3. PICK failing : failing = {j \in 1..n : ~Scanned(table, picked, j)} OBVIOUS
<1>4. PICK end : end = Min(failing \cup {n + 1}) - 1 OBVIOUS
<1>5. end \in 0..n /\ \A j \in 1..end : j \notin failing
  <2>1. failing \cup {n + 1} \in SUBSET Nat BY <1>2, <1>3
  <2>2. PICK m : m = Min(failing \cup {n + 1}) OBVIOUS
  <2>3. m \in failing \cup {n + 1} /\ \A j \in failing \cup {n + 1} : m <= j BY <2>1, <2>2, MinIs
  <2>4. m \in 1..n + 1 BY <1>2, <1>3, <2>3
  <2>5. end = m - 1 BY <1>4, <2>2
  <2>6. \A j \in 1..end : ~(m <= j) BY <1>2, <2>4, <2>5
  <2> QED BY <1>2, <2>3, <2>4, <2>5, <2>6
<1>6. failing = {j \in 1..n : \E k \in 1..Len(picked) :
                    ~Scans(ColumnsOf(table, picked)[k].variant, table.rows[j][picked[k]])}
  BY <1>3 DEF Scanned
<1>7. ScannedRows(table, picked) =
        [rows |-> [j \in 1..end |-> ScannedRow(table, picked, j)], err |-> failing # {}]
  BY <1>1, <1>4, <1>6 DEF ScannedRows, ScannedRow
<1>8. \A j \in 1..end : Scanned(table, picked, j) BY <1>2, <1>3, <1>5
<1>9. ASSUME \A j \in 1..n : Scanned(table, picked, j) PROVE end = n /\ failing = {}
  <2>1. failing = {} BY <1>3, <1>9
  <2>2. failing \cup {n + 1} = {n + 1} BY <2>1
  <2>3. {n + 1} \in SUBSET Nat /\ {n + 1} # {} BY <1>2
  <2>4. PICK m : m = Min({n + 1}) OBVIOUS
  <2>5. m = n + 1
    <3>1. Min({n + 1}) \in {n + 1} BY <2>3, MinIs
    <3> QED BY <2>4, <3>1
  <2>6. end = m - 1 BY <1>4, <2>2, <2>4
  <2> QED BY <1>2, <2>1, <2>5, <2>6
<1>10. /\ ScannedRows(table, picked).rows = [j \in 1..end |-> ScannedRow(table, picked, j)]
       /\ ScannedRows(table, picked).err = (failing # {})
  BY <1>7
<1>11. end \in 0..Len(table.rows) BY <1>1, <1>5
<1> QED BY <1>1, <1>8, <1>9, <1>10, <1>11

LEMMA ScannedRowsType ==
    ASSUME NEW table, SqlTyped(table), NEW picked \in Seq(1..Len(table.columns))
    PROVE  ScannedRows(table, picked) \in [rows : Seq(Rows), err : BOOLEAN]
<1>1. PICK end \in 0..Len(table.rows) :
        /\ \A j \in 1..end : Scanned(table, picked, j)
        /\ ScannedRows(table, picked).rows = [j \in 1..end |-> ScannedRow(table, picked, j)]
        /\ ScannedRows(table, picked).err \in BOOLEAN
  BY ScannedUpTo
<1>2. end \in Nat /\ end <= Len(table.rows) BY <1>1 DEF SqlTyped
<1>3. ASSUME NEW j \in 1..end PROVE ScannedRow(table, picked, j) \in Rows
  <2>1. j \in 1..Len(table.rows) BY <1>2 DEF SqlTyped
  <2>2. PICK row, columns : row = table.rows[j] /\ columns = ColumnsOf(table, picked) OBVIOUS
  <2>3. row \in Seq(Cells) /\ Len(row) = Len(table.columns)
    BY <2>1, <2>2, ElementOf DEF SqlTyped
  <2>4. ASSUME NEW k \in 1..Len(picked) PROVE Scan(columns[k].variant, row[picked[k]]) \in Entries
    <3>1. picked[k] \in 1..Len(row) BY <2>3
    <3>2. row[picked[k]] \in Cells BY <2>3, <3>1, ElementOf
    <3>3. Scans(columns[k].variant, row[picked[k]]) BY <1>1, <2>2 DEF Scanned
    <3> QED BY <3>2, <3>3, ScanType
  <2>5. Len(picked) \in Nat OBVIOUS
  <2>6. ScannedRow(table, picked, j) \in [1..Len(picked) -> Entries]
    BY <2>2, <2>4 DEF ScannedRow
  <2> QED BY <2>5, <2>6, IsSequence DEF Rows
<1>4. [j \in 1..end |-> ScannedRow(table, picked, j)] \in Seq(Rows) BY <1>2, <1>3, IsSequence
<1>5. ScannedRows(table, picked) =
        [rows |-> ScannedRows(table, picked).rows, err |-> ScannedRows(table, picked).err]
  BY DEF ScannedRows
<1> QED BY <1>1, <1>4, <1>5

(* The tables that are exported, in any order.                             *)
LEMMA ListedSet ==
    ASSUME NEW S, IsFiniteSet(S)
    PROVE  SetToSeq(S) \in Seq(S)
<1>1. Cardinality(S) \in Nat /\ ExistsBijection(1..Cardinality(S), S) BY FS_CardinalityType
<1>2. \E f \in [1..Cardinality(S) -> S] : IsInjective(f)
  BY <1>1 DEF ExistsBijection, Bijection, Injection
<1>3. SetToSeq(S) \in [1..Cardinality(S) -> S] BY <1>2 DEF SetToSeq
<1> QED BY <1>1, <1>3, IsSequence

Exported(name, picks) == [name |-> name, columns |-> ColumnsOf(db[name], picks[name])]

LEMMA ExportIsBuild ==
    ASSUME IsDatabase(db), NEW names \in SUBSET DOMAIN db, NEW picks,
           DOMAIN picks = names, \A n \in names : picks[n] \in Seq(1..Len(db[n].columns))
    PROVE  IsBuild(SetToSeq({Exported(n, picks) : n \in names}),
                   [n \in names |-> ScannedRows(db[n], picks[n])])
<1>1. PICK ts, from, list : /\ ts = {Exported(n, picks) : n \in names} /\ list = SetToSeq(ts)
                            /\ from = [n \in names |-> ScannedRows(db[n], picks[n])]
  OBVIOUS
<1>2. \A n \in names : n \in Texts /\ SqlTyped(db[n]) BY SqlTablesTyped DEF IsDatabase
<1>3. IsFiniteSet(ts)
  <2>1. IsFiniteSet(names) BY FS_Subset DEF IsDatabase
  <2>2. PICK f : f = [n \in names |-> Exported(n, picks)] OBVIOUS
  <2>3. f \in Surjection(names, ts) BY <1>1, <2>2 DEF Surjection
  <2> QED BY <2>1, <2>3, FS_Surjection
<1>4. list \in Seq(ts) BY <1>1, <1>3, ListedSet
<1>5. ASSUME NEW n \in names PROVE Exported(n, picks) \in Tables
  <2>1. ColumnsOf(db[n], picks[n]) \in Seq([variant : Nat, name : Texts])
    BY <1>2, ColumnsType DEF SqlTyped
  <2> QED BY <1>2, <2>1 DEF Exported, Tables
<1>6. list \in Seq(Tables)
  <2>1. \A t \in ts : t \in Tables BY <1>1, <1>5
  <2>2. ts \in SUBSET Tables BY <2>1
  <2> QED BY <1>4, <2>2
<1>7. \A n \in DOMAIN from : from[n] \in [rows : Seq(Rows), err : BOOLEAN]
  BY <1>1, <1>2, ScannedRowsType
<1>8. ASSUME NEW i \in 1..Len(list) PROVE list[i].name \in DOMAIN from
  <2>1. list[i] \in ts BY <1>4, ElementOf
  <2>2. PICK n \in names : list[i] = Exported(n, picks) BY <1>1, <2>1
  <2> QED BY <1>1, <2>2 DEF Exported
<1> QED BY <1>1, <1>6, <1>7, <1>8 DEF IsBuild

(* The steps of gb-fdb are steps of the library, which leave the library's *)
(* state as a caller may, or begin a build of a file of their own.         *)
LEMMA BeginFlushFile ==
    ASSUME FileInvariant, NEW ts, NEW from, IsBuild(ts, from), BeginFlush(ts, from),
           UNCHANGED cursors
    PROVE  FileInvariant'
<1>1. WriterInvariant' /\ ContentInvariant' BY BeginFlushStep, BeginFlushContent
<1>2. state = "idle" BY DEF BeginFlush
<1>3. ~reader.open BY <1>2 DEF FileInvariant, ReaderInvariant, Complete
<1>4. reader' = reader /\ rows' = rows /\ find' = find BY DEF cursors
<1>5. Complete' BY <1>3, <1>4 DEF Complete
<1> QED BY <1>1, <1>3, <1>4, <1>5, ClosedStays DEF FileInvariant

LEMMA FailFile ==
    ASSUME FileInvariant, state = "idle", Fail, UNCHANGED cursors
    PROVE  FileInvariant'
<1>1. NoFile /\ state' \in {"idle", "failed"} BY DEF Fail
<1>2. WriterInvariant' /\ ContentInvariant' BY <1>1, NoFileStep, NoFileContent
<1>3. ~reader.open BY DEF FileInvariant, ReaderInvariant, Complete
<1>4. reader' = reader /\ rows' = rows /\ find' = find BY DEF cursors
<1>5. Complete' BY <1>3, <1>4 DEF Complete
<1> QED BY <1>2, <1>3, <1>4, <1>5, ClosedStays DEF FileInvariant

LEMMA LibraryStep == FileInvariant /\ [Next]_vars => FileInvariant'
BY Preserved, ContentPreserved, ReaderPreserved DEF FileInvariant

LEMMA OtherProgramFile == ASSUME FileInvariant, OtherProgram PROVE FileInvariant'
<1>1. PICK b \in Files : \E ts \in Sortings(b.tables) : BeginFlush(ts, b.source)
  BY DEF OtherProgram, Build
<1>2. PICK ts \in Sortings(b.tables) : BeginFlush(ts, b.source) BY <1>1
<1>3. IsBuild(ts, b.source) BY FilesAssumption, SortedBuild
<1>4. UNCHANGED cursors BY DEF OtherProgram, Build
<1> QED BY <1>2, <1>3, <1>4, BeginFlushFile

LEMMA WriteFdbFile ==
    ASSUME FileInvariant, IsDatabase(db), NEW options, WriteFdb(options)
    PROVE  FileInvariant'
<1>1. state = "idle" /\ UNCHANGED cursors BY DEF WriteFdb
<1>2. PICK excludes \in options :
        LET names == {n \in DOMAIN db : Star \notin Excluded(n, excludes)}
            picks == [n \in names |-> Picked(db[n], Excluded(n, excludes))]
            ts    == {[name |-> n, columns |-> ColumnsOf(db[n], picks[n])] : n \in names}
        IN  IF \A n \in names : Queried(db[n], Excluded(n, excludes))
            THEN \E sorted \in Sortings(SetToSeq(ts)) :
                    BeginFlush(sorted, [n \in names |-> ScannedRows(db[n], picks[n])])
            ELSE Fail
  BY DEF WriteFdb
<1>3. PICK names, picks :
        /\ names = {n \in DOMAIN db : Star \notin Excluded(n, excludes)}
        /\ picks = [n \in names |-> Picked(db[n], Excluded(n, excludes))]
  OBVIOUS
<1>4. CASE \A n \in names : Queried(db[n], Excluded(n, excludes))
  <2>1. PICK list, from : /\ list = SetToSeq({Exported(n, picks) : n \in names})
                          /\ from = [n \in names |-> ScannedRows(db[n], picks[n])]
    OBVIOUS
  <2>2. PICK sorted \in Sortings(list) : BeginFlush(sorted, from)
    BY <1>2, <1>3, <1>4, <2>1 DEF Exported
  <2>3. ASSUME NEW n \in names PROVE picks[n] \in Seq(1..Len(db[n].columns))
    <3>1. SqlTyped(db[n]) BY <1>3, SqlTablesTyped DEF IsDatabase
    <3> QED BY <1>3, <1>4, <3>1, PickedType DEF SqlTyped
  <2>4. names \in SUBSET DOMAIN db /\ DOMAIN picks = names BY <1>3
  <2>5. IsBuild(list, from) BY <2>1, <2>3, <2>4, ExportIsBuild
  <2>6. IsBuild(sorted, from) BY <2>5, SortedBuild
  <2> QED BY <1>1, <2>2, <2>6, BeginFlushFile
<1>5. CASE ~\A n \in names : Queried(db[n], Excluded(n, excludes))
  <2>1. Fail BY <1>2, <1>3, <1>5
  <2> QED BY <1>1, <2>1, FailFile
<1> QED BY <1>4, <1>5

(* What an open file has for fromFdb.                                      *)
LEMMA OpenTables ==
    ASSUME FileInvariant, reader.open
    PROVE  /\ Len(reader.tables) = Len(tables) /\ Len(tables) \in Nat
           /\ \A t \in 1..Len(tables) :
                /\ tables[t] \in Tables
                /\ reader.tables[t].name = tables[t].name
                /\ reader.tables[t].columns = tables[t].columns
                /\ RowsOf(t) \in Seq(Rows)
                /\ tables[t].columns # <<>> =>
                      \A i \in 1..Len(RowsOf(t)) : Len(RowsOf(t)[i]) = Len(tables[t].columns)
<1>1. WriterInvariant /\ ContentInvariant /\ Complete BY DEF FileInvariant, ReaderInvariant
<1>2. /\ Len(reader.tables) = Len(tables) /\ Len(tables) \in Nat
      /\ \A t \in 1..Len(tables) :
           /\ tables[t] \in Tables
           /\ reader.tables[t].name = tables[t].name
           /\ reader.tables[t].columns = tables[t].columns
           /\ tables[t].columns # <<>> => Collects(tables[t])
  BY <1>1, TablesRead
<1>3. ASSUME NEW t \in 1..Len(tables) PROVE RowsOf(t) \in Seq(Rows)
  BY <1>1, IsReady DEF Ready
<1>4. ASSUME NEW t \in 1..Len(tables), tables[t].columns # <<>>, NEW i \in 1..Len(RowsOf(t))
      PROVE  Len(RowsOf(t)[i]) = Len(tables[t].columns)
  <2>1. RowsOf(t) = source[tables[t].name].rows BY <1>4 DEF RowsOf
  <2>2. Collects(tables[t]) BY <1>2, <1>4
  <2> QED BY <2>1, <2>2 DEF Collects, Fits
<1> QED BY <1>2, <1>3, <1>4

LEMMA LibraryOrWrites ==
    ASSUME GbInvariant, [GbNext]_gbvars
    PROVE  [Next]_vars \/ OtherProgram \/ WriteFdb(Options)
<1>1. CASE Library BY <1>1 DEF Library, Next
<1>2. CASE CreateTable
  <2>1. conv.at \in 1..Len(reader.tables)
    <3>1. conv.at \in 1..Len(tables) /\ reader.open
      BY <1>2 DEF CreateTable, GbInvariant, Converting
    <3> QED BY <3>1, OpenTables DEF GbInvariant
  <2>2. Read BY <1>2, <2>1 DEF CreateTable, Read
  <2> QED BY <2>2 DEF Next
<1>3. CASE InsertRow BY <1>3 DEF InsertRow, Next
<1>4. CASE Exit BY <1>4 DEF Exit, Read, Next
<1>5. CASE ReadFdb \/ DropTables \/ Commit \/ Refused \/ ImportStops \/ UNCHANGED gbvars
  BY <1>5 DEF ReadFdb, DropTables, Commit, Refused, ImportStops, Stops, gbvars
<1> QED BY <1>1, <1>2, <1>3, <1>4, <1>5 DEF GbNext, ImportStep

LEMMA GbFile == ASSUME GbInvariant, [GbNext]_gbvars PROVE FileInvariant'
<1>1. FileInvariant /\ IsDatabase(db) BY DEF GbInvariant
<1>2. CASE [Next]_vars BY <1>1, <1>2, LibraryStep
<1>3. CASE OtherProgram BY <1>1, <1>3, OtherProgramFile
<1>4. CASE WriteFdb(Options) BY <1>1, <1>4, WriteFdbFile
<1> QED BY <1>2, <1>3, <1>4, LibraryOrWrites

(* What a step of fromFdb leaves as it is.                                 *)
LEMMA ImportedStays ==
    ASSUME UNCHANGED <<tables, source>>, conv.lost \subseteq conv'.lost,
           NEW t, NEW table, Imported(t, table)
    PROVE  Imported(t, table)'
<1>1. RowsOf(t)' = RowsOf(t) BY DEF RowsOf
<1>2. PICK from \in [1..Len(table.rows) -> 1..Len(RowsOf(t))] : Copied(table.rows, t, from)
  BY DEF Imported
<1>3. Copied(table.rows, t, from)' BY <1>1, <1>2 DEF Copied, SqlRow, IsRead
<1>4. SqlColumns(tables[t])' = SqlColumns(tables[t]) BY DEF SqlColumns
<1> QED BY <1>1, <1>3, <1>4 DEF Imported

LEMMA ImportingStays ==
    ASSUME IsDatabase(db), Importing, UNCHANGED <<db, before, tables, source>>,
           reader'.tables = reader.tables, conv'.at = conv.at, conv'.lost = conv.lost,
           conv.state # "none"
    PROVE  IsDatabase(db)' /\ Importing'
<1>1. FileNames' = FileNames BY DEF FileNames
<1>2. IsDatabase(db)' BY DEF IsDatabase, SqlTables, Cells
<1>3. CASE conv.at = 0 BY <1>3 DEF Importing
<1>4. CASE conv.at # 0
  <2>1. /\ DOMAIN db = (DOMAIN before \ FileNames) \cup {tables[t].name : t \in 1..conv.at - 1}
        /\ \A n \in DOMAIN db \ FileNames : db[n] = before[n]
        /\ \A t \in 1..conv.at - 1 : Imported(t, db[tables[t].name])
    BY <1>4 DEF Importing
  <2>2. ASSUME NEW t \in 1..conv.at - 1 PROVE Imported(t, db[tables[t].name])'
    <3>1. PICK table : table = db[tables[t].name] OBVIOUS
    <3>2. Imported(t, table)' BY <2>1, <3>1, ImportedStays
    <3> QED BY <3>1, <3>2
  <2> QED BY <1>1, <1>4, <2>1, <2>2 DEF Importing
<1> QED BY <1>2, <1>3, <1>4

(* Steps that begin or end a call of the library, fromFdb at rest.         *)
LEMMA AtRest ==
    ASSUME IsDatabase(db), db' = db, conv'.state = "none", DOMAIN conv' = DOMAIN Resting
    PROVE  (IsDatabase(db) /\ Converting /\ Importing)'
<1>1. IsDatabase(db)' BY DEF IsDatabase, SqlTables, Cells
<1>2. Converting' BY DEF Converting, Resting
<1>3. Importing' BY DEF Importing
<1> QED BY <1>1, <1>2, <1>3

LEMMA NotConverting ==
    ASSUME GbInvariant, Library \/ OtherProgram \/ WriteFdb(Options)
    PROVE  conv.state = "none"
<1>1. Complete /\ (conv.state # "none" => reader.open)
  BY DEF GbInvariant, FileInvariant, ReaderInvariant, Converting
<1>2. CASE Library
  <2>1. CASE Forget \/ BuildStep BY <1>1, <2>1, WritesNotOpen
  <2>2. CASE Open BY <1>1, <2>2 DEF Open, OpenReader
  <2> QED BY <1>2, <2>1, <2>2 DEF Library
<1>3. CASE OtherProgram
  <2>1. PICK b \in Files : \E ts \in Sortings(b.tables) : BeginFlush(ts, b.source)
    BY <1>3 DEF OtherProgram, Build
  <2>2. state = "idle" BY <2>1 DEF BeginFlush
  <2> QED BY <1>1, <2>2 DEF Complete
<1>4. CASE WriteFdb(Options) BY <1>4 DEF WriteFdb
<1> QED BY <1>2, <1>3, <1>4

LEMMA ReadFdbStep ==
    ASSUME GbInvariant, ReadFdb PROVE (IsDatabase(db) /\ Converting /\ Importing)'
<1>1. /\ DOMAIN conv' = DOMAIN Resting /\ conv'.state = "drop" /\ conv'.at = 0
      /\ before' = db /\ db' = db
  BY DEF ReadFdb, Resting
<1>2. reader'.open /\ tables' = tables BY DEF ReadFdb, vars, builder, cursors
<1>3. Len(tables) \in Nat BY OpenTables DEF GbInvariant, ReadFdb
<1>4. IsDatabase(db)' BY <1>1 DEF GbInvariant, IsDatabase, SqlTables, Cells
<1>5. Converting' BY <1>1, <1>2, <1>3 DEF Converting, Resting
<1>6. Importing' BY <1>1 DEF Importing
<1> QED BY <1>4, <1>5, <1>6

LEMMA DropTablesStep ==
    ASSUME GbInvariant, DropTables PROVE (IsDatabase(db) /\ Converting /\ Importing)'
<1>1. /\ conv.state = "drop" /\ conv.at = 0 /\ reader.open /\ DOMAIN conv = DOMAIN Resting
      /\ db = before /\ IsDatabase(db)
  BY DEF GbInvariant, Converting, Importing, DropTables
<1>2. /\ DOMAIN conv' = DOMAIN Resting /\ conv'.state = From(1) /\ conv'.at = 1
      /\ before' = before /\ db' = [n \in DOMAIN db \ FileNames |-> db[n]]
  BY <1>1 DEF DropTables, Resting
<1>3. reader' = reader /\ tables' = tables BY DEF DropTables, vars, builder, cursors
<1>4. Len(reader.tables) = Len(tables) /\ Len(tables) \in Nat
  BY <1>1, OpenTables DEF GbInvariant
<1>5. IsDatabase(db)'
  <2>1. DOMAIN db' \in SUBSET DOMAIN db BY <1>2
  <2>2. IsFiniteSet(DOMAIN db') BY <1>1, <2>1, FS_Subset DEF IsDatabase
  <2>3. \A n \in DOMAIN db' : n \in Texts /\ db'[n] \in SqlTables BY <1>1, <1>2 DEF IsDatabase
  <2> QED BY <2>2, <2>3 DEF IsDatabase, SqlTables, Cells
<1>6. Converting' BY <1>1, <1>2, <1>3, <1>4 DEF Converting, From, Resting
<1>7. Importing'
  <2>1. FileNames' = FileNames BY <1>3 DEF FileNames
  <2>2. 1..conv'.at - 1 = {} BY <1>2
  <2> QED BY <1>1, <1>2, <2>1, <2>2 DEF Importing
<1> QED BY <1>5, <1>6, <1>7

LEMMA CreateTableStep ==
    ASSUME GbInvariant, CreateTable PROVE (IsDatabase(db) /\ Converting /\ Importing)'
<1>1. /\ conv.state = "create" /\ conv.at \in 1..Len(tables) /\ reader.open
      /\ DOMAIN conv = DOMAIN Resting /\ IsDatabase(db) /\ Importing
  BY DEF GbInvariant, Converting, CreateTable
<1>2. /\ DOMAIN conv' = DOMAIN Resting /\ conv'.state = "insert"
      /\ conv'.at = conv.at /\ conv'.lost = conv.lost
  BY <1>1 DEF CreateTable, Resting
<1>3. UNCHANGED <<tables, source, reader, db, before>>
  BY DEF CreateTable, StartRows, builder
<1>4. rows'.state = "running" /\ rows'.table = conv.at
  BY DEF CreateTable, StartRows, NoRows
<1>5. Creatable(reader.tables[conv.at])'
  <2>1. PICK table : table = reader.tables[conv.at] OBVIOUS
  <2>2. Creatable(table) BY <2>1 DEF CreateTable
  <2>3. Creatable(table)' BY <1>3, <2>2 DEF Creatable
  <2> QED BY <1>2, <1>3, <2>1, <2>3
<1>6. Converting' BY <1>1, <1>2, <1>3, <1>4, <1>5 DEF Converting, Resting
<1> QED BY <1>1, <1>2, <1>3, <1>6, ImportingStays

LEMMA InsertRowStep ==
    ASSUME GbInvariant, InsertRow PROVE (IsDatabase(db) /\ Converting /\ Importing)'
<1>1. conv.state = "insert" /\ Converting /\ IsDatabase(db) /\ Importing
  BY DEF GbInvariant, InsertRow
<1>2. UNCHANGED <<tables, source, db, before, conv>>
  BY DEF InsertRow, NextRow, builder, gb
<1>3. reader' = reader /\ rows'.table = rows.table /\ rows'.state # "none"
  <2>1. CursorTypeOK BY DEF GbInvariant, FileInvariant, ReaderInvariant
  <2>2. RowsNext BY DEF InsertRow, NextRow
  <2>3. reader' = reader
    BY <2>2 DEF RowsNext, NextInBucket, NextBucket, NoBuckets, RowUnread, ListUnread
  <2>4. rows.state = "running"
    BY <2>2 DEF RowsNext, NextInBucket, NextBucket, NoBuckets, RowUnread, ListUnread, InRange
  <2>5. rows'.table = rows.table /\ rows'.state # "none"
    BY <2>1, <2>2, <2>4
    DEF RowsNext, NextInBucket, NextBucket, NoBuckets, RowUnread, ListUnread, FromNextBucket,
        Yield, NoMore, CursorTypeOK, NoRows
  <2> QED BY <2>3, <2>5
<1>4. Creatable(reader.tables[conv.at])' <=> Creatable(reader.tables[conv.at])
  BY <1>2, <1>3 DEF Creatable
<1>5. Converting' BY <1>1, <1>2, <1>3, <1>4 DEF Converting
<1> QED BY <1>1, <1>2, <1>3, <1>5, ImportingStays

LEMMA StopsStep ==
    ASSUME GbInvariant, Running, Stops PROVE (IsDatabase(db) /\ Converting /\ Importing)'
<1>1. /\ conv.state # "none" /\ Converting /\ IsDatabase(db) /\ Importing
      /\ DOMAIN conv = DOMAIN Resting
  BY DEF GbInvariant, Running, Converting
<1>2. /\ DOMAIN conv' = DOMAIN Resting /\ conv'.state = "failed"
      /\ conv'.at = conv.at /\ conv'.lost = conv.lost
  BY <1>1 DEF Stops, Resting
<1>3. UNCHANGED <<tables, source, reader, db, before>> BY DEF Stops, vars, builder, cursors
<1>4. Converting' BY <1>1, <1>2, <1>3 DEF Converting
<1> QED BY <1>1, <1>2, <1>3, <1>4, ImportingStays

(* What is inserted: the rows of the builder, every one once, as cells.    *)
LEMMA SqlKinds ==
    /\ SqlKind(VariantNull) = "null"
    /\ SqlKind(VariantReal) = "real"
    /\ \A variant \in TextVariants : SqlKind(variant) = "text"
    /\ \A variant \in {VariantI32, VariantU32, VariantBool, VariantI64, VariantU64} :
          SqlKind(variant) = "integer"
BY DEF SqlKind, TextVariants, VariantNull, VariantI32, VariantU32, VariantReal, VariantNVarChar,
       VariantBool, VariantI64, VariantU64, VariantText

(* What a database keeps of a real.                                        *)
LEMMA RealCell ==
    ASSUME NEW entry, entry.variant = VariantReal, Typed(entry)
    PROVE  /\ Value(entry) \in Cells
           /\ Value(entry) = IF entry.value \in NaNs THEN Cell("null", 0)
                             ELSE IF entry.value = NegativeZero THEN Cell("real", 0)
                             ELSE Cell("real", entry.value)
<1>1. PICK of : of = entry.value OBVIOUS
<1>2. of \in 0..Span - 1 BY <1>1 DEF Typed
<1>3. 0 \in 0..Span - 1 /\ 0 \notin NaNs
  <2>1. Span \in Nat /\ Span # 0 BY SpanAssumption
  <2> QED BY <2>1, RealAssumption
<1>4. Value(entry) = IF of \in NaNs THEN Cell("null", 0)
                     ELSE IF of = NegativeZero THEN Cell("real", 0)
                     ELSE Cell("real", of)
  <2>1. CASE of \in NaNs
    <3>1. IsReal(entry, NaNs) BY <1>1, <2>1 DEF IsReal
    <3>2. NegativeZero \notin NaNs BY RealAssumption
    <3>3. ~IsReal(entry, {NegativeZero}) BY <1>1, <2>1, <3>2 DEF IsReal
    <3> QED BY <2>1, <3>1, <3>3 DEF Value
  <2>2. CASE of \notin NaNs
    <3>1. ~IsReal(entry, NaNs) BY <1>1, <2>2 DEF IsReal
    <3>2. IsReal(entry, {NegativeZero}) <=> of = NegativeZero BY <1>1 DEF IsReal
    <3> QED BY <1>1, <2>2, <3>1, <3>2, SqlKinds DEF Value
  <2> QED BY <2>1, <2>2
<1>5. Cell("null", 0) \in Cells /\ \A n \in 0..Span - 1 : n \notin NaNs => Cell("real", n) \in Cells
  BY DEF Cell, Cells
<1>6. Value(entry) \in Cells BY <1>2, <1>3, <1>4, <1>5
<1> QED BY <1>1, <1>4, <1>6

LEMMA CellOf ==
    ASSUME NEW entry \in Entries, entry.variant \in Variants,
           entry.variant = VariantU64 => entry.value \in Signed64
    PROVE  Value(entry) \in Cells
<1>1. Typed(entry) /\ (entry.variant \in TextVariants => entry.value \in Texts)
  BY DEF Entries, TextVariants
<1>2. PICK variant, of : variant = entry.variant /\ of = entry.value OBVIOUS
<1>3. variant # VariantReal => Value(entry) = Cell(SqlKind(variant), of)
  BY <1>2 DEF Value, IsReal
<1>9. \A other \in TextVariants \cup {VariantNull, VariantI32, VariantU32, VariantBool, VariantI64, VariantU64} :
          other # VariantReal
  BY DEF TextVariants, VariantNull, VariantI32, VariantU32, VariantReal,
         VariantNVarChar, VariantBool, VariantI64, VariantU64, VariantText
<1>4. CASE variant = VariantNull
  <2>1. of = 0 BY <1>1, <1>2, <1>4 DEF Typed
  <2>2. Value(entry) = Cell("null", 0) BY <1>3, <1>4, <1>9, <2>1, SqlKinds
  <2> QED BY <2>2 DEF Cell, Cells
<1>5. CASE variant \in TextVariants
  <2>1. Value(entry) = Cell("text", of) BY <1>3, <1>5, <1>9, SqlKinds
  <2>2. of \in Texts BY <1>1, <1>2, <1>5
  <2> QED BY <2>1, <2>2 DEF Cell, Cells
<1>6. CASE variant = VariantReal BY <1>1, <1>2, <1>6, RealCell
<1>7. CASE variant \in {VariantI32, VariantU32, VariantBool, VariantI64, VariantU64}
  <2>1. \A n : n \in Signed32 \/ n \in 0..Span - 1 \/ n \in {0, 1} => n \in Signed64
    BY WidthAssumption, SpanAssumption DEF Signed32, Signed64
  <2>2. of \in Signed64 BY <1>1, <1>2, <1>7, <2>1 DEF Typed
  <2>3. Value(entry) = Cell("integer", of) BY <1>3, <1>7, <1>9, SqlKinds
  <2> QED BY <2>2, <2>3 DEF Cell, Cells
<1>8. variant \in {VariantNull, VariantReal, VariantI32, VariantU32, VariantBool, VariantI64, VariantU64}
                    \cup TextVariants
  BY <1>2 DEF Variants, TextVariants, VariantNull, VariantI32, VariantU32, VariantReal,
              VariantNVarChar, VariantBool, VariantI64, VariantU64, VariantText
<1> QED BY <1>4, <1>5, <1>6, <1>7, <1>8

LEMMA ColTypes == \A variant : toColType(variant) # "" => toColType(variant) \in SqlTypes
<1>1. \A variant : toColType(variant) \in
        {"INT32", "REAL", "TEXT4", "INT_BOOL", "INT64", "BLOB", "BLOB_NONE", ""}
  BY DEF toColType
<1> QED BY <1>1 DEF SqlTypes

HasColTypes(table) ==
    \A i \in 1..Len(table.columns) : toColType(table.columns[i].variant) # ""

LEMMA SqlTableType ==
    ASSUME NEW table \in Tables, NEW rs \in Seq(Rows),
           NEW read, read.columns = table.columns,
           \A i \in 1..Len(rs) : Inserts(read, rs[i]),
           HasColTypes(table)
    PROVE  /\ SqlTable(read, rs) \in SqlTables
           /\ SqlTable(read, rs).columns = SqlColumns(table)
           /\ Len(SqlTable(read, rs).rows) = Len(rs)
           /\ \A i \in 1..Len(rs) : SqlTable(read, rs).rows[i] = SqlRow(table, rs[i])
<1>1. PICK n, m, sql : n = Len(table.columns) /\ m = Len(rs) /\ sql = SqlTable(read, rs) OBVIOUS
<1>2. n \in Nat /\ m \in Nat BY <1>1 DEF Tables
<1>3. SqlColumns(read) = SqlColumns(table) BY DEF SqlColumns
<1>4. \A row : SqlRow(read, row) = SqlRow(table, row) BY DEF SqlRow
<1>5. sql = [columns |-> SqlColumns(table), rows |-> [i \in 1..m |-> SqlRow(table, rs[i])]]
  BY <1>1, <1>3, <1>4 DEF SqlTable
<1>6. SqlColumns(table) \in Seq([name : Texts, type : SqlTypes, pk : Nat])
      /\ Len(SqlColumns(table)) = n
  <2>1. ASSUME NEW i \in 1..n
        PROVE  SqlColumn(table.columns[i].name, toColType(table.columns[i].variant), 0)
                 \in [name : Texts, type : SqlTypes, pk : Nat]
    <3>1. table.columns \in Seq([variant : Nat, name : Texts]) BY DEF Tables
    <3>2. table.columns[i] \in [variant : Nat, name : Texts] BY <1>1, <3>1, ElementOf
    <3>3. toColType(table.columns[i].variant) \in SqlTypes BY <1>1, ColTypes DEF HasColTypes
    <3> QED BY <3>2, <3>3 DEF SqlColumn
  <2>2. SqlColumns(table) \in [1..n -> [name : Texts, type : SqlTypes, pk : Nat]]
    BY <1>1, <2>1 DEF SqlColumns
  <2> QED BY <1>2, <2>2, IsSequence
<1>7. ASSUME NEW i \in 1..m PROVE SqlRow(table, rs[i]) \in Seq(Cells) /\ Len(SqlRow(table, rs[i])) = n
  <2>1. PICK row : row = rs[i] OBVIOUS
  <2>2. row \in Seq(Entries) /\ Inserts(read, row)
    <3> HIDE DEF Rows
    <3>1. row \in Rows BY <1>1, <2>1, ElementOf
    <3> QED BY <1>1, <2>1, <3>1 DEF Rows
  <2>3. ASSUME NEW k \in 1..n PROVE Value(row[k]) \in Cells
    <3>1. /\ k <= Len(row) /\ row[k].variant \in Variants
          /\ row[k].variant = VariantU64 => row[k].value \in Signed64
      BY <1>1, <2>2 DEF Inserts
    <3>2. k \in 1..Len(row)
      <4>1. Len(row) \in Nat BY <2>2
      <4> QED BY <1>2, <3>1, <4>1
    <3>3. row[k] \in Entries BY <2>2, <3>2, ElementOf
    <3> QED BY <3>1, <3>3, CellOf
  <2>4. SqlRow(table, row) \in [1..n -> Cells] BY <1>1, <2>3 DEF SqlRow
  <2> QED BY <1>2, <2>1, <2>4, IsSequence
<1>8. [i \in 1..m |-> SqlRow(table, rs[i])] \in Seq(Seq(Cells))
      /\ Len([i \in 1..m |-> SqlRow(table, rs[i])]) = m
  BY <1>2, <1>7, IsSequence
<1>9. sql \in SqlTables
  <2>1. sql \in [columns : Seq([name : Texts, type : SqlTypes, pk : Nat]), rows : Seq(Seq(Cells))]
    BY <1>5, <1>6, <1>8
  <2>2. \A i \in 1..Len(sql.rows) : Len(sql.rows[i]) = Len(sql.columns)
    BY <1>5, <1>6, <1>7, <1>8
  <2> QED BY <2>1, <2>2 DEF SqlTables
<1>10. sql.columns = SqlColumns(table) /\ sql.rows = [i \in 1..m |-> SqlRow(table, rs[i])] BY <1>5
<1> QED BY <1>1, <1>8, <1>9, <1>10

(* A table that is committed has the rows its iteration has yielded.       *)
LEMMA YieldedRows ==
    ASSUME FileInvariant, rows.state = "ended", NEW t, t = rows.table
    PROVE  /\ reader.open /\ t \in 1..Len(tables) /\ rows.yielded \in Seq(Rows)
           /\ \E from \in [1..Len(rows.yielded) -> 1..Len(RowsOf(t))] :
                 /\ \A i \in 1..Len(rows.yielded) : rows.yielded[i] = RowsOf(t)[from[i]]
                 /\ \A i, j \in 1..Len(rows.yielded) : from[i] = from[j] => i = j
                 /\ rows.lost \/ \A k \in 1..Len(RowsOf(t)) : IsRead(from, k)
<1>1. PICK it : it = rows OBVIOUS
<1>2. Iterates(it) /\ it.state = "ended" /\ t = it.table
  BY <1>1 DEF FileInvariant, ReaderInvariant
<1>3. /\ reader.open /\ t \in 1..Len(tables) /\ it.yielded \in Seq(Rows)
      /\ \E place \in Placings(t), from \in [1..Len(it.yielded) -> 1..Len(RowsOf(t))] :
            Following(it, place, from)
  BY <1>2 DEF Iterates
<1>4. PICK place \in Placings(t), from \in [1..Len(it.yielded) -> 1..Len(RowsOf(t))] :
        Following(it, place, from)
  BY <1>3
<1>5. /\ Drawn(place, from, it.yielded, RowsOf(t))
      /\ it.lost \/ \A k \in 1..Len(RowsOf(t)) : IsRead(from, k)
  BY <1>2, <1>4 DEF Following
<1>6. /\ \A i \in 1..Len(it.yielded) : it.yielded[i] = RowsOf(t)[from[i]]
      /\ \A i, j \in 1..Len(it.yielded) : from[i] = from[j] => i = j
  BY <1>5 DEF Drawn
<1> QED BY <1>1, <1>3, <1>5, <1>6

Commits(t, sql) ==
    /\ t \in 1..Len(tables) /\ reader.open
    /\ tables[t].name \in Texts \ DOMAIN db
    /\ db' = [n \in DOMAIN db \cup {tables[t].name} |->
                 IF n = tables[t].name THEN sql ELSE db[n]]
    /\ sql \in SqlTables /\ Imported(t, sql)'

LEMMA CommitTable ==
    ASSUME GbInvariant, Commit, NEW t, t = conv.at, NEW sql,
           sql = SqlTable(reader.tables[t], rows.yielded)
    PROVE  Commits(t, sql)
<1>1. PICK read, table, got, name :
        /\ read = reader.tables[t] /\ table = tables[t] /\ got = rows.yielded
        /\ name = table.name
  OBVIOUS
<1>2. /\ conv.state = "insert" /\ rows.state = "ended" /\ Converting /\ FileInvariant
      /\ \A i \in 1..Len(got) : Inserts(read, got[i])
  BY <1>1 DEF GbInvariant, Commit, Iterated, Taken
<1>3. t \in 1..Len(tables) /\ reader.open /\ rows.table = t /\ Creatable(read)
  BY <1>1, <1>2 DEF Converting
<1>4. table \in Tables /\ read.name = name /\ read.columns = table.columns
  BY <1>1, <1>2, <1>3, OpenTables
<1>5. name \in Texts \ DOMAIN db BY <1>1, <1>3, <1>4 DEF Creatable, Tables
<1>6. table.columns # <<>> /\ HasColTypes(table) BY <1>3, <1>4 DEF Creatable, HasColTypes
<1>7. got \in Seq(Rows) BY <1>1, <1>2, <1>3, YieldedRows
<1>8. /\ sql \in SqlTables /\ sql.columns = SqlColumns(table) /\ Len(sql.rows) = Len(got)
      /\ \A i \in 1..Len(got) : sql.rows[i] = SqlRow(table, got[i])
  BY <1>1, <1>2, <1>4, <1>6, <1>7, SqlTableType
<1>9. UNCHANGED <<tables, source>> BY DEF Commit, vars, builder
<1>10. conv'.lost = conv.lost \cup (IF rows.lost THEN {t} ELSE {}) BY DEF Commit
<1>11. Imported(t, sql)'
  <2>1. PICK from \in [1..Len(got) -> 1..Len(RowsOf(t))] :
          /\ \A i \in 1..Len(got) : got[i] = RowsOf(t)[from[i]]
          /\ \A i, j \in 1..Len(got) : from[i] = from[j] => i = j
          /\ rows.lost \/ \A k \in 1..Len(RowsOf(t)) : IsRead(from, k)
    BY <1>1, <1>2, <1>3, YieldedRows
  <2>2. RowsOf(t)' = RowsOf(t) /\ tables'[t] = table BY <1>1, <1>9 DEF RowsOf
  <2>3. t \in conv'.lost \/ \A k \in 1..Len(RowsOf(t)) : IsRead(from, k) BY <1>10, <2>1
  <2>4. \A i \in 1..Len(sql.rows) : sql.rows[i] = SqlRow(table, RowsOf(t)[from[i]])
    BY <1>8, <2>1
  <2>5. \A i, j \in 1..Len(sql.rows) : from[i] = from[j] => i = j BY <1>8, <2>1
  <2>6. Copied(sql.rows, t, from)' BY <2>2, <2>3, <2>4, <2>5 DEF Copied, SqlRow, IsRead
  <2>7. from \in [1..Len(sql.rows) -> 1..Len(RowsOf(t))]' BY <1>8, <2>2
  <2>8. /\ tables'[t].columns # <<>>
        /\ \A i \in 1..Len(tables'[t].columns) : toColType(tables'[t].columns[i].variant) # ""
    BY <1>6, <2>2 DEF HasColTypes
  <2>9. (sql.columns = SqlColumns(tables[t]))' BY <1>8, <2>2 DEF SqlColumns
  <2> QED BY <2>6, <2>7, <2>8, <2>9 DEF Imported
<1>12. db' = [n \in DOMAIN db \cup {name} |-> IF n = name THEN sql ELSE db[n]]
  BY <1>1, <1>4 DEF Commit
<1> QED BY <1>1, <1>3, <1>5, <1>8, <1>11, <1>12 DEF Commits

LEMMA CommitStep ==
    ASSUME GbInvariant, Commit PROVE (IsDatabase(db) /\ Converting /\ Importing)'
<1>1. PICK t, sql, name : /\ t = conv.at /\ sql = SqlTable(reader.tables[t], rows.yielded)
                          /\ name = tables[t].name
  OBVIOUS
<1>2. /\ t \in 1..Len(tables) /\ reader.open /\ name \in Texts \ DOMAIN db
      /\ db' = [n \in DOMAIN db \cup {name} |-> IF n = name THEN sql ELSE db[n]]
      /\ sql \in SqlTables /\ Imported(t, sql)'
  <2>1. Commits(t, sql) BY <1>1, CommitTable
  <2> QED BY <1>1, <2>1 DEF Commits
<1>3. UNCHANGED <<tables, source, reader, before>>
  BY DEF Commit, vars, builder, cursors
<1>4. /\ DOMAIN conv' = DOMAIN Resting /\ conv'.at = t + 1 /\ conv'.state = From(t + 1)
      /\ conv.lost \subseteq conv'.lost
  BY <1>1 DEF Commit, Resting
<1>5. IsDatabase(db) /\ Importing /\ conv.state = "insert" BY DEF GbInvariant, Commit
<1>6. /\ Len(reader.tables) = Len(tables) /\ Len(tables) \in Nat
      /\ \A i \in 1..Len(tables) : reader.tables[i].name = tables[i].name
  BY <1>2, OpenTables DEF GbInvariant
<1>7. IsDatabase(db)'
  <2>1. IsFiniteSet(DOMAIN db') BY <1>2, <1>5, FS_AddElement DEF IsDatabase
  <2>2. \A n \in DOMAIN db' : n \in Texts /\ db'[n] \in SqlTables BY <1>2, <1>5 DEF IsDatabase
  <2> QED BY <2>1, <2>2 DEF IsDatabase, SqlTables, Cells
<1>8. Converting' BY <1>2, <1>3, <1>4, <1>6 DEF Converting, From, Resting
<1>9. Importing'
  <2>1. FileNames' = FileNames BY <1>3 DEF FileNames
  <2>2. name \in FileNames BY <1>1, <1>2, <1>6 DEF FileNames
  <2>3. t # 0 /\ t + 1 # 0 /\ t \in Nat BY <1>2, <1>6
  <2>4. /\ DOMAIN db = (DOMAIN before \ FileNames) \cup {tables[i].name : i \in 1..t - 1}
        /\ \A n \in DOMAIN db \ FileNames : db[n] = before[n]
        /\ \A i \in 1..t - 1 : Imported(i, db[tables[i].name])
    BY <1>1, <1>5, <2>3 DEF Importing
  <2>5. 1..(t + 1) - 1 = 1..t - 1 \cup {t} BY <2>3
  <2>6. DOMAIN db' = (DOMAIN before \ FileNames) \cup {tables[i].name : i \in 1..(t + 1) - 1}
    BY <1>1, <1>2, <2>4, <2>5
  <2>7. \A n \in DOMAIN db' \ FileNames : db'[n] = before[n] BY <1>2, <2>2, <2>4
  <2>8. ASSUME NEW i \in 1..(t + 1) - 1 PROVE Imported(i, db[tables[i].name])'
    <3>1. CASE i = t
      <4>1. db'[tables'[i].name] = sql BY <1>1, <1>2, <1>3, <3>1
      <4> QED BY <1>2, <3>1, <4>1
    <3>2. CASE i # t
      <4>1. i \in 1..t - 1 BY <2>5, <3>2
      <4>2. PICK table : table = db[tables[i].name] OBVIOUS
      <4>3. tables[i].name \in DOMAIN db BY <2>4, <4>1
      <4>4. db'[tables'[i].name] = table BY <1>2, <1>3, <4>2, <4>3
      <4>5. Imported(i, table)' BY <1>3, <1>4, <2>4, <4>1, <4>2, ImportedStays
      <4> QED BY <4>4, <4>5
    <3> QED BY <3>1, <3>2
  <2> QED BY <1>3, <1>4, <2>1, <2>3, <2>6, <2>7, <2>8 DEF Importing
<1> QED BY <1>7, <1>8, <1>9

LEMMA GbPreserved == GbInvariant /\ [GbNext]_gbvars => GbInvariant'
<1> SUFFICES ASSUME GbInvariant, [GbNext]_gbvars PROVE GbInvariant' OBVIOUS
<1>1. FileInvariant' BY GbFile
<1>2. (IsDatabase(db) /\ Converting /\ Importing)'
  <2>1. CASE Library \/ OtherProgram \/ WriteFdb(Options)
    <3>1. conv.state = "none" BY <2>1, NotConverting
    <3>2. UNCHANGED gb BY <2>1 DEF Library, OtherProgram, WriteFdb
    <3>3. db' = db /\ conv' = conv BY <3>2 DEF gb
    <3> QED BY <3>1, <3>3, AtRest DEF GbInvariant, Converting
  <2>2. CASE ReadFdb BY <2>2, ReadFdbStep
  <2>3. CASE DropTables BY <2>3, DropTablesStep
  <2>4. CASE CreateTable BY <2>4, CreateTableStep
  <2>5. CASE InsertRow BY <2>5, InsertRowStep
  <2>6. CASE Commit BY <2>6, CommitStep
  <2>7. CASE Refused \/ ImportStops
    <3>1. Running /\ Stops BY <2>7 DEF Refused, ImportStops, Running
    <3> QED BY <3>1, StopsStep
  <2>8. CASE Exit
    <3>1. db' = db /\ conv' = Resting BY <2>8 DEF Exit
    <3>2. conv'.state = "none" /\ DOMAIN conv' = DOMAIN Resting BY <3>1 DEF Resting
    <3> QED BY <3>1, <3>2, AtRest DEF GbInvariant
  <2>9. CASE UNCHANGED gbvars
    <3>1. UNCHANGED <<tables, source, reader, rows, db, conv, before>>
      BY <2>9 DEF gbvars, vars, builder, cursors, gb
    <3>2. IsDatabase(db) /\ Converting /\ Importing BY DEF GbInvariant
    <3>3. Converting' BY <3>1, <3>2 DEF Converting, Creatable
    <3>4. CASE conv.state = "none" BY <3>1, <3>2, <3>4, AtRest DEF Converting
    <3>5. CASE conv.state # "none" BY <3>1, <3>2, <3>3, <3>5, ImportingStays
    <3> QED BY <3>4, <3>5
  <2> QED BY <2>1, <2>2, <2>3, <2>4, <2>5, <2>6, <2>7, <2>8, <2>9 DEF GbNext, ImportStep
<1> QED BY <1>1, <1>2 DEF GbInvariant

LEMMA GbInitially == GbInit => GbInvariant
<1> SUFFICES ASSUME GbInit PROVE GbInvariant OBVIOUS
<1>1. Init /\ db \in Databases /\ conv = Resting BY DEF GbInit
<1>2. FileInvariant BY <1>1, Initially, ContentInitially, ReaderInitially DEF FileInvariant
<1>3. IsDatabase(db) BY <1>1, DatabaseAssumption
<1>4. conv.state = "none" /\ DOMAIN conv = DOMAIN Resting BY <1>1 DEF Resting
<1>5. Converting BY <1>4 DEF Converting
<1>6. Importing BY <1>4 DEF Importing
<1> QED BY <1>2, <1>3, <1>5, <1>6 DEF GbInvariant

(* Whatever files gb-fdb reads and writes, and wherever it stops: the file *)
(* that is open is as FileInvariant says, and the database holds, typed,   *)
(* the tables that fromFdb has committed and those it has left.            *)
THEOREM GbInvariantHolds == GbSpec => []GbInvariant
BY GbInitially, GbPreserved, PTL DEF GbSpec

(* What gb-fdb reads from a file, its own or another program's, is what was*)
(* built: pointers lead to their values, the tables are read back, Find    *)
(* and the order of rows hold with gb-fdb between file and database too.   *)
THEOREM FilesReadBack == GbSpec => [](PromisesKept /\ ReadsBack /\ FindFirst /\ EqualIdsInOrder)
<1>1. GbInvariant => PromisesKept /\ ReadsBack /\ FindFirst /\ EqualIdsInOrder
  <2> SUFFICES ASSUME GbInvariant PROVE PromisesKept /\ ReadsBack /\ FindFirst /\ EqualIdsInOrder
    OBVIOUS
  <2>1. WriterInvariant /\ ContentInvariant /\ ReaderInvariant
    BY DEF GbInvariant, FileInvariant
  <2>2. PromisesKept /\ FindFirst BY <2>1 DEF WriterInvariant, ReaderInvariant
  <2>3. ReadsBack BY <2>1, ReadsBackFromComplete DEF ReaderInvariant
  <2>4. EqualIdsInOrder BY <2>1, EqualIdsInOrderFromIterates
  <2> QED BY <2>2, <2>3, <2>4
<1> QED BY <1>1, GbInvariantHolds, PTL

LEMMA GbIteratesStep ==
    ASSUME GbInvariant, GbInvariant', [GbNext]_gbvars
    PROVE  [RowsPromise!Next]_RowsPromise!vars
<1>1. /\ WriterInvariant /\ ContentInvariant /\ ReaderInvariant /\ ReaderInvariant'
  BY DEF GbInvariant, FileInvariant
<1>2. CASE [Next]_vars BY <1>1, <1>2, IteratesAllStep
<1>3. CASE OtherProgram \/ WriteFdb(Options)
  <2>1. state = "idle" /\ UNCHANGED cursors
    BY <1>3 DEF OtherProgram, Build, BeginFlush, WriteFdb
  <2>2. ~reader.open /\ reader' = reader
    BY <1>1, <2>1 DEF ReaderInvariant, Complete, cursors
  <2>3. ~Sound' BY <2>2 DEF Sound
  <2> QED BY <2>3, BrokenOff
<1> QED BY <1>2, <1>3, LibraryOrWrites

(* The rows that createTable inserts are those RowSet yields: each step of *)
(* an iteration in fromFdb is one of RowSet, until a read fails.           *)
THEOREM ImportsIterateAll == GbSpec => IteratesAll
<1>1. GbInit => RowsPromise!Init BY IteratesAllInitially DEF GbInit
<1>2. GbInvariant /\ GbInvariant' /\ [GbNext]_gbvars => [RowsPromise!Next]_RowsPromise!vars
  BY GbIteratesStep
<1>3. GbSpec => GbInit /\ [][GbNext]_gbvars BY DEF GbSpec
<1> QED BY <1>1, <1>2, <1>3, GbInvariantHolds, PTL DEF IteratesAll, RowsPromise!Safety

(* What TablesWhole and ImportExports say of a committed table.            *)
LEMMA ImportedRows ==
    ASSUME GbInvariant, reader.open, NEW t \in 1..Len(tables), NEW table \in SqlTables,
           Imported(t, table), t \notin conv.lost
    PROVE  ToBag(table.rows) = ToBag(SqlTable(tables[t], RowsOf(t)).rows)
<1>1. PICK got, given, n : /\ got = table.rows /\ n = Len(RowsOf(t))
                           /\ given = [i \in 1..n |-> SqlRow(tables[t], RowsOf(t)[i])]
  OBVIOUS
<1>2. n \in Nat
  <2>1. RowsOf(t) \in Seq(Rows) BY OpenTables DEF GbInvariant
  <2> QED BY <1>1, <2>1
<1>3. got \in Seq(Seq(Cells)) BY <1>1, SqlTablesTyped DEF SqlTyped
<1>4. PICK from \in [1..Len(got) -> 1..n] :
        /\ \A i \in 1..Len(got) : got[i] = SqlRow(tables[t], RowsOf(t)[from[i]])
        /\ \A i, j \in 1..Len(got) : from[i] = from[j] => i = j
        /\ \A k \in 1..n : IsRead(from, k)
  BY <1>1 DEF Imported, Copied
<1>5. PICK S : S = {given[i] : i \in 1..n} OBVIOUS
<1>6. given \in Seq(S) /\ Len(given) = n
  <2>1. given \in [1..n -> S] BY <1>1, <1>5
  <2> QED BY <1>2, <2>1, IsSequence
<1>7. \A i \in 1..Len(got) : got[i] = given[from[i]] BY <1>1, <1>4
<1>8. got \in Seq(S)
  <2>1. \A i \in 1..Len(got) : got[i] \in S BY <1>5, <1>7
  <2>2. Len(got) \in Nat /\ got = [i \in 1..Len(got) |-> got[i]] BY <1>3
  <2>3. got \in [1..Len(got) -> S] BY <2>1, <2>2
  <2> QED BY <2>2, <2>3, IsSequence
<1>9. from \in [1..Len(got) -> 1..Len(given)] BY <1>6
<1>10. BagsDrawn(got, given, from) BY <1>4, <1>6, <1>7, <1>8, <1>9, BagDrawn
<1>11. ToBag(got) = ToBag(given) BY <1>4, <1>6, <1>10 DEF BagsDrawn
<1>12. SqlTable(tables[t], RowsOf(t)).rows = given BY <1>1 DEF SqlTable
<1> QED BY <1>1, <1>11, <1>12

LEMMA TablesWholeFromInvariant == GbInvariant => TablesWhole
<1> SUFFICES ASSUME GbInvariant, conv.state # "none"
             PROVE  IF conv.at = 0 THEN db = before
                    ELSE /\ DOMAIN db = (DOMAIN before \ FileNames)
                                            \cup {tables[t].name : t \in 1..conv.at - 1}
                         /\ \A n \in DOMAIN db \ FileNames : db[n] = before[n]
                         /\ \A t \in 1..conv.at - 1 :
                               LET table == tables[t]
                                   whole == SqlTable(table, RowsOf(t))
                               IN  /\ db[table.name].columns = whole.columns
                                   /\ t \in conv.lost \/ ToBag(db[table.name].rows) = ToBag(whole.rows)
  BY DEF TablesWhole
<1>1. reader.open /\ conv.at \in 0..Len(tables) + 1 /\ Importing /\ IsDatabase(db)
  BY DEF GbInvariant, Converting
<1>2. Len(tables) \in Nat BY <1>1, OpenTables DEF GbInvariant
<1>3. CASE conv.at = 0 BY <1>1, <1>3 DEF Importing
<1>4. CASE conv.at # 0
  <2>1. /\ DOMAIN db = (DOMAIN before \ FileNames) \cup {tables[t].name : t \in 1..conv.at - 1}
        /\ \A n \in DOMAIN db \ FileNames : db[n] = before[n]
        /\ \A t \in 1..conv.at - 1 : Imported(t, db[tables[t].name])
    BY <1>1, <1>4 DEF Importing
  <2>2. ASSUME NEW t \in 1..conv.at - 1
        PROVE  /\ db[tables[t].name].columns = SqlTable(tables[t], RowsOf(t)).columns
               /\ t \in conv.lost \/ ToBag(db[tables[t].name].rows)
                                       = ToBag(SqlTable(tables[t], RowsOf(t)).rows)
    <3>1. PICK table : table = db[tables[t].name] OBVIOUS
    <3>2. t \in 1..Len(tables) BY <1>1, <1>2
    <3>3. table \in SqlTables /\ Imported(t, table) BY <1>1, <2>1, <3>1 DEF IsDatabase
    <3>4. table.columns = SqlTable(tables[t], RowsOf(t)).columns
      BY <3>3 DEF Imported, SqlTable
    <3>5. t \notin conv.lost => ToBag(table.rows) = ToBag(SqlTable(tables[t], RowsOf(t)).rows)
      BY <1>1, <3>2, <3>3, ImportedRows
    <3> QED BY <3>1, <3>4, <3>5
  <2> QED BY <1>4, <2>1, <2>2
<1> QED BY <1>3, <1>4

(* Each table of a file is in the database whole, but for rows that Next   *)
(* has lost without an error, or not at all: whatever is in the file and   *)
(* in the database, and at whichever statement or read fromFdb stops.      *)
THEOREM TablesAreWhole == GbSpec => []TablesWhole
BY GbInvariantHolds, TablesWholeFromInvariant, PTL

(* Exporting a table whose columns have no key and are not excluded.       *)
LEMMA AllKept ==
    ASSUME NEW table, table.columns \in Seq([name : Texts, type : SqlTypes, pk : Nat]),
           NEW n, n = Len(table.columns)
    PROVE  Kept(table, {}) = [k \in 1..n |-> k]
<1>1. n \in Nat OBVIOUS
<1>2. Cardinality(1..n) = n BY <1>1, FS_Interval
<1>3. ASSUME NEW k \in 1..n
      PROVE  (CHOOSE i \in 1..n : Cardinality({j \in 1..n : j <= i}) = k) = k
  <2>1. ASSUME NEW i \in 1..n PROVE Cardinality({j \in 1..n : j <= i}) = i
    <3>1. {j \in 1..n : j <= i} = 1..i BY <1>1
    <3>2. Cardinality(1..i) = i BY <1>1, FS_Interval
    <3> QED BY <3>1, <3>2
  <2> QED BY <2>1
<1>4. PICK mine : mine = {i \in 1..n : table.columns[i].name \notin {}} OBVIOUS
<1>5. mine = 1..n BY <1>4
<1>6. Kept(table, {}) = [k \in 1..Cardinality(mine) |->
                            CHOOSE i \in mine : Cardinality({j \in mine : j <= i}) = k]
  BY <1>4 DEF Kept
<1>7. Kept(table, {}) = [k \in 1..n |->
                            CHOOSE i \in 1..n : Cardinality({j \in 1..n : j <= i}) = k]
  BY <1>2, <1>5, <1>6
<1> QED BY <1>3, <1>7

LEMMA BehindFirst ==
    ASSUME NEW S, NEW x \in S, NEW rest \in Seq(S), NEW k \in 2..Len(rest) + 1
    PROVE  (<<x>> \o rest)[k] = rest[k - 1]
OBVIOUS

LEMMA KeylessPicked ==
    ASSUME NEW table, table.columns \in Seq([name : Texts, type : SqlTypes, pk : Nat]),
           NEW n, n = Len(table.columns), n # 0, \A i \in 1..n : table.columns[i].pk = 0
    PROVE  /\ Picked(table, {}) = [k \in 1..n |-> k]
           /\ KeyIndex(table, Kept(table, {})) = 1 /\ Len(Kept(table, {})) = n
<1>1. PICK kept : kept = Kept(table, {}) OBVIOUS
<1>2. n \in Nat \ {0} OBVIOUS
<1>3. kept = [k \in 1..n |-> k] BY <1>1, AllKept
<1>4. kept \in Seq(Nat) /\ Len(kept) = n /\ kept # <<>> /\ kept[1] = 1 BY <1>2, <1>3
<1>5. KeyIndex(table, kept) = 1
  <2>1. ToSet(kept) = 1..n BY <1>3 DEF ToSet
  <2>2. {i \in ToSet(kept) : table.columns[i].pk = 1} = {} BY <2>1
  <2> QED BY <2>2 DEF KeyIndex
<1>6. <<kept[1]>> \o RemoveAt(kept, 1) = kept
  <2>1. RemoveAt(kept, 1) = SubSeq(kept, 1, 0) \o SubSeq(kept, 2, n) BY <1>4 DEF RemoveAt
  <2>2. SubSeq(kept, 1, 0) = <<>> BY <1>4
  <2>3. /\ SubSeq(kept, 2, n) \in Seq(Nat) /\ Len(SubSeq(kept, 2, n)) = n - 1
        /\ \A k \in 1..n - 1 : SubSeq(kept, 2, n)[k] = k + 1
    BY <1>2, <1>3, <1>4
  <2>4. RemoveAt(kept, 1) = SubSeq(kept, 2, n) BY <2>1, <2>2, <2>3
  <2>5. PICK rest, all : rest = SubSeq(kept, 2, n) /\ all = <<kept[1]>> \o rest OBVIOUS
  <2>6. /\ rest \in Seq(Nat) /\ Len(rest) = n - 1 /\ \A k \in 1..n - 1 : rest[k] = k + 1
    BY <2>3, <2>5
  <2>7. all \in Seq(Nat) /\ Len(all) = n BY <1>2, <1>4, <2>5, <2>6
  <2>8. \A k \in 1..n : all[k] = k
    <3> SUFFICES ASSUME NEW k \in 1..n PROVE all[k] = k OBVIOUS
    <3>1. CASE k = 1 BY <1>4, <2>5, <3>1
    <3>2. CASE k # 1
      <4>1. all[k] = rest[k - 1]
        <5>1. rest \in Seq(Nat) /\ kept[1] \in Nat BY <1>4, <2>6
        <5>2. k \in 2..Len(rest) + 1 BY <1>2, <2>6, <3>2
        <5>3. (<<kept[1]>> \o rest)[k] = rest[k - 1] BY <5>1, <5>2, BehindFirst
        <5> QED BY <2>5, <5>3
      <4>2. k - 1 \in 1..n - 1 BY <1>2, <3>2
      <4> QED BY <2>6, <4>1, <4>2
    <3> QED BY <3>1, <3>2
  <2>9. all = [k \in 1..n |-> all[k]] BY <2>7
  <2>10. all = [k \in 1..n |-> k] BY <2>8, <2>9
  <2> QED BY <1>3, <2>4, <2>5, <2>10
<1>7. Picked(table, {}) = <<kept[1]>> \o RemoveAt(kept, 1) BY <1>1, <1>4, <1>5 DEF Picked
<1> QED BY <1>1, <1>3, <1>4, <1>5, <1>6, <1>7

(* An entry comes back from a column of its variant, and null from any.    *)
LEMMA VariantsReturn ==
    \A variant : variant # VariantNull /\ toColType(variant) # "" =>
        toVariant(toColType(variant)) = variant
<1> SUFFICES ASSUME NEW variant, variant # VariantNull, toColType(variant) # ""
             PROVE  toVariant(toColType(variant)) = variant
  OBVIOUS
<1>1. variant \in {VariantI32, VariantReal, VariantNVarChar, VariantBool, VariantI64, VariantText}
  BY DEF toColType
<1> QED BY <1>1
     DEF toVariant, toColType, VariantNull, VariantI32, VariantReal, VariantNVarChar, VariantBool,
         VariantI64, VariantText

LEMMA EntryReturns ==
    ASSUME NEW entry \in Entries, NEW variant, entry.variant \in {variant, VariantNull},
           variant \in {VariantI32, VariantReal, VariantNVarChar, VariantBool, VariantI64, VariantText}
    PROVE  Scans(variant, Value(entry)) /\ Scan(variant, Value(entry)) = Returned(entry)
<1>1. PICK own, of : own = entry.variant /\ of = entry.value OBVIOUS
<1>2. Typed(entry) /\ entry = Entry(own, of) BY <1>1 DEF Entries, Entry
<1>3. own # VariantReal => Value(entry) = Cell(SqlKind(own), of) /\ Returned(entry) = entry
  BY <1>1 DEF Value, Returned, IsReal
<1>8. \A other \in TextVariants \cup {VariantNull, VariantI32, VariantBool, VariantI64} :
          other # VariantReal
  BY DEF TextVariants, VariantNull, VariantI32, VariantReal,
         VariantNVarChar, VariantBool, VariantI64, VariantText
<1>4. CASE own = VariantNull
  <2>1. of = 0 BY <1>1, <1>2, <1>4 DEF Typed
  <2>2. Value(entry) = Cell("null", 0) /\ Returned(entry) = entry
    BY <1>3, <1>4, <1>8, <2>1, SqlKinds
  <2> QED BY <1>2, <1>4, <2>1, <2>2 DEF Scans, Scan, Cell
<1>5. CASE own = variant /\ variant \in TextVariants
  <2>1. Value(entry) = Cell("text", of) /\ Returned(entry) = entry
    BY <1>3, <1>5, <1>8, SqlKinds
  <2>2. Scan(variant, Value(entry)) = Entry(variant, of) BY <2>1 DEF Scan, Cell
  <2> QED BY <1>2, <1>5, <2>1, <2>2 DEF Scans, Cell
<1>6. CASE own = variant /\ variant = VariantReal
  <2>1. Value(entry) = IF of \in NaNs THEN Cell("null", 0)
                       ELSE IF of = NegativeZero THEN Cell("real", 0) ELSE Cell("real", of)
    BY <1>1, <1>2, <1>6, RealCell
  <2>2. Scan(variant, Cell("null", 0)) = Entry(VariantNull, 0) BY DEF Scan, Cell
  <2>3. \A n : Scan(variant, Cell("real", n)) = Entry(variant, n) BY DEF Scan, Cell
  <2>4. Scans(variant, Cell("null", 0)) /\ \A n : Scans(variant, Cell("real", n))
    BY <1>6 DEF Scans, Cell
  <2>5. Returned(entry) = IF of \in NaNs THEN Entry(VariantNull, 0)
                          ELSE IF of = NegativeZero THEN Entry(variant, 0) ELSE Entry(variant, of)
    BY <1>1, <1>2, <1>6 DEF Returned, IsReal
  <2> QED BY <2>1, <2>2, <2>3, <2>4, <2>5
<1>7. CASE own = variant /\ variant \in {VariantI32, VariantBool, VariantI64}
  <2>1. Value(entry) = Cell("integer", of) /\ Returned(entry) = entry
    BY <1>3, <1>7, <1>8, SqlKinds
  <2>2. Scans(variant, Value(entry)) BY <1>7, <2>1 DEF Scans, Cell
  <2>3. CASE variant = VariantI32
    <3>1. of \in Signed32 BY <1>1, <1>2, <1>7, <2>3 DEF Typed
    <3>2. Signed(uint32(of), Span) = of
      BY <3>1, SpanAssumption DEF Signed, uint32, Signed32
    <3>3. Scan(variant, Value(entry)) = Entry(variant, Signed(uint32(of), Span))
      BY <2>1, <2>3 DEF Scan, Cell, VariantI32, VariantBool
    <3> QED BY <1>2, <1>7, <2>1, <2>2, <3>2, <3>3
  <2>4. CASE variant = VariantBool
    <3>1. of \in {0, 1} BY <1>1, <1>2, <1>7, <2>4 DEF Typed
    <3>2. Scan(variant, Value(entry)) = Entry(variant, IF of = 0 THEN 0 ELSE 1)
      BY <2>1, <2>4 DEF Scan, Cell, VariantI32, VariantBool
    <3> QED BY <1>2, <1>7, <2>1, <2>2, <3>1, <3>2
  <2>5. CASE variant = VariantI64
    <3>1. Scan(variant, Value(entry)) = Entry(variant, of)
      BY <2>1, <2>5 DEF Scan, Cell, VariantI32, VariantBool, VariantI64
    <3> QED BY <1>2, <1>7, <2>1, <2>2, <3>1
  <2> QED BY <1>7, <2>3, <2>4, <2>5
<1> QED BY <1>1, <1>4, <1>5, <1>6, <1>7 DEF TextVariants

(* The columns come back, where none is a column of nulls.                 *)
NoNulls(table) == \A k \in 1..Len(table.columns) : table.columns[k].variant # VariantNull

LEMMA ColumnsReturn ==
    ASSUME NEW given \in Tables, given.columns # <<>>, HasColTypes(given), NoNulls(given),
           NEW table, SqlTyped(table), table.columns = SqlColumns(given)
    PROVE  /\ Queried(table, {})
           /\ Picked(table, {}) = [k \in 1..Len(given.columns) |-> k]
           /\ ColumnsOf(table, Picked(table, {})) = given.columns
<1>1. PICK columns, sql, n : columns = given.columns /\ sql = table.columns /\ n = Len(columns)
  OBVIOUS
<1>2. /\ columns \in Seq([variant : Nat, name : Texts]) /\ columns # <<>>
      /\ sql \in Seq([name : Texts, type : SqlTypes, pk : Nat])
  BY <1>1 DEF Tables, SqlTyped
<1>3. n \in Nat \ {0} BY <1>1, <1>2
<1>4. sql = [k \in 1..n |-> SqlColumn(columns[k].name, toColType(columns[k].variant), 0)]
  BY <1>1 DEF SqlColumns
<1>5. Len(sql) = n BY <1>3, <1>4
<1>6. ASSUME NEW k \in 1..n
      PROVE  /\ sql[k].name = columns[k].name /\ sql[k].pk = 0
             /\ toVariant(sql[k].type) = columns[k].variant
             /\ columns[k].variant # VariantNull
  <2>1. sql[k].name = columns[k].name /\ sql[k].type = toColType(columns[k].variant) /\ sql[k].pk = 0
    BY <1>4 DEF SqlColumn
  <2>2. columns[k].variant # VariantNull /\ toColType(columns[k].variant) # ""
    BY <1>1 DEF NoNulls, HasColTypes
  <2> QED BY <2>1, <2>2, VariantsReturn
<1>7. PICK picked : picked = [k \in 1..n |-> k] OBVIOUS
<1>8. /\ Picked(table, {}) = picked
      /\ KeyIndex(table, Kept(table, {})) = 1 /\ Len(Kept(table, {})) = n
  <2>1. /\ table.columns \in Seq([name : Texts, type : SqlTypes, pk : Nat])
        /\ n = Len(table.columns) /\ n # 0
    BY <1>1, <1>2, <1>3, <1>5
  <2>2. \A i \in 1..n : table.columns[i].pk = 0 BY <1>1, <1>6
  <2>3. /\ Picked(table, {}) = [k \in 1..n |-> k]
        /\ KeyIndex(table, Kept(table, {})) = 1 /\ Len(Kept(table, {})) = n
    BY <2>1, <2>2, KeylessPicked
  <2> QED BY <1>7, <2>3
<1>9. Queried(table, {})
  <2>1. \A i \in 1..Len(sql) : toVariant(sql[i].type) # VariantNull /\ sql[i].pk \in {0, 1}
    BY <1>5, <1>6
  <2>2. 1 <= Max({1, n})
    <3>1. Max({1, n}) = n BY <1>3 DEF Max
    <3> QED BY <1>3, <3>1
  <2> QED BY <1>1, <1>8, <2>1, <2>2 DEF Queried
<1>10. ColumnsOf(table, picked) = columns
  <2>1. Len(picked) = n BY <1>3, <1>7
  <2>2. ColumnsOf(table, picked) =
          [k \in 1..n |-> Column(toVariant(sql[picked[k]].type), sql[picked[k]].name)]
    BY <1>1, <2>1 DEF ColumnsOf
  <2>3. ASSUME NEW k \in 1..n
        PROVE  Column(toVariant(sql[picked[k]].type), sql[picked[k]].name) = columns[k]
    <3>1. picked[k] = k BY <1>7
    <3>2. columns[k] \in [variant : Nat, name : Texts] BY <1>1, <1>2, ElementOf
    <3>3. columns[k] = Column(columns[k].variant, columns[k].name) BY <3>2 DEF Column
    <3> QED BY <1>6, <3>1, <3>3
  <2>4. columns = [k \in 1..n |-> columns[k]] BY <1>1, <1>2
  <2> QED BY <2>2, <2>3, <2>4
<1> QED BY <1>1, <1>7, <1>8, <1>9, <1>10

(* So does a row whose entries are of the columns' variants, or null.      *)
OfColumns(given, row) ==
    /\ Len(row) = Len(given.columns)
    /\ \A k \in 1..Len(row) : row[k].variant \in {given.columns[k].variant, VariantNull}
ReadBack(given, table, picked) ==
    /\ picked = [k \in 1..Len(given.columns) |-> k]
    /\ ColumnsOf(table, picked) = given.columns

LEMMA RowReturns ==
    ASSUME NEW given \in Tables, HasColTypes(given), NoNulls(given),
           NEW row \in Rows, OfColumns(given, row),
           NEW table, NEW picked, ReadBack(given, table, picked),
           NEW j, table.rows[j] = SqlRow(given, row)
    PROVE  Scanned(table, picked, j) /\ ScannedRow(table, picked, j) = ReturnedRow(row)
<1> DEFINE n == Len(given.columns)
<1> USE DEF OfColumns, ReadBack
<1>1. PICK columns, cells : columns = given.columns /\ cells = table.rows[j] OBVIOUS
<1>2. n \in Nat /\ Len(picked) = n
  <2>1. columns \in Seq([variant : Nat, name : Texts]) BY <1>1 DEF Tables
  <2> QED BY <1>1, <2>1
<1>3. cells = [k \in 1..n |-> Value(row[k])] BY <1>1 DEF SqlRow
<1>4. ASSUME NEW k \in 1..n
      PROVE  /\ Scans(columns[k].variant, cells[picked[k]])
             /\ Scan(columns[k].variant, cells[picked[k]]) = Returned(row[k])
  <2>1. PICK variant : variant = columns[k].variant OBVIOUS
  <2>2. variant # VariantNull /\ toColType(variant) # ""
    BY <1>1, <2>1 DEF HasColTypes, NoNulls
  <2>3. variant \in {VariantI32, VariantReal, VariantNVarChar, VariantBool, VariantI64, VariantText}
    BY <2>2 DEF toColType
  <2>4. row[k] \in Entries BY ElementOf DEF Rows
  <2>5. row[k].variant \in {variant, VariantNull} BY <1>1, <2>1
  <2>6. cells[picked[k]] = Value(row[k]) BY <1>3
  <2> QED BY <2>1, <2>3, <2>4, <2>5, <2>6, EntryReturns
<1>5. Scanned(table, picked, j) BY <1>1, <1>2, <1>4 DEF Scanned
<1>6. ScannedRow(table, picked, j) = [k \in 1..n |-> Returned(row[k])]
  BY <1>1, <1>2, <1>4 DEF ScannedRow
<1> QED BY <1>5, <1>6 DEF ReturnedRow

LEMMA ReturnedType ==
    ASSUME NEW rs \in Seq(Rows)
    PROVE  /\ ReturnedRows(rs) \in Seq(Rows) /\ Len(ReturnedRows(rs)) = Len(rs)
           /\ \A i \in 1..Len(rs) : ReturnedRows(rs)[i] = ReturnedRow(rs[i])
<1>1. ASSUME NEW entry \in Entries PROVE Returned(entry) \in Entries
  <2>1. 0 \in 0..Span - 1 BY SpanAssumption
  <2> QED BY <2>1, EntriesOfCells DEF Returned
<1>2. ASSUME NEW i \in 1..Len(rs) PROVE ReturnedRow(rs[i]) \in Rows
  <2>1. PICK row : row = rs[i] OBVIOUS
  <2>2. row \in Seq(Entries) BY <2>1, ElementOf DEF Rows
  <2>3. Len(row) \in Nat BY <2>2
  <2>4. \A k \in 1..Len(row) : row[k] \in Entries BY <2>2, ElementOf
  <2>5. [k \in 1..Len(row) |-> Returned(row[k])] \in [1..Len(row) -> Entries] BY <1>1, <2>4
  <2>6. [k \in 1..Len(row) |-> Returned(row[k])] \in Seq(Entries) BY <2>3, <2>5, IsSequence
  <2> QED BY <2>1, <2>6 DEF ReturnedRow, Rows
<1>3. Len(rs) \in Nat OBVIOUS
<1>4. ReturnedRows(rs) \in [1..Len(rs) -> Rows] BY <1>2 DEF ReturnedRows
<1>5. ReturnedRows(rs) \in Seq(Rows) /\ Len(ReturnedRows(rs)) = Len(rs) BY <1>3, <1>4, IsSequence
<1> QED BY <1>5 DEF ReturnedRows

(* What ImportExports says of a committed table.                           *)
LEMMA ExportedRows ==
    ASSUME GbInvariant, reader.open, NEW t \in 1..Len(tables), NEW table \in SqlTables,
           Imported(t, table), NEW read, read = ScannedRows(table, Picked(table, {})),
           Uniform(tables[t], RowsOf(t))
    PROVE  /\ Queried(table, {})
           /\ ColumnsOf(table, Picked(table, {})) = tables[t].columns
           /\ ~read.err
           /\ t \notin conv.lost => ToBag(read.rows) = ToBag(ReturnedRows(RowsOf(t)))
<1>1. PICK given, rs, n, picked :
        given = tables[t] /\ rs = RowsOf(t) /\ n = Len(given.columns) /\ picked = Picked(table, {})
  OBVIOUS
<1>2. /\ given \in Tables /\ given.columns # <<>> /\ HasColTypes(given)
      /\ rs \in Seq(Rows) /\ \A i \in 1..Len(rs) : Len(rs[i]) = n
  <2>1. given.columns # <<>> /\ HasColTypes(given) BY <1>1 DEF Imported, HasColTypes
  <2> QED BY <1>1, <2>1, OpenTables DEF GbInvariant
<1>3. NoNulls(given) BY <1>1 DEF Uniform, NoNulls
<1>4. SqlTyped(table) BY SqlTablesTyped
<1>5. /\ Queried(table, {}) /\ picked = [k \in 1..n |-> k]
      /\ ColumnsOf(table, picked) = given.columns
  <2>1. table.columns = SqlColumns(given) BY <1>1 DEF Imported
  <2> QED BY <1>1, <1>2, <1>3, <1>4, <2>1, ColumnsReturn
<1>6. PICK m : m = Len(table.rows) OBVIOUS
<1>7. m \in Nat BY <1>4, <1>6 DEF SqlTyped
<1>8. PICK from \in [1..m -> 1..Len(rs)] :
        /\ \A i \in 1..m : table.rows[i] = SqlRow(given, rs[from[i]])
        /\ \A i, j \in 1..m : from[i] = from[j] => i = j
        /\ t \in conv.lost \/ \A k \in 1..Len(rs) : IsRead(from, k)
  BY <1>1, <1>6 DEF Imported, Copied
<1>9. ASSUME NEW j \in 1..m
      PROVE  Scanned(table, picked, j) /\ ScannedRow(table, picked, j) = ReturnedRow(rs[from[j]])
  <2>1. PICK i \in 1..Len(rs) : i = from[j] BY <1>8
  <2>2. PICK row : row = rs[i] OBVIOUS
  <2>3. row \in Rows /\ Len(row) = n BY <1>2, <2>2, ElementOf
  <2>4. \A k \in 1..n : row[k].variant \in {given.columns[k].variant, VariantNull}
    BY <1>1, <2>2 DEF Uniform
  <2>5. table.rows[j] = SqlRow(given, row) BY <1>8, <2>1, <2>2
  <2>6. OfColumns(given, row) /\ ReadBack(given, table, picked)
    BY <1>1, <1>5, <2>3, <2>4 DEF OfColumns, ReadBack
  <2>7. Scanned(table, picked, j) /\ ScannedRow(table, picked, j) = ReturnedRow(row)
    BY <1>2, <1>3, <2>3, <2>5, <2>6, RowReturns
  <2> QED BY <2>1, <2>2, <2>7
<1>10. picked \in Seq(1..Len(table.columns))
  <2>1. Len(table.columns) = n /\ n \in Nat
    <3>1. given.columns \in Seq([variant : Nat, name : Texts]) BY <1>2 DEF Tables
    <3>2. n \in Nat BY <1>1, <3>1
    <3>3. table.columns = SqlColumns(given) BY <1>1 DEF Imported
    <3>4. PICK sql : sql = table.columns OBVIOUS
    <3>5. sql = [i \in 1..n |->
                   SqlColumn(given.columns[i].name, toColType(given.columns[i].variant), 0)]
      BY <1>1, <3>3, <3>4 DEF SqlColumns
    <3>6. Len(sql) = n BY <3>2, <3>5
    <3> QED BY <3>2, <3>4, <3>6
  <2> QED BY <1>5, <2>1, IsSequence
<1>11. PICK end \in 0..m : /\ read.rows = [j \in 1..end |-> ScannedRow(table, picked, j)]
                           /\ end = m /\ ~read.err
  BY <1>1, <1>4, <1>6, <1>9, <1>10, ScannedUpTo
<1>14. PICK back : back = ReturnedRows(rs) OBVIOUS
<1>15. /\ back \in Seq(Rows) /\ Len(back) = Len(rs)
       /\ \A i \in 1..Len(rs) : back[i] = ReturnedRow(rs[i])
  BY <1>2, <1>14, ReturnedType
<1>12. read.rows = [j \in 1..m |-> back[from[j]]]
  <2>1. \A j \in 1..m : from[j] \in 1..Len(rs) BY <1>8
  <2>2. \A j \in 1..m : ScannedRow(table, picked, j) = back[from[j]] BY <1>9, <1>15, <2>1
  <2> QED BY <1>11, <2>2
<1>13. ASSUME t \notin conv.lost PROVE ToBag(read.rows) = ToBag(back)
  <2>1. PICK got : got = read.rows OBVIOUS
  <2>2. got \in [1..m -> Rows] BY <1>8, <1>12, <1>15, <2>1, ElementOf
  <2>3. got \in Seq(Rows) /\ Len(got) = m BY <1>7, <2>2, IsSequence
  <2>4. \A i \in 1..m : got[i] = back[from[i]] BY <1>12, <2>1
  <2>5. from \in [1..Len(got) -> 1..Len(back)] BY <1>8, <1>15, <2>3
  <2>6. \A i, j \in 1..Len(got) : from[i] = from[j] => i = j BY <1>8, <2>3
  <2>7. \A i \in 1..Len(got) : got[i] = back[from[i]] BY <2>3, <2>4
  <2>8. BagsDrawn(got, back, from) BY <1>15, <2>3, <2>5, <2>6, <2>7, BagDrawn
  <2>9. \A k \in 1..Len(back) : IsRead(from, k) BY <1>8, <1>13, <1>15
  <2> QED BY <2>1, <2>3, <2>8, <2>9 DEF BagsDrawn
<1> QED BY <1>1, <1>5, <1>11, <1>13, <1>14

LEMMA ImportExportsFromInvariant == GbInvariant => ImportExports
<1> SUFFICES ASSUME GbInvariant, conv.state = "done", NEW t \in 1..Len(tables),
                    Uniform(tables[t], RowsOf(t)), NEW table, table = db[tables[t].name]
             PROVE  /\ Queried(table, {})
                    /\ ColumnsOf(table, Picked(table, {})) = tables[t].columns
                    /\ ~ScannedRows(table, Picked(table, {})).err
                    /\ t \in conv.lost
                         \/ ToBag(ScannedRows(table, Picked(table, {})).rows)
                              = ToBag(ReturnedRows(RowsOf(t)))
  BY DEF ImportExports
<1>1. /\ reader.open /\ conv.at = Len(tables) + 1 /\ Importing /\ IsDatabase(db)
  BY DEF GbInvariant, Converting
<1>2. Len(tables) \in Nat BY <1>1, OpenTables DEF GbInvariant
<1>3. conv.at # 0 /\ t \in 1..conv.at - 1 BY <1>1, <1>2
<1>4. Imported(t, table) /\ tables[t].name \in DOMAIN db BY <1>1, <1>3 DEF Importing
<1>5. table \in SqlTables BY <1>1, <1>4 DEF IsDatabase
<1>6. PICK read : read = ScannedRows(table, Picked(table, {})) OBVIOUS
<1> QED BY <1>1, <1>4, <1>5, <1>6, ExportedRows

(* A file that fromFdb has taken into a database is given back by toFdb,   *)
(* its columns and its rows, wherever the entries have the types of their  *)
(* columns, with null for a NaN and 0.0 for -0.0: for every file and every *)
(* database.                                                               *)
THEOREM ImportsExport == GbSpec => []ImportExports
BY GbInvariantHolds, ImportExportsFromInvariant, PTL
=============================================================================
