----------------------------- MODULE FdbProofs ------------------------------
(***************************************************************************)
(* What building a file does, for any tables and rows. First the types of  *)
(* rows, buckets and jobs, and what writes do to the fields of a file;     *)
(* then that every step preserves WriterInvariant, so every pointer leads  *)
(* to the value it was promised for; then that every step preserves        *)
(* ContentInvariant, so a file that is complete holds what was built.      *)
(***************************************************************************)
EXTENDS FdbContent, FiniteSetTheorems, WellFoundedInduction, TLAPS

LEMMA Least ==
    ASSUME NEW S \in SUBSET Nat, S # {}
    PROVE  \E x \in S : \A y \in S : x <= y
<1> DEFINE R == OpToRel(<, Nat)
<1>1. IsWellFoundedOn(R, Nat) BY NatLessThanWellFounded
<1> HIDE DEF R
<1>2. PICK x \in S : \A y \in S : <<y, x>> \notin R BY <1>1, WFMin
<1>3. ASSUME NEW y \in S PROVE x <= y
  <2> SUFFICES ASSUME ~(x <= y) PROVE FALSE OBVIOUS
  <2>1. x \in Nat /\ y \in Nat /\ y < x OBVIOUS
  <2>2. <<y, x>> \in R BY <2>1 DEF R, OpToRel
  <2> QED BY <1>2, <2>2
<1> QED BY <1>3

(* A number of buckets divides Span, up to which there is one.             *)
LEMMA bitCeilDivides ==
    ASSUME NEW n \in 0..Span
    PROVE  /\ bitCeil(n) \in Nat /\ n <= bitCeil(n)
           /\ n = 0 => bitCeil(n) = 0
           /\ n # 0 => bitCeil(n) # 0 /\ Span % bitCeil(n) = 0
<1> DEFINE Good(c) == Span % c = 0 /\ \A d \in n..c - 1 : Span % d # 0
           S == {c \in n..Span : Span % c = 0}
<1>0. Span \in Nat /\ n \in Nat BY SpanAssumption
<1>1. CASE n = 0 BY <1>1 DEF bitCeil
<1>2. CASE n # 0
  <2>1. Span % Span = 0 BY <1>0, <1>2
  <2>2. Span \in S BY <1>0, <2>1
  <2>3. S \in SUBSET Nat BY <1>0
  <2>4. PICK c \in S : \A y \in S : c <= y BY <2>2, <2>3, Least
  <2>5. c \in n..Span /\ Span % c = 0 OBVIOUS
  <2>6. ASSUME NEW d \in n..c - 1, Span % d = 0 PROVE FALSE
    <3>1. d \in n..Span /\ ~(c <= d) BY <1>0, <2>5
    <3>2. d \in S BY <2>6, <3>1
    <3> QED BY <2>4, <3>1, <3>2
  <2>7. Good(c) BY <2>5, <2>6
  <2>8. bitCeil(n) = CHOOSE x \in n..Span : Good(x) BY <1>2 DEF bitCeil
  <2> HIDE DEF Good
  <2>9. bitCeil(n) \in n..Span /\ Good(bitCeil(n)) BY <2>5, <2>7, <2>8
  <2> QED BY <1>0, <1>2, <2>9 DEF Good
<1> QED BY <1>1, <1>2

LEMMA Remainders ==
    ASSUME NEW n \in Int
    PROVE  /\ uint32(n) \in 0..Span - 1 /\ n % LongSpan \in 0..LongSpan - 1
           /\ uint32(n) \in Nat /\ n % LongSpan \in Nat /\ n % LongSpan \in Int
BY SpanAssumption DEF uint32

(* Rows that have a key, as collectBuckets demands.                        *)
LEMMA IdType ==
    ASSUME NEW row \in Rows, row # <<>>, HasId(row)
    PROVE  Id(row) \in Int /\ Key(row) \in 0..Span - 1
<1>1. row[1] \in Entries BY DEF Rows
<1>2. CASE row[1].variant \in TextVariants
  <2>1. row[1].value \in Texts BY <1>1, <1>2 DEF Entries
  <2>2. Id(row) = Hash[row[1].value] BY <1>2 DEF Id
  <2>3. Id(row) \in Int BY <2>1, <2>2, HashAssumption
  <2> QED BY <2>3, Remainders DEF Key
<1>3. CASE row[1].variant \notin TextVariants
  <2>1. row[1].value \in Int BY <1>1, <1>3 DEF Entries
  <2>2. row[1].value % LongSpan \in Int BY <2>1, Remainders
  <2>3. Id(row) = int(row[1].value) BY <1>3 DEF Id
  <2>4. Id(row) \in Int BY <2>2, <2>3, SpanAssumption DEF int, Signed
  <2> QED BY <2>4, Remainders DEF Key
<1> QED BY <1>2, <1>3

LEMMA KeysFinite ==
    ASSUME NEW rs \in Seq(Rows), Identified(rs)
    PROVE  IsFiniteSet(Keys(rs)) /\ Cardinality(Keys(rs)) \in 0..Span
<1>1. Keys(rs) \subseteq 0..Span - 1
  <2> SUFFICES ASSUME NEW i \in 1..Len(rs) PROVE Key(rs[i]) \in 0..Span - 1 BY DEF Keys
  <2>1. rs[i] \in Rows /\ rs[i] # <<>> /\ HasId(rs[i]) BY DEF Identified
  <2> QED BY <2>1, IdType
<1>2. Span \in Nat /\ Span > 16 BY SpanAssumption
<1>3. IsFiniteSet(0..Span - 1) /\ Cardinality(0..Span - 1) = Span
  BY <1>2, FS_Interval
<1>4. IsFiniteSet(Keys(rs)) /\ Cardinality(Keys(rs)) <= Span BY <1>1, <1>3, FS_Subset
<1>5. Cardinality(Keys(rs)) \in Nat BY <1>4, FS_CardinalityType
<1> QED BY <1>2, <1>4, <1>5

LEMMA ListType ==
    ASSUME NEW rs \in Seq(Rows), NEW mine \in SUBSET (1..Len(rs)), NEW order \in Orders(rs, mine)
    PROVE  InOrder(rs, order) \in Seq(Rows)
<1>1. Cardinality(mine) \in Nat
  <2>1. IsFiniteSet(1..Len(rs)) BY FS_Interval
  <2> QED BY <2>1, FS_Subset, FS_CardinalityType
<1>2. order \in [1..Cardinality(mine) -> mine] BY DEF Orders
<1>3. \A k \in 1..Cardinality(mine) : rs[order[k]] \in Rows
  <2> TAKE k \in 1..Cardinality(mine)
  <2>1. order[k] \in 1..Len(rs) BY <1>2
  <2> QED BY <2>1
<1> QED BY <1>1, <1>2, <1>3 DEF InOrder

LEMMA BucketsType ==
    ASSUME NEW rs \in Seq(Rows), Identified(rs), NEW buckets \in Buckets(rs)
    PROVE  buckets \in Seq(Seq(Rows))
<1> DEFINE n == bitCeil(Cardinality(Keys(rs)))
           Mine(b) == InBucket(rs, n, b - 1)
           ListsOf(b) == {InOrder(rs, p) : p \in Orders(rs, Mine(b))}
<1>1. n \in Nat BY KeysFinite, bitCeilDivides
<1>2. /\ DOMAIN buckets = 1..n /\ buckets = [b \in 1..n |-> buckets[b]]
      /\ \A b \in 1..n : buckets[b] \in ListsOf(b)
  BY DEF Buckets
<1>3. \A b \in 1..n : buckets[b] \in Seq(Rows)
  <2> TAKE b \in 1..n
  <2>1. Mine(b) \in SUBSET (1..Len(rs)) BY DEF InBucket
  <2>2. PICK p \in Orders(rs, Mine(b)) : buckets[b] = InOrder(rs, p) BY <1>2
  <2> QED BY <2>1, <2>2, ListType
<1>4. buckets = [b \in 1..n |-> buckets[b]] BY <1>2
<1> HIDE DEF n, Mine, ListsOf
<1> QED BY <1>1, <1>3, <1>4

LEMMA CollectsIdentified ==
    ASSUME NEW t \in Tables, t.columns # <<>>, source[t.name].rows \in Seq(Rows), Collects(t)
    PROVE  Identified(source[t.name].rows)
<1> DEFINE rs == source[t.name].rows
<1> SUFFICES ASSUME NEW i \in 1..Len(rs) PROVE rs[i] # <<>> /\ HasId(rs[i]) BY DEF Identified
<1>1. Len(rs[i]) = Len(t.columns) /\ HasId(rs[i]) BY DEF Collects, Fits
<1>2. Len(t.columns) # 0 BY DEF Tables
<1> QED BY <1>1, <1>2

LEMMA Concatenated == ASSUME NEW S, NEW a \in Seq(S), NEW b \in Seq(S) PROVE a \o b \in Seq(S)
OBVIOUS

LEMMA PairsType ==
    ASSUME NEW n \in Nat, NEW f, NEW g,
           \A i \in 1..n : f[i] \in Items /\ g[i] \in Items
    PROVE  [i \in 1..2 * n |-> IF i % 2 = 1 THEN f[(i + 1) \div 2] ELSE g[i \div 2]] \in Seq(Items)
<1>1. ASSUME NEW i \in 1..2 * n
      PROVE  (IF i % 2 = 1 THEN f[(i + 1) \div 2] ELSE g[i \div 2]) \in Items
  <2>1. CASE i % 2 = 1
    <3>1. (i + 1) \div 2 \in 1..n BY <2>1
    <3> QED BY <2>1, <3>1
  <2>2. CASE i % 2 # 1
    <3>1. i \div 2 \in 1..n BY <2>2
    <3> QED BY <2>2, <3>1
  <2> QED BY <2>1, <2>2
<1> QED BY <1>1

LEMMA DescriptionType == ASSUME NEW t \in Tables PROVE DescriptionOf(t) \in Seq(Items)
<1> DEFINE n == Len(t.columns)
           f == [i \in 1..n |-> Word(t.columns[i].variant)]
           g == [i \in 1..n |-> Text(t.columns[i].name)]
<1>1. t.columns \in Seq([variant : Nat, name : Texts]) /\ t.name \in Texts BY DEF Tables
<1>2. n \in Nat /\ \A i \in 1..n : t.columns[i] \in [variant : Nat, name : Texts]
  <2> DEFINE columns == t.columns
             S == [variant : Nat, name : Texts]
  <2>1. columns \in Seq(S) BY <1>1
  <2> HIDE DEF columns, S
  <2>2. Len(columns) \in Nat /\ \A i \in 1..Len(columns) : columns[i] \in S BY <2>1
  <2> QED BY <2>2 DEF columns, S
<1>3. \A i \in 1..n : f[i] \in Items /\ g[i] \in Items
  BY <1>2 DEF Items, Values, Word, Text
<1>4. [i \in 1..2 * n |-> IF i % 2 = 1 THEN f[(i + 1) \div 2] ELSE g[i \div 2]] \in Seq(Items)
  <2> HIDE DEF f, g, n
  <2> QED BY <1>2, <1>3, PairsType
<1>5. Pairs(n, f, g) = [i \in 1..2 * n |-> IF i % 2 = 1 THEN f[(i + 1) \div 2] ELSE g[i \div 2]]
  BY DEF Pairs
<1>6. <<Word(n), Text(t.name), Pointer>> \in Seq(Items)
  BY <1>1, <1>2 DEF Items, Values, Word, Text, Pointer
<1>7. DescriptionOf(t) = <<Word(n), Text(t.name), Pointer>> \o
        [i \in 1..2 * n |-> IF i % 2 = 1 THEN f[(i + 1) \div 2] ELSE g[i \div 2]]
  BY <1>5 DEF DescriptionOf
<1> HIDE DEF f, g, n
<1> QED BY <1>4, <1>6, <1>7, Concatenated

LEMMA RowType == ASSUME NEW row \in Rows, Writes(row) PROVE RowOf(row) \in Seq(Items)
<1> DEFINE n == Len(row)
           f == [i \in 1..n |-> Word(row[i].variant)]
           g == [i \in 1..n |-> Payload(row[i])]
<1>1. n \in Nat BY DEF Rows
<1>2. ASSUME NEW i \in 1..n PROVE f[i] \in Items /\ g[i] \in Items
  <2>1. row[i] \in [variant : TextVariants, value : Texts]
                     \cup [variant : Nat \ TextVariants, value : Int]
    BY DEF Rows, Entries
  <2>2. f[i] \in Items
    BY <2>1 DEF Items, Word, TextVariants, VariantNVarChar, VariantText
  <2>3. CASE row[i].variant \in TextVariants
    <3>1. row[i].value \in Texts BY <2>1, <2>3
    <3>2. row[i].variant # VariantNull /\ row[i].variant \notin LongVariants
      BY <2>3 DEF TextVariants, LongVariants, VariantNull, VariantNVarChar, VariantText, VariantI64, VariantU64
    <3>3. Payload(row[i]) = Text(row[i].value) BY <2>3, <3>2 DEF Payload
    <3> QED BY <2>2, <3>1, <3>3 DEF Text, Items, Values
  <2>4. CASE row[i].variant \notin TextVariants
    <3>1. row[i].value \in Int BY <2>1, <2>4
    <3>2. uint32(row[i].value) \in Nat /\ row[i].value % LongSpan \in Nat BY <3>1, Remainders
    <3>3. Payload(row[i]) \in Items
      <4>1. Word(0) \in Items BY DEF Word, Items
      <4>2. Word(uint32(row[i].value)) \in Items BY <3>2 DEF Word, Items
      <4>3. Long(row[i].value % LongSpan) \in Items BY <3>2 DEF Long, Items, Values
      <4> QED BY <4>1, <4>2, <4>3, <2>4 DEF Payload
    <3> QED BY <2>2, <3>3
  <2> QED BY <2>3, <2>4
<1>3. [i \in 1..2 * n |-> IF i % 2 = 1 THEN f[(i + 1) \div 2] ELSE g[i \div 2]] \in Seq(Items)
  <2> HIDE DEF f, g, n
  <2> QED BY <1>1, <1>2, PairsType
<1>4. Pairs(n, f, g) = [i \in 1..2 * n |-> IF i % 2 = 1 THEN f[(i + 1) \div 2] ELSE g[i \div 2]]
  BY DEF Pairs
<1>5. <<Word(n), Pointer>> \in Seq(Items) BY <1>1 DEF Items, Values, Word, Pointer
<1>6. RowOf(row) = <<Word(n), Pointer>> \o
        [i \in 1..2 * n |-> IF i % 2 = 1 THEN f[(i + 1) \div 2] ELSE g[i \div 2]]
  BY <1>4 DEF RowOf
<1> HIDE DEF f, g, n
<1> QED BY <1>3, <1>5, <1>6, Concatenated

LEMMA JobsTypes ==
    /\ \A t \in Tables : Job("description", t) \in Jobs
    /\ \A t \in Tables : t.name \in DOMAIN source => Job("rows", t) \in Jobs
    /\ \A b \in Seq(Rows) : Job("bucket", b) \in Jobs
    /\ \A r \in Rows : Job("row", r) \in Jobs
BY DEF Job, Jobs

(* What the element at work has been given.                                *)
LEMMA GivenTypes ==
    ASSUME NEW kind, Due(kind), BuilderTypeOK, Nested
    PROVE  /\ Given = Head(Inner.work).given
           /\ kind = "description" => Given \in Tables
           /\ kind = "rows" => Given \in Tables /\ Given.name \in DOMAIN source
           /\ kind = "bucket" => Given \in Seq(Rows)
           /\ kind = "row" => Given \in Rows
<1>1. calls \in Seq(Calls) /\ calls # <<>> BY DEF BuilderTypeOK, Nested, Due
<1>2. Inner \in Calls BY <1>1 DEF Inner
<1>3. Inner.work \in Seq(Jobs) /\ Inner.work # <<>> BY <1>2 DEF Calls, Due
<1>4. Head(Inner.work) \in Jobs /\ Head(Inner.work).job = kind BY <1>3 DEF Due
<1> QED BY <1>4 DEF Jobs, Given

(* Words that are put where the file ends.                                 *)
LEMMA Appending ==
    ASSUME NEW f, NEW end \in Nat, LaidOut(f, end), NEW words, Len(words) \in Nat
    PROVE  LET g == PatchedWords(f, end, words)
               n == Len(words)
           IN  /\ end \notin DOMAIN f /\ DOMAIN f \subseteq DOMAIN g
               /\ \A p \in DOMAIN f : g[p] = f[p]
               /\ \A i \in 1..n : /\ end + 4 * (i - 1) \in DOMAIN g
                                  /\ g[end + 4 * (i - 1)] = Field(Word(words[i]), 4)
               /\ LaidOut(g, end + 4 * n)
<1> DEFINE g == PatchedWords(f, end, words)
           n == Len(words)
           new == {end + 4 * (i - 1) : i \in 1..n}
<1>1. n \in Nat OBVIOUS
<1>2. Untouched(f, end, 4 * n) = DOMAIN f BY <1>1 DEF Untouched, LaidOut
<1>3. \A p \in DOMAIN f : p \notin new /\ p \in Nat BY <1>1 DEF LaidOut
<1>4. /\ DOMAIN g = DOMAIN f \cup new
      /\ \A p \in DOMAIN f : g[p] = f[p]
      /\ \A p \in new : g[p] = Field(Word(words[(p - end) \div 4 + 1]), 4)
  BY <1>2, <1>3 DEF PatchedWords
<1>5. \A i \in 1..n : g[end + 4 * (i - 1)] = Field(Word(words[i]), 4)
  <2> TAKE i \in 1..n
  <2>1. ((end + 4 * (i - 1)) - end) \div 4 + 1 = i BY <1>1
  <2> QED BY <1>4, <2>1
<1>6. \A p \in new : g[p].size = 4 /\ p \in Nat /\ p >= end /\ p + 4 <= end + 4 * n
  <2> TAKE p \in new
  <2>1. PICK i \in 1..n : p = end + 4 * (i - 1) OBVIOUS
  <2> HIDE DEF g
  <2>2. g[p].size = 4
    <3>1. g[p] = Field(Word(words[i]), 4) BY <1>5, <2>1
    <3> QED BY <3>1 DEF Field
  <2> QED BY <1>1, <2>1, <2>2
<1>7. \A p \in DOMAIN g : p \in Nat /\ g[p].size \in Nat \ {0} /\ p + g[p].size <= end + 4 * n
  BY <1>1, <1>4, <1>6 DEF LaidOut
<1>8. ASSUME NEW p \in DOMAIN g, NEW q \in DOMAIN g, p < q PROVE p + g[p].size <= q
  <2>1. CASE p \in DOMAIN f /\ q \in DOMAIN f BY <1>4, <1>8, <2>1 DEF LaidOut
  <2>2. CASE p \in DOMAIN f /\ q \in new BY <1>4, <1>6, <2>2 DEF LaidOut
  <2>3. CASE p \in new /\ q \in DOMAIN f BY <1>4, <1>6, <1>8, <2>3 DEF LaidOut
  <2>4. CASE p \in new /\ q \in new
    <3>1. PICK i \in 1..n, j \in 1..n : p = end + 4 * (i - 1) /\ q = end + 4 * (j - 1) BY <2>4
    <3>2. i < j BY <1>1, <1>8, <3>1
    <3>3. p + 4 <= q BY <1>1, <3>1, <3>2
    <3> QED BY <1>6, <2>4, <3>3
  <2> QED BY <1>4, <2>1, <2>2, <2>3, <2>4
<1>9. LaidOut(g, end + 4 * n) BY <1>7, <1>8 DEF LaidOut
<1>10. end \notin DOMAIN f BY DEF LaidOut
<1> QED BY <1>4, <1>5, <1>9, <1>10

(* A word that is put where one stands.                                    *)
LEMMA Overwriting ==
    ASSUME NEW f, NEW end \in Nat, LaidOut(f, end), NEW h, IsPlace(f, h), NEW a
    PROVE  LET g == PatchedWords(f, h, <<a>>)
           IN  /\ DOMAIN g = DOMAIN f
               /\ \A p \in DOMAIN f \ {h} : g[p] = f[p]
               /\ g[h] = Field(Word(a), 4)
               /\ LaidOut(g, end)
<1> DEFINE g == PatchedWords(f, h, <<a>>)
<1>1. h \in Nat /\ h \in DOMAIN f /\ f[h].size = 4 BY DEF IsPlace, LaidOut
<1>2. {h + 4 * (i - 1) : i \in 1..Len(<<a>>)} = {h} BY <1>1
<1>3. ASSUME NEW p \in DOMAIN f, p # h PROVE p \in Untouched(f, h, 4)
  <2>1. p \in Nat /\ f[p].size \in Nat BY DEF LaidOut
  <2>2. CASE p < h BY <1>1, <2>1, <2>2 DEF LaidOut, Untouched
  <2>3. CASE h < p BY <1>1, <2>1, <2>3 DEF LaidOut, Untouched
  <2> QED BY <1>1, <1>3, <2>1, <2>2, <2>3
<1>4. Untouched(f, h, 4 * Len(<<a>>)) \cup {h} = DOMAIN f BY <1>1, <1>3 DEF Untouched
<1>5. (h - h) \div 4 + 1 = 1 BY <1>1
<1>6. /\ DOMAIN g = DOMAIN f
      /\ \A p \in DOMAIN f \ {h} : g[p] = f[p]
      /\ g[h] = Field(Word(a), 4)
  <2>1. g = [p \in DOMAIN f |-> IF p \in {h} THEN Field(Word(<<a>>[(p - h) \div 4 + 1]), 4)
                                ELSE f[p]]
    BY <1>2, <1>4, Zenon DEF PatchedWords
  <2>2. g[h] = Field(Word(<<a>>[1]), 4) BY <1>1, <1>5, <2>1
  <2>3. <<a>>[1] = a OBVIOUS
  <2> QED BY <1>1, <2>1, <2>2, <2>3
<1>7. g[h].size = 4 BY <1>6 DEF Field
<1>8. \A p \in DOMAIN f : g[p].size = f[p].size BY <1>1, <1>6, <1>7
<1>9. LaidOut(g, end) BY <1>6, <1>8 DEF LaidOut
<1> QED BY <1>6, <1>9

(* A field of any size that is put where the file ends.                    *)
LEMMA Extending ==
    ASSUME NEW f, NEW end \in Nat, LaidOut(f, end), NEW field, field.size \in Nat \ {0}
    PROVE  LET g == Patched(f, end, field)
           IN  /\ DOMAIN f \subseteq DOMAIN g /\ end \in DOMAIN g
               /\ \A p \in DOMAIN f : g[p] = f[p]
               /\ g[end] = field
               /\ LaidOut(g, end + field.size)
<1> DEFINE g == Patched(f, end, field)
<1>1. Untouched(f, end, field.size) = DOMAIN f BY DEF Untouched, LaidOut
<1>2. end \notin DOMAIN f BY DEF LaidOut
<1>3. /\ DOMAIN g = DOMAIN f \cup {end}
      /\ \A p \in DOMAIN f : g[p] = f[p]
      /\ g[end] = field
  BY <1>1, <1>2 DEF Patched
<1>4. LaidOut(g, end + field.size)
  <2>1. \A p \in DOMAIN g :
            p \in Nat /\ g[p].size \in Nat \ {0} /\ p + g[p].size <= end + field.size
    BY <1>3 DEF LaidOut
  <2>2. \A p, q \in DOMAIN g : p < q => p + g[p].size <= q BY <1>3 DEF LaidOut
  <2> QED BY <2>1, <2>2 DEF LaidOut
<1> QED BY <1>2, <1>3, <1>4

LEMMA WordPlace == ASSUME NEW a PROVE Field(Word(a), 4).kind = "word" /\ Field(Word(a), 4).size = 4
                                        /\ Field(Word(a), 4).of = a
BY DEF Field, Word

LEMMA PlacesStay ==
    ASSUME NEW f, NEW g, NEW H, Keeps(f, g, H)
    PROVE  /\ \A h : IsPlace(f, h) => IsPlace(g, h)
           /\ \A p \in DOMAIN f : f[p].kind # "word" => p \in DOMAIN g /\ g[p] = f[p]
BY DEF Keeps, IsPlace

LEMMA InternedStay ==
    ASSUME Interned, NEW H, Keeps(file, file', H), strings' = strings
    PROVE  Interned'
<1> SUFFICES ASSUME NEW t \in DOMAIN strings
             PROVE  Holds(strings[t], "text")' /\ file'[strings[t]].of = t
  BY DEF Interned
<1>1. strings[t] \in DOMAIN file /\ file[strings[t]].kind = "text" /\ file[strings[t]].of = t
  BY DEF Interned, Holds
<1>2. strings[t] \in DOMAIN file' /\ file'[strings[t]] = file[strings[t]] BY <1>1, PlacesStay
<1> QED BY <1>1, <1>2 DEF Holds

(* A pointer that is set, and what it leads to, stay.                      *)
LEMMA PromiseStays ==
    ASSUME PromisesKept, Homes, NEW H, Keeps(file, file', H),
           NEW home \in DOMAIN promised \ Pending, home \notin H
    PROVE  LET o == file'[home].of
           IN  /\ home \in DOMAIN file' /\ file'[home].kind = "word"
               /\ o \in DOMAIN file' /\ file'[o].kind = promised[home].kind
               /\ file'[o].of = promised[home].of
<1> DEFINE o == file[home].of
<1>1. home \in DOMAIN file /\ file[home].kind = "word" BY DEF PromisesKept, IsWord
<1>2. home \in DOMAIN file' /\ file'[home] = file[home] BY <1>1 DEF Keeps
<1>3. o \in DOMAIN file /\ file[o].kind = promised[home].kind /\ file[o].of = promised[home].of
  BY DEF PromisesKept, Holds
<1>4. promised[home].kind # "word" BY DEF Homes, Values
<1>5. o \in DOMAIN file' /\ file'[o] = file[o] BY <1>3, <1>4, PlacesStay
<1> QED BY <1>1, <1>2, <1>3, <1>5

(* Promises neither made nor kept.                                         *)
LEMMA PromisesStay ==
    ASSUME PromisesKept, Homes, NEW H, Keeps(file, file', H),
           H \cap DOMAIN promised = {}, UNCHANGED <<promised, deferred>>
    PROVE  PromisesKept' /\ Homes'
<1>1. Pending' = Pending BY DEF Pending
<1>2. ASSUME NEW home \in DOMAIN promised \ Pending
      PROVE  /\ IsWord(home)' /\ Holds(file[home].of, promised[home].kind)'
             /\ (file[file[home].of].of = promised[home].of)'
  <2>1. home \notin H OBVIOUS
  <2> QED BY <2>1, PromiseStays DEF IsWord, Holds
<1>3. PromisesKept' BY <1>1, <1>2 DEF PromisesKept
<1>4. Homes' BY PlacesStay DEF Homes
<1> QED BY <1>3, <1>4

(* The innermost call is replaced.                                         *)
LEMMA Replacing ==
    ASSUME NEW stack \in Seq(Calls), stack # <<>>, NEW call \in Calls
    PROVE  LET new == [stack EXCEPT ![Len(stack)] = call]
           IN  /\ new \in Seq(Calls) /\ Len(new) = Len(stack) /\ new # <<>>
               /\ new[Len(stack)] = call
               /\ \A i \in 1..Len(stack) - 1 : new[i] = stack[i]
OBVIOUS

LEMMA InnerType ==
    ASSUME BuilderTypeOK, Nested, state \in {"job", "put"}
    PROVE  /\ calls \in Seq(Calls) /\ calls # <<>> /\ Len(calls) \in Nat \ {0}
           /\ Inner = calls[Len(calls)] /\ Inner \in Calls
           /\ Inner.work \in Seq(Jobs) /\ Inner.slot \in Nat
<1>1. calls \in Seq(Calls) /\ calls # <<>> BY DEF BuilderTypeOK, Nested
<1>2. Len(calls) \in Nat \ {0} BY <1>1
<1>3. Inner = calls[Len(calls)] /\ Inner \in Calls BY <1>1, <1>2 DEF Inner
<1> QED BY <1>1, <1>2, <1>3 DEF Calls

LEMMA JobsStay == ASSUME source' = source PROVE Jobs' = Jobs /\ Calls' = Calls
BY DEF Jobs, Calls

(* An element is begun: only the place its pointer shall lead to is noted. *)
LEMMA BeginPuttingStep ==
    ASSUME WriterInvariant, state = "job", Inner.work # <<>>,
           NEW words \in Seq(Items), BeginPutting(words)
    PROVE  WriterInvariant'
<1> DEFINE n == Len(calls)
<1>1. /\ calls \in Seq(Calls) /\ calls # <<>> /\ n \in Nat \ {0} /\ Inner = calls[n]
      /\ Inner \in Calls
  BY InnerType DEF WriterInvariant
<1>2. /\ Begun(Inner) \in Calls /\ Begun(Inner).work = Inner.work
      /\ Begun(Inner).slot = Inner.slot
  BY <1>1 DEF Begun, Calls, WriterInvariant, BuilderTypeOK
<1>3. /\ calls' \in Seq(Calls) /\ Len(calls') = n /\ calls' # <<>> /\ calls'[n] = Begun(Inner)
      /\ \A i \in 1..n - 1 : calls'[i] = calls[i]
  BY <1>1, <1>2, Replacing DEF BeginPutting, WithInner
<1>4. \A i \in 1..n : calls'[i].work = calls[i].work /\ calls'[i].slot = calls[i].slot
  BY <1>1, <1>2, <1>3
<1>5. /\ UNCHANGED <<file, offset, pos, strings, deferred, promised, tables, source>>
      /\ state' = "put" /\ todo' = words
  BY DEF BeginPutting
<1>6. BuilderTypeOK'
  BY <1>3, <1>5, JobsStay DEF BuilderTypeOK, WriterInvariant, Items, Values
<1>7. Nested'
  <2>1. Inner'.work = Inner.work BY <1>1, <1>2, <1>3 DEF Inner
  <2> QED BY <1>3, <1>4, <1>5, <2>1 DEF Nested, WriterInvariant
<1>8. LaidOut(file, pos)' BY <1>5 DEF WriterInvariant, LaidOut
<1>9. Homes' /\ Interned' BY <1>5 DEF WriterInvariant, Homes, Interned, Holds, IsPlace, Values
<1>10. Slots' BY <1>3, <1>4, <1>5 DEF WriterInvariant, Slots, Slot
<1>11. Positioned' BY <1>5 DEF WriterInvariant, Positioned
<1>12. PromisesKept' BY <1>5 DEF WriterInvariant, PromisesKept, Pending, IsWord, Holds
<1> QED BY <1>6, <1>7, <1>8, <1>9, <1>10, <1>11, <1>12 DEF WriterInvariant

(* The element at work is done with: its pointer is set if it has data.    *)
LEMMA AdvancedType ==
    ASSUME NEW call \in Calls, call.work # <<>>
    PROVE  /\ Advanced(call) \in Calls
           /\ Len(Advanced(call).work) = Len(call.work) - 1
           /\ \A k \in 1..Len(call.work) - 1 : Slot(Advanced(call), k) = Slot(call, k + 1)
           /\ Slot(call, 1) = call.slot
<1>1. call.work \in Seq(Jobs) /\ call.slot \in Nat /\ call.at \in Nat BY DEF Calls
<1>2. Tail(call.work) \in Seq(Jobs) /\ Len(Tail(call.work)) = Len(call.work) - 1
  BY <1>1
<1>3. Advanced(call) = [slot |-> call.slot + 4, work |-> Tail(call.work), at |-> call.at]
  <2>1. Advanced(call) = [call EXCEPT !.slot = call.slot + 4, !.work = Tail(call.work)]
    BY DEF Advanced, Calls
  <2> QED BY <1>1, <1>2, <2>1 DEF Calls
<1>4. Len(call.work) \in Nat /\ Advanced(call) \in Calls /\ Advanced(call).work = Tail(call.work)
  BY <1>1, <1>2, <1>3 DEF Calls
<1>5. ASSUME NEW k \in 1..Len(call.work) - 1 PROVE Slot(Advanced(call), k) = Slot(call, k + 1)
  BY <1>1, <1>3, <1>4 DEF Slot
<1>6. Slot(call, 1) = call.slot BY <1>1 DEF Slot
<1> QED BY <1>2, <1>3, <1>4, <1>5, <1>6

LEMMA ReturnStep ==
    ASSUME WriterInvariant, state \in {"job", "put"}, state' = "job", todo' \in Seq(Items),
           NEW stack \in Seq(Calls), stack # <<>>, Len(stack) <= Len(calls),
           \A i \in 1..Len(stack) : stack[i] = calls[i],
           stack[Len(stack)].work # <<>>,
           Return(stack), UNCHANGED <<tables, source>>
    PROVE  WriterInvariant'
<1> DEFINE n == Len(stack)
           call == stack[n]
           h == call.slot
<1>1. n \in Nat \ {0} /\ call \in Calls /\ call = calls[n] OBVIOUS
<1>2. /\ Advanced(call) \in Calls /\ Len(Advanced(call).work) = Len(call.work) - 1
      /\ \A k \in 1..Len(call.work) - 1 : Slot(Advanced(call), k) = Slot(call, k + 1)
      /\ Slot(call, 1) = h
  BY <1>1, AdvancedType
<1>3. /\ calls' \in Seq(Calls) /\ Len(calls') = n /\ calls' # <<>>
      /\ calls'[n] = Advanced(call) /\ \A i \in 1..n - 1 : calls'[i] = calls[i]
  <2>1. calls' = [stack EXCEPT ![n] = Advanced(call)] BY DEF Return
  <2> HIDE DEF call
  <2> QED BY <1>2, <2>1, Replacing
<1>4. Len(calls) \in Nat /\ 1..n \subseteq 1..Len(calls)
  BY <1>1 DEF WriterInvariant, BuilderTypeOK
<1>5. call.work \in Seq(Jobs) /\ Len(call.work) \in Nat \ {0} BY <1>1 DEF Calls
<1>6. IsPlace(file, h) /\ h \notin DOMAIN promised
  BY <1>1, <1>2, <1>4, <1>5 DEF WriterInvariant, Slots
<1>7. /\ file' = PatchedWords(file, h, <<call.at>>) /\ offset' = pos
      /\ UNCHANGED <<pos, strings, deferred, promised>>
  BY DEF Return, GoesBack
<1>8. /\ DOMAIN file' = DOMAIN file /\ \A p \in DOMAIN file \ {h} : file'[p] = file[p]
      /\ file'[h] = Field(Word(call.at), 4) /\ LaidOut(file', pos)
  BY <1>6, <1>7, Overwriting DEF WriterInvariant, BuilderTypeOK
<1>9. Keeps(file, file', {h}) BY <1>6, <1>8, WordPlace DEF Keeps, IsPlace
<1>10. BuilderTypeOK'
  BY <1>3, <1>7, JobsStay DEF BuilderTypeOK, WriterInvariant, Items, Values
<1>11. Nested'
  <2>1. \A i \in 1..n - 1 : calls[i].work # <<>> BY <1>4 DEF WriterInvariant, Nested
  <2> QED BY <1>3, <2>1 DEF Nested
<1>12. LaidOut(file, pos)' BY <1>7, <1>8 DEF LaidOut
<1>13. PromisesKept' /\ Homes'
  BY <1>6, <1>7, <1>9, PromisesStay DEF WriterInvariant
<1>14. Interned' BY <1>7, <1>9, InternedStay DEF WriterInvariant
<1>15. Slots'
  <2> SUFFICES ASSUME NEW i \in 1..n, NEW k \in 1..Len(calls'[i].work)
               PROVE  IsPlace(file', Slot(calls'[i], k)) /\ Slot(calls'[i], k) \notin DOMAIN promised
    BY <1>3, <1>7 DEF Slots, Slot
  <2>1. CASE i = n
    <3>1. k \in 1..Len(call.work) - 1 /\ Slot(calls'[i], k) = Slot(call, k + 1)
      BY <1>2, <1>3, <2>1
    <3>2. k + 1 \in 1..Len(call.work) BY <3>1, <1>5
    <3>3. IsPlace(file, Slot(call, k + 1)) /\ Slot(call, k + 1) \notin DOMAIN promised
      BY <1>1, <1>4, <3>2 DEF WriterInvariant, Slots
    <3> QED BY <1>9, <3>1, <3>3, PlacesStay
  <2>2. CASE i # n
    <3>1. i \in 1..n - 1 /\ calls'[i] = calls[i] BY <1>1, <1>3, <2>2
    <3>2. IsPlace(file, Slot(calls[i], k)) /\ Slot(calls[i], k) \notin DOMAIN promised
      BY <1>4, <3>1 DEF WriterInvariant, Slots
    <3> QED BY <1>9, <3>1, <3>2, PlacesStay
  <2> QED BY <2>1, <2>2
<1>16. Positioned' BY <1>7 DEF Positioned
<1> QED BY <1>10, <1>11, <1>12, <1>13, <1>14, <1>15, <1>16 DEF WriterInvariant

LEMMA SkipStep ==
    ASSUME WriterInvariant, state = "job", Inner.work # <<>>, Skip, UNCHANGED builder
    PROVE  WriterInvariant'
<1> DEFINE n == Len(calls)
<1>1. /\ calls \in Seq(Calls) /\ calls # <<>> /\ n \in Nat \ {0} /\ Inner = calls[n]
      /\ Inner \in Calls /\ Inner.work \in Seq(Jobs)
  BY InnerType DEF WriterInvariant
<1>2. /\ Advanced(Inner) \in Calls /\ Len(Advanced(Inner).work) = Len(Inner.work) - 1
      /\ \A k \in 1..Len(Inner.work) - 1 : Slot(Advanced(Inner), k) = Slot(Inner, k + 1)
  BY <1>1, AdvancedType
<1>3. /\ calls' \in Seq(Calls) /\ Len(calls') = n /\ calls' # <<>> /\ calls'[n] = Advanced(Inner)
      /\ \A i \in 1..n - 1 : calls'[i] = calls[i]
  BY <1>1, <1>2, Replacing DEF Skip, WithInner
<1>4. /\ UNCHANGED <<file, offset, pos, strings, deferred, promised>>
      /\ UNCHANGED <<state, tables, source, todo>>
  BY DEF Skip, builder
<1>5. BuilderTypeOK'
  BY <1>3, <1>4, JobsStay DEF BuilderTypeOK, WriterInvariant, Items, Values
<1>6. Nested' BY <1>1, <1>3, <1>4 DEF Nested, WriterInvariant
<1>7. LaidOut(file, pos)' BY <1>4 DEF WriterInvariant, LaidOut
<1>8. Homes' /\ Interned' BY <1>4 DEF WriterInvariant, Homes, Interned, Holds, IsPlace, Values
<1>9. Slots'
  <2> SUFFICES ASSUME NEW i \in 1..n, NEW k \in 1..Len(calls'[i].work)
               PROVE  IsPlace(file, Slot(calls'[i], k)) /\ Slot(calls'[i], k) \notin DOMAIN promised
    BY <1>3, <1>4 DEF Slots, Slot, IsPlace
  <2>1. CASE i = n
    <3>1. k \in 1..Len(Inner.work) - 1 /\ Slot(calls'[i], k) = Slot(Inner, k + 1)
      BY <1>2, <1>3, <2>1
    <3>2. k + 1 \in 1..Len(Inner.work) BY <3>1, <1>1
    <3> QED BY <1>1, <3>1, <3>2 DEF WriterInvariant, Slots
  <2>2. CASE i # n
    <3>1. i \in 1..n - 1 /\ calls'[i] = calls[i] BY <1>1, <1>3, <2>2
    <3> QED BY <3>1 DEF WriterInvariant, Slots
  <2> QED BY <2>1, <2>2
<1>10. Positioned' BY <1>4 DEF WriterInvariant, Positioned
<1>11. PromisesKept' BY <1>4 DEF WriterInvariant, PromisesKept, Pending, IsWord, Holds
<1> QED BY <1>5, <1>6, <1>7, <1>8, <1>9, <1>10, <1>11 DEF WriterInvariant

(* An array is begun where the file ends: every element gets a place.      *)
LEMMA OpenArrayStep ==
    ASSUME WriterInvariant, state = "job", Inner.work # <<>>,
           NEW S, NEW before \in Seq(S), NEW work \in Seq(Jobs), NEW withPointer \in BOOLEAN,
           BeginArray(before, work, withPointer)
    PROVE  WriterInvariant'
<1> DEFINE n == Len(calls)
           at == pos + 4 * Len(before) + (IF withPointer THEN 4 ELSE 0)
           head == IF withPointer THEN before \o <<at>> ELSE before
           words == head \o [i \in 1..Len(work) |-> noData]
           T == S \cup {at, noData}
           begun == WithInner(Begun(Inner))
<1>1. /\ calls \in Seq(Calls) /\ calls # <<>> /\ n \in Nat \ {0} /\ Inner = calls[n]
      /\ Inner \in Calls
  BY InnerType DEF WriterInvariant
<1>2. /\ Begun(Inner) \in Calls /\ Begun(Inner).work = Inner.work
      /\ Begun(Inner).slot = Inner.slot
  BY <1>1 DEF Begun, Calls, WriterInvariant, BuilderTypeOK
<1>3. /\ begun \in Seq(Calls) /\ Len(begun) = n /\ begun[n] = Begun(Inner)
      /\ \A i \in 1..n - 1 : begun[i] = calls[i]
  BY <1>1, <1>2, Replacing DEF WithInner
<1>4. pos \in Nat /\ offset = pos /\ LaidOut(file, pos)
  BY DEF WriterInvariant, BuilderTypeOK, Positioned
<1>5. at \in Nat BY <1>4
<1>6. head \in Seq(T) /\ at = pos + 4 * Len(head)
  <2>1. before \in Seq(T) /\ Len(before) \in Nat OBVIOUS
  <2>2. <<at>> \in Seq(T) /\ Len(<<at>>) = 1 OBVIOUS
  <2>3. before \o <<at>> \in Seq(T) BY <2>1, <2>2, Concatenated
  <2>4. Len(before \o <<at>>) = Len(before) + 1 BY <2>1, <2>2
  <2> HIDE DEF T
  <2> QED BY <1>4, <2>1, <2>3, <2>4
<1>7. /\ [i \in 1..Len(work) |-> noData] \in Seq(T)
      /\ Len([i \in 1..Len(work) |-> noData]) = Len(work)
  OBVIOUS
<1>8. words \in Seq(T) /\ Len(words) = Len(head) + Len(work)
  <2> HIDE DEF T, head
  <2> QED BY <1>6, <1>7, Concatenated
<1>9. /\ file' = PatchedWords(file, pos, words)
      /\ offset' = pos + 4 * Len(words) /\ pos' = pos + 4 * Len(words)
      /\ calls' = Append(begun, Call(at, work))
      /\ UNCHANGED <<strings, deferred, promised>> /\ UNCHANGED <<state, tables, source, todo>>
  BY <1>4 DEF BeginArray, OpenArray, PutWords, builder
<1> HIDE DEF words, head, at, T, begun
<1>10. /\ DOMAIN file \subseteq DOMAIN file' /\ \A p \in DOMAIN file : file'[p] = file[p]
       /\ \A i \in 1..Len(words) : /\ pos + 4 * (i - 1) \in DOMAIN file'
                                   /\ file'[pos + 4 * (i - 1)] = Field(Word(words[i]), 4)
       /\ LaidOut(file', pos + 4 * Len(words))
  <2>1. Len(words) \in Nat BY <1>8
  <2> QED BY <1>4, <1>9, <2>1, Appending
<1>11. Keeps(file, file', {}) BY <1>10 DEF Keeps
<1>12. /\ Call(at, work) \in Calls /\ Call(at, work).work = work /\ Call(at, work).slot = at
  BY <1>5 DEF Call, Calls
<1>13. /\ calls' \in Seq(Calls) /\ Len(calls') = n + 1 /\ calls' # <<>>
       /\ calls'[n + 1] = Call(at, work) /\ calls'[n] = Begun(Inner)
       /\ \A i \in 1..n - 1 : calls'[i] = calls[i]
  BY <1>1, <1>3, <1>9, <1>12
<1>14. Len(head) \in Nat /\ Len(work) \in Nat BY <1>6
<1>15. BuilderTypeOK'
  <2>1. pos' \in Nat /\ offset' \in Nat BY <1>4, <1>8, <1>9, <1>14
  <2> QED BY <1>9, <1>13, <2>1, JobsStay DEF BuilderTypeOK, WriterInvariant, Items, Values
<1>16. Nested'
  <2>1. \A i \in 1..n - 1 : calls[i].work # <<>> BY <1>1 DEF WriterInvariant, Nested
  <2>2. \A i \in 1..n : calls'[i].work # <<>> BY <1>1, <1>2, <1>13, <2>1
  <2> QED BY <1>1, <1>9, <1>13, <2>2 DEF Nested
<1>17. LaidOut(file, pos)' BY <1>9, <1>10 DEF LaidOut
<1>18. PromisesKept' /\ Homes' BY <1>9, <1>11, PromisesStay DEF WriterInvariant
<1>19. Interned' BY <1>9, <1>11, InternedStay DEF WriterInvariant
<1>20. Slots'
  <2> SUFFICES ASSUME NEW i \in 1..n + 1, NEW k \in 1..Len(calls'[i].work)
               PROVE  IsPlace(file', Slot(calls'[i], k)) /\ Slot(calls'[i], k) \notin DOMAIN promised
    BY <1>9, <1>13 DEF Slots, Slot
  <2>1. CASE i = n + 1
    <3>1. k \in 1..Len(work) /\ Slot(calls'[i], k) = at + 4 * (k - 1)
      BY <1>12, <1>13, <2>1 DEF Slot
    <3> DEFINE j == Len(head) + k
    <3>2. j \in 1..Len(words) /\ at + 4 * (k - 1) = pos + 4 * (j - 1)
      <4>1. k \in Nat \ {0} /\ k <= Len(work) BY <1>14, <3>1
      <4>2. j \in 1..Len(words) BY <1>8, <1>14, <4>1
      <4>3. at + 4 * (k - 1) = pos + 4 * (j - 1) BY <1>4, <1>6, <1>14, <4>1
      <4> QED BY <4>2, <4>3
    <3> HIDE DEF j
    <3>3. IsPlace(file', pos + 4 * (j - 1))
      <4>1. file'[pos + 4 * (j - 1)] = Field(Word(words[j]), 4) BY <1>10, <3>2
      <4>2. pos + 4 * (j - 1) \in DOMAIN file' BY <1>10, <3>2
      <4> QED BY <4>1, <4>2, WordPlace DEF IsPlace
    <3>4. pos + 4 * (j - 1) \notin DOMAIN file
      BY <1>4, <3>2 DEF LaidOut
    <3>5. DOMAIN promised \subseteq DOMAIN file BY DEF WriterInvariant, Homes, IsPlace
    <3> QED BY <3>1, <3>2, <3>3, <3>4, <3>5
  <2>2. CASE i # n + 1
    <3>1. i \in 1..n /\ calls'[i].work = calls[i].work /\ calls'[i].slot = calls[i].slot
      <4>1. CASE i = n BY <1>1, <1>2, <1>13, <4>1
      <4>2. CASE i # n
        <5>1. i \in 1..n - 1 BY <1>1, <2>2, <4>2
        <5> QED BY <1>1, <1>13, <5>1
      <4> QED BY <4>1, <4>2
    <3>2. Slot(calls'[i], k) = Slot(calls[i], k) /\ k \in 1..Len(calls[i].work)
      BY <3>1 DEF Slot
    <3>3. IsPlace(file, Slot(calls[i], k)) /\ Slot(calls[i], k) \notin DOMAIN promised
      BY <3>1, <3>2 DEF WriterInvariant, Slots
    <3> QED BY <1>11, <3>2, <3>3, PlacesStay
  <2> QED BY <2>1, <2>2
<1>21. Positioned' BY <1>9 DEF Positioned
<1> QED BY <1>15, <1>16, <1>17, <1>18, <1>19, <1>20, <1>21 DEF WriterInvariant

(* What is put while an element is at work.                                *)
LEMMA PutNextStep == ASSUME WriterInvariant, PutNext PROVE WriterInvariant'
<1> DEFINE item == Head(todo)
<1>1. /\ state = "put" /\ todo # <<>> /\ todo' = Tail(todo)
      /\ UNCHANGED <<state, tables, source>>
  BY DEF PutNext
<1>2. todo \in Seq(Items) /\ item \in Items /\ todo' \in Seq(Items)
  BY <1>1 DEF WriterInvariant, BuilderTypeOK
<1>3. pos \in Nat /\ offset = pos /\ LaidOut(file, pos)
  BY <1>1 DEF WriterInvariant, BuilderTypeOK, Positioned
<1>4. ASSUME NEW word, PutWords(<<word>>)
      PROVE  /\ pos \notin DOMAIN file /\ Keeps(file, file', {}) /\ IsPlace(file', pos)
             /\ LaidOut(file', pos') /\ pos' \in Nat /\ offset' = pos'
  <2> DEFINE words == <<word>>
  <2>1. words \in Seq({word}) /\ Len(words) = 1 /\ words[1] = word OBVIOUS
  <2>2. /\ file' = PatchedWords(file, pos, words)
        /\ offset' = pos + 4 * Len(words) /\ pos' = pos + 4 * Len(words)
    BY <1>3, <1>4 DEF PutWords
  <2> HIDE DEF words
  <2>3. /\ pos \notin DOMAIN file /\ DOMAIN file \subseteq DOMAIN file'
        /\ \A p \in DOMAIN file : file'[p] = file[p]
        /\ \A i \in 1..Len(words) : /\ pos + 4 * (i - 1) \in DOMAIN file'
                                    /\ file'[pos + 4 * (i - 1)] = Field(Word(words[i]), 4)
        /\ LaidOut(file', pos + 4 * Len(words))
    <3>1. Len(words) \in Nat BY <2>1
    <3> QED BY <1>3, <2>2, <3>1, Appending
  <2>5. pos \in DOMAIN file' /\ file'[pos] = Field(Word(word), 4)
    <3>1. pos + 4 * (1 - 1) = pos /\ 1 \in 1..Len(words) BY <1>3, <2>1
    <3> QED BY <2>1, <2>3, <3>1
  <2>6. IsPlace(file', pos) BY <2>3, <2>5, WordPlace DEF IsPlace
  <2>7. Keeps(file, file', {}) BY <2>3 DEF Keeps
  <2> QED BY <1>3, <2>1, <2>2, <2>3, <2>6, <2>7
<1>5. CASE item.kind \in {"word", "pointer"}
  <2>1. Put(item) BY <1>5 DEF PutNext
  <2>2. /\ pos \notin DOMAIN file /\ Keeps(file, file', {}) /\ IsPlace(file', pos)
        /\ LaidOut(file', pos') /\ pos' \in Nat /\ offset' = pos'
        /\ UNCHANGED <<strings, deferred, calls, promised>>
    BY <1>4, <2>1 DEF Put
  <2>3. BuilderTypeOK'
    BY <1>1, <1>2, <2>2, JobsStay DEF BuilderTypeOK, WriterInvariant, Items, Values
  <2>4. Nested' BY <1>1, <2>2 DEF Nested, WriterInvariant, Inner
  <2>5. LaidOut(file, pos)' BY <2>2 DEF LaidOut
  <2>6. PromisesKept' /\ Homes' BY <2>2, PromisesStay DEF WriterInvariant
  <2>7. Interned' BY <2>2, InternedStay DEF WriterInvariant
  <2>8. Slots' BY <2>2, PlacesStay DEF WriterInvariant, Slots, Slot
  <2>9. Positioned' BY <2>2 DEF Positioned
  <2> QED BY <2>3, <2>4, <2>5, <2>6, <2>7, <2>8, <2>9 DEF WriterInvariant
<1>6. CASE item.kind \notin {"word", "pointer"}
  <2>1. Defer(item) BY <1>6 DEF PutNext
  <2>2. item \in Values BY <1>2, <1>6 DEF Items
  <2>3. /\ pos \notin DOMAIN file /\ Keeps(file, file', {}) /\ IsPlace(file', pos)
        /\ LaidOut(file', pos') /\ pos' \in Nat /\ offset' = pos'
    BY <1>4, <2>1 DEF Defer
  <2>4. /\ deferred' = Append(deferred, [home |-> pos, value |-> item])
        /\ DOMAIN promised' = DOMAIN promised \cup {pos} /\ promised'[pos] = item
        /\ \A h \in DOMAIN promised \ {pos} : promised'[h] = promised[h]
        /\ UNCHANGED <<strings, calls>>
    BY <2>1 DEF Defer
  <2>5. DOMAIN promised \subseteq DOMAIN file BY DEF WriterInvariant, Homes, IsPlace
  <2>6. deferred \in Seq([home : Nat, value : Values]) BY DEF WriterInvariant, BuilderTypeOK
  <2>7. [home |-> pos, value |-> item] \in [home : Nat, value : Values] BY <1>3, <2>2
  <2> DEFINE d == Len(deferred)
  <2>8. /\ d \in Nat /\ Len(deferred') = d + 1 /\ \A i \in 1..d : deferred'[i] = deferred[i]
        /\ deferred'[d + 1].home = pos /\ deferred'[d + 1].value = item
        /\ deferred' \in Seq([home : Nat, value : Values])
    BY <2>4, <2>6, <2>7
  <2>9. BuilderTypeOK'
    BY <1>1, <1>2, <2>3, <2>4, <2>8, JobsStay DEF BuilderTypeOK, WriterInvariant, Items, Values
  <2>10. Nested' BY <1>1, <2>4 DEF Nested, WriterInvariant, Inner
  <2>11. LaidOut(file, pos)' BY <2>3 DEF LaidOut
  <2>12. \A i \in 1..d : deferred[i].home \in DOMAIN promised /\ deferred[i].home # pos
    BY <2>3, <2>5 DEF WriterInvariant, Homes
  <2>13. Homes'
    <3>1. \A h \in DOMAIN promised' : IsPlace(file', h) /\ promised'[h] \in Values
      BY <2>2, <2>3, <2>4, PlacesStay DEF WriterInvariant, Homes
    <3>2. \A i \in 1..d + 1 : /\ deferred'[i].home \in DOMAIN promised'
                              /\ promised'[deferred'[i].home] = deferred'[i].value
      <4> TAKE i \in 1..d + 1
      <4>1. CASE i = d + 1 BY <2>4, <2>8, <4>1
      <4>2. CASE i # d + 1
        <5>1. i \in 1..d BY <2>8, <4>2
        <5>2. promised[deferred[i].home] = deferred[i].value BY <5>1 DEF WriterInvariant, Homes
        <5> QED BY <2>4, <2>8, <2>12, <5>1, <5>2
      <4> QED BY <4>1, <4>2
    <3>3. \A i, j \in 1..d + 1 : deferred'[i].home = deferred'[j].home => i = j
      <4> TAKE i, j \in 1..d + 1
      <4>1. CASE i = d + 1 \/ j = d + 1 BY <2>8, <2>12, <4>1
      <4>2. CASE i # d + 1 /\ j # d + 1
        <5>1. i \in 1..d /\ j \in 1..d BY <2>8, <4>2
        <5> QED BY <2>8, <5>1 DEF WriterInvariant, Homes
      <4> QED BY <4>1, <4>2
    <3> QED BY <2>8, <3>1, <3>2, <3>3 DEF Homes, Values
  <2>14. Interned' BY <2>3, <2>4, InternedStay DEF WriterInvariant
  <2>15. Slots'
    <3>1. \A i \in 1..Len(calls) : \A k \in 1..Len(calls[i].work) :
              IsPlace(file, Slot(calls[i], k)) /\ Slot(calls[i], k) \notin DOMAIN promised
      BY DEF WriterInvariant, Slots
    <3>2. \A h : IsPlace(file, h) => IsPlace(file', h) /\ h # pos
      BY <2>3, PlacesStay DEF IsPlace
    <3> QED BY <2>4, <3>1, <3>2 DEF Slots, Slot
  <2>16. Positioned' BY <2>3 DEF Positioned
  <2>17. Pending' = Pending \cup {pos}
    <3>1. Pending' = {deferred'[i].home : i \in 1..d + 1} BY <2>8 DEF Pending
    <3> QED BY <2>8, <3>1 DEF Pending
  <2>18. PromisesKept'
    <3>1. DOMAIN promised' \ Pending' = DOMAIN promised \ Pending
      BY <2>3, <2>4, <2>5, <2>17
    <3>2. ASSUME NEW home \in DOMAIN promised \ Pending
          PROVE  /\ IsWord(home)' /\ Holds(file[home].of, promised[home].kind)'
                 /\ (file[file[home].of].of = promised[home].of)'
      <4>1. promised'[home] = promised[home] BY <2>3, <2>4, <2>5
      <4> QED BY <2>3, <4>1, PromiseStays DEF WriterInvariant, IsWord, Holds
    <3> QED BY <3>1, <3>2 DEF PromisesKept
  <2> QED BY <2>9, <2>10, <2>11, <2>13, <2>14, <2>15, <2>16, <2>18 DEF WriterInvariant
<1> QED BY <1>5, <1>6

LEMMA HeadType ==
    ASSUME NEW S, NEW s \in Seq(S), s # <<>>
    PROVE  Head(s) \in S /\ Head(s) = s[1] /\ Len(s) \in Nat \ {0}
OBVIOUS

(* One deferred value is written, or found written, and its pointer set.   *)
LEMMA FlushedValue ==
    ASSUME WriterInvariant, deferred # <<>>,
           NEW o, NEW f, file' = PatchedWords(f, Head(deferred).home, <<o>>),
           Keeps(file, f, {}), pos' \in Nat, LaidOut(f, pos'),
           o \in DOMAIN f, f[o].kind = Head(deferred).value.kind,
           f[o].of = Head(deferred).value.of,
           deferred' = Tail(deferred), UNCHANGED <<calls, promised>>
    PROVE  /\ Keeps(file, file', {Head(deferred).home}) /\ LaidOut(file', pos')
           /\ o \in DOMAIN file' /\ file'[o] = f[o]
           /\ deferred' \in Seq([home : Nat, value : Values])
           /\ Homes' /\ PromisesKept' /\ Slots'
<1> DEFINE d == Head(deferred)
           h == d.home
           n == Len(deferred)
<1>1. deferred \in Seq([home : Nat, value : Values]) /\ n \in Nat \ {0} /\ d = deferred[1]
  BY DEF WriterInvariant, BuilderTypeOK
<1>2. /\ deferred' \in Seq([home : Nat, value : Values]) /\ Len(deferred') = n - 1
      /\ \A i \in 1..n - 1 : deferred'[i] = deferred[i + 1]
  BY <1>1
<1>3. h \in DOMAIN promised /\ promised[h] = d.value /\ IsPlace(file, h)
  BY <1>1 DEF WriterInvariant, Homes
<1>4. d.value \in Values /\ d.value.kind # "word"
  <2>1. d \in [home : Nat, value : Values] BY <1>1, HeadType
  <2> HIDE DEF d
  <2>2. d.value \in Values BY <2>1
  <2> QED BY <2>2 DEF Values
<1>5. IsPlace(f, h) BY <1>3, PlacesStay
<1>6. /\ DOMAIN file' = DOMAIN f /\ \A p \in DOMAIN f \ {h} : file'[p] = f[p]
      /\ file'[h] = Field(Word(o), 4) /\ LaidOut(file', pos')
  BY <1>5, Overwriting
<1>7. Keeps(file, file', {h}) BY <1>3, <1>5, <1>6, WordPlace DEF Keeps, IsPlace
<1>8. o # h /\ o \in DOMAIN file' /\ file'[o] = f[o] BY <1>4, <1>5, <1>6 DEF IsPlace
<1>9. Pending' = Pending \ {h}
  <2>1. Pending' = {deferred[i + 1].home : i \in 1..n - 1} BY <1>2 DEF Pending
  <2>2. ASSUME NEW x \in Pending, x # h PROVE x \in Pending'
    <3>1. PICK i \in 1..n : x = deferred[i].home BY DEF Pending
    <3>2. i # 1 BY <1>1, <2>2, <3>1
    <3>3. i - 1 \in 1..n - 1 /\ deferred'[i - 1] = deferred[i] BY <1>1, <1>2, <3>1, <3>2
    <3> QED BY <1>2, <3>1, <3>3 DEF Pending
  <2>3. ASSUME NEW x \in Pending' PROVE x \in Pending /\ x # h
    <3>1. PICK i \in 1..n - 1 : x = deferred[i + 1].home BY <2>1, <2>3
    <3>2. i + 1 \in 1..n /\ 1 \in 1..n /\ i + 1 # 1 BY <1>1, <3>1
    <3>3. x # h BY <1>1, <3>1, <3>2 DEF WriterInvariant, Homes
    <3> QED BY <3>1, <3>2, <3>3 DEF Pending
  <2> QED BY <2>2, <2>3
<1>10. Homes'
  <2>1. \A x \in DOMAIN promised : IsPlace(file', x) /\ promised[x] \in Values
    BY <1>7, PlacesStay DEF WriterInvariant, Homes
  <2>2. \A i \in 1..n - 1 : i + 1 \in 1..n BY <1>1
  <2>3. \A i \in 1..n - 1 : /\ deferred'[i].home \in DOMAIN promised
                            /\ promised[deferred'[i].home] = deferred'[i].value
    BY <1>2, <2>2 DEF WriterInvariant, Homes
  <2>4. \A i, j \in 1..n - 1 : deferred'[i].home = deferred'[j].home => i = j
    <3> TAKE i, j \in 1..n - 1
    <3>1. deferred[i + 1].home = deferred[j + 1].home => i + 1 = j + 1
      BY <2>2 DEF WriterInvariant, Homes
    <3> QED BY <1>1, <1>2, <3>1
  <2> QED BY <1>2, <2>1, <2>3, <2>4 DEF Homes, Values
<1>11. PromisesKept'
  <2> SUFFICES ASSUME NEW x \in DOMAIN promised \ Pending'
               PROVE  /\ IsWord(x)' /\ Holds(file[x].of, promised[x].kind)'
                      /\ (file[file[x].of].of = promised[x].of)'
    BY DEF PromisesKept
  <2>1. CASE x = h
    <3>1. file'[x].of = o /\ file'[x].kind = "word" /\ x \in DOMAIN file'
      BY <1>5, <1>6, <2>1, WordPlace DEF IsPlace
    <3> QED BY <1>3, <1>8, <2>1, <3>1 DEF IsWord, Holds
  <2>2. CASE x # h
    <3>1. x \in DOMAIN promised \ Pending /\ x \notin {h} BY <1>9, <2>2
    <3> HIDE DEF h
    <3> QED BY <1>7, <3>1, PromiseStays DEF WriterInvariant, IsWord, Holds
  <2> QED BY <2>1, <2>2
<1>12. Slots' BY <1>7, PlacesStay DEF WriterInvariant, Slots, Slot
<1> QED BY <1>2, <1>6, <1>7, <1>8, <1>10, <1>11, <1>12

LEMMA FlushValueStep ==
    ASSUME WriterInvariant, Flush
    PROVE  WriterInvariant'
<1> DEFINE d == Head(deferred)
<1>1. /\ state = "put" /\ todo = <<>> /\ deferred # <<>> /\ deferred' = Tail(deferred)
      /\ UNCHANGED <<calls, promised>> /\ UNCHANGED <<state, tables, source, todo>>
  BY DEF Flush, FlushNext, builder
<1>2. deferred \in Seq([home : Nat, value : Values]) /\ pos \in Nat /\ LaidOut(file, pos)
  BY DEF WriterInvariant, BuilderTypeOK
<1>3. d \in [home : Nat, value : Values] BY <1>1, <1>2, HeadType
<1>4. ASSUME NEW o, NEW f, file' = PatchedWords(f, d.home, <<o>>), offset' = d.home + 4,
             Keeps(file, f, {}), pos' \in Nat, LaidOut(f, pos'),
             o \in DOMAIN f, f[o].kind = d.value.kind, f[o].of = d.value.of,
             \A t \in DOMAIN strings' : \/ t \in DOMAIN strings /\ strings'[t] = strings[t]
                                        \/ d.value = Text(t) /\ strings'[t] = o
      PROVE  WriterInvariant'
  <2>1. /\ Keeps(file, file', {d.home}) /\ LaidOut(file', pos')
        /\ o \in DOMAIN file' /\ file'[o] = f[o]
        /\ deferred' \in Seq([home : Nat, value : Values])
        /\ Homes' /\ PromisesKept' /\ Slots'
    BY <1>1, <1>4, FlushedValue
  <2>2. offset' \in Nat BY <1>3, <1>4
  <2>3. BuilderTypeOK'
    BY <1>1, <1>4, <2>1, <2>2, JobsStay DEF BuilderTypeOK, WriterInvariant, Items, Values
  <2>4. Nested' BY <1>1 DEF Nested, WriterInvariant, Inner
  <2>5. LaidOut(file, pos)' BY <2>1 DEF LaidOut
  <2>6. Interned'
    <3> SUFFICES ASSUME NEW t \in DOMAIN strings'
                 PROVE  Holds(strings[t], "text")' /\ file'[strings'[t]].of = t
      BY DEF Interned
    <3>1. CASE t \in DOMAIN strings /\ strings'[t] = strings[t]
      <4>1. /\ strings[t] \in DOMAIN file /\ file[strings[t]].kind = "text"
            /\ file[strings[t]].of = t
        BY <3>1 DEF WriterInvariant, Interned, Holds
      <4>2. strings[t] \in DOMAIN file' /\ file'[strings[t]] = file[strings[t]]
        BY <2>1, <4>1, PlacesStay
      <4> QED BY <3>1, <4>1, <4>2 DEF Holds
    <3>2. CASE d.value = Text(t) /\ strings'[t] = o
      BY <1>4, <2>1, <3>2 DEF Holds, Text
    <3> QED BY <1>4, <3>1, <3>2
  <2>7. Positioned' BY <1>1 DEF Positioned
  <2> QED BY <2>1, <2>3, <2>4, <2>5, <2>6, <2>7 DEF WriterInvariant
<1>5. CASE d.value.kind = "text" /\ FlushInterned(d.home, d.value.of)
  <2> DEFINE t == d.value.of
             o == strings[t]
  <2>1. /\ t \in DOMAIN strings /\ file' = PatchedWords(file, d.home, <<o>>)
        /\ offset' = d.home + 4 /\ pos' = pos /\ strings' = strings
    BY <1>5 DEF FlushInterned, PointAt
  <2>2. o \in DOMAIN file /\ file[o].kind = "text" /\ file[o].of = t
    BY <2>1 DEF WriterInvariant, Interned, Holds
  <2>3. Keeps(file, file, {}) BY DEF Keeps
  <2> HIDE DEF d, o
  <2> QED BY <1>2, <1>4, <1>5, <2>1, <2>2, <2>3 DEF t
<1>6. ASSUME NEW field, field.size \in Nat \ {0}, field.kind = d.value.kind, field.of = d.value.of,
             file' = PatchedWords(Patched(file, pos, field), d.home, <<pos>>),
             offset' = d.home + 4, pos' = pos + field.size,
             \A t \in DOMAIN strings' : \/ t \in DOMAIN strings /\ strings'[t] = strings[t]
                                        \/ d.value = Text(t) /\ strings'[t] = pos
      PROVE  WriterInvariant'
  <2> DEFINE f == Patched(file, pos, field)
  <2>1. /\ DOMAIN file \subseteq DOMAIN f /\ \A p \in DOMAIN file : f[p] = file[p]
        /\ pos \in DOMAIN f /\ f[pos] = field /\ LaidOut(f, pos + field.size)
    <3>1. field.size \in Nat \ {0} BY <1>6
    <3> QED BY <1>2, <3>1, Extending
  <2>2. Keeps(file, f, {}) BY <2>1 DEF Keeps
  <2>3. pos' \in Nat BY <1>2, <1>6
  <2> HIDE DEF d, f
  <2>4. file' = PatchedWords(f, d.home, <<pos>>) BY <1>6 DEF f
  <2> QED BY <1>4, <1>6, <2>1, <2>2, <2>3, <2>4
<1>7. CASE d.value.kind = "text" /\ FlushText(d.home, d.value.of)
  <2> DEFINE t == d.value.of
             field == Field(Text(t), TextLength(t, pos))
  <2>1. t \in Texts BY <1>3, <1>7 DEF Values
  <2>2. TextLength(t, pos) \in Nat \ {0}
    <3>1. TextSize[t] \in Nat \ {0} BY <2>1, TextAssumption
    <3>2. Padding(pos + TextSize[t]) \in Nat BY <1>2, <3>1 DEF Padding
    <3> QED BY <3>1, <3>2 DEF TextLength
  <2>3. field.size \in Nat \ {0} /\ field.kind = d.value.kind /\ field.of = d.value.of
    BY <1>7, <2>2 DEF Field, Text
  <2>4. d.value = Text(t) BY <1>3, <1>7 DEF Values, Text
  <2>5. /\ file' = PatchedWords(Patched(file, pos, field), d.home, <<pos>>)
        /\ offset' = d.home + 4 /\ pos' = pos + field.size
        /\ strings' = [s \in DOMAIN strings \cup {t} |-> IF s = t THEN pos ELSE strings[s]]
    BY <1>7 DEF FlushText, PointAt
  <2>6. \A s \in DOMAIN strings' : \/ s \in DOMAIN strings /\ strings'[s] = strings[s]
                                   \/ d.value = Text(s) /\ strings'[s] = pos
    BY <2>4, <2>5
  <2> HIDE DEF d, field
  <2> QED BY <1>6, <2>3, <2>5, <2>6
<1>8. CASE d.value.kind = "long" /\ FlushLong(d.home, d.value.of)
  <2> DEFINE field == Field(Long(d.value.of), 8)
  <2>1. field.size = 8 /\ field.kind = d.value.kind /\ field.of = d.value.of
    BY <1>8 DEF Field, Long
  <2>2. /\ file' = PatchedWords(Patched(file, pos, field), d.home, <<pos>>)
        /\ offset' = d.home + 4 /\ pos' = pos + field.size /\ strings' = strings
    BY <1>8, <2>1 DEF FlushLong, PointAt, LongLength
  <2> HIDE DEF d, field
  <2> QED BY <1>6, <2>1, <2>2
<1> QED BY <1>5, <1>7, <1>8 DEF Flush, FlushNext

(* Without a file there is nothing to spoil.                               *)
LEMMA Nothing == DOMAIN <<>> = {} /\ Len(<<>>) = 0 /\ (\A S : <<>> \in Seq(S)) /\ LaidOut(<<>>, Start)
<1>1. DOMAIN <<>> = {} /\ Len(<<>>) = 0 /\ \A S : <<>> \in Seq(S) OBVIOUS
<1> QED BY <1>1 DEF LaidOut

LEMMA NoFileStep ==
    ASSUME NoFile, state' \in {"idle", "failed"}
    PROVE  WriterInvariant'
<1>1. /\ file' = <<>> /\ offset' = Start /\ pos' = Start
      /\ strings' = <<>> /\ deferred' = <<>> /\ promised' = <<>> /\ calls' = <<>>
      /\ source' = <<>> /\ todo' = <<>>
  BY DEF NoFile
<1>2. BuilderTypeOK' BY <1>1, Nothing, StartAssumption DEF BuilderTypeOK
<1>3. Nested' BY <1>1, Nothing DEF Nested
<1>4. LaidOut(file, pos)' BY <1>1, Nothing DEF LaidOut
<1>5. Homes' /\ Interned' /\ Slots' BY <1>1, Nothing DEF Homes, Interned, Slots
<1>6. Positioned' /\ PromisesKept' BY <1>1, Nothing DEF Positioned, PromisesKept
<1> QED BY <1>2, <1>3, <1>4, <1>5, <1>6 DEF WriterInvariant

LEMMA SortingType ==
    ASSUME NEW ts \in Seq(Tables), NEW sorted \in Sortings(ts)
    PROVE  sorted \in Seq(Tables)
<1>1. PICK p \in [1..Len(ts) -> 1..Len(ts)] : sorted = [i \in 1..Len(ts) |-> ts[p[i]]]
  BY DEF Sortings
<1>2. \A i \in 1..Len(ts) : ts[p[i]] \in Tables
  <2> TAKE i \in 1..Len(ts)
  <2>1. p[i] \in 1..Len(ts) OBVIOUS
  <2> QED BY <2>1
<1> QED BY <1>1, <1>2

(* Tables keep their rows when they are sorted.                            *)
LEMMA SortedBuild ==
    ASSUME NEW given, NEW from, IsBuild(given, from), NEW ts \in Sortings(given)
    PROVE  IsBuild(ts, from)
<1>1. given \in Seq(Tables) BY DEF IsBuild
<1>2. ts \in Seq(Tables) BY <1>1, SortingType
<1>3. PICK p \in [1..Len(given) -> 1..Len(given)] : ts = [i \in 1..Len(given) |-> given[p[i]]]
  BY DEF Sortings
<1>4. Len(ts) = Len(given) BY <1>1, <1>3
<1>5. \A i \in 1..Len(ts) : ts[i].name \in DOMAIN from
  <2> TAKE i \in 1..Len(ts)
  <2>1. p[i] \in 1..Len(given) /\ ts[i] = given[p[i]] BY <1>3, <1>4
  <2> QED BY <2>1 DEF IsBuild
<1> QED BY <1>2, <1>5 DEF IsBuild

LEMMA TableJobsType ==
    ASSUME NEW ts \in Seq(Tables), \A i \in 1..Len(ts) : ts[i].name \in DOMAIN source'
    PROVE  TableJobs(ts) \in Seq(Jobs') /\ Len(TableJobs(ts)) = 2 * Len(ts)
<1>1. ASSUME NEW i \in 1..2 * Len(ts)
      PROVE  Job(IF i % 2 = 1 THEN "description" ELSE "rows", ts[(i + 1) \div 2]) \in Jobs'
  <2>1. (i + 1) \div 2 \in 1..Len(ts) OBVIOUS
  <2>2. ts[(i + 1) \div 2] \in Tables /\ ts[(i + 1) \div 2].name \in DOMAIN source' BY <2>1
  <2> QED BY <2>2 DEF Job, Jobs
<1> QED BY <1>1 DEF TableJobs

LEMMA BeginFlushStep ==
    ASSUME NEW ts, NEW from, IsBuild(ts, from), BeginFlush(ts, from)
    PROVE  WriterInvariant'
<1> DEFINE n == Len(ts)
           words == <<n, Start + 8>> \o [i \in 1..2 * n |-> 0]
           call == Call(Start + 8, TableJobs(ts))
           end == Start + 8 + 8 * n
<1>1. ts \in Seq(Tables) /\ n \in Nat BY DEF IsBuild
<1>2. Start \in Nat /\ end \in Nat BY <1>1, StartAssumption
<1>3. /\ file' = PatchedWords(<<>>, Start, words) /\ offset' = end /\ pos' = end
      /\ calls' = <<call>> /\ strings' = <<>> /\ deferred' = <<>> /\ promised' = <<>>
      /\ state' = "job" /\ todo' = <<>> /\ source' = from
  BY DEF BeginFlush
<1>4. /\ \A t \in DOMAIN source' : source'[t] \in [rows : Seq(Rows), err : BOOLEAN]
      /\ \A i \in 1..Len(ts) : ts[i].name \in DOMAIN source'
  BY <1>3 DEF IsBuild
<1>5. TableJobs(ts) \in Seq(Jobs') /\ Len(TableJobs(ts)) = 2 * n
  BY <1>1, <1>4, TableJobsType
<1>6. Len(words) = 2 + 2 * n
  <2>1. <<n, Start + 8>> \in Seq(Nat) /\ Len(<<n, Start + 8>>) = 2 BY <1>1, <1>2
  <2>2. [i \in 1..2 * n |-> 0] \in Seq(Nat) /\ Len([i \in 1..2 * n |-> 0]) = 2 * n BY <1>1
  <2> QED BY <2>1, <2>2
<1> HIDE DEF words
<1>7. /\ \A i \in 1..Len(words) : /\ Start + 4 * (i - 1) \in DOMAIN file'
                                  /\ file'[Start + 4 * (i - 1)] = Field(Word(words[i]), 4)
      /\ LaidOut(file', Start + 4 * Len(words))
  <2>1. Len(words) \in Nat BY <1>1, <1>6
  <2> QED BY <1>2, <1>3, <2>1, Nothing, Appending
<1>8. Start + 4 * Len(words) = end BY <1>1, <1>2, <1>6
<1>9. LaidOut(file, pos)' BY <1>3, <1>7, <1>8 DEF LaidOut
<1>10. /\ call \in Calls' /\ call.slot = Start + 8 /\ call.work = TableJobs(ts)
  BY <1>2, <1>5 DEF Call, Calls
<1>11. calls' \in Seq(Calls') /\ Len(calls') = 1 /\ calls'[1] = call BY <1>3, <1>10
<1>12. BuilderTypeOK' BY <1>2, <1>3, <1>4, <1>11, Nothing DEF BuilderTypeOK
<1>13. Nested' BY <1>3, <1>11 DEF Nested
<1>14. Homes' /\ Interned' /\ PromisesKept' BY <1>3, Nothing DEF Homes, Interned, PromisesKept
<1>15. Slots'
  <2> SUFFICES ASSUME NEW k \in 1..2 * n
               PROVE  IsPlace(file', Slot(call, k)) /\ Slot(call, k) \notin DOMAIN promised'
    BY <1>5, <1>10, <1>11 DEF Slots, Slot
  <2> DEFINE i == k + 2
  <2>1. i \in 1..Len(words) /\ Slot(call, k) = Start + 4 * (i - 1)
    BY <1>1, <1>2, <1>6, <1>10 DEF Slot
  <2> HIDE DEF i
  <2>2. /\ Start + 4 * (i - 1) \in DOMAIN file'
        /\ file'[Start + 4 * (i - 1)] = Field(Word(words[i]), 4)
    BY <1>7, <2>1
  <2> QED BY <1>3, <2>1, <2>2, Nothing, WordPlace DEF IsPlace
<1>16. Positioned' BY <1>3 DEF Positioned
<1> QED BY <1>9, <1>12, <1>13, <1>14, <1>15, <1>16 DEF WriterInvariant

(* The steps of Builder.Flush.                                             *)
LEMMA FlushStepStep == ASSUME WriterInvariant, FlushStep PROVE WriterInvariant'
<1>1. BuilderTypeOK /\ Nested BY DEF WriterInvariant
<1>2. CASE WriteDescription
  <2>1. Due("description") /\ BeginPutting(DescriptionOf(Given)) BY <1>2 DEF WriteDescription
  <2>2. DescriptionOf(Given) \in Seq(Items) BY <1>1, <2>1, GivenTypes, DescriptionType
  <2>3. state = "job" /\ Inner.work # <<>> BY <2>1 DEF Due
  <2> QED BY <2>1, <2>2, <2>3, BeginPuttingStep
<1>3. CASE WriteRow
  <2>1. Due("row") /\ Writes(Given) /\ BeginPutting(RowOf(Given)) BY <1>3 DEF WriteRow
  <2>2. RowOf(Given) \in Seq(Items) BY <1>1, <2>1, GivenTypes, RowType
  <2>3. state = "job" /\ Inner.work # <<>> BY <2>1 DEF Due
  <2> QED BY <2>1, <2>2, <2>3, BeginPuttingStep
<1>4. CASE WriteRows
  <2>1. Due("rows") BY <1>4 DEF WriteRows
  <2>2. PICK buckets \in BucketsOf(Given) :
            BeginArray(<<Len(buckets)>>,
                       [b \in 1..Len(buckets) |-> Job("bucket", buckets[b])], TRUE)
    BY <1>4 DEF WriteRows
  <2>3. Given \in Tables /\ Given.name \in DOMAIN source BY <1>1, <2>1, GivenTypes
  <2>4. source[Given.name].rows \in Seq(Rows) BY <1>1, <2>3 DEF BuilderTypeOK
  <2>5. buckets \in Seq(Seq(Rows))
    <3>1. CASE Given.columns = <<>> BY <2>2, <3>1, Nothing DEF BucketsOf
    <3>2. CASE Given.columns # <<>>
      <4>1. Identified(source[Given.name].rows)
        BY <1>4, <2>3, <2>4, <3>2, CollectsIdentified DEF WriteRows
      <4> QED BY <2>2, <2>4, <3>2, <4>1, BucketsType DEF BucketsOf
    <3> QED BY <3>1, <3>2
  <2>6. Len(buckets) \in Nat /\ \A b \in 1..Len(buckets) : Job("bucket", buckets[b]) \in Jobs
    BY <2>5, JobsTypes
  <2>7. [b \in 1..Len(buckets) |-> Job("bucket", buckets[b])] \in Seq(Jobs) BY <2>6
  <2>8. <<Len(buckets)>> \in Seq(Nat) BY <2>6
  <2>9. state = "job" /\ Inner.work # <<>> BY <2>1 DEF Due
  <2> QED BY <2>2, <2>7, <2>8, <2>9, OpenArrayStep
<1>5. CASE WriteBucket
  <2>1. Due("bucket") /\ Given # <<>> /\ BeginArray(<<>>, RowAndRest(Given), FALSE)
    BY <1>5 DEF WriteBucket
  <2>2. Given \in Seq(Rows) BY <1>1, <2>1, GivenTypes
  <2>3. Head(Given) \in Rows /\ Tail(Given) \in Seq(Rows)
    <3> HIDE DEF Rows
    <3> QED BY <2>1, <2>2, HeadType
  <2>4. Job("row", Head(Given)) \in Jobs /\ Job("bucket", Tail(Given)) \in Jobs BY <2>3, JobsTypes
  <2>5. RowAndRest(Given) \in Seq(Jobs) BY <2>4 DEF RowAndRest
  <2>6. state = "job" /\ Inner.work # <<>> BY <2>1 DEF Due
  <2>7. <<>> \in Seq(Nat) OBVIOUS
  <2> QED BY <2>1, <2>5, <2>6, <2>7, OpenArrayStep
<1>6. CASE NoBucket BY <1>6, SkipStep DEF NoBucket, Due
<1>7. CASE PutNext BY <1>7, PutNextStep
<1>8. CASE Flush BY <1>8, FlushValueStep
<1>9. CASE EndElement
  <2>1. /\ state = "put" /\ todo = <<>> /\ Return(calls) /\ state' = "job"
        /\ UNCHANGED <<tables, source, todo>>
    BY <1>9 DEF EndElement
  <2>2. /\ calls \in Seq(Calls) /\ calls # <<>> /\ Len(calls) \in Nat /\ Inner = calls[Len(calls)]
        /\ Inner.work # <<>>
    BY <1>1, <2>1, InnerType DEF Nested
  <2> QED BY <2>1, <2>2, ReturnStep
<1>10. CASE EndArray
  <2> DEFINE n == Len(calls)
             stack == SubSeq(calls, 1, n - 1)
  <2>1. /\ state = "job" /\ n > 1 /\ Return(stack) /\ UNCHANGED <<state, tables, source, todo>>
    BY <1>10 DEF EndArray, builder
  <2>2. calls \in Seq(Calls) /\ n \in Nat BY <1>1 DEF BuilderTypeOK
  <2>3. /\ stack \in Seq(Calls) /\ Len(stack) = n - 1 /\ stack # <<>>
        /\ \A i \in 1..n - 1 : stack[i] = calls[i]
    <3> HIDE DEF Calls
    <3>1. n - 1 \in 1..n BY <2>1, <2>2
    <3>2. Len(stack) = n - 1 /\ \A i \in 1..n - 1 : stack[i] = calls[i] BY <2>2, <3>1
    <3>3. stack \in Seq(Calls) BY <2>2, <3>1, <3>2
    <3> HIDE DEF stack
    <3>4. stack # <<>> BY <2>1, <2>2, <3>2, Nothing
    <3> QED BY <3>2, <3>3, <3>4
  <2>4. stack[n - 1].work # <<>> BY <1>1, <2>1, <2>2, <2>3 DEF Nested
  <2>5. todo' \in Seq(Items) BY <1>1, <2>1 DEF BuilderTypeOK
  <2> HIDE DEF stack
  <2>6. /\ Len(stack) <= n /\ \A i \in 1..Len(stack) : stack[i] = calls[i]
        /\ stack[Len(stack)].work # <<>>
    BY <2>2, <2>3, <2>4
  <2> QED BY <2>1, <2>3, <2>5, <2>6, ReturnStep
<1>11. CASE EndFlush
  <2>1. state' = "built" /\ UNCHANGED writer /\ UNCHANGED <<tables, source, todo>>
    BY <1>11 DEF EndFlush
  <2>2. UNCHANGED <<file, offset, pos, strings, deferred, calls, promised>> BY <2>1 DEF writer
  <2>3. BuilderTypeOK'
    BY <2>1, <2>2, JobsStay DEF BuilderTypeOK, WriterInvariant, Items, Values
  <2>4. Nested' BY <2>1, <2>2 DEF Nested, WriterInvariant
  <2>5. LaidOut(file, pos)' BY <2>2 DEF WriterInvariant, LaidOut
  <2>6. Homes' /\ Interned' BY <2>2 DEF WriterInvariant, Homes, Interned, Holds, IsPlace, Values
  <2>7. Slots' BY <2>2 DEF WriterInvariant, Slots, Slot, IsPlace
  <2>8. Positioned' BY <2>1 DEF Positioned
  <2>9. PromisesKept' BY <2>2 DEF WriterInvariant, PromisesKept, Pending, IsWord, Holds
  <2> QED BY <2>3, <2>4, <2>5, <2>6, <2>7, <2>8, <2>9 DEF WriterInvariant
<1>12. CASE RowsFail \/ RowFails BY <1>12, NoFileStep DEF RowsFail, RowFails, Fail
<1> QED BY <1>2, <1>3, <1>4, <1>5, <1>6, <1>7, <1>8, <1>9, <1>10, <1>11, <1>12 DEF FlushStep

THEOREM Initially == Init => WriterInvariant
<1> SUFFICES ASSUME Init PROVE WriterInvariant OBVIOUS
<1>1. /\ file = <<>> /\ offset = Start /\ pos = Start
      /\ strings = <<>> /\ deferred = <<>> /\ promised = <<>> /\ calls = <<>>
      /\ state = "idle" /\ source = <<>> /\ todo = <<>>
  BY DEF Init, BuilderInit
<1>2. BuilderTypeOK BY <1>1, Nothing, StartAssumption DEF BuilderTypeOK
<1>3. Nested BY <1>1, Nothing DEF Nested
<1>4. LaidOut(file, pos) BY <1>1, Nothing
<1>5. Homes /\ Interned /\ Slots BY <1>1, Nothing DEF Homes, Interned, Slots
<1>6. Positioned /\ PromisesKept BY <1>1, Nothing DEF Positioned, PromisesKept
<1> QED BY <1>2, <1>3, <1>4, <1>5, <1>6 DEF WriterInvariant

LEMMA Unchanged == ASSUME WriterInvariant, UNCHANGED <<writer, builder>> PROVE WriterInvariant'
<1>1. /\ UNCHANGED <<file, offset, pos, strings, deferred, calls, promised>>
      /\ UNCHANGED <<state, tables, source, todo>>
  BY DEF writer, builder
<1>2. BuilderTypeOK' BY <1>1, JobsStay DEF BuilderTypeOK, WriterInvariant, Items, Values
<1>3. Nested' BY <1>1 DEF Nested, WriterInvariant, Inner
<1>4. LaidOut(file, pos)' BY <1>1 DEF WriterInvariant, LaidOut
<1>5. Homes' /\ Interned' BY <1>1 DEF WriterInvariant, Homes, Interned, Holds, IsPlace, Values
<1>6. Slots' BY <1>1 DEF WriterInvariant, Slots, Slot, IsPlace
<1>7. Positioned' BY <1>1 DEF WriterInvariant, Positioned
<1>8. PromisesKept' BY <1>1 DEF WriterInvariant, PromisesKept, Pending, IsWord, Holds
<1> QED BY <1>2, <1>3, <1>4, <1>5, <1>6, <1>7, <1>8 DEF WriterInvariant

THEOREM Preserved == WriterInvariant /\ [Next]_vars => WriterInvariant'
<1> SUFFICES ASSUME WriterInvariant, [Next]_vars PROVE WriterInvariant' OBVIOUS
<1>1. CASE Build(Builds)
  <2>1. PICK b \in Builds : \E ts \in Sortings(b.tables) : BeginFlush(ts, b.source)
    BY <1>1 DEF Build
  <2>2. PICK ts \in Sortings(b.tables) : BeginFlush(ts, b.source) BY <2>1
  <2> QED BY <2>2, BuildAssumption, SortedBuild, BeginFlushStep
<1>2. CASE Forget BY <1>2, NoFileStep DEF Forget
<1>3. CASE BuildStep
  <2>1. CASE FlushStep BY <2>1, FlushStepStep
  <2>2. CASE WriteFails BY <2>2, NoFileStep DEF WriteFails, Fail
  <2> QED BY <1>3, <2>1, <2>2 DEF BuildStep
<1>4. CASE Open \/ Read \/ NextRow \/ Look BY <1>4, Unchanged DEF Open, Read, NextRow, Look
<1>5. CASE UNCHANGED vars BY <1>5, Unchanged DEF vars
<1> QED BY <1>1, <1>2, <1>3, <1>4, <1>5 DEF Next

(* In every file that is being built, or is built, from any tables and rows*)
(* and whatever fails, a pointer that has been set leads to the value it   *)
(* was set for: deferred.Writer keeps its own count of where the file ends,*)
(* while the handle goes back to every pointer and on.                     *)
THEOREM PointersLeadToTheirValues == Spec => []PromisesKept
<1>1. WriterInvariant => PromisesKept BY DEF WriterInvariant
<1> QED BY <1>1, Initially, Preserved, PTL DEF Spec

(* Where the builder puts words, the handle stands where the writer counts *)
(* the end of the file.                                                    *)
THEOREM HandleStandsAtTheEnd == Spec => []Positioned
<1>1. WriterInvariant => Positioned BY DEF WriterInvariant
<1> QED BY <1>1, Initially, Preserved, PTL DEF Spec

(* No field of a file overlaps another, and every place that waits for a   *)
(* pointer is there for it.                                                *)
THEOREM WriterInvariantHolds == Spec => []WriterInvariant
BY Initially, Preserved, PTL DEF Spec

-----------------------------------------------------------------------------
(* What no step of a build spoils: fields that wait for nothing.           *)
Steady ==
    /\ source' = source
    /\ \A p \in DOMAIN file : ~Waits(p) =>
          p \in DOMAIN file' /\ file'[p] = file[p] /\ ~Waits(p)'
    /\ \A s \in DOMAIN owed : s \in DOMAIN owed' /\ owed'[s] = owed[s]

LEMMA WaitingIsPlace == ASSUME WriterInvariant, NEW o, Waits(o) PROVE IsPlace(file, o)
<1>1. CASE o \in Pending
  <2>1. PICK i \in 1..Len(deferred) : o = deferred[i].home BY <1>1 DEF Pending
  <2> QED BY <2>1 DEF WriterInvariant, Homes
<1>2. CASE \E i \in 1..Len(calls) : \E k \in 1..Len(calls[i].work) : o = Slot(calls[i], k)
  BY <1>2 DEF WriterInvariant, Slots
<1> QED BY <1>1, <1>2 DEF Waits

LEMMA LeadsStays ==
    ASSUME WriterInvariant, Steady, NEW o, NEW item, Leads(o, item)
    PROVE  Leads(o, item)'
<1>1. o \in DOMAIN file /\ file[o].kind = "word" /\ ~Waits(o) BY DEF Leads, IsWord
<1>2. o \in DOMAIN file' /\ file'[o] = file[o] /\ ~Waits(o)' BY <1>1 DEF Steady
<1>3. IsWord(o)' BY <1>1, <1>2 DEF IsWord
<1>4. ASSUME item.kind \in {"text", "long"}
      PROVE  Holds(file[o].of, item.kind)' /\ (file[file[o].of].of = item.of)'
  <2> DEFINE q == file[o].of
  <2>1. q \in DOMAIN file /\ file[q].kind = item.kind /\ file[q].of = item.of
    BY <1>4 DEF Leads, Holds
  <2>2. ~Waits(q) BY <1>4, <2>1, WaitingIsPlace DEF IsPlace
  <2>3. q \in DOMAIN file' /\ file'[q] = file[q] BY <2>1, <2>2 DEF Steady
  <2> QED BY <1>2, <2>1, <2>3 DEF Holds
<1>5. /\ item.kind = "word" => file'[o].of = item.of
      /\ item.kind = "pointer" => file'[o].of = Behind(o)
  BY <1>2 DEF Leads
<1>6. ~Waits(o)' BY <1>2
<1> QED BY <1>3, <1>4, <1>5, <1>6 DEF Leads

LEMMA StoredStays ==
    ASSUME WriterInvariant, Steady, NEW o, NEW items, Stored(o, items)
    PROVE  Stored(o, items)'
BY LeadsStays DEF Stored

LEMMA OwesStays ==
    ASSUME Steady, NEW o, NEW job, Owes(o, job)
    PROVE  Owes(o, job)'
BY DEF Steady, Owes

LEMMA FulfilledStays ==
    ASSUME WriterInvariant, Steady, NEW o, NEW job, Fulfilled(o, job)
    PROVE  Fulfilled(o, job)'
<1>1. ASSUME job.job = "description" PROVE Stored(o, DescriptionOf(job.given))'
  <2>1. Stored(o, DescriptionOf(job.given)) BY <1>1 DEF Fulfilled
  <2> QED BY <2>1, StoredStays
<1>2. ASSUME job.job = "rows" PROVE BucketsAt(o, job.given)'
  <2> DEFINE table == job.given
  <2>1. BucketsAt(o, table) BY <1>2 DEF Fulfilled
  <2>2. PICK buckets \in BucketsOf(table) :
          /\ Stored(o, <<Word(Len(buckets)), Pointer>>)
          /\ \A b \in 1..Len(buckets) : Owes(o + 8 + 4 * (b - 1), Job("bucket", buckets[b]))
    BY <2>1 DEF BucketsAt
  <2>3. source' = source BY DEF Steady
  <2>4. (BucketsOf(table))' = BucketsOf(table) BY <2>3 DEF BucketsOf
  <2>5. table.columns # <<>> => Collects(table)' BY <2>1, <2>3 DEF BucketsAt, Collects
  <2>6. Stored(o, <<Word(Len(buckets)), Pointer>>)' BY <2>2, StoredStays
  <2>7. \A b \in 1..Len(buckets) : Owes(o + 8 + 4 * (b - 1), Job("bucket", buckets[b]))'
    BY <2>2, OwesStays
  <2> QED BY <2>2, <2>4, <2>5, <2>6, <2>7 DEF BucketsAt
<1>3. ASSUME job.job = "bucket" PROVE RowAndRestAt(o, job.given)'
  <2>1. RowAndRestAt(o, job.given) BY <1>3 DEF Fulfilled
  <2>2. CASE job.given = <<>> BY <2>1, <2>2 DEF RowAndRestAt
  <2>3. CASE job.given # <<>>
    <3>1. Owes(o, Job("row", Head(job.given))) /\ Owes(o + 4, Job("bucket", Tail(job.given)))
      BY <2>1, <2>3 DEF RowAndRestAt
    <3>2. Owes(o, Job("row", Head(job.given)))' /\ Owes(o + 4, Job("bucket", Tail(job.given)))'
      BY <3>1, OwesStays
    <3> QED BY <2>3, <3>2 DEF RowAndRestAt
  <2> QED BY <2>2, <2>3
<1>4. ASSUME job.job = "row" PROVE Writes(job.given) /\ Stored(o, RowOf(job.given))'
  <2>1. Writes(job.given) /\ Stored(o, RowOf(job.given)) BY <1>4 DEF Fulfilled
  <2> QED BY <2>1, StoredStays
<1> QED BY <1>1, <1>2, <1>3, <1>4 DEF Fulfilled

(* A write that changes places that wait, and adds others.                 *)
LEMMA WritesAreSteady ==
    ASSUME WriterInvariant, NEW H, Keeps(file, file', H), \A h \in H : Waits(h),
           \A p \in DOMAIN file : Waits(p)' => Waits(p),
           source' = source, \A s \in DOMAIN owed : s \in DOMAIN owed' /\ owed'[s] = owed[s]
    PROVE  Steady
BY DEF Steady, Keeps

LEMMA WaitsAlike ==
    ASSUME deferred' = deferred, NEW n, n = Len(calls), Len(calls') = n,
           \A i \in 1..n : calls'[i].work = calls[i].work /\ calls'[i].slot = calls[i].slot
    PROVE  \A o : Waits(o)' <=> Waits(o)
BY DEF Waits, Pending, Slot

(* What a place has been made for stays so, and one that waits no more is  *)
(* set.                                                                    *)
LEMMA OwedKeptStays ==
    ASSUME WriterInvariant, OwedOnce, OwedKept, Steady,
           NEW s \in DOMAIN owed,
           Waits(s)' => Waits(s) /\ file'[s] = file[s],
           Waits(s) /\ ~Waits(s)' => Fulfilled(file[s].of, owed[s])'
    PROVE  IF Waits(s)' THEN owed'[s].job = "bucket" => file'[s].of = noData
           ELSE Fulfilled(file[s].of, owed[s])'
<1>1. s \in DOMAIN file BY DEF OwedOnce, IsPlace
<1>2. owed'[s] = owed[s] BY DEF Steady
<1>3. CASE Waits(s) /\ Waits(s)' BY <1>2, <1>3 DEF OwedKept
<1>4. CASE Waits(s) /\ ~Waits(s)' BY <1>4
<1>5. CASE ~Waits(s)
  <2>1. file'[s] = file[s] /\ ~Waits(s)' BY <1>1, <1>5 DEF Steady
  <2>2. PICK o, job : o = file[s].of /\ job = owed[s] OBVIOUS
  <2>3. Fulfilled(o, job) BY <1>5, <2>2 DEF OwedKept
  <2>4. Fulfilled(o, job)' BY <2>3, FulfilledStays
  <2> QED BY <1>2, <2>1, <2>2, <2>4
<1> QED BY <1>3, <1>4, <1>5

LEMMA HeadedStays ==
    ASSUME WriterInvariant, Steady, Headed, tables' = tables,
           state \in {"job", "put", "built"}, pos' < noData
    PROVE  Headed'
<1>1. (<<Word(Len(tables)), Word(Start + 8)>>)' = <<Word(Len(tables)), Word(Start + 8)>>
      /\ TableJobs(tables)' = TableJobs(tables)
  BY DEF Word, TableJobs, Job
<1>2. PICK items, jobs : items = <<Word(Len(tables)), Word(Start + 8)>> /\ jobs = TableJobs(tables)
  OBVIOUS
<1>3. Stored(Start, items)' BY <1>2, StoredStays DEF Headed
<1>4. ASSUME NEW k \in 1..2 * Len(tables) PROVE Owes(Start + 8 + 4 * (k - 1), jobs[k])'
  <2>1. PICK job : job = jobs[k] OBVIOUS
  <2>2. Owes(Start + 8 + 4 * (k - 1), job) BY <1>2, <2>1 DEF Headed
  <2> QED BY <2>1, <2>2, OwesStays
<1> QED BY <1>1, <1>2, <1>3, <1>4 DEF Headed

LEMMA OpenedStays ==
    ASSUME WriterInvariant, Steady, NEW i, NEW at, NEW job,
           job.job \in {"rows", "bucket"} /\ Fulfilled(at, job),
           at = calls'[i].at, job = Head(calls'[i].work)
    PROVE  Head(calls'[i].work).job \in {"rows", "bucket"}
           /\ Fulfilled(calls[i].at, Head(calls[i].work))'
<1>1. Fulfilled(at, job)' BY FulfilledStays
<1> QED BY <1>1

(* The places of the elements that are left, d of them less in each call.  *)
LEMMA OwedOnceStays ==
    ASSUME OwedOnce, source' = source, owed' = owed, UNCHANGED promised,
           \A h : IsPlace(file, h) => IsPlace(file', h),
           NEW m \in Nat, Len(calls') = m, 1..m \subseteq 1..Len(calls), NEW d \in [1..m -> {0, 1}],
           \A i \in 1..m : \A k \in 1..Len(calls'[i].work) :
              /\ k + d[i] \in 1..Len(calls[i].work)
              /\ calls'[i].work[k] = calls[i].work[k + d[i]]
              /\ Slot(calls'[i], k) = Slot(calls[i], k + d[i])
    PROVE  OwedOnce'
<1>1. \A s \in DOMAIN owed' : IsPlace(file', s) /\ s \notin DOMAIN promised' /\ owed'[s] \in Jobs'
  BY JobsStay DEF OwedOnce
<1>2. ASSUME NEW i \in 1..m, NEW k \in 1..Len(calls'[i].work)
      PROVE  Slot(calls'[i], k) \in DOMAIN owed' /\ owed'[Slot(calls'[i], k)] = calls'[i].work[k]
  <2>1. PICK x : x = k + d[i] OBVIOUS
  <2>2. /\ i \in 1..Len(calls) /\ x \in 1..Len(calls[i].work)
        /\ calls'[i].work[k] = calls[i].work[x] /\ Slot(calls'[i], k) = Slot(calls[i], x)
    BY <2>1
  <2>3. Owes(Slot(calls[i], x), calls[i].work[x]) BY <2>2 DEF OwedOnce
  <2> QED BY <2>2, <2>3 DEF Owes
<1>3. ASSUME NEW i \in 1..m, NEW j \in 1..m, NEW k \in 1..Len(calls'[i].work),
             NEW l \in 1..Len(calls'[j].work), Slot(calls'[i], k) = Slot(calls'[j], l)
      PROVE  i = j /\ k = l
  <2> DEFINE x == k + d[i]
             y == l + d[j]
  <2>3. /\ i \in 1..Len(calls) /\ x \in 1..Len(calls[i].work)
        /\ j \in 1..Len(calls) /\ y \in 1..Len(calls[j].work)
        /\ Slot(calls[i], x) = Slot(calls[j], y)
    BY <1>3
  <2>1. i = j /\ x = y BY <2>3 DEF OwedOnce
  <2>2. k \in Int /\ l \in Int /\ d[i] \in Int OBVIOUS
  <2> QED BY <2>1, <2>2
<1> QED BY <1>1, <1>2, <1>3 DEF OwedOnce, Owes, Slot, IsPlace

(* An element is begun.                                                    *)
LEMMA BeginPuttingContent ==
    ASSUME WriterInvariant, ContentInvariant, state = "job", Inner.work # <<>>,
           Head(Inner.work).job \in {"description", "row"},
           Head(Inner.work).job = "row" => Writes(Given),
           NEW words, words = Words(Head(Inner.work)), Len(words) \in Nat, BeginPutting(words)
    PROVE  ContentInvariant'
<1> DEFINE n == Len(calls)
<1>1. /\ calls \in Seq(Calls) /\ calls # <<>> /\ n \in Nat \ {0} /\ Inner = calls[n]
      /\ Inner \in Calls
  BY InnerType DEF WriterInvariant
<1>2. /\ Begun(Inner) \in Calls /\ Begun(Inner).work = Inner.work
      /\ Begun(Inner).slot = Inner.slot /\ Begun(Inner).at = pos
  BY <1>1 DEF Begun, Calls, WriterInvariant, BuilderTypeOK
<1>3. /\ calls' \in Seq(Calls) /\ Len(calls') = n /\ calls' # <<>> /\ calls'[n] = Begun(Inner)
      /\ \A i \in 1..n - 1 : calls'[i] = calls[i]
  BY <1>1, <1>2, Replacing DEF BeginPutting, WithInner
<1>4. \A i \in 1..n : calls'[i].work = calls[i].work /\ calls'[i].slot = calls[i].slot
  BY <1>1, <1>2, <1>3
<1>5. /\ UNCHANGED <<file, offset, pos, strings, deferred, promised, owed, tables, source>>
      /\ state' = "put" /\ todo' = words
  BY DEF BeginPutting
<1>6. \A o : Waits(o)' <=> Waits(o) BY <1>3, <1>4, <1>5, WaitsAlike
<1>7. Steady BY <1>5, <1>6 DEF Steady
<1>8. OwedOnce'
  <2> DEFINE d == [i \in 1..n |-> 0]
  <2>1. \A i \in 1..n : \A k \in 1..Len(calls'[i].work) :
          /\ k + d[i] \in 1..Len(calls[i].work)
          /\ calls'[i].work[k] = calls[i].work[k + d[i]]
          /\ Slot(calls'[i], k) = Slot(calls[i], k + d[i])
    BY <1>4 DEF Slot
  <2>2. d \in [1..n -> {0, 1}] OBVIOUS
  <2> HIDE DEF d
  <2> QED BY <1>1, <1>3, <1>5, <2>1, <2>2, OwedOnceStays DEF ContentInvariant
<1>9. OwedKept'
  <2>1. ASSUME NEW s \in DOMAIN owed
        PROVE  IF Waits(s)' THEN owed'[s].job = "bucket" => file'[s].of = noData
               ELSE Fulfilled(file[s].of, owed[s])'
    BY <1>5, <1>6, <1>7, OwedKeptStays DEF ContentInvariant
  <2> QED BY <1>5, <2>1 DEF OwedKept
<1>10. Opened'
  <2> SUFFICES ASSUME NEW i \in 1..n - 1
               PROVE  Head(calls'[i].work).job \in {"rows", "bucket"}
                      /\ Fulfilled(calls[i].at, Head(calls[i].work))'
    BY <1>3 DEF Opened
  <2>1. Head(calls[i].work).job \in {"rows", "bucket"} /\ Fulfilled(calls[i].at, Head(calls[i].work))
    BY DEF ContentInvariant, Opened
  <2> QED BY <1>3, <1>7, <2>1, OpenedStays
<1>11. PutSoFar'
  <2>1. Inner' = Begun(Inner) BY <1>3 DEF Inner
  <2>2. Head(Inner'.work) = Head(Inner.work) BY <1>2, <2>1
  <2>3. Len(words) - Len(todo') = 0 /\ \A k \in 1..Len(todo') : todo'[k] = words[0 + k]
    BY <1>5
  <2>4. pos' = Inner'.at + 4 * 0 BY <1>2, <1>5, <2>1 DEF WriterInvariant, BuilderTypeOK
  <2> QED BY <2>2, <2>3, <2>4 DEF PutSoFar, Given
<1>12. Headed' BY <1>5, <1>7, HeadedStays DEF ContentInvariant, Headed
<1>13. Settled' BY <1>5 DEF ContentInvariant, Settled
<1> QED BY <1>8, <1>9, <1>10, <1>11, <1>12, <1>13 DEF ContentInvariant

(* The element at work in the call n is done with.                         *)
LEMMA AdvancedOwed ==
    ASSUME WriterInvariant, OwedOnce, source' = source, owed' = owed, UNCHANGED promised,
           deferred = <<>>, deferred' = <<>>,
           \A h : IsPlace(file, h) => IsPlace(file', h),
           NEW n \in 1..Len(calls), calls[n].work # <<>>,
           Len(calls') = n, calls'[n] = Advanced(calls[n]),
           \A i \in 1..n - 1 : calls'[i] = calls[i],
           \A i \in n + 1..Len(calls) : calls[i].work = <<>>
    PROVE  /\ OwedOnce'
           /\ \A o : Waits(o)' <=> Waits(o) /\ o # calls[n].slot
           /\ Waits(calls[n].slot) /\ Owes(calls[n].slot, Head(calls[n].work))
<1> DEFINE call == calls[n]
           h == call.slot
           d == [i \in 1..n |-> IF i = n THEN 1 ELSE 0]
<1>0. calls \in Seq(Calls) BY DEF WriterInvariant, BuilderTypeOK
<1>1. call \in Calls /\ call.work \in Seq(Jobs) /\ Len(call.work) \in Nat \ {0} /\ n \in Nat
      /\ Len(calls) \in Nat
  <2>1. call \in Calls /\ n \in Nat /\ Len(calls) \in Nat BY <1>0
  <2>2. call.work \in Seq(Jobs) BY <2>1 DEF Calls
  <2> QED BY <2>1, <2>2
<1>2. /\ Len(Advanced(call).work) = Len(call.work) - 1
      /\ \A k \in 1..Len(call.work) - 1 : Slot(Advanced(call), k) = Slot(call, k + 1)
      /\ Slot(call, 1) = h
  BY <1>1, AdvancedType
<1>3. Head(call.work) = call.work[1] /\ 1 \in 1..Len(call.work) BY <1>1
<1>4. Advanced(call).work = Tail(call.work) BY <1>1 DEF Advanced, Calls
<1>5. \A k \in 1..Len(call.work) - 1 : Advanced(call).work[k] = call.work[k + 1]
  BY <1>1, <1>4
<1>6. Pending = {} /\ Pending' = {} BY DEF Pending
<1> HIDE DEF call
<1>7. \A i \in 1..n : \A k \in 1..Len(calls'[i].work) :
          /\ k + d[i] \in 1..Len(calls[i].work)
          /\ calls'[i].work[k] = calls[i].work[k + d[i]]
          /\ Slot(calls'[i], k) = Slot(calls[i], k + d[i])
  <2> TAKE i \in 1..n
  <2> TAKE k \in 1..Len(calls'[i].work)
  <2>1. CASE i = n
    <3>1. k \in 1..Len(call.work) - 1 /\ d[i] = 1 /\ calls'[i] = Advanced(call) /\ calls[i] = call
      BY <1>2, <2>1 DEF call
    <3> QED BY <1>1, <1>2, <1>5, <3>1
  <2>2. CASE i # n
    <3>1. i \in 1..n - 1 /\ d[i] = 0 BY <1>1, <2>2
    <3> QED BY <3>1
  <2> QED BY <2>1, <2>2
<1>8. d \in [1..n -> {0, 1}] OBVIOUS
<1>9. 1..n \subseteq 1..Len(calls) BY <1>1
<1>10. OwedOnce'
  <2> HIDE DEF d
  <2> QED BY <1>1, <1>7, <1>8, <1>9, OwedOnceStays
<1>11. Waits(h) /\ Owes(h, Head(call.work))
  <2>1. n \in 1..Len(calls) /\ 1 \in 1..Len(calls[n].work) /\ h = Slot(calls[n], 1)
    BY <1>2, <1>3 DEF call
  <2> QED BY <1>3, <2>1 DEF Waits, OwedOnce, call
<1>12. ASSUME NEW o, Waits(o), o # h PROVE Waits(o)'
  <2>5. PICK i \in 1..Len(calls) : \E k \in 1..Len(calls[i].work) : o = Slot(calls[i], k)
    BY <1>6, <1>12 DEF Waits
  <2>1. PICK k \in 1..Len(calls[i].work) : o = Slot(calls[i], k) BY <2>5
  <2>2. i \in 1..n
    <3>1. i \notin n + 1..Len(calls) BY <2>1, Nothing
    <3> QED BY <1>1, <3>1
  <2>3. CASE i = n
    <3>1. k # 1 /\ k \in 1..Len(call.work) BY <1>2, <1>12, <2>1, <2>3 DEF call
    <3> DEFINE l == k - 1
    <3>2. l \in 1..Len(call.work) - 1 /\ k = l + 1 BY <1>1, <3>1
    <3> HIDE DEF l
    <3>3. Slot(Advanced(call), l) = o BY <1>2, <2>1, <2>3, <3>2 DEF call
    <3>4. l \in 1..Len(calls'[n].work) /\ o = Slot(calls'[n], l) BY <1>2, <3>2, <3>3 DEF call
    <3> QED BY <3>4 DEF Waits, Slot
  <2>4. CASE i # n
    <3>1. i \in 1..n - 1 BY <1>1, <2>2, <2>4
    <3>2. calls'[i] = calls[i] BY <3>1
    <3>3. i \in 1..Len(calls') BY <2>2
    <3> QED BY <2>1, <3>2, <3>3 DEF Waits, Slot
  <2> QED BY <2>3, <2>4
<1>13. ASSUME NEW o, Waits(o)' PROVE Waits(o) /\ o # h
  <2>5. PICK i \in 1..n : \E k \in 1..Len(calls'[i].work) : o = Slot(calls'[i], k)
    BY <1>6, <1>13 DEF Waits, Slot
  <2>1. PICK k \in 1..Len(calls'[i].work) : o = Slot(calls'[i], k) BY <2>5
  <2> DEFINE l == k + d[i]
  <2>2. i \in 1..Len(calls) /\ l \in 1..Len(calls[i].work) /\ o = Slot(calls[i], l)
    BY <1>7, <1>9, <2>1
  <2>3. i = n => l # 1 BY <2>1
  <2> HIDE DEF l
  <2>4. o # h
    <3>1. h = Slot(calls[n], 1) /\ 1 \in 1..Len(calls[n].work) BY <1>2, <1>3 DEF call
    <3> QED BY <2>2, <2>3, <3>1 DEF OwedOnce
  <2> QED BY <2>2, <2>4 DEF Waits
<1> QED BY <1>10, <1>11, <1>12, <1>13 DEF call

LEMMA ReturnContent ==
    ASSUME WriterInvariant, ContentInvariant, state \in {"job", "put"}, state' = "job",
           deferred = <<>>,
           NEW stack \in Seq(Calls), stack # <<>>, Len(stack) <= Len(calls),
           \A i \in 1..Len(stack) : stack[i] = calls[i],
           \A i \in Len(stack) + 1..Len(calls) : calls[i].work = <<>>,
           stack[Len(stack)].work # <<>>,
           Fulfilled(stack[Len(stack)].at, Head(stack[Len(stack)].work)),
           Return(stack), UNCHANGED <<tables, source>>
    PROVE  ContentInvariant'
<1> DEFINE n == Len(stack)
           call == stack[n]
           h == call.slot
<1>1. n \in Nat \ {0} /\ call \in Calls /\ call = calls[n] OBVIOUS
<1>2. Advanced(call) \in Calls BY <1>1, AdvancedType
<1>3. /\ calls' \in Seq(Calls) /\ Len(calls') = n /\ calls' # <<>>
      /\ calls'[n] = Advanced(call) /\ \A i \in 1..n - 1 : calls'[i] = calls[i]
  <2>1. calls' = [stack EXCEPT ![n] = Advanced(call)] BY DEF Return
  <2> HIDE DEF call
  <2> QED BY <1>2, <2>1, Replacing
<1>4. Len(calls) \in Nat /\ n \in 1..Len(calls)
  BY <1>1 DEF WriterInvariant, BuilderTypeOK
<1>5. call.work \in Seq(Jobs) /\ Len(call.work) \in Nat \ {0} /\ 1 \in 1..Len(call.work)
  BY <1>1 DEF Calls
<1>6. IsPlace(file, h) /\ h = Slot(call, 1)
  BY <1>1, <1>4, <1>5, AdvancedType DEF WriterInvariant, Slots
<1>7. /\ file' = PatchedWords(file, h, <<call.at>>)
      /\ UNCHANGED <<pos, strings, deferred, promised, owed>>
  BY DEF Return
<1>8. /\ DOMAIN file' = DOMAIN file /\ \A p \in DOMAIN file \ {h} : file'[p] = file[p]
      /\ file'[h] = Field(Word(call.at), 4)
  BY <1>6, <1>7, Overwriting DEF WriterInvariant, BuilderTypeOK
<1>9. Keeps(file, file', {h}) BY <1>6, <1>8, WordPlace DEF Keeps, IsPlace
<1>10. /\ OwedOnce' /\ Waits(h) /\ Owes(h, Head(call.work))
       /\ \A o : Waits(o)' <=> Waits(o) /\ o # h
  <2>1. \A x : IsPlace(file, x) => IsPlace(file', x) BY <1>9, PlacesStay
  <2> HIDE DEF n
  <2> QED BY <1>1, <1>3, <1>4, <1>7, <2>1, AdvancedOwed DEF ContentInvariant, n
<1>11. Steady BY <1>7, <1>9, <1>10, WritesAreSteady
<1>12. OwedKept'
  <2>1. PICK at, job : at = call.at /\ job = Head(call.work) OBVIOUS
  <2>2. Fulfilled(at, job)' BY <1>11, <2>1, FulfilledStays
  <2>3. file'[h].of = at /\ owed'[h] = job BY <1>7, <1>8, <1>10, <2>1, WordPlace DEF Owes
  <2>4. ASSUME NEW s \in DOMAIN owed
        PROVE  IF Waits(s)' THEN owed'[s].job = "bucket" => file'[s].of = noData
               ELSE Fulfilled(file[s].of, owed[s])'
    <3>1. CASE s = h BY <1>10, <2>2, <2>3, <3>1
    <3>2. CASE s # h
      <4>1. file'[s] = file[s] BY <1>8, <3>2 DEF ContentInvariant, OwedOnce, IsPlace
      <4> QED BY <1>10, <1>11, <3>2, <4>1, OwedKeptStays DEF ContentInvariant
    <3> QED BY <3>1, <3>2
  <2> QED BY <1>7, <2>4 DEF OwedKept
<1>13. Opened'
  <2> SUFFICES ASSUME NEW i \in 1..n - 1
               PROVE  Head(calls'[i].work).job \in {"rows", "bucket"}
                      /\ Fulfilled(calls[i].at, Head(calls[i].work))'
    BY <1>3 DEF Opened
  <2>1. i \in 1..Len(calls) - 1 BY <1>4
  <2>2. Head(calls[i].work).job \in {"rows", "bucket"} /\ Fulfilled(calls[i].at, Head(calls[i].work))
    BY <2>1 DEF ContentInvariant, Opened
  <2> QED BY <1>3, <1>11, <2>2, OpenedStays
<1>14. PutSoFar' BY DEF PutSoFar
<1>15. Headed' BY <1>7, <1>11, HeadedStays DEF ContentInvariant, Headed
<1>16. Settled' BY <1>7 DEF ContentInvariant, Settled
<1> QED BY <1>10, <1>12, <1>13, <1>14, <1>15, <1>16 DEF ContentInvariant

(* The list of a bucket ends: its place keeps the end marker.              *)
LEMMA NoBucketContent ==
    ASSUME WriterInvariant, ContentInvariant, NoBucket
    PROVE  ContentInvariant'
<1> DEFINE n == Len(calls)
           h == Inner.slot
<1>1. state = "job" /\ Inner.work # <<>> /\ Head(Inner.work).job = "bucket" /\ Given = <<>>
  BY DEF NoBucket, Due
<1>2. /\ calls \in Seq(Calls) /\ calls # <<>> /\ n \in Nat \ {0} /\ Inner = calls[n]
      /\ Inner \in Calls
  BY <1>1, InnerType DEF WriterInvariant
<1>3. Advanced(Inner) \in Calls BY <1>1, <1>2, AdvancedType
<1>4. /\ calls' \in Seq(Calls) /\ Len(calls') = n /\ calls' # <<>> /\ calls'[n] = Advanced(Inner)
      /\ \A i \in 1..n - 1 : calls'[i] = calls[i]
  BY <1>2, <1>3, Replacing DEF NoBucket, Skip, WithInner
<1>5. /\ UNCHANGED <<file, offset, pos, strings, deferred, promised, owed>>
      /\ UNCHANGED <<state, tables, source, todo>>
  BY DEF NoBucket, Skip, builder
<1>6. deferred = <<>> BY <1>1 DEF ContentInvariant, Settled
<1>7. /\ OwedOnce' /\ Waits(h) /\ Owes(h, Head(Inner.work))
      /\ \A o : Waits(o)' <=> Waits(o) /\ o # h
  <2>1. \A x : IsPlace(file, x) => IsPlace(file', x) BY <1>5 DEF IsPlace
  <2>2. n \in 1..Len(calls) /\ \A i \in n + 1..Len(calls) : calls[i].work = <<>> BY <1>2
  <2>3. calls[n].work # <<>> BY <1>1, <1>2
  <2> HIDE DEF n
  <2> QED BY <1>2, <1>4, <1>5, <1>6, <2>1, <2>2, <2>3, AdvancedOwed DEF ContentInvariant
<1>8. Steady BY <1>5, <1>7 DEF Steady
<1>9. OwedKept'
  <2>1. file[h].of = noData BY <1>1, <1>7 DEF ContentInvariant, OwedKept, Owes
  <2>2. PICK at, job : at = noData /\ job = Head(Inner.work) OBVIOUS
  <2>3. Fulfilled(at, job)' BY <1>1, <2>2 DEF Fulfilled, RowAndRestAt, Given
  <2>4. file'[h].of = at /\ owed'[h] = job BY <1>5, <1>7, <2>1, <2>2 DEF Owes
  <2>5. ASSUME NEW s \in DOMAIN owed
        PROVE  IF Waits(s)' THEN owed'[s].job = "bucket" => file'[s].of = noData
               ELSE Fulfilled(file[s].of, owed[s])'
    <3>1. CASE s = h BY <1>7, <2>3, <2>4, <3>1
    <3>2. CASE s # h BY <1>5, <1>7, <1>8, <3>2, OwedKeptStays DEF ContentInvariant
    <3> QED BY <3>1, <3>2
  <2> QED BY <1>5, <2>5 DEF OwedKept
<1>10. Opened'
  <2> SUFFICES ASSUME NEW i \in 1..n - 1
               PROVE  Head(calls'[i].work).job \in {"rows", "bucket"}
                      /\ Fulfilled(calls[i].at, Head(calls[i].work))'
    BY <1>4 DEF Opened
  <2>1. Head(calls[i].work).job \in {"rows", "bucket"} /\ Fulfilled(calls[i].at, Head(calls[i].work))
    BY DEF ContentInvariant, Opened
  <2> QED BY <1>4, <1>8, <2>1, OpenedStays
<1>11. PutSoFar' BY <1>1, <1>5 DEF PutSoFar
<1>12. Headed' BY <1>1, <1>5, <1>8, HeadedStays DEF ContentInvariant, Headed
<1>13. Settled' BY <1>1, <1>5 DEF ContentInvariant, Settled
<1> QED BY <1>7, <1>9, <1>10, <1>11, <1>12, <1>13 DEF ContentInvariant

(* What a step of an element at work leaves as it is.                      *)
LEMMA WithinElement ==
    ASSUME WriterInvariant, ContentInvariant, state = "put", Steady,
           UNCHANGED <<calls, owed, state, tables, source>>,
           \A h : IsPlace(file, h) => IsPlace(file', h),
           \A s \in DOMAIN owed : s \notin DOMAIN promised' /\ file'[s] = file[s]
                                    /\ (Waits(s) => Waits(s)'),
           pos' < noData
    PROVE  OwedOnce' /\ OwedKept' /\ Opened' /\ Headed' /\ Settled'
<1>1. \A s \in DOMAIN owed : s \in DOMAIN file BY DEF ContentInvariant, OwedOnce, IsPlace
<1>2. OwedOnce' BY JobsStay DEF ContentInvariant, OwedOnce, Owes, Slot
<1>3. OwedKept'
  <2>1. ASSUME NEW s \in DOMAIN owed
        PROVE  IF Waits(s)' THEN owed'[s].job = "bucket" => file'[s].of = noData
               ELSE Fulfilled(file[s].of, owed[s])'
    <3>1. Waits(s)' => Waits(s) BY <1>1 DEF Steady
    <3> QED BY <3>1, OwedKeptStays DEF ContentInvariant
  <2> QED BY <2>1 DEF OwedKept
<1>4. Opened'
  <2> SUFFICES ASSUME NEW i \in 1..Len(calls) - 1
               PROVE  Head(calls'[i].work).job \in {"rows", "bucket"}
                      /\ Fulfilled(calls[i].at, Head(calls[i].work))'
    BY DEF Opened
  <2>1. Head(calls[i].work).job \in {"rows", "bucket"} /\ Fulfilled(calls[i].at, Head(calls[i].work))
    BY DEF ContentInvariant, Opened
  <2> QED BY <2>1, OpenedStays
<1>5. Headed' BY HeadedStays DEF ContentInvariant
<1>6. Settled' BY DEF ContentInvariant, Settled
<1> QED BY <1>2, <1>3, <1>4, <1>5, <1>6

LEMMA OneWord ==
    ASSUME WriterInvariant, state = "put", todo # <<>>, NEW word, PutWords(<<word>>)
    PROVE  /\ pos \notin DOMAIN file /\ Keeps(file, file', {})
           /\ pos \in DOMAIN file' /\ file'[pos] = Field(Word(word), 4)
           /\ pos' = pos + 4 /\ pos' < noData
<1> DEFINE words == <<word>>
<1>1. pos \in Nat /\ offset = pos /\ LaidOut(file, pos)
  BY DEF WriterInvariant, BuilderTypeOK, Positioned
<1>2. words \in Seq({word}) /\ Len(words) = 1 /\ words[1] = word OBVIOUS
<1>3. file' = PatchedWords(file, pos, words) /\ pos' = pos + 4 * Len(words) /\ Room(pos + 4 * Len(words))
  BY <1>1 DEF PutWords
<1> HIDE DEF words
<1>4. /\ pos \notin DOMAIN file /\ DOMAIN file \subseteq DOMAIN file'
      /\ \A p \in DOMAIN file : file'[p] = file[p]
      /\ \A i \in 1..Len(words) : /\ pos + 4 * (i - 1) \in DOMAIN file'
                                  /\ file'[pos + 4 * (i - 1)] = Field(Word(words[i]), 4)
  <2>1. Len(words) \in Nat BY <1>2
  <2> QED BY <1>1, <1>3, <2>1, Appending
<1>5. pos + 4 * (1 - 1) = pos /\ 1 \in 1..Len(words) BY <1>1, <1>2
<1>6. pos \in DOMAIN file' /\ file'[pos] = Field(Word(word), 4) BY <1>2, <1>4, <1>5
<1>7. Keeps(file, file', {}) BY <1>4 DEF Keeps
<1>8. pos' = pos + 4 /\ pos' < noData BY <1>2, <1>3 DEF Room
<1> QED BY <1>4, <1>6, <1>7, <1>8

(* One more word of the element at work is put.                            *)
LEMMA PutSoFarGrows ==
    ASSUME WriterInvariant, ContentInvariant, state = "put", Steady, todo # <<>>, todo' = Tail(todo),
           UNCHANGED <<calls, state>>, pos' = pos + 4,
           NEW end, end = pos, NEW item, item = Head(todo), IsPut(end, item)',
           \A o \in DOMAIN promised : o \in DOMAIN promised' /\ promised'[o] = promised[o]
    PROVE  PutSoFar'
<1>1. todo \in Seq(Items) /\ Len(todo) \in Nat \ {0} /\ pos \in Nat
  BY DEF WriterInvariant, BuilderTypeOK
<1>2. PICK job, at : job = Head(Inner.work) /\ at = Inner.at OBVIOUS
<1>3. PICK n : n = Len(Words(job)) - Len(todo) OBVIOUS
<1>4. /\ job.job \in {"description", "row"} /\ (job.job = "row" => Writes(job.given))
      /\ n >= 0 /\ \A k \in 1..Len(todo) : todo[k] = Words(job)[n + k]
      /\ pos = at + 4 * n
      /\ \A j \in 1..n : IsPut(at + 4 * (j - 1), Words(job)[j])
  BY <1>2, <1>3 DEF ContentInvariant, PutSoFar
<1>5. at \in Nat
  <2>1. Inner \in Calls BY InnerType DEF WriterInvariant
  <2> QED BY <1>2, <2>1 DEF Calls
<1>6. Len(Words(job)) \in Nat
  <2>1. Inner.work \in Seq(Jobs) /\ Inner.work # <<>> BY InnerType DEF WriterInvariant, Nested
  <2>2. job \in Jobs BY <1>2, <2>1, HeadType
  <2>3. CASE job.job = "description"
    <3>1. job.given \in Tables BY <2>2, <2>3 DEF Jobs
    <3>2. DescriptionOf(job.given) \in Seq(Items) BY <3>1, DescriptionType
    <3> QED BY <2>3, <3>2 DEF Words
  <2>4. CASE job.job = "row"
    <3>1. job.given \in Rows BY <2>2, <2>4 DEF Jobs
    <3>2. RowOf(job.given) \in Seq(Items) BY <1>4, <2>4, <3>1, RowType
    <3> QED BY <2>4, <3>2 DEF Words
  <2> QED BY <1>4, <2>3, <2>4
<1>7. /\ Len(todo') = Len(todo) - 1 /\ \A k \in 1..Len(todo) - 1 : todo'[k] = todo[k + 1]
      /\ item = todo[1]
  BY <1>1
<1>8. n \in Nat /\ item = Words(job)[n + 1] /\ Len(Words(job)) - Len(todo') = n + 1
  BY <1>1, <1>3, <1>4, <1>6, <1>7
<1>9. ASSUME NEW k \in 1..Len(todo') PROVE todo'[k] = Words(job)[n + 1 + k]
  <2>1. k + 1 \in 1..Len(todo) /\ todo'[k] = todo[k + 1] /\ n + (k + 1) = n + 1 + k
    BY <1>1, <1>7, <1>8
  <2> QED BY <1>4, <2>1
<1>10. pos' = at + 4 * (n + 1) BY <1>1, <1>4, <1>5, <1>8
<1>11. ASSUME NEW j \in 1..n + 1 PROVE IsPut(at + 4 * (j - 1), Words(job)[j])'
  <2>1. PICK o, x : o = at + 4 * (j - 1) /\ x = Words(job)[j] OBVIOUS
  <2>2. CASE j = n + 1
    <3>1. j - 1 = n BY <1>8, <2>2
    <3>2. o = end BY <1>4, <2>1, <3>1
    <3>3. x = item BY <1>8, <2>1, <2>2
    <3> QED BY <2>1, <3>2, <3>3
  <2>3. CASE j # n + 1
    <3>1. j \in 1..n BY <1>8, <2>3
    <3>2. IsPut(o, x) BY <1>4, <2>1, <3>1
    <3>3. IsPut(o, x)' BY <3>2, LeadsStays DEF IsPut
    <3> QED BY <2>1, <3>3
  <2> QED BY <2>2, <2>3
<1>12. Head(Inner'.work) = job /\ Inner'.at = at BY <1>2 DEF Inner
<1>13. Len(Words(job)) - Len(todo') >= 0 BY <1>8
<1> QED BY <1>4, <1>8, <1>9, <1>10, <1>11, <1>12, <1>13 DEF PutSoFar

LEMMA PutNextContent == ASSUME WriterInvariant, ContentInvariant, PutNext PROVE ContentInvariant'
<1>1. /\ state = "put" /\ todo # <<>> /\ todo' = Tail(todo)
      /\ UNCHANGED <<state, tables, source>>
  BY DEF PutNext
<1>2. PICK item, end : item = Head(todo) /\ end = pos OBVIOUS
<1>3. todo \in Seq(Items) /\ item \in Items
  BY <1>1, <1>2 DEF WriterInvariant, BuilderTypeOK
<1>4. \A s \in DOMAIN owed : s \in DOMAIN file BY DEF ContentInvariant, OwedOnce, IsPlace
<1>5. ASSUME NEW word, PutWords(<<word>>), UNCHANGED <<calls, owed>>,
             \A p \in DOMAIN file : Waits(p)' <=> Waits(p),
             \A o \in DOMAIN promised : o \in DOMAIN promised' /\ promised'[o] = promised[o],
             \A o \in DOMAIN promised' : o \in DOMAIN promised \/ o = end,
             /\ end \notin DOMAIN file /\ end \in DOMAIN file' /\ file'[end] = Field(Word(word), 4)
             => IsPut(end, item)'
      PROVE  ContentInvariant'
  <2>1. /\ end \notin DOMAIN file /\ Keeps(file, file', {})
        /\ end \in DOMAIN file' /\ file'[end] = Field(Word(word), 4)
        /\ pos' = pos + 4 /\ pos' < noData
    BY <1>1, <1>2, <1>5, OneWord
  <2>2. Steady BY <1>1, <1>5, <2>1, WritesAreSteady
  <2>3. \A h : IsPlace(file, h) => IsPlace(file', h) BY <2>1, PlacesStay
  <2>4. \A s \in DOMAIN owed : s \notin DOMAIN promised' /\ file'[s] = file[s] /\ (Waits(s) => Waits(s)')
    BY <1>4, <1>5, <2>1 DEF Keeps, ContentInvariant, OwedOnce
  <2>5. OwedOnce' /\ OwedKept' /\ Opened' /\ Headed' /\ Settled'
    BY <1>1, <1>5, <2>1, <2>2, <2>3, <2>4, WithinElement
  <2>6. PutSoFar' BY <1>1, <1>2, <1>5, <2>1, <2>2, PutSoFarGrows
  <2> QED BY <2>5, <2>6 DEF ContentInvariant
<1>6. \A o : Waits(o) => o \in DOMAIN file BY WaitingIsPlace DEF IsPlace
<1>7. CASE item.kind \in {"word", "pointer"}
  <2>1. Put(item) BY <1>2, <1>7 DEF PutNext
  <2>2. PICK word : word = IF item.kind = "pointer" THEN Behind(end) ELSE item.of OBVIOUS
  <2>3. PutWords(<<word>>) /\ UNCHANGED <<strings, deferred, calls, promised, owed>>
    BY <1>2, <2>1, <2>2 DEF Put
  <2>4. \A p : Waits(p)' <=> Waits(p) BY <2>3, WaitsAlike
  <2>5. ASSUME end \notin DOMAIN file, end \in DOMAIN file', file'[end] = Field(Word(word), 4)
        PROVE  IsPut(end, item)'
    <3>1. ~Waits(end)' BY <1>6, <2>4, <2>5
    <3>2. file'[end].kind = "word" /\ file'[end].of = word BY <2>5, WordPlace
    <3>3. IsWord(end)' BY <2>5, <3>2 DEF IsWord
    <3>4. Leads(end, item)' BY <1>7, <2>2, <3>1, <3>2, <3>3 DEF Leads, Behind
    <3> QED BY <1>7, <3>4 DEF IsPut
  <2> QED BY <1>5, <2>3, <2>4, <2>5
<1>8. CASE item.kind \notin {"word", "pointer"}
  <2>1. Defer(item) BY <1>2, <1>8 DEF PutNext
  <2>2. /\ PutWords(<<0>>) /\ deferred' = Append(deferred, [home |-> end, value |-> item])
        /\ DOMAIN promised' = DOMAIN promised \cup {end} /\ promised'[end] = item
        /\ \A h \in DOMAIN promised \ {end} : promised'[h] = promised[h]
        /\ UNCHANGED <<strings, calls, owed>>
    BY <1>2, <2>1 DEF Defer
  <2>3. end \notin DOMAIN file BY <1>1, <1>2, <2>2, OneWord
  <2>4. \A o \in DOMAIN promised : o \in DOMAIN file BY DEF WriterInvariant, Homes, IsPlace
  <2>5. Pending' = Pending \cup {end}
    <3> DEFINE d == Len(deferred)
    <3>1. deferred \in Seq([home : Nat, value : Values]) BY DEF WriterInvariant, BuilderTypeOK
    <3>2. /\ d \in Nat /\ Len(deferred') = d + 1 /\ \A i \in 1..d : deferred'[i] = deferred[i]
          /\ deferred'[d + 1] = [home |-> end, value |-> item]
      BY <2>2, <3>1
    <3>3. Pending' = {deferred'[i].home : i \in 1..d + 1} BY <3>2 DEF Pending
    <3> QED BY <3>2, <3>3 DEF Pending
  <2>6. \A p \in DOMAIN file : Waits(p)' <=> Waits(p) BY <2>2, <2>3, <2>5 DEF Waits, Slot
  <2>7. IsPut(end, item)' BY <1>8, <2>2 DEF IsPut
  <2> QED BY <1>5, <2>2, <2>3, <2>4, <2>6, <2>7
<1> QED BY <1>7, <1>8

(* A deferred value is written, or found written.                          *)
LEMMA FlushedContent ==
    ASSUME WriterInvariant, ContentInvariant, state = "put", todo = <<>>, deferred # <<>>,
           NEW o, NEW f, file' = PatchedWords(f, Head(deferred).home, <<o>>),
           Keeps(file, f, {}), pos' \in Nat, pos' < noData, LaidOut(f, pos'),
           o \in DOMAIN f, f[o].kind = Head(deferred).value.kind,
           f[o].of = Head(deferred).value.of,
           deferred' = Tail(deferred), UNCHANGED <<calls, promised, owed>>,
           UNCHANGED <<state, tables, source, todo>>
    PROVE  ContentInvariant'
<1>1. PICK h : h = Head(deferred).home OBVIOUS
<1>2. Keeps(file, file', {h}) BY <1>1, FlushedValue
<1>3. deferred \in Seq([home : Nat, value : Values]) BY DEF WriterInvariant, BuilderTypeOK
<1>4. h \in Pending /\ Pending' \subseteq Pending
  <2> DEFINE n == Len(deferred)
  <2>1. n \in Nat \ {0} /\ h = deferred[1].home /\ 1 \in 1..n BY <1>1, <1>3
  <2>2. /\ Len(deferred') = n - 1 /\ \A i \in 1..n - 1 : deferred'[i] = deferred[i + 1]
        /\ \A i \in 1..n - 1 : i + 1 \in 1..n
    BY <1>3, <2>1
  <2>3. Pending' = {deferred[i + 1].home : i \in 1..n - 1} BY <2>2 DEF Pending
  <2> QED BY <2>1, <2>2, <2>3 DEF Pending
<1>5. h \in DOMAIN promised BY <1>4 DEF WriterInvariant, Homes, Pending
<1>6. \A p : Waits(p)' => Waits(p) BY <1>4 DEF Waits, Slot
<1>7. Steady BY <1>2, <1>4, <1>6, WritesAreSteady DEF Waits
<1>8. ASSUME NEW s \in DOMAIN owed
      PROVE  s \notin DOMAIN promised' /\ file'[s] = file[s] /\ (Waits(s) => Waits(s)')
  <2>1. s \in DOMAIN file /\ s \notin DOMAIN promised BY DEF ContentInvariant, OwedOnce, IsPlace
  <2>2. file'[s] = file[s] BY <1>2, <1>5, <2>1 DEF Keeps
  <2>3. s \notin Pending BY <2>1 DEF WriterInvariant, Homes, Pending
  <2> QED BY <2>1, <2>2, <2>3 DEF Waits, Slot
<1>9. \A x : IsPlace(file, x) => IsPlace(file', x) BY <1>2, PlacesStay
<1>10. OwedOnce' /\ OwedKept' /\ Opened' /\ Headed' /\ Settled'
  BY <1>7, <1>8, <1>9, WithinElement
<1>11. PutSoFar'
  <2>1. PICK job, at : job = Head(Inner.work) /\ at = Inner.at OBVIOUS
  <2>2. /\ job.job \in {"description", "row"} /\ (job.job = "row" => Writes(job.given))
        /\ Len(Words(job)) - Len(todo) >= 0
        /\ \A k \in 1..Len(todo) : todo[k] = Words(job)[Len(Words(job)) - Len(todo) + k]
        /\ \A j \in 1..Len(Words(job)) - Len(todo) : IsPut(at + 4 * (j - 1), Words(job)[j])
    BY <2>1 DEF ContentInvariant, PutSoFar
  <2>3. ASSUME NEW j \in 1..Len(Words(job)) - Len(todo)
        PROVE  IsPut(at + 4 * (j - 1), Words(job)[j])'
    <3>1. PICK p, x : p = at + 4 * (j - 1) /\ x = Words(job)[j] OBVIOUS
    <3>2. IsPut(p, x) BY <2>2, <3>1
    <3>3. IsPut(p, x)' BY <1>7, <3>2, LeadsStays DEF IsPut
    <3> QED BY <3>1, <3>3
  <2>4. Head(Inner'.work) = job /\ Inner'.at = at BY <2>1 DEF Inner
  <2> QED BY <2>2, <2>3, <2>4 DEF PutSoFar
<1> QED BY <1>10, <1>11 DEF ContentInvariant

LEMMA FlushContent == ASSUME WriterInvariant, ContentInvariant, Flush PROVE ContentInvariant'
<1>1. PICK d : d = Head(deferred) OBVIOUS
<1>2. /\ state = "put" /\ todo = <<>> /\ deferred # <<>> /\ deferred' = Tail(deferred)
      /\ UNCHANGED <<calls, promised, owed>> /\ UNCHANGED <<state, tables, source, todo>>
  BY DEF Flush, FlushNext, builder
<1>3. deferred \in Seq([home : Nat, value : Values]) /\ pos \in Nat /\ LaidOut(file, pos) /\ pos < noData
  BY <1>2 DEF WriterInvariant, BuilderTypeOK, ContentInvariant, Headed
<1>4. d \in [home : Nat, value : Values] BY <1>1, <1>2, <1>3, HeadType
<1>5. CASE d.value.kind = "text" /\ FlushInterned(d.home, d.value.of)
  <2>1. PICK o : o = strings[d.value.of] OBVIOUS
  <2>2. /\ d.value.of \in DOMAIN strings /\ file' = PatchedWords(file, d.home, <<o>>) /\ pos' = pos
    BY <1>5, <2>1 DEF FlushInterned, PointAt
  <2>3. o \in DOMAIN file /\ file[o].kind = "text" /\ file[o].of = d.value.of
    BY <2>1, <2>2 DEF WriterInvariant, Interned, Holds
  <2>4. Keeps(file, file, {}) BY DEF Keeps
  <2> QED BY <1>1, <1>2, <1>3, <1>5, <2>2, <2>3, <2>4, FlushedContent
<1>6. ASSUME NEW field, field.size \in Nat \ {0}, field.kind = d.value.kind, field.of = d.value.of,
             file' = PatchedWords(Patched(file, pos, field), d.home, <<pos>>),
             pos' = pos + field.size, Room(pos + field.size)
      PROVE  ContentInvariant'
  <2>1. PICK o, f : o = pos /\ f = Patched(file, o, field) OBVIOUS
  <2>2. /\ DOMAIN file \subseteq DOMAIN f /\ o \in DOMAIN f
        /\ \A p \in DOMAIN file : f[p] = file[p]
        /\ f[o] = field
        /\ LaidOut(f, pos + field.size)
    BY <1>3, <1>6, <2>1, Extending
  <2>3. Keeps(file, f, {}) BY <2>2 DEF Keeps
  <2>4. pos' \in Nat /\ pos' < noData BY <1>3, <1>6 DEF Room
  <2>5. file' = PatchedWords(f, d.home, <<o>>) BY <1>6, <2>1
  <2> QED BY <1>1, <1>2, <1>6, <2>2, <2>3, <2>4, <2>5, FlushedContent
<1>7. CASE d.value.kind = "text" /\ FlushText(d.home, d.value.of)
  <2>1. PICK t, field : t = d.value.of /\ field = Field(Text(t), TextLength(t, pos)) OBVIOUS
  <2>2. t \in Texts BY <1>4, <1>7, <2>1 DEF Values
  <2>3. TextLength(t, pos) \in Nat \ {0}
    <3>1. TextSize[t] \in Nat \ {0} BY <2>2, TextAssumption
    <3>2. Padding(pos + TextSize[t]) \in Nat BY <1>3, <3>1 DEF Padding
    <3> QED BY <3>1, <3>2 DEF TextLength
  <2>4. field.size \in Nat \ {0} /\ field.kind = d.value.kind /\ field.of = d.value.of
    BY <1>7, <2>1, <2>3 DEF Field, Text
  <2>5. /\ file' = PatchedWords(Patched(file, pos, field), d.home, <<pos>>)
        /\ pos' = pos + field.size /\ Room(pos + field.size)
    BY <1>7, <2>1 DEF FlushText, PointAt
  <2> QED BY <1>6, <2>4, <2>5
<1>8. CASE d.value.kind = "long" /\ FlushLong(d.home, d.value.of)
  <2>1. PICK field : field = Field(Long(d.value.of), 8) OBVIOUS
  <2>2. field.size = 8 /\ field.kind = d.value.kind /\ field.of = d.value.of
    BY <1>8, <2>1 DEF Field, Long
  <2>3. /\ file' = PatchedWords(Patched(file, pos, field), d.home, <<pos>>)
        /\ pos' = pos + field.size /\ Room(pos + field.size)
    BY <1>8, <2>1, <2>2 DEF FlushLong, PointAt, LongLength
  <2> QED BY <1>6, <2>2, <2>3
<1> QED BY <1>1, <1>5, <1>7, <1>8 DEF Flush, FlushNext

LEMMA Strides ==
    /\ \A at, k \in Nat : k # 0 =>
          /\ at + 4 * (k - 1) \in Nat /\ at + 4 * (k - 1) >= at
          /\ ((at + 4 * (k - 1)) - at) \div 4 + 1 = k
    /\ \A at, k, l \in Nat : at + 4 * (k - 1) = at + 4 * (l - 1) => k = l
    /\ \A at, m, k \in Nat : (at + 4 * m) + 4 * (k - 1) = at + 4 * (m + k - 1)
    /\ \A at, m, k \in Nat : k <= m /\ k # 0 => at + 4 * (k - 1) < at + 4 * m
OBVIOUS

(* An array is begun where the file ends: what it puts there, and what it  *)
(* owes.                                                                   *)
LEMMA ArrayOpened ==
    ASSUME WriterInvariant, ContentInvariant, state = "job", Inner.work # <<>>,
           NEW S, NEW before \in Seq(S), NEW work \in Seq(Jobs), NEW withPointer \in BOOLEAN,
           BeginArray(before, work, withPointer)
    PROVE  LET end  == pos
               head == IF withPointer THEN before \o <<end + 4 * Len(before) + 4>> ELSE before
               at   == end + 4 * Len(head)
           IN  /\ end \in Nat /\ Len(head) \in Nat /\ at \in Nat /\ Len(work) \in Nat
               /\ Keeps(file, file', {}) /\ LaidOut(file, end) /\ pos' < noData
               /\ \A i \in 1..Len(head) :
                     /\ end + 4 * (i - 1) \in DOMAIN file'
                     /\ file'[end + 4 * (i - 1)] = Field(Word(head[i]), 4)
               /\ \A k \in 1..Len(work) :
                     /\ at + 4 * (k - 1) \in DOMAIN file'
                     /\ file'[at + 4 * (k - 1)] = Field(Word(noData), 4)
               /\ calls' = Append(WithInner(Begun(Inner)), Call(at, work))
               /\ owed' = Owing(owed, at, work)
<1>0. PICK end, head, at :
        /\ end = pos
        /\ head = IF withPointer THEN before \o <<end + 4 * Len(before) + 4>> ELSE before
        /\ at = end + 4 * Len(head)
  OBVIOUS
<1> DEFINE T == S \cup {end + 4 * Len(before) + 4, noData}
           marks == [i \in 1..Len(work) |-> noData]
           words == head \o marks
<1>1. end \in Nat /\ offset = end /\ LaidOut(file, end)
  BY <1>0 DEF WriterInvariant, BuilderTypeOK, Positioned
<1>2. /\ head \in Seq(T)
      /\ at = end + 4 * Len(before) + (IF withPointer THEN 4 ELSE 0)
  <2> DEFINE after == end + 4 * Len(before) + 4
  <2>1. before \in Seq(T) /\ Len(before) \in Nat OBVIOUS
  <2>2. <<after>> \in Seq(T) /\ Len(<<after>>) = 1 OBVIOUS
  <2>3. before \o <<after>> \in Seq(T) BY <2>1, <2>2, Concatenated
  <2>4. Len(before \o <<after>>) = Len(before) + 1 BY <2>1, <2>2
  <2> HIDE DEF T
  <2> QED BY <1>0, <1>1, <2>1, <2>3, <2>4
<1>3. Len(head) \in Nat /\ Len(work) \in Nat /\ at \in Nat BY <1>0, <1>1, <1>2
<1>4. marks \in Seq(T) /\ Len(marks) = Len(work) OBVIOUS
<1>5. /\ words \in Seq(T) /\ Len(words) = Len(head) + Len(work)
      /\ \A i \in 1..Len(head) : words[i] = head[i]
      /\ \A k \in 1..Len(work) : words[Len(head) + k] = noData
  <2>1. words \in Seq(T)
    <3> HIDE DEF T, marks
    <3> QED BY <1>2, <1>4, Concatenated
  <2>2. Len(words) = Len(head) + Len(work) BY <1>2, <1>4
  <2>3. \A i \in 1..Len(head) : words[i] = head[i]
    <3> HIDE DEF T, marks
    <3> QED BY <1>2, <1>3, <1>4
  <2>4. \A k \in 1..Len(work) : words[Len(head) + k] = marks[k]
    <3> HIDE DEF T, marks
    <3> QED BY <1>2, <1>3, <1>4
  <2> QED BY <2>1, <2>2, <2>3, <2>4
<1>6. /\ file' = PatchedWords(file, end, words) /\ pos' < noData
      /\ calls' = Append(WithInner(Begun(Inner)), Call(at, work))
      /\ owed' = Owing(owed, at, work)
  <2>1. PICK place : place = pos + 4 * Len(before) + (IF withPointer THEN 4 ELSE 0) OBVIOUS
  <2>2. place = at BY <1>0, <1>2, <2>1
  <2>3. words = (IF withPointer THEN before \o <<place>> ELSE before) \o marks
    BY <1>0, <1>1, <1>2, <2>2
  <2> HIDE DEF words, marks
  <2> QED BY <1>1, <2>1, <2>2, <2>3 DEF BeginArray, OpenArray, PutWords, Room, marks
<1> HIDE DEF words, marks, T
<1>7. /\ DOMAIN file \subseteq DOMAIN file' /\ \A p \in DOMAIN file : file'[p] = file[p]
      /\ \A i \in 1..Len(words) : /\ end + 4 * (i - 1) \in DOMAIN file'
                                  /\ file'[end + 4 * (i - 1)] = Field(Word(words[i]), 4)
  <2>1. Len(words) \in Nat BY <1>3, <1>5
  <2> QED BY <1>1, <1>6, <2>1, Appending
<1>8. Keeps(file, file', {}) BY <1>7 DEF Keeps
<1>9. ASSUME NEW i \in 1..Len(head)
      PROVE  /\ end + 4 * (i - 1) \in DOMAIN file'
             /\ file'[end + 4 * (i - 1)] = Field(Word(head[i]), 4)
  <2>1. i \in 1..Len(words) BY <1>3, <1>5
  <2> QED BY <1>5, <1>7, <2>1
<1>10. ASSUME NEW k \in 1..Len(work)
       PROVE  /\ at + 4 * (k - 1) \in DOMAIN file'
              /\ file'[at + 4 * (k - 1)] = Field(Word(noData), 4)
  <2>1. PICK i : i = Len(head) + k OBVIOUS
  <2>2. k \in Nat \ {0} /\ k <= Len(work) BY <1>3
  <2>3. i \in 1..Len(words) BY <1>3, <1>5, <2>1, <2>2
  <2>4. at + 4 * (k - 1) = end + 4 * (i - 1)
    <3>1. (end + 4 * Len(head)) + 4 * (k - 1) = end + 4 * (Len(head) + k - 1)
      BY <1>1, <1>3, <2>2, Strides
    <3>2. Len(head) + k - 1 = i - 1 BY <1>3, <2>1, <2>2
    <3> QED BY <1>0, <3>1, <3>2
  <2> QED BY <1>5, <1>7, <2>1, <2>3, <2>4
<1> QED BY <1>0, <1>1, <1>3, <1>6, <1>8, <1>9, <1>10

(* What comes of an array that is begun at end for the element job.        *)
ArrayBegun(job, before, work, withPointer, end, at) ==
    /\ withPointer /\ Len(before) = 1 =>
          at = end + 8 /\ Leads(end, Word(before[1]))' /\ Leads(end + 4, Word(end + 8))'
    /\ \A k \in 1..Len(work) : Owes(at + 4 * (k - 1), work[k])'
    /\ Fulfilled(end, job)' => ContentInvariant'

LEMMA OpenArrayContent ==
    ASSUME WriterInvariant, ContentInvariant, state = "job", Inner.work # <<>>,
           NEW S, NEW before \in Seq(S), NEW work \in Seq(Jobs), NEW withPointer \in BOOLEAN,
           BeginArray(before, work, withPointer),
           NEW end, end = pos, NEW head,
           head = IF withPointer THEN before \o <<end + 4 * Len(before) + 4>> ELSE before,
           NEW at, at = end + 4 * Len(head),
           NEW job, job = Head(Inner.work), job.job \in {"rows", "bucket"}
    PROVE  ArrayBegun(job, before, work, withPointer, end, at)
<1>0. PICK n : n = Len(calls) OBVIOUS
<1>1. /\ calls \in Seq(Calls) /\ calls # <<>> /\ n \in Nat \ {0} /\ Inner = calls[n]
      /\ n = Len(calls)
      /\ Inner \in Calls
  BY <1>0, InnerType DEF WriterInvariant
<1>28. n \in Nat /\ n = Len(calls) BY <1>1
<1>2. /\ end \in Nat /\ Len(head) \in Nat /\ at \in Nat /\ Len(work) \in Nat
      /\ Keeps(file, file', {}) /\ LaidOut(file, end) /\ pos' < noData
      /\ \A i \in 1..Len(head) :
            /\ end + 4 * (i - 1) \in DOMAIN file'
            /\ file'[end + 4 * (i - 1)] = Field(Word(head[i]), 4)
      /\ \A k \in 1..Len(work) :
            /\ at + 4 * (k - 1) \in DOMAIN file'
            /\ file'[at + 4 * (k - 1)] = Field(Word(noData), 4)
      /\ calls' = Append(WithInner(Begun(Inner)), Call(at, work))
      /\ owed' = Owing(owed, at, work)
  BY ArrayOpened
<1>22. /\ end \in Nat /\ Len(head) \in Nat /\ at \in Nat /\ Len(work) \in Nat
       /\ at >= end /\ pos' < noData
  BY <1>2
<1>27. LaidOut(file, end) BY <1>2
<1>23. \A p \in DOMAIN file : p \in Nat /\ p < end BY <1>22, <1>27 DEF LaidOut
<1>24. Keeps(file, file', {}) /\ owed' = Owing(owed, at, work) BY <1>2
<1>25. \A k \in 1..Len(work) :
          /\ IsPlace(file', at + 4 * (k - 1)) /\ file'[at + 4 * (k - 1)].of = noData
  <2> TAKE k \in 1..Len(work)
  <2>1. PICK o : o = at + 4 * (k - 1) OBVIOUS
  <2>2. o \in DOMAIN file' /\ file'[o] = Field(Word(noData), 4) BY <1>2, <2>1
  <2> QED BY <2>1, <2>2, WordPlace DEF IsPlace
<1>3. UNCHANGED <<strings, deferred, promised>> /\ UNCHANGED <<state, tables, source, todo>>
  BY DEF BeginArray, OpenArray, builder
<1>4. /\ Begun(Inner) \in Calls /\ Begun(Inner).work = Inner.work
      /\ Begun(Inner).slot = Inner.slot /\ Begun(Inner).at = end
  BY <1>1 DEF Begun, Calls, WriterInvariant, BuilderTypeOK
<1>5. /\ Call(at, work) \in Calls /\ Call(at, work).work = work /\ Call(at, work).slot = at
  BY <1>2 DEF Call, Calls
<1>6. /\ calls' \in Seq(Calls) /\ Len(calls') = n + 1
      /\ calls'[n + 1] = Call(at, work) /\ calls'[n] = Begun(Inner)
      /\ \A i \in 1..n - 1 : calls'[i] = calls[i]
  <2>1. PICK begun : begun = WithInner(Begun(Inner)) OBVIOUS
  <2>2. /\ begun \in Seq(Calls) /\ Len(begun) = n /\ begun[n] = Begun(Inner)
        /\ \A i \in 1..n - 1 : begun[i] = calls[i]
    BY <1>1, <1>4, <2>1, Replacing DEF WithInner
  <2>3. calls' = Append(begun, Call(at, work)) BY <1>2, <2>1
  <2> QED BY <1>1, <1>5, <2>2, <2>3
<1>7. \A i \in 1..n : calls'[i].work = calls[i].work /\ calls'[i].slot = calls[i].slot
  <2> TAKE i \in 1..n
  <2>1. CASE i = n BY <1>1, <1>4, <1>6, <2>1
  <2>2. CASE i # n
    <3>1. i \in 1..n - 1 BY <1>1, <2>2
    <3> QED BY <1>6, <3>1
  <2> QED BY <2>1, <2>2
<1> DEFINE New(o) == \E k \in 1..Len(work) : o = at + 4 * (k - 1)
<1>8. \A k \in 1..Len(work) : Slot(calls'[n + 1], k) = at + 4 * (k - 1) /\ calls'[n + 1].work[k] = work[k]
  BY <1>5, <1>6 DEF Slot
<1>9. \A i \in 1..n : \A k \in 1..Len(calls'[i].work) :
          /\ k \in 1..Len(calls[i].work) /\ Slot(calls'[i], k) = Slot(calls[i], k)
          /\ calls'[i].work[k] = calls[i].work[k]
  BY <1>7 DEF Slot
<1>10. \A o : Waits(o)' <=> Waits(o) \/ New(o)
  <2> TAKE o
  <2>1. Pending' = Pending BY <1>3 DEF Pending
  <2>2. ASSUME New(o) PROVE Waits(o)'
    <3>1. n + 1 \in 1..Len(calls') /\ Len(calls'[n + 1].work) = Len(work) BY <1>1, <1>5, <1>6
    <3>2. PICK k \in 1..Len(work) : o = at + 4 * (k - 1) BY <2>2
    <3>3. k \in 1..Len(calls'[n + 1].work) /\ o = Slot(calls'[n + 1], k) BY <1>8, <3>1, <3>2
    <3> QED BY <3>1, <3>3 DEF Waits, Slot
  <2>3. ASSUME Waits(o) PROVE Waits(o)'
    <3>1. CASE o \in Pending BY <2>1, <3>1 DEF Waits
    <3>2. ASSUME NEW i \in 1..n, NEW k \in 1..Len(calls[i].work), o = Slot(calls[i], k)
          PROVE  Waits(o)'
      <4>1. i \in 1..Len(calls') /\ k \in 1..Len(calls'[i].work) /\ o = Slot(calls'[i], k)
        BY <1>1, <1>6, <1>7, <3>2 DEF Slot
      <4> QED BY <4>1 DEF Waits, Slot
    <3> QED BY <1>28, <2>3, <3>1, <3>2 DEF Waits
  <2>4. ASSUME Waits(o)' PROVE Waits(o) \/ New(o)
    <3>1. CASE o \in Pending' BY <2>1, <3>1 DEF Waits
    <3>2. ASSUME NEW i \in 1..n + 1, NEW k \in 1..Len(calls'[i].work), o = Slot(calls'[i], k)
          PROVE  Waits(o) \/ New(o)
      <4>1. CASE i = n + 1 BY <1>5, <1>6, <1>8, <3>2, <4>1
      <4>2. CASE i # n + 1
        <5>1. i \in 1..n BY <1>28, <4>2
        <5> QED BY <1>9, <1>28, <3>2, <5>1 DEF Waits
      <4> QED BY <4>1, <4>2
    <3> QED BY <1>6, <2>4, <3>1, <3>2 DEF Waits, Slot
  <2> QED BY <2>2, <2>3, <2>4
<1>11. \A o : New(o) => o \notin DOMAIN file /\ o >= at
  <2> SUFFICES ASSUME NEW k \in 1..Len(work)
               PROVE  at + 4 * (k - 1) \notin DOMAIN file /\ at + 4 * (k - 1) >= at
    OBVIOUS
  <2>1. k \in Nat \ {0} BY <1>22
  <2>2. at + 4 * (k - 1) >= at /\ at + 4 * (k - 1) \in Nat BY <1>22, <2>1, Strides
  <2>3. PICK o : o = at + 4 * (k - 1) OBVIOUS
  <2>4. o \notin DOMAIN file
    <3>2. o >= at /\ o \in Nat BY <2>2, <2>3
    <3>3. at >= end /\ at \in Nat /\ end \in Nat BY <1>22
    <3>1. o \in Nat /\ ~(o < end) BY <3>2, <3>3
    <3> QED BY <1>23, <3>1
  <2> QED BY <2>2, <2>3, <2>4
<1>12. \A s \in DOMAIN owed : s \in DOMAIN file BY DEF ContentInvariant, OwedOnce, IsPlace
<1>13. /\ \A o : o \in DOMAIN owed' <=> o \in DOMAIN owed \/ New(o)
       /\ \A s \in DOMAIN owed : owed'[s] = owed[s]
       /\ \A k \in 1..Len(work) : owed'[at + 4 * (k - 1)] = work[k]
  <2> DEFINE slots == {at + 4 * (i - 1) : i \in 1..Len(work)}
  <2>1. owed' = [s \in DOMAIN owed \cup slots |->
                    IF s \in slots THEN work[(s - at) \div 4 + 1] ELSE owed[s]]
    BY <1>24 DEF Owing
  <2>2. \A o : o \in slots <=> New(o) OBVIOUS
  <2>3. \A s \in DOMAIN owed : s \notin slots BY <1>11, <1>12, <2>2
  <2>4. \A k \in 1..Len(work) : at + 4 * (k - 1) \in slots /\ ((at + 4 * (k - 1)) - at) \div 4 + 1 = k
    <3> TAKE k \in 1..Len(work)
    <3>1. k \in Nat /\ k # 0 BY <1>22
    <3>2. at \in Nat BY <1>22
    <3>3. at + 4 * (k - 1) \in slots OBVIOUS
    <3>4. ((at + 4 * (k - 1)) - at) \div 4 + 1 = k
      <4> HIDE DEF slots, New
      <4> QED BY <3>1, <3>2, Strides
    <3> QED BY <3>3, <3>4
  <2> HIDE DEF slots, New
  <2> QED BY <2>1, <2>2, <2>3, <2>4
<1>14. Steady
  <2>1. \A p \in DOMAIN file : Waits(p)' => Waits(p) BY <1>10, <1>11
  <2> HIDE DEF New
  <2> QED BY <1>3, <1>13, <1>24, <2>1, WritesAreSteady
<1>15. ASSUME NEW i \in 1..Len(head) PROVE Leads(end + 4 * (i - 1), Word(head[i]))'
  <2>1. PICK o : o = end + 4 * (i - 1) OBVIOUS
  <2>2. o \in DOMAIN file' /\ file'[o].kind = "word" /\ file'[o].of = head[i]
    BY <1>2, <2>1, WordPlace
  <2>6. i \in Nat \ {0} /\ i <= Len(head) BY <1>22
  <2>3. o < at /\ o >= end BY <1>22, <2>1, <2>6
  <2>7. o \notin DOMAIN file BY <1>22, <1>23, <2>3
  <2>8. ~Waits(o) BY <2>7, WaitingIsPlace DEF IsPlace
  <2>9. o \in Int BY <1>22, <2>1, <2>6
  <2>4. ~Waits(o)'
    <3>1. ~New(o)
      <4> SUFFICES ASSUME New(o) PROVE FALSE OBVIOUS
      <4>1. o >= at BY <1>11
      <4> HIDE DEF New
      <4> QED BY <1>22, <2>3, <2>9, <4>1
    <3> HIDE DEF New
    <3> QED BY <1>10, <2>8, <3>1
  <2>5. Leads(o, Word(head[i]))' BY <2>2, <2>4 DEF Leads, IsWord, Word
  <2> QED BY <2>1, <2>5
<1>26. ASSUME NEW k \in 1..Len(work) PROVE Owes(at + 4 * (k - 1), work[k])'
  BY <1>13 DEF Owes
<1>29. ASSUME withPointer, Len(before) = 1
       PROVE  at = end + 8 /\ Leads(end, Word(before[1]))' /\ Leads(end + 4, Word(end + 8))'
  <2>1. PICK after, next : next = end + 8 /\ after = <<next>> OBVIOUS
  <2>2. end + 4 * Len(before) + 4 = next /\ next \in Nat BY <1>22, <1>29, <2>1
  <2>3. head = before \o after BY <1>29, <2>1, <2>2
  <2>4. after \in Seq({next}) /\ Len(after) = 1 /\ after[1] = next BY <2>1
  <2>5. Len(head) = 2 BY <1>29, <2>3, <2>4
  <2>6. head[1] = before[1] BY <1>29, <2>3, <2>4
  <2>7. head[2] = next BY <1>29, <2>3, <2>4
  <2>8. Leads(end + 4 * (1 - 1), Word(head[1]))' /\ Leads(end + 4 * (2 - 1), Word(head[2]))'
    BY <1>15, <2>5
  <2>9. end + 4 * (1 - 1) = end /\ end + 4 * (2 - 1) = end + 4 /\ end + 4 * 2 = end + 8 BY <1>22
  <2> QED BY <2>1, <2>5, <2>6, <2>7, <2>8, <2>9
<1> SUFFICES ASSUME Fulfilled(end, job)' PROVE ContentInvariant' BY <1>26, <1>29 DEF ArrayBegun
<1>16. OwedOnce'
  <2>1. ASSUME NEW s \in DOMAIN owed'
        PROVE  IsPlace(file', s) /\ s \notin DOMAIN promised' /\ owed'[s] \in Jobs'
    <3>1. CASE s \in DOMAIN owed
      <4>1. IsPlace(file, s) /\ s \notin DOMAIN promised /\ owed[s] \in Jobs
        BY <3>1 DEF ContentInvariant, OwedOnce
      <4> QED BY <1>2, <1>3, <1>13, <3>1, <4>1, PlacesStay, JobsStay
    <3>2. CASE New(s)
      <4>1. PICK k \in 1..Len(work) : s = at + 4 * (k - 1) BY <3>2
      <4>2. work[k] \in Jobs BY <1>2
      <4>3. IsPlace(file', s) BY <1>25, <4>1
      <4>4. s \notin DOMAIN promised BY <1>11, <3>2 DEF WriterInvariant, Homes, IsPlace
      <4> QED BY <1>3, <1>13, <4>1, <4>2, <4>3, <4>4, JobsStay
    <3> QED BY <1>13, <3>1, <3>2
  <2>2. ASSUME NEW i \in 1..n + 1, NEW k \in 1..Len(calls'[i].work)
        PROVE  Slot(calls'[i], k) \in DOMAIN owed' /\ owed'[Slot(calls'[i], k)] = calls'[i].work[k]
    <3>1. CASE i = n + 1 BY <1>5, <1>6, <1>8, <1>13, <3>1
    <3>2. CASE i # n + 1
      <4>1. i \in 1..n BY <1>1, <3>2
      <4>2. Owes(Slot(calls[i], k), calls[i].work[k])
        BY <1>9, <1>28, <4>1 DEF ContentInvariant, OwedOnce
      <4> QED BY <1>9, <1>13, <4>1, <4>2 DEF Owes
    <3> QED BY <3>1, <3>2
  <2>3. ASSUME NEW i \in 1..n, NEW k \in 1..Len(calls'[i].work) PROVE ~New(Slot(calls'[i], k))
    <3>1. Owes(Slot(calls[i], k), calls[i].work[k]) /\ Slot(calls'[i], k) = Slot(calls[i], k)
      BY <1>9, <1>28 DEF ContentInvariant, OwedOnce
    <3> HIDE DEF New
    <3> QED BY <1>11, <1>12, <3>1 DEF Owes
  <2>4. ASSUME NEW k \in 1..Len(calls'[n + 1].work)
        PROVE  k \in 1..Len(work) /\ Slot(calls'[n + 1], k) = at + 4 * (k - 1) /\ New(Slot(calls'[n + 1], k))
    BY <1>5, <1>6, <1>8
  <2>6. ASSUME NEW i \in 1..n, NEW j \in 1..n, NEW k \in 1..Len(calls'[i].work),
               NEW l \in 1..Len(calls'[j].work), Slot(calls'[i], k) = Slot(calls'[j], l)
        PROVE  i = j /\ k = l
    <3>1. /\ k \in 1..Len(calls[i].work) /\ l \in 1..Len(calls[j].work)
          /\ Slot(calls[i], k) = Slot(calls[j], l)
      BY <1>9, <2>6
    <3>2. i \in 1..Len(calls) /\ j \in 1..Len(calls) BY <1>28
    <3>3. OwedOnce BY DEF ContentInvariant
    <3> QED BY <3>1, <3>2, <3>3 DEF OwedOnce
  <2>5. ASSUME NEW i \in 1..n + 1, NEW j \in 1..n + 1, NEW k \in 1..Len(calls'[i].work),
               NEW l \in 1..Len(calls'[j].work), Slot(calls'[i], k) = Slot(calls'[j], l)
        PROVE  i = j /\ k = l
    <3> HIDE DEF New
    <3>1. CASE i = n + 1 /\ j = n + 1
      <4>1. /\ k \in 1..Len(work) /\ l \in 1..Len(work)
            /\ at + 4 * (k - 1) = at + 4 * (l - 1)
        BY <2>4, <2>5, <3>1
      <4>3. at \in Nat /\ k \in Nat /\ l \in Nat BY <1>22, <4>1
      <4>2. k = l BY <4>1, <4>3, Strides
      <4> QED BY <3>1, <4>2
    <3>2. CASE i # n + 1 /\ j # n + 1
      <4>1. i \in 1..n /\ j \in 1..n BY <1>28, <3>2
      <4> QED BY <2>5, <2>6, <4>1
    <3>3. CASE i = n + 1 /\ j # n + 1
      <4>1. j \in 1..n BY <1>28, <3>3
      <4> QED BY <2>3, <2>4, <2>5, <3>3, <4>1
    <3>4. CASE i # n + 1 /\ j = n + 1
      <4>1. i \in 1..n BY <1>28, <3>4
      <4> QED BY <2>3, <2>4, <2>5, <3>4, <4>1
    <3> QED BY <3>1, <3>2, <3>3, <3>4
  <2> QED BY <1>6, <2>1, <2>2, <2>5 DEF OwedOnce, Owes, Slot, IsPlace
<1>17. OwedKept'
  <2> SUFFICES ASSUME NEW s \in DOMAIN owed'
               PROVE  IF Waits(s)' THEN owed'[s].job = "bucket" => file'[s].of = noData
                      ELSE Fulfilled(file[s].of, owed[s])'
    BY DEF OwedKept
  <2>1. CASE s \in DOMAIN owed
    <3>1. file'[s] = file[s] BY <1>2, <1>12, <2>1 DEF Keeps
    <3>2. ~New(s) BY <1>11, <1>12, <2>1
    <3> HIDE DEF New
    <3> QED BY <1>10, <1>14, <2>1, <3>1, <3>2, OwedKeptStays DEF ContentInvariant
  <2>2. CASE New(s)
    <3>1. file'[s].of = noData BY <1>25, <2>2
    <3> HIDE DEF New
    <3> QED BY <1>10, <2>2, <3>1
  <2> QED BY <1>13, <2>1, <2>2
<1>18. Opened'
  <2> SUFFICES ASSUME NEW i \in 1..n
               PROVE  Head(calls'[i].work).job \in {"rows", "bucket"}
                      /\ Fulfilled(calls[i].at, Head(calls[i].work))'
    BY <1>1, <1>6 DEF Opened
  <2>1. CASE i = n
    <3>1. calls'[n].at = end /\ Head(calls'[n].work) = job BY <1>4, <1>6
    <3> QED BY <2>1, <3>1
  <2>2. CASE i # n
    <3>1. i \in 1..n - 1 BY <1>1, <2>2
    <3>2. Head(calls[i].work).job \in {"rows", "bucket"} /\ Fulfilled(calls[i].at, Head(calls[i].work))
      BY <1>28, <3>1 DEF ContentInvariant, Opened
    <3> QED BY <1>6, <1>14, <3>1, <3>2, OpenedStays
  <2> QED BY <2>1, <2>2
<1>19. PutSoFar' BY <1>3 DEF PutSoFar
<1>20. Headed' BY <1>2, <1>3, <1>14, HeadedStays DEF ContentInvariant
<1>21. Settled' BY <1>3 DEF ContentInvariant, Settled
<1> QED BY <1>16, <1>17, <1>18, <1>19, <1>20, <1>21 DEF ContentInvariant

LEMMA WriteRowsContent ==
    ASSUME WriterInvariant, ContentInvariant, WriteRows
    PROVE  ContentInvariant'
<1>1. Due("rows") BY DEF WriteRows
<1>2. state = "job" /\ Inner.work # <<>> /\ Head(Inner.work).job = "rows" BY <1>1 DEF Due
<1>3. PICK buckets \in BucketsOf(Given) :
          BeginArray(<<Len(buckets)>>,
                     [b \in 1..Len(buckets) |-> Job("bucket", buckets[b])], TRUE)
  BY DEF WriteRows
<1>4. PICK job, table, work :
          /\ job = Head(Inner.work) /\ table = Given
          /\ work = [b \in 1..Len(buckets) |-> Job("bucket", buckets[b])]
  OBVIOUS
<1>5. table \in Tables /\ table.name \in DOMAIN source /\ job.given = table
  BY <1>1, <1>4, GivenTypes DEF WriterInvariant
<1>6. buckets \in Seq(Seq(Rows))
  <2>1. source[table.name].rows \in Seq(Rows) BY <1>5 DEF WriterInvariant, BuilderTypeOK
  <2>2. CASE table.columns = <<>> BY <1>3, <1>4, <2>2, Nothing DEF BucketsOf
  <2>3. CASE table.columns # <<>>
    <3>1. Identified(source[table.name].rows)
      BY <1>4, <1>5, <2>1, <2>3, CollectsIdentified DEF WriteRows
    <3> QED BY <1>3, <1>4, <2>1, <2>3, <3>1, BucketsType DEF BucketsOf
  <2> QED BY <2>2, <2>3
<1>7. /\ Len(buckets) \in Nat /\ \A b \in 1..Len(buckets) : Job("bucket", buckets[b]) \in Jobs
  BY <1>6, JobsTypes
<1>8. work \in Seq(Jobs) /\ Len(work) = Len(buckets) BY <1>4, <1>7
<1>9. PICK before, pointer : before = <<Len(buckets)>> /\ pointer = TRUE OBVIOUS
<1>24. before \in Seq(Nat) /\ Len(before) = 1 BY <1>7, <1>9
<1>10. PICK end, head, at :
          /\ end = pos
          /\ head = IF pointer THEN before \o <<end + 4 * Len(before) + 4>> ELSE before
          /\ at = end + 4 * Len(head)
  OBVIOUS
<1>25. pointer \in BOOLEAN BY <1>9
<1>11. BeginArray(before, work, pointer) BY <1>3, <1>4, <1>9
<1>26. ArrayBegun(job, before, work, pointer, end, at)
  BY <1>2, <1>4, <1>8, <1>24, <1>25, <1>10, <1>11, OpenArrayContent
<1>12. at = end + 8 /\ Leads(end, Word(before[1]))' /\ Leads(end + 4, Word(end + 8))'
  BY <1>9, <1>24, <1>26 DEF ArrayBegun
<1>13. end \in Nat BY <1>10 DEF WriterInvariant, BuilderTypeOK
<1>14. \A k \in 1..Len(work) : Owes(at + 4 * (k - 1), work[k])'
  BY <1>26 DEF ArrayBegun
<1>15. Leads(end, Word(Len(buckets)))' BY <1>9, <1>12
<1>16. Leads(end + 4, Pointer)'
  <2>1. Behind(end + 4) = end + 8 BY <1>13 DEF Behind
  <2> QED BY <1>12, <2>1 DEF Leads, Word, Pointer
<1>17. Stored(end, <<Word(Len(buckets)), Pointer>>)'
  <2> SUFFICES ASSUME NEW j \in 1..2
               PROVE  Leads(end + 4 * (j - 1), <<Word(Len(buckets)), Pointer>>[j])'
    BY <1>13 DEF Stored, Word, Pointer
  <2>1. CASE j = 1
    <3>1. end + 4 * (j - 1) = end /\ <<Word(Len(buckets)), Pointer>>[j] = Word(Len(buckets))
      BY <1>13, <2>1
    <3> QED BY <1>15, <3>1
  <2>2. CASE j = 2
    <3>1. end + 4 * (j - 1) = end + 4 /\ <<Word(Len(buckets)), Pointer>>[j] = Pointer
      BY <1>13, <2>2
    <3> QED BY <1>16, <3>1
  <2> QED BY <2>1, <2>2
<1>18. \A b \in 1..Len(buckets) : Owes(end + 8 + 4 * (b - 1), Job("bucket", buckets[b]))'
  BY <1>4, <1>8, <1>12, <1>14
<1>19. source' = source BY <1>11 DEF BeginArray, builder
<1>20. BucketsOf(table)' = BucketsOf(table) BY <1>19 DEF BucketsOf
<1>21. table.columns # <<>> => Collects(table)' BY <1>4, <1>19 DEF WriteRows, Collects
<1>22. BucketsAt(end, table)' BY <1>3, <1>4, <1>17, <1>18, <1>20, <1>21 DEF BucketsAt
<1>23. Fulfilled(end, job)' BY <1>2, <1>4, <1>5, <1>22 DEF Fulfilled
<1> QED BY <1>23, <1>26 DEF ArrayBegun

LEMMA WriteBucketContent ==
    ASSUME WriterInvariant, ContentInvariant, WriteBucket
    PROVE  ContentInvariant'
<1>1. Due("bucket") /\ Given # <<>> /\ BeginArray(<<>>, RowAndRest(Given), FALSE)
  BY DEF WriteBucket
<1>2. state = "job" /\ Inner.work # <<>> /\ Head(Inner.work).job = "bucket" BY <1>1 DEF Due
<1>3. PICK job, list, work :
          job = Head(Inner.work) /\ list = Given /\ work = RowAndRest(list)
  OBVIOUS
<1>4. list \in Seq(Rows) /\ job.given = list BY <1>1, <1>3, GivenTypes DEF WriterInvariant
<1>5. Head(list) \in Rows /\ Tail(list) \in Seq(Rows)
  <2> HIDE DEF Rows
  <2> QED BY <1>1, <1>3, <1>4, HeadType
<1>6. Job("row", Head(list)) \in Jobs /\ Job("bucket", Tail(list)) \in Jobs BY <1>5, JobsTypes
<1>7. /\ work \in Seq(Jobs) /\ Len(work) = 2
      /\ work[1] = Job("row", Head(list)) /\ work[2] = Job("bucket", Tail(list))
  BY <1>3, <1>6 DEF RowAndRest
<1>8. <<>> \in Seq(Nat) /\ Len(<<>>) = 0 OBVIOUS
<1>9. BeginArray(<<>>, work, FALSE) BY <1>1, <1>3
<1>10. PICK before, pointer, end, head, at :
          /\ before = <<>> /\ pointer = FALSE /\ end = pos
          /\ head = IF pointer THEN before \o <<end + 4 * Len(before) + 4>> ELSE before
          /\ at = end + 4 * Len(head)
  OBVIOUS
<1>17. ArrayBegun(job, before, work, pointer, end, at)
  <2>1. BeginArray(before, work, pointer) /\ before \in Seq(Nat) /\ pointer \in BOOLEAN
    BY <1>8, <1>9, <1>10
  <2> QED BY <1>2, <1>3, <1>7, <1>10, <2>1, OpenArrayContent
<1>11. \A k \in 1..Len(work) : Owes(at + 4 * (k - 1), work[k])' BY <1>17 DEF ArrayBegun
<1>12. end \in Nat /\ at = end BY <1>8, <1>10 DEF WriterInvariant, BuilderTypeOK
<1>13. Owes(end, Job("row", Head(list)))' /\ Owes(end + 4, Job("bucket", Tail(list)))'
  <2>1. Owes(at + 4 * (1 - 1), work[1])' /\ Owes(at + 4 * (2 - 1), work[2])' BY <1>7, <1>11
  <2>2. at + 4 * (1 - 1) = end /\ at + 4 * (2 - 1) = end + 4 BY <1>12
  <2> QED BY <1>7, <2>1, <2>2
<1>14. list # <<>> BY <1>1, <1>3
<1>15. RowAndRestAt(end, list)' BY <1>13, <1>14 DEF RowAndRestAt
<1>16. Fulfilled(end, job)' BY <1>2, <1>3, <1>4, <1>15 DEF Fulfilled
<1> QED BY <1>16, <1>17 DEF ArrayBegun

(* What has been put and flushed is the element.                           *)
LEMMA PutIsStored ==
    ASSUME WriterInvariant, ContentInvariant, state = "put", todo = <<>>, deferred = <<>>
    PROVE  Fulfilled(Inner.at, Head(Inner.work))
<1>1. PICK job, at : job = Head(Inner.work) /\ at = Inner.at OBVIOUS
<1>2. /\ job.job \in {"description", "row"} /\ (job.job = "row" => Writes(job.given))
      /\ \A j \in 1..Len(Words(job)) - Len(todo) : IsPut(at + 4 * (j - 1), Words(job)[j])
  BY <1>1 DEF ContentInvariant, PutSoFar
<1>3. job \in Jobs
  <2>1. Inner.work \in Seq(Jobs) /\ Inner.work # <<>> BY InnerType DEF WriterInvariant, Nested
  <2> QED BY <1>1, <2>1, HeadType
<1>4. Words(job) \in Seq(Items)
  <2>1. CASE job.job = "description"
    <3>1. job.given \in Tables BY <1>3, <2>1 DEF Jobs
    <3> QED BY <2>1, <3>1, DescriptionType DEF Words
  <2>2. CASE job.job = "row"
    <3>1. job.given \in Rows BY <1>3, <2>2 DEF Jobs
    <3> QED BY <1>2, <2>2, <3>1, RowType DEF Words
  <2> QED BY <1>2, <2>1, <2>2
<1>5. Pending = {} BY DEF Pending
<1>6. ASSUME NEW j \in 1..Len(Words(job)) PROVE Leads(at + 4 * (j - 1), Words(job)[j])
  <2>1. PICK o, item : o = at + 4 * (j - 1) /\ item = Words(job)[j] OBVIOUS
  <2>2. IsPut(o, item)
    <3>1. Len(Words(job)) - Len(todo) = Len(Words(job)) BY <1>4
    <3> QED BY <1>2, <2>1, <3>1
  <2>3. item \in Items BY <1>4, <2>1
  <2>4. CASE item.kind \in {"word", "pointer"} BY <2>1, <2>2, <2>4 DEF IsPut
  <2>5. CASE item.kind \notin {"word", "pointer"}
    <3>1. o \in DOMAIN promised /\ promised[o] = item BY <2>2, <2>5 DEF IsPut
    <3>2. IsWord(o) /\ Holds(file[o].of, item.kind) /\ file[file[o].of].of = item.of
      BY <1>5, <3>1 DEF WriterInvariant, PromisesKept
    <3>3. ~Waits(o) BY <1>5, <3>1 DEF Waits, WriterInvariant, Slots
    <3> QED BY <2>1, <2>5, <3>2, <3>3 DEF Leads
  <2> QED BY <2>4, <2>5
<1>9. at \in Nat BY <1>1, InnerType DEF WriterInvariant, Calls, Nested
<1>7. Stored(at, Words(job)) BY <1>6, <1>9 DEF Stored
<1>8. Fulfilled(at, job) BY <1>2, <1>7 DEF Fulfilled, Words
<1> QED BY <1>1, <1>8

LEMMA EndElementContent ==
    ASSUME WriterInvariant, ContentInvariant, EndElement
    PROVE  ContentInvariant'
<1>1. /\ state = "put" /\ todo = <<>> /\ deferred = <<>> /\ Return(calls) /\ state' = "job"
      /\ UNCHANGED <<tables, source, todo>>
  BY DEF EndElement
<1>2. /\ calls \in Seq(Calls) /\ calls # <<>> /\ Len(calls) \in Nat /\ Inner = calls[Len(calls)]
      /\ Inner.work # <<>>
  BY <1>1, InnerType DEF WriterInvariant, Nested
<1>3. Fulfilled(Inner.at, Head(Inner.work)) BY <1>1, PutIsStored
<1>4. \A i \in Len(calls) + 1..Len(calls) : calls[i].work = <<>> BY <1>2
<1> QED BY <1>1, <1>2, <1>3, <1>4, ReturnContent

LEMMA EndArrayContent ==
    ASSUME WriterInvariant, ContentInvariant, EndArray
    PROVE  ContentInvariant'
<1>0. PICK n, stack : n = Len(calls) /\ stack = SubSeq(calls, 1, n - 1) OBVIOUS
<1>1. /\ state = "job" /\ n > 1 /\ Return(stack) /\ UNCHANGED <<state, tables, source, todo>>
      /\ Inner.work = <<>>
  BY <1>0 DEF EndArray, builder
<1>2. calls \in Seq(Calls) /\ n \in Nat BY <1>0 DEF WriterInvariant, BuilderTypeOK
<1>3. /\ stack \in Seq(Calls) /\ Len(stack) = n - 1 /\ stack # <<>>
      /\ \A i \in 1..n - 1 : stack[i] = calls[i]
  <2> HIDE DEF Calls
  <2>1. n - 1 \in 1..n BY <1>1, <1>2
  <2>2. Len(stack) = n - 1 /\ \A i \in 1..n - 1 : stack[i] = calls[i] BY <1>0, <1>2, <2>1
  <2>3. stack \in Seq(Calls) BY <1>0, <1>2, <2>1, <2>2
  <2>4. stack # <<>> BY <1>1, <1>2, <2>2, Nothing
  <2> QED BY <2>2, <2>3, <2>4
<1>4. n - 1 \in 1..n - 1 /\ n - 1 \in 1..Len(calls) - 1 BY <1>0, <1>1, <1>2
<1>5. stack[n - 1].work # <<>> BY <1>3, <1>4 DEF WriterInvariant, Nested
<1>6. Fulfilled(stack[n - 1].at, Head(stack[n - 1].work))
  BY <1>3, <1>4 DEF ContentInvariant, Opened
<1>7. \A i \in Len(stack) + 1..Len(calls) : calls[i].work = <<>>
  <2> TAKE i \in Len(stack) + 1..Len(calls)
  <2>1. i = Len(calls) BY <1>0, <1>2, <1>3
  <2> QED BY <1>1, <2>1 DEF Inner
<1>8. deferred = <<>> BY <1>1 DEF ContentInvariant, Settled
<1>9. /\ Len(stack) <= Len(calls) /\ \A i \in 1..Len(stack) : stack[i] = calls[i]
      /\ stack[Len(stack)].work # <<>> /\ Fulfilled(stack[Len(stack)].at, Head(stack[Len(stack)].work))
  BY <1>0, <1>2, <1>3, <1>5, <1>6
<1> QED BY <1>1, <1>3, <1>7, <1>8, <1>9, ReturnContent

(* Without a file nothing is owed.                                         *)
LEMMA NoFileContent ==
    ASSUME NoFile, state' \in {"idle", "failed"}
    PROVE  ContentInvariant'
<1>1. /\ deferred' = <<>> /\ owed' = <<>> /\ calls' = <<>> /\ tables' = <<>>
  BY DEF NoFile
<1>2. OwedOnce' /\ OwedKept' BY <1>1, Nothing DEF OwedOnce, OwedKept
<1>3. Opened'
  <2>1. 1..Len(calls') - 1 = {} BY <1>1, Nothing
  <2> QED BY <2>1 DEF Opened
<1>4. PutSoFar' /\ Headed' BY DEF PutSoFar, Headed
<1>5. Settled' BY <1>1, Nothing DEF Settled
<1> QED BY <1>2, <1>3, <1>4, <1>5 DEF ContentInvariant

(* Nothing changes but what the builder does next, or what a reader does.  *)
LEMMA StillContent ==
    ASSUME WriterInvariant, ContentInvariant, UNCHANGED writer, UNCHANGED <<tables, source, todo>>,
           state' = state \/ (state' = "built" /\ EndFlush)
    PROVE  ContentInvariant'
<1>1. UNCHANGED <<file, offset, pos, strings, deferred, calls, promised, owed>> BY DEF writer
<1>2. PICK n : n = Len(calls) OBVIOUS
<1>3. \A o : Waits(o)' <=> Waits(o) BY <1>1, <1>2, WaitsAlike
<1>4. Steady BY <1>1, <1>3 DEF Steady
<1>5. OwedOnce'
  <2> DEFINE d == [i \in 1..n |-> 0]
  <2>1. \A i \in 1..n : \A k \in 1..Len(calls'[i].work) :
          /\ k + d[i] \in 1..Len(calls[i].work)
          /\ calls'[i].work[k] = calls[i].work[k + d[i]]
          /\ Slot(calls'[i], k) = Slot(calls[i], k + d[i])
    BY <1>1, <1>2 DEF Slot
  <2>2. d \in [1..n -> {0, 1}] OBVIOUS
  <2>3. n \in Nat /\ Len(calls') = n /\ 1..n \subseteq 1..Len(calls)
    BY <1>1, <1>2 DEF WriterInvariant, BuilderTypeOK
  <2> HIDE DEF d
  <2> QED BY <1>1, <2>1, <2>2, <2>3, OwedOnceStays DEF ContentInvariant
<1>6. OwedKept'
  <2>1. ASSUME NEW s \in DOMAIN owed
        PROVE  IF Waits(s)' THEN owed'[s].job = "bucket" => file'[s].of = noData
               ELSE Fulfilled(file[s].of, owed[s])'
    BY <1>1, <1>3, <1>4, OwedKeptStays DEF ContentInvariant
  <2> QED BY <1>1, <2>1 DEF OwedKept
<1>7. Opened'
  <2> SUFFICES ASSUME NEW i \in 1..n - 1
               PROVE  Head(calls'[i].work).job \in {"rows", "bucket"}
                      /\ Fulfilled(calls[i].at, Head(calls[i].work))'
    BY <1>1, <1>2 DEF Opened
  <2>1. Head(calls[i].work).job \in {"rows", "bucket"} /\ Fulfilled(calls[i].at, Head(calls[i].work))
    BY <1>2 DEF ContentInvariant, Opened
  <2> QED BY <1>1, <1>4, <2>1, OpenedStays
<1>8. PutSoFar'
  <2>1. CASE state' = state /\ state = "put"
    <3>1. PICK job, at : job = Head(Inner.work) /\ at = Inner.at OBVIOUS
    <3>2. /\ job.job \in {"description", "row"} /\ (job.job = "row" => Writes(job.given))
          /\ Len(Words(job)) - Len(todo) >= 0
          /\ \A k \in 1..Len(todo) : todo[k] = Words(job)[Len(Words(job)) - Len(todo) + k]
          /\ todo # <<>> => pos = at + 4 * (Len(Words(job)) - Len(todo))
          /\ \A j \in 1..Len(Words(job)) - Len(todo) : IsPut(at + 4 * (j - 1), Words(job)[j])
      BY <2>1, <3>1 DEF ContentInvariant, PutSoFar
    <3>3. ASSUME NEW j \in 1..Len(Words(job)) - Len(todo)
          PROVE  IsPut(at + 4 * (j - 1), Words(job)[j])'
      <4>1. PICK p, x : p = at + 4 * (j - 1) /\ x = Words(job)[j] OBVIOUS
      <4>2. IsPut(p, x) BY <3>2, <4>1
      <4>3. IsPut(p, x)' BY <1>1, <1>4, <4>2, LeadsStays DEF IsPut
      <4> QED BY <4>1, <4>3
    <3>4. Head(Inner'.work) = job /\ Inner'.at = at BY <1>1, <3>1 DEF Inner
    <3> QED BY <1>1, <3>2, <3>3, <3>4 DEF PutSoFar
  <2>2. CASE state' # "put" BY <2>2 DEF PutSoFar
  <2> QED BY <2>1, <2>2
<1>9. Headed'
  <2>1. CASE state' \in {"job", "put", "built"}
    <3>1. state \in {"job", "put", "built"} BY <2>1 DEF EndFlush
    <3> QED BY <1>1, <1>4, <3>1, HeadedStays DEF ContentInvariant, Headed
  <2>2. CASE state' \notin {"job", "put", "built"} BY <2>2 DEF Headed
  <2> QED BY <2>1, <2>2
<1>10. Settled'
  <2>1. CASE state' = state BY <1>1, <2>1 DEF ContentInvariant, Settled, Inner
  <2>2. CASE state' = "built" /\ EndFlush
    <3>1. state = "job" /\ Len(calls) = 1 /\ Inner.work = <<>> BY <2>2 DEF EndFlush
    <3>2. calls # <<>> BY <3>1 DEF WriterInvariant, Nested
    <3> QED BY <1>1, <2>2, <3>1, <3>2 DEF ContentInvariant, Settled, Inner
  <2> QED BY <2>1, <2>2
<1> QED BY <1>5, <1>6, <1>7, <1>8, <1>9, <1>10 DEF ContentInvariant

(* The tables of the file that is begun are owed their parts.              *)
LEMMA BeginFlushContent ==
    ASSUME NEW ts, NEW from, IsBuild(ts, from), BeginFlush(ts, from)
    PROVE  ContentInvariant'
<1> DEFINE words == <<Len(ts), Start + 8>> \o [i \in 1..2 * Len(ts) |-> 0]
<1>0. PICK n, jobs, first : n = Len(ts) /\ jobs = TableJobs(ts) /\ first = Start + 8 OBVIOUS
<1>1. ts \in Seq(Tables) /\ n \in Nat BY <1>0 DEF IsBuild
<1>2. Start \in Nat /\ first \in Nat BY <1>0, StartAssumption
<1>3. /\ file' = PatchedWords(<<>>, Start, words) /\ pos' = Start + 8 + 8 * n
      /\ Room(Start + 8 + 8 * n)
      /\ calls' = <<Call(first, jobs)>> /\ deferred' = <<>> /\ promised' = <<>>
      /\ owed' = Owing(<<>>, first, jobs)
      /\ state' = "job" /\ tables' = ts /\ source' = from
  BY <1>0 DEF BeginFlush
<1>4. \A i \in 1..Len(ts) : ts[i].name \in DOMAIN source' BY <1>3 DEF IsBuild
<1>5. jobs \in Seq(Jobs') /\ Len(jobs) = 2 * n
  BY <1>0, <1>1, <1>4, TableJobsType
<1>6. Len(words) = 2 + 2 * n /\ words[1] = n /\ words[2] = first
  <2>1. <<n, Start + 8>> \in Seq(Nat) /\ Len(<<n, Start + 8>>) = 2 BY <1>1, <1>2
  <2>2. [i \in 1..2 * n |-> 0] \in Seq(Nat) /\ Len([i \in 1..2 * n |-> 0]) = 2 * n BY <1>1
  <2> QED BY <1>0, <1>1, <2>1, <2>2
<1> HIDE DEF words
<1>7. \A i \in 1..Len(words) : /\ Start + 4 * (i - 1) \in DOMAIN file'
                               /\ file'[Start + 4 * (i - 1)] = Field(Word(words[i]), 4)
  <2>1. Len(words) \in Nat BY <1>1, <1>6
  <2> QED BY <1>2, <1>3, <2>1, Nothing, Appending
<1>8. Len(calls') = 1 /\ calls'[1].slot = first /\ calls'[1].work = jobs BY <1>3 DEF Call
<1>9. /\ DOMAIN owed' = {first + 4 * (k - 1) : k \in 1..2 * n}
      /\ \A k \in 1..2 * n : owed'[first + 4 * (k - 1)] = jobs[k]
  <2>1. DOMAIN owed' = {first + 4 * (k - 1) : k \in 1..2 * n} BY <1>3, <1>5, Nothing DEF Owing
  <2>2. ASSUME NEW k \in 1..2 * n PROVE owed'[first + 4 * (k - 1)] = jobs[k]
    <3>1. PICK s : s = first + 4 * (k - 1) OBVIOUS
    <3>2. (s - first) \div 4 + 1 = k BY <1>1, <1>2, <3>1
    <3>3. s \in DOMAIN owed' /\ s \in {first + 4 * (i - 1) : i \in 1..Len(jobs)}
      BY <1>5, <2>1, <3>1
    <3>4. owed'[s] = jobs[(s - first) \div 4 + 1] BY <1>3, <3>3 DEF Owing
    <3> QED BY <3>1, <3>2, <3>4
  <2> QED BY <2>1, <2>2
<1>10. \A k \in 1..2 * n : Waits(first + 4 * (k - 1))'
  BY <1>5, <1>8 DEF Waits, Slot
<1>11. \A k \in 1..2 * n : IsPlace(file', first + 4 * (k - 1))
  <2> TAKE k \in 1..2 * n
  <2>1. k + 2 \in 1..Len(words) /\ first + 4 * (k - 1) = Start + 4 * ((k + 2) - 1)
    BY <1>0, <1>1, <1>2, <1>6
  <2>2. PICK i : i = k + 2 OBVIOUS
  <2> QED BY <1>7, <2>1, <2>2, WordPlace DEF IsPlace
<1>12. OwedOnce'
  <2>1. \A s \in DOMAIN owed' : IsPlace(file', s) /\ s \notin DOMAIN promised' /\ owed'[s] \in Jobs'
    BY <1>3, <1>5, <1>9, <1>11, Nothing
  <2>2. \A k \in 1..2 * n : first + 4 * (k - 1) \in DOMAIN owed' BY <1>9
  <2>3. \A i \in 1..Len(calls') : \A k \in 1..Len(calls'[i].work) :
           Slot(calls'[i], k) \in DOMAIN owed' /\ owed'[Slot(calls'[i], k)] = calls'[i].work[k]
    <3> SUFFICES ASSUME NEW k \in 1..2 * n
                 PROVE  Slot(calls'[1], k) \in DOMAIN owed' /\ owed'[Slot(calls'[1], k)] = jobs[k]
      BY <1>5, <1>8 DEF Slot
    <3>1. Slot(calls'[1], k) = first + 4 * (k - 1) BY <1>8 DEF Slot
    <3> QED BY <1>9, <2>2, <3>1
  <2>4. \A k \in 1..2 * n, l \in 1..2 * n : first + 4 * (k - 1) = first + 4 * (l - 1) => k = l
    BY <1>1, <1>2
  <2>5. \A i, j \in 1..Len(calls') :
          \A k \in 1..Len(calls'[i].work), l \in 1..Len(calls'[j].work) :
             Slot(calls'[i], k) = Slot(calls'[j], l) => i = j /\ k = l
    BY <1>5, <1>8, <2>4 DEF Slot
  <2> QED BY <2>1, <2>3, <2>5 DEF OwedOnce, Owes, Slot, IsPlace
<1>13. \A k \in 1..2 * n : jobs[k].job # "bucket" BY <1>0, <1>1 DEF TableJobs, Job
<1>14. OwedKept'
  <2>1. \A s \in DOMAIN owed' : Waits(s)' /\ owed'[s].job # "bucket" BY <1>9, <1>10, <1>13
  <2> QED BY <2>1 DEF OwedKept
<1>15. Opened' BY <1>8, Nothing DEF Opened
<1>16. PutSoFar' BY <1>3 DEF PutSoFar
<1>17. Headed'
  <2>1. PICK items : items = <<Word(n), Word(first)>> OBVIOUS
  <2>2. ASSUME NEW j \in 1..2 PROVE Leads(Start + 4 * (j - 1), items[j])'
    <3>1. PICK o, item : o = Start + 4 * (j - 1) /\ item = items[j] OBVIOUS
    <3>2. o \in DOMAIN file' /\ file'[o] = Field(Word(words[j]), 4) /\ item = Word(words[j])
      BY <1>0, <1>1, <1>6, <1>7, <2>1, <3>1
    <3>3. ~Waits(o)'
      <4>1. o < first BY <1>0, <1>2, <3>1
      <4>2. \A k \in 1..2 * n : first + 4 * (k - 1) >= first BY <1>1, <1>2
      <4>3. ~\E i \in 1..Len(calls') : \E k \in 1..Len(calls'[i].work) : o = Slot(calls'[i], k)
        BY <1>2, <1>5, <1>8, <3>1, <4>1, <4>2 DEF Slot
      <4> QED BY <1>3, <4>3, Nothing DEF Waits, Pending, Slot
    <3>4. IsWord(o)' BY <3>2, WordPlace DEF IsWord
    <3>5. item.kind = "word" /\ file'[o].of = item.of BY <3>2 DEF Word, Field
    <3>6. Leads(o, item)' BY <3>3, <3>4, <3>5 DEF Leads
    <3> QED BY <3>1, <3>6
  <2>3. Stored(Start, items)' BY <1>2, <2>1, <2>2 DEF Stored
  <2>4. \A k \in 1..2 * n : Owes(first + 4 * (k - 1), jobs[k])' BY <1>9 DEF Owes
  <2>5. TableJobs(tables)' = jobs /\ Len(tables') = n /\ items = <<Word(Len(tables')), Word(Start + 8)>>
    BY <1>0, <1>3, <2>1 DEF TableJobs, Job
  <2> QED BY <1>0, <1>3, <2>3, <2>4, <2>5 DEF Headed, Room, Word
<1>18. Settled' BY <1>1, <1>3 DEF Settled
<1> QED BY <1>12, <1>14, <1>15, <1>16, <1>17, <1>18 DEF ContentInvariant

(* The steps of Builder.Flush.                                             *)
LEMMA FlushStepContent ==
    ASSUME WriterInvariant, ContentInvariant, FlushStep
    PROVE  ContentInvariant'
<1>1. BuilderTypeOK /\ Nested BY DEF WriterInvariant
<1>2. CASE WriteDescription
  <2>1. Due("description") /\ BeginPutting(DescriptionOf(Given)) BY <1>2 DEF WriteDescription
  <2>2. DescriptionOf(Given) \in Seq(Items) BY <1>1, <2>1, GivenTypes, DescriptionType
  <2>3. state = "job" /\ Inner.work # <<>> /\ Head(Inner.work).job = "description"
    BY <2>1 DEF Due
  <2>4. PICK words : words = DescriptionOf(Given) OBVIOUS
  <2>5. words = Words(Head(Inner.work)) BY <2>3, <2>4 DEF Words, Given
  <2>6. Len(words) \in Nat BY <2>2, <2>4
  <2> QED BY <2>1, <2>3, <2>4, <2>5, <2>6, BeginPuttingContent
<1>3. CASE WriteRow
  <2>1. Due("row") /\ Writes(Given) /\ BeginPutting(RowOf(Given)) BY <1>3 DEF WriteRow
  <2>2. RowOf(Given) \in Seq(Items) BY <1>1, <2>1, GivenTypes, RowType
  <2>3. state = "job" /\ Inner.work # <<>> /\ Head(Inner.work).job = "row" BY <2>1 DEF Due
  <2>4. PICK words : words = RowOf(Given) OBVIOUS
  <2>5. words = Words(Head(Inner.work)) BY <2>3, <2>4 DEF Words, Given
  <2>6. Len(words) \in Nat BY <2>2, <2>4
  <2> QED BY <2>1, <2>3, <2>4, <2>5, <2>6, BeginPuttingContent
<1>4. CASE WriteRows BY <1>4, WriteRowsContent
<1>5. CASE WriteBucket BY <1>5, WriteBucketContent
<1>6. CASE NoBucket BY <1>6, NoBucketContent
<1>7. CASE PutNext BY <1>7, PutNextContent
<1>8. CASE Flush BY <1>8, FlushContent
<1>9. CASE EndElement BY <1>9, EndElementContent
<1>10. CASE EndArray BY <1>10, EndArrayContent
<1>11. CASE EndFlush BY <1>11, StillContent DEF EndFlush
<1>12. CASE RowsFail \/ RowFails BY <1>12, NoFileContent DEF RowsFail, RowFails, Fail
<1> QED BY <1>2, <1>3, <1>4, <1>5, <1>6, <1>7, <1>8, <1>9, <1>10, <1>11, <1>12 DEF FlushStep

LEMMA ContentInitially == Init => ContentInvariant
<1> SUFFICES ASSUME Init PROVE ContentInvariant OBVIOUS
<1>1. /\ deferred = <<>> /\ owed = <<>> /\ calls = <<>> /\ state = "idle" /\ tables = <<>>
  BY DEF Init, BuilderInit
<1>2. OwedOnce /\ OwedKept BY <1>1, Nothing DEF OwedOnce, OwedKept
<1>3. Opened
  <2>1. 1..Len(calls) - 1 = {} BY <1>1, Nothing
  <2> QED BY <2>1 DEF Opened
<1>4. PutSoFar /\ Headed BY <1>1 DEF PutSoFar, Headed
<1>5. Settled BY <1>1, Nothing DEF Settled
<1> QED BY <1>2, <1>3, <1>4, <1>5 DEF ContentInvariant

LEMMA ContentUnchanged ==
    ASSUME WriterInvariant, ContentInvariant, UNCHANGED <<writer, builder>>
    PROVE  ContentInvariant'
<1>1. UNCHANGED writer /\ UNCHANGED <<tables, source, todo>> /\ state' = state
  BY DEF builder
<1> QED BY <1>1, StillContent

LEMMA BuildContent ==
    ASSUME WriterInvariant, ContentInvariant, Build(Builds) \/ Forget \/ BuildStep
    PROVE  ContentInvariant'
<1>1. CASE Build(Builds)
  <2>1. PICK b \in Builds : \E ts \in Sortings(b.tables) : BeginFlush(ts, b.source)
    BY <1>1 DEF Build
  <2>2. PICK ts \in Sortings(b.tables) : BeginFlush(ts, b.source) BY <2>1
  <2> QED BY <2>2, BuildAssumption, SortedBuild, BeginFlushContent
<1>2. CASE Forget BY <1>2, NoFileContent DEF Forget
<1>3. CASE BuildStep
  <2>1. CASE FlushStep BY <2>1, FlushStepContent
  <2>2. CASE WriteFails BY <2>2, NoFileContent DEF WriteFails, Fail
  <2> QED BY <1>3, <2>1, <2>2 DEF BuildStep
<1> QED BY <1>1, <1>2, <1>3

THEOREM ContentPreserved == WriterInvariant /\ ContentInvariant /\ [Next]_vars => ContentInvariant'
<1> SUFFICES ASSUME WriterInvariant, ContentInvariant, [Next]_vars PROVE ContentInvariant' OBVIOUS
<1>1. CASE Build(Builds) \/ Forget \/ BuildStep BY <1>1, BuildContent
<1>2. CASE Open \/ Read \/ NextRow \/ Look
  BY <1>2, ContentUnchanged DEF Open, Read, NextRow, Look
<1>3. CASE UNCHANGED vars BY <1>3, ContentUnchanged DEF vars
<1> QED BY <1>1, <1>2, <1>3 DEF Next

(* Whatever is built and whatever fails, a place that has been set leads to*)
(* the element it was made for, and keeps doing so: the nested calls of    *)
(* DeferredArray go back to every array above them when theirs is done.    *)
THEOREM ContentHolds == Spec => []ContentInvariant
BY Initially, Preserved, ContentInitially, ContentPreserved, PTL DEF Spec
=============================================================================
