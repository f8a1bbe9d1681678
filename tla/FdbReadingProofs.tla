--------------------------- MODULE FdbReadingProofs ---------------------------
(***************************************************************************)
(* What is read from a complete file is what was built: its tables, the    *)
(* rows of a table, and the row that an id finds.                          *)
(***************************************************************************)
EXTENDS FdbReading, FdbProofs

(* The words of a description and of a row, one by one.                    *)
Joined(a, b, both) ==
    /\ Len(both) = Len(a) + Len(b)
    /\ \A j \in 1..Len(a) : both[j] = a[j]
    /\ \A j \in 1..Len(b) : both[Len(a) + j] = b[j]

LEMMA ConcatenatedAt ==
    ASSUME NEW S, NEW a \in Seq(S), NEW b \in Seq(S)
    PROVE  Joined(a, b, a \o b)
BY DEF Joined

Listed(words, head, n, f, g) ==
    /\ Len(words) = Len(head) + 2 * n
    /\ \A j \in 1..Len(head) : words[j] = head[j]
    /\ \A i \in 1..n : words[Len(head) + 2 * i - 1] = f[i] /\ words[Len(head) + 2 * i] = g[i]

LEMMA Listing ==
    ASSUME NEW head \in Seq(Items), NEW n \in Nat, NEW f, NEW g,
           \A i \in 1..n : f[i] \in Items /\ g[i] \in Items,
           NEW words, words = head \o Pairs(n, f, g)
    PROVE  Listed(words, head, n, f, g)
<1>1. PICK pairs : pairs = Pairs(n, f, g) OBVIOUS
<1>2. pairs = [i \in 1..2 * n |-> IF i % 2 = 1 THEN f[(i + 1) \div 2] ELSE g[i \div 2]]
  BY <1>1 DEF Pairs
<1>3. pairs \in Seq(Items) /\ Len(pairs) = 2 * n
  <2>1. pairs \in Seq(Items) BY <1>2, PairsType
  <2> QED BY <1>2, <2>1
<1>4. PICK m : m = Len(head) OBVIOUS
<1>5. /\ Len(words) = m + 2 * n /\ m \in Nat /\ \A j \in 1..m : words[j] = head[j]
      /\ \A j \in 1..2 * n : words[m + j] = pairs[j]
  <2>1. words = head \o pairs /\ m \in Nat BY <1>1, <1>4
  <2>2. Joined(head, pairs, words) BY <1>3, <2>1, ConcatenatedAt
  <2> QED BY <1>3, <1>4, <2>1, <2>2 DEF Joined
<1>6. ASSUME NEW i \in 1..n
      PROVE  words[m + 2 * i - 1] = f[i] /\ words[m + 2 * i] = g[i]
  <2>1. 2 * i - 1 \in 1..2 * n /\ 2 * i \in 1..2 * n
        /\ (2 * i - 1) % 2 = 1 /\ (2 * i) % 2 = 0 /\ ((2 * i - 1) + 1) \div 2 = i /\ (2 * i) \div 2 = i
    OBVIOUS
  <2>2. pairs[2 * i - 1] = f[i] /\ pairs[2 * i] = g[i] BY <1>2, <2>1
  <2>4. words[m + (2 * i - 1)] = f[i] /\ words[m + 2 * i] = g[i] BY <1>5, <2>1, <2>2
  <2>5. m + (2 * i - 1) = m + 2 * i - 1 BY <1>5
  <2> QED BY <2>4, <2>5
<1> QED BY <1>4, <1>5, <1>6 DEF Listed

LEMMA ColumnTypes ==
    ASSUME NEW t \in Tables
    PROVE  /\ Len(t.columns) \in Nat /\ t.name \in Texts
           /\ \A i \in 1..Len(t.columns) : t.columns[i] \in [variant : Nat, name : Texts]
<1>1. t.columns \in Seq([variant : Nat, name : Texts]) /\ t.name \in Texts BY DEF Tables
<1> DEFINE columns == t.columns
           S == [variant : Nat, name : Texts]
<1>2. columns \in Seq(S) BY <1>1
<1> HIDE DEF columns, S
<1>3. Len(columns) \in Nat /\ \A i \in 1..Len(columns) : columns[i] \in S BY <1>2
<1> QED BY <1>1, <1>3 DEF columns, S

Describes(words, t, n) ==
    /\ Len(words) = 3 + 2 * n
    /\ words[1] = Word(n) /\ words[2] = Text(t.name) /\ words[3] = Pointer
    /\ \A i \in 1..n : /\ words[3 + 2 * i - 1] = Word(t.columns[i].variant)
                       /\ words[3 + 2 * i] = Text(t.columns[i].name)

LEMMA DescriptionListed ==
    ASSUME NEW t \in Tables, NEW n, n = Len(t.columns), NEW words, words = DescriptionOf(t)
    PROVE  Describes(words, t, n)
<1>1. n \in Nat /\ t.name \in Texts /\ \A i \in 1..n : t.columns[i] \in [variant : Nat, name : Texts]
  BY ColumnTypes
<1>2. PICK f, g, head :
        /\ f = [i \in 1..n |-> Word(t.columns[i].variant)]
        /\ g = [i \in 1..n |-> Text(t.columns[i].name)]
        /\ head = <<Word(n), Text(t.name), Pointer>>
  OBVIOUS
<1>3. \A i \in 1..n : f[i] \in Items /\ g[i] \in Items
  BY <1>1, <1>2 DEF Items, Values, Word, Text
<1>4. Word(n) \in Items /\ Text(t.name) \in Items /\ Pointer \in Items
  BY <1>1 DEF Items, Values, Word, Text, Pointer
<1>5. /\ head \in Seq(Items) /\ Len(head) = 3
      /\ head[1] = Word(n) /\ head[2] = Text(t.name) /\ head[3] = Pointer
  BY <1>2, <1>4
<1>6. words = head \o Pairs(n, f, g) BY <1>2 DEF DescriptionOf
<1>7. Listed(words, head, n, f, g) BY <1>1, <1>3, <1>5, <1>6, Listing
<1>8. /\ Len(words) = 3 + 2 * n
      /\ \A j \in 1..3 : words[j] = head[j]
      /\ \A i \in 1..n : words[3 + 2 * i - 1] = f[i] /\ words[3 + 2 * i] = g[i]
  BY <1>5, <1>7 DEF Listed
<1>9. words[1] = head[1] /\ words[2] = head[2] /\ words[3] = head[3] BY <1>8
<1> QED BY <1>2, <1>5, <1>8, <1>9 DEF Describes

LEMMA EntryTypes ==
    ASSUME NEW row \in Rows, Writes(row), NEW i \in 1..Len(row)
    PROVE  /\ row[i] \in Entries /\ Typed(row[i]) /\ row[i].variant \in Variants
           /\ row[i] = Entry(row[i].variant, row[i].value)
           /\ row[i].variant \in TextVariants => row[i].value \in Texts
           /\ row[i].variant \notin TextVariants => row[i].value \in Int
<1>1. row[i] \in Entries BY DEF Rows
<1>2. row[i] \in [variant : TextVariants, value : Texts]
                   \cup [variant : Nat \ TextVariants, value : Int] /\ Typed(row[i])
  BY <1>1 DEF Entries
<1> QED BY <1>1, <1>2 DEF Writes, Entry

Carries(words, row, n) ==
    /\ Len(words) = 2 + 2 * n /\ words[1] = Word(n) /\ words[2] = Pointer
    /\ \A i \in 1..n : /\ words[2 + 2 * i - 1] = Word(row[i].variant)
                       /\ words[2 + 2 * i] = Payload(row[i])

LEMMA RowListed ==
    ASSUME NEW row \in Rows, Writes(row), NEW n, n = Len(row), NEW words, words = RowOf(row)
    PROVE  Carries(words, row, n)
<1>1. n \in Nat BY DEF Rows
<1>2. PICK f, g, head :
        /\ f = [i \in 1..n |-> Word(row[i].variant)]
        /\ g = [i \in 1..n |-> Payload(row[i])]
        /\ head = <<Word(n), Pointer>>
  OBVIOUS
<1>3. ASSUME NEW i \in 1..n PROVE f[i] \in Items /\ g[i] \in Items
  <2>1. /\ row[i].variant \in Variants
        /\ row[i].variant \in TextVariants => row[i].value \in Texts
        /\ row[i].variant \notin TextVariants => row[i].value \in Int
    BY EntryTypes
  <2>2. f[i] \in Items
    BY <1>2, <2>1 DEF Items, Word, Variants, VariantNull, VariantText
  <2>3. CASE row[i].variant \in TextVariants
    <3>1. row[i].variant # VariantNull /\ row[i].variant \notin LongVariants
      BY <2>3 DEF TextVariants, LongVariants, VariantNull, VariantNVarChar, VariantText, VariantI64, VariantU64
    <3>2. Payload(row[i]) = Text(row[i].value) BY <2>3, <3>1 DEF Payload
    <3> QED BY <1>2, <2>1, <2>2, <2>3, <3>2 DEF Text, Items, Values
  <2>4. CASE row[i].variant \notin TextVariants
    <3>1. row[i].value \in Int BY <2>1, <2>4
    <3>2. uint32(row[i].value) \in Nat /\ row[i].value % LongSpan \in Nat BY <3>1, Remainders
    <3>3. Word(0) \in Items /\ Word(uint32(row[i].value)) \in Items BY <3>2 DEF Word, Items
    <3>4. Long(row[i].value % LongSpan) \in Items BY <3>2 DEF Long, Items, Values
    <3>5. Payload(row[i]) \in Items BY <2>4, <3>3, <3>4 DEF Payload
    <3> QED BY <1>2, <2>2, <3>5
  <2> QED BY <2>3, <2>4
<1>4. Word(n) \in Items /\ Pointer \in Items BY <1>1 DEF Items, Word, Pointer
<1>5. head \in Seq(Items) /\ Len(head) = 2 /\ head[1] = Word(n) /\ head[2] = Pointer
  BY <1>2, <1>4
<1>6. words = head \o Pairs(n, f, g) BY <1>2 DEF RowOf
<1>7. Listed(words, head, n, f, g) BY <1>1, <1>3, <1>5, <1>6, Listing
<1>8. /\ Len(words) = 2 + 2 * n
      /\ \A j \in 1..2 : words[j] = head[j]
      /\ \A i \in 1..n : words[2 + 2 * i - 1] = f[i] /\ words[2 + 2 * i] = g[i]
  BY <1>5, <1>7 DEF Listed
<1>9. words[1] = head[1] /\ words[2] = head[2] BY <1>8
<1> QED BY <1>2, <1>5, <1>8, <1>9 DEF Carries

(* What Go's conversions give back.                                        *)
LEMMA Wrapped ==
    ASSUME NEW span \in Nat, span > 1, span % 2 = 0, NEW v \in Int
    PROVE  /\ v \in 0..span - 1 => v % span = v
           /\ v \in 0 - span \div 2..span \div 2 - 1 => Signed(v % span, span) = v
<1>1. PICK half \in Nat : span = 2 * half /\ half = span \div 2 OBVIOUS
<1>2. v \in 0..span - 1 => v % span = v BY <1>1
<1>3. ASSUME v \in 0 - half..half - 1 PROVE Signed(v % span, span) = v
  <2>1. CASE v >= 0
    <3>1. v \in 0..span - 1 BY <1>1, <1>3, <2>1
    <3>2. v % span = v BY <1>2, <3>1
    <3> QED BY <1>1, <1>3, <3>2 DEF Signed
  <2>2. CASE v < 0
    <3>1. v + span \in 0..span - 1 /\ v + span >= half BY <1>1, <1>3, <2>2
    <3>2. v % span = v + span BY <1>1, <3>1
    <3> QED BY <1>1, <3>1, <3>2 DEF Signed
  <2> QED BY <1>3, <2>1, <2>2
<1> QED BY <1>1, <1>2, <1>3

(* What is read where an item has been put.                                *)
LEMMA LeadsRead ==
    ASSUME NEW o, NEW item, Leads(o, item)
    PROVE  /\ item.kind = "word" => WordAt(o) = item.of
           /\ item.kind = "pointer" => WordAt(o) = o + 4
           /\ item.kind = "text" => TextAt(WordAt(o)) = item.of
           /\ item.kind = "long" => LongAt(WordAt(o)) = item.of
<1>1. IsWord(o) /\ WordAt(o) = file[o].of BY DEF Leads, WordAt
<1>2. item.kind = "text" => Holds(file[o].of, "text") /\ file[file[o].of].of = item.of
  BY DEF Leads
<1>3. item.kind = "long" => Holds(file[o].of, "long") /\ file[file[o].of].of = item.of
  BY DEF Leads
<1> QED BY <1>1, <1>2, <1>3 DEF Leads, Behind, TextAt, LongAt

LEMMA DescriptionRead ==
    ASSUME NEW t \in Tables, NEW o \in Nat, NEW h, Stored(o, DescriptionOf(t))
    PROVE  TableAt(o, h).name = t.name /\ TableAt(o, h).columns = t.columns
<1>1. PICK n, words : n = Len(t.columns) /\ words = DescriptionOf(t) OBVIOUS
<1>2. n \in Nat /\ \A i \in 1..n : t.columns[i] \in [variant : Nat, name : Texts]
  BY <1>1, ColumnTypes
<1>3. /\ Len(words) = 3 + 2 * n
      /\ words[1] = Word(n) /\ words[2] = Text(t.name) /\ words[3] = Pointer
      /\ \A i \in 1..n : /\ words[3 + 2 * i - 1] = Word(t.columns[i].variant)
                         /\ words[3 + 2 * i] = Text(t.columns[i].name)
  <2>1. Describes(words, t, n) BY <1>1, DescriptionListed
  <2> QED BY <2>1 DEF Describes
<1>4. \A j \in 1..3 + 2 * n : Leads(o + 4 * (j - 1), words[j])
  BY <1>1, <1>3 DEF Stored
<1>5. WordAt(o) = n /\ TextAt(WordAt(o + 4)) = t.name /\ WordAt(o + 8) = o + 12
  <2>1. Leads(o, Word(n)) /\ Leads(o + 4, Text(t.name)) /\ Leads(o + 8, Pointer)
    <3>1. 1 \in 1..3 + 2 * n /\ 2 \in 1..3 + 2 * n /\ 3 \in 1..3 + 2 * n BY <1>2
    <3>2. o + 4 * (1 - 1) = o /\ o + 4 * (2 - 1) = o + 4 /\ o + 4 * (3 - 1) = o + 8 OBVIOUS
    <3>3. Leads(o + 4 * (1 - 1), words[1]) /\ Leads(o + 4 * (2 - 1), words[2])
          /\ Leads(o + 4 * (3 - 1), words[3])
      BY <1>4, <3>1
    <3> QED BY <1>3, <3>2, <3>3
  <2>2. WordAt(o + 8) = (o + 8) + 4 BY <2>1, LeadsRead DEF Pointer
  <2> QED BY <2>1, <2>2, LeadsRead DEF Word, Text
<1>6. ASSUME NEW i \in 1..n PROVE ColumnAt(o + 12 + 8 * (i - 1)) = t.columns[i]
  <2>1. PICK p : p = o + 12 + 8 * (i - 1) OBVIOUS
  <2>2. PICK j, k : j = 3 + 2 * i - 1 /\ k = 3 + 2 * i OBVIOUS
  <2>3. j \in 1..3 + 2 * n /\ k \in 1..3 + 2 * n /\ o + 4 * (j - 1) = p /\ o + 4 * (k - 1) = p + 4
    BY <1>2, <2>1, <2>2
  <2>4. Leads(p, words[j]) /\ Leads(p + 4, words[k]) BY <1>4, <2>3
  <2>5. Leads(p, Word(t.columns[i].variant)) /\ Leads(p + 4, Text(t.columns[i].name))
    BY <1>3, <2>2, <2>4
  <2>6. WordAt(p) = t.columns[i].variant /\ TextAt(WordAt(p + 4)) = t.columns[i].name
    BY <2>5, LeadsRead DEF Word, Text
  <2>7. ColumnAt(p) = t.columns[i] BY <1>2, <2>6 DEF ColumnAt, Column
  <2> QED BY <2>1, <2>7
<1>7. TableAt(o, h).name = t.name BY <1>5 DEF TableAt
<1>8. TableAt(o, h).columns = [i \in 1..n |-> ColumnAt(o + 12 + 8 * (i - 1))]
  BY <1>5 DEF TableAt
<1>9. t.columns = [i \in 1..n |-> t.columns[i]]
  <2> DEFINE columns == t.columns
             S == [variant : Nat, name : Texts]
  <2>1. columns \in Seq(S) BY DEF Tables
  <2> HIDE DEF columns, S
  <2>2. columns = [i \in 1..Len(columns) |-> columns[i]] BY <2>1
  <2> QED BY <1>1, <2>2 DEF columns, S
<1> QED BY <1>6, <1>7, <1>8, <1>9

(* An entry of the right type is read as what it is.                       *)
LEMMA EntryRead ==
    ASSUME NEW entry, Typed(entry), entry.variant \in Variants,
           entry = Entry(entry.variant, entry.value),
           entry.variant \notin TextVariants => entry.value \in Int,
           NEW p, Leads(p, Word(entry.variant)), Leads(p + 4, Payload(entry))
    PROVE  EntryAt(p) = entry
<1> USE DEF VariantNull, VariantI32, VariantU32, VariantReal, VariantNVarChar, VariantBool, VariantI64, VariantU64, VariantText
<1>1. PICK variant, value : variant = entry.variant /\ value = entry.value OBVIOUS
<1>2. WordAt(p) = variant BY <1>1, LeadsRead DEF Word
<1>3. Span \in Nat /\ Span > 16 /\ Span % 2 = 0 /\ LongSpan \in Nat \ {0} /\ LongSpan % 2 = 0
  BY SpanAssumption
<1>4. LongSpan > 1 BY <1>3
<1>5. variant \in 0..8 BY <1>1 DEF Variants
<1>6. PICK data : data = WordAt(p + 4) OBVIOUS
<1>7. EntryAt(p) =
        Entry(variant,
              CASE variant = VariantI32 -> Signed(data, Span)
                [] variant = VariantBool -> IF data = 0 THEN 0 ELSE 1
                [] variant \in TextVariants -> TextAt(data)
                [] variant = VariantI64 -> Signed(LongAt(data), LongSpan)
                [] variant = VariantU64 -> LongAt(data)
                [] OTHER -> data)
  BY <1>2, <1>6 DEF EntryAt
<1>8. CASE variant \in {4, 8}
  <2>1. Payload(entry) = Text(value) BY <1>1, <1>8 DEF Payload, TextVariants, LongVariants
  <2>2. TextAt(data) = value BY <1>6, <2>1, LeadsRead DEF Text
  <2>3. EntryAt(p) = Entry(variant, value) BY <1>7, <1>8, <2>2 DEF TextVariants
  <2> QED BY <1>1, <2>3
<1>9. CASE variant \in {6, 7}
  <2>1. Payload(entry) = Long(value % LongSpan) BY <1>1, <1>9 DEF Payload, TextVariants, LongVariants
  <2>2. LongAt(data) = value % LongSpan BY <1>6, <2>1, LeadsRead DEF Long
  <2>3. value \in Int BY <1>1, <1>9 DEF TextVariants
  <2>4. variant = 6 => Signed(value % LongSpan, LongSpan) = value
    BY <1>1, <1>3, <1>4, <2>3, Wrapped DEF Typed, Signed64
  <2>5. variant = 7 => value % LongSpan = value BY <1>1, <1>3, <1>4, <2>3, Wrapped DEF Typed
  <2>6. EntryAt(p) = Entry(variant, value)
    BY <1>7, <1>9, <2>2, <2>4, <2>5 DEF TextVariants
  <2> QED BY <1>1, <2>6
<1>10. CASE variant \in {1, 2, 3, 5}
  <2>1. Payload(entry) = Word(uint32(value))
    BY <1>1, <1>10 DEF Payload, TextVariants, LongVariants
  <2>2. data = value % Span BY <1>6, <2>1, LeadsRead DEF Word, uint32
  <2>3. value \in Int BY <1>1, <1>10 DEF TextVariants
  <2>8. Span > 1 BY <1>3
  <2>9. /\ value \in 0..Span - 1 => value % Span = value
        /\ value \in 0 - Span \div 2..Span \div 2 - 1 => Signed(value % Span, Span) = value
    BY <1>3, <2>3, <2>8, Wrapped
  <2>4. variant = 1 => Signed(value % Span, Span) = value
    BY <1>1, <2>9 DEF Typed, Signed32
  <2>5. variant \in {2, 3} => value % Span = value BY <1>1, <2>9 DEF Typed
  <2>6. variant = 5 => value \in {0, 1} /\ value % Span = value
    <3>1. variant = 5 => value \in {0, 1} BY <1>1 DEF Typed
    <3>2. value \in {0, 1} => value \in 0..Span - 1 BY <1>3
    <3> QED BY <2>9, <3>1, <3>2
  <2>7. EntryAt(p) = Entry(variant, value)
    BY <1>7, <1>10, <2>2, <2>4, <2>5, <2>6 DEF TextVariants
  <2> QED BY <1>1, <2>7
<1>11. CASE variant = 0
  <2>1. Payload(entry) = Word(0) BY <1>1, <1>11 DEF Payload, TextVariants, LongVariants
  <2>2. data = 0 BY <1>6, <2>1, LeadsRead DEF Word
  <2>3. value = 0 BY <1>1, <1>11 DEF Typed
  <2>4. EntryAt(p) = Entry(variant, value) BY <1>7, <1>11, <2>2, <2>3 DEF TextVariants
  <2> QED BY <1>1, <2>4
<1> QED BY <1>5, <1>8, <1>9, <1>10, <1>11

LEMMA RowRead ==
    ASSUME NEW row \in Rows, Writes(row), NEW d \in Nat, NEW o, WordAt(o) = d,
           Stored(d, RowOf(row))
    PROVE  RowAt(o) = row
<1>1. PICK n, words : n = Len(row) /\ words = RowOf(row) OBVIOUS
<1>2. n \in Nat /\ row = [i \in 1..n |-> row[i]] BY <1>1 DEF Rows
<1>3. /\ Len(words) = 2 + 2 * n /\ words[1] = Word(n) /\ words[2] = Pointer
      /\ \A i \in 1..n : /\ words[2 + 2 * i - 1] = Word(row[i].variant)
                         /\ words[2 + 2 * i] = Payload(row[i])
  <2>1. Carries(words, row, n) BY <1>1, RowListed
  <2> QED BY <2>1 DEF Carries
<1>4. \A j \in 1..2 + 2 * n : Leads(d + 4 * (j - 1), words[j])
  BY <1>1, <1>3 DEF Stored
<1>5. WordAt(d) = n /\ WordAt(d + 4) = d + 8
  <2>1. Leads(d, Word(n)) /\ Leads(d + 4, Pointer)
    <3>1. 1 \in 1..2 + 2 * n /\ 2 \in 1..2 + 2 * n BY <1>2
    <3>2. d + 4 * (1 - 1) = d /\ d + 4 * (2 - 1) = d + 4 OBVIOUS
    <3>3. Leads(d + 4 * (1 - 1), words[1]) /\ Leads(d + 4 * (2 - 1), words[2]) BY <1>4, <3>1
    <3> QED BY <1>3, <3>2, <3>3
  <2>2. WordAt(d + 4) = (d + 4) + 4 BY <2>1, LeadsRead DEF Pointer
  <2> QED BY <2>1, <2>2, LeadsRead DEF Word
<1>6. ASSUME NEW i \in 1..n PROVE EntryAt(d + 8 + 8 * (i - 1)) = row[i]
  <2>1. PICK p, entry : p = d + 8 + 8 * (i - 1) /\ entry = row[i] OBVIOUS
  <2>2. PICK j, k : j = 2 + 2 * i - 1 /\ k = 2 + 2 * i OBVIOUS
  <2>3. j \in 1..2 + 2 * n /\ k \in 1..2 + 2 * n /\ d + 4 * (j - 1) = p /\ d + 4 * (k - 1) = p + 4
    BY <1>2, <2>1, <2>2
  <2>4. Leads(p, words[j]) /\ Leads(p + 4, words[k]) BY <1>4, <2>3
  <2>5. Leads(p, Word(entry.variant)) /\ Leads(p + 4, Payload(entry)) BY <1>3, <2>1, <2>2, <2>4
  <2>6. /\ Typed(entry) /\ entry.variant \in Variants /\ entry = Entry(entry.variant, entry.value)
        /\ entry.variant \notin TextVariants => entry.value \in Int
    BY <1>1, <2>1, EntryTypes
  <2>7. EntryAt(p) = entry BY <2>5, <2>6, EntryRead
  <2> QED BY <2>1, <2>7
<1>7. RowAt(o) = [i \in 1..n |-> EntryAt(d + 8 + 8 * (i - 1))] BY <1>5 DEF RowAt
<1> QED BY <1>2, <1>6, <1>7

(* In a complete file every place is set and leads to its element.         *)
LEMMA Finished ==
    ASSUME WriterInvariant, ContentInvariant, state = "built", NEW s, NEW job, Owes(s, job)
    PROVE  /\ job \in Jobs /\ s \in Nat /\ s # noData
           /\ Fulfilled(WordAt(s), job)
<1>1. deferred = <<>> /\ Len(calls) = 1 /\ Inner.work = <<>>
  BY DEF ContentInvariant, Settled
<1>2. calls[1].work = <<>> BY <1>1 DEF Inner
<1>3. ~Waits(s) BY <1>1, <1>2, Nothing DEF Waits, Pending
<1>4. s \in DOMAIN owed /\ owed[s] = job BY DEF Owes
<1>5. IsPlace(file, s) /\ job \in Jobs BY <1>4 DEF ContentInvariant, OwedOnce
<1>6. Fulfilled(file[s].of, job) BY <1>3, <1>4 DEF ContentInvariant, OwedKept
<1>7. WordAt(s) = file[s].of BY <1>5 DEF WordAt, IsWord, IsPlace
<1>8. s \in Nat /\ s # noData
  <2>1. s \in Nat /\ file[s].size = 4 /\ s + file[s].size <= pos
    BY <1>5 DEF WriterInvariant, LaidOut, IsPlace
  <2>2. pos < noData /\ pos \in Nat BY DEF ContentInvariant, Headed, WriterInvariant, BuilderTypeOK
  <2>3. noData \in Int BY SpanAssumption DEF noData
  <2> QED BY <2>1, <2>2, <2>3
<1> QED BY <1>5, <1>6, <1>7, <1>8

LEMMA ListRead ==
    ASSUME WriterInvariant, ContentInvariant, state = "built",
           NEW list \in Seq(Rows), NEW o, RowAndRestAt(o, list)
    PROVE  /\ list = <<>> <=> o = noData
           /\ list # <<>> => RowAt(o) = Head(list) /\ RowAndRestAt(WordAt(o + 4), Tail(list))
<1>1. CASE list = <<>> BY <1>1 DEF RowAndRestAt
<1>2. CASE list # <<>>
  <2>1. Owes(o, Job("row", Head(list))) /\ Owes(o + 4, Job("bucket", Tail(list)))
    BY <1>2 DEF RowAndRestAt
  <2>2. PICK d, row, jobs : d = WordAt(o) /\ row = Head(list) /\ jobs = Job("row", row) OBVIOUS
  <2>3. Fulfilled(d, jobs) /\ o # noData BY <2>1, <2>2, Finished
  <2>4. Writes(row) /\ Stored(d, RowOf(row)) BY <2>2, <2>3 DEF Fulfilled, Job
  <2>5. row \in Rows
    <3> HIDE DEF Rows
    <3> QED BY <1>2, <2>2, HeadType
  <2>6. d \in Nat BY <2>4 DEF Stored
  <2>7. RowAt(o) = row BY <2>2, <2>4, <2>5, <2>6, RowRead
  <2>8. PICK e, next : e = o + 4 /\ next = Job("bucket", Tail(list)) OBVIOUS
  <2>9. Fulfilled(WordAt(e), next) BY <2>1, <2>8, Finished
  <2>10. RowAndRestAt(WordAt(e), Tail(list)) BY <2>8, <2>9 DEF Fulfilled, Job
  <2> QED BY <1>2, <2>2, <2>3, <2>7, <2>8, <2>10
<1> QED BY <1>1, <1>2

(* Opening a complete file reads its tables, and where their buckets are.  *)
HasBuckets(t, buckets) ==
    /\ buckets \in BucketsOf(tables[t])
    /\ reader.tables[t].numBuckets = Len(buckets)
    /\ \A b \in 1..Len(buckets) :
          Owes(reader.tables[t].base + 4 * (b - 1), Job("bucket", buckets[b]))

LEMMA TablesRead ==
    ASSUME WriterInvariant, ContentInvariant, Complete, reader.open
    PROVE  /\ Len(reader.tables) = Len(tables) /\ Len(tables) \in Nat
           /\ \A t \in 1..Len(tables) :
                /\ tables[t] \in Tables /\ tables[t].name \in DOMAIN source
                /\ reader.tables[t].name = tables[t].name
                /\ reader.tables[t].columns = tables[t].columns
                /\ reader.tables[t].base \in Nat
                /\ tables[t].columns # <<>> => Collects(tables[t])
                /\ \E buckets : HasBuckets(t, buckets)
<1>1. state = "built" /\ reader.tables = TablesAt(Start) BY DEF Complete
<1>2. PICK n, first : n = Len(tables) /\ first = Start + 8 OBVIOUS
<1>3. n \in Nat /\ \A t \in 1..n : tables[t] \in Tables
  <2> HIDE DEF Tables
  <2> QED BY <1>2 DEF ContentInvariant, Settled
<1>4. Start \in Nat /\ first \in Nat BY <1>2, StartAssumption
<1>5. /\ Stored(Start, <<Word(n), Word(first)>>)
      /\ \A k \in 1..2 * n : Owes(first + 4 * (k - 1), TableJobs(tables)[k])
  BY <1>1, <1>2 DEF ContentInvariant, Headed
<1>6. WordAt(Start) = n /\ WordAt(Start + 4) = first
  <2>1. Leads(Start, Word(n)) /\ Leads(Start + 4, Word(first))
    <3>1. PICK items : items = <<Word(n), Word(first)>> OBVIOUS
    <3>2. Len(items) = 2 /\ items[1] = Word(n) /\ items[2] = Word(first) BY <3>1
    <3>3. Leads(Start + 4 * (1 - 1), items[1]) /\ Leads(Start + 4 * (2 - 1), items[2])
      BY <1>5, <3>1, <3>2 DEF Stored
    <3> QED BY <1>4, <3>2, <3>3
  <2> QED BY <2>1, LeadsRead DEF Word
<1>7. reader.tables = [t \in 1..n |-> TableAt(WordAt(first + 8 * (t - 1)), WordAt(first + 8 * (t - 1) + 4))]
  BY <1>1, <1>6 DEF TablesAt
<1>8. Len(reader.tables) = n BY <1>3, <1>7
<1>9. ASSUME NEW t \in 1..n
      PROVE  /\ tables[t].name \in DOMAIN source
             /\ reader.tables[t].name = tables[t].name
             /\ reader.tables[t].columns = tables[t].columns
             /\ reader.tables[t].base \in Nat
             /\ tables[t].columns # <<>> => Collects(tables[t])
             /\ \E buckets : HasBuckets(t, buckets)
  <2>1. PICK table, s, d, h : /\ table = tables[t] /\ s = first + 8 * (t - 1)
                              /\ d = WordAt(s) /\ h = WordAt(s + 4)
    OBVIOUS
  <2>2. table \in Tables BY <1>3, <2>1
  <2>3. PICK x, y : x = Job("description", table) /\ y = Job("rows", table) OBVIOUS
  <2>4. Owes(s, x) /\ Owes(s + 4, y)
    <3>1. PICK k, l : k = 2 * t - 1 /\ l = 2 * t OBVIOUS
    <3>2. /\ k \in 1..2 * n /\ l \in 1..2 * n /\ k % 2 = 1 /\ l % 2 # 1
          /\ (k + 1) \div 2 = t /\ (l + 1) \div 2 = t
          /\ first + 4 * (k - 1) = s /\ first + 4 * (l - 1) = s + 4
      BY <1>3, <1>4, <2>1, <3>1
    <3>3. TableJobs(tables)[k] = x /\ TableJobs(tables)[l] = y
      BY <1>2, <2>1, <2>3, <3>2 DEF TableJobs
    <3> QED BY <1>5, <3>2, <3>3
  <2>5. Fulfilled(d, x) /\ Fulfilled(h, y) /\ y \in Jobs BY <1>1, <2>1, <2>4, Finished
  <2>6. table.name \in DOMAIN source BY <2>3, <2>5 DEF Jobs, Job
  <2>7. Stored(d, DescriptionOf(table)) /\ BucketsAt(h, table)
    BY <2>3, <2>5 DEF Fulfilled, Job
  <2>8. d \in Nat BY <2>7 DEF Stored
  <2>9. TableAt(d, h).name = table.name /\ TableAt(d, h).columns = table.columns
    BY <2>2, <2>7, <2>8, DescriptionRead
  <2>10. reader.tables[t] = TableAt(d, h) BY <1>7, <2>1
  <2>11. table.columns # <<>> => Collects(table) BY <2>7 DEF BucketsAt
  <2>12. PICK buckets \in BucketsOf(table) :
           /\ Stored(h, <<Word(Len(buckets)), Pointer>>)
           /\ \A b \in 1..Len(buckets) : Owes(h + 8 + 4 * (b - 1), Job("bucket", buckets[b]))
    BY <2>7 DEF BucketsAt
  <2>13. h \in Nat /\ WordAt(h) = Len(buckets) /\ WordAt(h + 4) = h + 8
    <3>1. PICK items : items = <<Word(Len(buckets)), Pointer>> OBVIOUS
    <3>2. Len(items) = 2 /\ items[1] = Word(Len(buckets)) /\ items[2] = Pointer BY <3>1
    <3>3. h \in Nat /\ Leads(h + 4 * (1 - 1), items[1]) /\ Leads(h + 4 * (2 - 1), items[2])
      BY <2>12, <3>1, <3>2 DEF Stored
    <3>4. Leads(h, Word(Len(buckets))) /\ Leads(h + 4, Pointer) BY <3>2, <3>3
    <3>5. WordAt(h + 4) = (h + 4) + 4 BY <3>4, LeadsRead DEF Pointer
    <3>6. WordAt(h) = Len(buckets) BY <3>4, LeadsRead DEF Word
    <3> QED BY <3>3, <3>5, <3>6
  <2>14. reader.tables[t].numBuckets = Len(buckets) /\ reader.tables[t].base = h + 8
    BY <2>10, <2>13 DEF TableAt
  <2>15. HasBuckets(t, buckets) BY <2>1, <2>12, <2>14 DEF HasBuckets
  <2> QED BY <2>1, <2>6, <2>9, <2>10, <2>11, <2>13, <2>14, <2>15
<1> QED BY <1>2, <1>3, <1>8, <1>9

LEMMA ReadsBackFromComplete ==
    ASSUME WriterInvariant, ContentInvariant, Complete
    PROVE  ReadsBack
BY TablesRead DEF ReadsBack

(* Nothing is written while a file is open.                                *)
LEMMA SameFile ==
    ASSUME UNCHANGED <<writer, builder>>
    PROVE  /\ \A o : TablesAt(o)' = TablesAt(o)
           /\ UNCHANGED <<file, owed, state, tables, source, calls, deferred>>
<1>1. UNCHANGED <<file, owed, state, tables, source, calls, deferred>> BY DEF writer, builder
<1>2. \A o : WordAt(o)' = WordAt(o) BY <1>1 DEF WordAt, IsWord
<1>3. \A o : TextAt(o)' = TextAt(o) BY <1>1 DEF TextAt, Holds
<1>4. \A o : ColumnAt(o)' = ColumnAt(o)
  <2> TAKE o
  <2>1. PICK a, b : a = WordAt(o) /\ b = WordAt(o + 4) OBVIOUS
  <2>2. WordAt(o)' = a /\ WordAt(o + 4)' = b /\ TextAt(b)' = TextAt(b) BY <1>2, <1>3, <2>1
  <2> QED BY <1>1, <2>1, <2>2 DEF ColumnAt, Column, TextAt, Holds, WordAt, IsWord
<1>6. ASSUME NEW d, NEW h PROVE TableAt(d, h)' = TableAt(d, h)
  <2>1. PICK n, m, x : n = WordAt(d) /\ m = WordAt(d + 4) /\ x = WordAt(d + 8) OBVIOUS
  <2>2. WordAt(d)' = n /\ WordAt(d + 4)' = m /\ WordAt(d + 8)' = x BY <1>2, <2>1
  <2>3. TextAt(m)' = TextAt(m) BY <1>3
  <2>4. WordAt(h)' = WordAt(h) /\ WordAt(h + 4)' = WordAt(h + 4) BY <1>2
  <2>5. \A i \in 1..n : ColumnAt(x + 8 * (i - 1))' = ColumnAt(x + 8 * (i - 1)) BY <1>4
  <2>6. [i \in 1..n |-> ColumnAt(x + 8 * (i - 1))]' = [i \in 1..n |-> ColumnAt(x + 8 * (i - 1))]
    BY <2>5
  <2> QED BY <2>1, <2>2, <2>3, <2>4, <2>6 DEF TableAt
<1>5. ASSUME NEW o PROVE TablesAt(o)' = TablesAt(o)
  <2>1. PICK n, first : n = WordAt(o) /\ first = WordAt(o + 4) OBVIOUS
  <2>2. WordAt(o)' = n /\ WordAt(o + 4)' = first BY <1>2, <2>1
  <2>3. ASSUME NEW i \in 1..n
        PROVE  TableAt(WordAt(first + 8 * (i - 1)), WordAt(first + 8 * (i - 1) + 4))'
                 = TableAt(WordAt(first + 8 * (i - 1)), WordAt(first + 8 * (i - 1) + 4))
    <3>1. PICK d, h : d = WordAt(first + 8 * (i - 1)) /\ h = WordAt(first + 8 * (i - 1) + 4)
      OBVIOUS
    <3>2. WordAt(first + 8 * (i - 1))' = d /\ WordAt(first + 8 * (i - 1) + 4)' = h
      BY <1>2, <3>1
    <3>3. TableAt(d, h)' = TableAt(d, h) BY <1>6
    <3> QED BY <3>1, <3>2, <3>3
  <2> QED BY <2>1, <2>2, <2>3 DEF TablesAt
<1> QED BY <1>1, <1>5

LEMMA WritesNotOpen ==
    ASSUME Complete, Build(Builds) \/ Forget \/ BuildStep
    PROVE  ~reader.open /\ UNCHANGED cursors
<1>1. CASE Build(Builds)
  <2>1. PICK b \in Builds : \E ts \in Sortings(b.tables) : BeginFlush(ts, b.source)
    BY <1>1 DEF Build
  <2>2. state = "idle" BY <2>1 DEF BeginFlush
  <2> QED BY <1>1, <2>2 DEF Build, Complete
<1>2. CASE Forget BY <1>2 DEF Forget
<1>3. CASE BuildStep
  <2>1. state \in {"job", "put"}
    BY <1>3 DEF BuildStep, FlushStep, WriteFails, WriteDescription, WriteRows, WriteBucket,
                NoBucket, WriteRow, PutNext, Flush, EndElement, EndArray, EndFlush, RowsFail,
                RowFails, Due
  <2> QED BY <1>3, <2>1 DEF BuildStep, Complete
<1> QED BY <1>1, <1>2, <1>3

LEMMA CompleteStays ==
    ASSUME Complete, UNCHANGED <<writer, builder>>,
           reader' = reader \/ reader' = Closed \/ (state = "built" /\ OpenReader)
    PROVE  Complete'
<1>1. TablesAt(Start)' = TablesAt(Start) /\ state' = state BY SameFile
<1>2. CASE reader' = reader BY <1>1, <1>2 DEF Complete
<1>3. CASE reader' = Closed BY <1>3 DEF Complete, Closed
<1>4. CASE state = "built" /\ OpenReader BY <1>1, <1>4 DEF Complete, OpenReader
<1> QED BY <1>2, <1>3, <1>4

(* While a file is open, what cursors are told by does not change.         *)
LEMMA SameContent ==
    ASSUME UNCHANGED <<writer, builder>>
    PROVE  /\ \A t : RowsOf(t)' = RowsOf(t)
           /\ \A o, list : RowAndRestAt(o, list)' <=> RowAndRestAt(o, list)
           /\ \A bucket, rs, p, c : StandsAt(bucket, rs, p, c)' <=> StandsAt(bucket, rs, p, c)
           /\ reader' = reader => \A t : Placings(t)' = Placings(t) /\ BucketsIn(t)' = BucketsIn(t)
<1>1. UNCHANGED <<file, owed, state, tables, source, calls, deferred>> BY SameFile
<1>2. \A t : RowsOf(t)' = RowsOf(t) BY <1>1 DEF RowsOf
<1>3. \A o, list : RowAndRestAt(o, list)' <=> RowAndRestAt(o, list)
  BY <1>1 DEF RowAndRestAt, Owes
<1>4. \A bucket, rs, p, c : StandsAt(bucket, rs, p, c)' <=> StandsAt(bucket, rs, p, c)
  BY <1>1 DEF StandsAt, RowAndRestAt, Owes
<1>5. ASSUME reader' = reader, NEW t
      PROVE  Placings(t)' = Placings(t) /\ BucketsIn(t)' = BucketsIn(t)
  <2>1. BucketsIn(t)' = BucketsIn(t) BY <1>5 DEF BucketsIn
  <2>2. RowsOf(t)' = RowsOf(t) BY <1>2
  <2>3. ASSUME NEW b PROVE OrdersOf(t, b)' = OrdersOf(t, b)
    BY <1>1, <1>5, <2>2 DEF OrdersOf, Owes
  <2> QED BY <2>1, <2>3 DEF Placings
<1> QED BY <1>2, <1>3, <1>4, <1>5

(* The tables of an open file: their buckets divide Span, and have all the *)
(* rows.                                                                   *)
Ready(t) ==
    LET n == reader.tables[t].numBuckets
    IN  /\ n \in Nat /\ reader.tables[t].base \in Nat
        /\ RowsOf(t) \in Seq(Rows) /\ Identified(RowsOf(t))
        /\ n = 0 => RowsOf(t) = <<>>
        /\ n # 0 => Span % n = 0

LEMMA IsReady ==
    ASSUME WriterInvariant, ContentInvariant, Complete, reader.open, NEW t \in 1..Len(tables)
    PROVE  Ready(t) /\ Placings(t) # {}
<1>1. PICK n, table : n = reader.tables[t].numBuckets /\ table = tables[t] OBVIOUS
<1>2. PICK buckets : HasBuckets(t, buckets) BY TablesRead
<1>3. /\ table \in Tables /\ table.name \in DOMAIN source /\ reader.tables[t].base \in Nat
      /\ table.columns # <<>> => Collects(table)
  BY <1>1, TablesRead
<1>4. buckets \in BucketsOf(table) /\ n = Len(buckets)
      /\ \A b \in 1..n : Owes(reader.tables[t].base + 4 * (b - 1), Job("bucket", buckets[b]))
  BY <1>1, <1>2 DEF HasBuckets
<1>5. CASE table.columns = <<>>
  <2>1. RowsOf(t) = <<>> BY <1>1, <1>5 DEF RowsOf
  <2>2. n = 0 BY <1>4, <1>5, Nothing DEF BucketsOf
  <2>3. Ready(t) BY <1>1, <1>3, <2>1, <2>2, Nothing DEF Ready, Identified
  <2>4. BucketsIn(t) = {} BY <1>1, <2>2 DEF BucketsIn
  <2>5. Placings(t) # {}
    <3>1. [b \in {} |-> 0] \in [{} -> UNION {OrdersOf(t, b) : b \in {}}] OBVIOUS
    <3> QED BY <2>4, <3>1 DEF Placings
  <2> QED BY <2>3, <2>5
<1>6. CASE table.columns # <<>>
  <2>1. PICK rs : rs = RowsOf(t) OBVIOUS
  <2>2. rs = source[table.name].rows BY <1>1, <1>6, <2>1 DEF RowsOf
  <2>3. rs \in Seq(Rows) BY <1>3, <2>2 DEF WriterInvariant, BuilderTypeOK
  <2>4. Identified(rs) BY <1>3, <1>6, <2>2, <2>3, CollectsIdentified
  <2>5. buckets \in Buckets(rs) BY <1>4, <1>6, <2>2 DEF BucketsOf
  <2>6. PICK m : m = bitCeil(Cardinality(Keys(rs))) OBVIOUS
  <2>7. Cardinality(Keys(rs)) \in 0..Span BY <2>3, <2>4, KeysFinite
  <2>8. /\ m \in Nat
        /\ m = 0 => Cardinality(Keys(rs)) = 0
        /\ m # 0 => Span % m = 0
    <3>1. Cardinality(Keys(rs)) # 0 => m # 0 BY <2>6, <2>7, bitCeilDivides
    <3>2. Cardinality(Keys(rs)) = 0 => m = 0 BY <2>6, <2>7, bitCeilDivides
    <3> QED BY <2>6, <2>7, <3>1, <3>2, bitCeilDivides
  <2>9. DOMAIN buckets = 1..m
        /\ \A b \in 1..m : buckets[b] \in {InOrder(rs, p) : p \in Orders(rs, InBucket(rs, m, b - 1))}
    BY <2>5, <2>6 DEF Buckets
  <2>10. n = m
    <3>1. buckets \in Seq(Seq(Rows)) BY <2>3, <2>4, <2>5, BucketsType
    <3>2. DOMAIN buckets = 1..n /\ n \in Nat BY <1>4, <3>1
    <3> QED BY <2>8, <2>9, <3>2
  <2>11. n = 0 => rs = <<>>
    <3>1. IsFiniteSet(Keys(rs)) BY <2>3, <2>4, KeysFinite
    <3>2. n = 0 => Keys(rs) = {} BY <2>8, <2>10, <3>1, FS_EmptySet
    <3>3. Keys(rs) = {} => 1..Len(rs) = {} BY DEF Keys
    <3>4. \A k \in Nat : k # 0 => 1 \in 1..k OBVIOUS
    <3>5. Len(rs) = 0 => rs = <<>> BY <2>3
    <3>6. Len(rs) \in Nat BY <2>3
    <3> QED BY <3>2, <3>3, <3>4, <3>5, <3>6
  <2>12. Ready(t) BY <1>1, <1>3, <2>1, <2>3, <2>4, <2>8, <2>10, <2>11 DEF Ready
  <2>13. ASSUME NEW b \in 0..n - 1 PROVE OrdersOf(t, b) # {}
    <3>1. PICK c : c = b + 1 OBVIOUS
    <3>2. c \in 1..n /\ c - 1 = b BY <2>8, <2>10, <3>1
    <3>3. PICK p \in Orders(rs, InBucket(rs, n, b)) : buckets[c] = InOrder(rs, p)
      BY <2>9, <2>10, <3>2
    <3>4. Owes(reader.tables[t].base + 4 * b, Job("bucket", InOrder(rs, p)))
      BY <1>4, <3>2, <3>3
    <3>5. p \in OrdersOf(t, b) BY <1>1, <2>1, <3>3, <3>4 DEF OrdersOf
    <3> QED BY <3>5
  <2>14. PICK place : place = [b \in 0..n - 1 |-> CHOOSE p \in OrdersOf(t, b) : TRUE] OBVIOUS
  <2>15. \A b \in 0..n - 1 : place[b] \in OrdersOf(t, b) BY <2>13, <2>14
  <2>16. place \in [0..n - 1 -> UNION {OrdersOf(t, b) : b \in 0..n - 1}] BY <2>14, <2>15
  <2>17. place \in Placings(t) BY <1>1, <2>15, <2>16 DEF Placings, BucketsIn
  <2> QED BY <2>12, <2>17
<1> QED BY <1>5, <1>6

(* The rows of a bucket: all whose key has its number, in the builder's    *)
(* order where they have the same key.                                     *)
LinedUp(t, b, p) ==
    LET rs   == RowsOf(t)
        mine == InBucket(rs, reader.tables[t].numBuckets, b)
    IN  /\ Len(p) \in Nat /\ p = [k \in 1..Len(p) |-> p[k]]
        /\ \A k \in 1..Len(p) : p[k] \in mine
        /\ \A i \in mine : \E k \in 1..Len(p) : p[k] = i
        /\ \A k, l \in 1..Len(p) : p[k] = p[l] => k = l
        /\ \A k, l \in 1..Len(p) : k < l /\ Key(rs[p[k]]) = Key(rs[p[l]]) => p[k] < p[l]
        /\ Owes(reader.tables[t].base + 4 * b, Job("bucket", InOrder(rs, p)))

LEMMA IsLinedUp ==
    ASSUME NEW t, NEW place \in Placings(t), NEW b \in BucketsIn(t), RowsOf(t) \in Seq(Rows)
    PROVE  LinedUp(t, b, place[b])
<1>1. PICK rs, p, mine, n :
        /\ rs = RowsOf(t) /\ p = place[b]
        /\ mine = InBucket(rs, reader.tables[t].numBuckets, b) /\ n = Cardinality(mine)
  OBVIOUS
<1>2. p \in Orders(rs, mine) /\ Owes(reader.tables[t].base + 4 * b, Job("bucket", InOrder(rs, p)))
  BY <1>1 DEF Placings, OrdersOf
<1>3. mine \in SUBSET (1..Len(rs)) BY <1>1 DEF InBucket
<1>4. IsFiniteSet(mine) /\ n \in Nat
  <2>1. IsFiniteSet(1..Len(rs)) BY <1>1, FS_Interval
  <2> QED BY <1>1, <1>3, <2>1, FS_Subset, FS_CardinalityType
<1>5. /\ p \in [1..n -> mine]
      /\ \A j \in 1..n : \A i \in 1..j - 1 :
            /\ p[i] # p[j]
            /\ Key(rs[p[i]]) = Key(rs[p[j]]) => p[i] < p[j]
  BY <1>1, <1>2 DEF Orders, Appended
<1>6. Len(p) = n /\ p = [k \in 1..n |-> p[k]] /\ \A k \in 1..n : p[k] \in mine
  <2>1. p \in Seq(mine) /\ DOMAIN p = 1..n BY <1>4, <1>5
  <2> QED BY <1>4, <1>5, <2>1
<1>7. ASSUME NEW k \in 1..n, NEW l \in 1..n, p[k] = p[l] PROVE k = l
  <2>1. k < l => k \in 1..l - 1 BY <1>4
  <2>2. l < k => l \in 1..k - 1 BY <1>4
  <2> QED BY <1>4, <1>5, <1>7, <2>1, <2>2
<1>8. ASSUME NEW k \in 1..n, NEW l \in 1..n, k < l, Key(rs[p[k]]) = Key(rs[p[l]])
      PROVE  p[k] < p[l]
  <2>1. k \in 1..l - 1 BY <1>4, <1>8
  <2> QED BY <1>5, <1>8, <2>1
<1>9. \A i \in mine : \E k \in 1..n : p[k] = i
  <2>1. IsFiniteSet(1..n) /\ Cardinality(1..n) = n BY <1>4, FS_Interval
  <2>2. p \in Injection(1..n, mine) BY <1>5, <1>7 DEF Injection, IsInjective
  <2>3. p \in Surjection(1..n, mine) BY <1>1, <1>4, <2>1, <2>2, FS_Injection
  <2> QED BY <2>3 DEF Surjection
<1> QED BY <1>1, <1>2, <1>4, <1>6, <1>7, <1>8, <1>9 DEF LinedUp

LEMMA TailAt ==
    ASSUME NEW S, NEW s \in Seq(S), s # <<>>
    PROVE  Tail(s) = [k \in 1..Len(s) - 1 |-> s[k + 1]]
<1>1. Tail(s) \in Seq(S) /\ Len(Tail(s)) = Len(s) - 1 OBVIOUS
<1>2. \A k \in 1..Len(s) - 1 : Tail(s)[k] = s[k + 1] OBVIOUS
<1>3. PICK u : u = Tail(s) OBVIOUS
<1>4. u \in Seq(S) BY <1>1, <1>3
<1>5. u = [k \in 1..Len(u) |-> u[k]] BY <1>4
<1> QED BY <1>1, <1>2, <1>3, <1>5

LEMMA RestType ==
    ASSUME NEW rs \in Seq(Rows), NEW p, Len(p) \in Nat, \A k \in 1..Len(p) : p[k] \in 1..Len(rs),
           NEW c \in 0..Len(p)
    PROVE  /\ Rest(rs, p, c) \in Seq(Rows)
           /\ Rest(rs, p, c) = <<>> <=> c = Len(p)
           /\ c < Len(p) => /\ Head(Rest(rs, p, c)) = rs[p[c + 1]]
                            /\ Tail(Rest(rs, p, c)) = Rest(rs, p, c + 1)
<1> HIDE DEF Rows
<1>1. PICK list, n : list = Rest(rs, p, c) /\ n = Len(p) - c OBVIOUS
<1>2. n \in Nat BY <1>1
<1>3. list = [k \in 1..n |-> rs[p[k + c]]] BY <1>1 DEF Rest
<1>4. \A k \in 1..n : rs[p[k + c]] \in Rows
  <2> TAKE k \in 1..n
  <2>1. k + c \in 1..Len(p) BY <1>1
  <2>2. p[k + c] \in 1..Len(rs) BY <2>1
  <2> QED BY <2>2
<1>5. list \in Seq(Rows) /\ Len(list) = n BY <1>2, <1>3, <1>4
<1>6. list = <<>> <=> c = Len(p)
  <2>1. list = <<>> <=> n = 0 BY <1>5
  <2> QED BY <1>1, <2>1
<1>7. ASSUME c < Len(p)
      PROVE  Head(list) = rs[p[c + 1]] /\ Tail(list) = Rest(rs, p, c + 1)
  <2>1. list # <<>> /\ 1 \in 1..n BY <1>1, <1>2, <1>6, <1>7
  <2>2. Head(list) = list[1] BY <1>5, <2>1
  <2>3. list[1] = rs[p[1 + c]] BY <1>3, <2>1
  <2>4. 1 + c = c + 1 OBVIOUS
  <2>5. Tail(list) = [k \in 1..n - 1 |-> list[k + 1]] BY <1>5, <2>1, TailAt
  <2>6. ASSUME NEW k \in 1..n - 1 PROVE list[k + 1] = rs[p[k + (c + 1)]]
    <3>1. k + 1 \in 1..n /\ (k + 1) + c = k + (c + 1) BY <1>2
    <3> QED BY <1>3, <3>1
  <2>7. Len(p) - (c + 1) = n - 1 BY <1>1
  <2>8. Rest(rs, p, c + 1) = [k \in 1..n - 1 |-> rs[p[k + (c + 1)]]] BY <2>7 DEF Rest
  <2> QED BY <2>2, <2>3, <2>4, <2>5, <2>6, <2>8
<1> QED BY <1>1, <1>5, <1>6, <1>7

LEMMA LinedUpPlaces ==
    ASSUME NEW t, NEW b, NEW p, LinedUp(t, b, p)
    PROVE  Len(p) \in Nat /\ \A k \in 1..Len(p) : p[k] \in 1..Len(RowsOf(t))
BY DEF LinedUp, InBucket

(* Where a bucket's list begins.                                           *)
Begins(t, b, p) ==
    LET o == ListOf(reader.tables[t], b)
    IN  /\ o = noData <=> Len(p) = 0
        /\ o # noData => StandsAt(BucketAt(o), RowsOf(t), p, 0)

LEMMA ListBegins ==
    ASSUME WriterInvariant, ContentInvariant, state = "built",
           NEW t, NEW b, NEW p, LinedUp(t, b, p), RowsOf(t) \in Seq(Rows)
    PROVE  Begins(t, b, p)
<1>1. PICK rs, list, o, s : /\ rs = RowsOf(t) /\ list = InOrder(rs, p)
                            /\ s = reader.tables[t].base + 4 * b /\ o = WordAt(s)
  OBVIOUS
<1>2. Len(p) \in Nat /\ \A k \in 1..Len(p) : p[k] \in 1..Len(rs) BY <1>1, LinedUpPlaces
<1>3. p = [k \in 1..Len(p) |-> p[k]] /\ Owes(s, Job("bucket", list))
  BY <1>1 DEF LinedUp
<1>4. list = Rest(rs, p, 0)
  <2>1. DOMAIN p = 1..Len(p) BY <1>3
  <2>2. \A k \in 1..Len(p) : k + 0 = k BY <1>2
  <2>3. Len(p) - 0 = Len(p) BY <1>2
  <2> QED BY <1>1, <2>1, <2>2, <2>3 DEF InOrder, Rest
<1>5. list \in Seq(Rows) /\ (list = <<>> <=> 0 = Len(p)) /\ 0 \in 0..Len(p)
  <2>1. 0 \in 0..Len(p) /\ rs \in Seq(Rows) BY <1>1, <1>2
  <2> QED BY <1>2, <1>4, <2>1, RestType
<1>6. RowAndRestAt(o, list)
  <2>1. PICK job : job = Job("bucket", list) OBVIOUS
  <2>2. Fulfilled(o, job) BY <1>1, <1>3, <2>1, Finished
  <2> QED BY <2>1, <2>2 DEF Fulfilled, Job
<1>7. list = <<>> <=> o = noData BY <1>5, <1>6, ListRead
<1>8. ListOf(reader.tables[t], b) = o BY <1>1 DEF ListOf
<1>9. o # noData => StandsAt(BucketAt(o), rs, p, 0)
  BY <1>4, <1>5, <1>6 DEF StandsAt, BucketAt
<1> QED BY <1>1, <1>5, <1>7, <1>8, <1>9 DEF Begins

(* A bucket that has a next row.                                           *)
Moves(bucket, rs, p, c) ==
    /\ c + 1 \in 1..Len(p)
    /\ RowAt(bucket.next) = rs[p[c + 1]]
    /\ StandsAt(After(bucket), rs, p, c + 1)

LEMMA BucketMoves ==
    ASSUME WriterInvariant, ContentInvariant, state = "built",
           NEW t, NEW b, NEW p, LinedUp(t, b, p), RowsOf(t) \in Seq(Rows),
           NEW bucket, NEW c, StandsAt(bucket, RowsOf(t), p, c), ~bucket.finished
    PROVE  Moves(bucket, RowsOf(t), p, c)
<1>1. PICK rs, list, o : rs = RowsOf(t) /\ list = Rest(rs, p, c) /\ o = bucket.next OBVIOUS
<1>2. Len(p) \in Nat /\ \A k \in 1..Len(p) : p[k] \in 1..Len(rs) BY <1>1, LinedUpPlaces
<1>3. c \in 0..Len(p) /\ o # noData /\ RowAndRestAt(o, list) BY <1>1 DEF StandsAt
<1>4. /\ list \in Seq(Rows) /\ (list = <<>> <=> c = Len(p))
      /\ c < Len(p) => Head(list) = rs[p[c + 1]] /\ Tail(list) = Rest(rs, p, c + 1)
  BY <1>1, <1>2, <1>3, RestType
<1>5. list # <<>> /\ RowAt(o) = Head(list) /\ RowAndRestAt(WordAt(o + 4), Tail(list))
  BY <1>3, <1>4, ListRead
<1>6. c < Len(p) /\ c + 1 \in 1..Len(p) /\ c + 1 \in 0..Len(p) BY <1>2, <1>3, <1>4, <1>5
<1>7. PICK next, rest : next = WordAt(o + 4) /\ rest = Rest(rs, p, c + 1) OBVIOUS
<1>8. rest \in Seq(Rows) /\ (rest = <<>> <=> c + 1 = Len(p)) BY <1>1, <1>2, <1>6, <1>7, RestType
<1>9. RowAndRestAt(next, rest) BY <1>4, <1>5, <1>6, <1>7
<1>10. rest = <<>> <=> next = noData BY <1>8, <1>9, ListRead
<1>11. PICK end \in BOOLEAN : end <=> next = noData OBVIOUS
<1>13. After(bucket) = [next |-> next, finished |-> end] BY <1>1, <1>7, <1>11 DEF After
<1>12. StandsAt(After(bucket), rs, p, c + 1)
  <2>1. PICK after : after = After(bucket) OBVIOUS
  <2>4. after.next = next /\ after.finished = end BY <1>13, <2>1
  <2>2. after.next = next /\ (after.finished <=> next = noData) BY <1>11, <2>4
  <2>3. StandsAt(after, rs, p, c + 1) BY <1>6, <1>7, <1>8, <1>9, <1>10, <2>2 DEF StandsAt
  <2> QED BY <2>1, <2>3
<1> QED BY <1>1, <1>4, <1>5, <1>6, <1>12 DEF Moves

(* nextBucket finds the first list behind index that is not empty.         *)
IsNext(table, index, i) ==
    /\ i \in index + 1..table.numBuckets
    /\ i = table.numBuckets \/ ListOf(table, i) # noData
    /\ \A j \in index + 1..i - 1 : ListOf(table, j) = noData

LEMMA NextIndexIsNext ==
    ASSUME NEW table, table.numBuckets \in Nat, NEW index \in Int, 0 - 1 <= index,
           index < table.numBuckets
    PROVE  IsNext(table, index, NextIndex(table, index))
<1>1. PICK n : n = table.numBuckets OBVIOUS
<1> DEFINE Good(i) == /\ i = n \/ ListOf(table, i) # noData
                      /\ \A j \in index + 1..i - 1 : ListOf(table, j) = noData
           S == {i \in index + 1..n : i = n \/ ListOf(table, i) # noData}
<1>2. n \in Nat /\ n \in index + 1..n BY <1>1
<1>3. S \in SUBSET Nat /\ S # {} BY <1>2
<1>4. PICK i \in S : \A y \in S : i <= y BY <1>3, Least
<1>5. ASSUME NEW j \in index + 1..i - 1 PROVE ListOf(table, j) = noData
  <2>1. j \in index + 1..n /\ ~(i <= j) BY <1>2
  <2> QED BY <1>4, <2>1
<1>6. i \in index + 1..n /\ Good(i) BY <1>5
<1>7. NextIndex(table, index) = CHOOSE x \in index + 1..n : Good(x) BY <1>1 DEF NextIndex
<1> HIDE DEF Good
<1>8. NextIndex(table, index) \in index + 1..n /\ Good(NextIndex(table, index)) BY <1>6, <1>7
<1> QED BY <1>1, <1>8 DEF Good, IsNext

LEMMA SameCursors ==
    ASSUME UNCHANGED <<writer, builder>>, reader' = reader
    PROVE  \A it : (Iterates(it)' <=> Iterates(it)) /\ (LooksUp(it)' <=> LooksUp(it))
<1>1. /\ \A t : RowsOf(t)' = RowsOf(t) /\ Placings(t)' = Placings(t) /\ BucketsIn(t)' = BucketsIn(t)
      /\ \A bucket, rs, p, c : StandsAt(bucket, rs, p, c)' <=> StandsAt(bucket, rs, p, c)
      /\ tables' = tables
  BY SameContent DEF builder
<1>2. ASSUME NEW it, NEW place, NEW from PROVE Following(it, place, from)' <=> Following(it, place, from)
  BY <1>1 DEF Following
<1>3. ASSUME NEW it PROVE Iterates(it)' <=> Iterates(it) BY <1>1, <1>2 DEF Iterates
<1>4. ASSUME NEW f PROVE LooksUp(f)' <=> LooksUp(f) BY <1>1 DEF LooksUp
<1> QED BY <1>3, <1>4

(* A row is in one place of one bucket.                                    *)
LEMMA OnePlace ==
    ASSUME NEW t, NEW place \in Placings(t), RowsOf(t) \in Seq(Rows),
           NEW b \in BucketsIn(t), NEW d \in BucketsIn(t),
           NEW k \in 1..Len(place[b]), NEW l \in 1..Len(place[d]), place[b][k] = place[d][l]
    PROVE  b = d /\ k = l
<1>1. LinedUp(t, b, place[b]) /\ LinedUp(t, d, place[d]) BY IsLinedUp
<1>2. PICK x, rs, n : /\ x = place[b][k] /\ rs = RowsOf(t)
                      /\ n = reader.tables[t].numBuckets
  OBVIOUS
<1>3. x \in InBucket(rs, n, b) BY <1>1, <1>2 DEF LinedUp
<1>4. x \in InBucket(rs, n, d) BY <1>1, <1>2 DEF LinedUp
<1>5. b = d BY <1>3, <1>4 DEF InBucket
<1> QED BY <1>1, <1>5 DEF LinedUp

(* The next row of a bucket is yielded.                                    *)
Grown(place, from, got, rs, x, more) ==
    /\ more \in [1..Len(got) + 1 -> 1..Len(rs)]
    /\ Drawn(place, more, Append(got, rs[x]), rs)
    /\ \A y : IsRead(more, y) <=> IsRead(from, y) \/ y = x

LEMMA DrawnGrows ==
    ASSUME NEW t, NEW place \in Placings(t), RowsOf(t) \in Seq(Rows),
           NEW got \in Seq(Rows), NEW from, Drawn(place, from, got, RowsOf(t)),
           NEW i \in BucketsIn(t), NEW k \in 1..Len(place[i]),
           \A l \in 1..k - 1 : IsRead(from, place[i][l]), ~IsRead(from, place[i][k])
    PROVE  \E more : Grown(place, from, got, RowsOf(t), place[i][k], more)
<1>1. PICK rs, m, x : rs = RowsOf(t) /\ m = Len(got) /\ x = place[i][k] OBVIOUS
<1>2. m \in Nat /\ x \in 1..Len(rs) BY <1>1, IsLinedUp, LinedUpPlaces
<1>3. /\ from \in [1..m -> 1..Len(rs)]
      /\ \A j \in 1..m : got[j] = rs[from[j]]
      /\ \A j, l \in 1..m : from[j] = from[l] => j = l
      /\ \A j \in 1..m, b \in DOMAIN place : \A y \in 1..Len(place[b]) :
            from[j] = place[b][y] => InFront(place[b], y, from, j)
  BY <1>1 DEF Drawn
<1>4. DOMAIN place = BucketsIn(t) BY DEF Placings
<1>5. PICK more : more = [j \in 1..m + 1 |-> IF j = m + 1 THEN x ELSE from[j]] OBVIOUS
<1>6. /\ more \in [1..m + 1 -> 1..Len(rs)] /\ more[m + 1] = x
      /\ \A j \in 1..m : more[j] = from[j] /\ from[j] # x
      /\ 1..m + 1 = 1..m \cup {m + 1}
  <2>1. \A j \in 1..m : from[j] # x BY <1>1, <1>3 DEF IsRead
  <2> QED BY <1>2, <1>3, <1>5, <2>1
<1>7. PICK got2 : got2 = Append(got, rs[x]) OBVIOUS
<1>8. Len(got2) = m + 1 /\ got2[m + 1] = rs[x] /\ \A j \in 1..m : got2[j] = got[j]
  <2>1. rs[x] \in Rows
    <3> HIDE DEF Rows
    <3> QED BY <1>1, <1>2
  <2> HIDE DEF Rows
  <2> QED BY <1>1, <1>2, <1>7, <2>1
<1>9. \A y : IsRead(more, y) <=> IsRead(from, y) \/ y = x
  <2>1. DOMAIN from = 1..m /\ DOMAIN more = 1..m + 1 BY <1>3, <1>6
  <2> QED BY <1>6, <2>1 DEF IsRead
<1>10. \A j \in 1..m + 1 : got2[j] = rs[more[j]] BY <1>3, <1>6, <1>8
<1>11. ASSUME NEW j \in 1..m + 1, NEW l \in 1..m + 1, more[j] = more[l] PROVE j = l
  <2>1. CASE j \in 1..m /\ l \in 1..m
    <3>1. from[j] = from[l] BY <1>6, <1>11, <2>1
    <3> QED BY <1>3, <2>1, <3>1
  <2>2. CASE j \in 1..m /\ l = m + 1 BY <1>6, <1>11, <2>2
  <2>3. CASE j = m + 1 /\ l \in 1..m BY <1>6, <1>11, <2>3
  <2> QED BY <1>6, <2>1, <2>2, <2>3
<1>12. ASSUME NEW j \in 1..m + 1, NEW b \in DOMAIN place, NEW y \in 1..Len(place[b]),
              more[j] = place[b][y]
       PROVE  InFront(place[b], y, more, j)
  <2>1. CASE j \in 1..m
    <3>1. from[j] = place[b][y] BY <1>6, <1>12, <2>1
    <3>2. InFront(place[b], y, from, j) BY <1>3, <2>1, <3>1
    <3>3. \A h \in 1..j - 1 : more[h] = from[h] BY <1>2, <1>6, <2>1
    <3> QED BY <3>2, <3>3 DEF InFront
  <2>2. CASE j = m + 1
    <3>1. place[i][k] = place[b][y] BY <1>1, <1>6, <1>12, <2>2
    <3>2. b = i /\ y = k BY <1>4, <3>1, OnePlace
    <3>3. \A l \in 1..y - 1 : IsRead(from, place[b][l]) BY <3>2
    <3>4. j - 1 = m /\ DOMAIN from = 1..m BY <1>2, <1>3, <2>2
    <3> QED BY <1>6, <3>3, <3>4 DEF InFront, IsRead
  <2> QED BY <1>6, <2>1, <2>2
<1>13. Drawn(place, more, got2, rs)
  <2>1. \A j, l \in 1..m + 1 : more[j] = more[l] => j = l BY <1>11
  <2>2. \A j \in 1..m + 1, b \in DOMAIN place : \A y \in 1..Len(place[b]) :
            more[j] = place[b][y] => InFront(place[b], y, more, j)
    BY <1>12
  <2> QED BY <1>6, <1>8, <1>10, <2>1, <2>2 DEF Drawn
<1>14. Grown(place, from, got, rs, x, more) BY <1>1, <1>6, <1>7, <1>9, <1>13 DEF Grown
<1> QED BY <1>1, <1>14

(* Next yields the row the bucket stands before.                           *)
LEMMA Yields ==
    ASSUME WriterInvariant, ContentInvariant, state = "built", reader.open,
           NEW t \in 1..Len(tables), Ready(t), NEW place \in Placings(t),
           NEW got \in Seq(Rows), NEW from, Drawn(place, from, got, RowsOf(t)),
           NEW i \in BucketsIn(t), NEW bucket, NEW c, StandsAt(bucket, RowsOf(t), place[i], c),
           ~bucket.finished,
           NEW new, new.state = "running", new.table = t, new.index = i,
           new.bucket = After(bucket), new.yielded = Append(got, RowAt(bucket.next)),
           Reached(place, from, i, c, new.lost)
    PROVE  Iterates(new)
<1>1. PICK rs, p, x, after, n :
        /\ rs = RowsOf(t) /\ p = place[i] /\ x = place[i][c + 1] /\ after = After(bucket)
        /\ n = reader.tables[t].numBuckets
  OBVIOUS
<1>2. rs \in Seq(Rows) /\ n \in Nat BY <1>1 DEF Ready
<1>3. LinedUp(t, i, p) BY <1>1, <1>2, IsLinedUp
<1>4. Moves(bucket, rs, p, c) BY <1>1, <1>2, <1>3, BucketMoves
<1>5. /\ c + 1 \in 1..Len(p) /\ c \in Nat /\ Len(p) \in Nat /\ x \in 1..Len(rs)
      /\ RowAt(bucket.next) = rs[x] /\ StandsAt(after, rs, p, c + 1)
  <2>1. Len(p) \in Nat /\ \A k \in 1..Len(p) : p[k] \in 1..Len(rs) BY <1>1, <1>3, LinedUpPlaces
  <2>2. c \in 0..Len(p) BY <1>1 DEF StandsAt
  <2> QED BY <1>1, <1>4, <2>1, <2>2 DEF Moves
<1>6. DOMAIN place = BucketsIn(t) /\ i \in DOMAIN place BY DEF Placings
<1>7. /\ \A l \in 1..c + 1 - 1 : IsRead(from, place[i][l])
      /\ ~IsRead(from, place[i][c + 1])
  <2>1. \A k \in 1..Len(p) : /\ IsRead(from, p[k]) => i < i \/ k <= c
                             /\ k <= c => IsRead(from, p[k])
    BY <1>1, <1>6 DEF Reached
  <2>2. ~(i < i) BY DEF BucketsIn
  <2>3. \A l \in 1..c + 1 - 1 : l \in 1..Len(p) /\ l <= c BY <1>5
  <2>4. ~(c + 1 <= c) BY <1>5
  <2> QED BY <1>1, <1>5, <2>1, <2>2, <2>3, <2>4
<1>8. PICK more : Grown(place, from, got, rs, x, more)
  <2>1. \E more : Grown(place, from, got, RowsOf(t), place[i][c + 1], more)
    BY <1>1, <1>2, <1>5, <1>7, DrawnGrows
  <2> QED BY <1>1, <2>1
<1>9. \A y : IsRead(more, y) <=> IsRead(from, y) \/ y = x BY <1>8 DEF Grown
<1>10. ASSUME NEW b \in DOMAIN place, NEW k \in 1..Len(place[b])
       PROVE  /\ IsRead(more, place[b][k]) => b < i \/ (b = i /\ k <= c + 1)
              /\ b = i /\ k <= c + 1 => IsRead(more, place[b][k])
              /\ b < i /\ ~new.lost => IsRead(more, place[b][k])
  <2>1. /\ IsRead(from, place[b][k]) => b < i \/ (b = i /\ k <= c)
        /\ b = i /\ k <= c => IsRead(from, place[b][k])
        /\ b < i /\ ~new.lost => IsRead(from, place[b][k])
    BY DEF Reached
  <2>2. place[b][k] = x => b = i /\ k = c + 1
    <3>1. b \in BucketsIn(t) /\ c + 1 \in 1..Len(place[i]) /\ RowsOf(t) \in Seq(Rows)
      BY <1>1, <1>2, <1>5, <1>6
    <3> QED BY <1>1, <3>1, OnePlace
  <2>3. k <= c => k <= c + 1 BY <1>5
  <2>4. b = i /\ k <= c + 1 /\ ~(k <= c) => k = c + 1
    <3>1. b = i => k \in 1..Len(p) BY <1>1
    <3> QED BY <1>5, <3>1
  <2>5. b = i /\ k = c + 1 => place[b][k] = x BY <1>1
  <2> QED BY <1>5, <1>9, <2>1, <2>2, <2>3, <2>4, <2>5
<1>11. Reached(place, more, i, c + 1, new.lost) BY <1>10 DEF Reached
<1>12. PICK got2 : got2 = new.yielded OBVIOUS
<1>13. got2 \in Seq(Rows) /\ Len(got2) = Len(got) + 1 /\ got2 = Append(got, rs[x])
  <2>1. rs[x] \in Rows
    <3> HIDE DEF Rows
    <3> QED BY <1>2, <1>5
  <2> HIDE DEF Rows
  <2> QED BY <1>5, <1>12, <2>1
<1>14. Drawn(place, more, got2, rs) /\ more \in [1..Len(got2) -> 1..Len(rs)]
  BY <1>8, <1>13 DEF Grown
<1>15. Following(new, place, more)
  <2>1. new.index \in 0..n BY <1>1, <1>2 DEF BucketsIn
  <2>2. c + 1 \in 0..Len(p) BY <1>5
  <2> QED BY <1>1, <1>5, <1>6, <1>11, <1>12, <1>14, <2>1, <2>2 DEF Following
<1> QED BY <1>1, <1>12, <1>13, <1>14, <1>15 DEF Iterates

(* All rows of the buckets up to index are behind a cursor.                *)
Passed(place, from, index, it) ==
    \A b \in DOMAIN place : \A k \in 1..Len(place[b]) :
        /\ IsRead(from, place[b][k]) => b <= index
        /\ b <= index /\ ~it.lost => IsRead(from, place[b][k])

Arrives(t, place, from, i, it) ==
    /\ Reached(place, from, i, 0, it.lost)
    /\ i \in BucketsIn(t) =>
          StandsAt(BucketAt(ListOf(reader.tables[t], i)), RowsOf(t), place[i], 0)

LEMMA NextArrives ==
    ASSUME WriterInvariant, ContentInvariant, state = "built",
           NEW t, Ready(t), NEW place \in Placings(t), NEW from,
           NEW index \in Int, 0 - 1 <= index, index < reader.tables[t].numBuckets,
           NEW it, Passed(place, from, index, it),
           NEW i, IsNext(reader.tables[t], index, i)
    PROVE  Arrives(t, place, from, i, it)
<1>1. PICK n, table : n = reader.tables[t].numBuckets /\ table = reader.tables[t] OBVIOUS
<1>2. n \in Nat /\ RowsOf(t) \in Seq(Rows) BY <1>1 DEF Ready
<1>3. DOMAIN place = BucketsIn(t) /\ BucketsIn(t) = 0..n - 1 BY <1>1 DEF Placings, BucketsIn
<1>4. /\ i \in index + 1..n
      /\ i = n \/ ListOf(table, i) # noData
      /\ \A j \in index + 1..i - 1 : ListOf(table, j) = noData
  BY <1>1 DEF IsNext
<1>5. ASSUME NEW b \in BucketsIn(t) PROVE Len(place[b]) \in Nat /\ Begins(t, b, place[b])
  <2>1. LinedUp(t, b, place[b]) BY <1>2, IsLinedUp
  <2> QED BY <1>2, <2>1, ListBegins, LinedUpPlaces
<1>6. ASSUME NEW b \in DOMAIN place, NEW k \in 1..Len(place[b])
      PROVE  /\ IsRead(from, place[b][k]) => b < i
             /\ ~(k <= 0)
             /\ b < i /\ ~it.lost => IsRead(from, place[b][k])
  <2>1. /\ IsRead(from, place[b][k]) => b <= index
        /\ b <= index /\ ~it.lost => IsRead(from, place[b][k])
    BY DEF Passed
  <2>2. b \in 0..n - 1 /\ Len(place[b]) \in Nat BY <1>3, <1>5
  <2>3. ~(k <= 0) BY <2>2
  <2>4. b <= index => b < i BY <1>2, <1>4, <2>2
  <2>5. ASSUME b < i, ~(b <= index) PROVE FALSE
    <3>1. b \in index + 1..i - 1 BY <1>2, <1>4, <2>2, <2>5
    <3>2. ListOf(table, b) = noData BY <1>4, <3>1
    <3>3. Len(place[b]) = 0 BY <1>1, <1>3, <1>5, <3>2 DEF Begins
    <3> QED BY <2>3, <3>3
  <2> QED BY <2>1, <2>3, <2>4, <2>5
<1>7. Reached(place, from, i, 0, it.lost) BY <1>6 DEF Reached
<1>8. ASSUME i \in BucketsIn(t) PROVE StandsAt(BucketAt(ListOf(table, i)), RowsOf(t), place[i], 0)
  <2>1. ListOf(table, i) # noData BY <1>2, <1>3, <1>4, <1>8
  <2> QED BY <1>1, <1>5, <1>8, <2>1 DEF Begins
<1> QED BY <1>1, <1>7, <1>8 DEF Arrives

(* A cursor that has passed all buckets has read all rows.                 *)
LEMMA AllRead ==
    ASSUME NEW t, Ready(t), NEW place \in Placings(t), NEW from, NEW it, ~it.lost,
           Reached(place, from, reader.tables[t].numBuckets, 0, it.lost)
    PROVE  \A k \in 1..Len(RowsOf(t)) : IsRead(from, k)
<1>1. PICK n, rs : n = reader.tables[t].numBuckets /\ rs = RowsOf(t) OBVIOUS
<1>2. n \in Nat /\ rs \in Seq(Rows) /\ Identified(rs) /\ (n = 0 => rs = <<>>) BY <1>1 DEF Ready
<1>3. DOMAIN place = 0..n - 1 /\ BucketsIn(t) = 0..n - 1 BY <1>1 DEF Placings, BucketsIn
<1>4. ASSUME NEW k \in 1..Len(rs) PROVE IsRead(from, k)
  <2>1. n # 0 BY <1>2
  <2>2. PICK key : key = Key(rs[k]) OBVIOUS
  <2>3. key \in 0..Span - 1
    <3>1. rs[k] \in Rows /\ rs[k] # <<>> /\ HasId(rs[k])
      <4> HIDE DEF Rows
      <4> QED BY <1>2 DEF Identified
    <3> QED BY <2>2, <3>1, IdType
  <2>4. PICK b : b = BucketOf(key, n) OBVIOUS
  <2>5. b \in 0..n - 1 BY <1>2, <2>1, <2>3, <2>4, SpanAssumption DEF BucketOf
  <2>6. k \in InBucket(rs, n, b) BY <2>2, <2>4 DEF InBucket
  <2>7. LinedUp(t, b, place[b]) BY <1>1, <1>2, <1>3, <2>5, IsLinedUp
  <2>8. PICK l \in 1..Len(place[b]) : place[b][l] = k BY <1>1, <2>6, <2>7 DEF LinedUp
  <2>9. b < n BY <1>2, <2>5
  <2>10. b \in DOMAIN place BY <1>3, <2>5
  <2>11. b < n /\ ~it.lost => IsRead(from, place[b][l]) BY <1>1, <2>10 DEF Reached
  <2> QED BY <2>8, <2>9, <2>11
<1> QED BY <1>1, <1>4

(* What the steps of an iteration set.                                     *)
LEMMA YieldFields ==
    ASSUME DOMAIN rows = DOMAIN NoRows, NEW i, NEW bucket, NEW new, new = Yield(i, bucket)
    PROVE  /\ new.state = rows.state /\ new.table = rows.table /\ new.index = i
           /\ new.bucket = After(bucket) /\ new.lost = rows.lost
           /\ new.yielded = Append(rows.yielded, RowAt(bucket.next))
           /\ DOMAIN new = DOMAIN NoRows
BY DEF Yield, NoRows

LEMMA NoMoreFields ==
    ASSUME DOMAIN rows = DOMAIN NoRows, NEW i, NEW new, new = NoMore(i)
    PROVE  /\ new.state = "ended" /\ new.table = rows.table /\ new.index = i
           /\ new.lost = rows.lost /\ new.yielded = rows.yielded
           /\ DOMAIN new = DOMAIN NoRows
BY DEF NoMore, NoRows

(* A cursor in a bucket.                                                   *)
InBucketAt(place, from, c) ==
    LET i == rows.index
        t == rows.table
    IN  /\ t \in 1..Len(tables) /\ Ready(t) /\ rows.yielded \in Seq(Rows)
        /\ place \in Placings(t) /\ Drawn(place, from, rows.yielded, RowsOf(t))
        /\ i \in BucketsIn(t) /\ c \in 0..Len(place[i])
        /\ Reached(place, from, i, c, rows.lost)
        /\ StandsAt(rows.bucket, RowsOf(t), place[i], c)

LEMMA Standing ==
    ASSUME WriterInvariant, ContentInvariant, Complete, Iterates(rows), InRange
    PROVE  /\ state = "built" /\ reader.open
           /\ \E place, from, c : InBucketAt(place, from, c)
<1>1. PICK t, i, n : t = rows.table /\ i = rows.index /\ n = reader.tables[t].numBuckets
  OBVIOUS
<1>2. /\ reader.open /\ t \in 1..Len(tables) /\ rows.yielded \in Seq(Rows)
      /\ \E place \in Placings(t), from \in [1..Len(rows.yielded) -> 1..Len(RowsOf(t))] :
            Following(rows, place, from)
      /\ rows.state = "running" /\ i < n
  BY <1>1 DEF Iterates, InRange, RowsTable
<1>3. state = "built" BY <1>2 DEF Complete
<1>4. Ready(t) BY <1>2, IsReady
<1>5. PICK place \in Placings(t), from \in [1..Len(rows.yielded) -> 1..Len(RowsOf(t))] :
          Following(rows, place, from)
  BY <1>2
<1>6. DOMAIN place = BucketsIn(t) /\ n \in Nat BY <1>1, <1>4 DEF Placings, Ready
<1>7. i \in 0..n BY <1>1, <1>2, <1>5 DEF Following
<1>8. i \in BucketsIn(t) BY <1>1, <1>2, <1>6, <1>7 DEF BucketsIn
<1>9. PICK c \in 0..Len(place[i]) : /\ Reached(place, from, i, c, rows.lost)
                                    /\ StandsAt(rows.bucket, RowsOf(t), place[i], c)
  BY <1>1, <1>2, <1>5, <1>6, <1>8 DEF Following
<1>10. Drawn(place, from, rows.yielded, RowsOf(t)) BY <1>1, <1>5 DEF Following
<1>11. InBucketAt(place, from, c) BY <1>1, <1>2, <1>4, <1>8, <1>9, <1>10 DEF InBucketAt
<1> QED BY <1>2, <1>3, <1>11

LEMMA Places ==
    ASSUME WriterInvariant, ContentInvariant, Complete, Iterates(rows), InRange
    PROVE  rows.index \in Int /\ RowsTable.numBuckets \in Int
<1>1. PICK place, from, c : InBucketAt(place, from, c) BY Standing
<1>2. PICK n : n = RowsTable.numBuckets OBVIOUS
<1>3. rows.index \in BucketsIn(rows.table) /\ Ready(rows.table) BY <1>1 DEF InBucketAt
<1> QED BY <1>3 DEF Ready, BucketsIn, RowsTable

LEMMA NextInBucketIterates ==
    ASSUME WriterInvariant, ContentInvariant, Complete, CursorTypeOK, Iterates(rows),
           InRange, ~rows.bucket.finished, NEW new, new = Yield(rows.index, rows.bucket)
    PROVE  Iterates(new)
<1>1. PICK place, from, c : InBucketAt(place, from, c) BY Standing
<1>2. state = "built" /\ reader.open BY Standing
<1>3. PICK t, i, bucket, got : t = rows.table /\ i = rows.index /\ bucket = rows.bucket /\ got = rows.yielded
  OBVIOUS
<1>4. /\ t \in 1..Len(tables) /\ Ready(t) /\ got \in Seq(Rows)
      /\ place \in Placings(t) /\ Drawn(place, from, got, RowsOf(t)) /\ i \in BucketsIn(t)
      /\ Reached(place, from, i, c, rows.lost)
      /\ StandsAt(bucket, RowsOf(t), place[i], c)
  BY <1>1, <1>3 DEF InBucketAt
<1>5. /\ new.state = "running" /\ new.table = t /\ new.index = i
      /\ new.bucket = After(bucket) /\ new.yielded = Append(got, RowAt(bucket.next))
      /\ new.lost = rows.lost
  BY <1>3, YieldFields DEF CursorTypeOK, InRange
<1>6. Reached(place, from, i, c, new.lost) BY <1>4, <1>5
<1> QED BY <1>2, <1>3, <1>4, <1>5, <1>6, Yields

(* An iteration that has ended.                                            *)
LEMMA EndedIterates ==
    ASSUME WriterInvariant, ContentInvariant, Complete, reader.open,
           NEW t \in 1..Len(tables), NEW place \in Placings(t), NEW got \in Seq(Rows),
           NEW from, Drawn(place, from, got, RowsOf(t)),
           NEW new, new.state = "ended", new.table = t, new.yielded = got,
           new.lost \/ Reached(place, from, reader.tables[t].numBuckets, 0, new.lost)
    PROVE  Iterates(new)
<1>1. Ready(t) BY IsReady
<1>2. ~new.lost => \A k \in 1..Len(RowsOf(t)) : IsRead(from, k)
  <2> SUFFICES ASSUME ~new.lost PROVE \A k \in 1..Len(RowsOf(t)) : IsRead(from, k) OBVIOUS
  <2>1. Reached(place, from, reader.tables[t].numBuckets, 0, new.lost) OBVIOUS
  <2> QED BY <1>1, <2>1, AllRead
<1>3. Following(new, place, from) BY <1>2 DEF Following
<1>4. from \in [1..Len(got) -> 1..Len(RowsOf(t))] BY DEF Drawn
<1> QED BY <1>3, <1>4 DEF Iterates

Alike(new, base) ==
    /\ new.state = base.state /\ new.table = base.table /\ new.index = base.index
    /\ new.bucket = base.bucket /\ new.yielded = base.yielded

LEMMA FromNextBucketIterates ==
    ASSUME WriterInvariant, ContentInvariant, Complete, CursorTypeOK, Iterates(rows), InRange,
           NEW last \in rows.index..RowsTable.numBuckets - 1,
           NEW base, base = FromNextBucket(last), NEW new, Alike(new, base),
           ~new.lost => ~rows.lost /\ rows.bucket.finished /\ last = rows.index
    PROVE  Iterates(new)
<1>1. PICK place, from, c : InBucketAt(place, from, c) BY Standing
<1>2. state = "built" /\ reader.open BY Standing
<1>3. PICK t, index, got, n, table :
        /\ t = rows.table /\ index = rows.index /\ got = rows.yielded
        /\ table = reader.tables[t] /\ n = table.numBuckets
  OBVIOUS
<1>4. /\ t \in 1..Len(tables) /\ Ready(t) /\ got \in Seq(Rows)
      /\ place \in Placings(t) /\ Drawn(place, from, got, RowsOf(t)) /\ index \in BucketsIn(t)
      /\ c \in 0..Len(place[index])
      /\ Reached(place, from, index, c, rows.lost)
      /\ StandsAt(rows.bucket, RowsOf(t), place[index], c)
  BY <1>1, <1>3 DEF InBucketAt
<1>5. n \in Nat /\ DOMAIN place = 0..n - 1 /\ BucketsIn(t) = 0..n - 1 /\ index \in 0..n - 1
  BY <1>3, <1>4 DEF Ready, Placings, BucketsIn
<1>6. rows.bucket.finished => c = Len(place[index]) BY <1>4 DEF StandsAt
<1>7. ASSUME NEW b \in DOMAIN place, NEW k \in 1..Len(place[b])
      PROVE  /\ IsRead(from, place[b][k]) => b <= index
             /\ b <= index /\ ~new.lost => IsRead(from, place[b][k])
  <2>1. /\ IsRead(from, place[b][k]) => b < index \/ (b = index /\ k <= c)
        /\ b = index /\ k <= c => IsRead(from, place[b][k])
        /\ b < index /\ ~rows.lost => IsRead(from, place[b][k])
    BY <1>4 DEF Reached
  <2>2. b < index => b <= index BY <1>5
  <2>3. b = index => b <= index BY <1>5
  <2>4. b <= index => b < index \/ b = index BY <1>5
  <2>5. b = index /\ ~new.lost => k <= c
    <3>1. b = index /\ ~new.lost => k \in 1..c BY <1>6
    <3>2. c \in Int BY <1>4
    <3> QED BY <3>1, <3>2
  <2> QED BY <2>1, <2>2, <2>3, <2>4, <2>5
<1>8. last \in Int /\ index <= last /\ last < n BY <1>3, <1>5 DEF RowsTable
<1>9. Passed(place, from, last, new)
  <2>1. ASSUME NEW b \in DOMAIN place, NEW k \in 1..Len(place[b])
        PROVE  /\ IsRead(from, place[b][k]) => b <= last
               /\ b <= last /\ ~new.lost => IsRead(from, place[b][k])
    <3>1. b \in Int BY <1>5
    <3>2. IsRead(from, place[b][k]) => b <= index BY <1>7
    <3>3. b <= index => b <= last BY <1>5, <1>8, <3>1
    <3>4. ~new.lost => last = index BY <1>3
    <3>5. b <= index /\ ~new.lost => IsRead(from, place[b][k]) BY <1>7
    <3> QED BY <3>2, <3>3, <3>4, <3>5
  <2> QED BY <2>1 DEF Passed
<1>10. PICK i : i = NextIndex(table, last) OBVIOUS
<1>16. IsNext(table, last, i)
  <2>1. last \in Int /\ 0 - 1 <= last /\ last < table.numBuckets /\ table.numBuckets \in Nat
    BY <1>3, <1>5, <1>8
  <2> QED BY <1>10, <2>1, NextIndexIsNext
<1>11. Arrives(t, place, from, i, new)
  <2>1. last \in Int /\ 0 - 1 <= last /\ last < reader.tables[t].numBuckets
        /\ IsNext(reader.tables[t], last, i)
    BY <1>3, <1>5, <1>8, <1>16
  <2> QED BY <1>2, <1>4, <1>9, <2>1, NextArrives
<1>12. i \in 0..n BY <1>3, <1>5, <1>8, <1>16 DEF IsNext
<1>13. base = IF i < n THEN Yield(i, BucketAt(ListOf(table, i))) ELSE NoMore(i)
  BY <1>3, <1>10 DEF FromNextBucket, RowsTable
<1>14. CASE i < n
  <2>1. PICK bucket : bucket = BucketAt(ListOf(table, i)) OBVIOUS
  <2>2. i \in BucketsIn(t) BY <1>5, <1>12, <1>14
  <2>3. StandsAt(bucket, RowsOf(t), place[i], 0) /\ Reached(place, from, i, 0, new.lost)
    BY <1>3, <1>11, <2>1, <2>2 DEF Arrives
  <2>4. ~bucket.finished BY <2>1 DEF BucketAt
  <2>5. base = Yield(i, bucket) BY <1>13, <1>14, <2>1
  <2>6. /\ base.state = rows.state /\ base.table = rows.table /\ base.index = i
        /\ base.bucket = After(bucket)
        /\ base.yielded = Append(rows.yielded, RowAt(bucket.next))
    BY <2>5, YieldFields DEF CursorTypeOK
  <2>7. /\ new.state = "running" /\ new.table = t /\ new.index = i
        /\ new.bucket = After(bucket) /\ new.yielded = Append(got, RowAt(bucket.next))
    BY <1>3, <2>6 DEF Alike, InRange
  <2> QED BY <1>2, <1>4, <2>2, <2>3, <2>4, <2>7, Yields
<1>15. CASE i = n
  <2>1. ~(i < n) BY <1>5, <1>15
  <2>2. base = NoMore(i) BY <1>13, <2>1
  <2>3. base.state = "ended" /\ base.table = rows.table /\ base.yielded = rows.yielded
    BY <2>2, NoMoreFields DEF CursorTypeOK
  <2>4. new.state = "ended" /\ new.table = t /\ new.yielded = got BY <1>3, <2>3 DEF Alike
  <2>5. Reached(place, from, reader.tables[t].numBuckets, 0, new.lost)
    BY <1>3, <1>11, <1>15 DEF Arrives
  <2> QED BY <1>2, <1>4, <2>4, <2>5, EndedIterates
<1> QED BY <1>5, <1>12, <1>14, <1>15

LEMMA FromNextBucketFields ==
    ASSUME CursorTypeOK, rows.state = "running", NEW last, NEW base, base = FromNextBucket(last)
    PROVE  DOMAIN base = DOMAIN NoRows /\ base.lost = rows.lost /\ base.state \in {"running", "ended"}
<1>1. PICK i, bucket : \/ base = Yield(i, bucket)
                       \/ base = NoMore(i)
  BY DEF FromNextBucket
<1>2. CASE base = Yield(i, bucket) BY <1>2, YieldFields DEF CursorTypeOK
<1>3. CASE base = NoMore(i) BY <1>3, NoMoreFields DEF CursorTypeOK
<1> QED BY <1>1, <1>2, <1>3

(* An iteration goes on only by what Iterates allows.                      *)
LEMMA RowsNextIterates ==
    ASSUME WriterInvariant, ContentInvariant, Complete, CursorTypeOK, Iterates(rows), RowsNext,
           NEW new, new = rows'
    PROVE  Iterates(new) /\ DOMAIN new = DOMAIN NoRows /\ new.state \in {"running", "ended"}
<1>1. rows.state = "running" BY DEF RowsNext, NextInBucket, NextBucket, NoBuckets, RowUnread, ListUnread, InRange
<1>2. CASE NextInBucket
  <2>1. InRange /\ ~rows.bucket.finished /\ new = Yield(rows.index, rows.bucket)
    BY <1>2 DEF NextInBucket
  <2>2. Iterates(new) BY <2>1, NextInBucketIterates
  <2> QED BY <1>1, <2>1, <2>2, YieldFields DEF CursorTypeOK
<1>3. CASE NextBucket
  <2>1. InRange /\ rows.bucket.finished /\ new = FromNextBucket(rows.index)
    BY <1>3 DEF NextBucket
  <2>2. DOMAIN new = DOMAIN NoRows /\ new.lost = rows.lost /\ new.state \in {"running", "ended"}
    BY <1>1, <2>1, FromNextBucketFields
  <2>3. Alike(new, new) BY DEF Alike
  <2>5. PICK last : last = rows.index OBVIOUS
  <2>6. last \in rows.index..RowsTable.numBuckets - 1
    <3>1. rows.index \in Int /\ RowsTable.numBuckets \in Int BY <2>1, Places
    <3> QED BY <2>1, <2>5, <3>1 DEF InRange
  <2>4. Iterates(new) BY <2>1, <2>2, <2>3, <2>5, <2>6, FromNextBucketIterates
  <2> QED BY <2>2, <2>4
<1>4. CASE RowUnread
  <2>1. PICK last \in rows.index..RowsTable.numBuckets - 1 :
            InRange /\ new = [FromNextBucket(last) EXCEPT !.lost = TRUE]
    BY <1>4 DEF RowUnread
  <2>6. PICK base : base = FromNextBucket(last) OBVIOUS
  <2>2. InRange /\ new = [base EXCEPT !.lost = TRUE] BY <2>1, <2>6
  <2>3. DOMAIN base = DOMAIN NoRows /\ base.state \in {"running", "ended"}
    BY <1>1, <2>6, FromNextBucketFields
  <2>4. Alike(new, base) /\ new.lost /\ DOMAIN new = DOMAIN NoRows
    BY <2>2, <2>3 DEF Alike, NoRows
  <2>5. Iterates(new) BY <2>2, <2>4, <2>6, FromNextBucketIterates
  <2> QED BY <2>3, <2>4, <2>5 DEF Alike
<1>5. CASE ListUnread
  <2>1. PICK i : InRange /\ new = [NoMore(i) EXCEPT !.lost = TRUE] BY <1>5 DEF ListUnread
  <2>2. PICK base : base = NoMore(i) OBVIOUS
  <2>3. base.state = "ended" /\ base.table = rows.table /\ base.yielded = rows.yielded
        /\ DOMAIN base = DOMAIN NoRows
    BY <2>2, NoMoreFields DEF CursorTypeOK
  <2>4. /\ new.state = "ended" /\ new.table = rows.table /\ new.yielded = rows.yielded
        /\ new.lost /\ DOMAIN new = DOMAIN NoRows
    BY <2>1, <2>2, <2>3 DEF NoRows
  <2>5. PICK place, from, c : InBucketAt(place, from, c) BY <2>1, Standing
  <2>6. reader.open BY <2>1, Standing
  <2>7. PICK t, got : t = rows.table /\ got = rows.yielded OBVIOUS
  <2>8. /\ t \in 1..Len(tables) /\ got \in Seq(Rows) /\ place \in Placings(t)
        /\ Drawn(place, from, got, RowsOf(t))
    BY <2>5, <2>7 DEF InBucketAt
  <2>9. Iterates(new) BY <2>4, <2>6, <2>7, <2>8, EndedIterates
  <2> QED BY <2>4, <2>9
<1>6. CASE NoBuckets
  <2>1. ~(rows.index < RowsTable.numBuckets) /\ new = [rows EXCEPT !.state = "ended"]
    BY <1>1, <1>6 DEF NoBuckets, InRange
  <2>2. /\ new.state = "ended" /\ new.table = rows.table /\ new.yielded = rows.yielded
        /\ new.lost = rows.lost /\ DOMAIN new = DOMAIN NoRows
    BY <2>1 DEF CursorTypeOK, NoRows
  <2>3. PICK t, got, n : t = rows.table /\ got = rows.yielded /\ n = reader.tables[t].numBuckets
    OBVIOUS
  <2>4. /\ reader.open /\ t \in 1..Len(tables) /\ got \in Seq(Rows)
        /\ \E place \in Placings(t), from \in [1..Len(got) -> 1..Len(RowsOf(t))] :
              Following(rows, place, from)
    BY <1>1, <2>3 DEF Iterates
  <2>5. PICK place \in Placings(t), from \in [1..Len(got) -> 1..Len(RowsOf(t))] :
            Following(rows, place, from)
    BY <2>4
  <2>6. n \in Nat BY <2>3, <2>4, IsReady DEF Ready
  <2>7. rows.index \in 0..n BY <1>1, <2>3, <2>5 DEF Following
  <2>8. rows.index = n BY <2>1, <2>3, <2>6, <2>7 DEF RowsTable
  <2>9. rows.index \notin DOMAIN place BY <2>3, <2>6, <2>8 DEF Placings, BucketsIn
  <2>10. Drawn(place, from, got, RowsOf(t)) /\ Reached(place, from, n, 0, rows.lost)
    BY <1>1, <2>3, <2>5, <2>8, <2>9 DEF Following
  <2>11. Reached(place, from, reader.tables[t].numBuckets, 0, new.lost) BY <2>2, <2>3, <2>10
  <2>12. Iterates(new) BY <2>2, <2>3, <2>4, <2>10, <2>11, EndedIterates
  <2> QED BY <2>2, <2>12
<1> QED BY <1>2, <1>3, <1>4, <1>5, <1>6 DEF RowsNext

LEMMA StartRowsIterates ==
    ASSUME WriterInvariant, ContentInvariant, Complete, NEW t \in 1..Len(reader.tables),
           StartRows(t), NEW new, new = rows'
    PROVE  Iterates(new) /\ DOMAIN new = DOMAIN NoRows /\ new.state = "running"
<1>1. reader.open /\ state = "built" BY DEF StartRows, Complete
<1>2. t \in 1..Len(tables) BY <1>1, TablesRead
<1>3. Ready(t) /\ Placings(t) # {} BY <1>1, <1>2, IsReady
<1>4. PICK place : place \in Placings(t) BY <1>3
<1>5. PICK table, n, i : /\ table = reader.tables[t] /\ n = table.numBuckets
                         /\ i = NextIndex(table, 0 - 1)
  OBVIOUS
<1>6. n \in Nat /\ DOMAIN place = 0..n - 1 /\ BucketsIn(t) = 0..n - 1
  BY <1>3, <1>4, <1>5 DEF Ready, Placings, BucketsIn
<1>7. PICK some \in BOOLEAN : some <=> i < n OBVIOUS
<1>8. PICK bucket : bucket = IF some THEN BucketAt(ListOf(table, i)) ELSE UsedUp OBVIOUS
<1>9. new = [NoRows EXCEPT !.state = "running", !.table = t, !.index = i, !.isNil = ~some,
                           !.bucket = bucket]
  <2>1. -1 = 0 - 1 OBVIOUS
  <2>2. NextIndex(table, -1) = i BY <1>5, <2>1
  <2> QED BY <1>5, <1>7, <1>8, <2>2 DEF StartRows
<1>10. /\ new.state = "running" /\ new.table = t /\ new.index = i /\ new.bucket = bucket
       /\ new.yielded = <<>> /\ new.lost = FALSE /\ DOMAIN new = DOMAIN NoRows
  BY <1>9 DEF NoRows
<1>11. PICK from : from = [j \in {} |-> 0] OBVIOUS
<1>12. from \in [1..0 -> 1..Len(RowsOf(t))] /\ DOMAIN from = {} BY <1>11
<1>13. \A k : ~IsRead(from, k) BY <1>12 DEF IsRead
<1>14. Drawn(place, from, <<>>, RowsOf(t)) BY <1>12 DEF Drawn
<1>15. Passed(place, from, 0 - 1, new)
  <2>1. \A b \in DOMAIN place : ~(b <= 0 - 1) BY <1>6
  <2> QED BY <1>13, <2>1 DEF Passed
<1>16. 0 - 1 \in Int /\ 0 - 1 <= 0 - 1 /\ 0 - 1 < n BY <1>6
<1>17. IsNext(table, 0 - 1, i) BY <1>5, <1>6, <1>16, NextIndexIsNext
<1>18. Arrives(t, place, from, i, new)
  BY <1>1, <1>3, <1>4, <1>5, <1>15, <1>16, <1>17, NextArrives
<1>19. i \in 0..n BY <1>5, <1>6, <1>17 DEF IsNext
<1>20. Reached(place, from, i, 0, new.lost) BY <1>18 DEF Arrives
<1>21. i \in BucketsIn(t) => StandsAt(bucket, RowsOf(t), place[i], 0)
  <2>1. i \in BucketsIn(t) => some BY <1>6, <1>7
  <2> QED BY <1>5, <1>8, <1>18, <2>1 DEF Arrives
<1>22. i \in BucketsIn(t) => 0 \in 0..Len(place[i])
  BY <1>21 DEF StandsAt
<1>23. Following(new, place, from)
  <2>1. Drawn(place, from, new.yielded, RowsOf(new.table)) BY <1>10, <1>14
  <2>2. new.index \in 0..reader.tables[new.table].numBuckets BY <1>5, <1>10, <1>19
  <2>3. new.index \in DOMAIN place <=> i \in BucketsIn(t) BY <1>6, <1>10
  <2> QED BY <1>10, <1>20, <1>21, <1>22, <2>1, <2>2, <2>3 DEF Following
<1>24. new.yielded \in Seq(Rows) /\ Len(new.yielded) = 0 BY <1>10
<1>25. from \in [1..Len(new.yielded) -> 1..Len(RowsOf(t))] BY <1>12, <1>24
<1> QED BY <1>1, <1>2, <1>4, <1>10, <1>23, <1>24, <1>25 DEF Iterates

(* An id and the key of its row fall into one bucket.                      *)
LEMMA Quotient ==
    ASSUME NEW n \in Nat, n # 0, NEW y \in Int, NEW u \in 0..n - 1
    PROVE  (n * y + u) % n = u
<1>1. PICK x : x = n * y + u OBVIOUS
<1>2. x \in Int BY <1>1
<1>3. PICK q, r : q = x \div n /\ r = x % n OBVIOUS
<1>4. q \in Int /\ r \in 0..n - 1 /\ x = n * q + r BY <1>2, <1>3
<1>5. n * y + u = n * q + r BY <1>1, <1>4
<1>6. y < q => FALSE
  <2>1. y < q => n * y + n <= n * q BY <1>4
  <2> QED BY <1>4, <1>5, <2>1
<1>7. q < y => FALSE
  <2>1. q < y => n * q + n <= n * y BY <1>4
  <2> QED BY <1>4, <1>5, <2>1
<1>8. q = y BY <1>4, <1>6, <1>7
<1> QED BY <1>1, <1>3, <1>4, <1>5, <1>8

LEMMA SameBucket ==
    ASSUME NEW n \in Nat, n # 0, Span % n = 0, NEW id \in Nat
    PROVE  (id % Span) % n = id % n
<1>1. PICK q : q = Span \div n OBVIOUS
<1>2. Span = n * q /\ q \in Int /\ Span \in Nat \ {0} BY <1>1, SpanAssumption
<1>3. PICK a, r : a = id \div Span /\ r = id % Span OBVIOUS
<1>4. a \in Int /\ r \in Nat /\ id = Span * a + r BY <1>2, <1>3
<1>5. PICK s, u : s = r \div n /\ u = r % n OBVIOUS
<1>6. s \in Int /\ u \in 0..n - 1 /\ r = n * s + u BY <1>4, <1>5
<1>7. PICK y : y = q * a + s OBVIOUS
<1>8. y \in Int BY <1>2, <1>4, <1>6, <1>7
<1>9. id = n * y + u
  <2>1. Span * a = n * (q * a) BY <1>2, <1>4
  <2>2. n * y = n * (q * a) + n * s BY <1>2, <1>4, <1>6, <1>7
  <2>3. n * (q * a) \in Int /\ n * s \in Int BY <1>2, <1>4, <1>6
  <2> QED BY <1>4, <1>6, <2>1, <2>2, <2>3
<1>10. (n * y + u) % n = u BY <1>6, <1>8, Quotient
<1>11. id % n = u BY <1>9, <1>10
<1> QED BY <1>3, <1>5, <1>11

LEMMA AskedBucket ==
    ASSUME NEW t, Ready(t), NEW n, n = reader.tables[t].numBuckets, n # 0, NEW id \in Int,
           NEW b, b = Rem(id, n), b >= 0
    PROVE  /\ b \in BucketsIn(t)
           /\ id >= 0 => \A j \in With(id, t) :
                 j \in InBucket(RowsOf(t), n, b) /\ Key(RowsOf(t)[j]) = uint32(id)
<1>1. PICK rs : rs = RowsOf(t) OBVIOUS
<1>2. n \in Nat /\ Span % n = 0 /\ rs \in Seq(Rows) BY <1>1 DEF Ready
<1>3. b \in 0..n - 1
  <2>1. CASE id >= 0
    <3>1. b = id % n BY <2>1 DEF Rem
    <3> QED BY <1>2, <2>1, <3>1
  <2>2. CASE ~(id >= 0)
    <3>1. b = 0 - ((0 - id) % n) BY <2>2 DEF Rem
    <3>2. (0 - id) % n \in 0..n - 1 BY <1>2, <2>2
    <3> QED BY <1>2, <3>1, <3>2
  <2> QED BY <2>1, <2>2
<1>4. ASSUME id >= 0, NEW j \in With(id, t)
      PROVE  j \in InBucket(rs, n, b) /\ Key(rs[j]) = uint32(id)
  <2>1. j \in 1..Len(rs) /\ Id(rs[j]) = id BY <1>1 DEF With
  <2>2. Key(rs[j]) = uint32(id) BY <2>1 DEF Key
  <2>3. uint32(id) = id % Span BY DEF uint32
  <2>4. (id % Span) % n = id % n BY <1>2, <1>4, SameBucket
  <2>5. b = id % n BY <1>4 DEF Rem
  <2>6. BucketOf(Key(rs[j]), n) = b BY <2>2, <2>3, <2>4, <2>5 DEF BucketOf
  <2> QED BY <2>1, <2>2, <2>6 DEF InBucket
<1> QED BY <1>1, <1>3, <1>4 DEF BucketsIn

(* FindFirst, said of a cursor.                                            *)
FindsFirst(f) ==
    f.id >= 0 /\ ~f.lost =>
        /\ f.state = "found" =>
              \E i \in With(f.id, f.table) :
                  /\ f.row = RowsOf(f.table)[i]
                  /\ \A j \in With(f.id, f.table) : i <= j
        /\ f.state = "notFound" => With(f.id, f.table) = {}
        /\ f.state \notin {"error", "astray"}
        /\ f.state = "panic" => RowsOf(f.table) = <<>>

(* A lookup that runs.                                                     *)
Looking(place, c) ==
    LET t  == find.table
        rs == RowsOf(t)
        n  == reader.tables[t].numBuckets
        b  == Rem(find.id, n)
    IN  /\ reader.open /\ state = "built"
        /\ t \in 1..Len(tables) /\ Ready(t) /\ find.id \in Int /\ n # 0 /\ b >= 0
        /\ b \in BucketsIn(t) /\ place \in Placings(t) /\ c \in 0..Len(place[b])
        /\ LinedUp(t, b, place[b]) /\ StandsAt(find.bucket, rs, place[b], c)
        /\ \A k \in 1..c : Id(rs[place[b][k]]) # find.id

LEMMA IsLooking ==
    ASSUME WriterInvariant, ContentInvariant, Complete, LooksUp(find), find.state = "running"
    PROVE  \E place, c : Looking(place, c)
<1>1. PICK t, rs, n, b : /\ t = find.table /\ rs = RowsOf(t) /\ n = reader.tables[t].numBuckets
                         /\ b = Rem(find.id, n)
  OBVIOUS
<1>2. /\ reader.open /\ t \in 1..Len(tables) /\ find.id \in Int /\ b \in BucketsIn(t)
      /\ \E place \in Placings(t) : \E c \in 0..Len(place[b]) :
            /\ StandsAt(find.bucket, rs, place[b], c)
            /\ \A k \in 1..c : Id(rs[place[b][k]]) # find.id
  BY <1>1 DEF LooksUp
<1>3. state = "built" /\ Ready(t) BY <1>2, IsReady DEF Complete
<1>4. n \in Nat /\ n # 0 /\ b >= 0 /\ rs \in Seq(Rows)
  <2>1. n \in Nat /\ rs \in Seq(Rows) BY <1>1, <1>3 DEF Ready
  <2> QED BY <1>1, <1>2, <2>1 DEF BucketsIn
<1>5. PICK place \in Placings(t) : \E c \in 0..Len(place[b]) :
            /\ StandsAt(find.bucket, rs, place[b], c)
            /\ \A k \in 1..c : Id(rs[place[b][k]]) # find.id
  BY <1>2
<1>6. LinedUp(t, b, place[b]) BY <1>1, <1>2, <1>4, IsLinedUp
<1>7. PICK c \in 0..Len(place[b]) : Looking(place, c) BY <1>1, <1>2, <1>3, <1>4, <1>5, <1>6 DEF Looking
<1> QED BY <1>7

(* The row a lookup stands before.                                         *)
LEMMA RowLooked ==
    ASSUME WriterInvariant, ContentInvariant, NEW place, NEW c, Looking(place, c),
           ~find.bucket.finished,
           NEW t, t = find.table, NEW b, b = Rem(find.id, reader.tables[t].numBuckets)
    PROVE  /\ c + 1 \in 1..Len(place[b]) /\ place[b][c + 1] \in 1..Len(RowsOf(t))
           /\ RowAt(find.bucket.next) = RowsOf(t)[place[b][c + 1]]
           /\ HasId(RowAt(find.bucket.next)) /\ ~IsNullId(RowAt(find.bucket.next))
           /\ StandsAt(After(find.bucket), RowsOf(t), place[b], c + 1)
<1>1. PICK rs, p, bucket : rs = RowsOf(t) /\ p = place[b] /\ bucket = find.bucket OBVIOUS
<1>2. /\ state = "built" /\ Ready(t) /\ b \in BucketsIn(t) /\ LinedUp(t, b, p)
      /\ StandsAt(bucket, rs, p, c)
  BY <1>1 DEF Looking
<1>3. rs \in Seq(Rows) /\ Identified(rs) BY <1>1, <1>2 DEF Ready
<1>4. Moves(bucket, rs, p, c) BY <1>1, <1>2, <1>3, BucketMoves
<1>5. c + 1 \in 1..Len(p) /\ RowAt(bucket.next) = rs[p[c + 1]] /\ StandsAt(After(bucket), rs, p, c + 1)
  BY <1>4 DEF Moves
<1>6. p[c + 1] \in 1..Len(rs) BY <1>1, <1>2, <1>5, LinedUpPlaces
<1>7. HasId(rs[p[c + 1]]) BY <1>3, <1>6 DEF Identified
<1>8. ~IsNullId(rs[p[c + 1]]) BY <1>7 DEF HasId, IsNullId
<1> QED BY <1>1, <1>5, <1>6, <1>7, <1>8

LEMMA FoundFirst ==
    ASSUME NEW place, NEW c, Looking(place, c), find.id >= 0,
           NEW t, t = find.table, NEW b, b = Rem(find.id, reader.tables[t].numBuckets),
           c + 1 \in 1..Len(place[b]), NEW i, i = place[b][c + 1], Id(RowsOf(t)[i]) = find.id
    PROVE  i \in With(find.id, t) /\ \A j \in With(find.id, t) : i <= j
<1>1. PICK rs, p, n, id : /\ rs = RowsOf(t) /\ p = place[b] /\ n = reader.tables[t].numBuckets
                          /\ id = find.id
  OBVIOUS
<1>2. /\ Ready(t) /\ id \in Int /\ n # 0 /\ b >= 0 /\ c \in 0..Len(p)
      /\ LinedUp(t, b, p) /\ \A k \in 1..c : Id(rs[p[k]]) # id
  BY <1>1 DEF Looking
<1>3. /\ Len(p) \in Nat /\ \A k \in 1..Len(p) : p[k] \in 1..Len(rs) BY <1>1, <1>2, LinedUpPlaces
<1>4. i \in 1..Len(rs) /\ Id(rs[i]) = id BY <1>1, <1>3
<1>5. i \in With(id, t) BY <1>1, <1>4 DEF With
<1>6. \A j \in With(id, t) : j \in InBucket(rs, n, b) /\ Key(rs[j]) = uint32(id)
  <2>1. b = Rem(id, n) /\ id >= 0 BY <1>1
  <2> QED BY <1>1, <1>2, <2>1, AskedBucket
<1>7. ASSUME NEW j \in With(id, t) PROVE i <= j
  <2>1. PICK l \in 1..Len(p) : p[l] = j BY <1>1, <1>2, <1>6 DEF LinedUp
  <2>2. ~(l \in 1..c)
    <3>1. Id(rs[j]) = id BY <1>1 DEF With
    <3> QED BY <1>2, <2>1, <3>1
  <2>3. l = c + 1 \/ c + 1 < l BY <1>2, <1>3, <2>1, <2>2
  <2>4. Key(rs[i]) = Key(rs[j]) BY <1>5, <1>6
  <2>5. c + 1 < l => p[c + 1] < p[l]
    <3>1. \A k, m \in 1..Len(p) :
              k < m /\ Key(RowsOf(t)[p[k]]) = Key(RowsOf(t)[p[m]]) => p[k] < p[m]
      BY <1>2 DEF LinedUp
    <3> QED BY <1>1, <2>1, <2>4, <3>1
  <2>6. i \in Int /\ j \in Int
    <3>1. j \in 1..Len(rs) BY <1>1 DEF With
    <3> QED BY <1>4, <3>1
  <2> QED BY <1>1, <2>1, <2>3, <2>5, <2>6
<1> QED BY <1>1, <1>5, <1>7

LEMMA NoneBehind ==
    ASSUME NEW place, NEW c, Looking(place, c), find.id >= 0, find.bucket.finished
    PROVE  With(find.id, find.table) = {}
<1>1. PICK t, rs, n, id, b, p :
        /\ t = find.table /\ rs = RowsOf(t) /\ n = reader.tables[t].numBuckets /\ id = find.id
        /\ b = Rem(id, n) /\ p = place[b]
  OBVIOUS
<1>2. /\ Ready(t) /\ id \in Int /\ n # 0 /\ b >= 0 /\ LinedUp(t, b, p)
      /\ StandsAt(find.bucket, rs, p, c) /\ \A k \in 1..c : Id(rs[p[k]]) # id
  BY <1>1 DEF Looking
<1>3. c = Len(p) BY <1>2 DEF StandsAt
<1>4. \A j \in With(id, t) : j \in InBucket(rs, n, b) /\ Key(rs[j]) = uint32(id)
  BY <1>1, <1>2, AskedBucket
<1>5. ASSUME NEW j \in With(id, t) PROVE FALSE
  <2>3. j \in InBucket(RowsOf(t), reader.tables[t].numBuckets, b) BY <1>1, <1>4
  <2>1. PICK l \in 1..Len(p) : p[l] = j BY <1>2, <2>3 DEF LinedUp
  <2>2. Id(rs[j]) = id BY <1>1 DEF With
  <2> QED BY <1>2, <1>3, <2>1, <2>2
<1> QED BY <1>1, <1>5

LEMMA FindNextLooks ==
    ASSUME WriterInvariant, ContentInvariant, Complete, CursorTypeOK, LooksUp(find), FindNext,
           NEW new, new = find'
    PROVE  LooksUp(new) /\ FindsFirst(new) /\ DOMAIN new = DOMAIN NoFind
           /\ new.state \in {"running", "found"}
<1>1. find.state = "running" /\ ~find.bucket.finished BY DEF FindNext
<1>2. PICK place, c : Looking(place, c) BY <1>1, IsLooking
<1>3. PICK t, rs, b, p, row :
        /\ t = find.table /\ rs = RowsOf(t) /\ b = Rem(find.id, reader.tables[t].numBuckets)
        /\ p = place[b] /\ row = RowAt(find.bucket.next)
  OBVIOUS
<1>4. /\ c + 1 \in 1..Len(p) /\ p[c + 1] \in 1..Len(rs) /\ row = rs[p[c + 1]]
      /\ HasId(row) /\ ~IsNullId(row)
      /\ StandsAt(After(find.bucket), rs, p, c + 1)
  BY <1>1, <1>2, <1>3, RowLooked
<1>5. /\ reader.open /\ t \in 1..Len(tables) /\ find.id \in Int /\ b \in BucketsIn(t)
      /\ place \in Placings(t) /\ c \in 0..Len(p) /\ Ready(t)
      /\ \A k \in 1..c : Id(rs[p[k]]) # find.id
  BY <1>2, <1>3 DEF Looking
<1>6. CASE HasId(row) /\ Id(row) = find.id /\ FindEnds("found", row)
  <2>1. new = [find EXCEPT !.state = "found", !.bucket = UsedUp, !.row = row]
    BY <1>6 DEF FindEnds
  <2>2. /\ new.state = "found" /\ new.table = t /\ new.id = find.id /\ new.row = row
        /\ new.lost = find.lost /\ DOMAIN new = DOMAIN NoFind
    BY <1>3, <2>1 DEF CursorTypeOK, NoFind
  <2>3. LooksUp(new) BY <1>5, <2>2 DEF LooksUp
  <2>4. PICK i : i = p[c + 1] OBVIOUS
  <2>5. new.id >= 0 => i \in With(new.id, t) /\ \A j \in With(new.id, t) : i <= j
    <3>1. SUFFICES ASSUME find.id >= 0
                   PROVE  i \in With(find.id, t) /\ \A j \in With(find.id, t) : i <= j
      BY <2>2
    <3>2. /\ t = find.table /\ b = Rem(find.id, reader.tables[t].numBuckets)
          /\ c + 1 \in 1..Len(place[b]) /\ i = place[b][c + 1]
      BY <1>3, <1>4, <2>4
    <3>3. Id(RowsOf(t)[i]) = find.id BY <1>3, <1>4, <1>6, <2>4
    <3> QED BY <1>2, <3>1, <3>2, <3>3, FoundFirst
  <2>6. FindsFirst(new) BY <1>3, <1>4, <2>2, <2>4, <2>5 DEF FindsFirst
  <2> QED BY <2>2, <2>3, <2>6
<1>7. CASE Id(row) # find.id /\ find' = [find EXCEPT !.bucket = After(find.bucket)]
  <2>1. /\ new.state = "running" /\ new.table = t /\ new.id = find.id
        /\ new.bucket = After(find.bucket) /\ DOMAIN new = DOMAIN NoFind
    BY <1>1, <1>3, <1>7 DEF CursorTypeOK, NoFind
  <2>2. \A k \in 1..c + 1 : Id(rs[p[k]]) # find.id
    <3>1. \A k \in 1..c + 1 : k \in 1..c \/ k = c + 1 BY <1>5
    <3> QED BY <1>4, <1>5, <1>7, <3>1
  <2>3. c + 1 \in 0..Len(p) BY <1>4, <1>5
  <2>4. LooksUp(new)
    <3>1. Rem(new.id, reader.tables[new.table].numBuckets) = b /\ RowsOf(new.table) = rs
      BY <1>3, <2>1
    <3>2. \E d \in 0..Len(place[b]) :
              /\ StandsAt(new.bucket, rs, place[b], d)
              /\ \A k \in 1..d : Id(rs[place[b][k]]) # new.id
      BY <1>3, <1>4, <2>1, <2>2, <2>3
    <3>3. place \in Placings(new.table) BY <1>5, <2>1
    <3> QED BY <1>5, <2>1, <3>1, <3>2, <3>3 DEF LooksUp
  <2>5. FindsFirst(new) BY <2>1 DEF FindsFirst
  <2> QED BY <2>1, <2>4, <2>5
<1> QED BY <1>3, <1>4, <1>6, <1>7 DEF FindNext

(* A lookup goes on only by what LooksUp allows.                           *)
LEMMA FindStepLooks ==
    ASSUME WriterInvariant, ContentInvariant, Complete, CursorTypeOK, LooksUp(find), FindStep,
           NEW new, new = find'
    PROVE  LooksUp(new) /\ FindsFirst(new) /\ DOMAIN new = DOMAIN NoFind
           /\ new.state \in {"running", "found", "notFound", "error"}
<1>1. find.state = "running" BY DEF FindStep, FindNext, FindExhausted, FindUnread
<1>2. PICK place, c : Looking(place, c) BY <1>1, IsLooking
<1>3. reader.open /\ find.table \in 1..Len(tables) /\ find.id \in Int BY <1>2 DEF Looking
<1>4. CASE FindNext BY <1>4, FindNextLooks
<1>5. CASE FindExhausted
  <2>1. find.bucket.finished /\ new = [find EXCEPT !.state = "notFound", !.bucket = UsedUp, !.row = <<>>]
    BY <1>5 DEF FindExhausted, FindEnds
  <2>2. /\ new.state = "notFound" /\ new.table = find.table /\ new.id = find.id
        /\ DOMAIN new = DOMAIN NoFind
    BY <2>1 DEF CursorTypeOK, NoFind
  <2>3. LooksUp(new) BY <1>3, <2>2 DEF LooksUp
  <2>4. find.id >= 0 => With(find.id, find.table) = {} BY <1>2, <2>1, NoneBehind
  <2>5. FindsFirst(new) BY <2>2, <2>4 DEF FindsFirst
  <2> QED BY <2>2, <2>3, <2>5
<1>6. CASE FindUnread
  <2>1. PICK answer \in {"error", "notFound"} :
            new = [find EXCEPT !.state = answer, !.bucket = UsedUp, !.lost = TRUE]
    BY <1>6 DEF FindUnread
  <2>2. /\ new.state = answer /\ new.table = find.table /\ new.id = find.id /\ new.lost
        /\ DOMAIN new = DOMAIN NoFind
    BY <2>1 DEF CursorTypeOK, NoFind
  <2>3. LooksUp(new) BY <1>3, <2>2 DEF LooksUp
  <2>4. FindsFirst(new) BY <2>2 DEF FindsFirst
  <2> QED BY <2>2, <2>3, <2>4
<1> QED BY <1>4, <1>5, <1>6 DEF FindStep

LEMMA StartFindLooks ==
    ASSUME WriterInvariant, ContentInvariant, Complete, NEW t \in 1..Len(reader.tables),
           NEW id \in Int, StartFind(t, id), NEW new, new = find'
    PROVE  LooksUp(new) /\ FindsFirst(new) /\ DOMAIN new = DOMAIN NoFind
           /\ new.state \in {"running", "panic", "notFound", "astray"}
<1>1. reader.open /\ state = "built" BY DEF StartFind, Complete
<1>2. t \in 1..Len(tables) BY <1>1, TablesRead
<1>3. Ready(t) /\ Placings(t) # {} BY <1>1, <1>2, IsReady
<1>4. PICK asked, n, b, o, rs :
        /\ asked = [NoFind EXCEPT !.table = t, !.id = id] /\ n = reader.tables[t].numBuckets
        /\ b = Rem(id, n) /\ o = ListOf(reader.tables[t], b) /\ rs = RowsOf(t)
  OBVIOUS
<1>5. n \in Nat /\ rs \in Seq(Rows) BY <1>3, <1>4 DEF Ready
<1>6. /\ asked.table = t /\ asked.id = id /\ asked.lost = FALSE /\ asked.state = "none"
      /\ DOMAIN asked = DOMAIN NoFind
  BY <1>4 DEF NoFind
<1>7. CASE n = 0 /\ new = [asked EXCEPT !.state = "panic"]
  <2>1. new.state = "panic" /\ new.table = t /\ new.id = id /\ DOMAIN new = DOMAIN NoFind
    BY <1>6, <1>7 DEF NoFind
  <2>2. RowsOf(t) = <<>> BY <1>3, <1>4, <1>7 DEF Ready
  <2>3. FindsFirst(new) BY <2>1, <2>2 DEF FindsFirst
  <2> QED BY <1>1, <1>2, <2>1, <2>3 DEF LooksUp
<1>8. CASE n # 0 /\ b < 0 /\ new \in {[asked EXCEPT !.state = s] : s \in {"notFound", "astray"}}
  <2>1. PICK s \in {"notFound", "astray"} : new = [asked EXCEPT !.state = s] BY <1>8
  <2>2. new.state = s /\ new.table = t /\ new.id = id /\ DOMAIN new = DOMAIN NoFind
    BY <1>6, <2>1 DEF NoFind
  <2>3. ~(id >= 0)
    <3>1. id >= 0 => b = id % n BY <1>4 DEF Rem
    <3>2. id >= 0 => id % n \in 0..n - 1 BY <1>5, <1>8
    <3> QED BY <1>5, <1>8, <3>1, <3>2
  <2>4. LooksUp(new) BY <1>1, <1>2, <2>2 DEF LooksUp
  <2>5. FindsFirst(new) BY <2>2, <2>3 DEF FindsFirst
  <2> QED BY <2>2, <2>4, <2>5
<1>9. CASE n # 0 /\ b >= 0
           /\ new = IF o = noData THEN [asked EXCEPT !.state = "notFound"]
                    ELSE [asked EXCEPT !.state = "running", !.bucket = BucketAt(o)]
  <2>1. /\ b \in BucketsIn(t)
        /\ id >= 0 => \A j \in With(id, t) : j \in InBucket(rs, n, b)
    BY <1>3, <1>4, <1>9, AskedBucket
  <2>2. PICK place : place \in Placings(t) BY <1>3
  <2>3. PICK p : p = place[b] OBVIOUS
  <2>4. LinedUp(t, b, p) BY <1>4, <1>5, <2>1, <2>2, <2>3, IsLinedUp
  <2>5. Begins(t, b, p) BY <1>1, <1>4, <1>5, <2>4, ListBegins
  <2>6. Len(p) \in Nat BY <2>4, LinedUpPlaces
  <2>7. CASE o = noData
    <3>1. new.state = "notFound" /\ new.table = t /\ new.id = id /\ DOMAIN new = DOMAIN NoFind
      BY <1>6, <1>9, <2>7 DEF NoFind
    <3>2. Len(p) = 0 BY <1>4, <2>5, <2>7 DEF Begins
    <3>3. ASSUME id >= 0, NEW j \in With(id, t) PROVE FALSE
      <4>1. j \in InBucket(RowsOf(t), reader.tables[t].numBuckets, b) BY <1>4, <2>1, <3>3
      <4>2. \E k \in 1..Len(p) : p[k] = j BY <2>4, <4>1 DEF LinedUp
      <4> QED BY <3>2, <4>2
    <3>4. LooksUp(new) BY <1>1, <1>2, <3>1 DEF LooksUp
    <3>5. FindsFirst(new) BY <3>1, <3>3 DEF FindsFirst
    <3> QED BY <3>1, <3>4, <3>5
  <2>8. CASE o # noData
    <3>1. /\ new.state = "running" /\ new.table = t /\ new.id = id /\ new.bucket = BucketAt(o)
          /\ DOMAIN new = DOMAIN NoFind
      BY <1>6, <1>9, <2>8 DEF NoFind
    <3>2. StandsAt(new.bucket, rs, p, 0) BY <1>4, <2>5, <2>8, <3>1 DEF Begins
    <3>3. Rem(new.id, reader.tables[new.table].numBuckets) = b /\ RowsOf(new.table) = rs
      BY <1>4, <3>1
    <3>4. \E d \in 0..Len(place[b]) :
              /\ StandsAt(new.bucket, rs, place[b], d)
              /\ \A k \in 1..d : Id(rs[place[b][k]]) # new.id
      <4>1. 0 \in 0..Len(p) /\ \A k \in 1..0 : FALSE BY <2>6
      <4> QED BY <2>3, <3>2, <4>1
    <3>5. place \in Placings(new.table) /\ b \in BucketsIn(new.table) BY <2>1, <2>2, <3>1
    <3>6. LooksUp(new) BY <1>1, <1>2, <3>1, <3>3, <3>4, <3>5 DEF LooksUp
    <3>7. FindsFirst(new) BY <3>1 DEF FindsFirst
    <3> QED BY <3>1, <3>6, <3>7
  <2> QED BY <2>7, <2>8
<1> QED BY <1>4, <1>7, <1>8, <1>9 DEF StartFind

LEMMA SameFinds ==
    ASSUME UNCHANGED <<writer, builder>>
    PROVE  \A f : FindsFirst(f)' <=> FindsFirst(f)
<1>1. \A t : RowsOf(t)' = RowsOf(t) BY SameContent
<1>2. \A id, t : With(id, t)' = With(id, t) BY <1>1 DEF With
<1> QED BY <1>1, <1>2 DEF FindsFirst

LEMMA FindFirstFinds == FindFirst <=> FindsFirst(find)
BY DEF FindFirst, FindsFirst

(* While no file is open there is nothing to read.                         *)
LEMMA ReaderIdle ==
    ASSUME CursorTypeOK', Complete', rows' = NoRows, find'.state = "none"
    PROVE  ReaderInvariant'
<1>1. Iterates(rows)' BY DEF Iterates, NoRows
<1>2. LooksUp(find)' BY DEF LooksUp
<1>3. FindFirst' BY DEF FindFirst
<1> QED BY <1>1, <1>2, <1>3 DEF ReaderInvariant

LEMMA ReaderInitially == ASSUME Init PROVE ReaderInvariant
<1>1. reader = Closed /\ rows = NoRows /\ find = NoFind BY DEF Init, ReaderInit
<1>2. rows.state = "none" /\ find.state = "none" /\ ~reader.open
  BY <1>1 DEF NoRows, NoFind, Closed
<1>3. CursorTypeOK BY <1>1, <1>2 DEF CursorTypeOK
<1>4. Complete BY <1>2 DEF Complete
<1> QED BY <1>1, <1>2, <1>3, <1>4 DEF ReaderInvariant, Iterates, LooksUp, FindFirst

LEMMA NothingRead ==
    ASSUME ReaderInvariant, ~reader.open
    PROVE  rows = NoRows /\ find.state = "none"
BY DEF ReaderInvariant, Iterates, LooksUp

(* A step of one cursor leaves the other.                                  *)
LEMMA RowsStep ==
    ASSUME ReaderInvariant, UNCHANGED <<writer, builder, reader, find>>,
           NEW new, new = rows', Iterates(new), DOMAIN new = DOMAIN NoRows,
           new.state \in {"running", "ended"}
    PROVE  ReaderInvariant'
<1>1. UNCHANGED <<writer, builder>> /\ reader' = reader /\ find' = find OBVIOUS
<1>2. \A it : (Iterates(it)' <=> Iterates(it)) /\ (LooksUp(it)' <=> LooksUp(it))
  BY <1>1, SameCursors
<1>3. \A f : FindsFirst(f)' <=> FindsFirst(f) BY <1>1, SameFinds
<1>4. PICK f : f = find OBVIOUS
<1>5. find' = f /\ LooksUp(f) /\ FindsFirst(f)
  BY <1>1, <1>4, FindFirstFinds DEF ReaderInvariant
<1>6. LooksUp(f)' /\ FindsFirst(f)' /\ Iterates(new)' BY <1>2, <1>3, <1>5
<1>7. LooksUp(find)' /\ Iterates(rows)' BY <1>5, <1>6
<1>8. FindFirst' BY <1>5, <1>6 DEF FindFirst, FindsFirst
<1>9. CursorTypeOK' BY <1>1 DEF ReaderInvariant, CursorTypeOK, NoRows, NoFind
<1>10. Complete' BY <1>1, CompleteStays DEF ReaderInvariant
<1> QED BY <1>7, <1>8, <1>9, <1>10 DEF ReaderInvariant

LEMMA LookupStep ==
    ASSUME ReaderInvariant, UNCHANGED <<writer, builder, reader, rows>>,
           NEW new, new = find', LooksUp(new), FindsFirst(new), DOMAIN new = DOMAIN NoFind,
           new.state \in {"running", "found", "notFound", "error", "astray", "panic"}
    PROVE  ReaderInvariant'
<1>1. UNCHANGED <<writer, builder>> /\ reader' = reader /\ rows' = rows OBVIOUS
<1>2. \A it : (Iterates(it)' <=> Iterates(it)) /\ (LooksUp(it)' <=> LooksUp(it))
  BY <1>1, SameCursors
<1>3. \A f : FindsFirst(f)' <=> FindsFirst(f) BY <1>1, SameFinds
<1>4. PICK it : it = rows OBVIOUS
<1>5. rows' = it /\ Iterates(it) BY <1>1, <1>4 DEF ReaderInvariant
<1>6. LooksUp(new)' /\ FindsFirst(new)' /\ Iterates(it)' BY <1>2, <1>3, <1>5
<1>7. LooksUp(find)' /\ Iterates(rows)' BY <1>5, <1>6
<1>8. FindFirst' BY <1>6 DEF FindFirst, FindsFirst
<1>9. CursorTypeOK' BY <1>1 DEF ReaderInvariant, CursorTypeOK, NoRows, NoFind
<1>10. Complete' BY <1>1, CompleteStays DEF ReaderInvariant
<1> QED BY <1>7, <1>8, <1>9, <1>10 DEF ReaderInvariant

LEMMA ClosedStays ==
    ASSUME ReaderInvariant, ~reader.open, rows' = rows, find' = find, Complete'
    PROVE  ReaderInvariant'
<1>1. rows' = NoRows /\ find'.state = "none" BY NothingRead
<1>2. CursorTypeOK' BY DEF ReaderInvariant, CursorTypeOK, NoRows, NoFind
<1> QED BY <1>1, <1>2, ReaderIdle

THEOREM ReaderPreserved ==
    WriterInvariant /\ ContentInvariant /\ ReaderInvariant /\ [Next]_vars => ReaderInvariant'
<1> SUFFICES ASSUME WriterInvariant, ContentInvariant, ReaderInvariant, [Next]_vars
             PROVE  ReaderInvariant'
  OBVIOUS
<1>1. CursorTypeOK /\ Complete /\ Iterates(rows) /\ LooksUp(find) /\ FindFirst
  BY DEF ReaderInvariant
<1>2. CASE Build(Builds) \/ Forget \/ BuildStep
  <2>1. ~reader.open /\ UNCHANGED cursors BY <1>1, <1>2, WritesNotOpen
  <2>2. reader' = reader /\ rows' = rows /\ find' = find BY <2>1 DEF cursors
  <2>3. Complete' BY <2>1, <2>2 DEF Complete
  <2> QED BY <2>1, <2>2, <2>3, ClosedStays
<1>3. CASE Open
  <2>1. UNCHANGED <<writer, builder>> /\ state = "built" /\ OpenReader BY <1>3 DEF Open
  <2>2. Complete' BY <1>1, <2>1, CompleteStays
  <2>3. ~reader.open /\ rows' = rows /\ find' = find BY <2>1 DEF OpenReader
  <2> QED BY <2>2, <2>3, ClosedStays
<1>4. CASE Read
  <2>1. UNCHANGED <<writer, builder>> BY <1>4 DEF Read
  <2>2. ASSUME NEW t \in 1..Len(reader.tables), StartRows(t) PROVE ReaderInvariant'
    <3>1. PICK new : new = rows' OBVIOUS
    <3>2. Iterates(new) /\ DOMAIN new = DOMAIN NoRows /\ new.state = "running"
      BY <1>1, <2>2, <3>1, StartRowsIterates
    <3>3. UNCHANGED <<reader, find>> BY <2>2 DEF StartRows
    <3> QED BY <2>1, <3>1, <3>2, <3>3, RowsStep
  <2>3. ASSUME NEW t \in 1..Len(reader.tables), NEW id \in Ids, StartFind(t, id)
        PROVE  ReaderInvariant'
    <3>1. PICK new : new = find' OBVIOUS
    <3>2. id \in Int BY IdAssumption
    <3>3. LooksUp(new) /\ FindsFirst(new) /\ DOMAIN new = DOMAIN NoFind
          /\ new.state \in {"running", "panic", "notFound", "astray"}
      BY <1>1, <2>3, <3>1, <3>2, StartFindLooks
    <3>4. UNCHANGED <<reader, rows>> BY <2>3 DEF StartFind
    <3> QED BY <2>1, <3>1, <3>3, <3>4, LookupStep
  <2>4. ASSUME Close PROVE ReaderInvariant'
    <3>1. reader' = Closed /\ rows' = NoRows /\ find' = NoFind BY <2>4 DEF Close
    <3>2. Complete' BY <1>1, <2>1, <3>1, CompleteStays
    <3>3. rows'.state = "none" /\ find'.state = "none" BY <3>1 DEF NoRows, NoFind
    <3>4. CursorTypeOK' BY <3>1, <3>3 DEF CursorTypeOK
    <3> QED BY <3>1, <3>2, <3>3, <3>4, ReaderIdle
  <2> QED BY <1>4, <2>2, <2>3, <2>4 DEF Read
<1>5. CASE NextRow
  <2>1. PICK new : new = rows' OBVIOUS
  <2>2. RowsNext /\ UNCHANGED <<writer, builder>> BY <1>5 DEF NextRow
  <2>3. Iterates(new) /\ DOMAIN new = DOMAIN NoRows /\ new.state \in {"running", "ended"}
    BY <1>1, <2>1, <2>2, RowsNextIterates
  <2>4. UNCHANGED <<reader, find>>
    BY <2>2 DEF RowsNext, NextInBucket, NextBucket, NoBuckets, RowUnread, ListUnread
  <2> QED BY <2>1, <2>2, <2>3, <2>4, RowsStep
<1>6. CASE Look
  <2>1. PICK new : new = find' OBVIOUS
  <2>2. FindStep /\ UNCHANGED <<writer, builder>> BY <1>6 DEF Look
  <2>3. LooksUp(new) /\ FindsFirst(new) /\ DOMAIN new = DOMAIN NoFind
        /\ new.state \in {"running", "found", "notFound", "error"}
    BY <1>1, <2>1, <2>2, FindStepLooks
  <2>4. UNCHANGED <<reader, rows>> BY <2>2 DEF FindStep, FindNext, FindExhausted, FindUnread
  <2> QED BY <2>1, <2>2, <2>3, <2>4, LookupStep
<1>7. CASE UNCHANGED vars
  <2>1. UNCHANGED <<writer, builder>> /\ reader' = reader /\ rows' = rows /\ find' = find
    BY <1>7 DEF vars, cursors
  <2>2. PICK it, f : it = rows /\ f = find OBVIOUS
  <2>3. Iterates(it)' /\ LooksUp(f)' BY <1>1, <2>1, <2>2, SameCursors
  <2>4. FindsFirst(f) BY <1>1, <2>2, FindFirstFinds
  <2>5. FindsFirst(f)' BY <2>1, <2>4, SameFinds
  <2>6. FindFirst' BY <2>1, <2>2, <2>5 DEF FindFirst, FindsFirst
  <2>7. CursorTypeOK' BY <1>1, <2>1 DEF CursorTypeOK, NoRows, NoFind
  <2>8. Complete' BY <1>1, <2>1, CompleteStays
  <2>9. Iterates(rows)' /\ LooksUp(find)' BY <2>1, <2>2, <2>3
  <2> QED BY <2>6, <2>7, <2>8, <2>9 DEF ReaderInvariant
<1> QED BY <1>2, <1>3, <1>4, <1>5, <1>6, <1>7 DEF Next

(* The rows with one id are in one bucket, in their order.                 *)
LEMMA EqualIds ==
    ASSUME NEW t, Ready(t), NEW place \in Placings(t),
           NEW x \in 1..Len(RowsOf(t)), NEW y \in 1..Len(RowsOf(t)), x < y,
           Id(RowsOf(t)[x]) = Id(RowsOf(t)[y])
    PROVE  \E b \in DOMAIN place : \E k, l \in 1..Len(place[b]) :
               k < l /\ place[b][k] = x /\ place[b][l] = y
<1>1. PICK rs, n, key : rs = RowsOf(t) /\ n = reader.tables[t].numBuckets /\ key = Key(rs[x])
  OBVIOUS
<1>2. n \in Nat /\ rs \in Seq(Rows) /\ Identified(rs) /\ (n = 0 => rs = <<>>) BY <1>1 DEF Ready
<1>3. n # 0
  <2>1. x \in 1..Len(rs) BY <1>1
  <2>2. Len(<<>>) = 0 OBVIOUS
  <2> QED BY <1>2, <2>1, <2>2
<1>4. key \in 0..Span - 1
  <2>1. rs[x] \in Rows /\ rs[x] # <<>> /\ HasId(rs[x])
    <3> HIDE DEF Rows
    <3> QED BY <1>1, <1>2 DEF Identified
  <2> QED BY <1>1, <2>1, IdType
<1>5. Key(rs[y]) = key BY <1>1 DEF Key
<1>6. PICK b : b = BucketOf(key, n) OBVIOUS
<1>7. b \in 0..n - 1 BY <1>2, <1>3, <1>4, <1>6, SpanAssumption DEF BucketOf
<1>8. b \in DOMAIN place /\ b \in BucketsIn(t) BY <1>1, <1>7 DEF Placings, BucketsIn
<1>9. PICK p : p = place[b] OBVIOUS
<1>10. LinedUp(t, b, p) BY <1>1, <1>2, <1>8, <1>9, IsLinedUp
<1>11. x \in InBucket(RowsOf(t), reader.tables[t].numBuckets, b)
       /\ y \in InBucket(RowsOf(t), reader.tables[t].numBuckets, b)
  BY <1>1, <1>5, <1>6 DEF InBucket
<1>12. PICK k \in 1..Len(p) : p[k] = x BY <1>10, <1>11 DEF LinedUp
<1>13. PICK l \in 1..Len(p) : p[l] = y BY <1>10, <1>11 DEF LinedUp
<1>14. Len(p) \in Nat /\ x \in Int /\ y \in Int BY <1>10, LinedUpPlaces
<1>15. l < k => y < x
  <2>1. \A i, j \in 1..Len(p) : i < j /\ Key(RowsOf(t)[p[i]]) = Key(RowsOf(t)[p[j]]) => p[i] < p[j]
    BY <1>10 DEF LinedUp
  <2> QED BY <1>1, <1>5, <1>12, <1>13, <2>1
<1>16. k # l BY <1>12, <1>13, <1>14
<1>17. k < l BY <1>14, <1>15, <1>16
<1> QED BY <1>8, <1>9, <1>12, <1>13, <1>17

OrderKept(from, got, rs) ==
    /\ \A i, j \in 1..Len(got) :
          /\ from[i] = from[j] => i = j
          /\ i < j /\ Id(got[i]) = Id(got[j]) => from[i] < from[j]
    /\ \A j \in 1..Len(got), k \in 1..Len(rs) :
          k < from[j] /\ Id(rs[k]) = Id(got[j]) => \E i \in 1..Len(got) : from[i] = k

LEMMA InOrderFromDrawn ==
    ASSUME NEW t, Ready(t), NEW place \in Placings(t), NEW got \in Seq(Rows),
           NEW from, Drawn(place, from, got, RowsOf(t))
    PROVE  OrderKept(from, got, RowsOf(t))
<1>1. PICK rs, m : rs = RowsOf(t) /\ m = Len(got) OBVIOUS
<1>2. m \in Nat BY <1>1
<1>3. /\ from \in [1..m -> 1..Len(rs)]
      /\ \A i \in 1..m : got[i] = rs[from[i]]
      /\ \A i, j \in 1..m : from[i] = from[j] => i = j
      /\ \A j \in 1..m, b \in DOMAIN place : \A k \in 1..Len(place[b]) :
            from[j] = place[b][k] => InFront(place[b], k, from, j)
  BY <1>1 DEF Drawn
<1>4. ASSUME NEW j \in 1..m, NEW k \in 1..Len(rs), k < from[j], Id(rs[k]) = Id(got[j])
      PROVE  \E i \in 1..j - 1 : from[i] = k
  <2>1. PICK y : y = from[j] OBVIOUS
  <2>2. y \in 1..Len(rs) /\ k < y /\ Id(rs[k]) = Id(rs[y]) BY <1>3, <1>4, <2>1
  <2>3. PICK b \in DOMAIN place :
            \E h, l \in 1..Len(place[b]) : h < l /\ place[b][h] = k /\ place[b][l] = y
    BY <1>1, <2>2, EqualIds
  <2>4. PICK h \in 1..Len(place[b]), l \in 1..Len(place[b]) :
            h < l /\ place[b][h] = k /\ place[b][l] = y
    BY <2>3
  <2>5. InFront(place[b], l, from, j) BY <1>3, <2>1, <2>4
  <2>6. h \in 1..l - 1 BY <2>4
  <2> QED BY <2>4, <2>5, <2>6 DEF InFront
<1>5. ASSUME NEW i \in 1..m, NEW j \in 1..m, i < j, Id(got[i]) = Id(got[j])
      PROVE  from[i] < from[j]
  <2>1. from[i] \in 1..Len(rs) /\ from[j] \in 1..Len(rs) BY <1>3
  <2>2. from[i] # from[j] BY <1>2, <1>3, <1>5
  <2>3. ASSUME from[j] < from[i] PROVE FALSE
    <3>1. PICK x : x = from[j] OBVIOUS
    <3>2. x \in 1..Len(rs) /\ Id(rs[x]) = Id(got[i]) /\ x < from[i] BY <1>3, <1>5, <2>1, <2>3, <3>1
    <3>3. PICK h \in 1..i - 1 : from[h] = x BY <1>4, <3>2
    <3>4. h \in 1..m /\ h # j BY <1>2, <1>5, <3>3
    <3> QED BY <1>3, <3>1, <3>3, <3>4
  <2>4. PICK x, y : x = from[i] /\ y = from[j] OBVIOUS
  <2>5. x \in Int /\ y \in Int BY <2>1, <2>4
  <2> QED BY <2>2, <2>3, <2>4, <2>5
<1>6. ASSUME NEW j \in 1..m, NEW k \in 1..Len(rs), k < from[j], Id(rs[k]) = Id(got[j])
      PROVE  \E i \in 1..m : from[i] = k
  <2>1. PICK i \in 1..j - 1 : from[i] = k BY <1>4, <1>6
  <2> QED BY <1>2, <2>1
<1> QED BY <1>1, <1>3, <1>5, <1>6 DEF OrderKept

LEMMA EqualIdsInOrderFromIterates ==
    ASSUME WriterInvariant, ContentInvariant, ReaderInvariant
    PROVE  EqualIdsInOrder
<1> SUFFICES ASSUME rows.state # "none" PROVE EqualIdsInOrder BY DEF EqualIdsInOrder
<1>1. PICK t, got, rs : t = rows.table /\ got = rows.yielded /\ rs = RowsOf(t) OBVIOUS
<1>2. /\ reader.open /\ t \in 1..Len(tables) /\ got \in Seq(Rows)
      /\ \E place \in Placings(t), from \in [1..Len(got) -> 1..Len(rs)] :
            Following(rows, place, from)
  BY <1>1 DEF ReaderInvariant, Iterates
<1>3. PICK place \in Placings(t), from \in [1..Len(got) -> 1..Len(rs)] : Following(rows, place, from)
  BY <1>2
<1>4. Ready(t) BY <1>2, IsReady DEF ReaderInvariant
<1>5. Drawn(place, from, got, RowsOf(t)) BY <1>1, <1>3 DEF Following
<1>6. \A i \in 1..Len(got) : got[i] = rs[from[i]] BY <1>1, <1>5 DEF Drawn
<1>7. OrderKept(from, got, RowsOf(t)) BY <1>2, <1>4, <1>5, InOrderFromDrawn
<1> QED BY <1>1, <1>6, <1>7 DEF EqualIdsInOrder, OrderKept

(* Whatever is built and whatever fails, a cursor has behind it rows of the*)
(* builder's, of each bucket the first ones, and before it the others.     *)
THEOREM ReaderInvariantHolds == Spec => []ReaderInvariant
<1>1. Init => ReaderInvariant BY ReaderInitially
<1>2. Init /\ [][Next]_vars => [](WriterInvariant /\ ContentInvariant)
  BY Initially, Preserved, ContentInitially, ContentPreserved, PTL
<1> QED BY <1>1, <1>2, ReaderPreserved, PTL DEF Spec

(* The tables that Reader's init reads have the names and columns of those *)
(* the builder was given, in the builder's order.                          *)
THEOREM ReaderReadsBack == Spec => []ReadsBack
<1>1. WriterInvariant /\ ContentInvariant /\ ReaderInvariant => ReadsBack
  BY ReadsBackFromComplete DEF ReaderInvariant
<1> QED BY <1>1, WriterInvariantHolds, ContentHolds, ReaderInvariantHolds, PTL

(* Find returns the first row with the id it is asked for, and no row only *)
(* if there is none, unless a read fails or the id is negative.            *)
THEOREM FindFindsFirst == Spec => []FindFirst
<1>1. ReaderInvariant => FindFirst BY DEF ReaderInvariant
<1> QED BY <1>1, ReaderInvariantHolds, PTL

(* Next returns no row twice, and those with one id in the builder's order *)
(* and without a gap, also where a read has failed.                        *)
THEOREM RowsKeepOrder == Spec => []EqualIdsInOrder
<1>1. WriterInvariant /\ ContentInvariant /\ ReaderInvariant => EqualIdsInOrder
  BY EqualIdsInOrderFromIterates
<1> QED BY <1>1, WriterInvariantHolds, ContentHolds, ReaderInvariantHolds, PTL

(* Sequences as bags.                                                      *)
At(s, r) == {i \in DOMAIN s : s[i] = r}

LEMMA BagAt ==
    ASSUME NEW S, NEW s \in Seq(S)
    PROVE  /\ \A r : r \in DOMAIN ToBag(s) <=> \E i \in 1..Len(s) : s[i] = r
           /\ \A r \in DOMAIN ToBag(s) : ToBag(s)[r] = Cardinality(At(s, r))
           /\ \A r : IsFiniteSet(At(s, r)) /\ At(s, r) \in SUBSET (1..Len(s))
           /\ ToBag(s) = [r \in DOMAIN ToBag(s) |-> ToBag(s)[r]]
<1>1. DOMAIN s = 1..Len(s) /\ Len(s) \in Nat OBVIOUS
<1>2. ToBag(s) = [r \in Range(s) |-> Cardinality(At(s, r))] BY DEF ToBag, At
<1>3. \A r : r \in Range(s) <=> \E i \in 1..Len(s) : s[i] = r BY <1>1 DEF Range
<1>4. ASSUME NEW r PROVE IsFiniteSet(At(s, r)) /\ At(s, r) \in SUBSET (1..Len(s))
  <2>1. At(s, r) \in SUBSET (1..Len(s)) BY <1>1 DEF At
  <2>2. IsFiniteSet(1..Len(s)) BY <1>1, FS_Interval
  <2> QED BY <2>1, <2>2, FS_Subset
<1> QED BY <1>2, <1>3, <1>4

LEMMA NoBag == ToBag(<<>>) = <<>>
<1>1. PICK none, bag : none = <<>> /\ bag = ToBag(none) OBVIOUS
<1>2. DOMAIN none = {} BY <1>1
<1>3. Range(none) = {} BY <1>2 DEF Range
<1>4. bag = [r \in {} |-> bag[r]] BY <1>1, <1>3 DEF ToBag
<1>5. none = [r \in {} |-> none[r]] BY <1>1
<1> QED BY <1>1, <1>4, <1>5

LEMMA BagGrows ==
    ASSUME NEW S, NEW s \in Seq(S), NEW r \in S
    PROVE  ToBag(Append(s, r)) = RowsPromise!BagAdd(ToBag(s), r)
<1>1. PICK s2, m : s2 = Append(s, r) /\ m = Len(s) OBVIOUS
<1>2. /\ s2 \in Seq(S) /\ Len(s2) = m + 1 /\ m \in Nat /\ s2[m + 1] = r
      /\ \A i \in 1..m : s2[i] = s[i]
  BY <1>1
<1>3. PICK a, b : a = ToBag(s) /\ b = ToBag(s2) OBVIOUS
<1>4. /\ \A x : x \in DOMAIN a <=> \E i \in 1..m : s[i] = x
      /\ \A x \in DOMAIN a : a[x] = Cardinality(At(s, x))
      /\ \A x : IsFiniteSet(At(s, x)) /\ At(s, x) \in SUBSET (1..m)
  BY <1>1, <1>3, BagAt
<1>5. /\ \A x : x \in DOMAIN b <=> \E i \in 1..m + 1 : s2[i] = x
      /\ \A x \in DOMAIN b : b[x] = Cardinality(At(s2, x))
      /\ b = [x \in DOMAIN b |-> b[x]]
  BY <1>2, <1>3, BagAt
<1>6. 1..m + 1 = 1..m \cup {m + 1} /\ m + 1 \notin 1..m BY <1>2
<1>7. DOMAIN b = DOMAIN a \cup {r}
  <2>1. ASSUME NEW x PROVE x \in DOMAIN b <=> x \in DOMAIN a \/ x = r
    <3>1. x \in DOMAIN b => x \in DOMAIN a \/ x = r
      <4> SUFFICES ASSUME x \in DOMAIN b PROVE x \in DOMAIN a \/ x = r OBVIOUS
      <4>1. PICK i \in 1..m + 1 : s2[i] = x BY <1>5
      <4> QED BY <1>2, <1>4, <1>6, <4>1
    <3>2. x \in DOMAIN a => x \in DOMAIN b
      <4> SUFFICES ASSUME x \in DOMAIN a PROVE x \in DOMAIN b OBVIOUS
      <4>1. PICK i \in 1..m : s[i] = x BY <1>4
      <4>2. i \in 1..m + 1 /\ s2[i] = x BY <1>2, <1>6, <4>1
      <4> QED BY <1>5, <4>2
    <3>3. m + 1 \in 1..m + 1 BY <1>6
    <3>4. r \in DOMAIN b BY <1>2, <1>5, <3>3
    <3> QED BY <3>1, <3>2, <3>4
  <2> QED BY <2>1
<1>8. DOMAIN s = 1..m /\ DOMAIN s2 = 1..m + 1 BY <1>1, <1>2
<1>9. ASSUME NEW x, x # r PROVE At(s2, x) = At(s, x) BY <1>2, <1>6, <1>8, <1>9 DEF At
<1>10. At(s2, r) = At(s, r) \cup {m + 1} BY <1>2, <1>6, <1>8 DEF At
<1>11. Cardinality(At(s2, r)) = Cardinality(At(s, r)) + 1
  <2>1. IsFiniteSet(At(s, r)) /\ m + 1 \notin At(s, r) BY <1>4, <1>6
  <2> QED BY <1>10, <2>1, FS_AddElement
<1>12. r \notin DOMAIN a => Cardinality(At(s, r)) = 0
  <2>1. r \notin DOMAIN a => At(s, r) = {} BY <1>4, <1>8 DEF At
  <2> QED BY <2>1, FS_EmptySet
<1>13. CASE r \in DOMAIN a
  <2>1. \A x \in DOMAIN b : x \in DOMAIN a BY <1>7, <1>13
  <2>2. \A x \in DOMAIN b : b[x] = IF x = r THEN a[x] + 1 ELSE a[x]
    BY <1>4, <1>5, <1>9, <1>11, <2>1
  <2>3. b = [x \in DOMAIN a |-> IF x = r THEN a[x] + 1 ELSE a[x]] BY <1>5, <1>7, <1>13, <2>2
  <2> QED BY <1>1, <1>3, <1>13, <2>3 DEF RowsPromise!BagAdd
<1>14. CASE r \notin DOMAIN a
  <2>1. \A x \in DOMAIN b : x # r => x \in DOMAIN a BY <1>7
  <2>2. b[r] = 1 BY <1>5, <1>7, <1>11, <1>12, <1>14
  <2>3. \A x \in DOMAIN b : b[x] = IF x = r THEN 1 ELSE a[x]
    BY <1>4, <1>5, <1>9, <2>1, <2>2
  <2>4. b = [x \in DOMAIN a \cup {r} |-> IF x = r THEN 1 ELSE a[x]] BY <1>5, <1>7, <2>3
  <2> QED BY <1>1, <1>3, <1>14, <2>4 DEF RowsPromise!BagAdd
<1> QED BY <1>13, <1>14

Contained(a, b) == \A r \in DOMAIN a : r \in DOMAIN b /\ a[r] <= b[r]

BagsDrawn(g, s, from) ==
    /\ Contained(ToBag(g), ToBag(s))
    /\ (\A k \in 1..Len(s) : IsRead(from, k)) => ToBag(g) = ToBag(s)

LEMMA BagDrawn ==
    ASSUME NEW S, NEW g \in Seq(S), NEW s \in Seq(S),
           NEW from \in [1..Len(g) -> 1..Len(s)],
           \A i \in 1..Len(g) : g[i] = s[from[i]],
           \A i, j \in 1..Len(g) : from[i] = from[j] => i = j
    PROVE  BagsDrawn(g, s, from)
<1>1. PICK a, b, m, n : a = ToBag(g) /\ b = ToBag(s) /\ m = Len(g) /\ n = Len(s) OBVIOUS
<1>2. /\ \A x : x \in DOMAIN a <=> \E i \in 1..m : g[i] = x
      /\ \A x \in DOMAIN a : a[x] = Cardinality(At(g, x))
      /\ a = [x \in DOMAIN a |-> a[x]]
  BY <1>1, BagAt
<1>3. /\ \A x : x \in DOMAIN b <=> \E i \in 1..n : s[i] = x
      /\ \A x \in DOMAIN b : b[x] = Cardinality(At(s, x))
      /\ \A x : IsFiniteSet(At(s, x))
      /\ b = [x \in DOMAIN b |-> b[x]]
  BY <1>1, BagAt
<1>4. DOMAIN g = 1..m /\ DOMAIN s = 1..n /\ DOMAIN from = 1..m BY <1>1
<1>5. ASSUME NEW x
      PROVE  \E f \in Injection(At(g, x), At(s, x)) :
                 (\A k \in 1..n : IsRead(from, k)) => f \in Surjection(At(g, x), At(s, x))
  <2>1. PICK f : f = [i \in At(g, x) |-> from[i]] OBVIOUS
  <2>2. \A i \in At(g, x) : from[i] \in At(s, x) BY <1>1, <1>4 DEF At
  <2>3. f \in [At(g, x) -> At(s, x)] BY <2>1, <2>2
  <2>4. \A i, j \in At(g, x) : f[i] = f[j] => i = j BY <1>1, <1>4, <2>1 DEF At
  <2>5. f \in Injection(At(g, x), At(s, x)) BY <2>3, <2>4 DEF Injection, IsInjective
  <2>6. ASSUME \A k \in 1..n : IsRead(from, k), NEW k \in At(s, x)
        PROVE  \E i \in At(g, x) : f[i] = k
    <3>1. k \in 1..n /\ s[k] = x BY <1>4 DEF At
    <3>2. PICK i \in 1..m : from[i] = k BY <1>4, <2>6, <3>1 DEF IsRead
    <3>3. i \in At(g, x) BY <1>1, <1>4, <3>1, <3>2 DEF At
    <3> QED BY <2>1, <3>2, <3>3
  <2> QED BY <2>3, <2>5, <2>6 DEF Surjection
<1>6. ASSUME NEW x
      PROVE  /\ Cardinality(At(g, x)) <= Cardinality(At(s, x))
             /\ (\A k \in 1..n : IsRead(from, k)) =>
                   Cardinality(At(g, x)) = Cardinality(At(s, x))
  <2>1. PICK f \in Injection(At(g, x), At(s, x)) :
            (\A k \in 1..n : IsRead(from, k)) => f \in Surjection(At(g, x), At(s, x))
    BY <1>5
  <2>2. IsFiniteSet(At(s, x)) BY <1>3
  <2> QED BY <2>1, <2>2, FS_Injection
<1>7. \A x \in DOMAIN a : x \in DOMAIN b
  <2> TAKE x \in DOMAIN a
  <2>1. PICK i \in 1..m : g[i] = x BY <1>2
  <2>2. from[i] \in 1..n /\ s[from[i]] = x BY <1>1, <2>1
  <2> QED BY <1>3, <2>2
<1>8. Contained(a, b) BY <1>2, <1>3, <1>6, <1>7 DEF Contained
<1>9. ASSUME \A k \in 1..n : IsRead(from, k) PROVE a = b
  <2>1. ASSUME NEW x \in DOMAIN b PROVE x \in DOMAIN a
    <3>1. PICK k \in 1..n : s[k] = x BY <1>3
    <3>2. PICK i \in 1..m : from[i] = k BY <1>4, <1>9 DEF IsRead
    <3> QED BY <1>1, <1>2, <3>1, <3>2
  <2>2. DOMAIN a = DOMAIN b BY <1>7, <2>1
  <2>3. \A x \in DOMAIN a : a[x] = b[x] BY <1>2, <1>3, <1>6, <1>7, <1>9
  <2> QED BY <1>2, <1>3, <2>2, <2>3
<1> QED BY <1>1, <1>8, <1>9 DEF BagsDrawn

(* What an iteration has yielded.                                          *)
LEMMA YieldedBag ==
    ASSUME WriterInvariant, ContentInvariant, Complete,
           NEW it, Iterates(it), it.state # "none", NEW t, t = it.table
    PROVE  /\ it.yielded \in Seq(Rows) /\ t \in 1..Len(tables)
           /\ Contained(ToBag(it.yielded), ToBag(RowsOf(t)))
           /\ it.state # "running" /\ ~it.lost => ToBag(it.yielded) = ToBag(RowsOf(t))
<1>1. PICK got, rs : got = it.yielded /\ rs = RowsOf(t) OBVIOUS
<1>2. /\ reader.open /\ t \in 1..Len(tables) /\ got \in Seq(Rows)
      /\ \E place \in Placings(t), from \in [1..Len(got) -> 1..Len(rs)] :
            Following(it, place, from)
  BY <1>1 DEF Iterates
<1>3. PICK place \in Placings(t), from \in [1..Len(got) -> 1..Len(rs)] : Following(it, place, from)
  BY <1>2
<1>4. rs \in Seq(Rows) BY <1>1, <1>2, IsReady DEF Ready
<1>5. /\ Drawn(place, from, got, rs)
      /\ it.state # "running" /\ ~it.lost => \A k \in 1..Len(rs) : IsRead(from, k)
  BY <1>1, <1>3 DEF Following
<1>6. /\ \A i \in 1..Len(got) : got[i] = rs[from[i]]
      /\ \A i, j \in 1..Len(got) : from[i] = from[j] => i = j
  BY <1>5 DEF Drawn
<1>7. /\ Contained(ToBag(got), ToBag(rs))
      /\ (\A k \in 1..Len(rs) : IsRead(from, k)) => ToBag(got) = ToBag(rs)
  <2>1. PICK S : S = Rows OBVIOUS
  <2>2. got \in Seq(S) /\ rs \in Seq(S) BY <1>2, <1>4, <2>1
  <2>3. from \in [1..Len(got) -> 1..Len(rs)] OBVIOUS
  <2>4. BagsDrawn(got, rs, from) BY <1>6, <2>2, <2>3, BagDrawn
  <2> QED BY <2>4 DEF BagsDrawn
<1> QED BY <1>1, <1>2, <1>5, <1>7

(* Iterating implements RowSet, step by step.                              *)
LEMMA BrokenOff ==
    ASSUME ~Sound'
    PROVE  RowsPromise!Next
BY DEF RowsPromise!Next, RowsPromise!Replace, Phase, IteratedTable, Got

LEMMA SameBags ==
    ASSUME UNCHANGED <<writer, builder>>, reader' = reader
    PROVE  Content' = Content
<1>1. \A t : RowsOf(t)' = RowsOf(t) BY SameContent
<1>2. tables' = tables BY DEF builder
<1> QED BY <1>1, <1>2 DEF Content

LEMMA StartRowsImplements ==
    ASSUME WriterInvariant, ContentInvariant, ReaderInvariant,
           NEW t \in 1..Len(reader.tables), StartRows(t), UNCHANGED <<writer, builder>>
    PROVE  RowsPromise!Next
<1>1. reader.open /\ reader' = reader /\ rows.state # "running" BY DEF StartRows
<1>2. t \in 1..Len(tables) BY <1>1, TablesRead DEF ReaderInvariant
<1>3. PICK new : new = rows' OBVIOUS
<1>4. /\ new.state = "running" /\ new.table = t /\ new.yielded = <<>> /\ new.lost = FALSE
  <2>1. PICK i, nil, bucket :
            new = [NoRows EXCEPT !.state = "running", !.table = t, !.index = i, !.isNil = nil,
                                 !.bucket = bucket]
    BY <1>3 DEF StartRows
  <2> QED BY <2>1 DEF NoRows
<1>5. Sound' BY <1>1, <1>3, <1>4 DEF Sound
<1>6. Phase' = "running" /\ IteratedTable' = t BY <1>3, <1>4, <1>5 DEF Phase, IteratedTable
<1>7. Got' = <<>> BY <1>3, <1>4, <1>5, NoBag DEF Got
<1>8. Phase # "running" BY <1>1 DEF Phase
<1>9. Content' = Content BY <1>1, SameBags
<1>10. t \in DOMAIN Content BY <1>1, <1>2 DEF Content
<1>11. RowsPromise!Begin BY <1>6, <1>7, <1>8, <1>9, <1>10 DEF RowsPromise!Begin
<1> QED BY <1>11 DEF RowsPromise!Next

(* A step that yields a row, and one that ends.                            *)
LEMMA YieldImplements ==
    ASSUME WriterInvariant, ContentInvariant, Complete, Iterates(rows), rows.state = "running",
           UNCHANGED <<writer, builder, reader>>, ~rows.lost,
           NEW new, new = rows', Iterates(new), new.lost = rows.lost, new.table = rows.table,
           new.state = "running", NEW row, new.yielded = Append(rows.yielded, row)
    PROVE  RowsPromise!Yield
<1>1. PICK t, got, rs : t = rows.table /\ got = rows.yielded /\ rs = RowsOf(t) OBVIOUS
<1>2. reader.open BY DEF Iterates
<1>3. got \in Seq(Rows) /\ t \in 1..Len(tables) BY <1>1, YieldedBag
<1>4. PICK got2 : got2 = Append(got, row) OBVIOUS
<1>5. got2 \in Seq(Rows) /\ Contained(ToBag(got2), ToBag(rs)) BY <1>1, <1>4, YieldedBag
<1>6. Len(got) \in Nat /\ Len(got2) = Len(got) + 1 /\ got2[Len(got) + 1] = row
  <2> HIDE DEF Rows
  <2> QED BY <1>3, <1>4
<1>7. Len(got) + 1 \in 1..Len(got2) BY <1>6
<1>8. row \in Rows BY <1>5, <1>6, <1>7
<1>9. PICK a, b, all : a = ToBag(got) /\ b = ToBag(got2) /\ all = ToBag(rs) OBVIOUS
<1>10. b = RowsPromise!BagAdd(a, row) BY <1>3, <1>4, <1>8, <1>9, BagGrows
<1>11. row \in DOMAIN b BY <1>5, <1>6, <1>7, <1>9, BagAt
<1>12. row \in DOMAIN all /\ b[row] <= all[row] BY <1>5, <1>9, <1>11 DEF Contained
<1>13. Sound /\ Sound' BY <1>2 DEF Sound
<1>14. /\ Phase = "running" /\ Phase' = "running" /\ IteratedTable = t /\ IteratedTable' = t
  BY <1>1, <1>13 DEF Phase, IteratedTable
<1>15. Got = a BY <1>1, <1>9, <1>13 DEF Got
<1>16. Got' = b BY <1>1, <1>4, <1>9, <1>13 DEF Got
<1>17. Content[t] = all BY <1>1, <1>2, <1>3, <1>9 DEF Content
<1>18. Content' = Content BY SameBags
<1>19. /\ \E r \in DOMAIN Content[IteratedTable] :
              Got' = RowsPromise!BagAdd(Got, r) /\ Got'[r] <= Content[IteratedTable][r]
  BY <1>10, <1>12, <1>14, <1>15, <1>16, <1>17
<1> QED BY <1>14, <1>18, <1>19 DEF RowsPromise!Yield

LEMMA EndImplements ==
    ASSUME WriterInvariant, ContentInvariant, Complete, Iterates(rows), rows.state = "running",
           UNCHANGED <<writer, builder, reader>>, ~rows.lost,
           NEW new, new = rows', Iterates(new), new.lost = rows.lost, new.table = rows.table,
           new.state = "ended", new.yielded = rows.yielded
    PROVE  RowsPromise!End
<1>1. PICK t, got : t = rows.table /\ got = rows.yielded OBVIOUS
<1>2. reader.open BY DEF Iterates
<1>3. t \in 1..Len(tables) /\ ToBag(got) = ToBag(RowsOf(t)) BY <1>1, YieldedBag
<1>4. Sound /\ Sound' BY <1>2 DEF Sound
<1>5. /\ Phase = "running" /\ Phase' = "ended" /\ IteratedTable = t /\ IteratedTable' = t
  BY <1>1, <1>4 DEF Phase, IteratedTable
<1>6. Got = ToBag(got) BY <1>1, <1>4 DEF Got
<1>7. Got' = ToBag(got) BY <1>1, <1>4 DEF Got
<1>8. Content[t] = ToBag(RowsOf(t)) BY <1>2, <1>3 DEF Content
<1>9. Content' = Content BY SameBags
<1> QED BY <1>3, <1>5, <1>6, <1>7, <1>8, <1>9 DEF RowsPromise!End

LEMMA RowsNextImplements ==
    ASSUME WriterInvariant, ContentInvariant, ReaderInvariant, RowsNext,
           UNCHANGED <<writer, builder>>
    PROVE  RowsPromise!Next
<1>1. CASE ~Sound' BY <1>1, BrokenOff
<1>2. CASE Sound'
  <2>1. PICK new : new = rows' OBVIOUS
  <2>2. ~new.lost BY <1>2, <2>1 DEF Sound
  <2>3. CursorTypeOK /\ Complete /\ Iterates(rows) BY DEF ReaderInvariant
  <2>4. Iterates(new) /\ DOMAIN new = DOMAIN NoRows /\ new.state \in {"running", "ended"}
    BY <2>1, <2>3, RowsNextIterates
  <2>5. rows.state = "running" /\ reader' = reader
    BY DEF RowsNext, NextInBucket, NextBucket, NoBuckets, RowUnread, ListUnread, InRange
  <2>6. ASSUME NEW i, NEW bucket, new = Yield(i, bucket) PROVE RowsPromise!Next
    <3>1. PICK row : row = RowAt(bucket.next) OBVIOUS
    <3>2. /\ new.state = "running" /\ new.table = rows.table /\ new.lost = rows.lost
          /\ new.yielded = Append(rows.yielded, row)
      BY <2>3, <2>5, <2>6, <3>1, YieldFields DEF CursorTypeOK
    <3>3. RowsPromise!Yield BY <2>1, <2>2, <2>3, <2>4, <2>5, <3>2, YieldImplements
    <3> QED BY <3>3 DEF RowsPromise!Next
  <2>7. ASSUME NEW i, new = NoMore(i) PROVE RowsPromise!Next
    <3>1. /\ new.state = "ended" /\ new.table = rows.table /\ new.lost = rows.lost
          /\ new.yielded = rows.yielded
      BY <2>3, <2>7, NoMoreFields DEF CursorTypeOK
    <3>2. RowsPromise!End BY <2>1, <2>2, <2>3, <2>4, <2>5, <3>1, EndImplements
    <3> QED BY <3>2 DEF RowsPromise!Next
  <2>8. CASE NextInBucket
    <3>1. new = Yield(rows.index, rows.bucket) BY <2>1, <2>8 DEF NextInBucket
    <3> QED BY <2>6, <3>1
  <2>9. CASE NextBucket
    <3>1. PICK i, bucket : new = Yield(i, bucket) \/ new = NoMore(i)
      BY <2>1, <2>9 DEF NextBucket, FromNextBucket
    <3> QED BY <2>6, <2>7, <3>1
  <2>10. CASE NoBuckets
    <3>1. new = [rows EXCEPT !.state = "ended"] BY <2>1, <2>10 DEF NoBuckets
    <3>2. /\ new.state = "ended" /\ new.table = rows.table /\ new.lost = rows.lost
          /\ new.yielded = rows.yielded
      BY <2>3, <3>1 DEF CursorTypeOK, NoRows
    <3>3. RowsPromise!End BY <2>1, <2>2, <2>3, <2>4, <2>5, <3>2, EndImplements
    <3> QED BY <3>3 DEF RowsPromise!Next
  <2>11. CASE RowUnread
    <3>1. PICK last, base : base = FromNextBucket(last) /\ new = [base EXCEPT !.lost = TRUE]
      BY <2>1, <2>11 DEF RowUnread
    <3>2. new = [base EXCEPT !.lost = TRUE] BY <3>1
    <3>3. DOMAIN base = DOMAIN NoRows BY <2>3, <2>5, <3>1, FromNextBucketFields
    <3>4. new.lost BY <3>2, <3>3 DEF NoRows
    <3> QED BY <2>2, <3>4
  <2>12. CASE ListUnread
    <3>1. PICK i : new = [NoMore(i) EXCEPT !.lost = TRUE] BY <2>1, <2>12 DEF ListUnread
    <3>2. PICK base : base = NoMore(i) OBVIOUS
    <3>3. DOMAIN base = DOMAIN NoRows BY <2>3, <3>2, NoMoreFields DEF CursorTypeOK
    <3>4. new.lost BY <3>1, <3>2, <3>3 DEF NoRows
    <3> QED BY <2>2, <3>4
  <2> QED BY <2>8, <2>9, <2>10, <2>11, <2>12 DEF RowsNext
<1> QED BY <1>1, <1>2

LEMMA Stutters ==
    ASSUME UNCHANGED <<writer, builder>>, reader' = reader, rows' = rows
    PROVE  UNCHANGED RowsPromise!vars
<1>1. Content' = Content BY SameBags
<1>2. Phase' = Phase /\ IteratedTable' = IteratedTable /\ Got' = Got BY DEF Phase, IteratedTable, Got, Sound
<1> QED BY <1>1, <1>2 DEF RowsPromise!vars

LEMMA IteratesAllInitially == ASSUME Init PROVE RowsPromise!Init
<1>1. ~reader.open BY DEF Init, ReaderInit, Closed
<1> QED BY <1>1 DEF RowsPromise!Init, Content, Phase, IteratedTable, Got, Sound

LEMMA IteratesAllStep ==
    ASSUME WriterInvariant, ContentInvariant, ReaderInvariant, ReaderInvariant', [Next]_vars
    PROVE  [RowsPromise!Next]_RowsPromise!vars
<1>1. CASE ~Sound' BY <1>1, BrokenOff
<1>2. CASE Build(Builds) \/ Forget \/ BuildStep
  <2>1. ~reader.open /\ UNCHANGED cursors BY <1>2, WritesNotOpen DEF ReaderInvariant
  <2>2. ~Sound' BY <2>1 DEF Sound, cursors
  <2> QED BY <2>2, BrokenOff
<1>3. CASE Open
  <2>1. ~reader.open /\ rows' = rows BY <1>3 DEF Open, OpenReader
  <2>2. rows' = NoRows BY <2>1, NothingRead
  <2>3. /\ Phase' = "none" /\ IteratedTable' = 0 /\ Got' = <<>>
    BY <2>2, NoBag DEF Phase, IteratedTable, Got, NoRows
  <2>4. RowsPromise!Replace BY <2>3 DEF RowsPromise!Replace
  <2> QED BY <2>4 DEF RowsPromise!Next
<1>4. CASE Read
  <2>1. UNCHANGED <<writer, builder>> BY <1>4 DEF Read
  <2>2. ASSUME NEW t \in 1..Len(reader.tables), StartRows(t) PROVE RowsPromise!Next
    BY <2>1, <2>2, StartRowsImplements
  <2>3. ASSUME NEW t, NEW id, StartFind(t, id) PROVE UNCHANGED RowsPromise!vars
    <3>1. reader' = reader /\ rows' = rows BY <2>3 DEF StartFind
    <3> QED BY <2>1, <3>1, Stutters
  <2>4. ASSUME Close PROVE RowsPromise!Next
    <3>1. ~Sound' BY <2>4 DEF Close, Closed, Sound
    <3> QED BY <3>1, BrokenOff
  <2> QED BY <1>4, <2>2, <2>3, <2>4 DEF Read
<1>5. CASE NextRow BY <1>5, RowsNextImplements DEF NextRow
<1>6. CASE Look
  <2>1. UNCHANGED <<writer, builder>> /\ reader' = reader /\ rows' = rows
    BY <1>6 DEF Look, FindStep, FindNext, FindExhausted, FindUnread
  <2> QED BY <2>1, Stutters
<1>7. CASE UNCHANGED vars
  <2>1. UNCHANGED <<writer, builder>> /\ reader' = reader /\ rows' = rows
    BY <1>7 DEF vars, cursors
  <2> QED BY <2>1, Stutters
<1> QED BY <1>2, <1>3, <1>4, <1>5, <1>6, <1>7 DEF Next

(* Until a read fails, iterating implements RowSet: each step of Next that *)
(* yields a row yields one that is left of the builder's, and an iteration *)
(* ends only when none is left.                                            *)
THEOREM RowsYieldAll == Spec => IteratesAll
<1>1. Init => RowsPromise!Init BY IteratesAllInitially
<1>2. WriterInvariant /\ ContentInvariant /\ ReaderInvariant /\ ReaderInvariant' /\ [Next]_vars
        => [RowsPromise!Next]_RowsPromise!vars
  BY IteratesAllStep
<1>3. Spec => Init /\ [][Next]_vars BY DEF Spec
<1> QED BY <1>1, <1>2, <1>3, WriterInvariantHolds, ContentHolds, ReaderInvariantHolds, PTL
     DEF IteratesAll, RowsPromise!Safety

(* What the proofs about a file and its reader rest on holds.              *)
THEOREM FileInvariantHolds == Spec => []FileInvariant
BY WriterInvariantHolds, ContentHolds, ReaderInvariantHolds, PTL DEF FileInvariant
=============================================================================
