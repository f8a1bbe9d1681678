------------------------------- MODULE FdbRow -------------------------------
(***************************************************************************)
(* Rows and their entries (src/database/fdb/row.go, entry.go, common.go):  *)
(* what an entry becomes in a file, what is read back, and the number that *)
(* identifies a row.                                                       *)
(***************************************************************************)
EXTENDS FdbFile

(* An entry is a variant and a value: a text or a number, where FALSE is   *)
(* 0, TRUE is 1, and null has 0.  The value is of the variant's Go type:   *)
(* another one panics in the caller.  A row is a sequence of entries.      *)
Entry(variant, value) == [variant |-> variant, value |-> value]
Column(variant, name) == [variant |-> variant, name |-> name]

SignedVariants == {VariantI32, VariantI64}
TextVariants == {VariantNVarChar, VariantText}
LongVariants == {VariantI64, VariantU64}
Variants == VariantNull..VariantText

Signed32 == 0 - Span \div 2..Span \div 2 - 1
Signed64 == 0 - LongSpan \div 2..LongSpan \div 2 - 1
Typed(entry) ==
    LET Holding(variant, values) == entry.variant = variant => entry.value \in values
    IN  /\ Holding(VariantNull, {0})
        /\ Holding(VariantI32, Signed32)
        /\ Holding(VariantU32, 0..Span - 1)
        /\ Holding(VariantReal, 0..Span - 1)
        /\ Holding(VariantBool, {0, 1})
        /\ Holding(VariantI64, Signed64)
        /\ Holding(VariantU64, 0..LongSpan - 1)

Entries ==
    {entry \in [variant : TextVariants, value : Texts]
                    \cup [variant : Nat \ TextVariants, value : Int] : Typed(entry)}
Rows == Seq(Entries)
Tables == [name : Texts, columns : Seq([variant : Nat, name : Texts])]

(* Go's conversions between signed and unsigned integers of one width.     *)
Signed(n, span) == IF n < span \div 2 THEN n ELSE n - span
uint32(n) == n % Span
int(n) == Signed(n % LongSpan, LongSpan)

(* Go's %: the sign is that of the dividend.                               *)
Rem(a, n) == IF a >= 0 THEN a % n ELSE 0 - ((0 - a) % n)

(* The second word of an entry; a variant that is unknown has none.        *)
Payload(entry) ==
    CASE entry.variant = VariantNull -> Word(0)
      [] entry.variant \in TextVariants -> Text(entry.value)
      [] entry.variant \in LongVariants -> Long(entry.value % LongSpan)
      [] OTHER -> Word(uint32(entry.value))

IsWord(o) == o \in DOMAIN file /\ file[o].kind = "word"
WordAt(o) == IF IsWord(o) THEN file[o].of ELSE noData
Holds(o, kind) == o \in DOMAIN file /\ file[o].kind = kind

(* Text and number read at an offset; elsewhere in the file any bytes are  *)
(* one, which no property needs to tell apart.                             *)
TextAt(o) == IF Holds(o, "text") THEN file[o].of ELSE NoText
LongAt(o) == IF Holds(o, "long") THEN file[o].of ELSE 0

(* readRow and readerEntry: the entry whose two words begin at o.          *)
EntryAt(o) ==
    LET variant == WordAt(o)
        data    == WordAt(o + 4)
    IN  Entry(variant,
              CASE variant = VariantI32 -> Signed(data, Span)
                [] variant = VariantBool -> IF data = 0 THEN 0 ELSE 1
                [] variant \in TextVariants -> TextAt(data)
                [] variant = VariantI64 -> Signed(LongAt(data), LongSpan)
                [] variant = VariantU64 -> LongAt(data)
                [] OTHER -> data)

(* Row.Id: null and unknown variants have none.                            *)
HasId(row) == row[1].variant \in Variants \ {VariantNull}
IsNullId(row) == row[1].variant = VariantNull
Id(row) ==
    LET first == row[1]
    IN  IF first.variant \in TextVariants THEN Hash[first.value] ELSE int(first.value)

(* The least power of two that is at least n, and 0 for 0.  Up to Span the *)
(* powers of two are what divides Span, itself one of them.                *)
bitCeil(n) ==
    IF n = 0 THEN 0
    ELSE CHOOSE c \in n..Span : Span % c = 0 /\ \A d \in n..c - 1 : Span % d # 0
=============================================================================
