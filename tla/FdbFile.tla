------------------------------- MODULE FdbFile -------------------------------
(***************************************************************************)
(* An .fdb file (src/database/fdb), as far as Builder, Reader and          *)
(* HashTable tell its bytes apart: fields at byte offsets.  A word is 4    *)
(* bytes and holds a number or an offset, a long 8 bytes, a text its bytes *)
(* with the terminating NUL and the zeros that pad it to 4.  A write       *)
(* destroys the fields it overlaps.                                        *)
(*                                                                         *)
(* Abstracted: what an int32, a float32 or a bool looks like in a word is  *)
(* its number; a text is a value with a size and a hash.                   *)
(***************************************************************************)
EXTENDS Integers, Sequences, FiniteSets

CONSTANTS
    Texts,     \* strings: names of tables and columns, and values
    NoText,    \* what is read where no text begins
    TextSize,  \* bytes of a text and of the NUL behind it
    Hash,      \* Sfhash of a text
    Span,      \* words are numbers below Span, 2^32 in the code
    LongSpan,  \* longs are numbers below LongSpan, 2^64 in the code
    Rank,      \* the place of a text in the order of strings.Compare
    Start,     \* where the handle stands when the file is written
    Faults     \* what may go wrong: "write", "read", "crash"

ASSUME TextAssumption == TextSize \in [Texts -> Nat \ {0}] /\ NoText \notin Texts
ASSUME HashAssumption == Hash \in [Texts -> Nat]
ASSUME SpanAssumption ==
    /\ Span \in Nat /\ Span > 16 /\ \E w \in 1..Span : Span = 2 ^ w
    /\ LongSpan \in Nat \ {0} /\ Span % 2 = 0 /\ LongSpan % 2 = 0
ASSUME StartAssumption == Start \in Nat

VARIABLE file  \* offset |-> the field that begins there

VariantNull == 0
VariantI32 == 1
VariantU32 == 2
VariantReal == 3
VariantNVarChar == 4
VariantBool == 5
VariantI64 == 6
VariantU64 == 7
VariantText == 8

noData == Span - 1

(* What is put in a file; a pointer is a word that holds the offset right  *)
(* behind itself.                                                          *)
Word(n) == [kind |-> "word", of |-> n]
Text(t) == [kind |-> "text", of |-> t]
Long(n) == [kind |-> "long", of |-> n]
Pointer == [kind |-> "pointer", of |-> 0]

Field(item, size) == [kind |-> item.kind, of |-> item.of, size |-> size]

(* The file f after size bytes at offset o have become new fields.         *)
Untouched(f, o, size) == {p \in DOMAIN f : p + f[p].size <= o \/ o + size <= p}
Patched(f, o, field) ==
    [p \in Untouched(f, o, field.size) \cup {o} |-> IF p = o THEN field ELSE f[p]]
PatchedWords(f, o, words) ==
    LET at == {o + 4 * (i - 1) : i \in 1..Len(words)}
    IN  [p \in Untouched(f, o, 4 * Len(words)) \cup at |->
            IF p \in at THEN Field(Word(words[(p - o) \div 4 + 1]), 4) ELSE f[p]]

(* The offsets a file leaves: the code counts them in a uint32.  Nothing   *)
(* is said of files that reach noData, and Room is the bound.              *)
Room(end) == end < noData
=============================================================================
