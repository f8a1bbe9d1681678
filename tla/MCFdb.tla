-------------------------------- MODULE MCFdb --------------------------------
(***************************************************************************)
(* Instances of Fdb: four texts, and builds with one row list for every    *)
(* case the code tells apart.                                              *)
(***************************************************************************)
EXTENDS FdbReading

CONSTANTS e, a, b, c

MCTextSize == [t \in Texts |-> CASE t = e -> 1 [] t = a -> 2 [] t = b -> 4 [] t = c -> 6]
MCHash == [t \in Texts |-> CASE t = e -> 0 [] t = a -> 5 [] t = b -> 9 [] t = c -> 2]
MCRank == [t \in Texts |-> CASE t = e -> 0 [] t = a -> 1 [] t = b -> 2 [] t = c -> 3]

MCNull == Entry(VariantNull, 0)
MCInt(n) == Entry(VariantI32, n)
MCLong(n) == Entry(VariantI64, n)
MCText(t) == Entry(VariantText, t)
MCRow(n, t) == <<MCInt(n), MCText(t)>>

MCTable(name, variants) ==
    [name |-> name, columns |-> [i \in 1..Len(variants) |-> Column(variants[i], <<a, b, c>>[i])]]
MCRows(rs) == [rows |-> rs, err |-> FALSE]
MCOne(variants, rs) == [tables |-> <<MCTable(a, variants)>>, source |-> [t \in Texts |-> MCRows(rs)]]
MCTwo(rs, ss) ==
    [tables |-> <<MCTable(b, <<VariantI32, VariantText>>), MCTable(a, <<VariantI32, VariantText>>)>>,
     source |-> [t \in Texts |-> MCRows(IF t = a THEN rs ELSE ss)]]

(* No tables, no columns, no rows; ids that are equal, share a key or a    *)
(* bucket, or are negative; every variant; and what Flush refuses.         *)
MCBuilds ==
    {[MCOne(<<>>, <<>>) EXCEPT !.tables = <<>>], MCOne(<<>>, <<>>),
     MCTwo(<<MCRow(0, c)>>, <<MCRow(0, a)>>), MCTwo(<<>>, <<MCRow(3, c), MCRow(1, c)>>)}
    \cup {MCOne(<<VariantI32, VariantText>>, rs) : rs \in
            {<<MCRow(0, a), MCRow(0, e), MCRow(1, c)>>,
             <<MCRow(4, a), MCRow(1, b), MCRow(0, a)>>,
             <<MCRow(1, b), <<MCLong(Span + 1), MCLong(LongSpan \div 4)>>, <<MCInt(5), MCNull>>>>,
             <<<<MCLong(Span + 1), MCNull>>, MCRow(1, b)>>,
             <<MCRow(0 - 1, a), MCRow(0 - 2, a)>>,
             <<<<MCNull, MCInt(1)>>>>, <<MCRow(1, a), <<MCInt(1)>>>>,
             <<<<MCInt(1), Entry(9, 0)>>>>}}
    \cup {MCOne(<<VariantText, VariantI32>>,
                <<<<MCText(b), MCInt(1)>>, <<MCText(a), MCInt(2)>>, <<MCText(b), MCInt(3)>>>>),
          MCOne(<<VariantBool, VariantReal, VariantU64>>,
                <<<<Entry(VariantBool, 1), Entry(VariantReal, 7), Entry(VariantU64, LongSpan - 1)>>>>),
          [MCOne(<<VariantI32, VariantText>>, <<>>) EXCEPT !.source[a].err = TRUE]}

MCIds == {0 - 1, 0, 1, 5, 9, Span + 1}
=============================================================================
