------------------------------- MODULE MCGbFdb -------------------------------
(***************************************************************************)
(* Instances of GbFdb: files other programs build, and databases with      *)
(* every kind of column and cell; and of Fdb, for programs that have no    *)
(* database and use all of the library.                                    *)
(***************************************************************************)
EXTENDS MCFdb, GbFdbInvariant

MCFiles ==
    {MCTwo(<<MCRow(0, c), <<MCInt(2), MCNull>>>>, <<>>),
     MCOne(<<VariantI32, VariantNull>>, <<<<MCInt(1), MCNull>>>>),
     MCOne(<<VariantI32, VariantI64>>,
           <<<<MCInt(1), Entry(VariantU64, 7)>>, <<MCInt(2), Entry(VariantU64, LongSpan - 1)>>>>),
     MCOne(<<VariantI32, VariantReal>>,
           <<<<MCInt(1), Entry(VariantReal, Span - 1)>>, <<MCInt(2), Entry(VariantReal, Span \div 2)>>>>),
     MCOne(<<VariantI32, VariantU32>>, <<>>), MCOne(<<>>, <<>>),
     [tables |-> <<MCTable(a, <<VariantI32>>), MCTable(a, <<VariantI32>>)>>,
      source |-> [t \in Texts |-> MCRows(<<>>)]]}

MCSql(types, pks, rs) ==
    [columns |-> [i \in 1..Len(types) |-> SqlColumn(<<a, b, c>>[i], types[i], pks[i])], rows |-> rs]
MCInteger(n) == Cell("integer", n)
MCString(t) == Cell("text", t)
MCKeyed ==
    MCSql(<<"INT64", "INTEGER", "TEXT">>, <<0, 1, 0>>,
          <<<<MCInteger(Span + 1), MCInteger(Span + 2), Cell("null", 0)>>>>)
MCDatabases ==
    {e :> MCKeyed,
     c :> MCSql(<<"INT_BOOL", "REAL", "TEXT">>, <<0, 0, 0>>,
                <<<<MCInteger(2), Cell("real", 7), MCString(e)>>>>),
     a :> MCSql(<<"INT", "DATETIME">>, <<1, 0>>, <<>>),
     a :> MCSql(<<"INT", "INT">>, <<1, 2>>, <<>>),
     a :> MCSql(<<"INT", "TEXT8">>, <<0, 0>>, <<<<MCInteger(1), Cell("blob", 0)>>>>)}
MCExclusions == {{}, {<<e, a>>}, {<<e, a>>, <<e, c>>}, {<<c, Star>>}}

(* gb-fdb, or a program without a database.                                *)
CONSTANT Another

MCInit ==
    \/ GbInit
    \/ Init /\ db = <<>> /\ conv = Resting /\ before = Another

MCNext ==
    \/ before # Another /\ GbNext
    \/ before = Another /\ Next /\ UNCHANGED gb

Other(A) == before = Another /\ A /\ UNCHANGED gb
MCSpec == MCInit /\ [][MCNext]_gbvars /\ GbFairness /\ WF_gbvars(Other(NextRow)) /\ WF_gbvars(Other(Look))
=============================================================================
