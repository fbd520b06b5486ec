---------------------------- MODULE MCCaseImport ----------------------------
(***************************************************************************)
(* Two functions, the second unknown to the catalog, and two corpora of    *)
(* two files.  Two statements of file "a" share their line and function,   *)
(* so they claim one key; others call a function twice.                    *)
(***************************************************************************)
EXTENDS CaseImport

MCCatalogLeaf == 1 :> "leaf:editors" @@ 2 :> None
MCBulkLeaf == "a" :> "leaf:affine" @@ "b" :> None

Select(stem, line, calls) ==
    [stem |-> stem, line |-> line, calls |-> calls, pgOnly |-> FALSE,
     fixtureBad |-> FALSE, expected |-> "row"]

First == Select("a", 1, <<1>>)
Shadow == [Select("a", 1, <<1>>) EXCEPT !.pgOnly = TRUE]
Several == [Select("b", 4, <<1, 2, 1>>) EXCEPT !.fixtureBad = TRUE]
NoRow == [Select("b", 9, <<2>>) EXCEPT !.expected = "none"]
Added == Select("a", 7, <<2, 1, 2>>)

MCCorpora == {<<First, Shadow, Several>>, <<Shadow, First, Added, NoRow>>}
=============================================================================
