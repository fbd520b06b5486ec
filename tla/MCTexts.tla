------------------------------- MODULE MCTexts -------------------------------
(***************************************************************************)
(* The text algorithms over all short inputs: a text grows by one part at  *)
(* a time, and each property is an invariant of the texts of its kind.     *)
(***************************************************************************)
EXTENDS SqlText, SelectList, EchoIndex, SmokeScript

CONSTANTS Q1, Q2, D1, D2

ASSUME BlocksAssumption == {Q1, Q2} \subseteq Key /\ {D1, D2} \subseteq Datum

VARIABLES
    kind,       \* what the text is
    text,
    parts       \* how many parts it has

textVars == <<kind, text, parts>>

\* A regress script: quotes, dollar tags, comments, lines, bytes above 0x7F.
MCScriptParts ==
    {<<"'">>, <<"$">>, <<"-", "-">>, <<"/", "*">>, <<"*">>, <<"/">>, <<";">>,
     <<"LF">>, <<"a">>, <<"high">>}

\* What follows SELECT.
MCListTokens ==
    {"'", "(", ")", ",", "st_f", "st_parse", "WKT", "::text", "FROM", "ORDER BY",
     "wide"}

\* The same in a row that was migrated, with comments.
MCRowTokens == {"'", "WKT", "::text", "wide", "--", "LF", "/*", "*/"}

\* A label is a part of a list; having none is told from every label.
ASSUME NoLabelAssumption == NoLabel \notin Seq(MCListTokens)

Block(of, key, rows) == [kind |-> of, key |-> key, rows |-> rows]

\* No row, one row, a blank one, one and a blank one, two; a second SELECT.
MCBlocks ==
    {Block("answered", Q1, rows) :
        rows \in {<< >>, <<D1>>, <<D2>>, <<NoRow>>, <<D1, NoRow>>, <<D1, D2>>}}
    \cup {Block(of, Q1, <<D1>>) :
             of \in {"wrapped", "noted", "noticed", "failed", "silent"}}
    \cup {Block("answered", Q2, <<D2>>)}
    \cup {Block(of, NoRow, << >>) : of \in {"other", "comment", "meta"}}

\* The preprocessor's output.
MCScriptChars == {"'", ";", "LF", " ", "a"}

TextInit ==
    /\ kind \in {"regress", "list", "row", "out", "smoke"}
    /\ text = << >> /\ parts = 0

Grow(of, most, pieces) ==
    /\ kind = of /\ parts < most
    /\ \E piece \in pieces : text' = text \o piece
    /\ parts' = parts + 1
    /\ UNCHANGED kind

GrowRegress == Grow("regress", 6, MCScriptParts)

GrowList == Grow("list", 5, {<<token>> : token \in MCListTokens})

\* An LF stands at the end of a line comment only.
GrowRow ==
    /\ Grow("row", 6, {<<token>> : token \in MCRowTokens})
    /\ Last(text') = "LF" => StateAt(text, Len(text) + 1).in = "line"

GrowOut == Grow("out", 4, {<<block>> : block \in MCBlocks})

GrowSmoke == Grow("smoke", 7, {<<c>> : c \in MCScriptChars})

TextNext == GrowRegress \/ GrowList \/ GrowRow \/ GrowOut \/ GrowSmoke

TextSpec == TextInit /\ [][TextNext]_textVars

-----------------------------------------------------------------------------

\* strip_comments and split_statements (parse.rs:34-245) find the statements
\* of the file, with their lines.
SplitFindsStatements == kind = "regress" => PassesAgree(text)

\* A probe (main.rs:384-396) calls the functions of its statement and has the
\* columns of the expected row.
ProbesFitCases == kind = "list" => ProbeFitsItsCase(text)

\* Rows that inject_geometry_casts (preprocess.rs:120-250) is applied to
\* again do not change.
CastingIsIdempotent == kind \in {"list", "row"} => CastingAgainIsNoChange(text)

\* A row build_echo_index (main.rs:773-877) binds to a SELECT is the only row
\* it returned.
EchoesBindOwnRows == kind = "out" => BoundRowsAreOwn(text)

\* A script rewritten by run.sh:358-398 has its statements, if no literal holds
\* a semicolon.
RewriteKeepsStatements == kind = "smoke" => StatementsSurvive(text)

\* A script folded for ducklink (run.sh:327-398) has a statement per line.
FoldedLinesDispatch == kind = "smoke" => OneStatementPerLine(text)
=============================================================================
