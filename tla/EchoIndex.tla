------------------------------ MODULE EchoIndex ------------------------------
(***************************************************************************)
(* build_echo_index (regress-scraper main.rs): the aligned .out file psql  *)
(* wrote for a regress script becomes a map from echoed SELECTs to their   *)
(* data rows, from which the expected outputs of the cases are taken.      *)
(*                                                                         *)
(* psql and its output are outside src/: a block is one statement with     *)
(* what psql printed for it, and a file is a sequence of blocks.           *)
(***************************************************************************)
EXTENDS Naturals, Sequences, SequencesExt

CONSTANTS
    Key,        \* texts of SELECTs
    Datum,      \* rows, but for the blank one
    NoRow       \* no row is bound to a SELECT

ASSUME EchoAssumption == NoRow \notin Key \cup Datum

TextLine(kind, text) == [kind |-> kind, text |-> text]

Line(kind) == TextLine(kind, kind)

\* Lines of a rowset; a NULL in a single column is a blank line.
Rowset(rows) ==
    <<Line("header"), Line("dashes")>>
        \o [r \in DOMAIN rows |-> IF rows[r] = NoRow THEN Line("blank")
                                  ELSE TextLine("row", rows[r])]
        \o <<Line("count"), Line("blank")>>

(***************************************************************************)
(* What psql prints for a statement:                                       *)
(*   answered  SELECT k; and its rows                                      *)
(*   wrapped   the same with the echo on two lines                         *)
(*   noted     the same with a comment behind the semicolon                *)
(*   failed    SELECT k; and an ERROR                                      *)
(*   noticed   SELECT k;, a NOTICE and its rows                            *)
(*   silent    SELECT k INTO ...; prints nothing but its echo              *)
(*   other     a statement that is no SELECT, without output               *)
(*   comment, meta   lines of the script that are echoed                   *)
(***************************************************************************)
Printed(block) ==
    CASE block.kind = "answered" ->
            <<TextLine("select", block.key)>> \o Rowset(block.rows)
      [] block.kind = "wrapped" ->
            <<TextLine("open", block.key), TextLine("close", block.key)>>
                \o Rowset(block.rows)
      [] block.kind = "noted" ->
            <<TextLine("noted", block.key)>> \o Rowset(block.rows)
      [] block.kind = "failed" ->
            <<TextLine("select", block.key), Line("diagnostic")>>
      [] block.kind = "noticed" ->
            <<TextLine("select", block.key), Line("diagnostic")>>
                \o Rowset(block.rows)
      [] block.kind = "silent" -> <<TextLine("select", block.key)>>
      [] OTHER -> <<Line(block.kind)>>

OutFile(blocks) == FlattenSeq([b \in DOMAIN blocks |-> Printed(blocks[b])])

-----------------------------------------------------------------------------
(* The code.                                                               *)

StartsSelect(line) == line.kind \in {"select", "open", "noted"}

EndsStatement(line) == line.kind \in {"select", "close", "other"}

\* The least of a set of positions, or the position behind the file.
FirstOf(lines, positions) ==
    IF positions = {} THEN Len(lines) + 1 ELSE Min(positions)

\* The echo that starts at i goes on to a line that ends with a semicolon.
EchoEnd(lines, i) ==
    FirstOf(lines, {j \in i..Len(lines) : EndsStatement(lines[j])})

\* The joined lines are a statement's text only where nothing else is in
\* between.
EchoKey(lines, i) ==
    LET echo == SubSeq(lines, i, Min({EchoEnd(lines, i), Len(lines)}))
        kinds == [n \in DOMAIN echo |-> echo[n].kind]
    IN  IF kinds \in {<<"select">>, <<"open", "close">>} THEN echo[1].text
        ELSE NoRow

\* What is bound to an echo that ends at a line: the one line of data up to
\* the row count or the end of the file.  A diagnostic, another SELECT or a
\* psql command in its way means that there is nothing to bind.
BoundRow(lines, end) ==
    LET top == FirstOf(lines, {k \in (end + 1)..Len(lines) :
                                  lines[k].kind # "blank"})
        body == IF top < Len(lines) /\ lines[top + 1].kind \in {"dashes", "blank"}
                THEN top + 2 ELSE top + 1
        stop == FirstOf(lines, {k \in body..Len(lines) :
                                   \/ lines[k].kind \in {"count", "diagnostic", "meta"}
                                   \/ StartsSelect(lines[k])})
        data == {k \in body..(stop - 1) : lines[k].kind # "blank"}
    IN  IF \/ top > Len(lines) \/ StartsSelect(lines[top])
           \/ lines[top].kind \in {"diagnostic", "comment", "meta"}
           \/ stop <= Len(lines) /\ lines[stop].kind # "count"
           \/ Cardinality(data) # 1
        THEN NoRow ELSE lines[Min(data)].text

\* The lines at which the scan finds an echo to start: after each line, those
\* seen so far.  The lines of an echo are not looked at again.
EchoStarts(lines) ==
    LET seen[n \in 0..Len(lines)] ==
          IF n = 0 THEN {}
          ELSE IF /\ StartsSelect(lines[n])
                  /\ \A i \in seen[n - 1] : EchoEnd(lines, i) < n
               THEN seen[n - 1] \cup {n} ELSE seen[n - 1]
    IN  seen[Len(lines)]

\* Mutant of Index: the last one wins.
IndexOfLast(lines) ==
    [k \in Key |->
        LET bound == {i \in EchoStarts(lines) :
                         /\ EchoKey(lines, i) = k
                         /\ BoundRow(lines, EchoEnd(lines, i)) # NoRow}
        IN  IF bound = {} THEN NoRow
            ELSE BoundRow(lines, EchoEnd(lines, Max(bound)))]

\* The first that gives a row wins.
Index(lines) ==
    [k \in Key |->
        LET bound == {i \in EchoStarts(lines) :
                         /\ EchoKey(lines, i) = k
                         /\ BoundRow(lines, EchoEnd(lines, i)) # NoRow}
        IN  IF bound = {} THEN NoRow
            ELSE BoundRow(lines, EchoEnd(lines, Min(bound)))]

-----------------------------------------------------------------------------

\* The statement was run, and the row it returned is the only one that is
\* not blank: its last line, which is what test-fn compares.
OnlyRow(block, row) ==
    /\ block.kind \in {"answered", "wrapped", "noted", "noticed"}
    /\ \E r \in DOMAIN block.rows :
          /\ block.rows[r] = row
          /\ \A q \in DOMAIN block.rows : block.rows[q] # NoRow <=> q = r

(***************************************************************************)
(* A row that is bound to a SELECT is one that this SELECT returned, and   *)
(* the only one it returned, wherever errors, notices, comments, psql      *)
(* commands and wrapped echoes stand, and of a SELECT that is repeated it  *)
(* is that of the first time that can be read.  It takes that each SELECT  *)
(* prints something: after a silent one (SELECT ... INTO) the next echo    *)
(* that is no SELECT is taken for a header and what follows for a row.     *)
(* (main.rs:773-877, runner.rs:926-948)                                    *)
(***************************************************************************)
BoundRowsAreOwn(blocks) ==
    LET index == Index(OutFile(blocks))
        Answers(b, k) ==
          /\ blocks[b].kind \in {"answered", "wrapped"} /\ blocks[b].key = k
          /\ \E row \in Datum : OnlyRow(blocks[b], row)
    IN  (\A b \in DOMAIN blocks : blocks[b].kind # "silent") =>
          \A k \in Key : index[k] # NoRow =>
              \E b \in DOMAIN blocks :
                  /\ Answers(b, k) /\ OnlyRow(blocks[b], index[k])
                  /\ \A e \in 1..(b - 1) :
                        Answers(e, k) => \E n \in 1..(e - 1) : blocks[n].kind = "noted"
=============================================================================
