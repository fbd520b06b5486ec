----------------------------- MODULE SmokeScript -----------------------------
(***************************************************************************)
(* What run.sh makes of the preprocessor's output before a CLI reads it    *)
(* from stdin: sed breaks the lines behind semicolons, awk gives every     *)
(* line outside a literal its semicolon and, for ducklink, folds a literal *)
(* that goes over lines into one line, each newline spliced in as a        *)
(* concatenation.  A script is a sequence of characters.                   *)
(***************************************************************************)
EXTENDS Naturals, Sequences, SequencesExt, Selection

\* The literal is closed, a newline concatenated, and a literal opened.
Splice == "' || chr(10) || '"

Space == " "

\* The first position behind the n-th of some ends.
After(ends, n) == IF n = 1 THEN 1 ELSE ends[n - 1] + 1

\* The lines of a text; a final newline ends the last one.
LinesOfText(t) ==
    LET newlines == {i \in DOMAIN t : t[i] = "LF"}
        ends == InOrder(IF t = << >> \/ Len(t) \in newlines THEN newlines
                        ELSE newlines \cup {Len(t) + 1})
    IN  [n \in DOMAIN ends |-> SubSeq(t, After(ends, n), ends[n] - 1)]

\* sed -e 's/;[[:space:]]*/;\n/g' on a line: a line for each semicolon, and
\* what is behind the last one.
BreakLine(line) ==
    LET ends == InOrder({i \in DOMAIN line : line[i] = ";"} \cup {Len(line) + 1})
        First(n) ==
          IF n = 1 THEN 1
          ELSE Min({i \in After(ends, n)..ends[n] :
                       i = Len(line) + 1 \/ line[i] # Space})
    IN  [n \in DOMAIN ends |->
            SubSeq(line, First(n), Min({ends[n], Len(line)}))]

\* Mutant of SedLines: no line is broken.
SedLinesUnbroken(t) == LinesOfText(t)

SedLines(t) ==
    LET lines == LinesOfText(t)
    IN  FlattenSeq([n \in DOMAIN lines |-> BreakLine(lines[n])])

Quotes(text) == Cardinality({i \in DOMAIN text : text[i] = "'"})

\* A line without fields: NF is 0.
IsBlank(line) == \A i \in DOMAIN line : line[i] = Space

IsTerminated(text) ==
    \E i \in DOMAIN text :
        text[i] = ";" /\ \A j \in (i + 1)..Len(text) : text[j] = Space

Terminated(text) == IF IsTerminated(text) THEN text ELSE Append(text, ";")

\* Mutant of AwkLine: the line is terminated wherever it ends.
AwkLineTerminated(awk, line, fold) ==
    LET inside == (Quotes(line) % 2 = 0) = awk.inStr
        text == IF fold /\ awk.inStr THEN awk.buf \o <<Splice>> \o line ELSE line
    IN  IF ~awk.inStr /\ IsBlank(line) THEN awk
        ELSE [inStr |-> inside,
              buf |-> IF fold /\ inside THEN text ELSE << >>,
              out |-> IF fold /\ inside THEN awk.out
                      ELSE Append(awk.out, Terminated(text))]

\* One record of the awk program.  A doubled quote turns in_str off and on
\* again, or is skipped: inside is the parity of the quotes either way.
AwkLine(awk, line, fold) ==
    LET inside == (Quotes(line) % 2 = 0) = awk.inStr
        text == IF fold /\ awk.inStr THEN awk.buf \o <<Splice>> \o line ELSE line
    IN  IF ~awk.inStr /\ IsBlank(line) THEN awk
        ELSE [inStr |-> inside,
              buf |-> IF fold /\ inside THEN text ELSE << >>,
              out |-> IF fold /\ inside THEN awk.out
                      ELSE Append(awk.out,
                                  IF inside THEN text ELSE Terminated(text))]

\* The lines the CLI reads.
Rewrite(t, fold) ==
    LET lines == SedLines(t)
        awk[n \in 0..Len(lines)] ==
          IF n = 0 THEN [inStr |-> FALSE, buf |-> << >>, out |-> << >>]
          ELSE AwkLine(awk[n - 1], lines[n], fold)
        end == awk[Len(lines)]
    IN  IF end.buf = << >> THEN end.out ELSE Append(end.out, Terminated(end.buf))

-----------------------------------------------------------------------------

Inside(t, i) == Quotes(SubSeq(t, 1, i - 1)) % 2 = 1

\* The preprocessor prints statements on one line: newlines, like anything
\* else of the source, only inside literals, and every literal closed.
Reprinted(t) ==
    /\ Quotes(t) % 2 = 0
    /\ \A i \in DOMAIN t : t[i] = "LF" => Inside(t, i)

\* Statements of a text, their literals as the SQL parser of a CLI sees them.
StatementsRead(t) ==
    LET value == [i \in DOMAIN t |-> IF t[i] = Splice THEN "LF" ELSE t[i]]
        cuts == {i \in DOMAIN value : value[i] = ";" /\ ~Inside(value, i)}
        ends == cuts \cup {Len(value) + 1}
        inked == {i \in DOMAIN value \ cuts : value[i] # Space /\
                                  (value[i] = "LF" => Inside(value, i))}
        Text(end) ==
          LET own == {i \in inked : i < end /\ \A c \in cuts : c < end => c < i}
          IN  IF own = {} THEN << >> ELSE SubSeq(value, Min(own), Max(own))
        order == InOrder(ends)
        texts == [n \in DOMAIN order |-> Text(order[n])]
    IN  Selected(texts, {n \in DOMAIN texts : texts[n] # << >>})

\* The lines as one stream.
Stream(lines) == FlattenSeq([n \in DOMAIN lines |-> Append(lines[n], "LF")])

\* The statements the CLI executes are those of the script.
SameStatements(t) ==
    \A fold \in BOOLEAN :
        StatementsRead(Stream(Rewrite(t, fold))) = StatementsRead(t)

(***************************************************************************)
(* The CLI executes the statements of the script with their literals as    *)
(* they were, those over several lines included, on every target, as long  *)
(* as no literal holds a semicolon.  (run.sh:337-353, 358-398)             *)
(***************************************************************************)
StatementsSurvive(t) ==
    Reprinted(t) /\ (\A i \in DOMAIN t : t[i] = ";" => ~Inside(t, i)) =>
        SameStatements(t)

(***************************************************************************)
(* ducklink executes what one line of stdin holds, and only if it ends in  *)
(* a semicolon: a folded script has one whole statement on each line.      *)
(* (run.sh:329-335)                                                        *)
(***************************************************************************)
OneStatementPerLine(t) ==
    Reprinted(t) =>
        \A line \in ToSet(Rewrite(t, TRUE)) :
            /\ Quotes(line) % 2 = 0 /\ IsTerminated(line)
            /\ Len(StatementsRead(line)) <= 1
=============================================================================
