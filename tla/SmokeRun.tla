------------------------------- MODULE SmokeRun -------------------------------
(***************************************************************************)
(* scripts/run.sh: the loop over the cases of a directory, the temporary   *)
(* files it makes and removes, the normalisation of what a CLI printed,    *)
(* the verdicts and the exit status.  The CLI and the preprocessor are     *)
(* programs outside src/; they print and exit as they like, and `|| true`  *)
(* discards the exit status of the CLI.                                    *)
(*                                                                         *)
(* A line is a sequence of pieces: "5" and "7" are numbers, "text" a value *)
(* or an error that is no number, "[shim-" the head of a line of chatter,  *)
(* "D>" a prompt of the ducklink CLI, " " a blank.                         *)
(***************************************************************************)
EXTENDS Naturals, Sequences, FiniteSets, SequencesExt, Selection

Blank == " "

Piece == {"5", "7", "text", "[shim-", "D>", Blank}

CONSTANTS
    Targets,        \* those of "sqlite", "duckdb", "ducklink" to be run
    Cases,          \* number of .sql files, in the order of the glob
    Expectations,   \* contents of .expected files
    Outputs,        \* what a CLI may print
    NoFile

ASSUME SmokeAssumption ==
    /\ Targets \subseteq {"sqlite", "duckdb", "ducklink"}
    /\ Cases \in Nat /\ NoFile \notin Expectations \cup Outputs
    /\ Expectations \cup Outputs \subseteq Seq(Seq(Piece))

VARIABLES
    target,
    fixture,        \* per case: the .expected file or NoFile, and whether the
                    \* case goes through the preprocessor
    pc, at,         \* where the script is, and the number of the case
    tmp,            \* the temporary files: <<kind, case>>
    printed,        \* per case, what the CLI printed ($actual), else NoFile
    verdict,        \* per case, what the script reported
    fail,           \* $fail
    status          \* exit status, 2 while the script runs

smokeVars == <<target, fixture, pc, at, tmp, printed, verdict, fail, status>>

CaseNo == 1..Cases

TempKind == {"loader", "rewritten", "err", "norm", "actual", "norm_actual",
             "filtered", "norm_expected"}

Scratch == <<"scratch", 0>>

SmokeTypeOK ==
    /\ target \in Targets
    /\ fixture \in [CaseNo -> [expected: Expectations \cup {NoFile},
                               preprocess: BOOLEAN]]
    /\ pc \in {"next", "loader", "preprocess", "cli", "compare", "done", "dead"}
    /\ at \in 1..(Cases + 1)
    /\ tmp \subseteq (TempKind \X CaseNo) \cup {Scratch}
    /\ printed \in [CaseNo -> Outputs \cup {NoFile}]
    /\ verdict \in [CaseNo -> {"none", "skip", "pass", "fail"}]
    /\ fail \in 0..Cases /\ status \in {0, 1, 2}

\* The scratch directory of the extensions is made before the loop.
SmokeInit ==
    /\ target \in Targets
    /\ fixture \in [CaseNo -> [expected: Expectations \cup {NoFile},
                               preprocess: BOOLEAN]]
    /\ pc = "next" /\ at = 1
    /\ tmp = IF target = "ducklink" THEN {Scratch} ELSE {}
    /\ printed = [c \in CaseNo |-> NoFile]
    /\ verdict = [c \in CaseNo |-> "none"]
    /\ fail = 0 /\ status = 2

-----------------------------------------------------------------------------
(* Normalisation.                                                          *)

\* s/[[:space:]]*$//
StripTail(line) ==
    LET inked == {i \in DOMAIN line : line[i] # Blank}
    IN  IF inked = {} THEN << >> ELSE SubSeq(line, 1, Max(inked))

\* s/D> //g, then s/D>$//
DropPrompts(line) ==
    LET prompts == {i \in DOMAIN line : line[i] = "D>" /\
                       (i < Len(line) => line[i + 1] = Blank)}
    IN  Selected(line, DOMAIN line \ (prompts \cup {i + 1 : i \in prompts}))

HasFields(line) == \E i \in DOMAIN line : line[i] # Blank

\* awk: the lines behind the last one with a field are not printed.
DropTail(lines) ==
    LET full == {n \in DOMAIN lines : HasFields(lines[n])}
    IN  IF full = {} THEN << >> ELSE SubSeq(lines, 1, Max(full))

IsChatter(line) == line # << >> /\ line[1] = "[shim-"

NormActual(lines) ==
    LET stripped == [n \in DOMAIN lines |-> DropPrompts(StripTail(lines[n]))]
    IN  DropTail(Selected(stripped,
                          {n \in DOMAIN lines : ~IsChatter(stripped[n])}))

NormExpected(lines) == DropTail([n \in DOMAIN lines |-> StripTail(lines[n])])

IsNumber(line) == line \in {<<"5">>, <<"7">>}

\* The .expected file as it is, blanks at line ends included.
IsNumeric(lines) ==
    \A n \in DOMAIN lines : HasFields(lines[n]) => IsNumber(lines[n])

Whitelisted(on, expected) == on = "ducklink" /\ IsNumeric(expected)

Numbers(lines) == Selected(lines, {n \in DOMAIN lines : IsNumber(lines[n])})

\* Mutant of Compared: the whitelist does not depend on the expectation.
ComparedNumbersOnly(on, lines, expected) ==
    IF on = "ducklink" THEN Numbers(NormActual(lines)) ELSE NormActual(lines)

Compared(on, lines, expected) ==
    IF Whitelisted(on, expected) THEN Numbers(NormActual(lines))
    ELSE NormActual(lines)

\* Mutant of Passes: the expectation is compared as it stands in the file.
PassesRaw(on, lines, expected) == Compared(on, lines, expected) = expected

Passes(on, lines, expected) ==
    Compared(on, lines, expected) = NormExpected(expected)

-----------------------------------------------------------------------------
(* The loop.                                                               *)

NextCase ==
    /\ pc = "next" /\ at <= Cases
    /\ IF fixture[at].expected = NoFile
       THEN /\ verdict' = [verdict EXCEPT ![at] = "skip"]
            /\ at' = at + 1 /\ UNCHANGED pc
       ELSE pc' = "loader" /\ UNCHANGED <<verdict, at>>
    /\ UNCHANGED <<target, fixture, tmp, printed, fail, status>>

MakeLoader ==
    /\ pc = "loader"
    /\ tmp' = tmp \cup {<<"loader", at>>}
    /\ pc' = IF fixture[at].preprocess THEN "preprocess" ELSE "cli"
    /\ UNCHANGED <<target, fixture, at, printed, verdict, fail, status>>

\* Mutant of PreprocessFails: counted where it is reported and again later.
PreprocessFailsTwice ==
    /\ pc = "preprocess"
    /\ verdict' = [verdict EXCEPT ![at] = "fail"] /\ fail' = fail + 2
    /\ pc' = "next" /\ at' = at + 1
    /\ UNCHANGED <<target, fixture, tmp, printed, status>>

\* Mutant of PreprocessFails: reported, but not counted.
PreprocessFailsUncounted ==
    /\ pc = "preprocess"
    /\ verdict' = [verdict EXCEPT ![at] = "fail"]
    /\ pc' = "next" /\ at' = at + 1
    /\ UNCHANGED <<target, fixture, tmp, printed, fail, status>>

\* The rewritten file and its .err are removed, the loader's file is not.
PreprocessFails ==
    /\ pc = "preprocess"
    /\ verdict' = [verdict EXCEPT ![at] = "fail"] /\ fail' = fail + 1
    /\ pc' = "next" /\ at' = at + 1
    /\ UNCHANGED <<target, fixture, tmp, printed, status>>

\* sed and awk write the .norm file, which is moved over the rewritten one.
Preprocess ==
    /\ pc = "preprocess"
    /\ tmp' = tmp \cup {<<"rewritten", at>>}
    /\ pc' = "cli"
    /\ UNCHANGED <<target, fixture, at, printed, verdict, fail, status>>

RunCli ==
    /\ pc = "cli"
    /\ \E lines \in Outputs : printed' = [printed EXCEPT ![at] = lines]
    /\ tmp' = tmp \cup {<<"actual", at>>}
    /\ pc' = "compare"
    /\ UNCHANGED <<target, fixture, at, verdict, fail, status>>

\* Mutant of Compare: the loader's file stays.
CompareAndLeave ==
    /\ pc = "compare"
    /\ LET passed == Passes(target, printed[at], fixture[at].expected)
       IN  /\ verdict' = [verdict EXCEPT ![at] = IF passed THEN "pass" ELSE "fail"]
           /\ fail' = IF passed THEN fail ELSE fail + 1
    /\ tmp' = tmp \ {<<"actual", at>>}
    /\ pc' = "next" /\ at' = at + 1
    /\ UNCHANGED <<target, fixture, printed, status>>

\* The three files made here, the loader's and the output are removed; the
\* rewritten script is not.
Compare ==
    /\ pc = "compare"
    /\ LET passed == Passes(target, printed[at], fixture[at].expected)
       IN  /\ verdict' = [verdict EXCEPT ![at] = IF passed THEN "pass" ELSE "fail"]
           /\ fail' = IF passed THEN fail ELSE fail + 1
    /\ tmp' = tmp \ ({"loader", "actual"} \X {at})
    /\ pc' = "next" /\ at' = at + 1
    /\ UNCHANGED <<target, fixture, printed, status>>

\* The trap on EXIT removes the scratch directory.
Exit(code, to) ==
    /\ pc' = to /\ status' = code
    /\ tmp' = tmp \ {Scratch}
    /\ UNCHANGED <<target, fixture, at, printed, verdict, fail>>

Report ==
    /\ pc = "next" /\ at > Cases
    /\ Exit(IF fail > 0 THEN 1 ELSE 0, "done")

\* set -e: a mktemp, mv, cat or sed that fails ends the script, with what the
\* case has made so far: the files of its current step, or some of them.
StepFiles ==
    CASE pc = "loader" -> {"loader"}
      [] pc = "preprocess" -> {"rewritten", "err", "norm"}
      [] pc = "cli" -> {"actual"}
      [] pc = "compare" -> {"norm_actual", "filtered", "norm_expected"}
      [] OTHER -> {}

CommandFails ==
    /\ pc \in {"loader", "preprocess", "cli", "compare"}
    /\ pc' = "dead" /\ status' = 1
    /\ \E made \in SUBSET StepFiles :
          tmp' = (tmp \ {Scratch}) \cup (made \X {at})
    /\ UNCHANGED <<target, fixture, at, printed, verdict, fail>>

SmokeNext ==
    \/ NextCase \/ MakeLoader \/ PreprocessFails \/ Preprocess \/ RunCli
    \/ Compare \/ Report \/ CommandFails

SmokeSpec == SmokeInit /\ [][SmokeNext]_smokeVars

-----------------------------------------------------------------------------

(***************************************************************************)
(* The exit status is 0 exactly when the loop came to its end and no case  *)
(* failed, by the preprocessor or by its output: a case whose .expected is *)
(* missing does not count, a directory without cases is a success, and a   *)
(* script that broke off is none.  ("Exit non-zero on any mismatch",       *)
(* run.sh:26, 315-326, 513-535)                                            *)
(***************************************************************************)
StatusTellsVerdicts ==
    /\ pc = "done" =>
          /\ status = 0 <=> \A c \in CaseNo : verdict[c] # "fail"
          /\ \A c \in CaseNo :
                IF fixture[c].expected = NoFile THEN verdict[c] = "skip"
                ELSE verdict[c] \in {"pass", "fail"}
    /\ pc = "dead" => status # 0

IsSubsequence(small, large) ==
    \E place \in [DOMAIN small -> DOMAIN large] :
        /\ \A i, j \in DOMAIN small : i < j => place[i] < place[j]
        /\ \A i \in DOMAIN small : small[i] = large[place[i]]

(***************************************************************************)
(* A pass is an output that shows every expected line, in order, and no    *)
(* line that is not expected, chatter and prompts apart.  Only ducklink    *)
(* with an expectation of numbers hides lines: what is no number, errors   *)
(* included, so that an empty expectation passes there whatever fails.     *)
(* (run.sh:451-524)                                                        *)
(***************************************************************************)
PassShowsExpected ==
    \A c \in CaseNo : verdict[c] = "pass" =>
        LET shown == NormActual(printed[c])
            wanted == NormExpected(fixture[c].expected)
        IN  /\ IsSubsequence(wanted, shown)
            /\ \A n \in DOMAIN shown :
                  HasFields(shown[n]) /\ shown[n] \notin ToSet(wanted) =>
                      /\ target = "ducklink" /\ IsNumeric(fixture[c].expected)
                      /\ ~IsNumber(shown[n])

\* Blanks put behind a line, an empty line behind the last one.
HandEdits(lines) ==
    {[lines EXCEPT ![n] = Append(@, Blank)] : n \in DOMAIN lines}
        \cup {Append(lines, << >>), Append(lines, <<Blank>>)}

HasGap(lines) == \E n \in DOMAIN lines : ~HasFields(lines[n])

(***************************************************************************)
(* "Strip trailing whitespace per line + trailing empty lines so .expected *)
(* files can be hand-edited without breaking the comparison": an edit that *)
(* adds blanks changes no verdict on sqlite and duckdb.  On ducklink it    *)
(* does, since the whitelist tests the file as it stands: a case that      *)
(* passed may break; and one that failed passes only if there is an empty  *)
(* line between its numbers, which the whitelist leaves in no output, so   *)
(* that it could not pass before.  (run.sh:451-453, 493, 507)              *)
(***************************************************************************)
HandEditsChangeNothing ==
    \A c \in CaseNo : printed[c] # NoFile =>
        LET expected == fixture[c].expected IN
        \A edited \in HandEdits(expected) :
            LET before == Passes(target, printed[c], expected)
                after == Passes(target, printed[c], edited)
            IN  \/ before <=> after
                \/ /\ Whitelisted(target, expected) /\ ~IsNumeric(edited)
                   /\ after => HasGap(NormExpected(expected))

(***************************************************************************)
(* The scratch directory goes however the script exits, and a script that  *)
(* comes to its end leaves just what preprocessing leaves: the rewritten   *)
(* script of a case that was run, the loader's file of one whose           *)
(* preprocessing failed.  ("Ensure cleanup even if the script exits        *)
(* mid-loop", run.sh:192-193, 293, 314-325, 399-401, 526)                  *)
(***************************************************************************)
LeftoversAreOfPreprocessing ==
    /\ pc \in {"done", "dead"} => Scratch \notin tmp
    /\ pc = "done" =>
          tmp = {<<IF printed[c] = NoFile THEN "loader" ELSE "rewritten", c>> :
                    c \in {d \in CaseNo : /\ fixture[d].expected # NoFile
                                          /\ fixture[d].preprocess}}
=============================================================================
