-------------------------------- MODULE Probe --------------------------------
(***************************************************************************)
(* One case executed (runner.rs, execute_probe): the harness writes the    *)
(* whole script into ducklink's stdin, only then closes it and drains      *)
(* stdout and stderr, and then makes one `actual` of what it has read.     *)
(* The three pipes hold Cap units each; a unit is a piece of the script or *)
(* a line.  The child is external: it reads, writes and exits as it likes. *)
(***************************************************************************)
EXTENDS Naturals, Sequences, SequencesExt

CONSTANTS
    Cap,            \* capacity of a pipe
    MaxScript,      \* bound on the length of a script
    MaxLines,       \* bound on the lines a child writes
    Value           \* data rows a query may print

\* What execute_probe and a batch put for an `actual` they do not have.
Diagnostics ==
    {"ERROR: probe-spawn", "ERROR: exit", "ERROR: internal error",
     "ERROR: exit=Some(0)"}

\* No case expects a diagnostic of the harness.
ASSUME ProbeAssumption ==
    /\ {Cap, MaxScript, MaxLines} \subseteq Nat \ {0}
    /\ Value \cap {"", "chatter", "error", "internal"} = {}
    /\ Value \cap Diagnostics = {}

VARIABLES
    caller,         \* "run" or "batch"
    expected,       \* expected output of the case
    script,         \* its length
    pc,             \* of the harness
    unsent,         \* script units not yet in the stdin pipe
    stdin,          \* units in the stdin pipe
    eof,            \* whether the harness has closed stdin
    wrote,          \* per stream, the lines the child has written
    pipe,           \* per stream, how many of them wait in the pipe
    child,          \* [pc, next: the line it is blocked on, code]
    row             \* status of the test_runs row, or "none"

vars == <<caller, expected, script, pc, unsent, stdin, eof, wrote, pipe,
          child, row>>

Stream == {"stdout", "stderr"}

\* Prompts, banners, box drawing and [extension-*] lines are chatter.
Line(s) == {"chatter", "error", "internal"} \cup
           (IF s = "stdout" THEN Value ELSE {})

Unspawned == [pc |-> "unborn", next |-> <<>>, code |-> 0]

TypeOK ==
    /\ caller \in {"run", "batch"} /\ expected \in Value \cup {""}
    /\ script \in 1..MaxScript /\ unsent \in 0..script /\ stdin \in 0..Cap
    /\ pc \in {"spawn", "write", "wait", "returned"}
    /\ eof \in BOOLEAN
    /\ \A s \in Stream : wrote[s] \in Seq(Line(s)) /\ pipe[s] \in 0..Cap
    /\ child.pc \in {"unborn", "running", "exited"} /\ child.code \in {0, 1}
    /\ row \in {"none", "pass", "fail"}

Init ==
    /\ caller \in {"run", "batch"} /\ expected \in Value \cup {""}
    /\ script \in 1..MaxScript /\ unsent = script /\ stdin = 0
    /\ pc = "spawn" /\ eof = FALSE /\ row = "none"
    /\ wrote = [s \in Stream |-> <<>>] /\ pipe = [s \in Stream |-> 0]
    /\ child = Unspawned

Lines == Len(wrote["stdout"]) + Len(wrote["stderr"])

-----------------------------------------------------------------------------
(* The harness.                                                            *)

Printed(kind) == \E s \in Stream : Contains(wrote[s], kind)

RowsOf(lines) == SelectSeq(lines, LAMBDA l : l \in Value)

DataRows == RowsOf(wrote["stdout"])

LastRow == IF DataRows = <<>> THEN "" ELSE Last(DataRows)

\* Mutant of Actual: the exit status is not looked at.
ActualOfAnyExit ==
    IF Printed("internal") THEN "ERROR: internal error"
    ELSE IF Printed("error") THEN "ERROR: exit=Some(0)"
    ELSE LastRow

\* What becomes of the output, the exit status first.
Actual ==
    IF child.code # 0 THEN "ERROR: exit"
    ELSE IF Printed("internal") THEN "ERROR: internal error"
    ELSE IF Printed("error") THEN "ERROR: exit=Some(0)"
    ELSE LastRow

Record(actual) == row' = IF actual = expected THEN "pass" ELSE "fail"

\* Mutant of Fail: a batch, too, goes on without a row.
FailSilently == pc' = "returned" /\ row' = row

\* An Err of execute_probe ends `run` through `?` without a row; a batch
\* records "ERROR: probe-spawn".
Fail ==
    /\ pc' = "returned"
    /\ IF caller = "batch" THEN Record("ERROR: probe-spawn") ELSE row' = row

Spawn ==
    /\ pc = "spawn"
    /\ \/ pc' = "write" /\ child' = [child EXCEPT !.pc = "running"] /\ row' = row
       \/ Fail /\ child' = child
    /\ UNCHANGED <<caller, expected, script, unsent, stdin, eof, wrote, pipe>>

\* Mutant of WriteScript: the pipe is never full.
WriteScriptUnbounded ==
    /\ pc = "write" /\ unsent > 0
    /\ unsent' = unsent - 1 /\ stdin' = stdin + 1
    /\ UNCHANGED <<caller, expected, script, pc, eof, wrote, pipe, child, row>>

\* write_all: it waits for room, and fails once nobody reads the pipe.
WriteScript ==
    /\ pc = "write" /\ unsent > 0
    /\ IF child.pc = "exited"
       THEN Fail /\ UNCHANGED <<unsent, stdin>>
       ELSE /\ stdin < Cap
            /\ unsent' = unsent - 1 /\ stdin' = stdin + 1
            /\ UNCHANGED <<pc, row>>
    /\ UNCHANGED <<caller, expected, script, eof, wrote, pipe, child>>

\* Mutant of CloseStdin: the output is read while stdin is still open.
KeepStdinOpen ==
    /\ pc = "write" /\ unsent = 0
    /\ pc' = "wait"
    /\ UNCHANGED <<caller, expected, script, unsent, stdin, eof, wrote, pipe, child, row>>

\* wait_with_output drops stdin before it reads.
CloseStdin ==
    /\ pc = "write" /\ unsent = 0
    /\ pc' = "wait" /\ eof' = TRUE
    /\ UNCHANGED <<caller, expected, script, unsent, stdin, wrote, pipe, child, row>>

Drain ==
    /\ pc = "wait"
    /\ \E s \in Stream :
        /\ pipe[s] > 0
        /\ pipe' = [pipe EXCEPT ![s] = @ - 1]
    /\ UNCHANGED <<caller, expected, script, pc, unsent, stdin, eof, wrote, child, row>>

\* Both streams are at their end and the child is reaped.
Return ==
    /\ pc = "wait" /\ child.pc = "exited"
    /\ \A s \in Stream : pipe[s] = 0
    /\ pc' = "returned" /\ Record(Actual)
    /\ UNCHANGED <<caller, expected, script, unsent, stdin, eof, wrote, pipe, child>>

-----------------------------------------------------------------------------
(* ducklink.                                                               *)

Idling == child.pc = "running" /\ child.next = <<>>

ChildRead ==
    /\ Idling /\ stdin > 0
    /\ stdin' = stdin - 1
    /\ UNCHANGED <<caller, expected, script, pc, unsent, eof, wrote, pipe, child, row>>

ChildPrint ==
    /\ Idling /\ Lines < MaxLines
    /\ \E s \in Stream : \E l \in Line(s) : child' = [child EXCEPT !.next = <<s, l>>]
    /\ UNCHANGED <<caller, expected, script, pc, unsent, stdin, eof, wrote, pipe, row>>

\* A write blocks while the pipe is full.
ChildWrite ==
    /\ child.pc = "running" /\ child.next # <<>>
    /\ LET s == child.next[1] IN
        /\ pipe[s] < Cap
        /\ pipe' = [pipe EXCEPT ![s] = @ + 1]
        /\ wrote' = [wrote EXCEPT ![s] = Append(@, child.next[2])]
    /\ child' = [child EXCEPT !.next = <<>>]
    /\ UNCHANGED <<caller, expected, script, pc, unsent, stdin, eof, row>>

\* At the end of its input the child leaves with 0; it may bail out earlier.
ChildExit ==
    /\ Idling /\ eof /\ stdin = 0
    /\ child' = [child EXCEPT !.pc = "exited"]
    /\ UNCHANGED <<caller, expected, script, pc, unsent, stdin, eof, wrote, pipe, row>>

ChildBailOut ==
    /\ Idling
    /\ child' = [child EXCEPT !.pc = "exited", !.code = 1]
    /\ UNCHANGED <<caller, expected, script, pc, unsent, stdin, eof, wrote, pipe, row>>

Harness == Spawn \/ WriteScript \/ CloseStdin \/ Drain \/ Return

Child == ChildRead \/ ChildPrint \/ ChildWrite \/ ChildExit \/ ChildBailOut

Next == Harness \/ Child

Spec == Init /\ [][Next]_vars

\* The harness runs on; ducklink reads its input, writes what it set out to
\* write and leaves at the end of the input: it does not hang by itself.
FairSpec ==
    /\ Spec
    /\ WF_vars(Harness)
    /\ WF_vars(ChildRead \/ ChildWrite \/ ChildExit)
-----------------------------------------------------------------------------

(***************************************************************************)
(* A case passes only on the whole output of a ducklink that left with 0   *)
(* and reported no error on either stream, however the two streams and the *)
(* exit were interleaved; an empty expectation is met by printing no row,  *)
(* never by a child that died or could not be fed.  (runner.rs:851-948)    *)
(***************************************************************************)
PassIsEarned ==
    row = "pass" =>
        /\ child.pc = "exited" /\ child.code = 0 /\ unsent = 0
        /\ \A s \in Stream : pipe[s] = 0
        /\ ~Printed("error") /\ ~Printed("internal")
        /\ LastRow = expected

(***************************************************************************)
(* A probe that is over has its row, whatever happened to ducklink; `run`  *)
(* alone goes without one, and only when ducklink could not be started or  *)
(* was gone before it had been sent the script.  (runner.rs:196-205,       *)
(* 504-514, 851-857)                                                       *)
(***************************************************************************)
NoSilentCase ==
    pc = "returned" /\ row = "none" =>
        caller = "run" /\ (child.pc = "unborn" \/ unsent > 0)

\* The script and the output both outgrow their pipes and each side waits
\* for the other to read.
Wedged ==
    /\ pc = "write" /\ unsent > 0 /\ stdin = Cap
    /\ child.pc = "running" /\ child.next # <<>> /\ pipe[child.next[1]] = Cap

(***************************************************************************)
(* Without a timeout a probe still comes to an end, but for one cause: the *)
(* harness writes all of a script longer than a pipe before it reads any   *)
(* of an output longer than a pipe.  (runner.rs:854-858)                   *)
(***************************************************************************)
OnlyAWedgeHangs == <>(pc = "returned" \/ Wedged)

(***************************************************************************)
(* "If the child bailed out ... fold it into `actual` as an ERROR string   *)
(* so the test_runs row carries a diagnostic" (runner.rs:864-868): a child *)
(* that left with a non-zero status has a row.                             *)
(***************************************************************************)
BailOutHasRow == pc = "returned" /\ child.code # 0 => row # "none"
=============================================================================
