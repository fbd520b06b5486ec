---------------------------- MODULE ProbeProofs -----------------------------
(***************************************************************************)
(* Theorems about Probe for pipes, scripts and outputs of any length: what *)
(* a pass is worth, and which probes end without a row.                    *)
(***************************************************************************)
EXTENDS Probe, TLAPS

\* A row is written when the probe is over; a child exists from the spawn on,
\* and waiting begins when all of the script has been sent.
Staged ==
    /\ caller \in {"run", "batch"} /\ expected \in Value \cup {""}
    /\ pc # "returned" => row = "none"
    /\ pc = "spawn" => child.pc = "unborn"
    /\ pc = "wait" => unsent = 0

PInv == Staged /\ PassIsEarned /\ NoSilentCase

-----------------------------------------------------------------------------

\* No case expects what the harness puts for an output it does not have.
LEMMA DiagnosticsFail ==
    ASSUME Staged, NEW d \in Diagnostics, Record(d)
    PROVE  row' = "fail"
<1>1. d \notin Value \cup {""}
  BY ProbeAssumption DEF Diagnostics
<1> QED
  BY <1>1 DEF Staged, Record

LEMMA FailHasNoPass ==
    ASSUME Staged, Fail, row = "none"
    PROVE  /\ pc' = "returned"
           /\ row' # "pass"
           /\ row' = "none" => caller = "run"
BY DiagnosticsFail DEF Fail, Diagnostics, Staged

\* A pass is the last thing that happens: the harness is done and so is the
\* child.
LEMMA PassIsLast ==
    ASSUME PInv, row = "pass", Next
    PROVE  FALSE
<1>1. pc = "returned" /\ child.pc = "exited"
  BY DEF PInv, Staged, PassIsEarned
<1>2. ~Harness
  BY <1>1 DEF Harness, Spawn, WriteScript, CloseStdin, Drain, Return
<1>3. ~Child
  BY <1>1 DEF Child, Idling, ChildRead, ChildPrint, ChildWrite, ChildExit,
              ChildBailOut
<1> QED
  BY <1>2, <1>3 DEF Next

\* A pass that Return records is earned.
LEMMA ReturnEarns ==
    ASSUME PInv, Return
    PROVE  Staged' /\ PassIsEarned' /\ NoSilentCase'
<1>1. row' \in {"pass", "fail"} /\ pc' = "returned"
  BY DEF Return, Record
<1>2. CASE row' = "pass"
  <2>1. Actual = expected
    BY <1>2 DEF Return, Record
  <2>2. expected \notin Diagnostics
    BY ProbeAssumption DEF PInv, Staged, Diagnostics
  <2>3. /\ child.code = 0 /\ ~Printed("internal") /\ ~Printed("error")
        /\ LastRow = expected
    BY <2>1, <2>2 DEF Actual, Diagnostics
  <2>4. /\ child' = child /\ unsent' = unsent /\ pipe' = pipe
        /\ wrote' = wrote /\ expected' = expected /\ caller' = caller
    BY DEF Return
  <2>5. Printed("error")' = Printed("error") /\ Printed("internal")' = Printed("internal")
    BY <2>4 DEF Printed
  <2>6. DataRows' = DataRows
    BY <2>4 DEF DataRows
  <2>7. LastRow' = LastRow
    BY <2>6 DEF LastRow
  <2>8. child.pc = "exited" /\ unsent = 0 /\ \A s \in Stream : pipe[s] = 0
    BY DEF Return, PInv, Staged
  <2> QED
    BY <1>1, <1>2, <2>3, <2>4, <2>5, <2>7, <2>8
    DEF PassIsEarned, Staged, NoSilentCase, PInv
<1>3. CASE row' = "fail"
  BY <1>1, <1>3 DEF PassIsEarned, Staged, NoSilentCase, Return, PInv
<1> QED
  BY <1>1, <1>2, <1>3

-----------------------------------------------------------------------------

LEMMA InitPInv == Init => PInv
<1> SUFFICES ASSUME Init PROVE PInv
  OBVIOUS
<1>1. row = "none" /\ pc = "spawn" /\ child.pc = "unborn"
  BY DEF Init, Unspawned
<1>2. caller \in {"run", "batch"} /\ expected \in Value \cup {""}
  BY DEF Init
<1> QED
  BY <1>1, <1>2 DEF PInv, Staged, PassIsEarned, NoSilentCase

LEMMA StepPInv == PInv /\ [Next]_vars => PInv'
<1> SUFFICES ASSUME PInv, [Next]_vars
             PROVE  PInv'
  OBVIOUS
<1>1. CASE UNCHANGED vars
  <2>1. /\ Printed("error")' = Printed("error")
        /\ Printed("internal")' = Printed("internal")
    BY <1>1 DEF vars, Printed
  <2>2. DataRows' = DataRows
    BY <1>1 DEF vars, DataRows
  <2>3. LastRow' = LastRow
    BY <2>2 DEF LastRow
  <2> QED
    BY <1>1, <2>1, <2>3 DEF vars, PInv, Staged, PassIsEarned, NoSilentCase
<1>2. CASE Next
  <2>1. row # "pass"
    BY <1>2, PassIsLast
  <2>2. CASE Return
    BY <2>2, ReturnEarns DEF PInv
  <2>3. CASE Spawn
    <3>1. CASE Fail
      <4>1. /\ pc' = "returned" /\ row' # "pass"
            /\ row' = "none" => caller = "run"
        BY <2>1, <2>3, <3>1, FailHasNoPass DEF Spawn, PInv, Staged
      <4>2. UNCHANGED <<caller, expected, unsent, child>>
        BY <2>3, <4>1 DEF Spawn
      <4> QED
        BY <2>3, <4>1, <4>2 DEF Spawn, PInv, Staged, PassIsEarned, NoSilentCase
    <3>2. CASE ~Fail
      BY <2>1, <2>3, <3>2 DEF Spawn, PInv, Staged, PassIsEarned, NoSilentCase
    <3> QED
      BY <3>1, <3>2
  <2>4. CASE WriteScript
    <3>1. CASE Fail
      <4>1. /\ pc' = "returned" /\ row' # "pass"
            /\ row' = "none" => caller = "run"
        BY <2>1, <2>4, <3>1, FailHasNoPass DEF WriteScript, PInv, Staged
      <4>2. UNCHANGED <<caller, expected, unsent, child>>
        BY <2>4, <4>1 DEF WriteScript
      <4> QED
        BY <2>4, <4>1, <4>2 DEF WriteScript, PInv, Staged, PassIsEarned, NoSilentCase
    <3>2. CASE ~Fail
      BY <2>1, <2>4, <3>2
      DEF WriteScript, PInv, Staged, PassIsEarned, NoSilentCase
    <3> QED
      BY <3>1, <3>2
  <2>5. CASE CloseStdin
    BY <2>1, <2>5 DEF CloseStdin, PInv, Staged, PassIsEarned, NoSilentCase
  <2>6. CASE Drain
    BY <2>1, <2>6 DEF Drain, PInv, Staged, PassIsEarned, NoSilentCase
  <2>7. CASE Child
    <3>1. child.pc = "running"
      BY <2>7 DEF Child, Idling, ChildRead, ChildPrint, ChildWrite, ChildExit,
                  ChildBailOut
    <3>2. UNCHANGED <<caller, expected, pc, unsent, row>>
      BY <2>7 DEF Child, ChildRead, ChildPrint, ChildWrite, ChildExit,
                  ChildBailOut
    <3> QED
      BY <2>1, <3>1, <3>2 DEF PInv, Staged, PassIsEarned, NoSilentCase
  <2> QED
    BY <1>2, <2>2, <2>3, <2>4, <2>5, <2>6, <2>7 DEF Next, Harness
<1> QED
  BY <1>1, <1>2

\* The inductive invariant holds of every behaviour.
LEMMA SpecPInv == Spec => []PInv
<1> QED
  BY InitPInv, StepPInv, PTL DEF Spec

(***************************************************************************)
(* However ducklink's reads, writes and exit fall between the steps of the *)
(* harness, a case passes only on all the output of a child that was fed   *)
(* its whole script, left with 0 and reported no error.  (PassIsEarned,    *)
(* runner.rs:851-948)                                                      *)
(***************************************************************************)
THEOREM PassesAreEarned == Spec => []PassIsEarned
<1>1. PInv => PassIsEarned
  BY DEF PInv
<1> QED
  BY <1>1, SpecPInv, PTL

(***************************************************************************)
(* A probe that is over has its row, but for a `run` whose ducklink could  *)
(* not be started or be sent its script.  (NoSilentCase, runner.rs:196-205,*)
(* 504-514)                                                                *)
(***************************************************************************)
THEOREM NoCaseIsSilent == Spec => []NoSilentCase
<1>1. PInv => NoSilentCase
  BY DEF PInv
<1> QED
  BY <1>1, SpecPInv, PTL

-----------------------------------------------------------------------------
(* Types.                                                                  *)

\* What the child may be blocked on: a line of one of its two streams.
Blocked == {<<>>} \cup UNION {{<<s, l>> : l \in Line(s)} : s \in Stream}

\* TypeOK says nothing of the domains of the two functions nor of the line
\* the child is blocked on, which is what it writes next.
Scalars ==
    /\ caller \in {"run", "batch"}
    /\ script \in 1..MaxScript /\ unsent \in 0..script /\ stdin \in 0..Cap
    /\ pc \in {"spawn", "write", "wait", "returned"}
    /\ row \in {"none", "pass", "fail"}

FlagAndText == eof \in BOOLEAN /\ expected \in Value \cup {""}

Streams ==
    /\ DOMAIN wrote = Stream /\ DOMAIN pipe = Stream
    /\ \A s \in Stream : wrote[s] \in Seq(Line(s)) /\ pipe[s] \in 0..Cap

ChildTyped ==
    child \in [pc: {"unborn", "running", "exited"}, next: Blocked,
               code: {0, 1}]

PTypes == Scalars /\ FlagAndText /\ Streams /\ ChildTyped

LEMMA Bounds == Cap \in Nat /\ MaxScript \in Nat
<1>1. {Cap, MaxScript, MaxLines} \subseteq Nat \ {0}
  BY ProbeAssumption
<1> QED
  BY <1>1

LEMMA InitPTypes == Init => PTypes
<1> SUFFICES ASSUME Init PROVE PTypes
  OBVIOUS
<1>1. Streams
  <2>1. 0 \in 0..Cap
    BY Bounds
  <2>2. \A s \in Stream : <<>> \in Seq(Line(s))
    OBVIOUS
  <2> QED
    BY <2>1, <2>2 DEF Init, Streams
<1>2. ChildTyped
  BY DEF Init, Unspawned, Blocked, ChildTyped
<1>3. /\ script \in 1..MaxScript /\ unsent = script /\ stdin = 0
      /\ pc = "spawn" /\ row = "none"
      /\ caller \in {"run", "batch"}
  BY DEF Init
<1>4. unsent \in 0..script /\ stdin \in 0..Cap
  BY <1>3, Bounds
<1>5. Scalars
  BY <1>3, <1>4 DEF Scalars
<1>6. FlagAndText
  BY DEF Init, FlagAndText
<1> QED
  BY <1>1, <1>2, <1>5, <1>6 DEF PTypes

LEMMA HarnessTypes ==
    ASSUME PTypes, Harness
    PROVE  PTypes'
<1>0. FlagAndText'
  BY DEF PTypes, FlagAndText, Harness, Spawn, WriteScript, CloseStdin, Drain,
         Return, Child, ChildRead, ChildPrint, ChildWrite, ChildExit, ChildBailOut
<1>1. Scalars /\ Streams /\ ChildTyped /\ Cap \in Nat
  BY Bounds DEF PTypes
<1>2. \A a : Record(a) => row' \in {"none", "pass", "fail"}
  BY DEF Record
<1>3. Fail => row' \in {"none", "pass", "fail"} /\ pc' = "returned"
  BY <1>1, <1>2 DEF Fail, Scalars
<1>4. CASE Spawn
  <2>1. ChildTyped'
    BY <1>1, <1>4 DEF Spawn, ChildTyped
  <2>2. Scalars'
    BY <1>1, <1>3, <1>4 DEF Spawn, Scalars
  <2> QED
    BY <1>0, <1>1, <1>4, <2>1, <2>2 DEF Spawn, Streams, PTypes
<1>5. CASE WriteScript
  <2>1. /\ script \in Nat /\ unsent \in 0..script /\ stdin \in 0..Cap
        /\ script' = script
    BY <1>1, <1>5, Bounds DEF WriteScript, Scalars
  <2>2. \/ unsent' = unsent /\ stdin' = stdin
        \/ /\ unsent > 0 /\ stdin < Cap
           /\ unsent' = unsent - 1 /\ stdin' = stdin + 1
    BY <1>5 DEF WriteScript
  <2>3. unsent' \in 0..script /\ stdin' \in 0..Cap
    BY <1>1, <2>1, <2>2
  <2>4. Scalars'
    BY <1>1, <1>3, <1>5, <2>1, <2>3 DEF WriteScript, Scalars
  <2> QED
    BY <1>0, <1>1, <1>5, <2>4 DEF WriteScript, Streams, ChildTyped, PTypes
<1>6. CASE CloseStdin
  BY <1>0, <1>1, <1>6 DEF CloseStdin, Scalars, Streams, ChildTyped, PTypes
<1>7. CASE Drain
  <2>1. PICK s \in Stream : pipe[s] > 0 /\ pipe' = [pipe EXCEPT ![s] = @ - 1]
    BY <1>7 DEF Drain
  <2>2. pipe[s] - 1 \in 0..Cap
    BY <1>1, <2>1 DEF Streams
  <2>3. Streams'
    BY <1>1, <1>7, <2>1, <2>2 DEF Drain, Streams
  <2> QED
    BY <1>0, <1>1, <1>7, <2>3 DEF Drain, Scalars, ChildTyped, PTypes
<1>8. CASE Return
  BY <1>0, <1>1, <1>2, <1>8 DEF Return, Scalars, Streams, ChildTyped, PTypes
<1> QED
  BY <1>4, <1>5, <1>6, <1>7, <1>8 DEF Harness

LEMMA ChildTypes ==
    ASSUME PTypes, Child
    PROVE  PTypes'
<1>0. FlagAndText'
  BY DEF PTypes, FlagAndText, Harness, Spawn, WriteScript, CloseStdin, Drain,
         Return, Child, ChildRead, ChildPrint, ChildWrite, ChildExit, ChildBailOut
<1>1. Scalars /\ Streams /\ ChildTyped /\ Cap \in Nat
  BY Bounds DEF PTypes
<1>2. CASE ChildRead
  <2>1. stdin \in 0..Cap /\ stdin > 0 /\ stdin' = stdin - 1
    BY <1>1, <1>2 DEF ChildRead, Scalars
  <2>2. stdin' \in 0..Cap
    BY <1>1, <2>1
  <2>3. UNCHANGED <<caller, script, pc, unsent, wrote, pipe, child, row>>
    BY <1>2 DEF ChildRead
  <2> QED
    BY <1>0, <1>1, <2>2, <2>3 DEF Scalars, Streams, ChildTyped, PTypes
<1>3. CASE ChildPrint
  <2>1. PICK s \in Stream :
            \E l \in Line(s) : child' = [child EXCEPT !.next = <<s, l>>]
    BY <1>3 DEF ChildPrint
  <2>2. PICK l \in Line(s) : child' = [child EXCEPT !.next = <<s, l>>]
    BY <2>1
  <2>3. <<s, l>> \in Blocked
    BY DEF Blocked
  <2>4. ChildTyped'
    BY <1>1, <2>2, <2>3 DEF ChildTyped
  <2> QED
    BY <1>0, <1>1, <1>3, <2>4 DEF ChildPrint, Scalars, Streams, PTypes
<1>4. CASE ChildWrite
  <2>1. child.next \in Blocked \ {<<>>}
    BY <1>1, <1>4 DEF ChildWrite, ChildTyped
  <2>2. PICK s \in Stream : \E l \in Line(s) : child.next = <<s, l>>
    BY <2>1 DEF Blocked
  <2>3. PICK l \in Line(s) : child.next = <<s, l>>
    BY <2>2
  <2>4. /\ pipe[s] < Cap /\ pipe' = [pipe EXCEPT ![s] = pipe[s] + 1]
        /\ wrote' = [wrote EXCEPT ![s] = Append(wrote[s], l)]
        /\ child' = [child EXCEPT !.next = <<>>]
    BY <1>4, <2>3 DEF ChildWrite
  <2>5. pipe[s] + 1 \in 0..Cap
    BY <1>1, <2>4 DEF Streams
  <2>6. Append(wrote[s], l) \in Seq(Line(s))
    BY <1>1 DEF Streams
  <2>7. Streams'
    BY <1>1, <2>4, <2>5, <2>6 DEF Streams
  <2>8. ChildTyped'
    BY <1>1, <2>4 DEF ChildTyped, Blocked
  <2> QED
    BY <1>0, <1>1, <1>4, <2>7, <2>8 DEF ChildWrite, Scalars, PTypes
<1>5. CASE ChildExit \/ ChildBailOut
  <2>1. ChildTyped'
    BY <1>1, <1>5 DEF ChildExit, ChildBailOut, ChildTyped
  <2> QED
    BY <1>0, <1>1, <1>5, <2>1
    DEF ChildExit, ChildBailOut, Scalars, Streams, PTypes
<1> QED
  BY <1>2, <1>3, <1>4, <1>5 DEF Child

\* The types of the pipes, of the two processes and of the recorded row, and
\* that no pipe ever holds more than its capacity.  (runner.rs:851-948)
THEOREM ProbeTypes == Spec => []TypeOK
<1>1. PTypes /\ [Next]_vars => PTypes'
  <2> SUFFICES ASSUME PTypes, [Next]_vars PROVE PTypes'
    OBVIOUS
  <2>1. CASE UNCHANGED vars
    BY <2>1 DEF vars, PTypes, Scalars, FlagAndText, Streams, ChildTyped
  <2> QED
    BY <2>1, HarnessTypes, ChildTypes DEF Next
<1>2. PTypes => TypeOK
  BY DEF PTypes, Scalars, FlagAndText, Streams, ChildTyped, TypeOK
<1> QED
  BY <1>1, <1>2, InitPTypes, PTL DEF Spec

=============================================================================
