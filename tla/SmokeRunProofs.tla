--------------------------- MODULE SmokeRunProofs ---------------------------
(***************************************************************************)
(* Theorems about run.sh.  Its loop, SmokeRun, for any number of cases,    *)
(* expectations, outputs and targets: the types, what the exit status      *)
(* means, which temporary files a script that comes to its end leaves,     *)
(* what a pass shows of the expectation, and what blanks at the ends of    *)
(* its lines change.  Its rewriting of a preprocessed script, SmokeScript, *)
(* for scripts of any length: which statements are left.                   *)
(***************************************************************************)
EXTENDS SmokeRun, TextProofs

Working == {"loader", "preprocess", "cli", "compare"}

\* The cases before `at` are settled, the others untouched.
Settled ==
    /\ \A c \in CaseNo :
          IF c >= at THEN verdict[c] = "none"
          ELSE IF fixture[c].expected = NoFile THEN verdict[c] = "skip"
          ELSE verdict[c] \in {"pass", "fail"}
    /\ pc \in Working => at <= Cases /\ fixture[at].expected # NoFile
    /\ pc = "preprocess" => fixture[at].preprocess

\* `fail` counts failed cases: at most one per case, none only without one.
Counted ==
    /\ fail < at
    /\ fail = 0 <=> \A c \in CaseNo : verdict[c] # "fail"

\* The exit status is there when the script has left, and not before.
Exited ==
    /\ pc = "done" => at > Cases /\ status = IF fail > 0 THEN 1 ELSE 0
    /\ pc = "dead" => status = 1

\* A case has an output from its run on, and no later case has one.
Shown ==
    /\ \A c \in CaseNo : (c > at \/ (c = at /\ pc # "compare")) /\ pc # "dead"
                           => printed[c] = NoFile
    /\ pc = "compare" => printed[at] # NoFile

\* What the cases before `at` have left.
Kept ==
    {<<IF printed[c] = NoFile THEN "loader" ELSE "rewritten", c>> :
        c \in {d \in CaseNo : /\ d < at /\ fixture[d].expected # NoFile
                              /\ fixture[d].preprocess}}

\* What the case at hand has made so far.
InStep ==
    (IF pc \in {"preprocess", "cli", "compare"} THEN {<<"loader", at>>} ELSE {})
    \cup (IF pc \in {"cli", "compare"} /\ fixture[at].preprocess
          THEN {<<"rewritten", at>>} ELSE {})
    \cup (IF pc = "compare" THEN {<<"actual", at>>} ELSE {})

Litter ==
    /\ pc \notin {"done", "dead"} =>
          tmp = Kept \cup InStep
                  \cup (IF target = "ducklink" THEN {Scratch} ELSE {})
    /\ pc = "done" => tmp = Kept
    /\ pc = "dead" => Scratch \notin tmp

SInv == SmokeTypeOK /\ Settled /\ Counted /\ Exited /\ Shown /\ Litter

-----------------------------------------------------------------------------

LEMMA ScratchIsNoCase == \A use, c : c \in CaseNo => <<use, c>> # Scratch
BY SmokeAssumption DEF CaseNo, Scratch

LEMMA InitSInv == SmokeInit => SInv
<1> SUFFICES ASSUME SmokeInit PROVE SInv
    OBVIOUS
<1> USE SmokeAssumption
<1>1. SmokeTypeOK
    BY DEF SmokeInit, SmokeTypeOK, CaseNo, Scratch, TempKind
<1>2. Settled /\ Counted /\ Exited /\ Shown
    BY DEF SmokeInit, Settled, Counted, Exited, Shown, CaseNo, Working
<1>3. Litter
    <2>1. Kept = {}
        BY DEF SmokeInit, Kept, CaseNo
    <2>2. InStep = {}
        BY DEF SmokeInit, InStep
    <2> QED BY <2>1, <2>2 DEF SmokeInit, Litter
<1> QED BY <1>1, <1>2, <1>3 DEF SInv

LEMMA StepSInv == SInv /\ [SmokeNext]_smokeVars => SInv'
<1> SUFFICES ASSUME SInv, [SmokeNext]_smokeVars PROVE SInv'
    OBVIOUS
<1> USE SmokeAssumption
<1>1. CASE NextCase
    <2>1. SmokeTypeOK'
        BY <1>1 DEF NextCase, SInv, SmokeTypeOK, CaseNo
    <2>2. Settled'
        BY <1>1 DEF NextCase, SInv, SmokeTypeOK, Settled, CaseNo, Working
    <2>3. Counted'
        BY <1>1 DEF NextCase, SInv, SmokeTypeOK, Settled, Counted, CaseNo
    <2>4. Exited' /\ Shown'
        BY <1>1 DEF NextCase, SInv, SmokeTypeOK, Exited, Shown, CaseNo
    <2>5. Litter'
        <3>1. Kept' = Kept
            BY <1>1 DEF NextCase, SInv, SmokeTypeOK, Kept, CaseNo
        <3> QED BY <1>1, <3>1 DEF NextCase, SInv, Litter, InStep
    <2> QED BY <2>1, <2>2, <2>3, <2>4, <2>5 DEF SInv
<1>2. CASE MakeLoader
    <2>1. SmokeTypeOK'
        BY <1>2 DEF MakeLoader, SInv, SmokeTypeOK, Settled, Working, CaseNo, TempKind
    <2>2. Settled' /\ Counted' /\ Exited' /\ Shown'
        BY <1>2 DEF MakeLoader, SInv, SmokeTypeOK, Settled, Counted, Exited,
                    Shown, CaseNo, Working
    <2>3. Litter'
        <3>1. Kept' = Kept
            BY <1>2 DEF MakeLoader, Kept
        <3>2. InStep = {} /\ InStep' = {<<"loader", at>>}
            BY <1>2 DEF MakeLoader, SInv, SmokeTypeOK, Settled, Working, InStep
        <3> QED BY <1>2, <3>1, <3>2 DEF MakeLoader, SInv, Litter
    <2> QED BY <2>1, <2>2, <2>3 DEF SInv
<1>3. CASE PreprocessFails
    <2>0. at \in CaseNo /\ fixture[at].expected # NoFile /\ fixture[at].preprocess
        BY <1>3 DEF PreprocessFails, SInv, SmokeTypeOK, Settled, Working, CaseNo
    <2>1. SmokeTypeOK'
        BY <1>3, <2>0 DEF PreprocessFails, SInv, SmokeTypeOK, Counted, CaseNo
    <2>2. Settled'
        BY <1>3, <2>0 DEF PreprocessFails, SInv, SmokeTypeOK, Settled, CaseNo, Working
    <2>3. Counted'
        BY <1>3, <2>0 DEF PreprocessFails, SInv, SmokeTypeOK, Settled, Counted, CaseNo
    <2>4. Exited' /\ Shown'
        BY <1>3 DEF PreprocessFails, SInv, SmokeTypeOK, Exited, Shown, CaseNo
    <2>5. Litter'
        <3>1. Kept' = Kept \cup {<<"loader", at>>}
            BY <1>3, <2>0 DEF PreprocessFails, SInv, SmokeTypeOK, Shown, Kept, CaseNo
        <3>2. InStep = {<<"loader", at>>} /\ InStep' = {}
            BY <1>3 DEF PreprocessFails, InStep
        <3> QED BY <1>3, <3>1, <3>2 DEF PreprocessFails, SInv, Litter
    <2> QED BY <2>1, <2>2, <2>3, <2>4, <2>5 DEF SInv
<1>4. CASE Preprocess
    <2>0. at \in CaseNo /\ fixture[at].preprocess
        BY <1>4 DEF Preprocess, SInv, SmokeTypeOK, Settled, Working, CaseNo
    <2>1. SmokeTypeOK'
        BY <1>4, <2>0 DEF Preprocess, SInv, SmokeTypeOK, TempKind
    <2>2. Settled' /\ Counted' /\ Exited' /\ Shown'
        BY <1>4 DEF Preprocess, SInv, SmokeTypeOK, Settled, Counted, Exited,
                    Shown, CaseNo, Working
    <2>3. Litter'
        <3>1. Kept' = Kept
            BY <1>4 DEF Preprocess, Kept
        <3>2. InStep' = InStep \cup {<<"rewritten", at>>}
            BY <1>4, <2>0 DEF Preprocess, InStep
        <3> QED BY <1>4, <3>1, <3>2 DEF Preprocess, SInv, Litter
    <2> QED BY <2>1, <2>2, <2>3 DEF SInv
<1>5. CASE RunCli
    <2>0. at \in CaseNo
        BY <1>5 DEF RunCli, SInv, SmokeTypeOK, Settled, Working, CaseNo
    <2>1. SmokeTypeOK'
        BY <1>5, <2>0 DEF RunCli, SInv, SmokeTypeOK, TempKind
    <2>2. Settled' /\ Counted' /\ Exited'
        BY <1>5 DEF RunCli, SInv, SmokeTypeOK, Settled, Counted, Exited,
                    CaseNo, Working
    <2>3. Shown'
        BY <1>5, <2>0 DEF RunCli, SInv, SmokeTypeOK, Shown, CaseNo
    <2>4. Litter'
        <3>1. Kept' = Kept
            BY <1>5, <2>0 DEF RunCli, SInv, SmokeTypeOK, Kept, CaseNo
        <3>2. InStep' = InStep \cup {<<"actual", at>>}
            BY <1>5 DEF RunCli, InStep
        <3> QED BY <1>5, <3>1, <3>2 DEF RunCli, SInv, Litter
    <2> QED BY <2>1, <2>2, <2>3, <2>4 DEF SInv
<1>6. CASE Compare
    <2>0. at \in CaseNo /\ fixture[at].expected # NoFile
        BY <1>6 DEF Compare, SInv, SmokeTypeOK, Settled, Working, CaseNo
    <2>1. SmokeTypeOK'
        BY <1>6, <2>0 DEF Compare, SInv, SmokeTypeOK, Counted, CaseNo
    <2>2. Settled'
        BY <1>6, <2>0 DEF Compare, SInv, SmokeTypeOK, Settled, CaseNo, Working
    <2>3. Counted'
        BY <1>6, <2>0 DEF Compare, SInv, SmokeTypeOK, Settled, Counted, CaseNo
    <2>4. Exited' /\ Shown'
        <3>1. /\ pc = "compare" /\ pc' = "next" /\ at' = at + 1
              /\ printed' = printed
            BY <1>6 DEF Compare
        <3> QED BY <3>1 DEF SInv, SmokeTypeOK, Exited, Shown, CaseNo
    <2>5. Litter'
        <3>1. /\ pc = "compare" /\ pc' = "next" /\ at' = at + 1
              /\ tmp' = tmp \ ({"loader", "actual"} \X {at})
              /\ printed' = printed /\ fixture' = fixture /\ target' = target
            BY <1>6 DEF Compare
        <3>2. Kept' = Kept \cup (IF fixture[at].preprocess
                                THEN {<<"rewritten", at>>} ELSE {})
            BY <3>1, <2>0 DEF SInv, SmokeTypeOK, Shown, Kept, CaseNo
        <3>3. /\ InStep = {<<"loader", at>>, <<"actual", at>>}
                            \cup (IF fixture[at].preprocess
                                  THEN {<<"rewritten", at>>} ELSE {})
              /\ InStep' = {}
            BY <3>1 DEF InStep
        <3>4. \A file \in Kept : file[2] # at
            BY DEF Kept, CaseNo, SInv, SmokeTypeOK
        <3>5. Scratch \notin {"loader", "actual"} \X {at}
            BY <2>0, ScratchIsNoCase DEF SInv, SmokeTypeOK
        <3>6. tmp = Kept \cup InStep
                      \cup (IF target = "ducklink" THEN {Scratch} ELSE {})
            BY <3>1 DEF SInv, Litter
        <3>7. tmp' = Kept' \cup InStep'
                      \cup (IF target' = "ducklink" THEN {Scratch} ELSE {})
            BY <3>1, <3>2, <3>3, <3>4, <3>5, <3>6
        <3> QED BY <3>1, <3>7 DEF Litter
    <2> QED BY <2>1, <2>2, <2>3, <2>4, <2>5 DEF SInv
<1>7. CASE Report
    <2>1. Kept' = Kept /\ InStep = {} /\ Scratch \notin Kept
        BY <1>7, ScratchIsNoCase DEF Report, Exit, Kept, InStep
    <2>2. Litter'
        BY <1>7, <2>1 DEF Report, Exit, SInv, Litter
    <2>3. SmokeTypeOK'
        BY <1>7 DEF Report, Exit, SInv, SmokeTypeOK
    <2> QED
        BY <1>7, <2>2, <2>3 DEF Report, Exit, SInv, SmokeTypeOK, Settled,
                                Counted, Exited, Shown, CaseNo, Working
<1>8. CASE CommandFails
    <2>0. at \in CaseNo
        BY <1>8 DEF CommandFails, SInv, SmokeTypeOK, Settled, Working, CaseNo
    <2>1. PICK made \in SUBSET StepFiles :
             tmp' = (tmp \ {Scratch}) \cup (made \X {at})
        BY <1>8 DEF CommandFails
    <2>2. made \X {at} \subseteq TempKind \X CaseNo
        BY <2>0, <1>8 DEF StepFiles, TempKind, CommandFails
    <2>3. SmokeTypeOK'
        BY <1>8, <2>1, <2>2 DEF CommandFails, SInv, SmokeTypeOK
    <2>4. Litter'
        BY <1>8, <2>1, <2>2, ScratchIsNoCase DEF CommandFails, Litter
    <2> QED
        BY <1>8, <2>3, <2>4 DEF CommandFails, SInv, SmokeTypeOK, Settled,
                                Counted, Exited, Shown, CaseNo, Working
<1>9. CASE UNCHANGED smokeVars
    BY <1>9 DEF smokeVars, SInv, SmokeTypeOK, Settled, Counted, Exited, Shown,
                Litter, Kept, InStep
<1> QED
    BY <1>1, <1>2, <1>3, <1>4, <1>5, <1>6, <1>7, <1>8, <1>9 DEF SmokeNext

-----------------------------------------------------------------------------

\* Every state of the script has the types of its variables.
THEOREM SmokeTypes == SmokeSpec => []SmokeTypeOK
<1>1. SInv => SmokeTypeOK
    BY DEF SInv
<1> QED BY InitSInv, StepSInv, <1>1, PTL DEF SmokeSpec

\* The exit status is 0 exactly when the loop came to its end without a
\* failed case (run.sh:26, 513-535).
THEOREM StatusIsTold == SmokeSpec => []StatusTellsVerdicts
<1>1. SInv => StatusTellsVerdicts
    BY SmokeAssumption DEF SInv, SmokeTypeOK, Settled, Counted, Exited,
                           StatusTellsVerdicts, CaseNo
<1> QED BY InitSInv, StepSInv, <1>1, PTL DEF SmokeSpec

\* A script that comes to its end leaves exactly what preprocessing leaves
\* (run.sh:314-325, 399-401, 526).
THEOREM LeftoversAreKnown == SmokeSpec => []LeftoversAreOfPreprocessing
<1>1. SInv => LeftoversAreOfPreprocessing
    <2> SUFFICES ASSUME SInv PROVE LeftoversAreOfPreprocessing
        OBVIOUS
    <2>1. pc = "done" =>
             {d \in CaseNo : /\ d < at /\ fixture[d].expected # NoFile
                             /\ fixture[d].preprocess}
               = {d \in CaseNo : fixture[d].expected # NoFile /\ fixture[d].preprocess}
        BY SmokeAssumption DEF SInv, Exited, SmokeTypeOK, CaseNo
    <2>2. Scratch \notin Kept
        BY ScratchIsNoCase DEF Kept
    <2> QED BY <2>1, <2>2 DEF SInv, Litter, Kept, LeftoversAreOfPreprocessing
<1> QED BY InitSInv, StepSInv, <1>1, PTL DEF SmokeSpec

-----------------------------------------------------------------------------
(* What a pass shows.                                                      *)

LEMMA DropTailIsPrefix ==
    ASSUME NEW S, NEW lines \in Seq(S)
    PROVE  /\ DropTail(lines) \in Seq(S)
           /\ \E m \in 0 .. Len(lines) :
                 DropTail(lines) = [n \in 1 .. m |-> lines[n]]
<1> DEFINE full == {n \in DOMAIN lines : HasFields(lines[n])}
<1>1. Len(lines) \in Nat /\ DOMAIN lines = 1 .. Len(lines)
  OBVIOUS
<1>2. CASE full = {}
  <2>1. DropTail(lines) = << >>
    BY <1>2 DEF DropTail
  <2>2. << >> = [n \in 1 .. 0 |-> lines[n]] /\ 0 \in 0 .. Len(lines)
    BY <1>1
  <2> QED
    BY <2>1, <2>2
<1>3. CASE full # {}
  <2>1. DropTail(lines) = SubSeq(lines, 1, Max(full))
    BY <1>3 DEF DropTail
  <2>2. full \subseteq 1 .. Len(lines)
    BY <1>1
  <2> HIDE DEF full
  <2>3. Max(full) \in 1 .. Len(lines)
    BY <1>1, <1>3, <2>2, LargestNumber
  <2> DEFINE m == Max(full)
  <2> HIDE DEF m
  <2>4. m \in 1 .. Len(lines)
    BY <2>3 DEF m
  <2>5. /\ SubSeq(lines, 1, m) \in Seq(S)
        /\ SubSeq(lines, 1, m) = [n \in 1 .. m |-> lines[n]]
    BY <1>1, <2>4
  <2> QED
    BY <1>1, <2>1, <2>4, <2>5 DEF m
<1> QED
  BY <1>2, <1>3

LEMMA ShownIsSeq ==
    ASSUME NEW S, NEW lines \in Seq(S)
    PROVE  \E T : NormActual(lines) \in Seq(T)
<1> DEFINE n == Len(lines)
           stripped == [i \in DOMAIN lines |-> DropPrompts(StripTail(lines[i]))]
           keep == {i \in DOMAIN lines : ~IsChatter(stripped[i])}
           T == {stripped[i] : i \in 1 .. n}
<1>1. n \in Nat /\ DOMAIN lines = 1 .. n
  OBVIOUS
<1>2. \A i \in 1 .. n : stripped[i] \in T
  OBVIOUS
<1>3. NormActual(lines) = DropTail(Selected(stripped, keep))
  BY Zenon DEF NormActual
<1>4. keep \in SUBSET (1 .. n)
  BY <1>1
<1> HIDE DEF n, stripped, keep, T
<1>5. PICK p : Selects(p, stripped, keep)
  BY <1>1, <1>4, SelectedInOrder
<1> DEFINE m == Cardinality(keep)
           u(k) == stripped[p[k]]
<1>6. /\ p \in [1 .. m -> keep]
      /\ Selected(stripped, keep) = [k \in 1 .. m |-> u(k)]
  BY <1>5, Zenon DEF Selects, Lists
<1>7. m \in Nat
  <2>1. IsFiniteSet(1 .. n)
    BY <1>1, FS_Interval
  <2> QED
    BY <1>4, <2>1, FS_Subset, FS_CardinalityType
<1>8. \A k \in 1 .. m : u(k) \in T
  BY <1>2, <1>4, <1>6
<1> HIDE DEF m, u
<1>9. [k \in 1 .. m |-> u(k)] \in Seq(T)
  BY <1>7, <1>8
<1>10. Selected(stripped, keep) \in Seq(T)
  BY <1>6, <1>9
<1>11. DropTail(Selected(stripped, keep)) \in Seq(T)
  BY <1>10, DropTailIsPrefix
<1> QED
  BY <1>3, <1>11

LEMMA SubsequenceOfItself ==
    ASSUME NEW S, NEW s \in Seq(S)
    PROVE  IsSubsequence(s, s)
<1> DEFINE place == [i \in DOMAIN s |-> i]
<1>1. place \in [DOMAIN s -> DOMAIN s]
  OBVIOUS
<1>2. \A i \in DOMAIN s : place[i] = i
  OBVIOUS
<1> HIDE DEF place
<1>3. /\ \A i, j \in DOMAIN s : i < j => place[i] < place[j]
      /\ \A i \in DOMAIN s : s[i] = s[place[i]]
  BY <1>2
<1> QED
  BY <1>1, <1>3, Zenon DEF IsSubsequence

LEMMA NumbersAreShown ==
    ASSUME NEW S, NEW s \in Seq(S)
    PROVE  /\ IsSubsequence(Numbers(s), s)
           /\ \A n \in DOMAIN s : IsNumber(s[n]) => s[n] \in ToSet(Numbers(s))
<1> DEFINE keep == {n \in DOMAIN s : IsNumber(s[n])}
           m == Cardinality(keep)
<1>1. Len(s) \in Nat /\ DOMAIN s = 1 .. Len(s)
  OBVIOUS
<1>2. keep \in SUBSET (1 .. Len(s))
  BY <1>1
<1>3. \A n \in keep : n \in DOMAIN s
  OBVIOUS
<1>4. \A n \in DOMAIN s : IsNumber(s[n]) => n \in keep
  OBVIOUS
<1>5. Numbers(s) = Selected(s, keep)
  BY Zenon DEF Numbers
<1> HIDE DEF keep
<1>6. PICK p : Selects(p, s, keep)
  BY <1>1, <1>2, SelectedInOrder
<1>7. /\ p \in [1 .. m -> keep]
      /\ \A a, b \in 1 .. m : a < b => p[a] < p[b]
      /\ \A i \in keep : \E a \in 1 .. m : p[a] = i
      /\ Selected(s, keep) = [k \in 1 .. m |-> s[p[k]]]
  BY <1>6, Zenon DEF Selects, Lists
<1> HIDE DEF m
<1>8. /\ DOMAIN Numbers(s) = 1 .. m
      /\ \A k \in 1 .. m : Numbers(s)[k] = s[p[k]]
  BY <1>5, <1>7
<1>9. p \in [DOMAIN Numbers(s) -> DOMAIN s]
  BY <1>3, <1>7, <1>8
<1>10. IsSubsequence(Numbers(s), s)
  <2>1. /\ \A i, j \in DOMAIN Numbers(s) : i < j => p[i] < p[j]
        /\ \A i \in DOMAIN Numbers(s) : Numbers(s)[i] = s[p[i]]
    BY <1>7, <1>8
  <2> QED
    BY <1>9, <2>1, Zenon DEF IsSubsequence
<1>11. ASSUME NEW n \in DOMAIN s, IsNumber(s[n])
       PROVE  s[n] \in ToSet(Numbers(s))
  <2>1. PICK a \in 1 .. m : p[a] = n
    BY <1>4, <1>7, <1>11
  <2>2. Numbers(s)[a] = s[n] /\ a \in DOMAIN Numbers(s)
    BY <1>8, <2>1
  <2> QED
    BY <2>2 DEF ToSet
<1> QED
  BY <1>10, <1>11

LEMMA PassShows ==
    ASSUME NEW on, NEW S, NEW lines \in Seq(S), NEW expected,
           Passes(on, lines, expected)
    PROVE  LET shown == NormActual(lines)
               wanted == NormExpected(expected)
           IN  /\ IsSubsequence(wanted, shown)
               /\ \A n \in DOMAIN shown :
                     HasFields(shown[n]) /\ shown[n] \notin ToSet(wanted) =>
                         /\ on = "ducklink" /\ IsNumeric(expected)
                         /\ ~IsNumber(shown[n])
<1> DEFINE shown == NormActual(lines)
           wanted == NormExpected(expected)
<1>1. PICK T : shown \in Seq(T)
  BY ShownIsSeq
<1>2. Compared(on, lines, expected) = wanted
  BY DEF Passes
<1>3. CASE Whitelisted(on, expected)
  <2>1. wanted = Numbers(shown)
    BY <1>2, <1>3 DEF Compared
  <2>2. /\ IsSubsequence(Numbers(shown), shown)
        /\ \A n \in DOMAIN shown :
              IsNumber(shown[n]) => shown[n] \in ToSet(Numbers(shown))
    <3> HIDE DEF shown
    <3> QED
      BY <1>1, NumbersAreShown
  <2>3. on = "ducklink" /\ IsNumeric(expected)
    BY <1>3 DEF Whitelisted
  <2> HIDE DEF shown, wanted
  <2>4. /\ IsSubsequence(wanted, shown)
        /\ \A n \in DOMAIN shown :
              HasFields(shown[n]) /\ shown[n] \notin ToSet(wanted) =>
                  /\ on = "ducklink" /\ IsNumeric(expected)
                  /\ ~IsNumber(shown[n])
    BY <2>1, <2>2, <2>3
  <2> QED
    BY <2>4 DEF shown, wanted
<1>4. CASE ~Whitelisted(on, expected)
  <2>1. wanted = shown
    BY <1>2, <1>4 DEF Compared
  <2> HIDE DEF shown, wanted
  <2>2. IsSubsequence(wanted, shown)
    BY <1>1, <2>1, SubsequenceOfItself
  <2>3. \A n \in DOMAIN shown : shown[n] \in ToSet(wanted)
    BY <2>1 DEF ToSet
  <2> QED
    BY <2>2, <2>3 DEF shown, wanted
<1> QED
  BY <1>3, <1>4

-----------------------------------------------------------------------------
(* What blanks at the ends of lines change.                                *)

LEMMA BlankPiece ==
    Blank \in Piece /\ <<"5">>[1] # Blank /\ <<"7">>[1] # Blank
<1>1. Blank \in Piece /\ "5" # Blank /\ "7" # Blank
  BY Zenon DEF Blank, Piece
<1> QED
  BY <1>1

LEMMA StripTailOfEdited ==
    ASSUME NEW line \in Seq(Piece)
    PROVE  /\ StripTail(Append(line, Blank)) = StripTail(line)
           /\ HasFields(Append(line, Blank)) <=> HasFields(line)
           /\ ~IsNumber(Append(line, Blank))
<1> DEFINE more == Append(line, Blank)
           n == Len(line)
           inked == {i \in DOMAIN line : line[i] # Blank}
<1>1. n \in Nat /\ DOMAIN line = 1 .. n
  OBVIOUS
<1>2. /\ more \in Seq(Piece) /\ Len(more) = n + 1
      /\ DOMAIN more = 1 .. n + 1 /\ more[n + 1] = Blank
      /\ \A i \in 1 .. n : more[i] = line[i]
  BY BlankPiece
<1> HIDE DEF more
<1>3. {i \in DOMAIN more : more[i] # Blank} = inked
  <2> HIDE DEF n
  <2>1. \A i : i \in 1 .. n + 1 /\ i # n + 1 => i \in 1 .. n
    BY <1>1
  <2>2. \A i \in 1 .. n : i \in 1 .. n + 1
    BY <1>1
  <2> QED
    BY <1>1, <1>2, <2>1, <2>2
<1>4. StripTail(more) = StripTail(line)
  <2>1. CASE inked = {}
    BY <1>3, <2>1 DEF StripTail
  <2>2. CASE inked # {}
    <3>1. inked \subseteq 1 .. n
      BY <1>1
    <3>2. /\ StripTail(line) = SubSeq(line, 1, Max(inked))
          /\ StripTail(more) = SubSeq(more, 1, Max(inked))
      BY <1>3, <2>2 DEF StripTail
    <3> HIDE DEF inked
    <3>3. Max(inked) \in 1 .. n
      <4> HIDE DEF n
      <4> QED
        BY <1>1, <2>2, <3>1, LargestNumber
    <3> DEFINE m == Max(inked)
    <3> HIDE DEF m
    <3>4. m \in 1 .. n
      BY <3>3 DEF m
    <3>5. SubSeq(line, 1, m) = [i \in 1 .. m |-> line[i]]
      BY <1>1, <3>4
    <3>6. SubSeq(more, 1, m) = [i \in 1 .. m |-> more[i]]
      BY <1>1, <1>2, <3>4
    <3>7. \A i \in 1 .. m : more[i] = line[i]
      BY <1>1, <1>2, <3>4
    <3> QED
      BY <3>2, <3>5, <3>6, <3>7 DEF m
  <2> QED
    BY <2>1, <2>2
<1>5. HasFields(more) <=> HasFields(line)
  <2>1. HasFields(more) <=> {i \in DOMAIN more : more[i] # Blank} # {}
    BY DEF HasFields
  <2>2. HasFields(line) <=> inked # {}
    BY DEF HasFields
  <2> QED
    BY <1>3, <2>1, <2>2
<1>6. ~IsNumber(more)
  <2> SUFFICES ASSUME more \in {<<"5">>, <<"7">>} PROVE FALSE
    BY DEF IsNumber
  <2>1. Len(more) = 1 /\ more[1] # Blank
    BY BlankPiece
  <2> QED
    BY <1>1, <1>2, <2>1
<1> QED
  BY <1>4, <1>5, <1>6 DEF more

IsAFcn(f) == f = [i \in DOMAIN f |-> f[i]]

LEMMA Appended ==
    ASSUME NEW S, NEW s \in Seq(S), NEW x \in S, NEW n, n = Len(s),
           NEW f, IsAFcn(f), DOMAIN f = 1 .. n + 1, f[n + 1] = x,
           \A i \in 1 .. n : f[i] = s[i]
    PROVE  f = Append(s, x)
<1> DEFINE more == Append(s, x)
<1>1. /\ more \in Seq(S) /\ Len(more) = n + 1 /\ n \in Nat
      /\ more[n + 1] = x /\ \A i \in 1 .. n : more[i] = s[i]
  OBVIOUS
<1> HIDE DEF more
<1>2. more = [i \in 1 .. n + 1 |-> more[i]]
  BY <1>1
<1>3. \A i \in 1 .. n + 1 : i # n + 1 => i \in 1 .. n
  BY <1>1
<1>4. \A i \in 1 .. n + 1 : f[i] = more[i]
  BY <1>1, <1>3
<1>5. f = more
  BY <1>2, <1>4 DEF IsAFcn
<1> QED
  BY <1>5 DEF more

\* An empty line behind the last one.
LEMMA DropTailOfEdited ==
    ASSUME NEW S, NEW lines \in Seq(S), NEW x \in S, ~HasFields(x)
    PROVE  DropTail(Append(lines, x)) = DropTail(lines)
<1> DEFINE more == Append(lines, x)
           n == Len(lines)
           full == {i \in DOMAIN lines : HasFields(lines[i])}
<1>1. n \in Nat /\ DOMAIN lines = 1 .. n
  OBVIOUS
<1>2. /\ more \in Seq(S) /\ Len(more) = n + 1
      /\ DOMAIN more = 1 .. n + 1 /\ more[n + 1] = x
      /\ \A i \in 1 .. n : more[i] = lines[i]
  OBVIOUS
<1> HIDE DEF more
<1>3. {i \in DOMAIN more : HasFields(more[i])} = full
  <2> HIDE DEF n
  <2>1. \A i : i \in 1 .. n + 1 /\ i # n + 1 => i \in 1 .. n
    BY <1>1
  <2>2. \A i \in 1 .. n : i \in 1 .. n + 1
    BY <1>1
  <2>3. \A i \in 1 .. n : HasFields(more[i]) <=> HasFields(lines[i])
    BY <1>2
  <2>4. ~HasFields(more[n + 1])
    BY <1>2
  <2> QED
    BY <1>1, <1>2, <2>1, <2>2, <2>3, <2>4
<1>4. CASE full = {}
  BY <1>3, <1>4 DEF DropTail, more
<1>5. CASE full # {}
  <2>1. full \subseteq 1 .. n
    BY <1>1
  <2>2. /\ DropTail(lines) = SubSeq(lines, 1, Max(full))
        /\ DropTail(more) = SubSeq(more, 1, Max(full))
    BY <1>3, <1>5 DEF DropTail
  <2> HIDE DEF full
  <2>3. Max(full) \in 1 .. n
    <3> HIDE DEF n
    <3> QED
      BY <1>1, <1>5, <2>1, LargestNumber
  <2> DEFINE m == Max(full)
  <2> HIDE DEF m
  <2>4. m \in 1 .. n
    BY <2>3 DEF m
  <2>5. SubSeq(lines, 1, m) = [i \in 1 .. m |-> lines[i]]
    BY <1>1, <2>4
  <2>6. SubSeq(more, 1, m) = [i \in 1 .. m |-> more[i]]
    BY <1>1, <1>2, <2>4
  <2>7. \A i \in 1 .. m : more[i] = lines[i]
    BY <1>1, <1>2, <2>4
  <2> QED
    BY <2>2, <2>5, <2>6, <2>7 DEF m, more
<1> QED
  BY <1>4, <1>5

LEMMA StripTailTyped ==
    ASSUME NEW line \in Seq(Piece)
    PROVE  StripTail(line) \in Seq(Piece)
<1> DEFINE inked == {i \in DOMAIN line : line[i] # Blank}
<1>1. CASE inked = {}
  BY <1>1 DEF StripTail
<1>2. CASE inked # {}
  <2>1. Len(line) \in Nat /\ inked \subseteq 1 .. Len(line)
    OBVIOUS
  <2>2. StripTail(line) = SubSeq(line, 1, Max(inked))
    BY <1>2 DEF StripTail
  <2> HIDE DEF inked
  <2>3. Max(inked) \in 1 .. Len(line)
    BY <1>2, <2>1, LargestNumber
  <2> DEFINE m == Max(inked)
  <2> HIDE DEF m
  <2>4. m \in 1 .. Len(line)
    BY <2>3 DEF m
  <2>5. SubSeq(line, 1, m) \in Seq(Piece)
    BY <2>4
  <2> QED
    BY <2>2, <2>5 DEF m
<1> QED
  BY <1>1, <1>2

Stripped(lines) == [n \in DOMAIN lines |-> StripTail(lines[n])]

LEMMA StrippedTyped ==
    ASSUME NEW lines \in Seq(Seq(Piece))
    PROVE  Stripped(lines) \in Seq(Seq(Piece)) /\ Len(Stripped(lines)) = Len(lines)
<1> DEFINE n == Len(lines)
           u(i) == StripTail(lines[i])
<1>1. n \in Nat /\ DOMAIN lines = 1 .. n
  OBVIOUS
<1>2. \A i \in 1 .. n : u(i) \in Seq(Piece)
  BY StripTailTyped
<1>3. Stripped(lines) = [i \in 1 .. n |-> u(i)]
  BY <1>1 DEF Stripped
<1> HIDE DEF n, u
<1>4. [i \in 1 .. n |-> u(i)] \in Seq(Seq(Piece)) /\ Len([i \in 1 .. n |-> u(i)]) = n
  BY <1>1, <1>2
<1> QED
  BY <1>3, <1>4 DEF n

\* The two kinds of edit.
LEMMA Edits ==
    ASSUME NEW lines \in Seq(Seq(Piece)), NEW edited \in HandEdits(lines)
    PROVE  \/ \E n \in DOMAIN lines :
                 edited = [lines EXCEPT ![n] = Append(lines[n], Blank)]
           \/ \E x \in Seq(Piece) : edited = Append(lines, x) /\ ~HasFields(x)
                                      /\ StripTail(x) = << >>
<1>1. CASE \E n \in DOMAIN lines :
               edited = [lines EXCEPT ![n] = Append(lines[n], Blank)]
  BY <1>1
<1>2. CASE edited \in {Append(lines, << >>), Append(lines, <<Blank>>)}
  <2>1. << >> \in Seq(Piece) /\ <<Blank>> \in Seq(Piece)
    BY BlankPiece
  <2>2. /\ \A i \in DOMAIN << >> : << >>[i] = Blank
        /\ \A i \in DOMAIN <<Blank>> : <<Blank>>[i] = Blank
    OBVIOUS
  <2>3. \A l : (\A i \in DOMAIN l : l[i] = Blank) =>
                  ~HasFields(l) /\ StripTail(l) = << >>
    BY DEF HasFields, StripTail
  <2> QED
    BY <1>2, <2>1, <2>2, <2>3
<1> QED
  BY <1>1, <1>2 DEF HandEdits

LEMMA EditKeepsExpectation ==
    ASSUME NEW lines \in Seq(Seq(Piece)), NEW edited \in HandEdits(lines)
    PROVE  /\ NormExpected(edited) = NormExpected(lines)
           /\ IsNumeric(edited) => IsNumeric(lines)
<1>1. Len(lines) \in Nat /\ DOMAIN lines = 1 .. Len(lines)
  OBVIOUS
<1>2. \A n \in DOMAIN lines : lines[n] \in Seq(Piece)
  OBVIOUS
<1>3. \A l : NormExpected(l) = DropTail(Stripped(l))
  BY Zenon DEF NormExpected, Stripped
<1>4. CASE \E n \in DOMAIN lines :
               edited = [lines EXCEPT ![n] = Append(lines[n], Blank)]
  <2>1. PICK n \in DOMAIN lines :
               edited = [lines EXCEPT ![n] = Append(lines[n], Blank)]
    BY <1>4
  <2>2. /\ DOMAIN edited = DOMAIN lines /\ edited[n] = Append(lines[n], Blank)
        /\ \A i \in DOMAIN lines : i # n => edited[i] = lines[i]
    BY <2>1
  <2>3. \A i \in DOMAIN lines : StripTail(edited[i]) = StripTail(lines[i])
    BY <1>2, <2>2, StripTailOfEdited
  <2>4. Stripped(edited) = Stripped(lines)
    BY <2>2, <2>3 DEF Stripped
  <2>5. ASSUME IsNumeric(edited), NEW i \in DOMAIN lines, HasFields(lines[i])
        PROVE  IsNumber(lines[i])
    <3>1. HasFields(edited[i])
      <4>1. lines[i] \in Seq(Piece)
        BY <1>2
      <4>2. edited[i] = lines[i] \/ edited[i] = Append(lines[i], Blank)
        BY <2>2
      <4> QED
        BY <2>5, <4>1, <4>2, StripTailOfEdited
    <3>2. IsNumber(edited[i])
      BY <2>2, <2>5, <3>1 DEF IsNumeric
    <3>3. i # n
      BY <1>2, <2>2, <3>2, StripTailOfEdited
    <3> QED
      BY <2>2, <3>2, <3>3
  <2> QED
    BY <1>3, <2>4, <2>5 DEF IsNumeric
<1>5. CASE \E x \in Seq(Piece) : edited = Append(lines, x) /\ ~HasFields(x)
                                      /\ StripTail(x) = << >>
  <2>1. PICK x \in Seq(Piece) : edited = Append(lines, x) /\ ~HasFields(x)
                                      /\ StripTail(x) = << >>
    BY <1>5
  <2> DEFINE n == Len(lines)
  <2>2. /\ DOMAIN edited = 1 .. n + 1 /\ edited[n + 1] = x
        /\ \A i \in 1 .. n : edited[i] = lines[i]
    BY <2>1
  <2> HIDE DEF n
  <2>3. n \in Nat /\ DOMAIN lines = 1 .. n
    BY <1>1 DEF n
  <2>4. Stripped(edited) = Append(Stripped(lines), << >>)
    <3>1. /\ Stripped(lines) \in Seq(Seq(Piece)) /\ Len(Stripped(lines)) = n
          /\ << >> \in Seq(Piece)
      BY StrippedTyped DEF n
    <3>2. \A i \in 1 .. n : Stripped(edited)[i] = Stripped(lines)[i]
      BY <2>2, <2>3 DEF Stripped
    <3>3. Stripped(edited)[n + 1] = << >>
      BY <2>1, <2>2, <2>3 DEF Stripped
    <3>4. IsAFcn(Stripped(edited)) /\ DOMAIN Stripped(edited) = 1 .. n + 1
      BY <2>2 DEF Stripped, IsAFcn
    <3> DEFINE C == Seq(Piece)
               u == Stripped(lines)
               f == Stripped(edited)
               none == << >>
    <3>5. /\ u \in Seq(C) /\ Len(u) = n /\ none \in C
          /\ \A i \in 1 .. n : f[i] = u[i]
          /\ f[n + 1] = none /\ IsAFcn(f) /\ DOMAIN f = 1 .. n + 1
      BY <3>1, <3>2, <3>3, <3>4
    <3> HIDE DEF C, u, f, none
    <3>6. f = Append(u, none)
      BY <3>5, Appended
    <3> QED
      BY <3>6 DEF u, f, none
  <2>5. DropTail(Append(Stripped(lines), << >>)) = DropTail(Stripped(lines))
    <3>1. ~HasFields(<< >>)
      BY DEF HasFields
    <3>2. << >> \in Seq(Piece)
      OBVIOUS
    <3> QED
      BY <3>1, <3>2, StrippedTyped, DropTailOfEdited
  <2>6. IsNumeric(edited) => IsNumeric(lines)
    <3>1. \A i \in 1 .. n : i \in 1 .. n + 1
      BY <2>3
    <3> QED
      BY <2>2, <2>3, <3>1 DEF IsNumeric
  <2> QED
    BY <1>3, <2>4, <2>5, <2>6
<1> QED
  BY <1>4, <1>5, Edits

\* A filter that takes nothing from numbers.
LEMMA NumbersOfNumbers ==
    ASSUME NEW S, NEW s \in Seq(S), \A n \in DOMAIN s : IsNumber(s[n])
    PROVE  Numbers(s) = s
<1>1. {n \in DOMAIN s : IsNumber(s[n])} = DOMAIN s
  OBVIOUS
<1>2. Numbers(s) = Selected(s, DOMAIN s)
  BY <1>1 DEF Numbers
<1> QED
  BY <1>2, SelectedAll

LEMMA NumericExpectation ==
    ASSUME NEW lines \in Seq(Seq(Piece)), IsNumeric(lines),
           ~HasGap(NormExpected(lines))
    PROVE  /\ NormExpected(lines) \in Seq(Seq(Piece))
           /\ \A n \in DOMAIN NormExpected(lines) :
                 IsNumber(NormExpected(lines)[n])
<1> DEFINE str == Stripped(lines)
<1>1. str \in Seq(Seq(Piece)) /\ Len(str) = Len(lines)
  BY StrippedTyped
<1>2. NormExpected(lines) = DropTail(str)
  BY Zenon DEF NormExpected, Stripped
<1>3. Len(lines) \in Nat /\ DOMAIN lines = 1 .. Len(lines)
  OBVIOUS
<1>4. \A n \in DOMAIN lines : str[n] = StripTail(lines[n])
  BY DEF Stripped
<1> HIDE DEF str
<1>5. DropTail(str) \in Seq(Seq(Piece))
      /\ \E m \in 0 .. Len(str) : DropTail(str) = [n \in 1 .. m |-> str[n]]
  BY <1>1, DropTailIsPrefix
<1>6. PICK m \in 0 .. Len(lines) : DropTail(str) = [n \in 1 .. m |-> str[n]]
  BY <1>1, <1>5
<1>7. ASSUME NEW n \in 1 .. m
      PROVE  IsNumber(str[n])
  <2>1. n \in DOMAIN lines
    BY <1>3, <1>6
  <2>2. HasFields(str[n])
    <3>1. DropTail(str)[n] = str[n] /\ n \in DOMAIN DropTail(str)
      BY <1>6
    <3> QED
      BY <1>2, <3>1 DEF HasGap
  <2>3. HasFields(lines[n])
    <3>1. SUFFICES ASSUME ~HasFields(lines[n]) PROVE FALSE
      OBVIOUS
    <3>2. StripTail(lines[n]) = << >>
      BY <3>1 DEF HasFields, StripTail
    <3>3. ~HasFields(<< >>)
      BY DEF HasFields
    <3> QED
      BY <1>4, <2>1, <2>2, <3>2, <3>3
  <2>4. IsNumber(lines[n])
    BY <2>1, <2>3 DEF IsNumeric
  <2>5. StripTail(lines[n]) = lines[n]
    <3> DEFINE line == lines[n]
               inked == {i \in DOMAIN line : line[i] # Blank}
    <3>1. line \in Seq(Piece) /\ Len(line) = 1 /\ line[1] # Blank
      BY <2>1, <2>4, BlankPiece DEF IsNumber
    <3> HIDE DEF line
    <3>2. inked = 1 .. 1
      BY <3>1
    <3>3. Max(1 .. 1) = 1
      <4>1. 1 \in Nat /\ 1 # 0
        OBVIOUS
      <4> QED
        BY <4>1, PrefixMax, Zenon
    <3>4. StripTail(line) = SubSeq(line, 1, 1)
      <4>1. inked # {}
        <5>1. 1 \in 1 .. 1
          OBVIOUS
        <5> QED
          BY <3>2, <5>1
      <4> QED
        BY <3>2, <3>3, <4>1 DEF StripTail
    <3>5. SubSeq(line, 1, 1) = line
      BY <3>1
    <3> QED
      BY <3>4, <3>5 DEF line
  <2> QED
    BY <1>4, <2>1, <2>4, <2>5
<1> QED
  BY <1>2, <1>5, <1>6, <1>7

LEMMA EditChanges ==
    ASSUME NEW on, NEW S, NEW lines \in Seq(S),
           NEW expected \in Seq(Seq(Piece)), NEW edited \in HandEdits(expected)
    PROVE  LET before == Passes(on, lines, expected)
               after == Passes(on, lines, edited)
           IN  \/ before <=> after
               \/ /\ Whitelisted(on, expected) /\ ~IsNumeric(edited)
                  /\ after => HasGap(NormExpected(expected))
<1> DEFINE wanted == NormExpected(expected)
           shown == NormActual(lines)
<1>1. NormExpected(edited) = wanted /\ (IsNumeric(edited) => IsNumeric(expected))
  BY EditKeepsExpectation
<1>2. CASE Whitelisted(on, expected) /\ ~IsNumeric(edited)
  <2>1. ASSUME Passes(on, lines, edited), ~HasGap(wanted)
        PROVE  Passes(on, lines, expected)
    <3>1. Compared(on, lines, edited) = shown
      BY <1>2 DEF Compared, Whitelisted
    <3>2. shown = wanted
      BY <1>1, <2>1, <3>1 DEF Passes
    <3>3. IsNumeric(expected)
      BY <1>2 DEF Whitelisted
    <3>4. /\ wanted \in Seq(Seq(Piece))
          /\ \A n \in DOMAIN wanted : IsNumber(wanted[n])
      BY <2>1, <3>3, NumericExpectation
    <3> HIDE DEF wanted
    <3>5. Numbers(wanted) = wanted
      BY <3>4, NumbersOfNumbers
    <3>6. Compared(on, lines, expected) = Numbers(wanted)
      BY <1>2, <3>2 DEF Compared
    <3> QED
      BY <3>5, <3>6 DEF Passes, wanted
  <2> QED
    BY <1>2, <2>1
<1>3. CASE ~(Whitelisted(on, expected) /\ ~IsNumeric(edited))
  <2>1. Whitelisted(on, expected) <=> Whitelisted(on, edited)
    BY <1>1, <1>3 DEF Whitelisted
  <2>2. Compared(on, lines, expected) = Compared(on, lines, edited)
    BY <2>1 DEF Compared
  <2> QED
    BY <1>1, <2>2 DEF Passes
<1> QED
  BY <1>2, <1>3

-----------------------------------------------------------------------------
(* Verdicts and outputs.                                                   *)

\* Only a case with an expectation is run, and only a comparison passes one.
Judged ==
    \A c \in CaseNo :
        /\ printed[c] # NoFile => fixture[c].expected # NoFile
        /\ verdict[c] = "pass" =>
              /\ printed[c] # NoFile
              /\ Passes(target, printed[c], fixture[c].expected)

JInv == SInv /\ Judged

LEMMA InitJInv == SmokeInit => JInv
BY InitSInv DEF SmokeInit, JInv, Judged

LEMMA StepJInv == JInv /\ [SmokeNext]_smokeVars => JInv'
<1> SUFFICES ASSUME JInv, [SmokeNext]_smokeVars PROVE JInv'
  OBVIOUS
<1>1. SInv /\ SInv'
  BY StepSInv DEF JInv
<1>2. ASSUME UNCHANGED <<target, fixture, printed>>,
             \A c \in CaseNo : verdict'[c] = "pass" => verdict[c] = "pass"
      PROVE  Judged'
  BY <1>2 DEF JInv, Judged
<1>3. CASE NextCase
  <2>1. /\ UNCHANGED <<target, fixture, printed>>
        /\ verdict' \in {verdict, [verdict EXCEPT ![at] = "skip"]}
    BY <1>3 DEF NextCase
  <2>2. \A c \in CaseNo : verdict'[c] = "pass" => verdict[c] = "pass"
    BY <1>1, <2>1 DEF SInv, SmokeTypeOK
  <2> QED
    BY <1>1, <1>2, <2>1, <2>2 DEF JInv
<1>4. CASE MakeLoader \/ Preprocess \/ Report \/ CommandFails
  <2>1. UNCHANGED <<target, fixture, printed, verdict>>
    BY <1>4 DEF MakeLoader, Preprocess, Report, Exit, CommandFails
  <2> QED
    BY <1>1, <1>2, <2>1 DEF JInv
<1>5. CASE PreprocessFails
  <2>1. /\ UNCHANGED <<target, fixture, printed>>
        /\ verdict' = [verdict EXCEPT ![at] = "fail"]
    BY <1>5 DEF PreprocessFails
  <2>2. \A c \in CaseNo : verdict'[c] = "pass" => verdict[c] = "pass"
    BY <1>1, <2>1 DEF SInv, SmokeTypeOK
  <2> QED
    BY <1>1, <1>2, <2>1, <2>2 DEF JInv
<1>6. CASE RunCli
  <2>1. PICK lines \in Outputs : printed' = [printed EXCEPT ![at] = lines]
    BY <1>6 DEF RunCli
  <2>2. /\ UNCHANGED <<target, fixture, verdict>> /\ pc = "cli"
        /\ at \in CaseNo /\ fixture[at].expected # NoFile
        /\ verdict[at] = "none"
    BY <1>1, <1>6 DEF RunCli, SInv, SmokeTypeOK, Settled, Working, CaseNo
  <2>3. \A c \in CaseNo : c # at => printed'[c] = printed[c]
    BY <1>1, <2>1 DEF SInv, SmokeTypeOK
  <2>4. Judged'
    <3> SUFFICES ASSUME NEW c \in CaseNo
                 PROVE  /\ printed'[c] # NoFile => fixture[c].expected # NoFile
                        /\ verdict[c] = "pass" =>
                              /\ printed'[c] # NoFile
                              /\ Passes(target, printed'[c], fixture[c].expected)
      BY <2>2 DEF Judged, CaseNo
    <3>1. CASE c = at
      BY <2>2, <3>1
    <3>2. CASE c # at
      BY <2>3, <3>2 DEF JInv, Judged
    <3> QED
      BY <3>1, <3>2
  <2> QED
    BY <1>1, <2>4 DEF JInv
<1>7. CASE Compare
  <2> DEFINE passed == Passes(target, printed[at], fixture[at].expected)
  <2>1. /\ UNCHANGED <<target, fixture, printed>> /\ pc = "compare"
        /\ verdict' = [verdict EXCEPT ![at] = IF passed THEN "pass" ELSE "fail"]
    BY <1>7 DEF Compare
  <2> HIDE DEF passed
  <2>2. at \in CaseNo /\ printed[at] # NoFile
    BY <1>1, <2>1 DEF SInv, SmokeTypeOK, Settled, Shown, Working, CaseNo
  <2>3. /\ verdict'[at] = "pass" => passed
        /\ \A c \in CaseNo : c # at => verdict'[c] = verdict[c]
    BY <1>1, <2>1, <2>2 DEF SInv, SmokeTypeOK
  <2>4. Judged'
    BY <2>1, <2>2, <2>3 DEF JInv, Judged, CaseNo, passed
  <2> QED
    BY <1>1, <2>4 DEF JInv
<1>8. CASE UNCHANGED smokeVars
  BY <1>1, <1>8, <1>2 DEF JInv, smokeVars
<1> QED
  BY <1>3, <1>4, <1>5, <1>6, <1>7, <1>8 DEF SmokeNext

LEMMA RanTyped ==
    ASSUME JInv, NEW c \in CaseNo, printed[c] # NoFile
    PROVE  /\ printed[c] \in Seq(Seq(Piece))
           /\ fixture[c].expected \in Seq(Seq(Piece))
<1>1. fixture[c].expected # NoFile
  BY DEF JInv, Judged
<1>2. printed[c] \in Outputs /\ fixture[c].expected \in Expectations
  BY <1>1 DEF JInv, SInv, SmokeTypeOK
<1> QED
  BY <1>2, SmokeAssumption

(***************************************************************************)
(* Whatever CLI and preprocessor do, a pass is an output that shows every  *)
(* expected line, in order, and nothing else that ducklink's whitelist     *)
(* does not hide.  (PassShowsExpected, run.sh:451-524)                     *)
(***************************************************************************)
THEOREM PassIsShown == SmokeSpec => []PassShowsExpected
<1>1. JInv => PassShowsExpected
  <2> SUFFICES ASSUME JInv, NEW c \in CaseNo, verdict[c] = "pass"
               PROVE  LET shown == NormActual(printed[c])
                          wanted == NormExpected(fixture[c].expected)
                      IN  /\ IsSubsequence(wanted, shown)
                          /\ \A n \in DOMAIN shown :
                                HasFields(shown[n]) /\ shown[n] \notin ToSet(wanted) =>
                                    /\ target = "ducklink"
                                    /\ IsNumeric(fixture[c].expected)
                                    /\ ~IsNumber(shown[n])
    BY Zenon DEF PassShowsExpected
  <2>1. /\ printed[c] # NoFile
        /\ Passes(target, printed[c], fixture[c].expected)
    BY DEF JInv, Judged
  <2>2. printed[c] \in Seq(Seq(Piece))
    BY <2>1, RanTyped
  <2> QED
    BY <2>1, <2>2, PassShows, Zenon
<1> QED
  BY <1>1, InitJInv, StepJInv, PTL DEF SmokeSpec

(***************************************************************************)
(* Blanks put behind a line or below the last one change a verdict only on *)
(* ducklink, by taking a numeric expectation from the whitelist; and then  *)
(* a failing case passes only for an empty line that the whitelist would   *)
(* have taken from the output.  (HandEditsChangeNothing, run.sh:451-513)   *)
(***************************************************************************)
THEOREM HandEditsAreSafe == SmokeSpec => []HandEditsChangeNothing
<1>1. JInv => HandEditsChangeNothing
  <2> SUFFICES ASSUME JInv, NEW c \in CaseNo, printed[c] # NoFile,
                      NEW edited \in HandEdits(fixture[c].expected)
               PROVE  LET expected == fixture[c].expected
                          before == Passes(target, printed[c], expected)
                          after == Passes(target, printed[c], edited)
                      IN  \/ before <=> after
                          \/ /\ Whitelisted(target, expected) /\ ~IsNumeric(edited)
                             /\ after => HasGap(NormExpected(expected))
    BY Zenon DEF HandEditsChangeNothing
  <2>1. /\ printed[c] \in Seq(Seq(Piece))
        /\ fixture[c].expected \in Seq(Seq(Piece))
    BY RanTyped
  <2> QED
    BY <2>1, EditChanges, Zenon
<1> QED
  BY <1>1, InitJInv, StepJInv, PTL DEF SmokeSpec

-----------------------------------------------------------------------------
(* A reader of statements, character by character.                         *)

IsBreak(c) == c = "LF" \/ c = Splice

CharOf(c) == IF c = Splice THEN "LF" ELSE c

\* What it has read: the quotes, the statements that are complete, the text of
\* the one that is not and what may belong to it, the line breaks in literals.
Readers(B) ==
    [quotes : Nat, out : Seq(Seq(B)), cur : Seq(B), rest : Seq(B), breaks : Nat]

Reader(q, out, cur, rest, breaks) ==
    [quotes |-> q, out |-> out, cur |-> cur, rest |-> rest, breaks |-> breaks]

Fresh == Reader(0, << >>, << >>, << >>, 0)

Open(s) == s.quotes % 2 = 1

\* The statements, the last one complete.
Closed(s) == IF s.cur = << >> THEN s.out ELSE Append(s.out, s.cur)

Ends(s, c) == c = Semicolon /\ ~Open(s)

Inks(s, c) == c # Space /\ (IsBreak(c) => Open(s))

Take(s, c) ==
    IF Ends(s, c) THEN Reader(s.quotes, Closed(s), << >>, << >>, s.breaks)
    ELSE IF Inks(s, c)
    THEN Reader(s.quotes + (IF c = "'" THEN 1 ELSE 0), s.out,
                (s.cur \o s.rest) \o <<CharOf(c)>>, << >>,
                s.breaks + (IF IsBreak(c) THEN 1 ELSE 0))
    ELSE IF s.cur = << >> THEN s
    ELSE Reader(s.quotes, s.out, s.cur, Append(s.rest, CharOf(c)), s.breaks)

\* What Take makes of each kind of character.
LEMMA TakeIs ==
    ASSUME NEW s, NEW c
    PROVE  /\ Ends(s, c) =>
                 Take(s, c) = Reader(s.quotes, Closed(s), << >>, << >>, s.breaks)
           /\ ~Ends(s, c) /\ Inks(s, c) =>
                 Take(s, c) =
                    Reader(s.quotes + (IF c = "'" THEN 1 ELSE 0), s.out,
                           (s.cur \o s.rest) \o <<CharOf(c)>>, << >>,
                           s.breaks + (IF IsBreak(c) THEN 1 ELSE 0))
           /\ ~Ends(s, c) /\ ~Inks(s, c) /\ s.cur = << >> => Take(s, c) = s
           /\ ~Ends(s, c) /\ ~Inks(s, c) /\ s.cur # << >> =>
                 Take(s, c) =
                    Reader(s.quotes, s.out, s.cur, Append(s.rest, CharOf(c)), s.breaks)
BY Zenon DEF Take

LEMMA ReaderIs ==
    ASSUME NEW q, NEW out, NEW cur, NEW rest, NEW breaks
    PROVE  /\ Reader(q, out, cur, rest, breaks).quotes = q
           /\ Reader(q, out, cur, rest, breaks).out = out
           /\ Reader(q, out, cur, rest, breaks).cur = cur
           /\ Reader(q, out, cur, rest, breaks).rest = rest
           /\ Reader(q, out, cur, rest, breaks).breaks = breaks
BY DEF Reader

LEMMA ReaderTyped ==
    ASSUME NEW B, NEW q \in Nat, NEW out \in Seq(Seq(B)), NEW cur \in Seq(B),
           NEW rest \in Seq(B), NEW breaks \in Nat
    PROVE  Reader(q, out, cur, rest, breaks) \in Readers(B)
BY DEF Reader, Readers

LEMMA ReadersAre ==
    ASSUME NEW B, NEW s \in Readers(B)
    PROVE  /\ s.quotes \in Nat /\ s.out \in Seq(Seq(B)) /\ s.cur \in Seq(B)
           /\ s.rest \in Seq(B) /\ s.breaks \in Nat
           /\ s = Reader(s.quotes, s.out, s.cur, s.rest, s.breaks)
BY DEF Reader, Readers

LEMMA FreshTyped ==
    ASSUME NEW B
    PROVE  Fresh \in Readers(B)
<1> DEFINE none == << >>
           texts == << >>
<1>1. none \in Seq(B) /\ texts \in Seq(Seq(B)) /\ 0 \in Nat
  OBVIOUS
<1>2. Fresh = Reader(0, texts, none, none, 0)
  BY Zenon DEF Fresh
<1> HIDE DEF none, texts
<1> QED
  BY <1>1, <1>2, ReaderTyped

LEMMA ClosedTyped ==
    ASSUME NEW B, NEW s \in Readers(B)
    PROVE  Closed(s) \in Seq(Seq(B))
<1> DEFINE C == Seq(B)
<1>1. s.out \in Seq(C) /\ s.cur \in C
  BY ReadersAre
<1> HIDE DEF C
<1>2. Append(s.out, s.cur) \in Seq(C)
  BY <1>1
<1>3. Closed(s) \in Seq(C)
  BY <1>1, <1>2, Zenon DEF Closed
<1> QED
  BY <1>3 DEF C

LEMMA CharTyped ==
    ASSUME NEW B, "LF" \in B, NEW c \in B
    PROVE  CharOf(c) \in B
BY DEF CharOf

LEMMA TakeTyped ==
    ASSUME NEW B, "LF" \in B, NEW s \in Readers(B), NEW c \in B
    PROVE  Take(s, c) \in Readers(B)
<1>1. /\ s.quotes \in Nat /\ s.out \in Seq(Seq(B)) /\ s.cur \in Seq(B)
      /\ s.rest \in Seq(B) /\ s.breaks \in Nat
  BY ReadersAre
<1>2. CharOf(c) \in B
  BY CharTyped
<1> DEFINE none == << >>
           x == CharOf(c)
           cur == s.cur
           rest == s.rest
           more == (s.cur \o s.rest) \o <<x>>
           further == Append(rest, x)
<1>3. none \in Seq(B)
  OBVIOUS
<1>4. more \in Seq(B) /\ further \in Seq(B)
  <2>1. cur \in Seq(B) /\ rest \in Seq(B) /\ x \in B
    BY <1>1, <1>2
  <2>2. more = (cur \o rest) \o <<x>>
    OBVIOUS
  <2> HIDE DEF cur, rest, x, more
  <2> QED
    BY <2>1, <2>2
<1>5. Closed(s) \in Seq(Seq(B))
  BY ClosedTyped
<1>6. CASE Ends(s, c)
  <2>1. Take(s, c) = Reader(s.quotes, Closed(s), none, none, s.breaks)
    BY <1>6, Zenon, TakeIs
  <2> HIDE DEF none
  <2> QED
    BY <1>1, <1>3, <1>5, <2>1, ReaderTyped
<1>7. CASE ~Ends(s, c) /\ Inks(s, c)
  <2> DEFINE q == s.quotes + (IF c = "'" THEN 1 ELSE 0)
             b == s.breaks + (IF IsBreak(c) THEN 1 ELSE 0)
  <2>1. Take(s, c) = Reader(q, s.out, more, none, b)
    BY <1>7, Zenon, TakeIs
  <2>2. q \in Nat /\ b \in Nat
    BY <1>1
  <2> HIDE DEF none, more, q, b
  <2> QED
    BY <1>1, <1>3, <1>4, <2>1, <2>2, ReaderTyped
<1>8. CASE ~Ends(s, c) /\ ~Inks(s, c)
  <2>1. Take(s, c) = s \/ Take(s, c) = Reader(s.quotes, s.out, s.cur, further, s.breaks)
    BY <1>8, Zenon, TakeIs
  <2> HIDE DEF further
  <2> QED
    BY <1>1, <1>4, <2>1, ReaderTyped
<1> QED
  BY <1>6, <1>7, <1>8

\* The quotes and the breaks are counted whatever becomes of the character.
LEMMA TakeCounts ==
    ASSUME NEW B, NEW s \in Readers(B), NEW c
    PROVE  /\ Take(s, c).quotes = s.quotes + (IF c = "'" THEN 1 ELSE 0)
           /\ Take(s, c).breaks =
                 s.breaks + (IF IsBreak(c) /\ Open(s) THEN 1 ELSE 0)
<1>1. s.quotes \in Nat /\ s.breaks \in Nat
  BY ReadersAre
<1>2. c = "'" => Inks(s, c) /\ ~Ends(s, c) /\ ~IsBreak(c)
  BY SignsDiffer, LineBreakDiffers DEF Inks, Ends, IsBreak
<1>3. IsBreak(c) => ~Ends(s, c) /\ (Open(s) <=> Inks(s, c))
  BY SignsDiffer, LineBreakDiffers DEF Inks, Ends, IsBreak
<1>4. CASE Ends(s, c)
  <2> DEFINE out == Closed(s)
             none == << >>
  <2>1. Take(s, c) = Reader(s.quotes, out, none, none, s.breaks)
    BY <1>4, Zenon, TakeIs
  <2> HIDE DEF out, none
  <2>2. Take(s, c).quotes = s.quotes /\ Take(s, c).breaks = s.breaks
    BY <2>1, ReaderIs
  <2> QED
    BY <1>1, <1>2, <1>3, <1>4, <2>2
<1>5. CASE ~Ends(s, c) /\ Inks(s, c)
  <2> DEFINE q == s.quotes + (IF c = "'" THEN 1 ELSE 0)
             b == s.breaks + (IF IsBreak(c) THEN 1 ELSE 0)
             cur == (s.cur \o s.rest) \o <<CharOf(c)>>
             none == << >>
  <2>1. Take(s, c) = Reader(q, s.out, cur, none, b)
    BY <1>5, Zenon, TakeIs
  <2>2. IsBreak(c) <=> IsBreak(c) /\ Open(s)
    BY <1>5 DEF Inks
  <2>3. Take(s, c).quotes = q /\ Take(s, c).breaks = b
    <3> HIDE DEF q, b, cur, none
    <3> QED
      BY <2>1, ReaderIs
  <2> QED
    BY <2>2, <2>3
<1>6. CASE ~Ends(s, c) /\ ~Inks(s, c)
  <2> DEFINE rest == Append(s.rest, CharOf(c))
  <2>1. Take(s, c) = s \/ Take(s, c) = Reader(s.quotes, s.out, s.cur, rest, s.breaks)
    BY <1>6, Zenon, TakeIs
  <2> HIDE DEF rest
  <2>2. Take(s, c).quotes = s.quotes /\ Take(s, c).breaks = s.breaks
    BY <2>1, ReaderIs
  <2> QED
    BY <1>1, <1>2, <1>3, <1>6, <2>2
<1> QED
  BY <1>4, <1>5, <1>6

\* What the reader has after each character of x.
Reading(run, x, s, B) ==
    /\ run \in [0 .. Len(x) -> Readers(B)] /\ run[0] = s
    /\ \A k \in 1 .. Len(x) : run[k] = Take(run[k - 1], x[k])

\* Reading x takes the reader from s to e.
ReadsTo(x, s, e, B) == \E run : Reading(run, x, s, B) /\ run[Len(x)] = e

LEMMA ReadingExists ==
    ASSUME NEW B, "LF" \in B, NEW x \in Seq(B), NEW s \in Readers(B)
    PROVE  \E run : Reading(run, x, s, B)
<1>1. PICK n \in Nat : Len(x) = n /\ \A k \in 1 .. n : x[k] \in B
  OBVIOUS
<1> DEFINE T == Readers(B)
           step == [k \in 1 .. n |-> [r \in T |-> Take(r, x[k])]]
<1>2. \A k \in 1 .. n : \A r \in T : Take(r, x[k]) \in T
  BY <1>1, TakeTyped
<1> HIDE DEF T
<1>3. Steps(step, 1 .. n, T)
  BY <1>2 DEF Steps
<1>4. \A k \in 1 .. n : \A r \in T : step[k][r] = Take(r, x[k])
  OBVIOUS
<1>5. s \in T
  BY DEF T
<1> HIDE DEF step
<1>6. PICK run : Runs(run, n, T, s, step)
  BY <1>3, <1>5, RunExists
<1>7. /\ run \in [0 .. n -> T] /\ run[0] = s
      /\ \A k \in 1 .. n : run[k] = step[k][run[k - 1]]
  BY <1>6 DEF Runs
<1>8. \A k \in 1 .. n : run[k - 1] \in T
  BY <1>7
<1>9. \A k \in 1 .. n : run[k] = Take(run[k - 1], x[k])
  BY <1>4, <1>7, <1>8
<1> QED
  BY <1>1, <1>7, <1>9 DEF Reading, T

LEMMA ReadsEnds ==
    ASSUME NEW B, NEW x \in Seq(B), NEW s, NEW e, ReadsTo(x, s, e, B)
    PROVE  s \in Readers(B) /\ e \in Readers(B)
<1>1. Len(x) \in Nat /\ 0 \in 0 .. Len(x) /\ Len(x) \in 0 .. Len(x)
  OBVIOUS
<1> QED
  BY <1>1 DEF ReadsTo, Reading

\* A stretch of a reading is the reading of the stretch.
LEMMA ReadingPart ==
    ASSUME NEW B, NEW x \in Seq(B), NEW s, NEW run, Reading(run, x, s, B),
           NEW a \in Nat, a # 0, NEW b \in Nat, a <= b + 1, b <= Len(x)
    PROVE  Reading([k \in 0 .. (b + 1) - a |-> run[a - 1 + k]], SubSeq(x, a, b),
                   run[a - 1], B)
<1> DEFINE u == SubSeq(x, a, b)
           m == (b + 1) - a
           part == [k \in 0 .. m |-> run[a - 1 + k]]
<1>1. Len(u) = m /\ m \in Nat /\ \A i \in 1 .. m : u[i] = x[a - 1 + i]
  BY PartOf
<1>2. \A k \in 0 .. m : a - 1 + k \in 0 .. Len(x)
  OBVIOUS
<1>3. part \in [0 .. m -> Readers(B)]
  BY <1>2 DEF Reading
<1>4. part[0] = run[a - 1]
  BY <1>1
<1>5. ASSUME NEW k \in 1 .. m PROVE part[k] = Take(part[k - 1], u[k])
  <2>1. /\ k \in 0 .. m /\ k - 1 \in 0 .. m /\ a - 1 + k \in 1 .. Len(x)
        /\ (a - 1 + k) - 1 = a - 1 + (k - 1)
    <3>1. k \in Nat /\ k # 0 /\ k <= (b + 1) - a /\ Len(x) \in Nat
      BY <1>1
    <3>2. a - 1 + k \in 1 .. Len(x) /\ (a - 1 + k) - 1 = a - 1 + (k - 1)
      BY <3>1
    <3>3. k \in 0 .. m /\ k - 1 \in 0 .. m
      BY <3>1
    <3> QED
      BY <3>2, <3>3
  <2>2. run[a - 1 + k] = Take(run[(a - 1 + k) - 1], x[a - 1 + k])
    BY <2>1 DEF Reading
  <2>3. part[k] = run[a - 1 + k] /\ part[k - 1] = run[a - 1 + (k - 1)]
    BY <2>1
  <2>4. u[k] = x[a - 1 + k]
    BY <1>1
  <2> HIDE DEF part, u
  <2> QED
    BY <2>1, <2>2, <2>3, <2>4
<1> HIDE DEF part, u, m
<1>6. Reading(part, u, run[a - 1], B)
  BY <1>1, <1>3, <1>4, <1>5 DEF Reading
<1> QED
  BY <1>6 DEF part, u, m

LEMMA ReadsPart ==
    ASSUME NEW B, NEW x \in Seq(B), NEW s, NEW run, Reading(run, x, s, B),
           NEW a \in Nat, a # 0, NEW b \in Nat, a <= b + 1, b <= Len(x)
    PROVE  ReadsTo(SubSeq(x, a, b), run[a - 1], run[b], B)
<1> DEFINE u == SubSeq(x, a, b)
           m == (b + 1) - a
           part == [k \in 0 .. m |-> run[a - 1 + k]]
<1>1. Len(u) = m /\ m \in Nat
  BY PartOf
<1>2. Reading(part, u, run[a - 1], B)
  BY ReadingPart
<1>3. part[m] = run[b]
  <2>1. m \in 0 .. m /\ a - 1 + m = b
    BY <1>1
  <2> QED
    BY <2>1
<1> HIDE DEF part, u, m
<1>4. ReadsTo(u, run[a - 1], run[b], B)
  BY <1>1, <1>2, <1>3 DEF ReadsTo
<1> QED
  BY <1>4 DEF u

LEMMA ReadsJoin ==
    ASSUME NEW B, NEW u \in Seq(B), NEW v \in Seq(B), NEW s, NEW m, NEW e,
           ReadsTo(u, s, m, B), ReadsTo(v, m, e, B)
    PROVE  u \o v \in Seq(B) /\ ReadsTo(u \o v, s, e, B)
<1> DEFINE w == u \o v
           c == Len(u)
           d == Len(v)
<1>1. PICK p : Reading(p, u, s, B) /\ p[c] = m
  BY DEF ReadsTo
<1>2. PICK q : Reading(q, v, m, B) /\ q[d] = e
  BY DEF ReadsTo
<1>3. /\ w \in Seq(B) /\ Len(w) = c + d
      /\ \A i \in 1 .. d : w[c + i] = v[i]
      /\ \A i \in 1 .. c : w[i] = u[i]
  BY Joined
<1>4. c \in Nat /\ d \in Nat
  OBVIOUS
<1>5. p \in [0 .. c -> Readers(B)] /\ p[0] = s
      /\ \A k \in 1 .. c : p[k] = Take(p[k - 1], u[k])
  BY <1>1 DEF Reading
<1>6. q \in [0 .. d -> Readers(B)] /\ q[0] = m
      /\ \A k \in 1 .. d : q[k] = Take(q[k - 1], v[k])
  BY <1>2 DEF Reading
<1> DEFINE run == [k \in 0 .. c + d |-> IF k <= c THEN p[k] ELSE q[k - c]]
<1> HIDE DEF w, c, d
<1>7. run \in [0 .. c + d -> Readers(B)]
  <2>1. ASSUME NEW k \in 0 .. c + d
        PROVE  (IF k <= c THEN p[k] ELSE q[k - c]) \in Readers(B)
    <3>1. k <= c => k \in 0 .. c
      BY <1>4
    <3>2. ~(k <= c) => k - c \in 0 .. d
      BY <1>4
    <3> QED
      BY <1>5, <1>6, <3>1, <3>2
  <2> QED
    BY <2>1
<1>8. run[0] = s /\ run[c + d] = e
  <2>1. 0 \in 0 .. c + d /\ 0 <= c /\ c + d \in 0 .. c + d
    BY <1>4
  <2>2. c + d <= c => d = 0 /\ c + d = c
    BY <1>4
  <2>3. (c + d) - c = d
    BY <1>4
  <2>4. run[0] = s
    BY <1>5, <2>1
  <2>5. run[c + d] = IF c + d <= c THEN p[c + d] ELSE q[(c + d) - c]
    BY <2>1
  <2> HIDE DEF run
  <2>6. c + d <= c => run[c + d] = e
    BY <1>1, <1>2, <1>6, <2>2, <2>5
  <2>7. ~(c + d <= c) => run[c + d] = e
    BY <1>2, <2>3, <2>5
  <2> QED
    BY <2>4, <2>6, <2>7
<1>9. ASSUME NEW k \in 1 .. c + d PROVE run[k] = Take(run[k - 1], w[k])
  <2>1. k \in 0 .. c + d /\ k - 1 \in 0 .. c + d
    BY <1>4
  <2>2. /\ run[k] = IF k <= c THEN p[k] ELSE q[k - c]
        /\ run[k - 1] = IF k - 1 <= c THEN p[k - 1] ELSE q[(k - 1) - c]
    BY <2>1
  <2> HIDE DEF run
  <2>3. CASE k <= c
    <3>1. k \in 1 .. c /\ k - 1 <= c
      BY <1>4, <2>3
    <3> QED
      BY <1>3, <1>5, <2>2, <2>3, <3>1
  <2>4. CASE ~(k <= c)
    <3> DEFINE x == k - c
    <3>1. x \in 1 .. d /\ k = c + x /\ (k - 1) - c = x - 1
      BY <1>4, <2>4
    <3>2. k - 1 <= c => k - 1 = c /\ x - 1 = 0
      BY <1>4, <2>4
    <3>3. run[k] = q[x]
      BY <2>2, <2>4
    <3>4. run[k - 1] = q[x - 1]
      BY <1>1, <1>6, <2>2, <3>1, <3>2
    <3> HIDE DEF x
    <3>5. w[k] = v[x] /\ q[x] = Take(q[x - 1], v[x])
      BY <1>3, <1>6, <3>1
    <3> QED
      BY <3>3, <3>4, <3>5
  <2> QED
    BY <2>3, <2>4
<1> HIDE DEF run
<1>10. Reading(run, w, s, B)
  BY <1>3, <1>7, <1>8, <1>9 DEF Reading
<1>11. ReadsTo(w, s, e, B)
  BY <1>3, <1>8, <1>10 DEF ReadsTo
<1> QED
  BY <1>3, <1>11 DEF w

LEMMA ReadsOne ==
    ASSUME NEW B, "LF" \in B, NEW s \in Readers(B), NEW c \in B
    PROVE  <<c>> \in Seq(B) /\ ReadsTo(<<c>>, s, Take(s, c), B)
<1> DEFINE x == <<c>>
           e == Take(s, c)
<1>1. x \in Seq(B) /\ Len(x) = 1 /\ x[1] = c /\ 1 \in 1 .. 1 /\ 1 - 1 = 0
  OBVIOUS
<1> HIDE DEF x
<1>2. PICK run : Reading(run, x, s, B)
  BY <1>1, ReadingExists
<1>3. run[0] = s /\ run[1] = Take(run[0], x[1])
  BY <1>1, <1>2 DEF Reading
<1>4. ReadsTo(x, s, e, B)
  BY <1>1, <1>2, <1>3 DEF ReadsTo
<1> QED
  BY <1>1, <1>4 DEF x

LEMMA ReadsNone ==
    ASSUME NEW B, "LF" \in B, NEW s \in Readers(B)
    PROVE  << >> \in Seq(B) /\ ReadsTo(<< >>, s, s, B)
<1> DEFINE x == << >>
<1>1. x \in Seq(B) /\ Len(x) = 0
  OBVIOUS
<1> HIDE DEF x
<1>2. PICK run : Reading(run, x, s, B)
  BY <1>1, ReadingExists
<1>3. run[0] = s
  BY <1>2 DEF Reading
<1>4. ReadsTo(x, s, s, B)
  BY <1>1, <1>2, <1>3 DEF ReadsTo
<1> QED
  BY <1>1, <1>4 DEF x

\* The quotes read are those of the text.
LEMMA ReadsQuotes ==
    ASSUME NEW B, NEW x \in Seq(B), NEW s, NEW run, Reading(run, x, s, B)
    PROVE  \A k \in 0 .. Len(x) :
              run[k].quotes = s.quotes + QuotesBefore(x, k + 1)
<1>1. PICK n \in Nat : Len(x) = n
  OBVIOUS
<1>2. /\ run \in [0 .. n -> Readers(B)] /\ run[0] = s
      /\ \A k \in 1 .. n : run[k] = Take(run[k - 1], x[k])
  BY <1>1 DEF Reading
<1>3. \A k \in 0 .. n : run[k] \in Readers(B) /\ run[k].quotes \in Nat
  <2>1. \A k \in 0 .. n : run[k] \in Readers(B)
    BY <1>2
  <2> QED
    BY <2>1, ReadersAre
<1> DEFINE Good == {k \in 0 .. n : run[k].quotes = s.quotes + QuotesBefore(x, k + 1)}
<1>4. 0 \in Good
  <2>1. QuotesBefore(x, 1) = 0 /\ 0 \in 0 .. n /\ 0 + 1 = 1
    BY <1>1, QuotesStep
  <2> QED
    BY <1>2, <1>3, <2>1
<1>5. ASSUME NEW k \in 1 .. n, k - 1 \in Good PROVE k \in Good
  <2>1. k \in Nat /\ k # 0 /\ (k - 1) + 1 = k /\ k \in 0 .. n /\ k - 1 \in 0 .. n
    BY <1>1
  <2>2. run[k - 1].quotes = s.quotes + QuotesBefore(x, k)
    BY <1>5, <2>1
  <2>3. /\ QuotesBefore(x, k) \in Nat
        /\ QuotesBefore(x, k + 1) = QuotesBefore(x, k) + (IF x[k] = "'" THEN 1 ELSE 0)
    BY <2>1, QuotesStep
  <2> DEFINE r == run[k - 1]
             c == x[k]
  <2>4. r \in Readers(B) /\ run[k] = Take(r, c)
    BY <1>2, <1>3, <2>1
  <2> HIDE DEF r, c
  <2>5. Take(r, c).quotes = r.quotes + (IF c = "'" THEN 1 ELSE 0)
    BY <2>4, TakeCounts
  <2>6. run[k].quotes = s.quotes + QuotesBefore(x, k + 1)
    <3>1. run[k].quotes = (s.quotes + QuotesBefore(x, k)) + (IF x[k] = "'" THEN 1 ELSE 0)
      BY <2>2, <2>4, <2>5 DEF r, c
    <3>2. s.quotes \in Nat
      BY <1>1, <1>2, <1>3
    <3> QED
      BY <2>3, <3>1, <3>2
  <2> QED
    BY <2>1, <2>6
<1> HIDE DEF Good
<1>6. \A k \in 0 .. n : k \in Good
  BY <1>1, <1>4, <1>5, Upto
<1> QED
  BY <1>1, <1>6 DEF Good

\* Parts of a text, put together.
LEMMA PartsJoin ==
    ASSUME NEW B, NEW v \in Seq(B), NEW a \in Nat, a # 0, NEW b \in Nat, NEW c \in Nat,
           a <= b + 1, b <= c, c <= Len(v)
    PROVE  SubSeq(v, a, b) \o SubSeq(v, b + 1, c) = SubSeq(v, a, c)
<1> DEFINE x == SubSeq(v, a, b)
           y == SubSeq(v, b + 1, c)
           z == SubSeq(v, a, c)
           m == (b + 1) - a
           n == (c + 1) - (b + 1)
<1>1. x \in Seq(B) /\ Len(x) = m /\ \A i \in 1 .. m : x[i] = v[a - 1 + i]
  BY PartOf
<1>2. b + 1 \in Nat /\ b + 1 # 0 /\ b + 1 <= c + 1
  OBVIOUS
<1>3. y \in Seq(B) /\ Len(y) = n /\ \A i \in 1 .. n : y[i] = v[(b + 1) - 1 + i]
  BY <1>2, PartOf
<1>4. /\ z \in Seq(B) /\ Len(z) = (c + 1) - a
      /\ \A i \in 1 .. (c + 1) - a : z[i] = v[a - 1 + i]
  BY <1>2, PartOf
<1>5. /\ x \o y \in Seq(B) /\ Len(x \o y) = Len(x) + Len(y)
      /\ \A i \in 1 .. Len(y) : (x \o y)[Len(x) + i] = y[i]
      /\ \A i \in 1 .. Len(x) : (x \o y)[i] = x[i]
  <2>1. x \in Seq(B) /\ y \in Seq(B)
    BY <1>1, <1>3
  <2> HIDE DEF x, y
  <2> QED
    BY <2>1, Joined
<1> DEFINE w == x \o y
<1>6. m \in Nat /\ n \in Nat /\ m + n = (c + 1) - a
  OBVIOUS
<1> HIDE DEF x, y, z, w
<1>7. ASSUME NEW i \in 1 .. (c + 1) - a PROVE w[i] = z[i]
  <2>1. CASE i <= m
    <3>1. i \in 1 .. m
      BY <1>6, <2>1
    <3> QED
      BY <1>1, <1>4, <1>5, <3>1 DEF w
  <2>2. CASE ~(i <= m)
    <3> DEFINE j == i - m
    <3>1. j \in 1 .. n /\ m + j = i /\ (b + 1) - 1 + j = a - 1 + i
      BY <1>6, <2>2
    <3> HIDE DEF j
    <3>2. w[i] = y[j]
      BY <1>1, <1>3, <1>5, <3>1 DEF w
    <3> QED
      BY <1>3, <1>4, <3>1, <3>2
  <2> QED
    BY <2>1, <2>2
<1>8. Len(w) = (c + 1) - a
  BY <1>1, <1>3, <1>5, <1>6 DEF w
<1>9. w = z
  <2> HIDE DEF m, n
  <2>1. w \in Seq(B) /\ Len(w) = Len(z)
    BY <1>4, <1>5, <1>8 DEF w
  <2> QED
    BY <1>4, <1>7, <2>1, <1>8, SameSeq
<1> QED
  BY <1>9 DEF w, x, y, z

LEMMA PartIsOne ==
    ASSUME NEW B, NEW v \in Seq(B), NEW k \in 1 .. Len(v)
    PROVE  SubSeq(v, k, k) = <<v[k]>> /\ SubSeq(v, k + 1, k) = << >>
<1> DEFINE u == SubSeq(v, k, k)
           w == SubSeq(v, k + 1, k)
           x == <<v[k]>>
           none == << >>
<1>1. k \in Nat /\ k # 0 /\ k <= k + 1 /\ k <= Len(v) /\ k + 1 \in Nat /\ k + 1 # 0
      /\ (k + 1) - k = 1 /\ (k + 1) - (k + 1) = 0 /\ 1 \in 1 .. 1 /\ k - 1 + 1 = k
  OBVIOUS
<1>2. u \in Seq(B) /\ Len(u) = 1 /\ u[1] = v[k]
  BY <1>1, PartOf
<1>3. w \in Seq(B) /\ Len(w) = 0
  BY <1>1, PartOf
<1>4. x \in Seq(B) /\ Len(x) = 1 /\ x[1] = v[k] /\ none \in Seq(B) /\ Len(none) = 0
  OBVIOUS
<1> HIDE DEF u, w, x, none
<1>5. u = x
  BY <1>2, <1>4, SameSeq
<1>6. w = none
  <2>1. \A y \in 1 .. Len(w) : w[y] = none[y]
    BY <1>3
  <2> QED
    BY <1>3, <1>4, <2>1, SameSeq
<1> QED
  BY <1>5, <1>6 DEF u, w, x, none

LEMMA AppendIs ==
    ASSUME NEW B, NEW u \in Seq(B), NEW x \in B
    PROVE  Append(u, x) = u \o <<x>>
OBVIOUS

\* What belongs to a statement: from its first inked character to its last one.
Gathered(s, v, own, k) ==
    \/ own = {} /\ s.cur = << >> /\ s.rest = << >>
    \/ \E a, b \in own : /\ \A i \in own : a <= i /\ i <= b
                         /\ s.cur = SubSeq(v, a, b) /\ s.rest = SubSeq(v, b + 1, k)

LEMMA GatherMore ==
    ASSUME NEW B, NEW v \in Seq(B), NEW k \in 1 .. Len(v), NEW s \in Readers(B),
           NEW c, v[k] = CharOf(c),
           NEW own \in SUBSET (1 .. k - 1), Gathered(s, v, own, k - 1),
           ~Ends(s, c), Inks(s, c)
    PROVE  Gathered(Take(s, c), v, own \cup {k}, k)
<1> DEFINE e == Take(s, c)
           x == CharOf(c)
           q == s.quotes + (IF c = "'" THEN 1 ELSE 0)
           breaks == s.breaks + (IF IsBreak(c) THEN 1 ELSE 0)
           more == (s.cur \o s.rest) \o <<x>>
           none == << >>
           O == own \cup {k}
<1>1. e = Reader(q, s.out, more, none, breaks)
  BY Zenon, TakeIs
<1> HIDE DEF q, breaks, more, e
<1>2. e.cur = more /\ e.rest = none
  BY <1>1, ReaderIs
<1>3. SubSeq(v, k, k) = <<x>> /\ SubSeq(v, k + 1, k) = none /\ k \in O
  BY PartIsOne
<1>4. PICK n \in Nat : Len(v) = n /\ k \in 1 .. n
  OBVIOUS
<1>5. CASE own = {} /\ s.cur = << >> /\ s.rest = << >>
  <2>1. more = <<x>>
    BY <1>5 DEF more
  <2>2. \A i \in O : k <= i /\ i <= k
    BY <1>4, <1>5
  <2> HIDE DEF O, none
  <2>3. Gathered(e, v, O, k)
    BY <1>2, <1>3, <2>1, <2>2 DEF Gathered
  <2> QED
    BY <2>3 DEF O, e
<1>6. ASSUME NEW a \in own, NEW b \in own, \A i \in own : a <= i /\ i <= b,
             s.cur = SubSeq(v, a, b), s.rest = SubSeq(v, b + 1, k - 1)
      PROVE  Gathered(e, v, O, k)
  <2>1. /\ a \in Nat /\ a # 0 /\ b \in Nat /\ k - 1 \in Nat /\ a <= b /\ b <= k - 1
        /\ k - 1 <= n /\ (k - 1) + 1 = k /\ a <= k /\ k <= n /\ k \in Nat
    BY <1>4, <1>6
  <2>2. SubSeq(v, a, b) \o SubSeq(v, b + 1, k - 1) = SubSeq(v, a, k - 1)
    BY <1>4, <2>1, PartsJoin
  <2> DEFINE d == k - 1
  <2>3. SubSeq(v, a, d) \o SubSeq(v, d + 1, k) = SubSeq(v, a, k)
    <3>1. d \in Nat /\ a <= d + 1 /\ d <= k /\ k <= Len(v)
      BY <1>4, <2>1
    <3> HIDE DEF d
    <3> QED
      BY <2>1, <3>1, PartsJoin
  <2>4. more = SubSeq(v, a, k)
    BY <1>3, <1>6, <2>1, <2>2, <2>3 DEF more
  <2>5. \A i \in O : a <= i /\ i <= k
    BY <1>4, <1>6, <2>1
  <2>6. a \in O
    OBVIOUS
  <2> HIDE DEF O, none
  <2> QED
    BY <1>2, <1>3, <2>4, <2>5, <2>6 DEF Gathered
<1>7. Gathered(e, v, O, k)
  BY <1>5, <1>6 DEF Gathered, e, O
<1> QED
  BY <1>7 DEF e, O

LEMMA GatherBlank ==
    ASSUME NEW B, NEW v \in Seq(B), NEW k \in 1 .. Len(v), NEW s \in Readers(B),
           NEW c, v[k] = CharOf(c),
           NEW own \in SUBSET (1 .. k - 1), Gathered(s, v, own, k - 1),
           ~Ends(s, c), ~Inks(s, c)
    PROVE  Gathered(Take(s, c), v, own, k)
<1> DEFINE e == Take(s, c)
           x == CharOf(c)
           more == Append(s.rest, x)
<1>1. PICK n \in Nat : Len(v) = n /\ k \in 1 .. n
  OBVIOUS
<1>2. CASE own = {} /\ s.cur = << >> /\ s.rest = << >>
  <2>1. e = s
    BY <1>2, Zenon, TakeIs
  <2> QED
    BY <1>2, <2>1 DEF Gathered
<1>3. ASSUME NEW a \in own, NEW b \in own, \A i \in own : a <= i /\ i <= b,
             s.cur = SubSeq(v, a, b), s.rest = SubSeq(v, b + 1, k - 1)
      PROVE  Gathered(e, v, own, k)
  <2>1. /\ a \in Nat /\ a # 0 /\ b \in Nat /\ k - 1 \in Nat /\ a <= b /\ b <= k - 1
        /\ k - 1 <= n /\ (k - 1) + 1 = k /\ k <= n /\ k \in Nat
    BY <1>1, <1>3
  <2>2. s.cur # << >>
    <3>1. Len(SubSeq(v, a, b)) = (b + 1) - a /\ b <= Len(v)
      BY <1>1, <2>1, PartOf
    <3>2. (b + 1) - a # 0
      BY <2>1
    <3> DEFINE u == SubSeq(v, a, b)
    <3>3. Len(u) # 0 /\ s.cur = u
      BY <1>3, <3>1, <3>2
    <3> HIDE DEF u
    <3>4. Len(<< >>) = 0
      OBVIOUS
    <3> QED
      BY <3>3, <3>4
  <2>3. e = Reader(s.quotes, s.out, s.cur, more, s.breaks)
    BY <2>2, Zenon, TakeIs
  <2> DEFINE d == k - 1
             f == b + 1
  <2>4. SubSeq(v, f, d) \o SubSeq(v, d + 1, k) = SubSeq(v, f, k)
    <3>1. f \in Nat /\ f # 0 /\ d \in Nat /\ f <= d + 1 /\ d <= k /\ k <= Len(v)
      BY <1>1, <2>1
    <3> HIDE DEF d, f
    <3> QED
      BY <2>1, <3>1, PartsJoin
  <2>5. SubSeq(v, k, k) = <<x>>
    BY PartIsOne
  <2>6. more = SubSeq(v, b + 1, k)
    <3>1. d + 1 = k
      BY <2>1
    <3>2. SubSeq(v, f, d) \in Seq(B)
      <4>1. f \in Nat /\ f # 0 /\ d \in Nat /\ f <= d + 1 /\ d <= Len(v)
        BY <1>1, <2>1
      <4> HIDE DEF d, f
      <4> QED
        BY <4>1, PartOf
    <3>3. s.rest = SubSeq(v, f, d)
      BY <1>3
    <3> HIDE DEF d
    <3>4. SubSeq(v, f, d) \o <<x>> = SubSeq(v, f, k)
      BY <2>4, <2>5, <3>1
    <3>5. x \in B /\ s.rest \in Seq(B)
      BY ReadersAre
    <3> HIDE DEF x
    <3>6. Append(s.rest, x) = s.rest \o <<x>>
      BY <3>5, AppendIs
    <3> QED
      BY <3>3, <3>4, <3>6
  <2> HIDE DEF e, more
  <2>7. e.cur = s.cur /\ e.rest = more
    BY <2>3, ReaderIs
  <2> QED
    BY <1>3, <2>6, <2>7 DEF Gathered
<1> QED
  BY <1>2, <1>3 DEF Gathered

LEMMA GatherEnd ==
    ASSUME NEW s, NEW c, NEW v, NEW k, Ends(s, c)
    PROVE  Gathered(Take(s, c), v, {}, k)
<1> DEFINE out == Closed(s)
           none == << >>
<1>1. Take(s, c) = Reader(s.quotes, out, none, none, s.breaks)
  BY Zenon, TakeIs
<1> HIDE DEF out, none
<1>2. Take(s, c).cur = none /\ Take(s, c).rest = none
  BY <1>1, ReaderIs
<1> QED
  BY <1>2 DEF Gathered, none

\* The texts up to the d-th that are not empty.
Nonempty(texts, d) == {j \in 1 .. d : texts[j] # << >>}

LEMMA SelectedOne ==
    ASSUME NEW A, NEW t \in Seq(A), NEW j \in 1 .. Len(t)
    PROVE  Selected(t, {j}) = <<t[j]>>
<1> DEFINE b == j + 1
           T == j .. b - 1
<1>1. j \in Nat /\ b \in Nat /\ 1 <= j /\ j <= b /\ b <= Len(t) + 1
  OBVIOUS
<1>2. SubSeq(t, j, b - 1) = Selected(t, j .. b - 1)
  <2> HIDE DEF b
  <2> QED
    BY <1>1, SelectedStretch
<1>3. b - 1 = j /\ T = {j}
  OBVIOUS
<1>4. SubSeq(t, j, j) = <<t[j]>>
  BY PartIsOne
<1> HIDE DEF b, T
<1>5. SubSeq(t, j, b - 1) = Selected(t, T)
  BY <1>2 DEF T
<1> QED
  BY <1>3, <1>4, <1>5

\* A statement is complete: its text joins the others, if it has one.
LEMMA CloseText ==
    ASSUME NEW B, NEW M \in Nat, NEW texts \in Seq(Seq(B)), Len(texts) = M,
           NEW d \in 0 .. M - 1, NEW s \in Readers(B),
           s.out = Selected(texts, Nonempty(texts, d)), texts[d + 1] = s.cur
    PROVE  Closed(s) = Selected(texts, Nonempty(texts, d + 1))
<1> DEFINE C == Seq(B)
           S == Nonempty(texts, d)
           j == d + 1
           cur == s.cur
<1>1. texts \in Seq(C) /\ j \in 1 .. M /\ d \in Nat
  OBVIOUS
<1>2. texts[j] = cur /\ s.out = Selected(texts, S)
  OBVIOUS
<1>3. S \in SUBSET (1 .. M) /\ \A i \in S : i < j
  BY DEF Nonempty
<1>4. cur \in C
  BY <1>1, <1>2
<1>5. s.out \in Seq(C)
  BY ReadersAre
<1>6. CASE cur = << >>
  <2>1. Nonempty(texts, d + 1) = S
    <3>1. \A i \in 1 .. d + 1 : i = d + 1 \/ i \in 1 .. d
      BY <1>1
    <3>2. \A i \in 1 .. d : i \in 1 .. d + 1
      BY <1>1
    <3> QED
      BY <1>2, <1>6, <3>1, <3>2 DEF Nonempty
  <2> QED
    BY <1>2, <1>6, <2>1 DEF Closed
<1>7. CASE cur # << >>
  <2>1. Nonempty(texts, d + 1) = S \cup {j}
    <3>1. \A i \in 1 .. d + 1 : i = d + 1 \/ i \in 1 .. d
      BY <1>1
    <3>2. d + 1 \in 1 .. d + 1 /\ \A i \in 1 .. d : i \in 1 .. d + 1
      BY <1>1
    <3> QED
      BY <1>2, <1>7, <3>1, <3>2 DEF Nonempty
  <2> DEFINE T == {j}
  <2>2. T \in SUBSET (1 .. M) /\ \A i \in S : \A y \in T : i < y
    BY <1>1, <1>3
  <2> HIDE DEF S, T, C, j, cur
  <2>3. Selected(texts, S \cup T) = Selected(texts, S) \o Selected(texts, T)
    <3>1. Before(S, T, Len(texts))
      BY <1>3, <2>2 DEF Before
    <3> QED
      BY <1>1, <3>1, JoinedBy
  <2>4. Selected(texts, T) = <<cur>>
    <3>1. j \in 1 .. Len(texts)
      BY <1>1
    <3> QED
      BY <1>1, <1>2, <3>1, SelectedOne DEF T
  <2>5. Closed(s) = Append(s.out, s.cur)
    BY <1>7, Zenon DEF Closed, cur
  <2>6. Append(s.out, cur) = s.out \o <<cur>>
    BY <1>4, <1>5, AppendIs
  <2>7. Closed(s) = s.out \o <<cur>>
    BY <2>5, <2>6 DEF cur
  <2>8. Selected(texts, S \cup T) = s.out \o <<cur>>
    BY <1>2, <2>3, <2>4
  <2>9. Nonempty(texts, d + 1) = S \cup T
    BY <2>1 DEF T
  <2> QED
    BY <2>7, <2>8, <2>9
<1> QED
  BY <1>6, <1>7

\* The text of a statement is what has been gathered of it.
LEMMA GatheredText ==
    ASSUME NEW N \in Nat, NEW value, NEW cuts, NEW end, NEW own \in SUBSET (1 .. N),
           own = OwnOf(value, cuts, end), NEW s, NEW k, Gathered(s, value, own, k)
    PROVE  TextOf(value, cuts, end) = s.cur
<1>1. CASE own = {} /\ s.cur = << >> /\ s.rest = << >>
  BY <1>1 DEF TextOf
<1>2. ASSUME NEW a \in own, NEW b \in own, \A i \in own : a <= i /\ i <= b,
             s.cur = SubSeq(value, a, b)
      PROVE  TextOf(value, cuts, end) = s.cur
  <2>1. own \subseteq Nat /\ own # {}
    OBVIOUS
  <2>2. Min(own) \in own /\ \A i \in own : Min(own) <= i
    BY <2>1, LeastOf
  <2>3. Min(own) = a
    BY <1>2, <2>1, <2>2
  <2>4. Max(own) = b
    <3>1. own \subseteq 1 .. N
      OBVIOUS
    <3>2. Max(own) \in own /\ \A i \in own : i <= Max(own)
      BY <2>1, <3>1, LargestNumber
    <3> QED
      BY <1>2, <2>1, <3>2
  <2> QED
    BY <1>2, <2>1, <2>3, <2>4 DEF TextOf
<1> QED
  BY <1>1, <1>2 DEF Gathered

\* The characters that belong to no statement that ends by k.
OwnAt(K, cuts, k) == {i \in K : i <= k /\ \A c \in cuts : c <= k => c < i}

\* How the characters that belong to the open statement change by one more.
OwnGrows(K, cuts, k) ==
    /\ OwnAt(K, cuts, k - 1) \in SUBSET (1 .. k - 1)
    /\ k \in cuts => OwnAt(K, cuts, k) = {}
    /\ k \in K => OwnAt(K, cuts, k) = OwnAt(K, cuts, k - 1) \cup {k}
    /\ k \notin cuts /\ k \notin K => OwnAt(K, cuts, k) = OwnAt(K, cuts, k - 1)

Apart(K, cuts, n) ==
    K \subseteq 1 .. n /\ cuts \subseteq 1 .. n /\ \A i \in cuts : i \notin K

LEMMA OwnMore ==
    ASSUME NEW n \in Nat, NEW K, NEW cuts, Apart(K, cuts, n), NEW k \in 1 .. n
    PROVE  OwnGrows(K, cuts, k)
<1> DEFINE O == OwnAt(K, cuts, k - 1)
           Q == OwnAt(K, cuts, k)
<1>1. \A i \in 1 .. n : i <= k - 1 <=> i <= k /\ i # k
  OBVIOUS
<1>2. \A i \in K : i \in 1 .. n
  BY DEF Apart
<1>3. \A i \in cuts : i \in 1 .. n
  BY DEF Apart
<1>4. O \in SUBSET (1 .. k - 1)
  <2>1. ASSUME NEW i \in O PROVE i \in 1 .. k - 1
    <3>1. i \in K /\ i <= k - 1
      BY Zenon DEF OwnAt
    <3>2. i \in 1 .. n
      BY <1>2, <3>1
    <3> QED
      BY <3>1, <3>2
  <2> HIDE DEF O
  <2> QED
    BY <2>1
<1>5. ASSUME k \in cuts PROVE Q = {}
  <2> SUFFICES ASSUME NEW i \in Q PROVE FALSE
    OBVIOUS
  <2>1. i \in K /\ i <= k /\ (k <= k => k < i)
    BY <1>5 DEF OwnAt
  <2> QED
    BY <1>2, <2>1
<1>6. ASSUME k \notin cuts PROVE \A i : i # k => (i \in Q <=> i \in O)
  <2>1. \A c \in cuts : c <= k <=> c <= k - 1
    BY <1>1, <1>3, <1>6
  <2>2. \A i \in K : i # k => (i <= k <=> i <= k - 1)
    BY <1>1, <1>2
  <2> QED
    BY <2>1, <2>2, Zenon DEF OwnAt
<1>7. k \notin O
  BY <1>4
<1>8. ASSUME k \in K PROVE k \in Q
  <2>1. k \notin cuts
    BY <1>8 DEF Apart
  <2>2. \A c \in cuts : c <= k => c < k
    BY <1>3, <2>1
  <2>3. k <= k
    OBVIOUS
  <2> QED
    BY <1>8, <2>2, <2>3 DEF OwnAt
<1>9. k \notin K => k \notin Q
  BY DEF OwnAt
<1>10. k \in K => k \notin cuts
  BY DEF Apart
<1> HIDE DEF O, Q
<1>11. k \in K => Q = O \cup {k}
  BY <1>6, <1>8, <1>10
<1>12. k \notin cuts /\ k \notin K => Q = O
  BY <1>6, <1>7, <1>9
<1> QED
  BY <1>4, <1>5, <1>11, <1>12 DEF O, Q, OwnGrows

LEMMA ValueIs ==
    ASSUME NEW B, "LF" \in B, NEW x \in Seq(B)
    PROVE  /\ ValueOf(x) \in Seq(B) /\ Len(ValueOf(x)) = Len(x)
           /\ \A i \in 1 .. Len(x) : ValueOf(x)[i] = CharOf(x[i])
<1> DEFINE value == ValueOf(x)
<1>1. PICK n \in Nat : Len(x) = n /\ DOMAIN x = 1 .. n
  OBVIOUS
<1>2. value = [i \in 1 .. n |-> CharOf(x[i])]
  BY <1>1 DEF ValueOf, CharOf
<1>3. \A i \in 1 .. n : CharOf(x[i]) \in B
  BY <1>1, CharTyped
<1> HIDE DEF value
<1>4. value \in [1 .. n -> B]
  BY <1>2, <1>3
<1>5. value \in Seq(B) /\ Len(value) = n
  BY <1>4
<1> QED
  BY <1>1, <1>2, <1>5 DEF value

\* What the reader makes of a character: an end, ink or a blank, by the text.
LEMMA ReaderSees ==
    ASSUME NEW B, "LF" \in B, NEW x \in Seq(B), NEW run, Reading(run, x, Fresh, B),
           NEW i \in 1 .. Len(x)
    PROVE  LET value == ValueOf(x)
               cuts == CutsOf(value)
           IN  /\ i \in cuts <=> Ends(run[i - 1], x[i])
               /\ (value[i] # Space /\ (value[i] = "LF" => Inside(value, i)))
                     <=> Inks(run[i - 1], x[i])
<1> DEFINE value == ValueOf(x)
<1>1. PICK n \in Nat : Len(x) = n /\ i \in 1 .. n
  OBVIOUS
<1>2. /\ value \in Seq(B) /\ Len(value) = n
      /\ \A k \in 1 .. n : value[k] = CharOf(x[k])
  BY <1>1, ValueIs
<1> HIDE DEF value
<1>3. DOMAIN value = 1 .. n
  BY <1>2
<1>4. QuotesBefore(value, i) = QuotesBefore(x, i)
  <2>1. \A k \in 1 .. i - 1 : value[k] = "'" <=> x[k] = "'"
    <3> TAKE k \in 1 .. i - 1
    <3>1. value[k] = CharOf(x[k])
      BY <1>1, <1>2
    <3> QED
      BY <3>1, SignsDiffer, LineBreakDiffers DEF CharOf
  <2>2. {k \in 1 .. (i - 1) : value[k] = "'"} = {k \in 1 .. (i - 1) : x[k] = "'"}
    BY <2>1
  <2> QED
    BY <2>2 DEF QuotesBefore
<1>5. Inside(value, i) <=> Open(run[i - 1])
  <2>1. i - 1 \in 0 .. n /\ (i - 1) + 1 = i /\ i \in 1 .. Len(value) + 1
        /\ i \in Nat /\ i # 0
    BY <1>1, <1>2
  <2>2. run[i - 1].quotes = Fresh.quotes + QuotesBefore(x, i)
    BY <1>1, <2>1, ReadsQuotes
  <2>3. Fresh.quotes = 0
    BY DEF Fresh, Reader
  <2>4. QuotesBefore(x, i) \in Nat
    BY <2>1, QuotesStep
  <2>5. run[i - 1].quotes = QuotesBefore(value, i)
    BY <1>4, <2>2, <2>3, <2>4
  <2>6. Inside(value, i) <=> QuotesBefore(value, i) % 2 = 1
    BY <1>2, <2>1, InsideIs
  <2> QED
    BY <2>5, <2>6 DEF Open
<1>6. /\ value[i] = Semicolon <=> x[i] = Semicolon
      /\ value[i] = Space <=> x[i] = Space
      /\ value[i] = "LF" <=> IsBreak(x[i])
  <2>1. value[i] = CharOf(x[i])
    BY <1>1, <1>2
  <2> QED
    BY <2>1, SignsDiffer, LineBreakDiffers DEF CharOf, IsBreak
<1>7. i \in CutsOf(value) <=> Ends(run[i - 1], x[i])
  BY <1>1, <1>3, <1>5, <1>6 DEF CutsOf, Ends
<1>8. (value[i] # Space /\ (value[i] = "LF" => Inside(value, i)))
         <=> Inks(run[i - 1], x[i])
  BY <1>5, <1>6 DEF Inks
<1> QED
  BY <1>7, <1>8 DEF value

LEMMA SelectedNothing ==
    ASSUME NEW t
    PROVE  Selected(t, {}) = << >>
<1> DEFINE z == << >>
           S == {}
           r == Selected(t, S)
<1>1. S \in SUBSET (1 .. 0) /\ Enumerates(z, 0, S)
  BY DEF Enumerates
<1>2. Listing(z, 0, S, 0)
  BY <1>1 DEF Listing
<1> HIDE DEF S, z
<1>3. r = Read(t, z, 0)
  BY <1>2, SelectedBy
<1>4. Read(t, z, 0) = << >>
  BY DEF Read
<1> QED
  BY <1>3, <1>4 DEF S

\* A character that ends no statement completes none.
LEMMA TakeKeeps ==
    ASSUME NEW s, NEW c, ~Ends(s, c)
    PROVE  Take(s, c).out = s.out
<1>1. CASE Inks(s, c)
  <2> DEFINE q == s.quotes + (IF c = "'" THEN 1 ELSE 0)
             b == s.breaks + (IF IsBreak(c) THEN 1 ELSE 0)
             cur == (s.cur \o s.rest) \o <<CharOf(c)>>
             none == << >>
  <2>1. Take(s, c) = Reader(q, s.out, cur, none, b)
    BY <1>1, Zenon, TakeIs
  <2> HIDE DEF q, b, cur, none
  <2> QED
    BY <2>1, ReaderIs
<1>2. CASE ~Inks(s, c)
  <2> DEFINE rest == Append(s.rest, CharOf(c))
  <2>1. Take(s, c) = s \/ Take(s, c) = Reader(s.quotes, s.out, s.cur, rest, s.breaks)
    BY <1>2, Zenon, TakeIs
  <2> HIDE DEF rest
  <2> QED
    BY <2>1, ReaderIs
<1> QED
  BY <1>1, <1>2

LEMMA TextTyped ==
    ASSUME NEW B, NEW value \in Seq(B), NEW cuts, NEW end,
           OwnOf(value, cuts, end) \in SUBSET (1 .. Len(value))
    PROVE  TextOf(value, cuts, end) \in Seq(B)
<1> DEFINE own == OwnOf(value, cuts, end)
<1>1. PICK n \in Nat : Len(value) = n /\ own \in SUBSET (1 .. n)
  OBVIOUS
<1> HIDE DEF own
<1>2. CASE own = {}
  <2>1. << >> \in Seq(B)
    OBVIOUS
  <2> QED
    BY <1>2, <2>1 DEF TextOf, own
<1>3. CASE own # {}
  <2>1. own \subseteq Nat /\ own \subseteq 1 .. n
    BY <1>1
  <2>2. Min(own) \in own /\ \A i \in own : Min(own) <= i
    BY <1>3, <2>1, LeastOf
  <2>3. Max(own) \in own
    BY <1>1, <1>3, LargestNumber
  <2> DEFINE a == Min(own)
             b == Max(own)
  <2>4. a \in Nat /\ a # 0 /\ b \in Nat /\ a <= b + 1 /\ b <= Len(value)
    <3>1. a \in 1 .. n /\ b \in 1 .. n /\ a <= b
      BY <1>1, <2>2, <2>3
    <3> HIDE DEF a, b
    <3> QED
      BY <1>1, <3>1
  <2> HIDE DEF a, b
  <2>5. SubSeq(value, a, b) \in Seq(B)
    BY <2>4, PartOf
  <2> QED
    BY <1>3, <2>5 DEF TextOf, own, a, b
<1> QED
  BY <1>2, <1>3

\* The reader after k characters: the statements that are complete by then,
\* and what belongs to the one that is not.
ReadUpTo(s, value, K, cuts, p, M, texts, k) ==
    /\ Gathered(s, value, OwnAt(K, cuts, k), k)
    /\ \E d \in 0 .. M - 1 : /\ \A j \in 1 .. M : p[j] <= k <=> j <= d
                             /\ s.out = Selected(texts, Nonempty(texts, d))

\* Reading a text character by character finds its statements.
LEMMA StatementsAreRead ==
    ASSUME NEW B, "LF" \in B, NEW x \in Seq(B), NEW run, Reading(run, x, Fresh, B)
    PROVE  StatementsRead(x) = Closed(run[Len(x)])
<1> DEFINE value == ValueOf(x)
           cuts == CutsOf(value)
           keep == cuts \cup {Len(value) + 1}
           p == InOrder(keep)
           M == Cardinality(keep)
           texts == [j \in DOMAIN p |-> TextOf(value, cuts, p[j])]
           K == {i \in DOMAIN value \ cuts :
                    value[i] # Space /\ (value[i] = "LF" => Inside(value, i))}
<1>1. PICK n \in Nat : Len(x) = n
  OBVIOUS
<1>2. StatementsRead(x) = Selected(texts, {j \in DOMAIN texts : texts[j] # << >>})
  BY StatementsReadIs, Zenon
<1>3. \A i \in 1 .. n :
         /\ i \in cuts <=> Ends(run[i - 1], x[i])
         /\ (value[i] # Space /\ (value[i] = "LF" => Inside(value, i)))
               <=> Inks(run[i - 1], x[i])
  BY <1>1, ReaderSees
<1>4. /\ value \in Seq(B) /\ Len(value) = n
      /\ \A i \in 1 .. n : value[i] = CharOf(x[i])
  BY <1>1, ValueIs
<1> HIDE DEF value
<1>5. DOMAIN value = 1 .. n
  BY <1>4
<1>6. cuts \in SUBSET (1 .. n)
  BY <1>5 DEF CutsOf
<1>7. \A end : OwnOf(value, cuts, end) =
                  {i \in K : i < end /\ \A c \in cuts : c < end => c < i}
  BY Zenon DEF OwnOf
<1>8. /\ K \in SUBSET (1 .. n) /\ \A i \in cuts : i \notin K
      /\ \A i \in 1 .. n : i \in K <=> /\ i \notin cuts
                                       /\ Inks(run[i - 1], x[i])
  BY <1>3, <1>5
<1> HIDE DEF cuts, K
<1>30. \A k \in 1 .. n : OwnGrows(K, cuts, k)
  <2>1. Apart(K, cuts, n)
    BY <1>6, <1>8 DEF Apart
  <2> QED
    BY <1>1, <2>1, OwnMore
<1>28. keep = cuts \cup {n + 1}
  BY <1>4
<1> HIDE DEF keep
<1>9. keep \in SUBSET (1 .. n + 1) /\ n + 1 \in keep
  BY <1>6, <1>28
<1>29. /\ \A i \in keep : i <= n + 1 /\ (i \in cuts \/ i = n + 1)
      /\ \A i \in cuts : i \in keep
  BY <1>1, <1>9, <1>28
<1> HIDE DEF M, p
<1>10. /\ M \in Nat /\ DOMAIN p = 1 .. M
       /\ \A k \in 1 .. M : p[k] \in keep /\ p[k] \in 1 .. n + 1
       /\ \A k, j \in 1 .. M : k < j <=> p[k] < p[j]
       /\ \A i \in keep : \E k \in 1 .. M : p[k] = i
       /\ \A i \in keep : (\A j \in keep : j <= i) => M # 0 /\ p[M] = i
  BY <1>9, EndsOf DEF M, p
<1>11. M # 0 /\ p[M] = n + 1
  BY <1>9, <1>10, <1>29
<1>12. ASSUME NEW k \in 1 .. n + 1
       PROVE  OwnOf(value, cuts, k) = OwnAt(K, cuts, k - 1)
  <2>1. \A i \in 1 .. n : i < k <=> i <= k - 1
    OBVIOUS
  <2>2. \A i \in K : i \in 1 .. n
    BY <1>8
  <2>3. \A c \in cuts : c \in 1 .. n
    BY <1>6
  <2>4. \A i \in K : i < k <=> i <= k - 1
    BY <2>1, <2>2
  <2>5. \A c \in cuts : c < k <=> c <= k - 1
    BY <2>1, <2>3
  <2> QED
    BY <1>7, <2>4, <2>5, Zenon DEF OwnAt
<1>13. /\ run \in [0 .. n -> Readers(B)] /\ run[0] = Fresh
       /\ \A k \in 1 .. n : run[k] = Take(run[k - 1], x[k])
  BY <1>1 DEF Reading
<1>14. ASSUME NEW k \in 1 .. n + 1, NEW s,
              Gathered(s, value, OwnAt(K, cuts, k - 1), k - 1)
       PROVE  TextOf(value, cuts, k) = s.cur
  <2> DEFINE own == OwnAt(K, cuts, k - 1)
             z == k - 1
  <2>1. own = OwnOf(value, cuts, k)
    BY <1>12
  <2>2. own \in SUBSET (1 .. n)
    BY <1>8 DEF OwnAt
  <2>3. Gathered(s, value, own, z)
    BY <1>14
  <2> HIDE DEF own, z
  <2> QED
    BY <2>1, <2>2, <2>3, GatheredText
<1>15. \A j \in 1 .. M : texts[j] = TextOf(value, cuts, p[j])
  BY <1>10
<1>16. DOMAIN texts = 1 .. M
  BY <1>10
<1> HIDE DEF texts
<1>17. texts \in Seq(Seq(B)) /\ Len(texts) = M
  <2> DEFINE C == Seq(B)
  <2>1. \A j \in 1 .. M : texts[j] \in C
    <3> TAKE j \in 1 .. M
    <3>1. texts[j] = TextOf(value, cuts, p[j])
      BY <1>15
    <3>2. OwnOf(value, cuts, p[j]) \in SUBSET (1 .. n)
      BY <1>7, <1>8
    <3> QED
      BY <1>4, <3>1, <3>2, TextTyped
  <2> HIDE DEF C
  <2>2. texts \in [1 .. M -> C]
    <3>1. texts = [j \in 1 .. M |-> texts[j]]
      BY <1>10 DEF texts
    <3> QED
      BY <2>1, <3>1
  <2>3. texts \in Seq(C) /\ Len(texts) = M
    BY <1>10, <2>2
  <2> QED
    BY <2>3 DEF C
<1> DEFINE Good == {k \in 0 .. n : ReadUpTo(run[k], value, K, cuts, p, M, texts, k)}
<1>18. 0 \in Good
  <2>1. OwnAt(K, cuts, 0) = {}
    <3> SUFFICES ASSUME NEW i \in OwnAt(K, cuts, 0) PROVE FALSE
      OBVIOUS
    <3>1. i \in K /\ i <= 0
      BY Zenon DEF OwnAt
    <3>2. i \in 1 .. n
      BY <1>8, <3>1
    <3> QED
      BY <3>1, <3>2
  <2> DEFINE none == << >>
             s == run[0]
  <2>2. s.cur = none /\ s.rest = none /\ s.out = none
    BY <1>13, ReaderIs DEF Fresh
  <2> HIDE DEF s
  <2>3. Gathered(s, value, OwnAt(K, cuts, 0), 0)
    BY <2>1, <2>2 DEF Gathered
  <2>4. Nonempty(texts, 0) = {}
    BY DEF Nonempty
  <2>5. Selected(texts, {}) = none
    BY SelectedNothing
  <2>6. s.out = Selected(texts, Nonempty(texts, 0))
    BY <2>2, <2>4, <2>5
  <2>7. 0 \in 0 .. M - 1 /\ \A j \in 1 .. M : p[j] <= 0 <=> j <= 0
    BY <1>10, <1>11
  <2>8. ReadUpTo(s, value, K, cuts, p, M, texts, 0)
    BY <2>3, <2>6, <2>7 DEF ReadUpTo
  <2>9. 0 \in 0 .. n
    BY <1>1
  <2> QED
    BY <2>8, <2>9 DEF s
<1>19. ASSUME NEW k \in 1 .. n, k - 1 \in Good PROVE k \in Good
  <2> DEFINE s == run[k - 1]
             c == x[k]
             e == run[k]
             O == OwnAt(K, cuts, k - 1)
             z == k - 1
  <2>1. /\ z \in 0 .. n /\ k \in 0 .. n /\ s \in Readers(B) /\ e = Take(s, c)
        /\ value[k] = CharOf(c) /\ k \in 1 .. Len(value) /\ k \in 1 .. n + 1
    BY <1>4, <1>13
  <2>2. ReadUpTo(s, value, K, cuts, p, M, texts, z)
    BY <1>19
  <2>3. PICK d \in 0 .. M - 1 : /\ \A j \in 1 .. M : p[j] <= z <=> j <= d
                                /\ s.out = Selected(texts, Nonempty(texts, d))
    BY <2>2 DEF ReadUpTo
  <2>4. Gathered(s, value, O, k - 1)
    BY <2>2 DEF ReadUpTo
  <2>5. /\ O \in SUBSET (1 .. k - 1)
        /\ k \in cuts => OwnAt(K, cuts, k) = {}
        /\ k \in K => OwnAt(K, cuts, k) = O \cup {k}
        /\ k \notin cuts /\ k \notin K => OwnAt(K, cuts, k) = O
    BY <1>30 DEF OwnGrows
  <2>6. k \in cuts <=> Ends(s, c)
    BY <1>3
  <2>7. k \in K <=> ~Ends(s, c) /\ Inks(s, c)
    BY <1>8, <2>6
  <2>8. \A j \in 1 .. M : p[j] <= k <=> p[j] <= z \/ p[j] = k
    BY <1>10
  <2> HIDE DEF s, c, e, O
  <2>9. CASE k \in cuts
    <3>1. Ends(s, c) /\ OwnAt(K, cuts, k) = {}
      BY <2>5, <2>6, <2>9
    <3>2. Gathered(e, value, {}, k)
      BY <2>1, <3>1, GatherEnd
    <3>3. PICK j \in 1 .. M : p[j] = k
      BY <1>10, <1>29, <2>9
    <3>4. j = d + 1 /\ j \in 1 .. M - 1 /\ d + 1 \in 0 .. M - 1
      <4> DEFINE i == d + 1
      <4>1. i \in 1 .. M /\ d \in Nat /\ ~ (i <= d)
        BY <1>10, <1>11
      <4>2. ~ (j <= d)
        BY <2>1, <2>3, <3>3
      <4>3. i <= j
        BY <1>10, <4>1, <4>2
      <4> HIDE DEF i
      <4>4. ~ (p[i] <= z)
        BY <2>3, <4>1
      <4>5. ~ (i < j)
        <5> SUFFICES ASSUME i < j PROVE FALSE
          OBVIOUS
        <5>1. p[i] < k /\ p[i] \in 1 .. n + 1
          BY <1>10, <3>3, <4>1
        <5> QED
          BY <4>4, <5>1
      <4>6. j = i
        BY <1>10, <4>1, <4>3, <4>5
      <4>7. j # M
        <5>1. k # n + 1
          BY <1>1
        <5> QED
          BY <1>11, <3>3, <5>1
      <4> QED
        BY <1>10, <4>1, <4>6, <4>7 DEF i
    <3>5. \A i \in 1 .. M : p[i] <= k <=> i <= d + 1
      BY <1>10, <3>3, <3>4
    <3>6. TextOf(value, cuts, k) = s.cur
      BY <1>14, <2>1, <2>4 DEF O
    <3>7. texts[d + 1] = s.cur
      BY <1>15, <3>3, <3>4, <3>6
    <3>8. Closed(s) = Selected(texts, Nonempty(texts, d + 1))
      BY <1>10, <1>17, <2>1, <2>3, <3>7, CloseText
    <3> DEFINE out == Closed(s)
               none == << >>
    <3>9. e = Reader(s.quotes, out, none, none, s.breaks)
      BY <2>1, <3>1, Zenon, TakeIs
    <3> HIDE DEF out, none
    <3>10. e.out = out
      BY <3>9, ReaderIs
    <3>11. ReadUpTo(e, value, K, cuts, p, M, texts, k)
      BY <3>1, <3>2, <3>4, <3>5, <3>8, <3>10 DEF ReadUpTo, out
    <3> QED
      BY <2>1, <3>11 DEF e
  <2>10. CASE k \notin cuts
    <3>1. ~Ends(s, c)
      BY <2>6, <2>10
    <3>2. Gathered(e, value, OwnAt(K, cuts, k), k)
      <4>1. CASE k \in K
        <5>1. Gathered(Take(s, c), value, O \cup {k}, k)
          BY <1>4, <2>1, <2>4, <2>5, <2>7, <3>1, <4>1, GatherMore
        <5> QED
          BY <2>1, <2>5, <4>1, <5>1
      <4>2. CASE k \notin K
        <5>1. Gathered(Take(s, c), value, O, k)
          BY <1>4, <2>1, <2>4, <2>5, <2>7, <3>1, <4>2, GatherBlank
        <5> QED
          BY <2>1, <2>5, <2>10, <4>2, <5>1
      <4> QED
        BY <4>1, <4>2
    <3>3. e.out = s.out
      BY <2>1, <3>1, TakeKeeps
    <3>4. \A j \in 1 .. M : p[j] # k
      <4> SUFFICES ASSUME NEW j \in 1 .. M, p[j] = k PROVE FALSE
        OBVIOUS
      <4>1. k \in keep /\ k # n + 1
        BY <1>1, <1>10
      <4> QED
        BY <1>29, <2>10, <4>1
    <3>5. \A j \in 1 .. M : p[j] <= k <=> j <= d
      BY <2>3, <2>8, <3>4
    <3>6. ReadUpTo(e, value, K, cuts, p, M, texts, k)
      BY <2>3, <3>2, <3>3, <3>5 DEF ReadUpTo
    <3> QED
      BY <2>1, <3>6 DEF e
  <2> QED
    BY <2>9, <2>10
<1> HIDE DEF Good
<1>20. \A k \in 0 .. n : k \in Good
  BY <1>1, <1>18, <1>19, Upto
<1> DEFINE s == run[n]
<1>21. ReadUpTo(s, value, K, cuts, p, M, texts, n) /\ s \in Readers(B)
  <2>1. n \in 0 .. n
    BY <1>1
  <2> QED
    BY <1>13, <1>20, <2>1 DEF Good
<1> HIDE DEF s
<1>22. PICK d \in 0 .. M - 1 : /\ \A j \in 1 .. M : p[j] <= n <=> j <= d
                              /\ s.out = Selected(texts, Nonempty(texts, d))
  BY <1>21 DEF ReadUpTo
<1>23. d + 1 = M
  <2>1. CASE M = 1
    BY <2>1
  <2>2. CASE M # 1
    <3>1. M - 1 \in 1 .. M /\ M \in 1 .. M /\ M - 1 < M
      BY <1>10, <1>11, <2>2
    <3>2. p[M - 1] < n + 1 /\ p[M - 1] \in 1 .. n + 1
      BY <1>10, <1>11, <3>1
    <3>3. p[M - 1] <= n
      BY <1>1, <3>2
    <3>4. M - 1 <= d
      BY <1>22, <3>1, <3>3
    <3> QED
      BY <1>10, <3>4
  <2> QED
    BY <2>1, <2>2
<1>24. texts[d + 1] = s.cur
  <2> DEFINE b == n + 1
  <2>1. b \in 1 .. n + 1 /\ b - 1 = n /\ M \in 1 .. M
    BY <1>1, <1>10, <1>11
  <2>2. Gathered(s, value, OwnAt(K, cuts, b - 1), b - 1)
    BY <1>21, <2>1 DEF ReadUpTo
  <2> HIDE DEF b
  <2>3. TextOf(value, cuts, b) = s.cur
    BY <1>14, <2>1, <2>2
  <2> QED
    BY <1>11, <1>15, <1>23, <2>1, <2>3 DEF b
<1>25. Closed(s) = Selected(texts, Nonempty(texts, d + 1))
  BY <1>10, <1>17, <1>21, <1>22, <1>24, CloseText
<1>26. Nonempty(texts, d + 1) = {j \in DOMAIN texts : texts[j] # << >>}
  BY <1>16, <1>23 DEF Nonempty
<1>27. Closed(s) = StatementsRead(x)
  BY <1>2, <1>25, <1>26 DEF texts
<1> QED
  BY <1>1, <1>27 DEF s

-----------------------------------------------------------------------------
(* Readers between statements.                                             *)

\* The reader behind a semicolon, had there been one where no literal is open.
Settle(s) ==
    IF Open(s) THEN s
    ELSE Reader(s.quotes, Closed(s), << >>, << >>, s.breaks)

LEMMA SettleIs ==
    ASSUME NEW s
    PROVE  /\ Open(s) => Settle(s) = s
           /\ ~Open(s) =>
                 Settle(s) = Reader(s.quotes, Closed(s), << >>, << >>, s.breaks)
BY Zenon DEF Settle

\* Before the first character.
LEMMA FreshSettled ==
    /\ ~Open(Fresh) /\ Settle(Fresh) = Fresh /\ Fresh.breaks = 0 /\ Fresh.quotes = 0
    /\ Closed(Fresh) = << >> /\ Fresh.rest = << >>
<1> DEFINE none == << >>
<1>1. Fresh = Reader(0, none, none, none, 0)
  BY Zenon DEF Fresh
<1> HIDE DEF none
<1>2. /\ Fresh.quotes = 0 /\ Fresh.out = none /\ Fresh.cur = none
      /\ Fresh.rest = none /\ Fresh.breaks = 0
  BY <1>1, ReaderIs
<1>3. ~Open(Fresh)
  BY <1>2 DEF Open
<1>4. Closed(Fresh) = none
  BY <1>2, Zenon DEF Closed, none
<1>5. Settle(Fresh) = Reader(Fresh.quotes, Closed(Fresh), none, none, Fresh.breaks)
  BY <1>3, Zenon DEF Settle, none
<1>6. Settle(Fresh) = Fresh
  BY <1>1, <1>2, <1>4, <1>5
<1> QED
  BY <1>2, <1>3, <1>4, <1>6 DEF none

LEMMA SettleTyped ==
    ASSUME NEW B, NEW s \in Readers(B)
    PROVE  Settle(s) \in Readers(B)
<1>1. CASE Open(s)
  BY <1>1, SettleIs
<1>2. CASE ~Open(s)
  <2> DEFINE none == << >>
             out == Closed(s)
  <2>1. Settle(s) = Reader(s.quotes, out, none, none, s.breaks)
    BY <1>2, Zenon, SettleIs
  <2>2. none \in Seq(B)
    OBVIOUS
  <2>3. out \in Seq(Seq(B))
    BY ClosedTyped
  <2>4. s.quotes \in Nat /\ s.breaks \in Nat
    BY ReadersAre
  <2> HIDE DEF none, out
  <2> QED
    BY <2>1, <2>2, <2>3, <2>4, ReaderTyped
<1> QED
  BY <1>1, <1>2

LEMMA SettleParts ==
    ASSUME NEW s
    PROVE  /\ Settle(s).quotes = s.quotes /\ Settle(s).breaks = s.breaks
           /\ Open(Settle(s)) <=> Open(s)
           /\ ~Open(s) => /\ Settle(s).cur = << >> /\ Settle(s).out = Closed(s)
                          /\ Closed(Settle(s)) = Closed(s)
<1>1. CASE Open(s)
  BY <1>1, SettleIs
<1>2. CASE ~Open(s)
  <2> DEFINE none == << >>
             out == Closed(s)
             e == Settle(s)
  <2>1. e = Reader(s.quotes, out, none, none, s.breaks)
    BY <1>2, Zenon, SettleIs
  <2> HIDE DEF none, out, e
  <2>2. e.quotes = s.quotes /\ e.breaks = s.breaks /\ e.cur = none /\ e.out = out
    BY <2>1, ReaderIs
  <2>3. Open(e) <=> Open(s)
    BY <2>2 DEF Open
  <2>4. e.cur = << >>
    BY <2>2 DEF none
  <2>5. Closed(e) = e.out
    BY <2>4, Zenon DEF Closed
  <2> QED
    BY <1>2, <2>2, <2>3, <2>4, <2>5 DEF e, out
<1> QED
  BY <1>1, <1>2

\* A semicolon outside the literals, and a line break for a spliced newline.
LEMMA TakeEnd ==
    ASSUME NEW s, ~Open(s)
    PROVE  Take(s, Semicolon) = Settle(s)
<1>1. Ends(s, Semicolon)
  BY DEF Ends
<1> QED
  BY <1>1, Zenon DEF Take, Settle

LEMMA TakeSplice ==
    ASSUME NEW s
    PROVE  Take(s, Splice) = Take(s, "LF")
<1>1. ~Ends(s, Splice) /\ ~Ends(s, "LF")
  BY SignsDiffer, LineBreakDiffers DEF Ends
<1>2. IsBreak(Splice) /\ IsBreak("LF")
  BY DEF IsBreak
<1>3. Inks(s, Splice) <=> Inks(s, "LF")
  BY <1>2, SignsDiffer DEF Inks
<1>4. CharOf(Splice) = "LF" /\ CharOf("LF") = "LF"
  BY DEF CharOf
<1>5. Splice # "'" /\ "LF" # "'"
  BY SignsDiffer, LineBreakDiffers
<1> QED
  BY <1>1, <1>2, <1>3, <1>4, <1>5, Zenon DEF Take

\* Blanks, and line breaks where no literal is open.
Idle(s, c) == c = Space \/ (IsBreak(c) /\ ~Open(s))

LEMMA TakeIdle ==
    ASSUME NEW B, NEW s \in Readers(B), NEW c, Idle(s, c)
    PROVE  /\ Take(s, c).quotes = s.quotes /\ Take(s, c).breaks = s.breaks
           /\ s.cur = << >> => Take(s, c) = s
           /\ Closed(Take(s, c)) = Closed(s)
<1>1. ~Ends(s, c) /\ ~Inks(s, c)
  BY SignsDiffer, LineBreakDiffers DEF Ends, Inks, Idle, IsBreak
<1>2. CASE s.cur = << >>
  <2>1. Take(s, c) = s
    BY <1>1, <1>2, Zenon, TakeIs
  <2> QED
    BY <2>1
<1>3. CASE s.cur # << >>
  <2> DEFINE rest == Append(s.rest, CharOf(c))
             e == Take(s, c)
  <2>1. e = Reader(s.quotes, s.out, s.cur, rest, s.breaks)
    BY <1>1, <1>3, Zenon, TakeIs
  <2> HIDE DEF rest, e
  <2>2. e.quotes = s.quotes /\ e.out = s.out /\ e.cur = s.cur /\ e.breaks = s.breaks
    BY <2>1, ReaderIs
  <2>3. Closed(e) = Closed(s)
    BY <2>2, Zenon DEF Closed
  <2> QED
    BY <1>3, <2>2, <2>3 DEF e
<1> QED
  BY <1>2, <1>3

\* A line break behind a line whose literals are closed changes no statement.
LEMMA SettleIdle ==
    ASSUME NEW B, NEW s \in Readers(B), NEW c, Idle(s, c), ~Open(s)
    PROVE  /\ ~Open(Take(s, c)) /\ Settle(Take(s, c)) = Settle(s)
<1> DEFINE e == Take(s, c)
<1>1. e.quotes = s.quotes /\ e.breaks = s.breaks /\ Closed(e) = Closed(s)
  BY TakeIdle
<1> HIDE DEF e
<1>2. ~Open(e)
  BY <1>1 DEF Open
<1>3. Settle(e) = Settle(s)
  BY <1>1, <1>2, Zenon DEF Settle
<1> QED
  BY <1>2, <1>3 DEF e

\* Nothing but blanks.
LEMMA BlanksRead ==
    ASSUME NEW B, NEW x \in Seq(B), \A i \in 1 .. Len(x) : x[i] = Space,
           NEW s, NEW e, ReadsTo(x, s, e, B)
    PROVE  /\ e.quotes = s.quotes /\ e.breaks = s.breaks
           /\ s.cur = << >> => e = s
<1>1. PICK n \in Nat : Len(x) = n
  OBVIOUS
<1>2. PICK run : Reading(run, x, s, B) /\ run[n] = e
  BY <1>1 DEF ReadsTo
<1>3. /\ run \in [0 .. n -> Readers(B)] /\ run[0] = s
      /\ \A k \in 1 .. n : run[k] = Take(run[k - 1], x[k])
  BY <1>1, <1>2 DEF Reading
<1> DEFINE Good == {k \in 0 .. n : /\ run[k].quotes = s.quotes
                                   /\ run[k].breaks = s.breaks
                                   /\ s.cur = << >> => run[k] = s}
<1>4. 0 \in Good
  <2>1. 0 \in 0 .. n
    BY <1>1
  <2> QED
    BY <1>3, <2>1
<1>5. ASSUME NEW k \in 1 .. n, k - 1 \in Good PROVE k \in Good
  <2>1. k \in 0 .. n /\ k - 1 \in 0 .. n
    BY <1>1
  <2> DEFINE r == run[k - 1]
  <2>2. r \in Readers(B) /\ run[k] = Take(r, Space)
    BY <1>1, <1>3, <2>1
  <2>3. /\ r.quotes = s.quotes /\ r.breaks = s.breaks
        /\ s.cur = << >> => r = s
    BY <1>5
  <2> HIDE DEF r
  <2>4. Idle(r, Space)
    BY DEF Idle
  <2>5. /\ Take(r, Space).quotes = r.quotes /\ Take(r, Space).breaks = r.breaks
        /\ r.cur = << >> => Take(r, Space) = r
    BY <2>2, <2>4, TakeIdle
  <2> QED
    BY <2>1, <2>2, <2>3, <2>5
<1> HIDE DEF Good
<1>6. \A k \in 0 .. n : k \in Good
  BY <1>1, <1>4, <1>5, Upto
<1>7. n \in Good
  BY <1>1, <1>6
<1> QED
  BY <1>2, <1>7 DEF Good

LEMMA SettleTwice ==
    ASSUME NEW s
    PROVE  Settle(Settle(s)) = Settle(s)
<1>1. CASE Open(s)
  BY <1>1, SettleIs
<1>2. CASE ~Open(s)
  <2> DEFINE e == Settle(s)
             out == Closed(s)
             none == << >>
  <2>1. /\ e.quotes = s.quotes /\ e.breaks = s.breaks /\ ~Open(e)
        /\ Closed(e) = out
    BY <1>2, SettleParts
  <2>2. e = Reader(s.quotes, out, none, none, s.breaks)
    BY <1>2, Zenon, SettleIs
  <2> HIDE DEF e, out
  <2>3. Settle(e) = Reader(e.quotes, Closed(e), none, none, e.breaks)
    BY <2>1, Zenon, SettleIs
  <2> QED
    BY <2>1, <2>2, <2>3 DEF e
<1> QED
  BY <1>1, <1>2

\* The reader of a text and that of its rewritten lines: the literals that are
\* open are the same, and so is everything else unless a semicolon inside a
\* literal, at a place in H, has broken a line.
Follows(x, y, H) ==
    /\ x.quotes = y.quotes /\ x.breaks <= y.breaks
    /\ H = {} => x = y
    /\ H # {} => x.breaks < y.breaks

LEMMA KeptTake ==
    ASSUME NEW B, NEW x \in Readers(B), NEW y \in Readers(B), NEW H,
           Follows(x, y, H), NEW c
    PROVE  Follows(Take(x, c), Take(y, c), H)
<1> DEFINE e == Take(x, c)
           f == Take(y, c)
<1>1. /\ e.quotes = x.quotes + (IF c = "'" THEN 1 ELSE 0)
      /\ e.breaks = x.breaks + (IF IsBreak(c) /\ Open(x) THEN 1 ELSE 0)
  BY TakeCounts
<1>2. /\ f.quotes = y.quotes + (IF c = "'" THEN 1 ELSE 0)
      /\ f.breaks = y.breaks + (IF IsBreak(c) /\ Open(y) THEN 1 ELSE 0)
  BY TakeCounts
<1>3. x.breaks \in Nat /\ y.breaks \in Nat
  BY ReadersAre
<1>4. Open(x) <=> Open(y)
  BY DEF Open, Follows
<1>5. x = y => e = f
  OBVIOUS
<1> HIDE DEF e, f
<1>6. e.quotes = f.quotes /\ e.breaks <= f.breaks /\ (x.breaks < y.breaks => e.breaks < f.breaks)
  BY <1>1, <1>2, <1>3, <1>4 DEF Follows
<1>7. Follows(e, f, H)
  BY <1>5, <1>6 DEF Follows
<1> QED
  BY <1>7 DEF e, f

LEMMA KeptReads ==
    ASSUME NEW B, "LF" \in B, NEW u \in Seq(B), NEW x, NEW e, ReadsTo(u, x, e, B),
           NEW y \in Readers(B), NEW H, Follows(x, y, H)
    PROVE  \E f \in Readers(B) : ReadsTo(u, y, f, B) /\ Follows(e, f, H)
<1>1. PICK n \in Nat : Len(u) = n
  OBVIOUS
<1>2. PICK p : Reading(p, u, x, B) /\ p[n] = e
  BY <1>1 DEF ReadsTo
<1>3. PICK q : Reading(q, u, y, B)
  BY ReadingExists
<1>4. /\ p \in [0 .. n -> Readers(B)] /\ p[0] = x
      /\ \A k \in 1 .. n : p[k] = Take(p[k - 1], u[k])
  BY <1>1, <1>2 DEF Reading
<1>5. /\ q \in [0 .. n -> Readers(B)] /\ q[0] = y
      /\ \A k \in 1 .. n : q[k] = Take(q[k - 1], u[k])
  BY <1>1, <1>3 DEF Reading
<1> DEFINE Good == {k \in 0 .. n : Follows(p[k], q[k], H)}
<1>6. 0 \in Good
  <2>1. 0 \in 0 .. n
    BY <1>1
  <2> QED
    BY <1>4, <1>5, <2>1
<1>7. ASSUME NEW k \in 1 .. n, k - 1 \in Good PROVE k \in Good
  <2>1. k \in 0 .. n /\ k - 1 \in 0 .. n
    BY <1>1
  <2> DEFINE r == p[k - 1]
             s == q[k - 1]
  <2>2. r \in Readers(B) /\ s \in Readers(B) /\ Follows(r, s, H)
    BY <1>4, <1>5, <1>7, <2>1
  <2>3. p[k] = Take(r, u[k]) /\ q[k] = Take(s, u[k])
    BY <1>4, <1>5
  <2> HIDE DEF r, s
  <2>4. Follows(p[k], q[k], H)
    BY <2>2, <2>3, KeptTake
  <2> QED
    BY <2>1, <2>4
<1> HIDE DEF Good
<1>8. \A k \in 0 .. n : k \in Good
  BY <1>1, <1>6, <1>7, Upto
<1>9. n \in 0 .. n
  BY <1>1
<1>10. Follows(e, q[n], H)
  BY <1>2, <1>8, <1>9 DEF Good
<1>11. q[n] \in Readers(B)
  BY <1>5, <1>9
<1>12. ReadsTo(u, y, q[n], B)
  BY <1>1, <1>3 DEF ReadsTo
<1> QED
  BY <1>10, <1>11, <1>12

\* The line break sed puts behind a semicolon, and the blanks it takes away
\* (run.sh:358): nothing outside the literals, one more break inside.
LEMMA KeptCut ==
    ASSUME NEW B, "LF" \in B, Semicolon \in B, NEW x \in Readers(B),
           NEW y \in Readers(B), NEW H, Follows(x, y, H), NEW blanks \in Seq(B),
           \A i \in 1 .. Len(blanks) : blanks[i] = Space,
           NEW e, ReadsTo(blanks, Take(x, Semicolon), e, B),
           NEW G, Open(x) => G # {}, ~Open(x) => (G = {} <=> H = {})
    PROVE  LET f == Take(Take(y, Semicolon), "LF")
           IN  Settle(f) = f /\ Follows(e, f, G)
<1> DEFINE x1 == Take(x, Semicolon)
           y1 == Take(y, Semicolon)
           f == Take(y1, "LF")
<1>1. Follows(x1, y1, H)
  BY KeptTake
<1>2. Open(x) <=> Open(y)
  BY DEF Follows, Open
<1>3. Semicolon # "'" /\ ~IsBreak(Semicolon) /\ "LF" # "'" /\ IsBreak("LF")
  BY SignsDiffer, LineBreakDiffers DEF IsBreak
<1>4. /\ y1.quotes = y.quotes + 0 /\ y1.breaks = y.breaks + 0
      /\ x1.quotes = x.quotes + 0 /\ x1.breaks = x.breaks + 0
  BY <1>3, TakeCounts
<1>5. /\ x.quotes \in Nat /\ x.breaks \in Nat /\ y.quotes \in Nat /\ y.breaks \in Nat
  BY ReadersAre
<1>6. (Open(y1) <=> Open(y)) /\ (Open(x1) <=> Open(x))
  BY <1>4, <1>5 DEF Open
<1>7. e.quotes = x1.quotes /\ e.breaks = x1.breaks /\ (x1.cur = << >> => e = x1)
  BY BlanksRead
<1>8. CASE Open(x)
  <2>1. /\ Take(y1, "LF").quotes = y1.quotes + 0
        /\ Take(y1, "LF").breaks = y1.breaks + 1
    <3>1. y1.quotes = y.quotes /\ y1.breaks = y.breaks
      BY <1>4, <1>5
    <3>2. y1 \in Readers(B)
      BY TakeTyped
    <3> HIDE DEF y1
    <3> QED
      BY <1>2, <1>3, <1>6, <1>8, <3>2, TakeCounts
  <2> HIDE DEF x1, y1, f
  <2>2. f.quotes = y1.quotes + 0 /\ f.breaks = y1.breaks + 1
    BY <2>1 DEF f
  <2>3. Open(f)
    BY <1>2, <1>4, <1>5, <1>8, <2>2 DEF Open
  <2>4. Settle(f) = f
    BY <2>3, SettleIs
  <2>5. Follows(e, f, G)
    BY <1>1, <1>4, <1>5, <1>7, <1>8, <2>2 DEF Follows
  <2> QED
    BY <2>4, <2>5 DEF f, y1
<1>9. CASE ~Open(x)
  <2>1. x1 = Settle(x) /\ y1 = Settle(y) /\ ~Open(y)
    BY <1>2, <1>9, TakeEnd
  <2>2. x1.cur = << >> /\ y1.cur = << >> /\ Settle(y1) = y1 /\ ~Open(y1)
    BY <1>9, <2>1, SettleParts, SettleTwice
  <2>3. y1 \in Readers(B)
    BY <2>1, SettleTyped
  <2> HIDE DEF x1, y1
  <2>4. Idle(y1, "LF")
    BY <1>3, <2>2 DEF Idle
  <2>5. Take(y1, "LF") = y1
    BY <2>2, <2>3, <2>4, TakeIdle
  <2>6. e = x1
    BY <1>7, <2>2
  <2>7. Follows(e, y1, G)
    BY <1>1, <1>9, <2>6 DEF Follows
  <2> HIDE DEF f
  <2> QED
    BY <2>2, <2>5, <2>7 DEF f, y1
<1> QED
  BY <1>8, <1>9

\* A line of n characters and what sed makes of it: part k starts at f[k] and
\* ends at the semicolon p[k], the last one at the end of the line.
Pieces(line, n, w, m, p, f) ==
    /\ m \in Nat /\ m # 0 /\ Len(w) = m
    /\ \A k \in 1 .. m : p[k] \in 1 .. n + 1 /\ f[k] \in 1 .. n + 1 /\ f[k] <= p[k]
    /\ p[m] = n + 1 /\ f[1] = 1
    /\ \A k, j \in 1 .. m : k < j <=> p[k] < p[j]
    /\ \A k \in 1 .. m : k # m => p[k] \in 1 .. n /\ line[p[k]] = Semicolon
    /\ \A i \in 1 .. n : line[i] = Semicolon => \E k \in 1 .. m : p[k] = i
    /\ \A k \in 1 .. m : k # 1 =>
          p[k - 1] < f[k] /\ \A i \in p[k - 1] + 1 .. f[k] - 1 : line[i] = Space
    /\ \A k \in 1 .. m :
          w[k] = SubSeq(line, f[k], IF k = m THEN n ELSE p[k])

LEMMA PiecesAre ==
    ASSUME NEW A, NEW line \in Seq(A)
    PROVE  \E m, p, f : Pieces(line, Len(line), BreakLine(line), m, p, f)
<1> DEFINE semis == {i \in DOMAIN line : line[i] = Semicolon}
           keep == semis \cup {Len(line) + 1}
           p == InOrder(keep)
           m == Cardinality(keep)
           Ahead(k) == {i \in After(p, k) .. p[k] :
                           i = Len(line) + 1 \/ line[i] # Space}
           First(k) == IF k = 1 THEN 1 ELSE Min(Ahead(k))
           Final(k) == Min({p[k], Len(line)})
           broken == BreakLine(line)
           f == [k \in 1 .. m |-> First(k)]
<1>1. PICK n \in Nat : Len(line) = n /\ DOMAIN line = 1 .. n
  OBVIOUS
<1>2. broken = [k \in DOMAIN p |-> SubSeq(line, First(k), Final(k))]
  BY Zenon DEF BreakLine, Semicolon
<1>3. keep \in SUBSET (1 .. n + 1) /\ n + 1 \in keep
  <2>1. semis \subseteq 1 .. n + 1 /\ n + 1 \in 1 .. n + 1
    BY <1>1
  <2>2. keep = semis \cup {n + 1}
    BY <1>1
  <2> HIDE DEF semis, keep
  <2> QED
    BY <2>1, <2>2
<1>4. \A i \in keep : i \in semis \/ i = n + 1
  BY <1>1
<1>5. \A i \in 1 .. n : line[i] = Semicolon <=> i \in semis
  BY <1>1
<1>6. semis \subseteq keep /\ \A i \in semis : i \in 1 .. n
  BY <1>1
<1>7. \A k : Ahead(k) = {i \in After(p, k) .. p[k] : i = n + 1 \/ line[i] # Space}
  BY <1>1
<1>8. \A k : Final(k) = Min({p[k], n})
  BY <1>1
<1> HIDE DEF semis, keep, p, m, broken, Ahead, Final
<1>9. /\ m \in Nat /\ DOMAIN p = 1 .. m
      /\ \A k \in 1 .. m : p[k] \in keep /\ p[k] \in 1 .. n + 1
      /\ \A k, j \in 1 .. m : k < j <=> p[k] < p[j]
      /\ \A i \in keep : \E k \in 1 .. m : p[k] = i
      /\ \A i \in keep : (\A j \in keep : j <= i) => m # 0 /\ p[m] = i
  BY <1>3, EndsOf DEF p, m
<1>10. m # 0 /\ p[m] = n + 1
  <2>1. \A j \in keep : j <= n + 1
    BY <1>3
  <2> QED
    BY <1>3, <1>9, <2>1
<1>11. ASSUME NEW k \in 1 .. m, k # m
       PROVE  p[k] \in semis /\ p[k] \in 1 .. n /\ line[p[k]] = Semicolon
  <2>1. m \in 1 .. m /\ k < m
    BY <1>9, <1>11
  <2>2. p[k] < n + 1 /\ p[k] \in 1 .. n + 1
    BY <1>9, <1>10, <2>1
  <2>3. p[k] # n + 1
    BY <1>1, <2>2
  <2> QED
    BY <1>4, <1>5, <1>6, <1>9, <2>3
<1>12. ASSUME NEW k \in 1 .. m
       PROVE  Final(k) = IF k = m THEN n ELSE p[k]
  <2>1. p[k] \in 1 .. n + 1 /\ p[k] \in Nat
    BY <1>9
  <2>2. Final(k) = IF p[k] <= n THEN p[k] ELSE n
    BY <1>8, <2>1, LesserOf
  <2>3. k # m => p[k] <= n
    BY <1>11
  <2>4. k = m => ~ (p[k] <= n)
    BY <1>1, <1>10
  <2> QED
    BY <2>2, <2>3, <2>4
<1>13. ASSUME NEW k \in 1 .. m
       PROVE  /\ First(k) \in 1 .. n + 1 /\ First(k) <= p[k]
              /\ k # 1 => /\ p[k - 1] < First(k)
                          /\ \A i \in p[k - 1] + 1 .. First(k) - 1 : line[i] = Space
  <2>1. CASE k = 1
    <3>1. First(k) = 1 /\ p[k] \in 1 .. n + 1
      BY <1>9, <2>1
    <3> QED
      BY <1>1, <2>1, <3>1
  <2>2. CASE k # 1
    <3>1. k - 1 \in 1 .. m /\ k - 1 < k /\ k - 1 # m
      BY <1>9, <2>2
    <3> DEFINE a == p[k - 1]
               g == First(k)
    <3>2. /\ p[k] \in 1 .. n + 1 /\ p[k] \in keep
          /\ a \in 1 .. n /\ a < p[k]
      BY <1>9, <1>11, <3>1
    <3>3. After(p, k) = a + 1
      BY <2>2 DEF After
    <3>4. p[k] \in Ahead(k)
      <4>1. line[p[k]] # Space \/ p[k] = n + 1
        BY <1>1, <1>4, <1>5, <3>2, SignsDiffer
      <4> QED
        BY <1>7, <3>2, <3>3, <4>1
    <3>5. Ahead(k) \subseteq Nat
      BY <1>7, <3>2, <3>3
    <3>6. g \in Ahead(k) /\ \A i \in Ahead(k) : g <= i
      <4>1. g = Min(Ahead(k))
        BY <2>2
      <4> HIDE DEF g
      <4> QED
        BY <3>4, <3>5, <4>1, LeastOf
    <3>7. g \in Nat /\ g >= a + 1 /\ g <= p[k]
      BY <1>7, <3>2, <3>3, <3>6
    <3> HIDE DEF g
    <3>8. \A i \in a + 1 .. g - 1 : line[i] = Space
      <4> SUFFICES ASSUME NEW i \in a + 1 .. g - 1, line[i] # Space
                   PROVE  FALSE
        OBVIOUS
      <4>1. i \in Nat /\ i >= a + 1 /\ i <= p[k] /\ i < g
        BY <3>2, <3>7
      <4>2. i \in Ahead(k)
        BY <1>7, <3>3, <3>2, <4>1
      <4> QED
        BY <3>6, <3>7, <4>1, <4>2
    <3>9. a < g /\ g \in 1 .. n + 1
      BY <1>1, <3>2, <3>7
    <3> QED
      BY <3>7, <3>8, <3>9 DEF g
  <2> QED
    BY <2>1, <2>2
<1>14. \A k \in 1 .. m : f[k] = First(k)
  OBVIOUS
<1>15. f[1] = 1
  <2>1. 1 \in 1 .. m
    BY <1>9, <1>10
  <2> QED
    BY <1>14, <2>1
<1> HIDE DEF f, First
<1>16. \A k \in 1 .. m : broken[k] = SubSeq(line, f[k], IF k = m THEN n ELSE p[k])
  BY <1>2, <1>9, <1>12, <1>14
<1>17. Len(broken) = m
  BY <1>2, <1>9
<1>18. \A i \in 1 .. n : line[i] = Semicolon => \E k \in 1 .. m : p[k] = i
  BY <1>5, <1>6, <1>9
<1>19. \A k \in 1 .. m : p[k] \in 1 .. n + 1 /\ f[k] \in 1 .. n + 1 /\ f[k] <= p[k]
  BY <1>9, <1>13, <1>14
<1>20. \A k \in 1 .. m : k # 1 =>
          p[k - 1] < f[k] /\ \A i \in p[k - 1] + 1 .. f[k] - 1 : line[i] = Space
  BY <1>13, <1>14
<1>21. Pieces(line, n, broken, m, p, f)
  BY <1>9, <1>10, <1>11, <1>15, <1>16, <1>17, <1>18, <1>19, <1>20 DEF Pieces
<1> QED
  BY <1>1, <1>21 DEF broken

\* Reading lines one by one, the state behind each but the last between
\* statements or in a literal.
Seen(S, lines, s, e, B) ==
    /\ S \in [0 .. Len(lines) -> Readers(B)] /\ S[0] = s /\ S[Len(lines)] = e
    /\ \A k \in 1 .. Len(lines) :
          ReadsTo(Append(lines[k], "LF"), S[k - 1], S[k], B)
    /\ \A k \in 1 .. Len(lines) : k # Len(lines) => Settle(S[k]) = S[k]

Sees(lines, s, e, B) == \E S : Seen(S, lines, s, e, B)

LEMMA SeesNone ==
    ASSUME NEW B, NEW s \in Readers(B)
    PROVE  Sees(<< >>, s, s, B)
<1> DEFINE none == << >>
           S == [k \in 0 .. 0 |-> s]
<1>1. Len(none) = 0
  OBVIOUS
<1>2. S \in [0 .. 0 -> Readers(B)] /\ S[0] = s
  OBVIOUS
<1> HIDE DEF none, S
<1>3. Seen(S, none, s, s, B)
  BY <1>1, <1>2 DEF Seen
<1>4. Sees(none, s, s, B)
  BY <1>3 DEF Sees
<1> QED
  BY <1>4 DEF none

LEMMA SeesOne ==
    ASSUME NEW B, "LF" \in B, NEW x \in Seq(B), NEW s, NEW e,
           ReadsTo(Append(x, "LF"), s, e, B)
    PROVE  Sees(<<x>>, s, e, B)
<1> DEFINE line == Append(x, "LF")
           lines == <<x>>
           S == [k \in 0 .. 1 |-> IF k = 0 THEN s ELSE e]
<1>1. Len(lines) = 1 /\ lines[1] = x
  OBVIOUS
<1>2. line \in Seq(B)
  OBVIOUS
<1>3. s \in Readers(B) /\ e \in Readers(B)
  <2> HIDE DEF line
  <2> QED
    BY <1>2, ReadsEnds DEF line
<1>4. S \in [0 .. 1 -> Readers(B)] /\ S[0] = s /\ S[1] = e
  BY <1>3
<1> HIDE DEF lines, S
<1>5. \A k \in 1 .. 1 : k = 1 /\ k - 1 = 0
  OBVIOUS
<1>6. Seen(S, lines, s, e, B)
  BY <1>1, <1>4, <1>5 DEF Seen
<1>7. Sees(lines, s, e, B)
  BY <1>6 DEF Sees
<1> QED
  BY <1>7 DEF lines

LEMMA SeesJoin ==
    ASSUME NEW B, NEW u \in Seq(Seq(B)), NEW v \in Seq(Seq(B)),
           NEW s, NEW m, NEW e, Settle(m) = m,
           Sees(u, s, m, B), Sees(v, m, e, B)
    PROVE  Sees(u \o v, s, e, B)
<1> DEFINE w == u \o v
           c == Len(u)
           d == Len(v)
           T == Readers(B)
           WithEnd(x) == Append(x, "LF")
<1>1. PICK p : Seen(p, u, s, m, B)
  BY DEF Sees
<1>2. PICK q : Seen(q, v, m, e, B)
  BY DEF Sees
<1>3. /\ Len(w) = c + d
      /\ \A i \in 1 .. d : w[c + i] = v[i]
      /\ \A i \in 1 .. c : w[i] = u[i]
  BY Joined
<1>4. c \in Nat /\ d \in Nat
  OBVIOUS
<1>5. /\ p \in [0 .. c -> T] /\ p[0] = s /\ p[c] = m
      /\ \A k \in 1 .. c : ReadsTo(WithEnd(u[k]), p[k - 1], p[k], B)
      /\ \A k \in 1 .. c : k # c => Settle(p[k]) = p[k]
  BY <1>1 DEF Seen
<1>6. /\ q \in [0 .. d -> T] /\ q[0] = m /\ q[d] = e
      /\ \A k \in 1 .. d : ReadsTo(WithEnd(v[k]), q[k - 1], q[k], B)
      /\ \A k \in 1 .. d : k # d => Settle(q[k]) = q[k]
  BY <1>2 DEF Seen
<1> DEFINE S == [k \in 0 .. c + d |-> IF k <= c THEN p[k] ELSE q[k - c]]
<1> HIDE DEF w, c, d, T, WithEnd
<1>7. \A k \in 0 .. c + d : S[k] = IF k <= c THEN p[k] ELSE q[k - c]
  OBVIOUS
<1>8. S \in [0 .. c + d -> T]
  <2>1. ASSUME NEW k \in 0 .. c + d
        PROVE  (IF k <= c THEN p[k] ELSE q[k - c]) \in T
    <3>1. k <= c => k \in 0 .. c
      BY <1>4
    <3>2. ~(k <= c) => k - c \in 0 .. d
      BY <1>4
    <3> QED
      BY <1>5, <1>6, <3>1, <3>2
  <2> QED
    BY <2>1
<1> HIDE DEF S
<1>9. \A i \in 0 .. d : S[c + i] = q[i]
  <2> TAKE i \in 0 .. d
  <2>1. c + i \in 0 .. c + d /\ (c + i) - c = i /\ (c + i <= c <=> i = 0)
    BY <1>4
  <2>2. c + 0 = c
    BY <1>4
  <2> QED
    BY <1>5, <1>6, <1>7, <2>1, <2>2
<1>10. \A i \in 0 .. c : S[i] = p[i]
  BY <1>4, <1>7
<1>11. S[0] = s /\ S[c + d] = e
  BY <1>4, <1>5, <1>6, <1>9, <1>10
<1>12. ASSUME NEW k \in 1 .. c + d
       PROVE  /\ ReadsTo(WithEnd(w[k]), S[k - 1], S[k], B)
              /\ k # c + d => Settle(S[k]) = S[k]
  <2>1. CASE k <= c
    <3>1. k \in 1 .. c /\ k \in 0 .. c /\ k - 1 \in 0 .. c
      BY <1>4, <2>1
    <3>2. w[k] = u[k] /\ S[k - 1] = p[k - 1] /\ S[k] = p[k]
      BY <1>3, <1>10, <3>1
    <3> QED
      BY <1>5, <3>1, <3>2
  <2>2. CASE ~(k <= c)
    <3>1. PICK i : i = k - c
      OBVIOUS
    <3>2. i \in 1 .. d /\ i \in 0 .. d /\ i - 1 \in 0 .. d /\ k = c + i
          /\ k - 1 = c + (i - 1) /\ (k # c + d => i # d)
      BY <1>4, <2>2, <3>1
    <3>3. w[k] = v[i] /\ S[k - 1] = q[i - 1] /\ S[k] = q[i]
      BY <1>3, <1>9, <3>2
    <3> QED
      BY <1>6, <3>2, <3>3
  <2> QED
    BY <2>1, <2>2
<1>13. Seen(S, w, s, e, B)
  BY <1>3, <1>8, <1>11, <1>12 DEF Seen, T, WithEnd
<1>14. Sees(w, s, e, B)
  BY <1>13 DEF Sees
<1> QED
  BY <1>14 DEF w

\* The semicolons inside literals among the first k characters of x.
Hurt(x, run, k) == {i \in 1 .. k : x[i] = Semicolon /\ Open(run[i - 1])}

\* sed on one line (run.sh:358): each part is read where it stands in the line.
LEMMA LineKept ==
    ASSUME NEW B, "LF" \in B, Semicolon \in B, NEW line \in Seq(B),
           NEW x, NEW run, Reading(run, line, x, B),
           NEW y \in Readers(B), NEW H, Follows(x, y, H), Settle(y) = y
    PROVE  \E e \in Readers(B) :
              /\ Sees(BreakLine(line), y, e, B)
              /\ Follows(Take(run[Len(line)], "LF"), e, H \cup Hurt(line, run, Len(line)))
<1> DEFINE w == BreakLine(line)
<1>1. PICK n \in Nat : Len(line) = n
  OBVIOUS
<1>2. w \in Seq(Seq(B))
  BY BrokenLine
<1> HIDE DEF w
<1>3. PICK m, p, f : Pieces(line, n, w, m, p, f)
  BY <1>1, PiecesAre DEF w
<1>4. m \in Nat /\ m # 0 /\ Len(w) = m /\ p[m] = n + 1 /\ f[1] = 1
  BY <1>3 DEF Pieces
<1>5. \A k \in 1 .. m : p[k] \in 1 .. n + 1 /\ f[k] \in 1 .. n + 1 /\ f[k] <= p[k]
  BY <1>3 DEF Pieces
<1>6. \A k, j \in 1 .. m : k < j <=> p[k] < p[j]
  BY <1>3 DEF Pieces
<1>7. \A k \in 1 .. m : k # m => p[k] \in 1 .. n /\ line[p[k]] = Semicolon
  BY <1>3 DEF Pieces
<1>8. \A i \in 1 .. n : line[i] = Semicolon => \E k \in 1 .. m : p[k] = i
  BY <1>3 DEF Pieces
<1>9. \A k \in 1 .. m : k # 1 =>
         p[k - 1] < f[k] /\ \A i \in p[k - 1] + 1 .. f[k] - 1 : line[i] = Space
  BY <1>3 DEF Pieces
<1>10. \A k \in 1 .. m : w[k] = SubSeq(line, f[k], IF k = m THEN n ELSE p[k])
  BY <1>3 DEF Pieces
<1>11. /\ run \in [0 .. n -> Readers(B)] /\ run[0] = x
       /\ \A k \in 1 .. n : run[k] = Take(run[k - 1], line[k])
  BY <1>1 DEF Reading
<1> DEFINE Q(k) == IF k = 0 THEN 0 ELSE p[k]
           G(k) == H \cup Hurt(line, run, Q(k))
<1>12. ASSUME NEW k \in 1 .. m
       PROVE  /\ Q(k) = p[k] /\ Q(k - 1) \in 0 .. n /\ Q(k - 1) < p[k]
              /\ \A i \in 1 .. n :
                    Q(k - 1) < i /\ i < p[k] => line[i] # Semicolon
  <2>1. k # 0 /\ (k = 1 => k - 1 = 0)
    BY <1>4
  <2>2. k # 1 => k - 1 # 0 /\ k - 1 \in 1 .. m /\ k - 1 # m /\ k - 1 < k
    BY <1>4
  <2>3. /\ p[k] \in 1 .. n + 1
        /\ k # 1 => p[k - 1] \in 1 .. n /\ p[k - 1] < p[k]
    BY <1>5, <1>6, <1>7, <2>2
  <2>4. ASSUME NEW i \in 1 .. n, Q(k - 1) < i, i < p[k], line[i] = Semicolon
        PROVE  FALSE
    <3>1. PICK j \in 1 .. m : p[j] = i
      BY <1>8, <2>4
    <3>2. j < k
      BY <1>6, <2>4, <3>1
    <3>3. k # 1 => k - 1 < j
      <4> SUFFICES ASSUME k # 1 PROVE k - 1 < j
        OBVIOUS
      <4>1. p[k - 1] < p[j]
        BY <2>2, <2>4, <3>1
      <4> QED
        BY <1>6, <2>2, <4>1
    <3> QED
      BY <1>4, <3>2, <3>3
  <2>5. Q(k) = p[k] /\ Q(k - 1) \in 0 .. n /\ Q(k - 1) < p[k]
    BY <1>1, <2>1, <2>2, <2>3
  <2> QED
    BY <2>4, <2>5
<1>13. \A k \in 1 .. m : \A i : i \in Hurt(line, run, Q(k - 1)) =>
                                   i \in 1 .. n /\ i <= Q(k - 1)
  BY <1>12 DEF Hurt
<1> DEFINE Done(k, e) ==
              /\ Sees(SubSeq(w, 1, k), y, e, B) /\ Settle(e) = e
              /\ Follows(run[f[k + 1] - 1], e, G(k))
           Good == {k \in 0 .. m - 1 : \E e \in Readers(B) : Done(k, e)}
<1> HIDE DEF Q
<1>14. 0 \in Good
  <2>1. 0 \in 0 .. m - 1 /\ 0 + 1 = 1 /\ 1 - 1 = 0
    BY <1>4
  <2>2. SubSeq(w, 1, 0) = << >>
    BY <1>2
  <2>3. Sees(SubSeq(w, 1, 0), y, y, B)
    BY <2>2, SeesNone
  <2>4. run[f[0 + 1] - 1] = x
    BY <1>4, <1>11, <2>1
  <2>5. G(0) = H
    <3>1. Q(0) = 0
      BY DEF Q
    <3>2. 1 .. 0 = {}
      OBVIOUS
    <3>3. Hurt(line, run, 0) = {}
      BY <3>2 DEF Hurt
    <3> QED
      BY <3>1, <3>3
  <2>6. Follows(run[f[0 + 1] - 1], y, G(0))
    BY <2>4, <2>5
  <2> QED
    BY <2>1, <2>3, <2>6
<1>15. ASSUME NEW k \in 1 .. m - 1, k - 1 \in Good PROVE k \in Good
  <2>1. PICK e \in Readers(B) : Done(k - 1, e)
    BY <1>15
  <2> DEFINE a == f[k]
             b == p[k]
             c == p[k] - 1
             g == f[k + 1]
             u == SubSeq(line, a, c)
             blanks == SubSeq(line, b + 1, g - 1)
             H0 == G(k - 1)
             H1 == G(k)
  <2>2. /\ k \in 1 .. m /\ k + 1 \in 1 .. m /\ k # m /\ k + 1 # 1
        /\ (k - 1) + 1 = k /\ (k + 1) - 1 = k /\ k \in 0 .. m - 1 /\ k # 0
    BY <1>4
  <2>3. /\ a \in 1 .. n + 1 /\ b \in 1 .. n /\ a <= b /\ line[b] = Semicolon
        /\ g \in 1 .. n + 1 /\ b < g
        /\ \A i \in b + 1 .. g - 1 : line[i] = Space
    BY <1>5, <1>7, <1>9, <2>2
  <2>4. w[k] = SubSeq(line, a, b)
    BY <1>10, <2>2
  <2>5. /\ Sees(SubSeq(w, 1, k - 1), y, e, B) /\ Settle(e) = e
        /\ Follows(run[a - 1], e, H0)
    BY <2>1, <2>2
  <2>6. ReadsTo(u, run[a - 1], run[c], B) /\ u \in Seq(B)
    <3>1. a \in Nat /\ a # 0 /\ c \in Nat /\ a <= c + 1 /\ c <= Len(line)
      BY <1>1, <2>3
    <3> HIDE DEF a, c
    <3> QED
      BY <3>1, ReadsPart, PartOf
  <2>7. /\ ReadsTo(blanks, run[b], run[g - 1], B) /\ blanks \in Seq(B)
        /\ \A i \in 1 .. Len(blanks) : blanks[i] = Space
    <3> DEFINE a1 == b + 1
               b1 == g - 1
    <3>1. a1 \in Nat /\ a1 # 0 /\ b1 \in Nat /\ a1 <= b1 + 1 /\ b1 <= Len(line)
      BY <1>1, <2>3
    <3>2. a1 - 1 = b
      BY <2>3
    <3> HIDE DEF a1, b1
    <3>3. ReadsTo(SubSeq(line, a1, b1), run[a1 - 1], run[b1], B)
      BY <3>1, ReadsPart
    <3>4. /\ SubSeq(line, a1, b1) \in Seq(B) /\ Len(SubSeq(line, a1, b1)) = (b1 + 1) - a1
          /\ \A i \in 1 .. (b1 + 1) - a1 : SubSeq(line, a1, b1)[i] = line[a1 - 1 + i]
      BY <3>1, PartOf
    <3>5. \A i \in 1 .. (b1 + 1) - a1 : a1 - 1 + i \in a1 .. b1
      BY <3>1
    <3>6. \A i \in a1 .. b1 : line[i] = Space
      BY <2>3 DEF a1, b1
    <3>7. \A i \in 1 .. Len(SubSeq(line, a1, b1)) : SubSeq(line, a1, b1)[i] = Space
      BY <3>4, <3>5, <3>6
    <3> QED
      BY <3>2, <3>3, <3>4, <3>7 DEF a1, b1
  <2>8. /\ run[b] = Take(run[c], Semicolon) /\ run[c] \in Readers(B)
    <3>1. c \in 0 .. n /\ b \in 1 .. n
      BY <1>1, <2>3
    <3> QED
      BY <1>11, <2>3, <3>1
  <2>9. H1 = H0 \cup (IF Open(run[c]) THEN {b} ELSE {})
    <3>1. Q(k) = b /\ Q(k - 1) \in 0 .. n /\ Q(k - 1) < b
      BY <1>12, <2>2
    <3>2. \A i \in 1 .. b : i \in 1 .. Q(k - 1) \/ i = b \/ line[i] # Semicolon
      BY <1>1, <1>12, <2>2, <2>3, <3>1
    <3>3. \A i \in 1 .. Q(k - 1) : i \in 1 .. b
      BY <2>3, <3>1
    <3>4. b \in 1 .. b
      BY <2>3
    <3>5. Hurt(line, run, b) = Hurt(line, run, Q(k - 1))
                                  \cup (IF Open(run[c]) THEN {b} ELSE {})
      <4> HIDE DEF b
      <4> QED
        BY <2>3, <3>2, <3>3, <3>4 DEF Hurt, b
    <3> QED
      BY <3>1, <3>5
  <2>10. Open(run[c]) => H1 # {}
    BY <2>9
  <2>11. ~Open(run[c]) => (H1 = {} <=> H0 = {})
    BY <2>9
  <2> DEFINE x0 == run[a - 1]
             x1 == run[c]
             x2 == run[g - 1]
  <2> HIDE DEF a, b, c, g, u, blanks, H0, H1, x0, x1, x2
  <2>12. PICK z \in Readers(B) : ReadsTo(u, e, z, B) /\ Follows(x1, z, H0)
    <3>1. ReadsTo(u, x0, x1, B) /\ Follows(x0, e, H0)
      BY <2>5, <2>6 DEF x0, x1
    <3> QED
      BY <2>6, <3>1, KeptReads
  <2> DEFINE z1 == Take(z, Semicolon)
             d == Take(z1, "LF")
  <2>13. Settle(d) = d /\ Follows(x2, d, H1)
    <3>1. ReadsTo(blanks, Take(x1, Semicolon), x2, B) /\ x1 \in Readers(B)
      BY <2>7, <2>8 DEF x1, x2
    <3>2. (Open(x1) => H1 # {}) /\ (~Open(x1) => (H1 = {} <=> H0 = {}))
      BY <2>10, <2>11 DEF x1
    <3> QED
      BY <2>7, <2>12, <3>1, <3>2, KeptCut
  <2>14. z1 \in Readers(B) /\ d \in Readers(B)
    BY <2>12, TakeTyped
  <2> HIDE DEF d
  <2>15. ReadsTo(Append(w[k], "LF"), e, d, B) /\ w[k] \in Seq(B)
    <3> DEFINE s == <<Semicolon>>
               l == <<"LF">>
    <3>1. s \in Seq(B) /\ ReadsTo(s, z, z1, B)
      BY <2>12, ReadsOne
    <3>2. l \in Seq(B) /\ ReadsTo(l, z1, d, B)
      BY <2>14, ReadsOne DEF d
    <3>3. w[k] = u \o s
      <4>1. a \in Nat /\ a # 0 /\ c \in Nat /\ b \in Nat /\ a <= c + 1 /\ c <= b
            /\ b <= Len(line) /\ c + 1 = b /\ b \in 1 .. Len(line)
        BY <1>1, <2>3 DEF c, b
      <4>2. SubSeq(line, a, c) \o SubSeq(line, c + 1, b) = SubSeq(line, a, b)
        BY <4>1, PartsJoin
      <4>3. SubSeq(line, b, b) = <<line[b]>>
        BY <4>1, PartIsOne
      <4> QED
        BY <2>3, <2>4, <4>1, <4>2, <4>3 DEF u
    <3> HIDE DEF s, l
    <3>4. u \o s \in Seq(B) /\ ReadsTo(u \o s, e, z1, B)
      BY <2>6, <2>12, <3>1, ReadsJoin
    <3>5. ReadsTo((u \o s) \o l, e, d, B)
      BY <3>2, <3>4, ReadsJoin
    <3>6. Append(u \o s, "LF") = (u \o s) \o l
      BY <3>4, AppendIs DEF l
    <3> QED
      BY <3>3, <3>4, <3>5, <3>6
  <2>16. Sees(SubSeq(w, 1, k), y, d, B)
    <3> DEFINE j == k - 1
               v == SubSeq(w, 1, j)
               o == <<w[k]>>
               C == Seq(B)
    <3>1. /\ 1 \in Nat /\ 1 # 0 /\ j \in Nat /\ k \in Nat /\ 1 <= j + 1 /\ j <= k
          /\ k <= Len(w) /\ j <= Len(w) /\ j + 1 = k /\ k \in 1 .. Len(w)
      BY <1>4, <2>2
    <3> HIDE DEF j
    <3>2. w \in Seq(C)
      BY <1>2
    <3> HIDE DEF C
    <3>3. SubSeq(w, 1, j) \o SubSeq(w, j + 1, k) = SubSeq(w, 1, k)
      BY <3>1, <3>2, PartsJoin
    <3>4. SubSeq(w, k, k) = o
      BY <3>1, <3>2, PartIsOne
    <3>5. v \in Seq(C)
      BY <3>1, <3>2, PartOf
    <3>6. o \in Seq(C)
      BY <2>15 DEF C
    <3>7. Sees(v, y, e, B)
      BY <2>5 DEF j
    <3>8. Sees(o, e, d, B)
      BY <2>15, SeesOne
    <3>9. v \o o = SubSeq(w, 1, k)
      BY <3>1, <3>3, <3>4
    <3> HIDE DEF v, o
    <3>10. v \in Seq(Seq(B)) /\ o \in Seq(Seq(B))
      BY <3>5, <3>6 DEF C
    <3>11. Sees(v \o o, y, d, B)
      BY <2>5, <3>7, <3>8, <3>10, SeesJoin
    <3> QED
      BY <3>9, <3>11
  <2>17. Follows(run[f[k + 1] - 1], d, G(k))
    BY <2>13 DEF x2, g, H1
  <2> QED
    BY <2>2, <2>13, <2>14, <2>16, <2>17
<1> HIDE DEF Good
<1>16. \A k \in 0 .. m - 1 : k \in Good
  <2>1. m - 1 \in Nat
    BY <1>4
  <2> DEFINE l == m - 1
  <2> HIDE DEF l
  <2>2. l \in Nat /\ \A k \in 1 .. l : k - 1 \in Good => k \in Good
    BY <1>15, <2>1 DEF l
  <2>3. \A k \in 0 .. l : k \in Good
    BY <1>14, <2>2, Upto
  <2> QED
    BY <2>3 DEF l
<1>17. PICK e \in Readers(B) : Done(m - 1, e)
  <2>1. m - 1 \in 0 .. m - 1
    BY <1>4
  <2> QED
    BY <1>16, <2>1 DEF Good
<1> DEFINE a == f[m]
           u == SubSeq(line, a, n)
           H0 == G(m - 1)
           x0 == run[a - 1]
           x1 == run[n]
<1>18. m \in 1 .. m /\ (m - 1) + 1 = m /\ n \in 0 .. n
  BY <1>1, <1>4
<1>19. /\ Sees(SubSeq(w, 1, m - 1), y, e, B) /\ Settle(e) = e /\ Follows(x0, e, H0)
  BY <1>17, <1>18
<1>20. w[m] = u
  BY <1>10, <1>18
<1>21. ReadsTo(u, x0, x1, B) /\ u \in Seq(B)
  <2>1. a \in Nat /\ a # 0 /\ n \in Nat /\ a <= n + 1 /\ n <= Len(line)
    BY <1>1, <1>5, <1>18
  <2> HIDE DEF a
  <2> QED
    BY <2>1, ReadsPart, PartOf
<1>22. x1 \in Readers(B)
  BY <1>11, <1>18
<1>23. H \cup Hurt(line, run, n) = H0
  <2>1. Q(m - 1) \in 0 .. n /\ Q(m - 1) < n + 1
    BY <1>4, <1>12, <1>18
  <2>2. \A i \in 1 .. n : i \in 1 .. Q(m - 1) \/ line[i] # Semicolon
    <3> SUFFICES ASSUME NEW i \in 1 .. n, line[i] = Semicolon, i \notin 1 .. Q(m - 1)
                 PROVE  FALSE
      OBVIOUS
    <3>1. Q(m - 1) < i /\ i < n + 1
      BY <1>1, <2>1
    <3> QED
      BY <1>4, <1>12, <1>18, <3>1
  <2>3. \A i \in 1 .. Q(m - 1) : i \in 1 .. n
    BY <1>1, <2>1
  <2>4. Hurt(line, run, n) = Hurt(line, run, Q(m - 1))
    BY <2>2, <2>3 DEF Hurt
  <2> QED
    BY <2>4
<1> HIDE DEF Done, a, u, H0, x0, x1
<1>24. PICK z \in Readers(B) : ReadsTo(u, e, z, B) /\ Follows(x1, z, H0)
  BY <1>19, <1>21, KeptReads
<1> DEFINE d == Take(z, "LF")
<1>25. d \in Readers(B)
  BY <1>24, TakeTyped
<1>26. Follows(Take(x1, "LF"), d, H0)
  BY <1>22, <1>24, KeptTake
<1>27. ReadsTo(Append(u, "LF"), e, d, B)
  <2> DEFINE l == <<"LF">>
  <2>1. l \in Seq(B) /\ ReadsTo(l, z, d, B)
    BY <1>24, ReadsOne
  <2> HIDE DEF l, d
  <2>2. ReadsTo(u \o l, e, d, B)
    BY <1>21, <1>24, <2>1, ReadsJoin
  <2>3. Append(u, "LF") = u \o l
    BY <1>21, AppendIs DEF l
  <2> QED
    BY <2>2, <2>3
<1> HIDE DEF d
<1>28. Sees(w, y, d, B)
  <2> DEFINE j == m - 1
             v == SubSeq(w, 1, j)
             o == <<w[m]>>
             C == Seq(B)
  <2>1. /\ 1 \in Nat /\ 1 # 0 /\ j \in Nat /\ m \in Nat /\ 1 <= j + 1 /\ j <= m
        /\ m <= Len(w) /\ j <= Len(w) /\ j + 1 = m /\ m \in 1 .. Len(w)
    BY <1>4
  <2> HIDE DEF j
  <2>2. w \in Seq(C)
    BY <1>2
  <2> HIDE DEF C
  <2>3. SubSeq(w, 1, j) \o SubSeq(w, j + 1, m) = SubSeq(w, 1, m)
    BY <2>1, <2>2, PartsJoin
  <2>4. SubSeq(w, m, m) = o
    BY <2>1, <2>2, PartIsOne
  <2>5. v \in Seq(C)
    BY <2>1, <2>2, PartOf
  <2>6. o \in Seq(C)
    BY <1>20, <1>21 DEF C
  <2>7. Sees(v, y, e, B)
    BY <1>19 DEF j
  <2>8. Sees(o, e, d, B)
    BY <1>20, <1>21, <1>27, SeesOne
  <2>9. SubSeq(w, 1, m) = w
    BY <1>4, <2>2
  <2>10. v \o o = w
    BY <2>1, <2>3, <2>4, <2>9
  <2> HIDE DEF v, o
  <2>11. v \in Seq(Seq(B)) /\ o \in Seq(Seq(B))
    BY <2>5, <2>6 DEF C
  <2>12. Sees(v \o o, y, d, B)
    BY <1>19, <2>7, <2>8, <2>11, SeesJoin
  <2> QED
    BY <2>10, <2>12
<1>29. Follows(Take(run[n], "LF"), d, H \cup Hurt(line, run, n))
  BY <1>23, <1>26 DEF x1
<1> QED
  BY <1>1, <1>25, <1>28, <1>29 DEF w

\* Where the literals of a text are open.
LEMMA ReaderOpen ==
    ASSUME NEW B, NEW x \in Seq(B), NEW run, Reading(run, x, Fresh, B)
    PROVE  /\ \A i \in 1 .. Len(x) : Inside(x, i) <=> Open(run[i - 1])
           /\ Open(run[Len(x)]) <=> Quotes(x) % 2 = 1
<1>1. PICK n \in Nat : Len(x) = n
  OBVIOUS
<1>2. Fresh.quotes = 0
  BY DEF Fresh, Reader
<1>3. ASSUME NEW i \in 1 .. n + 1
      PROVE  /\ run[i - 1].quotes = QuotesBefore(x, i)
             /\ Inside(x, i) <=> Open(run[i - 1])
  <2>1. i - 1 \in 0 .. n /\ (i - 1) + 1 = i /\ i \in Nat /\ i # 0
    BY <1>1
  <2>2. run[i - 1].quotes = Fresh.quotes + QuotesBefore(x, i)
    BY <1>1, <2>1, ReadsQuotes
  <2>3. QuotesBefore(x, i) \in Nat
    BY <2>1, QuotesStep
  <2>4. run[i - 1].quotes = QuotesBefore(x, i)
    BY <1>2, <2>2, <2>3
  <2>5. Inside(x, i) <=> QuotesBefore(x, i) % 2 = 1
    BY <1>1, InsideIs
  <2> QED
    BY <2>4, <2>5 DEF Open
<1>4. n + 1 \in 1 .. n + 1 /\ (n + 1) - 1 = n
  BY <1>1
<1>5. run[n].quotes = Quotes(x)
  <2>1. run[n].quotes = QuotesBefore(x, n + 1)
    BY <1>3, <1>4
  <2> QED
    BY <1>1, <2>1, QuotesOfAll
<1>6. \A i \in 1 .. n : i \in 1 .. n + 1
  BY <1>1
<1> QED
  BY <1>1, <1>3, <1>5, <1>6 DEF Open

\* A text of n characters and its lines: line k ends before the newline p[k],
\* the last one at the end of the text.
LinedUp(t, n, w, m, p) ==
    /\ m \in Nat /\ Len(w) = m /\ (n = 0 => m = 0) /\ (n # 0 => m # 0 /\ p[m] = n + 1)
    /\ \A k \in 1 .. m : p[k] \in 1 .. n + 1
    /\ \A k, j \in 1 .. m : k < j <=> p[k] < p[j]
    /\ \A k \in 1 .. m : k # m => p[k] \in 1 .. n /\ t[p[k]] = "LF"
    /\ \A k \in 1 .. m : w[k] = SubSeq(t, After(p, k), p[k] - 1)

LEMMA LinesAre ==
    ASSUME NEW A, NEW t \in Seq(A), Len(t) # 0 => t[Len(t)] # "LF"
    PROVE  \E m, p : LinedUp(t, Len(t), LinesOfText(t), m, p)
<1> DEFINE newlines == {i \in DOMAIN t : t[i] = "LF"}
           keep == IF t = << >> \/ Len(t) \in newlines THEN newlines
                   ELSE newlines \cup {Len(t) + 1}
           p == InOrder(keep)
           m == Cardinality(keep)
           lines == LinesOfText(t)
<1>1. PICK n \in Nat : Len(t) = n /\ DOMAIN t = 1 .. n
  OBVIOUS
<1>2. lines = [k \in DOMAIN p |-> SubSeq(t, After(p, k), p[k] - 1)]
  BY Zenon DEF LinesOfText
<1>3. /\ n = 0 => keep = {}
      /\ n # 0 => keep = newlines \cup {n + 1}
  <2>1. t = << >> <=> n = 0
    BY <1>1
  <2>2. n = 0 => newlines = {}
    BY <1>1
  <2>3. n # 0 => n \notin newlines
    BY <1>1
  <2> HIDE DEF newlines
  <2> QED
    BY <1>1, <2>1, <2>2, <2>3
<1>4. \A i \in newlines : i \in 1 .. n /\ t[i] = "LF"
  BY <1>1
<1> HIDE DEF newlines, keep, p, m, lines
<1>5. keep \in SUBSET (1 .. n + 1)
  BY <1>1, <1>3, <1>4
<1>6. /\ m \in Nat /\ DOMAIN p = 1 .. m
      /\ \A k \in 1 .. m : p[k] \in keep /\ p[k] \in 1 .. n + 1
      /\ \A k, j \in 1 .. m : k < j <=> p[k] < p[j]
      /\ \A i \in keep : (\A j \in keep : j <= i) => m # 0 /\ p[m] = i
  <2>1. p = InOrder(keep)
    BY DEF p
  <2> QED
    BY <1>1, <1>5, <2>1, EndsOf DEF m
<1>7. n = 0 => m = 0
  BY <1>3, FS_EmptySet DEF m
<1>8. n # 0 => m # 0 /\ p[m] = n + 1
  BY <1>3, <1>5, <1>6
<1>9. ASSUME NEW k \in 1 .. m, k # m PROVE p[k] \in 1 .. n /\ t[p[k]] = "LF"
  <2>1. m \in 1 .. m /\ k < m /\ n # 0
    BY <1>6, <1>7, <1>9
  <2>2. p[k] < n + 1 /\ p[k] \in 1 .. n + 1 /\ p[k] \in keep
    BY <1>6, <1>8, <2>1
  <2>3. p[k] # n + 1
    BY <1>1, <2>2
  <2> QED
    BY <1>3, <1>4, <2>1, <2>2, <2>3
<1>10. \A k \in 1 .. m : lines[k] = SubSeq(t, After(p, k), p[k] - 1)
  BY <1>2, <1>6
<1>11. Len(lines) = m
  BY <1>2, <1>6
<1>12. LinedUp(t, n, lines, m, p)
  BY <1>6, <1>7, <1>8, <1>9, <1>10, <1>11 DEF LinedUp
<1> QED
  BY <1>1, <1>12 DEF lines

\* Only whether a semicolon has broken a literal matters.
LEMMA KeptSame ==
    ASSUME NEW x, NEW y, NEW H, NEW G, Follows(x, y, H), H = {} <=> G = {}
    PROVE  Follows(x, y, G)
BY DEF Follows

\* A reprinted text does not end in a newline.
LEMMA EndsInText ==
    ASSUME NEW B, NEW t \in Seq(B), Reprinted(t), NEW run, Reading(run, t, Fresh, B),
           Len(t) # 0
    PROVE  t[Len(t)] # "LF"
<1>1. PICK n \in Nat : Len(t) = n /\ n # 0 /\ DOMAIN t = 1 .. n
  OBVIOUS
<1> SUFFICES ASSUME t[n] = "LF" PROVE FALSE
  BY <1>1
<1>2. /\ run \in [0 .. n -> Readers(B)]
      /\ \A k \in 1 .. n : run[k] = Take(run[k - 1], t[k])
  BY <1>1 DEF Reading
<1>3. n \in 1 .. n /\ n - 1 \in 0 .. n
  BY <1>1
<1>4. Inside(t, n)
  BY <1>1, <1>3 DEF Reprinted
<1>5. Open(run[n - 1])
  BY <1>1, <1>3, <1>4, ReaderOpen
<1> DEFINE s == run[n - 1]
           e == run[n]
<1>6. s \in Readers(B) /\ e = Take(s, "LF") /\ Open(s)
  BY <1>2, <1>3, <1>5
<1> HIDE DEF s, e
<1>7. s.quotes \in Nat
  BY <1>6, ReadersAre
<1>8. e.quotes = s.quotes
  BY <1>6, <1>7, TakeCounts, LineBreakDiffers
<1>9. Open(e)
  BY <1>6, <1>8 DEF Open
<1>10. Quotes(t) % 2 = 1
  BY <1>1, <1>9, ReaderOpen DEF e
<1> QED
  BY <1>10 DEF Reprinted

\* sed on a text: its reader and that of the lines agree, but for the literals
\* that hold a semicolon (run.sh:358).
LEMMA SedKept ==
    ASSUME NEW B, "LF" \in B, Semicolon \in B, NEW t \in Seq(B), Reprinted(t),
           NEW run, Reading(run, t, Fresh, B)
    PROVE  \E e \in Readers(B) :
              /\ Sees(SedLines(t), Fresh, e, B)
              /\ Follows(IF Len(t) = 0 THEN Fresh ELSE Take(run[Len(t)], "LF"), e,
                      Hurt(t, run, Len(t)))
<1> DEFINE lines == LinesOfText(t)
           broken == [k \in DOMAIN lines |-> BreakLine(lines[k])]
           C == Seq(B)
<1>1. PICK n \in Nat : Len(t) = n
  OBVIOUS
<1>2. lines \in Seq(C)
  BY LinesHaveQuotes
<1>3. SedLines(t) = FlattenSeq(broken)
  BY Zenon DEF SedLines
<1> HIDE DEF lines
<1>4. PICK m, p : LinedUp(t, n, lines, m, p)
  BY <1>1, LinesAre, EndsInText DEF lines
<1>5. /\ m \in Nat /\ Len(lines) = m /\ (n = 0 => m = 0)
      /\ (n # 0 => m # 0 /\ p[m] = n + 1)
  BY <1>4 DEF LinedUp
<1>6. \A k \in 1 .. m : p[k] \in 1 .. n + 1
  BY <1>4 DEF LinedUp
<1>7. \A k, j \in 1 .. m : k < j <=> p[k] < p[j]
  BY <1>4 DEF LinedUp
<1>8. \A k \in 1 .. m : k # m => p[k] \in 1 .. n /\ t[p[k]] = "LF"
  BY <1>4 DEF LinedUp
<1>9. \A k \in 1 .. m : lines[k] = SubSeq(t, After(p, k), p[k] - 1)
  BY <1>4 DEF LinedUp
<1>10. DOMAIN lines = 1 .. m
  BY <1>2, <1>5
<1>22. \A k \in 1 .. m : lines[k] \in Seq(B)
  <2> HIDE DEF C
  <2>1. \A k \in 1 .. m : lines[k] \in C
    BY <1>2, <1>5
  <2> QED
    BY <2>1 DEF C
<1>11. \A k \in 1 .. m : broken[k] = BreakLine(lines[k])
  BY <1>10
<1>12. broken \in Seq(Seq(C)) /\ Len(broken) = m
  <2>1. \A k \in 1 .. m : BreakLine(lines[k]) \in Seq(C)
    <3> TAKE k \in 1 .. m
    <3>1. lines[k] \in Seq(B)
      BY <1>22
    <3> QED
      BY <3>1, BrokenLine
  <2> HIDE DEF C
  <2>2. broken \in [1 .. m -> Seq(C)]
    BY <1>10, <2>1
  <2> QED
    BY <1>5, <2>2
<1> HIDE DEF broken
<1>13. PICK flat : Flattening(flat, broken, C)
  <2> HIDE DEF C
  <2> QED
    BY <1>12, FlattenRun
<1>14. /\ flat \in [0 .. m -> Seq(C)] /\ flat[0] = << >>
       /\ \A k \in 1 .. m : flat[k] = flat[k - 1] \o broken[k]
       /\ FlattenSeq(broken) = flat[m]
  BY <1>12, <1>13 DEF Flattening
<1>15. /\ run \in [0 .. n -> Readers(B)] /\ run[0] = Fresh
       /\ \A k \in 1 .. n : run[k] = Take(run[k - 1], t[k])
  BY <1>1 DEF Reading
<1> DEFINE X(k) == IF k = 0 THEN Fresh ELSE Take(run[p[k] - 1], "LF")
           G(k) == IF k = 0 THEN {} ELSE Hurt(t, run, p[k] - 1)
           Done(k, e) == /\ Sees(flat[k], Fresh, e, B)
                         /\ Follows(X(k), e, G(k))
                         /\ k # m => Settle(e) = e
           Good == {k \in 0 .. m : \E e \in Readers(B) : Done(k, e)}
<1>16. 0 \in Good
  <2>1. Fresh \in Readers(B)
    BY FreshTyped
  <2>2. Sees(flat[0], Fresh, Fresh, B)
    BY <1>14, <2>1, SeesNone
  <2>3. X(0) = Fresh /\ G(0) = {}
    OBVIOUS
  <2>4. Follows(X(0), Fresh, G(0))
    <3>1. Fresh.breaks \in Nat
      BY <2>1, ReadersAre
    <3> QED
      BY <2>3, <3>1 DEF Follows
  <2>5. Settle(Fresh) = Fresh
    BY FreshSettled
  <2>6. 0 \in 0 .. m
    BY <1>5
  <2> QED
    BY <2>1, <2>2, <2>4, <2>5, <2>6
<1>17. ASSUME NEW k \in 1 .. m, k - 1 \in Good PROVE k \in Good
  <2>1. PICK y \in Readers(B) : Done(k - 1, y)
    BY <1>17
  <2> DEFINE a == After(p, k)
             b == p[k] - 1
             c == (b + 1) - a
             part == [i \in 0 .. c |-> run[a - 1 + i]]
             line == lines[k]
             x == X(k - 1)
             H0 == G(k - 1)
             H1 == G(k)
  <2>2. k \in 0 .. m /\ k # 0 /\ k - 1 # m
    BY <1>5
  <2>3. p[k] \in 1 .. n + 1 /\ b \in 0 .. n /\ b + 1 = p[k]
    BY <1>1, <1>6
  <2>4. /\ k = 1 => a = 1
        /\ k # 1 => /\ k - 1 \in 1 .. m /\ k - 1 # 0 /\ a = p[k - 1] + 1
                    /\ p[k - 1] \in 1 .. n /\ t[p[k - 1]] = "LF" /\ p[k - 1] < p[k]
    <3>1. k # 1 => k - 1 \in 1 .. m /\ k - 1 # m /\ k - 1 < k /\ k - 1 # 0
      BY <1>5
    <3> QED
      BY <1>7, <1>8, <3>1 DEF After
  <2>5. a \in Nat /\ a # 0 /\ b \in Nat /\ a <= b + 1 /\ b <= n
    BY <1>1, <2>3, <2>4
  <2>6. line = SubSeq(t, a, b) /\ line \in Seq(B)
    BY <1>9, <1>22
  <2>7. x = run[a - 1]
    <3>1. CASE k = 1
      BY <1>15, <2>4, <3>1
    <3>2. CASE k # 1
      <4>1. p[k - 1] \in 1 .. n /\ a - 1 = p[k - 1]
        BY <2>4, <3>2
      <4>2. run[p[k - 1]] = Take(run[p[k - 1] - 1], "LF")
        BY <1>15, <2>4, <3>2, <4>1
      <4> QED
        BY <2>4, <3>2, <4>1, <4>2
    <3> QED
      BY <3>1, <3>2
  <2> HIDE DEF a, b
  <2>8. Reading(part, line, x, B)
    <3>1. Reading(part, SubSeq(t, a, b), run[a - 1], B)
      BY <1>1, <2>5, ReadingPart
    <3> QED
      BY <2>6, <2>7, <3>1
  <2>9. /\ Len(line) = c /\ c \in Nat /\ \A i \in 1 .. c : line[i] = t[a - 1 + i]
    BY <1>1, <2>5, <2>6, PartOf
  <2>10. part[c] = run[b]
    <3>1. c \in 0 .. c /\ a - 1 + c = b
      BY <2>5, <2>9
    <3> QED
      BY <3>1
  <2>11. /\ Sees(flat[k - 1], Fresh, y, B) /\ Follows(x, y, H0) /\ Settle(y) = y
    BY <2>1, <2>2
  <2>12. H1 = {} <=> H0 \cup Hurt(line, part, c) = {}
    <3>1. \A i \in 1 .. c : a - 1 + i \in 1 .. b /\ (a - 1 + i) - 1 = a - 1 + (i - 1)
                            /\ i - 1 \in 0 .. c
      BY <2>5
    <3>2. \A i \in 1 .. c : i \in Hurt(line, part, c) <=> a - 1 + i \in Hurt(t, run, b)
      BY <2>9, <3>1 DEF Hurt
    <3>3. H1 = Hurt(t, run, b)
      BY <2>2 DEF b
    <3>4. H0 \subseteq Hurt(t, run, b)
      <4>1. CASE k = 1
        BY <4>1
      <4>2. CASE k # 1
        <5>1. H0 = Hurt(t, run, p[k - 1] - 1)
          BY <2>4, <4>2
        <5>2. \A i \in 1 .. p[k - 1] - 1 : i \in 1 .. b
          BY <2>4, <2>5, <4>2
        <5> QED
          BY <5>1, <5>2 DEF Hurt
      <4> QED
        BY <4>1, <4>2
    <3>5. ASSUME NEW i \in Hurt(t, run, b)
          PROVE  i \in H0 \/ \E j \in 1 .. c : a - 1 + j = i
      <4>1. i \in 1 .. b /\ t[i] = Semicolon /\ Open(run[i - 1])
        BY DEF Hurt
      <4>2. CASE a <= i
        <5>1. (i + 1) - a \in 1 .. c /\ a - 1 + ((i + 1) - a) = i
          BY <2>5, <4>1, <4>2
        <5> QED
          BY <5>1
      <4>3. CASE ~(a <= i)
        <5>1. k # 1
          BY <2>4, <4>1, <4>3
        <5>2. i # p[k - 1]
          BY <2>4, <4>1, <5>1, SignsDiffer, LineBreakDiffers
        <5>3. i \in 1 .. p[k - 1] - 1
          BY <2>4, <2>5, <4>1, <4>3, <5>1, <5>2
        <5>4. H0 = Hurt(t, run, p[k - 1] - 1)
          BY <2>4, <5>1
        <5> QED
          BY <4>1, <5>3, <5>4 DEF Hurt
      <4> QED
        BY <4>2, <4>3
    <3>6. \A i \in Hurt(line, part, c) : i \in 1 .. c
      BY DEF Hurt
    <3> HIDE DEF H0, H1, part, c
    <3> QED
      BY <3>2, <3>3, <3>4, <3>5, <3>6
  <2> HIDE DEF x, line, part, c, H0, H1
  <2>13. PICK e \in Readers(B) :
            /\ Sees(BreakLine(line), y, e, B)
            /\ Follows(Take(part[c], "LF"), e, H0 \cup Hurt(line, part, c))
    BY <2>6, <2>8, <2>9, <2>11, LineKept
  <2>14. Follows(X(k), e, G(k))
    <3>1. X(k) = Take(part[c], "LF")
      BY <2>2, <2>10 DEF b
    <3>2. Follows(X(k), e, H1)
      BY <2>12, <2>13, <3>1, KeptSame
    <3> QED
      BY <3>2 DEF H1
  <2>15. Sees(flat[k], Fresh, e, B)
    <3>1. broken[k] = BreakLine(line) /\ flat[k] = flat[k - 1] \o broken[k]
      BY <1>11, <1>14 DEF line
    <3>2. flat[k - 1] \in Seq(Seq(B)) /\ BreakLine(line) \in Seq(Seq(B))
      <4>1. k - 1 \in 0 .. m
        BY <1>5
      <4> QED
        BY <1>14, <2>6, <4>1, BrokenLine
    <3> DEFINE u == flat[k - 1]
               v == BreakLine(line)
    <3>3. u \in Seq(Seq(B)) /\ v \in Seq(Seq(B)) /\ Sees(u, Fresh, y, B) /\ Sees(v, y, e, B)
      BY <2>11, <2>13, <3>2
    <3> HIDE DEF u, v
    <3>4. Sees(u \o v, Fresh, e, B)
      BY <2>11, <3>3, SeesJoin
    <3> QED
      BY <3>1, <3>4 DEF u, v
  <2>16. ASSUME k # m PROVE Settle(e) = e
    <3>1. p[k] \in 1 .. n /\ t[p[k]] = "LF"
      BY <1>8, <2>16
    <3>2. Inside(t, p[k])
      <4>1. p[k] \in DOMAIN t
        BY <1>1, <3>1
      <4> QED
        BY <3>1, <4>1 DEF Reprinted
    <3> DEFINE s == run[p[k] - 1]
    <3>3. Open(s)
      BY <1>1, <3>1, <3>2, ReaderOpen
    <3>4. s \in Readers(B)
      <4>1. p[k] - 1 \in 0 .. n
        BY <1>1, <3>1
      <4> QED
        BY <1>15, <4>1
    <3>5. X(k) = Take(s, "LF")
      BY <2>2
    <3> HIDE DEF s
    <3>6. Take(s, "LF").quotes = s.quotes
      <4>1. s.quotes \in Nat
        BY <3>4, ReadersAre
      <4> QED
        BY <3>4, <4>1, TakeCounts, LineBreakDiffers
    <3>7. e.quotes = s.quotes
      BY <2>14, <3>5, <3>6 DEF Follows
    <3>8. Open(e)
      BY <3>3, <3>7 DEF Open
    <3> QED
      BY <3>8, SettleIs
  <2> HIDE DEF X, G
  <2> QED
    BY <2>2, <2>13, <2>14, <2>15, <2>16
<1> HIDE DEF Good
<1>18. \A k \in 0 .. m : k \in Good
  BY <1>5, <1>16, <1>17, Upto
<1>19. PICK e \in Readers(B) : Done(m, e)
  <2>1. m \in 0 .. m
    BY <1>5
  <2> QED
    BY <1>18, <2>1 DEF Good
<1>20. Sees(SedLines(t), Fresh, e, B)
  BY <1>3, <1>14, <1>19
<1>21. Follows(IF n = 0 THEN Fresh ELSE Take(run[n], "LF"), e, Hurt(t, run, n))
  <2>1. Follows(X(m), e, G(m))
    BY <1>19
  <2>2. CASE n = 0
    <3>1. m = 0 /\ X(m) = Fresh /\ G(m) = {}
      BY <1>5, <2>2
    <3>2. 1 .. n = {}
      BY <2>2
    <3>3. Hurt(t, run, n) = {}
      BY <3>2 DEF Hurt
    <3> QED
      BY <2>1, <2>2, <3>1, <3>3
  <2>3. CASE n # 0
    <3>1. m # 0 /\ p[m] = n + 1 /\ (n + 1) - 1 = n
      BY <1>1, <1>5, <2>3
    <3>2. X(m) = Take(run[n], "LF") /\ G(m) = Hurt(t, run, n)
      BY <3>1
    <3> QED
      BY <2>1, <2>3, <3>2
  <2> QED
    BY <2>2, <2>3
<1> QED
  BY <1>1, <1>20, <1>21

\* What a stream of lines is read as.
LEMMA StreamIsRead ==
    ASSUME NEW B, "LF" \in B, NEW lines \in Seq(Seq(B)), NEW s, NEW e,
           Sees(lines, s, e, B)
    PROVE  Stream(lines) \in Seq(B) /\ ReadsTo(Stream(lines), s, e, B)
<1> DEFINE C == Seq(B)
           ended == [k \in DOMAIN lines |-> Append(lines[k], "LF")]
<1>1. PICK S : Seen(S, lines, s, e, B)
  BY DEF Sees
<1>2. lines \in Seq(C)
  OBVIOUS
<1>3. PICK n \in Nat : Len(lines) = n /\ DOMAIN lines = 1 .. n
  <2> HIDE DEF C
  <2> QED
    BY <1>2
<1>4. \A k \in 1 .. n : Append(lines[k], "LF") \in C
  <2> TAKE k \in 1 .. n
  <2>1. lines[k] \in Seq(B)
    <3> HIDE DEF C
    <3>1. lines[k] \in C
      BY <1>2, <1>3
    <3> QED
      BY <3>1 DEF C
  <2> QED
    BY <2>1
<1>5. \A k \in 1 .. n : ended[k] = Append(lines[k], "LF")
  BY <1>3
<1>6. ended \in Seq(C) /\ Len(ended) = n
  <2> HIDE DEF C
  <2>1. ended \in [1 .. n -> C]
    BY <1>3, <1>4
  <2> QED
    BY <1>3, <2>1
<1>7. Stream(lines) = FlattenSeq(ended)
  BY Zenon DEF Stream
<1> HIDE DEF ended
<1>8. PICK flat : Flattening(flat, ended, B)
  BY <1>6, FlattenRun
<1>9. /\ flat \in [0 .. n -> Seq(B)] /\ flat[0] = << >>
      /\ \A k \in 1 .. n : flat[k] = flat[k - 1] \o ended[k]
      /\ FlattenSeq(ended) = flat[n]
  BY <1>6, <1>8 DEF Flattening
<1>10. /\ S \in [0 .. n -> Readers(B)] /\ S[0] = s /\ S[n] = e
       /\ \A k \in 1 .. n : ReadsTo(ended[k], S[k - 1], S[k], B)
  BY <1>1, <1>3, <1>5 DEF Seen
<1> DEFINE Good == {k \in 0 .. n : ReadsTo(flat[k], s, S[k], B)}
<1>11. 0 \in Good
  <2>1. 0 \in 0 .. n
    BY <1>3
  <2>2. s \in Readers(B)
    BY <1>10, <2>1
  <2> QED
    BY <1>9, <1>10, <2>1, <2>2, ReadsNone
<1>12. ASSUME NEW k \in 1 .. n, k - 1 \in Good PROVE k \in Good
  <2>1. k \in 0 .. n /\ k - 1 \in 0 .. n
    BY <1>3
  <2> DEFINE u == flat[k - 1]
             v == ended[k]
             m == S[k - 1]
             f == S[k]
  <2>2. /\ u \in Seq(B) /\ ReadsTo(u, s, m, B)
        /\ v \in Seq(B) /\ ReadsTo(v, m, f, B)
    <3>1. v \in Seq(B)
      BY <1>4, <1>5 DEF C
    <3> QED
      BY <1>9, <1>10, <1>12, <2>1, <3>1
  <2>3. flat[k] = u \o v
    BY <1>9
  <2> HIDE DEF u, v, m
  <2>4. ReadsTo(u \o v, s, f, B)
    BY <2>2, ReadsJoin
  <2> QED
    BY <2>1, <2>3, <2>4
<1> HIDE DEF Good
<1>13. \A k \in 0 .. n : k \in Good
  BY <1>3, <1>11, <1>12, Upto
<1>14. n \in 0 .. n
  BY <1>3
<1> QED
  BY <1>7, <1>9, <1>10, <1>13, <1>14 DEF Good

\* The last character of what is read.
LEMMA ReadsLast ==
    ASSUME NEW B, NEW x \in Seq(B), NEW c \in B, NEW s, NEW e,
           ReadsTo(Append(x, c), s, e, B)
    PROVE  \E l \in Readers(B) :
              /\ ReadsTo(x, s, l, B) /\ e = Take(l, c)
              /\ l.quotes = s.quotes + Quotes(x)
<1> DEFINE y == Append(x, c)
<1>1. PICK n \in Nat : Len(x) = n
  OBVIOUS
<1>2. /\ y \in Seq(B) /\ Len(y) = n + 1 /\ y[n + 1] = c /\ SubSeq(y, 1, n) = x
  BY <1>1
<1> HIDE DEF y
<1>3. PICK run : Reading(run, y, s, B) /\ run[n + 1] = e
  BY <1>2 DEF ReadsTo, y
<1>4. /\ run \in [0 .. n + 1 -> Readers(B)] /\ run[0] = s
      /\ \A k \in 1 .. n + 1 : run[k] = Take(run[k - 1], y[k])
  BY <1>2, <1>3 DEF Reading
<1>5. n + 1 \in 1 .. n + 1 /\ (n + 1) - 1 = n /\ n \in 0 .. n + 1
  BY <1>1
<1>6. run[n] \in Readers(B) /\ e = Take(run[n], c)
  BY <1>2, <1>3, <1>4, <1>5
<1>7. ReadsTo(x, s, run[n], B)
  <2>1. 1 \in Nat /\ 1 # 0 /\ 1 <= n + 1 /\ n <= Len(y) /\ 1 - 1 = 0
    BY <1>1, <1>2
  <2>2. ReadsTo(SubSeq(y, 1, n), run[1 - 1], run[n], B)
    BY <1>2, <1>3, <2>1, ReadsPart
  <2> QED
    BY <1>2, <1>4, <2>1, <2>2
<1>8. run[n].quotes = s.quotes + Quotes(x)
  <2>1. PICK p : Reading(p, x, s, B) /\ p[n] = run[n]
    BY <1>1, <1>7 DEF ReadsTo
  <2>2. n \in 0 .. n
    BY <1>1
  <2>3. p[n].quotes = s.quotes + QuotesBefore(x, n + 1)
    BY <1>1, <2>1, <2>2, ReadsQuotes
  <2> QED
    BY <1>1, <2>1, <2>3, QuotesOfAll
<1> QED
  BY <1>6, <1>7, <1>8

\* What is terminated outside the literals leaves no statement open.
LEMMA TerminatedSettles ==
    ASSUME NEW B, NEW x \in Seq(B), IsTerminated(x), NEW s, NEW e,
           ReadsTo(x, s, e, B), ~Open(e)
    PROVE  e.cur = << >> /\ Settle(e) = e
<1>1. PICK n \in Nat : Len(x) = n /\ DOMAIN x = 1 .. n
  OBVIOUS
<1>2. PICK i \in 1 .. n : x[i] = Semicolon /\ \A j \in i + 1 .. n : x[j] = Space
  BY <1>1, IsTerminatedIs
<1>3. PICK run : Reading(run, x, s, B) /\ run[n] = e
  BY <1>1 DEF ReadsTo
<1>4. /\ run \in [0 .. n -> Readers(B)]
      /\ \A k \in 1 .. n : run[k] = Take(run[k - 1], x[k])
  BY <1>1, <1>3 DEF Reading
<1> DEFINE a == i + 1
           blanks == SubSeq(x, a, n)
           r == run[i - 1]
           f == run[i]
<1>5. r \in Readers(B) /\ f = Take(r, Semicolon) /\ f \in Readers(B)
  BY <1>2, <1>4
<1>6. a \in Nat /\ a # 0 /\ a <= n + 1 /\ n <= Len(x) /\ a - 1 = i
  BY <1>1
<1> HIDE DEF a, r
<1>7. /\ blanks \in Seq(B) /\ ReadsTo(blanks, f, e, B)
      /\ \A j \in 1 .. Len(blanks) : blanks[j] = Space
  <2>1. ReadsTo(blanks, run[a - 1], run[n], B)
    BY <1>3, <1>6, ReadsPart
  <2>2. /\ blanks \in Seq(B) /\ Len(blanks) = (n + 1) - a
        /\ \A j \in 1 .. (n + 1) - a : blanks[j] = x[a - 1 + j]
    BY <1>6, PartOf
  <2>3. \A j \in 1 .. (n + 1) - a : a - 1 + j \in i + 1 .. n
    BY <1>6
  <2> HIDE DEF blanks
  <2> QED
    BY <1>2, <1>3, <1>6, <2>1, <2>2, <2>3
<1> HIDE DEF blanks, f
<1>8. e.quotes = f.quotes /\ (f.cur = << >> => e = f)
  BY <1>7, BlanksRead
<1>9. ~Open(r)
  <2>1. r.quotes \in Nat
    BY <1>5, ReadersAre
  <2>2. f.quotes = r.quotes
    BY <1>5, <2>1, TakeCounts, SignsDiffer
  <2> QED
    BY <1>8, <2>2 DEF Open
<1>10. f = Settle(r)
  BY <1>5, <1>9, TakeEnd
<1>11. f.cur = << >> /\ Settle(f) = f
  BY <1>9, <1>10, SettleParts, SettleTwice
<1> QED
  BY <1>8, <1>11

\* What awk has shown and what it holds back, read up to the line behind
\* which the reader of the lines is s.
AwkReads(awk, s, fold, B) ==
    /\ awk.inStr \in BOOLEAN /\ (awk.inStr <=> Open(s))
    /\ awk.buf \in Seq(B) /\ awk.out \in Seq(Seq(B))
    /\ \E o \in Readers(B) :
          /\ Sees(awk.out, Fresh, o, B) /\ Settle(o) = o
          /\ fold /\ awk.inStr =>
                \E b \in Readers(B) : ReadsTo(awk.buf, o, b, B) /\ Take(b, "LF") = s
          /\ ~(fold /\ awk.inStr) => awk.buf = << >> /\ o = Settle(s)

\* The text awk has when it has read a line.
AwkText(awk, line, fold) ==
    IF fold /\ awk.inStr THEN awk.buf \o <<Splice>> \o line ELSE line

\* What awk has done with a line that leaves a literal open or closes it.
AwkDoes(awk, line, fold, inside, made, e) ==
    /\ e = awk \/ e = [inStr |-> e.inStr, buf |-> e.buf, out |-> e.out]
    /\ ~awk.inStr /\ IsBlank(line) => e = awk
    /\ ~(~awk.inStr /\ IsBlank(line)) =>
          /\ e.inStr = inside
          /\ fold /\ inside => e.buf = made /\ e.out = awk.out
          /\ ~fold /\ inside => e.buf = << >> /\ e.out = Append(awk.out, made)
          /\ ~inside =>
                e.buf = << >> /\ e.out = Append(awk.out, Terminated(made))

LEMMA AwkLineDoes ==
    ASSUME NEW awk, NEW line, NEW fold
    PROVE  \E inside, made, e :
              /\ inside = ((Quotes(line) % 2 = 0) = awk.inStr) /\ inside \in BOOLEAN
              /\ made = AwkText(awk, line, fold) /\ e = AwkLine(awk, line, fold)
              /\ AwkDoes(awk, line, fold, inside, made, e)
<1>0. PICK inside, made, e :
         /\ inside = ((Quotes(line) % 2 = 0) = awk.inStr) /\ inside \in BOOLEAN
         /\ made = AwkText(awk, line, fold) /\ e = AwkLine(awk, line, fold)
  OBVIOUS
<1> DEFINE last == IF inside THEN made ELSE Terminated(made)
           buf == IF fold /\ inside THEN made ELSE << >>
           out == IF fold /\ inside THEN awk.out ELSE Append(awk.out, last)
           new == [inStr |-> inside, buf |-> buf, out |-> out]
<1>1. e = IF ~awk.inStr /\ IsBlank(line) THEN awk ELSE new
  BY <1>0, Zenon DEF AwkLine, AwkText
<1>2. new.inStr = inside /\ new.buf = buf /\ new.out = out
  OBVIOUS
<1>3. /\ fold /\ inside => buf = made /\ out = awk.out
      /\ ~fold /\ inside => buf = << >> /\ out = Append(awk.out, made)
      /\ ~inside => buf = << >> /\ out = Append(awk.out, Terminated(made))
  BY Zenon
<1> HIDE DEF buf, out, new
<1>4. ~awk.inStr /\ IsBlank(line) => e = awk
  BY <1>1
<1>5. ~(~awk.inStr /\ IsBlank(line)) =>
         /\ e.inStr = inside
         /\ fold /\ inside => e.buf = made /\ e.out = awk.out
         /\ ~fold /\ inside => e.buf = << >> /\ e.out = Append(awk.out, made)
         /\ ~inside => e.buf = << >> /\ e.out = Append(awk.out, Terminated(made))
  BY <1>1, <1>2, <1>3, Zenon
<1>6. e = awk \/ e = [inStr |-> e.inStr, buf |-> e.buf, out |-> e.out]
  BY <1>1, <1>2 DEF new
<1>7. AwkDoes(awk, line, fold, inside, made, e)
  BY <1>4, <1>5, <1>6, Zenon DEF AwkDoes
<1> QED
  BY <1>0, <1>7, Zenon

\* A line closed behind the text of a statement.
LEMMA LinePrinted ==
    ASSUME NEW B, "LF" \in B, Semicolon \in B, NEW x \in Seq(B), NEW o, NEW l,
           ReadsTo(x, o, l, B), ~Open(l)
    PROVE  /\ Terminated(x) \in Seq(B)
           /\ ReadsTo(Append(Terminated(x), "LF"), o, Settle(Take(l, "LF")), B)
<1> DEFINE e == Take(l, "LF")
           lf == <<"LF">>
           s == <<Semicolon>>
           f == Settle(l)
<1>1. l \in Readers(B)
  BY ReadsEnds
<1>2. Idle(l, "LF")
  BY DEF Idle, IsBreak
<1>3. ~Open(e) /\ Settle(e) = f
  BY <1>1, <1>2, SettleIdle
<1>4. f \in Readers(B) /\ ~Open(f) /\ f.cur = << >>
  BY <1>1, SettleTyped, SettleParts
<1> HIDE DEF e, f
<1>5. Take(f, "LF") = f
  <2>1. Idle(f, "LF")
    BY <1>4 DEF Idle, IsBreak
  <2> QED
    BY <1>4, <2>1, TakeIdle
<1>6. lf \in Seq(B) /\ ReadsTo(lf, f, f, B)
  BY <1>4, <1>5, ReadsOne
<1> HIDE DEF lf
<1>7. CASE IsTerminated(x)
  <2>1. Terminated(x) = x
    BY <1>7, IsTerminatedIs
  <2>2. l = f
    BY <1>7, TerminatedSettles DEF f
  <2>3. ReadsTo(x \o lf, o, f, B)
    BY <1>6, <2>2, ReadsJoin
  <2>4. Append(x, "LF") = x \o lf
    BY AppendIs DEF lf
  <2> QED
    BY <1>3, <2>1, <2>3, <2>4 DEF e
<1>8. CASE ~IsTerminated(x)
  <2>1. Terminated(x) = x \o s
    BY <1>8, AppendIs, IsTerminatedIs
  <2>2. s \in Seq(B) /\ ReadsTo(s, l, f, B)
    BY <1>1, ReadsOne, TakeEnd DEF f
  <2> HIDE DEF s
  <2>3. x \o s \in Seq(B) /\ ReadsTo(x \o s, o, f, B)
    BY <2>2, ReadsJoin
  <2>4. ReadsTo((x \o s) \o lf, o, f, B)
    BY <1>6, <2>3, ReadsJoin
  <2>5. Append(x \o s, "LF") = (x \o s) \o lf
    BY <2>3, AppendIs DEF lf
  <2> QED
    BY <1>3, <2>1, <2>3, <2>4, <2>5 DEF e
<1> QED
  BY <1>7, <1>8

\* The open literal that a line continues is read on behind a spliced newline.
LEMMA AwkTextRead ==
    ASSUME NEW B, "LF" \in B, Splice \in B, NEW awk, awk.buf \in Seq(B), NEW fold,
           NEW s, NEW l, NEW line \in Seq(B), ReadsTo(line, s, l, B),
           NEW o \in Readers(B),
           fold /\ awk.inStr =>
              \E b \in Readers(B) : ReadsTo(awk.buf, o, b, B) /\ Take(b, "LF") = s,
           ~(fold /\ awk.inStr) => o = s
    PROVE  /\ AwkText(awk, line, fold) \in Seq(B)
           /\ ReadsTo(AwkText(awk, line, fold), o, l, B)
<1>1. CASE fold /\ awk.inStr
  <2> DEFINE u == awk.buf
             mid == <<Splice>>
  <2>1. AwkText(awk, line, fold) = (u \o mid) \o line
    BY <1>1, Zenon DEF AwkText
  <2>2. PICK b \in Readers(B) : ReadsTo(u, o, b, B) /\ Take(b, "LF") = s
    BY <1>1
  <2>3. mid \in Seq(B) /\ ReadsTo(mid, b, s, B)
    BY <2>2, TakeSplice, ReadsOne
  <2>4. u \in Seq(B)
    OBVIOUS
  <2> HIDE DEF u, mid
  <2>5. u \o mid \in Seq(B) /\ ReadsTo(u \o mid, o, s, B)
    BY <2>2, <2>3, <2>4, ReadsJoin
  <2>6. (u \o mid) \o line \in Seq(B) /\ ReadsTo((u \o mid) \o line, o, l, B)
    BY <2>5, ReadsJoin
  <2> QED
    BY <2>1, <2>6
<1>2. CASE ~(fold /\ awk.inStr)
  BY <1>2, Zenon DEF AwkText
<1> QED
  BY <1>1, <1>2

\* One record of the awk program: the reader of what is shown keeps up with
\* that of the lines (run.sh:361-391).
LEMMA AwkReadsOn ==
    ASSUME NEW B, "LF" \in B, Semicolon \in B, Splice \in B, NEW fold,
           NEW awk, NEW s \in Readers(B), AwkReads(awk, s, fold, B), Settle(s) = s,
           NEW line \in Seq(B), NEW e, ReadsTo(Append(line, "LF"), s, e, B)
    PROVE  AwkReads(AwkLine(awk, line, fold), e, fold, B)
<1>0. PICK inside, made, new :
         /\ inside = ((Quotes(line) % 2 = 0) = awk.inStr) /\ inside \in BOOLEAN
         /\ made = AwkText(awk, line, fold) /\ new = AwkLine(awk, line, fold)
         /\ AwkDoes(awk, line, fold, inside, made, new)
  BY AwkLineDoes, Zenon
<1>1. /\ awk.inStr \in BOOLEAN /\ (awk.inStr <=> Open(s))
      /\ awk.buf \in Seq(B) /\ awk.out \in Seq(Seq(B))
  BY DEF AwkReads
<1>2. PICK o \in Readers(B) :
         /\ Sees(awk.out, Fresh, o, B) /\ Settle(o) = o
         /\ fold /\ awk.inStr =>
               \E b \in Readers(B) : ReadsTo(awk.buf, o, b, B) /\ Take(b, "LF") = s
         /\ ~(fold /\ awk.inStr) => awk.buf = << >> /\ o = Settle(s)
  BY DEF AwkReads
<1>3. PICK l \in Readers(B) : /\ ReadsTo(line, s, l, B) /\ e = Take(l, "LF")
                              /\ l.quotes = s.quotes + Quotes(line)
  BY ReadsLast
<1>4. /\ s.quotes \in Nat /\ l.quotes \in Nat /\ Quotes(line) \in Nat
  BY ReadersAre, QuotesOfAll
<1>5. e.quotes = l.quotes /\ e \in Readers(B)
  BY <1>3, <1>4, TakeCounts, TakeTyped, LineBreakDiffers
<1>6. Open(e) <=> Open(l)
  BY <1>5 DEF Open
<1>7. inside <=> Open(e)
  <2> DEFINE q == Quotes(line)
             r == s.quotes
  <2>1. q \in Nat /\ r \in Nat /\ l.quotes = r + q
    BY <1>3, <1>4
  <2> HIDE DEF q, r
  <2>2. (r + q) % 2 = 1 <=> ((q % 2 = 0) <=> (r % 2 = 1))
    BY <2>1
  <2>3. Open(l) <=> ((q % 2 = 0) <=> Open(s))
    BY <2>1, <2>2 DEF Open, r
  <2>4. inside <=> ((q % 2 = 0) <=> awk.inStr)
    BY <1>0, <1>1, Zenon DEF q
  <2> QED
    BY <1>1, <1>6, <2>3, <2>4
<1>8. inside \in BOOLEAN
  BY <1>0
<1>9. /\ ~awk.inStr /\ IsBlank(line) => new = awk
      /\ ~(~awk.inStr /\ IsBlank(line)) =>
            /\ new.inStr = inside
            /\ fold /\ inside => new.buf = made /\ new.out = awk.out
            /\ ~fold /\ inside =>
                  new.buf = << >> /\ new.out = Append(awk.out, made)
            /\ ~inside =>
                  new.buf = << >> /\ new.out = Append(awk.out, Terminated(made))
  BY <1>0, Zenon DEF AwkDoes
<1>10. made \in Seq(B) /\ ReadsTo(made, o, l, B)
  <2>1. ~(fold /\ awk.inStr) => o = s
    BY <1>2
  <2> QED
    BY <1>0, <1>1, <1>2, <1>3, <2>1, AwkTextRead
<1>11. CASE ~awk.inStr /\ IsBlank(line)
  <2>1. \A i \in 1 .. Len(line) : line[i] = Space
    BY <1>11 DEF IsBlank
  <2>2. ~Open(s)
    BY <1>1, <1>11
  <2>3. s.cur = << >>
    BY <2>2, SettleParts
  <2>4. l = s
    BY <1>3, <2>1, <2>3, BlanksRead
  <2>5. e = s
    <3>1. Idle(s, "LF")
      BY <2>2 DEF Idle, IsBreak
    <3> QED
      BY <1>3, <2>3, <2>4, <3>1, TakeIdle
  <2> QED
    BY <1>0, <1>9, <1>11, <2>5
<1>12. CASE ~(~awk.inStr /\ IsBlank(line)) /\ inside /\ fold
  <2>1. new.inStr = inside /\ new.buf = made /\ new.out = awk.out
    BY <1>9, <1>12
  <2>2. Take(l, "LF") = e
    BY <1>3
  <2>3. AwkReads(new, e, fold, B)
    BY <1>1, <1>2, <1>3, <1>7, <1>8, <1>10, <1>12, <2>1, <2>2 DEF AwkReads
  <2> QED
    BY <1>0, <2>3
<1>13. ASSUME NEW x \in Seq(B), ReadsTo(Append(x, "LF"), o, Settle(e), B),
              new.inStr = inside, new.buf = << >>, new.out = Append(awk.out, x),
              ~(fold /\ inside)
       PROVE  AwkReads(new, e, fold, B)
  <2> DEFINE C == Seq(B)
             u == awk.out
             v == <<x>>
             f == Settle(e)
  <2>1. u \in Seq(C) /\ x \in C
    BY <1>1
  <2> HIDE DEF C, u, f
  <2>2. v \in Seq(C) /\ new.out = u \o v
    BY <1>13, <2>1, AppendIs DEF u
  <2>3. u \o v \in Seq(C)
    BY <2>1, <2>2
  <2>4. Sees(v, o, f, B)
    BY <1>13, SeesOne DEF f
  <2>5. Sees(u, Fresh, o, B) /\ Settle(o) = o
    BY <1>2 DEF u
  <2> HIDE DEF v
  <2>6. u \in Seq(Seq(B)) /\ v \in Seq(Seq(B))
    BY <2>1, <2>2 DEF C
  <2>7. Sees(u \o v, Fresh, f, B)
    BY <2>4, <2>5, <2>6, SeesJoin
  <2>8. Sees(new.out, Fresh, f, B) /\ new.out \in Seq(Seq(B))
    BY <2>2, <2>3, <2>7 DEF C
  <2>9. f \in Readers(B) /\ Settle(f) = f /\ f = Settle(e)
    BY <1>5, SettleTyped, SettleTwice DEF f
  <2>10. << >> \in Seq(B)
    OBVIOUS
  <2> QED
    BY <1>7, <1>8, <1>13, <2>8, <2>9, <2>10 DEF AwkReads
<1>14. CASE ~(~awk.inStr /\ IsBlank(line)) /\ inside /\ ~fold
  <2>1. new.inStr = inside /\ new.buf = << >> /\ new.out = Append(awk.out, made)
    BY <1>9, <1>14
  <2>2. Settle(e) = e
    BY <1>7, <1>14, SettleIs
  <2>3. ReadsTo(Append(made, "LF"), o, e, B)
    <3> DEFINE lf == <<"LF">>
    <3>1. lf \in Seq(B) /\ ReadsTo(lf, l, e, B)
      BY <1>3, ReadsOne
    <3> HIDE DEF lf
    <3>2. ReadsTo(made \o lf, o, e, B)
      BY <1>10, <3>1, ReadsJoin
    <3>3. Append(made, "LF") = made \o lf
      BY <1>10, AppendIs DEF lf
    <3> QED
      BY <3>2, <3>3
  <2>4. AwkReads(new, e, fold, B)
    BY <1>10, <1>13, <1>14, <2>1, <2>2, <2>3
  <2> QED
    BY <1>0, <2>4
<1>15. CASE ~(~awk.inStr /\ IsBlank(line)) /\ ~inside
  <2> DEFINE x == Terminated(made)
  <2>1. new.inStr = inside /\ new.buf = << >> /\ new.out = Append(awk.out, x)
    BY <1>9, <1>15
  <2>2. ~Open(l)
    BY <1>6, <1>7, <1>15
  <2>3. x \in Seq(B) /\ ReadsTo(Append(x, "LF"), o, Settle(e), B)
    BY <1>3, <1>10, <2>2, LinePrinted
  <2> HIDE DEF x
  <2>4. AwkReads(new, e, fold, B)
    BY <1>13, <1>15, <2>1, <2>3
  <2> QED
    BY <1>0, <2>4
<1> QED
  BY <1>11, <1>12, <1>14, <1>15

LEMMA AwkTyped ==
    ASSUME NEW B, Splice \in B, Semicolon \in B, NEW fold,
           NEW awk \in AwkStates(B), NEW line \in Seq(B)
    PROVE  AwkLine(awk, line, fold) \in AwkStates(B)
<1>1. PICK inside, made, new :
         /\ inside = ((Quotes(line) % 2 = 0) = awk.inStr) /\ inside \in BOOLEAN
         /\ made = AwkText(awk, line, fold) /\ new = AwkLine(awk, line, fold)
         /\ AwkDoes(awk, line, fold, inside, made, new)
  BY AwkLineDoes, Zenon
<1>2. awk.buf \in Seq(B) /\ awk.out \in Seq(Seq(B))
  BY DEF AwkStates
<1>3. made \in Seq(B)
  <2> DEFINE u == awk.buf
             mid == <<Splice>>
  <2>1. u \in Seq(B) /\ mid \in Seq(B)
    BY <1>2
  <2>2. made = IF fold /\ awk.inStr THEN (u \o mid) \o line ELSE line
    BY <1>1, Zenon DEF AwkText
  <2> HIDE DEF u, mid
  <2>3. u \o mid \in Seq(B)
    BY <2>1
  <2>4. (u \o mid) \o line \in Seq(B)
    BY <2>3
  <2> QED
    BY <2>2, <2>4
<1> DEFINE closed == Terminated(made)
<1>4. closed \in Seq(B)
  <2>1. Append(made, Semicolon) \in Seq(B)
    BY <1>3
  <2> QED
    BY <1>3, <2>1, IsTerminatedIs
<1> HIDE DEF closed
<1>5. /\ << >> \in Seq(B)
      /\ Append(awk.out, made) \in Seq(Seq(B)) /\ Append(awk.out, closed) \in Seq(Seq(B))
  <2> DEFINE C == Seq(B)
             u == awk.out
  <2>1. u \in Seq(C) /\ made \in C /\ closed \in C /\ << >> \in Seq(B)
    BY <1>2, <1>3, <1>4
  <2> HIDE DEF C, u
  <2>2. Append(u, made) \in Seq(C) /\ Append(u, closed) \in Seq(C)
    BY <2>1
  <2> QED
    BY <2>1, <2>2 DEF C, u
<1>6. CASE ~awk.inStr /\ IsBlank(line)
  <2>1. new = awk
    BY <1>1, <1>6, Zenon DEF AwkDoes
  <2> QED
    BY <1>1, <2>1
<1>7. CASE ~(~awk.inStr /\ IsBlank(line))
  <2>1. /\ new.inStr = inside
        /\ fold /\ inside => new.buf = made /\ new.out = awk.out
        /\ ~fold /\ inside => new.buf = << >> /\ new.out = Append(awk.out, made)
        /\ ~inside => new.buf = << >> /\ new.out = Append(awk.out, closed)
    BY <1>1, <1>7, Zenon DEF AwkDoes, closed
  <2>2. new.inStr \in BOOLEAN /\ new.buf \in Seq(B) /\ new.out \in Seq(Seq(B))
    <3>1. CASE fold /\ inside
      BY <1>1, <1>2, <1>3, <2>1, <3>1
    <3>2. CASE ~fold /\ inside
      BY <1>1, <1>5, <2>1, <3>2
    <3>3. CASE ~inside
      BY <1>1, <1>5, <2>1, <3>3
    <3> QED
      BY <3>1, <3>2, <3>3
  <2>3. new = awk \/ new = [inStr |-> new.inStr, buf |-> new.buf, out |-> new.out]
    BY <1>1, Zenon DEF AwkDoes
  <2> QED
    BY <1>1, <2>2, <2>3 DEF AwkStates
<1> QED
  BY <1>6, <1>7

\* awk from its first record on.
AwkRuns(g, lines, fold) ==
    /\ g[0].inStr \in BOOLEAN /\ ~g[0].inStr /\ g[0].buf = << >> /\ g[0].out = << >>
    /\ \A k \in 1 .. Len(lines) : g[k] = AwkLine(g[k - 1], lines[k], fold)

LEMMA AwkSolves ==
    ASSUME NEW B, Splice \in B, Semicolon \in B, NEW lines \in Seq(Seq(B)), NEW fold
    PROVE  \E g : AwkRuns(g, lines, fold) /\ AwkEnd(lines, fold) = g[Len(lines)]
<1> DEFINE none == << >>
           start == [inStr |-> FALSE, buf |-> none, out |-> none]
           T == AwkStates(B)
           C == Seq(B)
           step == [k \in 1 .. Len(lines) |->
                       [x \in T |-> AwkLine(x, lines[k], fold)]]
<1>1. lines \in Seq(C)
  OBVIOUS
<1>2. PICK n \in Nat : /\ Len(lines) = n /\ DOMAIN lines = 1 .. n
                       /\ \A k \in 1 .. n : lines[k] \in C
  <2> HIDE DEF C
  <2> QED
    BY <1>1
<1>3. start \in T
  BY DEF AwkStates
<1>4. /\ start.inStr = FALSE /\ start.buf = none /\ start.out = none
  OBVIOUS
<1>5. \A k \in 1 .. n : \A x \in T : AwkLine(x, lines[k], fold) \in T
  BY <1>2, AwkTyped
<1> HIDE DEF T
<1>6. Steps(step, 1 .. n, T)
  BY <1>2, <1>5 DEF Steps
<1>7. \A k \in 1 .. n : \A x \in T : step[k][x] = AwkLine(x, lines[k], fold)
  BY <1>2
<1> HIDE DEF start, step
<1>8. PICK run : Runs(run, n, T, start, step)
  BY <1>3, <1>6, RunExists
<1>9. /\ run \in [0 .. n -> T] /\ run[0] = start
      /\ \A k \in 1 .. n : run[k] = step[k][run[k - 1]]
  BY <1>8 DEF Runs
<1>10. \A k \in 1 .. n : run[k] = AwkLine(run[k - 1], lines[k], fold)
  <2>1. \A k \in 1 .. n : k - 1 \in 0 .. n
    OBVIOUS
  <2> QED
    BY <1>7, <1>9, <2>1
<1> DEFINE g == CHOOSE h : AwkEquation(h, lines, fold)
<1>11. AwkEquation(run, lines, fold)
  <2>1. ASSUME NEW k \in 0 .. n
        PROVE  run[k] = IF k = 0 THEN start ELSE AwkLine(run[k - 1], lines[k], fold)
    <3>1. k # 0 => k \in 1 .. n
      OBVIOUS
    <3> QED
      BY <1>9, <1>10, <3>1
  <2>2. run = [k \in 0 .. n |-> run[k]]
    BY <1>9
  <2>3. run = [k \in 0 .. n |->
                  IF k = 0 THEN start ELSE AwkLine(run[k - 1], lines[k], fold)]
    BY <2>1, <2>2
  <2> QED
    BY <1>2, <2>3, Zenon DEF AwkEquation, start, none
<1>12. \A k \in 0 .. n :
          g[k] = IF k = 0 THEN start ELSE AwkLine(g[k - 1], lines[k], fold)
  <2>1. AwkEquation(g, lines, fold)
    BY <1>11
  <2> HIDE DEF g
  <2> QED
    BY <1>2, <2>1, Zenon DEF AwkEquation, start, none
<1>13. AwkEnd(lines, fold) = g[n]
  BY <1>2 DEF AwkEnd
<1> HIDE DEF g
<1>14. g[0] = start
  <2>1. 0 \in 0 .. n
    OBVIOUS
  <2> QED
    BY <1>12, <2>1
<1>15. \A k \in 1 .. n : g[k] = AwkLine(g[k - 1], lines[k], fold)
  <2>1. \A k \in 1 .. n : k \in 0 .. n /\ k # 0
    OBVIOUS
  <2> QED
    BY <1>12, <2>1
<1>16. AwkRuns(g, lines, fold)
  BY <1>2, <1>4, <1>14, <1>15 DEF AwkRuns, none
<1> QED
  BY <1>2, <1>13, <1>16

\* What awk has shown of the lines, and holds back, at the end of the script.
LEMMA AwkReadsAll ==
    ASSUME NEW B, "LF" \in B, Semicolon \in B, Splice \in B, NEW fold,
           NEW lines \in Seq(Seq(B)), NEW e, Sees(lines, Fresh, e, B)
    PROVE  AwkReads(AwkEnd(lines, fold), e, fold, B)
<1> DEFINE C == Seq(B)
<1>1. lines \in Seq(C)
  OBVIOUS
<1>2. PICK n \in Nat : Len(lines) = n /\ \A k \in 1 .. n : lines[k] \in C
  <2> HIDE DEF C
  <2> QED
    BY <1>1
<1>3. PICK S : Seen(S, lines, Fresh, e, B)
  BY DEF Sees
<1>4. /\ S \in [0 .. n -> Readers(B)] /\ S[0] = Fresh /\ S[n] = e
      /\ \A k \in 1 .. n : ReadsTo(Append(lines[k], "LF"), S[k - 1], S[k], B)
      /\ \A k \in 1 .. n : k # n => Settle(S[k]) = S[k]
  BY <1>2, <1>3 DEF Seen
<1>5. PICK g : AwkRuns(g, lines, fold) /\ AwkEnd(lines, fold) = g[n]
  BY <1>2, AwkSolves
<1>6. /\ g[0].inStr \in BOOLEAN /\ ~g[0].inStr /\ g[0].buf = << >> /\ g[0].out = << >>
      /\ \A k \in 1 .. n : g[k] = AwkLine(g[k - 1], lines[k], fold)
  BY <1>2, <1>5 DEF AwkRuns
<1> DEFINE Good == {k \in 0 .. n : AwkReads(g[k], S[k], fold, B)}
<1>7. 0 \in Good
  <2> DEFINE none == << >>
             a == g[0]
  <2>1. none \in Seq(B) /\ none \in Seq(Seq(B)) /\ 0 \in 0 .. n
    OBVIOUS
  <2>2. Fresh \in Readers(B) /\ ~Open(Fresh) /\ Settle(Fresh) = Fresh
    BY FreshTyped, FreshSettled
  <2>3. Sees(none, Fresh, Fresh, B)
    BY <2>2, SeesNone
  <2>4. a.inStr \in BOOLEAN /\ ~a.inStr /\ a.buf = none /\ a.out = none
    BY <1>6
  <2> HIDE DEF none, a
  <2>5. AwkReads(a, Fresh, fold, B)
    <3>1. a.buf = << >>
      BY <2>4 DEF none
    <3> QED
      BY <2>1, <2>2, <2>3, <2>4, <3>1 DEF AwkReads
  <2> QED
    BY <1>4, <2>1, <2>5 DEF a
<1>8. ASSUME NEW k \in 1 .. n, k - 1 \in Good PROVE k \in Good
  <2>1. k \in 0 .. n /\ k - 1 \in 0 .. n /\ (k - 1 # 0 => k - 1 \in 1 .. n /\ k - 1 # n)
    OBVIOUS
  <2> DEFINE awk == g[k - 1]
             line == lines[k]
             s == S[k - 1]
             f == S[k]
  <2>2. Settle(s) = s
    BY <1>4, <2>1, FreshSettled
  <2>3. s \in Readers(B) /\ AwkReads(awk, s, fold, B)
    BY <1>4, <1>8, <2>1
  <2>4. line \in Seq(B) /\ ReadsTo(Append(line, "LF"), s, f, B)
    BY <1>2, <1>4
  <2>5. g[k] = AwkLine(awk, line, fold)
    BY <1>6
  <2> HIDE DEF awk, line, s, f
  <2>6. AwkReads(AwkLine(awk, line, fold), f, fold, B)
    BY <2>2, <2>3, <2>4, AwkReadsOn
  <2> QED
    BY <2>1, <2>5, <2>6 DEF f
<1> HIDE DEF Good
<1>9. \A k \in 0 .. n : k \in Good
  BY <1>2, <1>7, <1>8, Upto
<1>10. n \in 0 .. n
  BY <1>2
<1> QED
  BY <1>4, <1>5, <1>9, <1>10 DEF Good

LEMMA RewriteEnds ==
    ASSUME NEW t, NEW fold
    PROVE  LET end == AwkEnd(SedLines(t), fold)
           IN  Rewrite(t, fold) = IF end.buf = << >> THEN end.out
                                  ELSE Append(end.out, Terminated(end.buf))
BY Zenon DEF Rewrite, AwkEnd, AwkEquation

\* What a CLI reads of the script, once its literals are closed.
LEMMA RewriteRead ==
    ASSUME NEW B, "LF" \in B, Semicolon \in B, Splice \in B, NEW fold,
           NEW t \in Seq(B), NEW e, Sees(SedLines(t), Fresh, e, B), ~Open(e)
    PROVE  StatementsRead(Stream(Rewrite(t, fold))) = Closed(e)
<1> DEFINE lines == SedLines(t)
           end == AwkEnd(SedLines(t), fold)
<1>1. lines \in Seq(Seq(B))
  BY SedLinesAre DEF Sedded
<1>2. Rewrite(t, fold) = IF end.buf = << >> THEN end.out
                         ELSE Append(end.out, Terminated(end.buf))
  BY RewriteEnds, Zenon
<1> HIDE DEF lines
<1>3. AwkReads(end, e, fold, B)
  <2>1. Sees(lines, Fresh, e, B)
    BY DEF lines
  <2>2. AwkReads(AwkEnd(lines, fold), e, fold, B)
    BY <1>1, <2>1, AwkReadsAll
  <2> QED
    BY <2>2 DEF lines
<1> HIDE DEF end
<1>4. end.out \in Seq(Seq(B)) /\ ~end.inStr
  BY <1>3 DEF AwkReads
<1>5. PICK o \in Readers(B) :
         /\ Sees(end.out, Fresh, o, B)
         /\ ~(fold /\ end.inStr) => end.buf = << >> /\ o = Settle(e)
  BY <1>3 DEF AwkReads
<1> DEFINE shown == end.out
<1>6. end.buf = << >> /\ o = Settle(e)
  BY <1>4, <1>5
<1>7. Rewrite(t, fold) = shown
  BY <1>2, <1>6
<1>8. shown \in Seq(Seq(B)) /\ Sees(shown, Fresh, o, B)
  BY <1>4, <1>5
<1> HIDE DEF shown
<1> DEFINE x == Stream(shown)
<1>9. x \in Seq(B) /\ ReadsTo(x, Fresh, o, B)
  BY <1>8, StreamIsRead
<1> HIDE DEF x
<1>10. PICK run : Reading(run, x, Fresh, B) /\ run[Len(x)] = o
  BY <1>9 DEF ReadsTo
<1>11. StatementsRead(x) = Closed(o)
  BY <1>9, <1>10, StatementsAreRead
<1>12. Closed(o) = Closed(e)
  BY <1>6, SettleParts
<1> QED
  BY <1>7, <1>11, <1>12 DEF x

-----------------------------------------------------------------------------
(* Line breaks in the statements that are read.                            *)

\* Place p of the statements is a line break.
FeedAt(texts, i, j) ==
    i \in 1 .. Len(texts) /\ j \in 1 .. Len(texts[i]) /\ texts[i][j] = "LF"

Feeds(texts) == {p \in Nat \X Nat : FeedAt(texts, p[1], p[2])}

\* A statement goes on.
GoesOn(out, cur, rest, c, old, new, a, b) ==
    /\ old = IF cur = << >> THEN out ELSE Append(out, cur)
    /\ new = Append(out, (cur \o rest) \o <<c>>)
    /\ a = Len(out) + 1 /\ b = Len(cur) + Len(rest) + 1

AreTexts(C, B) == C = Seq(B)

LEMMA FeedsOn ==
    ASSUME NEW B, NEW C, AreTexts(C, B), NEW out \in Seq(C), NEW cur \in Seq(B),
           NEW rest \in Seq(B),
           NEW c \in B, NEW old, NEW new, NEW a, NEW b,
           GoesOn(out, cur, rest, c, old, new, a, b)
    PROVE  /\ a \in Nat /\ b \in Nat
           /\ \A i, j \in Nat : FeedAt(old, i, j) => FeedAt(new, i, j)
           /\ ~FeedAt(old, a, b)
           /\ FeedAt(new, a, b) <=> c = "LF"
           /\ (\A k \in 1 .. Len(rest) : rest[k] # "LF") =>
                 \A i, j \in Nat : FeedAt(new, i, j) =>
                    FeedAt(old, i, j) \/ (i = a /\ j = b)
<1> DEFINE u == cur \o rest
           w == u \o <<c>>
<1>1. PICK n \in Nat, l \in Nat, r \in Nat :
         Len(out) = n /\ Len(cur) = l /\ Len(rest) = r
  <2>1. Len(out) \in Nat /\ Len(cur) \in Nat /\ Len(rest) \in Nat
    OBVIOUS
  <2> QED
    BY <2>1
<1>2. /\ u \in Seq(B) /\ Len(u) = l + r
      /\ \A j \in 1 .. l : u[j] = cur[j]
      /\ \A j \in 1 .. r : u[l + j] = rest[j]
  <2>1. /\ Len(u) = l + r
        /\ \A j \in 1 .. l : u[j] = cur[j]
        /\ \A j \in 1 .. r : u[l + j] = rest[j]
    <3>1. /\ Len(u) = Len(cur) + Len(rest)
          /\ \A x \in 1 .. Len(rest) : u[Len(cur) + x] = rest[x]
          /\ \A y \in 1 .. Len(cur) : u[y] = cur[y]
      BY Joined
    <3> HIDE DEF u
    <3> QED
      BY <1>1, <3>1
  <2>2. u \in Seq(B)
    OBVIOUS
  <2> QED
    BY <2>1, <2>2
<1> HIDE DEF u
<1>3. /\ w \in Seq(B) /\ Len(w) = l + r + 1 /\ w[l + r + 1] = c
      /\ \A j \in 1 .. l + r : w[j] = u[j]
  <2>1. w = Append(u, c)
    BY <1>2, AppendIs
  <2> HIDE DEF w
  <2>2. Len(u) \in Nat
    BY <1>2
  <2> QED
    BY <1>2, <2>1
<1>4. a = n + 1 /\ b = l + r + 1 /\ a \in Nat /\ b \in Nat
  BY <1>1 DEF GoesOn
<1>5. new = Append(out, w)
  BY DEF u, GoesOn
<1> HIDE DEF w
<1>6. /\ Len(new) = a /\ new[a] = w /\ \A i \in 1 .. n : new[i] = out[i]
      /\ Len(Append(out, cur)) = a /\ Append(out, cur)[a] = cur
      /\ \A i \in 1 .. n : Append(out, cur)[i] = out[i]
  <2>1. w \in C /\ cur \in C
    BY <1>3 DEF AreTexts
  <2> QED
    BY <1>1, <1>4, <1>5, <2>1
<1>7. cur = << >> <=> l = 0
  BY <1>1
<1>8. old = IF l = 0 THEN out ELSE Append(out, cur)
  BY <1>7 DEF GoesOn
<1>9. \A i \in 1 .. n : old[i] = out[i] /\ new[i] = out[i]
  BY <1>6, <1>8
<1>10. /\ l = 0 => Len(old) = n
       /\ l # 0 => Len(old) = n + 1 /\ old[n + 1] = cur
  BY <1>1, <1>4, <1>6, <1>8
<1>11. Len(new) = n + 1 /\ new[n + 1] = w
  BY <1>4, <1>6
<1>12. ASSUME NEW i \in Nat, NEW j \in Nat
       PROVE  /\ i \in 1 .. n => (FeedAt(old, i, j) <=> FeedAt(new, i, j))
              /\ FeedAt(new, n + 1, j) <=> j \in 1 .. l + r + 1 /\ w[j] = "LF"
              /\ FeedAt(old, n + 1, j) <=> j \in 1 .. l /\ cur[j] = "LF"
              /\ i # n + 1 /\ i \notin 1 .. n => ~FeedAt(old, i, j) /\ ~FeedAt(new, i, j)
  <2>1. i \in 1 .. n => (FeedAt(old, i, j) <=> FeedAt(new, i, j))
    <3> SUFFICES ASSUME i \in 1 .. n
                 PROVE  FeedAt(old, i, j) <=> FeedAt(new, i, j)
      OBVIOUS
    <3>1. i \in 1 .. Len(new) /\ old[i] = new[i]
      BY <1>9, <1>11
    <3>2. i \in 1 .. Len(old)
      <4>1. CASE l = 0
        BY <1>10, <4>1
      <4>2. CASE l # 0
        BY <1>10, <4>2
      <4> QED
        BY <4>1, <4>2
    <3> QED
      BY <3>1, <3>2 DEF FeedAt
  <2>2. FeedAt(new, n + 1, j) <=> j \in 1 .. l + r + 1 /\ w[j] = "LF"
    <3>1. n + 1 \in 1 .. Len(new) /\ Len(new[n + 1]) = l + r + 1
      BY <1>3, <1>11
    <3> QED
      BY <1>11, <3>1 DEF FeedAt
  <2>3. FeedAt(old, n + 1, j) <=> j \in 1 .. l /\ cur[j] = "LF"
    <3>1. CASE l = 0
      <4>1. n + 1 \notin 1 .. Len(old)
        BY <1>10, <3>1
      <4>2. j \notin 1 .. l
        BY <3>1
      <4> QED
        BY <4>1, <4>2 DEF FeedAt
    <3>2. CASE l # 0
      <4>1. n + 1 \in 1 .. Len(old) /\ old[n + 1] = cur
        BY <1>10, <3>2
      <4> QED
        BY <1>1, <4>1 DEF FeedAt
    <3> QED
      BY <3>1, <3>2
  <2>4. i # n + 1 /\ i \notin 1 .. n => ~FeedAt(old, i, j) /\ ~FeedAt(new, i, j)
    <3>1. \A m \in {n, n + 1} : i # n + 1 /\ i \notin 1 .. n => i \notin 1 .. m
      OBVIOUS
    <3>2. Len(old) \in {n, n + 1} /\ Len(new) \in {n, n + 1}
      BY <1>10, <1>11
    <3> QED
      BY <3>1, <3>2 DEF FeedAt
  <2> QED
    BY <2>1, <2>2, <2>3, <2>4
<1>13. \A j \in 1 .. l : j \in 1 .. l + r + 1 /\ w[j] = cur[j]
  BY <1>2, <1>3
<1>14. \A j \in 1 .. r : w[l + j] = rest[j]
  <2> TAKE j \in 1 .. r
  <2>1. l + j \in 1 .. l + r
    OBVIOUS
  <2>2. w[l + j] = u[l + j] /\ u[l + j] = rest[j]
    BY <1>2, <1>3, <2>1
  <2> QED
    BY <2>2
<1>15. ASSUME NEW i \in Nat, NEW j \in Nat, FeedAt(old, i, j) PROVE FeedAt(new, i, j)
  <2>1. i \in 1 .. n \/ i = n + 1
    BY <1>12, <1>15
  <2> QED
    BY <1>12, <1>13, <1>15, <2>1
<1>16. ~FeedAt(old, a, b)
  <2>1. b \notin 1 .. l
    BY <1>4
  <2> QED
    BY <1>4, <1>12, <2>1
<1>17. FeedAt(new, a, b) <=> c = "LF"
  <2>1. b \in 1 .. l + r + 1
    BY <1>4
  <2> QED
    BY <1>3, <1>4, <1>12, <2>1
<1>18. ASSUME \A k \in 1 .. r : rest[k] # "LF",
              NEW i \in Nat, NEW j \in Nat, FeedAt(new, i, j)
       PROVE  FeedAt(old, i, j) \/ (i = a /\ j = b)
  <2>1. CASE i \in 1 .. n
    BY <1>12, <1>18, <2>1
  <2>2. CASE i = n + 1
    <3>1. j \in 1 .. l + r + 1 /\ w[j] = "LF"
      BY <1>12, <1>18, <2>2
    <3>2. CASE j \in 1 .. l
      BY <1>12, <1>13, <2>2, <3>1, <3>2
    <3>3. CASE j = l + r + 1
      BY <1>4, <2>2, <3>3
    <3>4. CASE j \notin 1 .. l /\ j # l + r + 1
      <4>1. j - l \in 1 .. r /\ l + (j - l) = j
        BY <3>1, <3>4
      <4> QED
        BY <1>14, <1>18, <3>1, <4>1
    <3> QED
      BY <3>2, <3>3, <3>4
  <2> QED
    BY <1>12, <1>18, <2>1, <2>2
<1> QED
  BY <1>1, <1>4, <1>15, <1>16, <1>17, <1>18

\* What Take makes of the statements.
LEMMA TakeFeeds ==
    ASSUME NEW B, "LF" \in B, NEW s \in Readers(B), NEW c \in B
    PROVE  \/ /\ Closed(Take(s, c)) = Closed(s) /\ ~(IsBreak(c) /\ Open(s))
              /\ \/ Take(s, c).rest = s.rest
                 \/ Take(s, c).rest = << >>
                 \/ Take(s, c).rest = Append(s.rest, CharOf(c)) /\ ~Inks(s, c)
           \/ /\ Take(s, c).rest = << >>
              /\ IsBreak(c) => Open(s)
              /\ \E p \in Nat \X Nat :
                    /\ Feeds(Closed(s)) \subseteq Feeds(Closed(Take(s, c)))
                    /\ p \notin Feeds(Closed(s))
                    /\ p \in Feeds(Closed(Take(s, c))) <=> IsBreak(c)
                    /\ (\A k \in 1 .. Len(s.rest) : s.rest[k] # "LF") =>
                          Feeds(Closed(Take(s, c))) \subseteq Feeds(Closed(s)) \cup {p}
<1> DEFINE e == Take(s, c)
<1>1. /\ s.out \in Seq(Seq(B)) /\ s.cur \in Seq(B) /\ s.rest \in Seq(B)
      /\ CharOf(c) \in B
  BY ReadersAre, CharTyped
<1>2. CASE Ends(s, c)
  <2> DEFINE out == Closed(s)
             none == << >>
  <2>1. e = Reader(s.quotes, out, none, none, s.breaks)
    BY <1>2, Zenon, TakeIs
  <2> HIDE DEF e, out
  <2>2. e.out = out /\ e.cur = none /\ e.rest = none
    BY <2>1, ReaderIs
  <2>3. Closed(e) = out
    BY <2>2, Zenon DEF Closed
  <2>4. ~(IsBreak(c) /\ Open(s))
    BY <1>2 DEF Ends
  <2> QED
    BY <2>2, <2>3, <2>4 DEF e, out
<1>3. CASE ~Ends(s, c) /\ Inks(s, c)
  <2> DEFINE q == s.quotes + (IF c = "'" THEN 1 ELSE 0)
             b == s.breaks + (IF IsBreak(c) THEN 1 ELSE 0)
             u == s.cur \o s.rest
             w == <<CharOf(c)>>
             x == u \o w
             old == Closed(s)
             new == Closed(e)
             none == << >>
             i == Len(s.out) + 1
             j == Len(s.cur) + Len(s.rest) + 1
             p == <<i, j>>
  <2>1. e = Reader(q, s.out, x, none, b)
    BY <1>3, Zenon, TakeIs
  <2>2. x # none
    <3>1. u \in Seq(B) /\ w \in Seq(B) /\ Len(w) = 1
      <4>1. PICK cur \in Seq(B), rest \in Seq(B) : cur = s.cur /\ rest = s.rest
        BY <1>1
      <4>2. cur \o rest \in Seq(B)
        OBVIOUS
      <4> QED
        BY <1>1, <4>1, <4>2
    <3> HIDE DEF u, w
    <3>2. Len(u \o w) = Len(u) + 1 /\ Len(u) \in Nat
      BY <3>1, Joined
    <3>3. Len(none) = 0
      OBVIOUS
    <3> QED
      BY <3>2, <3>3
  <2> HIDE DEF x, q, b
  <2>3. e.out = s.out /\ e.cur = x /\ e.rest = none
    <3> HIDE DEF none, e
    <3> QED
      BY <2>1, ReaderIs
  <2> HIDE DEF e
  <2>4. new = Append(s.out, x)
    BY <2>2, <2>3, Zenon DEF Closed
  <2>5. old = IF s.cur = << >> THEN s.out ELSE Append(s.out, s.cur)
    BY Zenon DEF Closed
  <2> HIDE DEF old, new
  <2>6. /\ i \in Nat /\ j \in Nat
        /\ \A y, z \in Nat : FeedAt(old, y, z) => FeedAt(new, y, z)
        /\ ~FeedAt(old, i, j)
        /\ FeedAt(new, i, j) <=> CharOf(c) = "LF"
        /\ (\A k \in 1 .. Len(s.rest) : s.rest[k] # "LF") =>
              \A y, z \in Nat : FeedAt(new, y, z) =>
                 FeedAt(old, y, z) \/ (y = i /\ z = j)
    <3> DEFINE out == s.out
               cur == s.cur
               rest == s.rest
               d == CharOf(c)
               C == Seq(B)
    <3>1. /\ out \in Seq(C) /\ cur \in Seq(B) /\ rest \in Seq(B) /\ d \in B
          /\ AreTexts(C, B)
      BY <1>1 DEF AreTexts
    <3>2. new = Append(out, (cur \o rest) \o <<d>>)
      BY <2>4 DEF x
    <3>3. old = IF cur = << >> THEN out ELSE Append(out, cur)
      BY <2>5
    <3>4. i = Len(out) + 1 /\ j = Len(cur) + Len(rest) + 1
      OBVIOUS
    <3> HIDE DEF out, cur, rest, d, C, i, j
    <3>5. GoesOn(out, cur, rest, d, old, new, i, j)
      BY <3>2, <3>3, <3>4, Zenon DEF GoesOn
    <3>6. /\ i \in Nat /\ j \in Nat
          /\ \A y, z \in Nat : FeedAt(old, y, z) => FeedAt(new, y, z)
          /\ ~FeedAt(old, i, j)
          /\ FeedAt(new, i, j) <=> d = "LF"
          /\ (\A k \in 1 .. Len(rest) : rest[k] # "LF") =>
                \A y, z \in Nat : FeedAt(new, y, z) =>
                   FeedAt(old, y, z) \/ (y = i /\ z = j)
      BY <3>1, <3>5, FeedsOn
    <3> QED
      BY <3>6 DEF d, rest
  <2>7. CharOf(c) = "LF" <=> IsBreak(c)
    BY DEF CharOf, IsBreak
  <2> HIDE DEF i, j
  <2>8. p \in Nat \X Nat /\ p[1] = i /\ p[2] = j
    BY <2>6
  <2>9. Feeds(old) \subseteq Feeds(new)
    BY <2>6 DEF Feeds
  <2>10. p \notin Feeds(old) /\ (p \in Feeds(new) <=> IsBreak(c))
    BY <2>6, <2>7, <2>8 DEF Feeds
  <2>11. ASSUME \A k \in 1 .. Len(s.rest) : s.rest[k] # "LF",
                NEW r \in Feeds(new), r \notin Feeds(old)
         PROVE  r = p
    <3>1. r \in Nat \X Nat /\ r = <<r[1], r[2]>> /\ r[1] \in Nat /\ r[2] \in Nat
          /\ FeedAt(new, r[1], r[2])
      BY DEF Feeds
    <3>2. ~FeedAt(old, r[1], r[2])
      BY <2>11, <3>1 DEF Feeds
    <3>3. r[1] = i /\ r[2] = j
      BY <2>6, <2>11, <3>1, <3>2
    <3> QED
      BY <3>1, <3>3
  <2>12. IsBreak(c) => Open(s)
    BY <1>3 DEF Inks
  <2> HIDE DEF p
  <2> QED
    BY <2>3, <2>8, <2>9, <2>10, <2>11, <2>12 DEF e, old, new
<1>4. CASE ~Ends(s, c) /\ ~Inks(s, c)
  <2> DEFINE rest == Append(s.rest, CharOf(c))
  <2>1. ~(IsBreak(c) /\ Open(s))
    BY <1>4, SignsDiffer, LineBreakDiffers DEF Inks, IsBreak
  <2>2. CASE s.cur = << >>
    <3>1. e = s
      BY <1>4, <2>2, Zenon, TakeIs
    <3> QED
      BY <2>1, <3>1
  <2>3. CASE s.cur # << >>
    <3>1. e = Reader(s.quotes, s.out, s.cur, rest, s.breaks)
      BY <1>4, <2>3, Zenon, TakeIs
    <3> HIDE DEF e, rest
    <3>2. e.out = s.out /\ e.cur = s.cur /\ e.rest = rest
      BY <3>1, ReaderIs
    <3>3. Closed(e) = Closed(s)
      BY <3>2, Zenon DEF Closed
    <3> QED
      BY <1>4, <2>1, <3>2, <3>3 DEF e, rest
  <2> QED
    BY <2>2, <2>3
<1> QED
  BY <1>2, <1>3, <1>4

\* Every line break read in a literal is in the statements.
Fed(s) == \E F \in SUBSET Feeds(Closed(s)) :
              IsFiniteSet(F) /\ Cardinality(F) = s.breaks

\* And the statements hold no other one.
FedOnly(s) ==
    /\ IsFiniteSet(Feeds(Closed(s))) /\ Cardinality(Feeds(Closed(s))) = s.breaks
    /\ \A k \in 1 .. Len(s.rest) : s.rest[k] # "LF"

LEMMA FreshFed == Fed(Fresh) /\ FedOnly(Fresh)
<1> DEFINE none == << >>
<1>1. /\ Closed(Fresh) = none /\ Fresh.breaks = 0 /\ Fresh.rest = none
  BY FreshSettled
<1>2. Len(none) = 0
  OBVIOUS
<1> HIDE DEF none
<1>3. Feeds(none) = {}
  BY <1>2 DEF Feeds, FeedAt
<1>4. IsFiniteSet({}) /\ Cardinality({}) = 0
  BY FS_EmptySet
<1>5. FedOnly(Fresh)
  BY <1>1, <1>2, <1>3, <1>4 DEF FedOnly
<1>6. Fed(Fresh)
  BY <1>1, <1>3, <1>4 DEF Fed
<1> QED
  BY <1>5, <1>6

LEMMA OneMore ==
    ASSUME NEW F, IsFiniteSet(F), NEW n, Cardinality(F) = n, NEW p, p \notin F
    PROVE  IsFiniteSet(F \cup {p}) /\ Cardinality(F \cup {p}) = n + 1
BY FS_AddElement

\* A character more.
LEMMA FedTake ==
    ASSUME NEW B, "LF" \in B, NEW s \in Readers(B), NEW c \in B
    PROVE  /\ Fed(s) => Fed(Take(s, c))
           /\ FedOnly(s) /\ (IsBreak(c) => Open(s)) => FedOnly(Take(s, c))
<1> DEFINE e == Take(s, c)
           old == Feeds(Closed(s))
           new == Feeds(Closed(e))
<1>1. s.breaks \in Nat /\ s.rest \in Seq(B) /\ CharOf(c) \in B
  BY ReadersAre, CharTyped
<1>2. e.breaks = s.breaks + (IF IsBreak(c) /\ Open(s) THEN 1 ELSE 0)
  BY TakeCounts
<1>3. CASE /\ Closed(e) = Closed(s) /\ ~(IsBreak(c) /\ Open(s))
           /\ \/ e.rest = s.rest
              \/ e.rest = << >>
              \/ e.rest = Append(s.rest, CharOf(c)) /\ ~Inks(s, c)
  <2> HIDE DEF e
  <2>1. e.breaks = s.breaks
    BY <1>1, <1>2, <1>3
  <2>2. Fed(s) => Fed(e)
    BY <1>3, <2>1 DEF Fed
  <2>3. ASSUME FedOnly(s), IsBreak(c) => Open(s)
        PROVE  \A k \in 1 .. Len(e.rest) : e.rest[k] # "LF"
    <3>1. \A k \in 1 .. Len(s.rest) : s.rest[k] # "LF"
      BY <2>3 DEF FedOnly
    <3>2. CASE e.rest = s.rest
      BY <3>1, <3>2
    <3>3. CASE e.rest = << >>
      BY <3>3
    <3>4. CASE e.rest = Append(s.rest, CharOf(c)) /\ ~Inks(s, c)
      <4>1. ~IsBreak(c)
        BY <1>3, <2>3
      <4>2. CharOf(c) # "LF"
        BY <4>1 DEF CharOf, IsBreak
      <4> DEFINE u == s.rest
                 d == CharOf(c)
      <4>3. u \in Seq(B) /\ d \in B /\ d # "LF" /\ e.rest = Append(u, d)
        BY <1>1, <3>4, <4>2
      <4>4. \A k \in 1 .. Len(u) : u[k] # "LF"
        BY <3>1
      <4> HIDE DEF u, d
      <4> QED
        BY <4>3, <4>4
    <3> QED
      BY <1>3, <3>2, <3>3, <3>4
  <2>4. FedOnly(s) /\ (IsBreak(c) => Open(s)) => FedOnly(e)
    BY <1>3, <2>1, <2>3 DEF FedOnly
  <2> QED
    BY <2>2, <2>4 DEF e
<1>4. CASE /\ e.rest = << >>
           /\ IsBreak(c) => Open(s)
           /\ \E p \in Nat \X Nat :
                 /\ old \subseteq new /\ p \notin old
                 /\ p \in new <=> IsBreak(c)
                 /\ (\A k \in 1 .. Len(s.rest) : s.rest[k] # "LF") =>
                       new \subseteq old \cup {p}
  <2>1. PICK p \in Nat \X Nat :
           /\ old \subseteq new /\ p \notin old
           /\ p \in new <=> IsBreak(c)
           /\ (\A k \in 1 .. Len(s.rest) : s.rest[k] # "LF") =>
                 new \subseteq old \cup {p}
    BY <1>4
  <2>2. e.breaks = IF IsBreak(c) THEN s.breaks + 1 ELSE s.breaks
    BY <1>1, <1>2, <1>4
  <2>3. e.rest = << >>
    BY <1>4
  <2> HIDE DEF e
  <2>4. ASSUME Fed(s) PROVE Fed(e)
    <3>1. PICK F \in SUBSET old : IsFiniteSet(F) /\ Cardinality(F) = s.breaks
      BY <2>4 DEF Fed
    <3> HIDE DEF old, new
    <3>2. CASE IsBreak(c)
      <4>1. /\ IsFiniteSet(F \cup {p}) /\ Cardinality(F \cup {p}) = s.breaks + 1
        BY <2>1, <3>1, OneMore
      <4>2. F \cup {p} \in SUBSET new
        BY <2>1, <3>1, <3>2
      <4> QED
        BY <2>2, <3>2, <4>1, <4>2 DEF Fed, new
    <3>3. CASE ~IsBreak(c)
      <4>1. F \in SUBSET new
        BY <2>1, <3>1
      <4> QED
        BY <2>2, <3>1, <3>3, <4>1 DEF Fed, new
    <3> QED
      BY <3>2, <3>3
  <2>5. ASSUME FedOnly(s) PROVE FedOnly(e)
    <3>1. /\ IsFiniteSet(old) /\ Cardinality(old) = s.breaks
          /\ new \subseteq old \cup {p}
      BY <2>1, <2>5 DEF FedOnly
    <3>2. \A k \in 1 .. Len(e.rest) : e.rest[k] # "LF"
      BY <2>3
    <3> HIDE DEF old, new
    <3>3. CASE IsBreak(c)
      <4>1. new = old \cup {p}
        BY <2>1, <3>1, <3>3
      <4>2. IsFiniteSet(new) /\ Cardinality(new) = s.breaks + 1
        BY <2>1, <3>1, <4>1, OneMore
      <4> QED
        BY <2>2, <3>2, <3>3, <4>2 DEF FedOnly, new
    <3>4. CASE ~IsBreak(c)
      <4>1. new = old
        BY <2>1, <3>1, <3>4
      <4> QED
        BY <2>2, <3>1, <3>2, <3>4, <4>1 DEF FedOnly, new
    <3> QED
      BY <3>3, <3>4
  <2> QED
    BY <2>4, <2>5 DEF e
<1> QED
  BY <1>3, <1>4, TakeFeeds

\* Along a text.
LEMMA FedAlong ==
    ASSUME NEW B, "LF" \in B, NEW x \in Seq(B), NEW run, Reading(run, x, Fresh, B)
    PROVE  /\ Fed(run[Len(x)])
           /\ (\A i \in 1 .. Len(x) : IsBreak(x[i]) => Open(run[i - 1])) =>
                 FedOnly(run[Len(x)])
<1>1. PICK n \in Nat : Len(x) = n /\ \A k \in 1 .. n : x[k] \in B
  OBVIOUS
<1>2. /\ run \in [0 .. n -> Readers(B)] /\ run[0] = Fresh
      /\ \A k \in 1 .. n : run[k] = Take(run[k - 1], x[k])
  BY <1>1 DEF Reading
<1> DEFINE Inner == \A i \in 1 .. n : IsBreak(x[i]) => Open(run[i - 1])
           Good == {k \in 0 .. n : Fed(run[k]) /\ (Inner => FedOnly(run[k]))}
<1>3. 0 \in Good
  <2>1. 0 \in 0 .. n
    BY <1>1
  <2> QED
    BY <1>2, <2>1, FreshFed
<1>4. ASSUME NEW k \in 1 .. n, k - 1 \in Good PROVE k \in Good
  <2> DEFINE s == run[k - 1]
             c == x[k]
  <2>1. k \in 0 .. n /\ k - 1 \in 0 .. n
    BY <1>1
  <2>2. s \in Readers(B) /\ c \in B /\ run[k] = Take(s, c)
    BY <1>1, <1>2, <2>1
  <2>3. Fed(s) /\ (Inner => FedOnly(s) /\ (IsBreak(c) => Open(s)))
    BY <1>4
  <2> HIDE DEF s, c, Inner
  <2>4. Fed(Take(s, c)) /\ (Inner => FedOnly(Take(s, c)))
    BY <2>2, <2>3, FedTake
  <2> QED
    BY <2>1, <2>2, <2>4
<1> HIDE DEF Good, Inner
<1>5. \A k \in 0 .. n : k \in Good
  BY <1>1, <1>3, <1>4, Upto
<1>6. n \in 0 .. n
  BY <1>1
<1>7. Fed(run[n]) /\ (Inner => FedOnly(run[n]))
  BY <1>5, <1>6 DEF Good
<1> QED
  BY <1>1, <1>7 DEF Inner

\* What is left of the statements of a script (run.sh:337-398): all of them
\* without a semicolon in a literal, and never all of them with one.
LEMMA ScriptSurvives ==
    ASSUME NEW A, Splice \notin A, NEW t \in Seq(A), Reprinted(t),
           NEW fold \in BOOLEAN
    PROVE  StatementsRead(Stream(Rewrite(t, fold))) = StatementsRead(t)
              <=> \A i \in DOMAIN t : t[i] = ";" => ~Inside(t, i)
<1> DEFINE B == A \cup {"LF", Semicolon, Splice}
<1>1. "LF" \in B /\ Semicolon \in B /\ Splice \in B /\ t \in Seq(B)
  OBVIOUS
<1>2. PICK n \in Nat : /\ Len(t) = n /\ DOMAIN t = 1 .. n
                       /\ \A k \in 1 .. n : t[k] \in B /\ t[k] # Splice
  OBVIOUS
<1> HIDE DEF B
<1>3. PICK run : Reading(run, t, Fresh, B)
  BY <1>1, FreshTyped, ReadingExists
<1>4. run \in [0 .. n -> Readers(B)] /\ run[0] = Fresh
  BY <1>2, <1>3 DEF Reading
<1>5. n \in 0 .. n
  BY <1>2
<1> DEFINE r == run[n]
           x == IF n = 0 THEN Fresh ELSE Take(r, "LF")
           H == Hurt(t, run, n)
<1>6. r \in Readers(B) /\ ~Open(r)
  <2>1. Quotes(t) % 2 = 0
    BY Zenon DEF Reprinted
  <2>2. Open(r) <=> Quotes(t) % 2 = 1
    BY <1>1, <1>2, <1>3, ReaderOpen
  <2> QED
    BY <1>4, <1>5, <2>1, <2>2
<1>7. PICK e \in Readers(B) :
         Sees(SedLines(t), Fresh, e, B) /\ Follows(x, e, H)
  BY <1>1, <1>2, <1>3, SedKept
<1>8. Closed(x) = Closed(r) /\ x.breaks = r.breaks /\ x.quotes = r.quotes
  <2>1. CASE n = 0
    BY <1>4, <2>1
  <2>2. CASE n # 0
    <3>1. Idle(r, "LF")
      BY <1>6 DEF Idle, IsBreak
    <3>2. x = Take(r, "LF")
      BY <2>2
    <3> HIDE DEF r, x
    <3> QED
      BY <1>6, <3>1, <3>2, TakeIdle
  <2> QED
    BY <2>1, <2>2
<1> HIDE DEF r, x, H
<1>9. ~Open(e)
  BY <1>6, <1>7, <1>8 DEF Follows, Open
<1>10. StatementsRead(Stream(Rewrite(t, fold))) = Closed(e)
  BY <1>1, <1>7, <1>9, RewriteRead
<1>11. StatementsRead(t) = Closed(x)
  BY <1>1, <1>2, <1>3, <1>8, StatementsAreRead DEF r
<1>12. \A i \in 1 .. n : Inside(t, i) <=> Open(run[i - 1])
  BY <1>1, <1>2, <1>3, ReaderOpen
<1>13. (\A i \in DOMAIN t : t[i] = ";" => ~Inside(t, i)) <=> H = {}
  <2>1. (\A i \in 1 .. n : t[i] = Semicolon => ~Open(run[i - 1])) <=> H = {}
    BY DEF H, Hurt
  <2>2. (\A i \in 1 .. n : t[i] = Semicolon => ~Inside(t, i)) <=> H = {}
    BY <1>12, <2>1
  <2>3. \A i \in 1 .. n : t[i] = Semicolon <=> t[i] = ";"
    BY Zenon DEF Semicolon
  <2>4. (\A i \in 1 .. n : t[i] = ";" => ~Inside(t, i)) <=> H = {}
    BY <2>2, <2>3, Zenon
  <2> QED
    BY <1>2, <2>4, Zenon
<1>14. H = {} => Closed(e) = Closed(x)
  BY <1>7 DEF Follows
<1>15. ASSUME H # {}, Closed(e) = Closed(x) PROVE FALSE
  <2>1. FedOnly(r)
    <3>1. \A i \in 1 .. n : IsBreak(t[i]) => Open(run[i - 1])
      <4> TAKE i \in 1 .. n
      <4>1. IsBreak(t[i]) => t[i] = "LF"
        BY <1>2 DEF IsBreak
      <4>2. t[i] = "LF" => Inside(t, i)
        BY <1>2, Zenon DEF Reprinted
      <4> QED
        BY <1>12, <4>1, <4>2
    <3> QED
      BY <1>1, <1>2, <1>3, <3>1, FedAlong DEF r
  <2>2. Fed(e)
    <3> DEFINE y == Stream(SedLines(t))
               w == SedLines(t)
    <3>1. w \in Seq(Seq(B)) /\ Sees(w, Fresh, e, B)
      BY <1>1, <1>7, SedLinesAre DEF Sedded
    <3> HIDE DEF w
    <3>2. Stream(w) \in Seq(B) /\ ReadsTo(Stream(w), Fresh, e, B)
      BY <1>1, <3>1, StreamIsRead
    <3>3. y = Stream(w)
      BY DEF w
    <3> HIDE DEF y
    <3>4. PICK p : Reading(p, y, Fresh, B) /\ p[Len(y)] = e
      BY <3>2, <3>3 DEF ReadsTo
    <3> QED
      BY <1>1, <3>2, <3>3, <3>4, FedAlong
  <2> DEFINE all == Feeds(Closed(x))
  <2>3. IsFiniteSet(all) /\ Cardinality(all) = x.breaks
    BY <1>8, <2>1 DEF FedOnly
  <2>4. PICK F \in SUBSET all : IsFiniteSet(F) /\ Cardinality(F) = e.breaks
    BY <1>15, <2>2 DEF Fed
  <2> HIDE DEF all
  <2>5. e.breaks <= x.breaks
    BY <2>3, <2>4, FS_Subset
  <2>6. x.breaks < e.breaks
    BY <1>7, <1>15 DEF Follows
  <2>7. x.breaks \in Nat /\ e.breaks \in Nat
    BY <1>6, <1>7, <1>8, ReadersAre
  <2> QED
    BY <2>5, <2>6, <2>7
<1>16. Closed(e) = Closed(x) <=> H = {}
  BY <1>14, <1>15
<1> QED
  BY <1>10, <1>11, <1>13, <1>16, Zenon

\* A script as the preprocessor prints it, rewritten by run.sh, has its
\* statements, for ducklink as for every other CLI, as long as no literal holds
\* a semicolon, however long the script and its literals are
\* (run.sh:337-398).  A script has characters only: the splice is what awk
\* alone writes.
THEOREM RewrittenScriptsKeepStatements ==
    /\ \A A : Splice \notin A => \A t \in Seq(A) : StatementsSurvive(t)
    /\ TextSpec => []RewriteKeepsStatements
<1>1. ASSUME NEW A, Splice \notin A, NEW t \in Seq(A) PROVE StatementsSurvive(t)
  BY <1>1, ScriptSurvives, Zenon DEF StatementsSurvive, SameStatements
<1>2. Splice \notin MCScriptChars
  BY DEF Splice, MCScriptChars
<1>3. ScriptTyped => RewriteKeepsStatements
  BY <1>1, <1>2, Zenon DEF ScriptTyped, RewriteKeepsStatements
<1>4. TextSpec => []RewriteKeepsStatements
  BY <1>3, GrownScript, PTL
<1> QED
  BY <1>1, <1>4
=============================================================================
