------------------------------ MODULE Coverage ------------------------------
(***************************************************************************)
(* `test-fn coverage --by leaf` and `--by function` (db.rs), over a        *)
(* database that imports, seeds and runs fill.  A report is one read-only  *)
(* statement, hence an operator on the state.  Of the rows of a case in    *)
(* `test_runs` only matters which statuses occur: the reports test counts  *)
(* against zero.                                                           *)
(***************************************************************************)
EXTENDS InterfaceDb, Functions

\* A leaf tag is `leaf:<name>`: neither of the two marks, nor the line of
\* the cases without any.  The tables are finite.
ASSUME LeafNamesAssumption ==
    /\ Leaf \cap {"pg_only", "fixture_bad", "<untagged>"} = {}
    /\ IsFiniteSet(Leaf) /\ IsFiniteSet(Case)

VARIABLES
    cases,      \* `test_cases`
    runs        \* `test_runs`: <<case, status>> for every status recorded

vars == <<cases, runs>>

RunStatus == {"pass", "fail"}

Flags == [pgOnly: BOOLEAN, fixtureBad: BOOLEAN]

Present == {c \in Case : cases[c] # None}

TypeOK ==
    /\ cases \in CaseTable
    /\ runs \subseteq Present \X RunStatus

Init == cases = [c \in Case |-> None] /\ runs = {}

-----------------------------------------------------------------------------
(* The database moves on.                                                  *)

\* The scraper gives a case the leaf of the catalog, else that of the file,
\* else leaf:orphan: one leaf.
LeafTags == {{leaf} : leaf \in Leaf}

Import(c) ==
    /\ \E leaf \in LeafTags, marks \in SUBSET {"pg_only", "fixture_bad"} :
          cases' = [cases EXCEPT ![c] = leaf \cup marks]
    /\ UNCHANGED runs

\* seed --replace clears the tags of a row, an INSERT starts without any.
Reseed(c) == cases' = [cases EXCEPT ![c] = {}] /\ UNCHANGED runs

\* Mutant of Record: rows for cases that were never imported.
RecordAny(c, status) == runs' = runs \cup {<<c, status>>} /\ UNCHANGED cases

\* insert_test_run; a foreign key ties the row to its case.
Record(c, status) ==
    /\ c \in Present
    /\ runs' = runs \cup {<<c, status>>}
    /\ UNCHANGED cases

Next == \E c \in Case : Import(c) \/ Reseed(c) \/ \E s \in RunStatus : Record(c, s)

Spec == Init /\ [][Next]_vars

-----------------------------------------------------------------------------
(* The reports.                                                            *)

Count(b) == IF b THEN 1 ELSE 0

Passed(c) == <<c, "pass">> \in runs

Failed(c) == <<c, "fail">> \in runs

\* The lines of the report a case is charged to.
LinesOf(c) ==
    IF cases[c] \cap Leaf = {} THEN {"<untagged>"} ELSE cases[c] \cap Leaf

\* Mutant of InRollup: the fixture_bad rows are kept with the pg_only ones.
InRollupUnlessPgOnly(c, flags) ==
    HasTag(cases, c, "pg_only") => flags.pgOnly

\* Rows of a bucket the operator has not asked for stay out of the roll-up.
InRollup(c, flags) ==
    /\ HasTag(cases, c, "pg_only") => flags.pgOnly
    /\ HasTag(cases, c, "fixture_bad") => flags.fixtureBad

\* Mutant of Charge: a case both pg_only and fixture_bad is in no backlog
\* while pg_only is hidden.
ChargeHiddenOnce(c, flags) ==
    LET counted == InRollup(c, flags)
        pg == HasTag(cases, c, "pg_only")
    IN  [cases |-> Count(counted),
         pass |-> Count(counted /\ Passed(c)),
         fail |-> Count(counted /\ ~Passed(c) /\ Failed(c)),
         untested |-> Count(counted /\ ~Passed(c) /\ ~Failed(c)),
         pg_only |-> Count(pg),
         fixture_bad |->
            Count(HasTag(cases, c, "fixture_bad") /\ (pg => flags.pgOnly))]

\* What a case adds to its lines.  Where --show-pg-only lets a row through
\* to the fixture_bad branch, that branch counts FIX-BAD alone.
Charge(c, flags) ==
    LET counted == InRollup(c, flags)
        pg == HasTag(cases, c, "pg_only")
    IN  [cases |-> Count(counted),
         pass |-> Count(counted /\ Passed(c)),
         fail |-> Count(counted /\ ~Passed(c) /\ Failed(c)),
         untested |-> Count(counted /\ ~Passed(c) /\ ~Failed(c)),
         pg_only |-> Count(pg /\ (counted \/ ~flags.pgOnly)),
         fixture_bad |-> Count(HasTag(cases, c, "fixture_bad"))]

Column == {"cases", "pass", "fail", "untested", "pg_only", "fixture_bad"}

\* A cell of the leaf report; a leaf without a line counts nothing.
Cell(flags, line, col) ==
    SumFunction([c \in {d \in Present : line \in LinesOf(d)} |->
                    Charge(c, flags)[col]])

\* --by leaf: a line per leaf that some case is charged to.
ByLeaf(flags) ==
    [line \in UNION {LinesOf(c) : c \in Present} |->
        [col \in Column |-> Cell(flags, line, col)]]

\* Mutant of ByFunction: the NOT EXISTS of the failing cases is missing.
ByFunctionAnyFail ==
    [f \in {FnOf[c] : c \in Present} |->
        LET own == {c \in Present : FnOf[c] = f}
        IN  [cases |-> Cardinality(own),
             pass |-> Cardinality({c \in own : Passed(c)}),
             fail |-> Cardinality({c \in own : Failed(c)})]]

\* --by function: it has no flags and counts every case.
ByFunction ==
    [f \in {FnOf[c] : c \in Present} |->
        LET own == {c \in Present : FnOf[c] = f}
        IN  [cases |-> Cardinality(own),
             pass |-> Cardinality({c \in own : Passed(c)}),
             fail |-> Cardinality({c \in own : Failed(c) /\ ~Passed(c)})]]

-----------------------------------------------------------------------------

Plain == [pgOnly |-> FALSE, fixtureBad |-> FALSE]

(***************************************************************************)
(* The default report is about what a batch does: `batch --leaf` executes  *)
(* the CASES of the leaf and of the leaves its LIKE pattern takes in too,  *)
(* and UNTESTED of all of these is zero exactly when each case of the      *)
(* batch has a row in test_runs.  The report and the batch select by       *)
(* separate code.  (db.rs:384-466 and 297-325, runner.rs:494)              *)
(***************************************************************************)
ReportIsOfTheBatch ==
    \A leaf \in Leaf :
        LET batch == {c \in LoadCasesByLeaf(cases, leaf) :
                         ~HasTag(cases, c, "fixture_bad")}
            Sum(col) == SumFunction([l \in Alike[leaf] |-> Cell(Plain, l, col)])
        IN  /\ Sum("cases") = Cardinality(batch)
            /\ Sum("untested") = 0 <=>
                  \A c \in batch : \E s \in RunStatus : <<c, s>> \in runs

(***************************************************************************)
(* FIX-BAD is the backlog of broken fixtures under whatever flags the      *)
(* report is printed: a case that is also pg_only and is left out for that *)
(* reason is still counted there.  (main.rs:198-207, db.rs:387-466)        *)
(***************************************************************************)
BacklogRegardless ==
    \A flags \in Flags, line \in Leaf \cup {"<untagged>"} :
        Cell(flags, line, "fixture_bad") =
            Cardinality({c \in Present :
                line \in LinesOf(c) /\ HasTag(cases, c, "fixture_bad")})

Total(report, col) == SumFunction([l \in DOMAIN report |-> report[l][col]])

(***************************************************************************)
(* The two axes add up to the same totals once nothing is hidden: no case  *)
(* is lost or counted under two leaves, and a case that passed once and    *)
(* failed later is a pass in both.  One axis decides in Rust from two      *)
(* counts, the other in SQL.  (db.rs:429-466 and 534-560)                  *)
(***************************************************************************)
AxesAgree ==
    LET shown == ByLeaf([pgOnly |-> TRUE, fixtureBad |-> TRUE])
    IN  \A col \in {"cases", "pass", "fail"} :
            Total(shown, col) = Total(ByFunction, col)
=============================================================================
