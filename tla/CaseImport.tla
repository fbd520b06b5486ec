----------------------------- MODULE CaseImport -----------------------------
(***************************************************************************)
(* How rows get into `test_cases`: regress-scraper turns the statements of *)
(* an upstream corpus into cases and either inserts them in one SQLite     *)
(* transaction (--insert-into) or writes them as TOML (--out), which       *)
(* `test-fn seed` upserts one autocommitted statement at a time.  Either   *)
(* program may be killed and started again; upstream changes in between.   *)
(*                                                                         *)
(* Parsing is not the subject: a statement comes with the calls the parser *)
(* finds in it and the expected row the .out file has for it.  Its text    *)
(* and that row are what the statement's record stands for.                *)
(***************************************************************************)
EXTENDS Naturals, Sequences, SequencesExt, FiniteSets, FiniteSetsExt, TLC

CONSTANTS
    Function,       \* names of functions, as numbers in name order
    CatalogLeaf,    \* leaf the catalog gives a function, or None
    BulkLeaf,       \* leaf the file table gives a file stem, or None
    Corpora,        \* contents of the regress directory: SELECTs in file order
    Limits,         \* values of --limit, None when absent
    Routes,         \* "insert", "toml" (seed) or "toml_replace"
    MaxCalls,       \* bound on the calls in a statement
    MaxStart,       \* bound on how often a program is started
    None

Statement ==
    [stem: DOMAIN BulkLeaf, line: Nat, calls: Seq(Function),
     pgOnly: BOOLEAN, fixtureBad: BOOLEAN, expected: {"row", "binary", "none"}]

ASSUME ImportAssumption ==
    /\ Function \subseteq Nat
    /\ Corpora \subseteq Seq(Statement)
    /\ \A ss \in Corpora : \A i \in DOMAIN ss : Len(ss[i].calls) <= MaxCalls
    /\ Limits \subseteq Nat \cup {None} /\ None \notin Nat
    /\ MaxCalls \in Nat /\ MaxStart \in Nat
    /\ Routes \subseteq {"insert", "toml", "toml_replace"}

VARIABLES
    corpus,         \* what upstream ships now
    args,           \* command line: [route, limit]
    pc,             \* of the program running, or "idle" / "done"
    at,             \* next statement, case or TOML entry to handle
    taken,          \* cases emitted per function
    cases,          \* what the scraper has emitted
    tx,             \* test_cases as the open transaction sees it
    table,          \* test_cases: key -> [stmt, tags]
    before,         \* (not in the code) table when the import was asked for
    starts

vars == <<corpus, args, pc, at, taken, cases, tx, table, before, starts>>

\* PRIMARY KEY (function_name, case_name): file stem, line, and a letter
\* when a statement calls several functions.
Key(c) ==
    <<c.fn, c.stmt.stem, c.stmt.line, IF Len(c.stmt.calls) > 1 THEN c.idx ELSE 0>>

\* Mutant of Tags: no fallback for a function the catalog does not own.
CatalogTags(stmt, f) ==
    {CatalogLeaf[f]}
    \cup (IF stmt.pgOnly THEN {"pg_only"} ELSE {})
    \cup (IF stmt.fixtureBad THEN {"fixture_bad"} ELSE {})

Tags(stmt, f) ==
    {IF CatalogLeaf[f] # None THEN CatalogLeaf[f]
     ELSE IF BulkLeaf[stmt.stem] # None THEN BulkLeaf[stmt.stem] ELSE "leaf:orphan"}
    \cup (IF stmt.pgOnly THEN {"pg_only"} ELSE {})
    \cup (IF stmt.fixtureBad THEN {"fixture_bad"} ELSE {})

Row(c) == [stmt |-> c.stmt, tags |-> c.tags]

Leaves == {"leaf:orphan"} \cup ({CatalogLeaf[f] : f \in Function} \ {None})
                          \cup ({BulkLeaf[s] : s \in DOMAIN BulkLeaf} \ {None})

TypeOK ==
    /\ corpus \in Corpora /\ args \in [route: Routes, limit: Limits]
    /\ pc \in {"idle", "scrape", "insert", "seed", "done"}
    /\ at \in Nat \ {0} /\ starts \in 0..MaxStart
    /\ taken \in [Function -> Nat]
    /\ \A c \in ToSet(cases) :
          /\ c.fn \in Function /\ c.stmt \in ToSet(corpus)
          /\ c.tags \subseteq Leaves \cup {"pg_only", "fixture_bad"}
    /\ \A t \in {tx, table, before} : \A key \in DOMAIN t :
          t[key].tags \subseteq Leaves \cup {"pg_only", "fixture_bad"}

Init ==
    /\ corpus \in Corpora
    /\ args \in [route: Routes, limit: Limits]
    /\ pc = "idle" /\ at = 1 /\ starts = 0
    /\ taken = [f \in Function |-> 0]
    /\ cases = <<>>
    /\ tx = <<>> /\ table = <<>> /\ before = <<>>

-----------------------------------------------------------------------------
(* regress-scraper.                                                        *)

\* No call of interest, no expected row, or one that looks like WKB.
Skipped(stmt) == stmt.calls = <<>> \/ stmt.expected # "row"

\* A finished import may be followed by another one, of what upstream ships
\* by then; an interrupted one is repeated.
Start ==
    /\ pc \in {"idle", "done"} /\ starts < MaxStart
    /\ IF pc = "done"
       THEN corpus' \in Corpora /\ args' \in [route: Routes, limit: Limits]
       ELSE UNCHANGED <<corpus, args>>
    /\ starts' = starts + 1
    /\ pc' = "scrape" /\ at' = 1 /\ cases' = <<>>
    /\ taken' = [f \in Function |-> 0]
    /\ before' = IF pc = "done" THEN table ELSE before
    /\ UNCHANGED <<tx, table>>

\* Mutant of Emitted: the limit is compared once per statement.
EmittedByStatement(stmt) ==
    FoldLeft(LAMBDA acc, i :
        LET f == stmt.calls[i] IN
        IF args.limit # None /\ taken[f] >= args.limit THEN acc
        ELSE [taken |-> [acc.taken EXCEPT ![f] = @ + 1],
              cases |-> Append(acc.cases,
                  [fn |-> f, idx |-> i, stmt |-> stmt, tags |-> Tags(stmt, f)])],
        [taken |-> taken, cases |-> cases],
        [i \in 1..Len(stmt.calls) |-> i])

\* One case per call of the statement, as long as --limit lets the function
\* have another.
Emitted(stmt) ==
    FoldLeft(LAMBDA acc, i :
        LET f == stmt.calls[i] IN
        IF args.limit # None /\ acc.taken[f] >= args.limit THEN acc
        ELSE [taken |-> [acc.taken EXCEPT ![f] = @ + 1],
              cases |-> Append(acc.cases,
                  [fn |-> f, idx |-> i, stmt |-> stmt, tags |-> Tags(stmt, f)])],
        [taken |-> taken, cases |-> cases],
        [i \in 1..Len(stmt.calls) |-> i])

ScrapeStatement ==
    /\ pc = "scrape" /\ at <= Len(corpus)
    /\ at' = at + 1
    /\ IF Skipped(corpus[at])
       THEN UNCHANGED <<taken, cases>>
       ELSE LET e == Emitted(corpus[at]) IN taken' = e.taken /\ cases' = e.cases
    /\ UNCHANGED <<corpus, args, pc, tx, table, before, starts>>

\* The row's place in a TOML grouped by function name.
Place(rows, i) ==
    Cardinality({j \in DOMAIN rows : \/ rows[j].fn < rows[i].fn
                                     \/ rows[j].fn = rows[i].fn /\ j <= i})

\* The TOML has no place for tags.
TomlOf(rows) ==
    [k \in DOMAIN rows |->
        [rows[CHOOSE i \in DOMAIN rows : Place(rows, i) = k] EXCEPT !.tags = {}]]

\* The last statement is behind: open a transaction, or write the TOML and
\* let seed read it.
EndScrape ==
    /\ pc = "scrape" /\ at > Len(corpus)
    /\ at' = 1
    /\ IF args.route = "insert"
       THEN pc' = "insert" /\ tx' = table /\ UNCHANGED cases
       ELSE pc' = "seed" /\ cases' = TomlOf(cases) /\ UNCHANGED tx
    /\ UNCHANGED <<corpus, args, taken, table, before, starts>>

\* Mutant of Upserted: the UPDATE is missing.
InsertedOrIgnored(rows, c) ==
    [key \in DOMAIN rows \cup {Key(c)} |->
        IF key \in DOMAIN rows THEN rows[key] ELSE Row(c)]

\* UPDATE, then INSERT OR IGNORE: exactly one of them has an effect.
Upserted(rows, c) ==
    [key \in DOMAIN rows \cup {Key(c)} |->
        IF key = Key(c) THEN Row(c) ELSE rows[key]]

\* Mutant of InsertCase: no transaction.
InsertCaseAutocommitted ==
    /\ pc = "insert" /\ at <= Len(cases)
    /\ at' = at + 1 /\ tx' = Upserted(tx, cases[at]) /\ table' = tx'
    /\ UNCHANGED <<corpus, args, pc, taken, cases, before, starts>>

InsertCase ==
    /\ pc = "insert" /\ at <= Len(cases)
    /\ at' = at + 1 /\ tx' = Upserted(tx, cases[at])
    /\ UNCHANGED <<corpus, args, pc, taken, cases, table, before, starts>>

Commit ==
    /\ pc = "insert" /\ at > Len(cases)
    /\ pc' = "done" /\ table' = tx /\ tx' = <<>>
    /\ UNCHANGED <<corpus, args, at, taken, cases, before, starts>>

-----------------------------------------------------------------------------
(* test-fn seed.                                                           *)

\* Without --replace there is no UPDATE: a row that is there stays.
SeedCase ==
    /\ pc = "seed" /\ at <= Len(cases)
    /\ at' = at + 1
    /\ table' = IF args.route = "toml" /\ Key(cases[at]) \in DOMAIN table
                THEN table ELSE Upserted(table, cases[at])
    /\ UNCHANGED <<corpus, args, pc, taken, cases, tx, before, starts>>

EndSeed ==
    /\ pc = "seed" /\ at > Len(cases)
    /\ pc' = "done"
    /\ UNCHANGED <<corpus, args, at, taken, cases, tx, table, before, starts>>

-----------------------------------------------------------------------------

\* Killed: an open transaction is rolled back, what seed has done stays.
Crash ==
    /\ pc \in {"scrape", "insert", "seed"}
    /\ pc' = "idle" /\ tx' = <<>>
    /\ UNCHANGED <<corpus, args, at, taken, cases, table, before, starts>>

Next ==
    \/ Start \/ ScrapeStatement \/ EndScrape \/ InsertCase \/ Commit
    \/ SeedCase \/ EndSeed \/ Crash

Spec == Init /\ [][Next]_vars

-----------------------------------------------------------------------------

\* Positions in `cases` of the rows that claim a key.
Claims(key) == {i \in DOMAIN cases : Key(cases[i]) = key}

\* The claim that gets the key: the last, or the first where a row that is
\* there is left alone.
Winner(key) ==
    CHOOSE i \in Claims(key) : \A j \in Claims(key) :
        IF args.route = "toml" THEN i <= j ELSE i >= j

(***************************************************************************)
(* A finished import, however often it was killed and repeated, has put    *)
(* exactly its keys into test_cases, each with the content of one case     *)
(* that claims it: the last, or, when seed runs without --replace, the     *)
(* first and only if no row was there.  Every other row is as it was       *)
(* before.  (seed.rs:69-108, emit.rs:64-111)                               *)
(***************************************************************************)
TableIsImport ==
    pc = "done" =>
        /\ DOMAIN table = DOMAIN before \cup {Key(c) : c \in ToSet(cases)}
        /\ \A key \in DOMAIN table :
              table[key] =
                IF \/ Claims(key) = {}
                   \/ args.route = "toml" /\ key \in DOMAIN before
                THEN before[key] ELSE Row(cases[Winner(key)])

(***************************************************************************)
(* Until the scraper has committed, nobody sees any of its rows, and a     *)
(* kill leaves none behind.  (emit.rs:64, 111)                             *)
(***************************************************************************)
InsertIsAtomic == args.route = "insert" /\ pc # "done" => table = before

(***************************************************************************)
(* --limit cuts a function off exactly when it is full: it has as many     *)
(* cases as the statements offer, or the limit.  (main.rs:325-344)         *)
(***************************************************************************)
LimitCutsAtLimit ==
    pc \in {"insert", "seed", "done"} =>
        \A f \in Function :
            LET offered == {o \in (DOMAIN corpus) \X (1..MaxCalls) :
                                /\ ~Skipped(corpus[o[1]])
                                /\ o[2] <= Len(corpus[o[1]].calls)
                                /\ corpus[o[1]].calls[o[2]] = f}
                got == Cardinality({i \in DOMAIN cases : cases[i].fn = f})
            IN  IF args.limit = None THEN got = Cardinality(offered)
                ELSE got = Min({args.limit, Cardinality(offered)})

(***************************************************************************)
(* "Emit pg_only-matching cases with a pg_only tag ...; test-fn skips      *)
(* these in batch mode by default" (main.rs:91-96): a row whose          *)
(* statement is pg-only says so.                                           *)
(***************************************************************************)
RowsCarryTheirTags ==
    \A key \in DOMAIN table :
        table[key].stmt.pgOnly => "pg_only" \in table[key].tags
=============================================================================
