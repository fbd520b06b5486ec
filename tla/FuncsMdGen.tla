----------------------------- MODULE FuncsMdGen -----------------------------
(***************************************************************************)
(* funcs-md-gen (crates/funcs-md-gen/src/main.rs): it renders the tracking *)
(* document from separate SELECTs, without a transaction, while imports,   *)
(* seeds, the extractor and promotions go on; then it truncates the output *)
(* file and writes it section by section, the last sections with SELECTs   *)
(* of their own.  One statement, or one stretch of writes between two, is  *)
(* one action.  The database is Coverage's, with the status column of      *)
(* `scalars` and the row counts of the five other catalog tables.          *)
(***************************************************************************)
EXTENDS Coverage, Sequences

CONSTANTS
    Catalogues,     \* contents the status column may start with
    Sections,       \* the tables of the entity sections, in order
    MaxWrites       \* bound on the writes of others during a generation

VARIABLES
    scalars,        \* the status of each function, None without a row
    entities,       \* rows per table, None before schema v4 (no signature_hash)
    gen             \* the locals of main and the output file

genVars == <<cases, runs, scalars, entities, gen>>

Table == {Sections[i] : i \in DOMAIN Sections}

ASSUME CataloguesAssumption ==
    /\ Catalogues \subseteq [Function -> Status \cup {None}]
    /\ None \notin Status
    /\ IsFiniteSet(Case) /\ IsFiniteSet(Function)
    /\ \A tags \in SUBSET Tag : tags # None
    /\ Sections \in Seq(Table) /\ MaxWrites \in Nat

FnRow == [status: Status, cases: Nat]

ASSUME NoFnRowAssumption == None \notin FnRow

Phases == {"idle", "names", "line", "rows", "groups", "lookup", "write",
           "head", "list", "done", "dead"}

\* known, covered, writes and quiet are not in the code: the functions of
\* either table and those with cases at the start, and what others wrote since.
Locals ==
    [pc: Phases, summary: BOOLEAN, header: [Status -> Nat],
     names: SUBSET Function, rows: [Function -> FnRow \cup {None}],
     leaves: [Function -> (SUBSET Leaf) \cup {None}],
     counts: [Function -> Nat \cup {None}],
     doc: {"old", "empty", "header", "tables", "functions", "summary"},
     heading: [Table -> Nat], listed: [Table -> Nat], at: Nat,
     known: SUBSET Function, covered: SUBSET Function,
     writes: Nat, quiet: BOOLEAN]

GenTypeOK ==
    /\ scalars \in [Function -> Status \cup {None}]
    /\ entities \in [Table -> Nat \cup {None}]
    /\ gen \in Locals

GenInit ==
    /\ Init
    /\ scalars \in Catalogues
    /\ entities \in [Table -> {0, 1, None}]
    /\ gen = [pc |-> "idle", summary |-> FALSE,
              header |-> [s \in Status |-> 0], names |-> {},
              rows |-> [f \in Function |-> None],
              leaves |-> [f \in Function |-> None],
              counts |-> [f \in Function |-> None], doc |-> "old",
              heading |-> [t \in Table |-> 0], listed |-> [t \in Table |-> 0],
              at |-> 1, known |-> {}, covered |-> {},
              writes |-> 0, quiet |-> TRUE]

Reads == UNCHANGED <<cases, runs, scalars, entities>>

-----------------------------------------------------------------------------
(* What is read.                                                           *)

CasesOf(f) == {c \in Present : FnOf[c] = f}

StatusCounts == [s \in Status |-> Cardinality({f \in Function : scalars[f] = s})]

Covered == {f \in Function : CasesOf(f) # {}}

Start ==
    /\ gen.pc = "idle"
    /\ \E summary \in BOOLEAN :
        gen' = [gen EXCEPT !.pc = "names", !.summary = summary,
                    !.header = StatusCounts, !.covered = Covered,
                    !.known = Covered \cup {f \in Function : scalars[f] # None}]
    /\ Reads

ReadNames ==
    /\ gen.pc = "names"
    /\ gen' = [gen EXCEPT !.pc = IF gen.summary THEN "line" ELSE "rows",
                          !.names = Covered]
    /\ Reads

\* --summary-only: one line is all.
WriteLine ==
    /\ gen.pc = "line"
    /\ gen' = [gen EXCEPT !.pc = "done", !.doc = "summary"]
    /\ Reads

\* Mutant of ReadRows: joined with test_cases, a function without cases has
\* no row.
ReadRowsJoined ==
    /\ gen.pc = "rows"
    /\ gen' = [gen EXCEPT !.pc = "groups",
                  !.rows = [f \in Function |->
                      IF scalars[f] = None \/ CasesOf(f) = {} THEN None
                      ELSE [status |-> scalars[f],
                            cases |-> Cardinality(CasesOf(f))]]]
    /\ Reads

ReadRows ==
    /\ gen.pc = "rows"
    /\ gen' = [gen EXCEPT !.pc = "groups",
                  !.rows = [f \in Function |->
                      IF scalars[f] = None THEN None
                      ELSE [status |-> scalars[f],
                            cases |-> Cardinality(CasesOf(f))]]]
    /\ Reads

\* Mutant of LeavesOf: the tags of the first row stand for the function.
LeavesOfOneCase(f) == cases[CHOOSE c \in CasesOf(f) : TRUE] \cap Leaf

LeavesOf(f) == UNION {cases[c] \cap Leaf : c \in CasesOf(f)}

\* Mutant of ReadGroups: only functions with a row in `scalars` are grouped.
ReadGroupsOfScalars ==
    /\ gen.pc = "groups"
    /\ gen' = [gen EXCEPT !.pc = "lookup",
                  !.leaves = [f \in Function |->
                      IF CasesOf(f) = {} \/ gen.rows[f] = None
                      THEN None ELSE LeavesOf(f)]]
    /\ Reads

ReadGroups ==
    /\ gen.pc = "groups"
    /\ gen' = [gen EXCEPT !.pc = "lookup",
                  !.leaves = [f \in Function |->
                      IF CasesOf(f) = {} THEN None ELSE LeavesOf(f)]]
    /\ Reads

\* Functions with cases and no row (aggregates, window functions): each has
\* its cases counted by a SELECT of its own.
Uncounted == {f \in Function : /\ gen.leaves[f] # None
                               /\ gen.rows[f] = None /\ gen.counts[f] = None}

\* Mutant of LookUp: no row, no count.
LookUpNothing ==
    /\ gen.pc = "lookup"
    /\ \E f \in Uncounted : gen' = [gen EXCEPT !.counts[f] = 0]
    /\ Reads

LookUp ==
    /\ gen.pc = "lookup"
    /\ \E f \in Uncounted :
        gen' = [gen EXCEPT !.counts[f] = Cardinality(CasesOf(f))]
    /\ Reads

-----------------------------------------------------------------------------
(* What is written.                                                        *)

\* Functions without any leaf tag go to `<untagged>`.
LeafTable(line) ==
    {f \in Function : /\ gen.leaves[f] # None
                      /\ \/ line \in gen.leaves[f]
                         \/ line = "<untagged>" /\ gen.leaves[f] = {}}

Uncovered == {f \in Function : gen.rows[f] # None /\ gen.rows[f].cases = 0}

ShownCount(f) ==
    IF gen.rows[f] # None THEN gen.rows[f].cases ELSE gen.counts[f]

\* File::create truncates the previous document.
Create ==
    /\ gen.pc = "lookup" /\ Uncounted = {}
    /\ gen' = [gen EXCEPT !.pc = "write", !.doc = "empty"]
    /\ Reads

Writes(from, to) ==
    /\ gen.pc = "write" /\ gen.doc = from
    /\ gen' = [gen EXCEPT !.doc = to,
                          !.pc = IF to = "functions" THEN "head" ELSE "write"]
    /\ Reads

WriteFunctions ==
    Writes("empty", "header") \/ Writes("header", "tables")
        \/ Writes("tables", "functions")

\* Mutant of HeadSection: a table without signature_hash is not left out.
HeadEverySection ==
    /\ gen.pc = "head" /\ gen.at \in DOMAIN Sections
    /\ LET t == Sections[gen.at] IN
       gen' = IF entities[t] = 0 THEN [gen EXCEPT !.at = @ + 1]
              ELSE [gen EXCEPT !.pc = "list", !.heading[t] = entities[t]]
    /\ Reads

\* emit_entity_kind_section: the COUNT(*) for the heading; a legacy table or
\* an empty one has no section.
HeadSection ==
    /\ gen.pc = "head" /\ gen.at \in DOMAIN Sections
    /\ LET t == Sections[gen.at] IN
       gen' = IF entities[t] \in {None, 0} THEN [gen EXCEPT !.at = @ + 1]
              ELSE [gen EXCEPT !.pc = "list", !.heading[t] = entities[t]]
    /\ Reads

ListSection ==
    /\ gen.pc = "list"
    /\ LET t == Sections[gen.at] IN
       gen' = [gen EXCEPT !.pc = "head", !.at = @ + 1, !.listed[t] = entities[t]]
    /\ Reads

Finish ==
    /\ gen.pc = "head" /\ gen.at \notin DOMAIN Sections
    /\ gen' = [gen EXCEPT !.pc = "done"]
    /\ Reads

\* A kill, or a statement or a write that fails: `?` ends main at once.
Die ==
    /\ gen.pc \notin {"idle", "done", "dead"}
    /\ gen' = [gen EXCEPT !.pc = "dead"]
    /\ Reads

Generate ==
    \/ Start \/ ReadNames \/ WriteLine \/ ReadRows \/ ReadGroups \/ LookUp
    \/ Create \/ WriteFunctions \/ HeadSection \/ ListSection \/ Finish

-----------------------------------------------------------------------------
(* The writers.  Before the start the database is filled freely.           *)

Disturb ==
    IF gen.pc = "idle" THEN UNCHANGED gen
    ELSE /\ gen.writes < MaxWrites
         /\ gen' = [gen EXCEPT !.writes = @ + 1, !.quiet = FALSE]

\* Imports, seeds and inserts into test_runs.
WriteCases == Next /\ Disturb /\ UNCHANGED <<scalars, entities>>

\* A promotion, a demotion, or the extractor with a new row.
SetStatus ==
    /\ gen.pc # "idle" /\ Disturb
    /\ \E f \in Function, s \in Status : scalars' = [scalars EXCEPT ![f] = s]
    /\ UNCHANGED <<cases, runs, entities>>

AddEntity ==
    /\ gen.pc # "idle" /\ Disturb
    /\ \E t \in Table : /\ entities[t] # None
                        /\ entities' = [entities EXCEPT ![t] = @ + 1]
    /\ UNCHANGED <<cases, runs, scalars>>

GenNext == Generate \/ Die \/ WriteCases \/ SetStatus \/ AddEntity

GenSpec == GenInit /\ [][GenNext]_genVars

-----------------------------------------------------------------------------

\* The document of a run that got to its end.
Complete == gen.pc = "done" /\ gen.doc = "functions"

InTables(f) == \E line \in Leaf \cup {"<untagged>"} : f \in LeafTable(line)

(***************************************************************************)
(* However writers interleave with the SELECTs, a finished document leaves *)
(* out no function that was in `scalars` or had a case when the generator  *)
(* started, and lists none as uncovered that had one.  It rests on the row *)
(* counts being read before the groups.  (main.rs:115-127, 532-608)        *)
(***************************************************************************)
EveryFunctionPlaced ==
    Complete =>
        /\ \A f \in gen.known : InTables(f) \/ f \in Uncovered
        /\ gen.covered \cap Uncovered = {}

(***************************************************************************)
(* The parts of a document agree while nobody else writes: the status      *)
(* counts add up to the scalar rows shown and split them rightly, no       *)
(* function is both in a table and uncovered, the test coverage line       *)
(* counts every scalar that is in a table and nothing that is in none, and *)
(* every heading states the number of its rows.                            *)
(* (main.rs:92-97, 139-226, 318-364)                                       *)
(***************************************************************************)
QuietReportAddsUp ==
    Complete /\ gen.quiet =>
        /\ \A s \in Status : gen.header[s] =
              Cardinality({f \in Function :
                  /\ InTables(f) \/ f \in Uncovered
                  /\ gen.rows[f] # None /\ gen.rows[f].status = s})
        /\ {f \in Function : InTables(f) /\ gen.rows[f] # None} \subseteq gen.names
        /\ \A f \in gen.names : InTables(f) /\ f \notin Uncovered
        /\ gen.heading = gen.listed

\* `test-fn coverage` without --by: one GROUP BY over the same column.
Histogram ==
    [s \in {scalars[f] : f \in Function} \ {None} |->
        Cardinality({f \in Function : scalars[f] = s})]

(***************************************************************************)
(* The document and `test-fn coverage` tell the same of the same database: *)
(* a leaf has the functions with a case charged to it, each with the       *)
(* number of its cases, and the status line is the histogram.  Only        *)
(* `<untagged>` differs: the report charges it per case, the document      *)
(* lists a function there when none of its cases has a leaf.               *)
(* (main.rs:532-608 "mirroring the leaf_coverage view's semantics",        *)
(* db.rs:330-467, 534-565, 588-613)                                        *)
(***************************************************************************)
DocumentMatchesCoverage ==
    Complete /\ gen.quiet =>
        /\ \A line \in Leaf \cup {"<untagged>"} :
              LET charged == {FnOf[c] : c \in {d \in Present : line \in LinesOf(d)}}
              IN  LeafTable(line) =
                    IF line = "<untagged>"
                    THEN {f \in charged : LeavesOf(f) = {}} ELSE charged
        /\ \A f \in gen.names : ShownCount(f) = ByFunction[f].cases
        /\ \A s \in Status : gen.header[s] =
              IF s \in DOMAIN Histogram THEN Histogram[s] ELSE 0
=============================================================================
