-------------------------- MODULE FuncsMdGenProofs --------------------------
(***************************************************************************)
(* funcs-md-gen and the coverage reports, for any number of functions,     *)
(* cases, leaves, sections and writes of others between the SELECTs.       *)
(*                                                                         *)
(* A finished document leaves out no function: rows and cases are never    *)
(* deleted, so a function known at the start has a row when the rows are   *)
(* read or a case by then; one with a case is grouped by the later SELECT; *)
(* one with a row and no case is in the uncovered list.  While nobody else *)
(* writes, what was read is what the database still says, which makes the  *)
(* parts of the document agree with each other and with the reports.       *)
(*                                                                         *)
(* The reports are sums over cases.  Each case is charged to one line, so  *)
(* the lines divide the cases, and the sums count them.                    *)
(***************************************************************************)
EXTENDS FuncsMdGen, FoldLemmas

\* Past ReadRows, and past ReadGroups, on the way to a complete document.
AfterRows == gen.pc \in {"groups", "lookup", "write", "head", "list"} \/ Complete
AfterGroups == gen.pc \in {"lookup", "write", "head", "list"} \/ Complete

\* What the start saw is still in the database.
StillThere ==
    gen.pc # "idle" =>
        /\ gen.covered \subseteq Covered
        /\ \A f \in gen.known : scalars[f] # None \/ f \in Covered

\* The rows account for every known function without cases, and a positive
\* count was true.
RowsTold ==
    AfterRows =>
        /\ \A f \in gen.known : gen.rows[f] # None \/ f \in Covered
        /\ \A f \in Function :
              gen.rows[f] # None /\ gen.rows[f].cases # 0 => f \in Covered
        /\ \A f \in gen.covered : gen.rows[f] # None => gen.rows[f].cases # 0

\* The groups account for the rest.
GroupsTold ==
    AfterGroups => \A f \in gen.known : gen.leaves[f] # None \/ f \in Uncovered

\* The table being listed has its lineage columns.
ListTyped ==
    gen.pc = "list" => /\ gen.at \in DOMAIN Sections
                       /\ entities[Sections[gen.at]] # None

GInv ==
    /\ TypeOK /\ GenTypeOK /\ ListTyped
    /\ StillThere /\ RowsTold /\ GroupsTold

LEMMA TagsAreNoNull == \A tags \in SUBSET Tag : tags # None
BY CataloguesAssumption

\* Counts of cases and of functions are numbers; no case, count zero.
LEMMA Counts ==
    /\ \A f \in Function : Cardinality(CasesOf(f)) \in Nat
    /\ \A f \in Function : Cardinality(CasesOf(f)) = 0 <=> f \notin Covered
    /\ StatusCounts \in [Status -> Nat]
<1>1. ASSUME NEW f \in Function PROVE IsFiniteSet(CasesOf(f))
  <2>1. CasesOf(f) \subseteq Case
    BY DEF CasesOf, Present
  <2> QED BY <2>1, CataloguesAssumption, FS_Subset
<1>2. ASSUME NEW s \in Status
      PROVE  Cardinality({f \in Function : scalars[f] = s}) \in Nat
  <2>1. {f \in Function : scalars[f] = s} \subseteq Function
    OBVIOUS
  <2>2. IsFiniteSet({f \in Function : scalars[f] = s})
    BY <2>1, CataloguesAssumption, FS_Subset
  <2> QED BY <2>2, FS_CardinalityType
<1>3. ASSUME NEW f \in Function
      PROVE  /\ Cardinality(CasesOf(f)) \in Nat
             /\ Cardinality(CasesOf(f)) = 0 <=> f \notin Covered
  BY <1>1, FS_CardinalityType, FS_EmptySet DEF Covered
<1>4. StatusCounts \in [Status -> Nat]
  BY <1>2 DEF StatusCounts
<1> QED BY <1>3, <1>4

\* Leaf tags of a function are leaves.
LEMMA LeavesTyped == \A f \in Function : LeavesOf(f) \in SUBSET Leaf
BY DEF LeavesOf

-----------------------------------------------------------------------------
(* The writers.                                                            *)

\* Imports, seeds and runs keep the types and delete no case.
LEMMA CasesKept ==
    ASSUME TypeOK, Next
    PROVE  TypeOK' /\ Present \subseteq Present' /\ Covered \subseteq Covered'
<1>1. cases \in CaseTable /\ runs \subseteq Present \X RunStatus
  BY DEF TypeOK
<1>2. ASSUME NEW c \in Case, NEW tags \in SUBSET Tag,
             cases' = [cases EXCEPT ![c] = tags], runs' = runs
      PROVE  TypeOK' /\ Present \subseteq Present'
  <2>1. tags # None
    BY TagsAreNoNull
  <2>2. cases' \in CaseTable
    BY <1>1, <1>2 DEF CaseTable
  <2>3. Present \subseteq Present'
    BY <1>1, <1>2, <2>1 DEF Present, CaseTable
  <2> QED BY <1>1, <1>2, <2>2, <2>3 DEF TypeOK
<1>3. PICK c \in Case : Import(c) \/ Reseed(c) \/ \E s \in RunStatus : Record(c, s)
  BY DEF Next
<1>4. TypeOK' /\ Present \subseteq Present'
  <2>1. CASE Import(c)
    <3>1. PICK leaf \in LeafTags, marks \in SUBSET {"pg_only", "fixture_bad"} :
              cases' = [cases EXCEPT ![c] = leaf \cup marks]
      BY <2>1 DEF Import
    <3>2. leaf \cup marks \in SUBSET Tag
      BY DEF LeafTags, Tag
    <3> QED BY <2>1, <3>1, <3>2, <1>2 DEF Import
  <2>2. CASE Reseed(c)
    BY <2>2, <1>2 DEF Reseed
  <2>3. CASE \E s \in RunStatus : Record(c, s)
    BY <1>1, <2>3 DEF Record, TypeOK, Present
  <2> QED BY <1>3, <2>1, <2>2, <2>3
<1>5. Covered \subseteq Covered'
  BY <1>4 DEF Covered, CasesOf
<1> QED BY <1>4, <1>5

\* What others write leaves the generator's own locals alone.
LEMMA DisturbKeeps ==
    ASSUME GenTypeOK, Disturb
    PROVE  /\ gen' \in Locals
           /\ gen'.pc = gen.pc /\ gen'.doc = gen.doc /\ gen'.at = gen.at
           /\ gen'.rows = gen.rows /\ gen'.leaves = gen.leaves
           /\ gen'.known = gen.known /\ gen'.covered = gen.covered
<1>1. CASE gen' = gen
  BY <1>1 DEF GenTypeOK
<1>2. CASE gen' = [gen EXCEPT !.writes = @ + 1, !.quiet = FALSE]
  <2>1. gen \in Locals
    BY DEF GenTypeOK
  <2>2. gen.writes \in Nat /\ gen.writes + 1 \in Nat
    BY <2>1 DEF Locals
  <2>3. gen' = [gen EXCEPT !.writes = gen.writes + 1, !.quiet = FALSE]
    BY <1>2
  <2>4. gen' \in Locals
    BY <2>1, <2>2, <2>3 DEF Locals
  <2>5. /\ gen'.pc = gen.pc /\ gen'.doc = gen.doc /\ gen'.at = gen.at
        /\ gen'.rows = gen.rows /\ gen'.leaves = gen.leaves
        /\ gen'.known = gen.known /\ gen'.covered = gen.covered
    BY <2>1, <2>3 DEF Locals
  <2> QED BY <2>4, <2>5
<1> QED BY <1>1, <1>2 DEF Disturb

\* Then the invariant needs only that the database grows.
LEMMA GrowthGInv ==
    ASSUME GInv, TypeOK', GenTypeOK', ListTyped',
           Covered \subseteq Covered',
           \A f \in Function : scalars[f] # None => scalars'[f] # None,
           gen'.pc = gen.pc, gen'.doc = gen.doc,
           gen'.rows = gen.rows, gen'.leaves = gen.leaves,
           gen'.known = gen.known, gen'.covered = gen.covered
    PROVE  GInv'
<1>1. gen.known \subseteq Function /\ gen.covered \subseteq Function
  BY DEF GInv, GenTypeOK, Locals
<1>2. (Complete' <=> Complete) /\ (AfterRows' <=> AfterRows)
      /\ (AfterGroups' <=> AfterGroups) /\ Uncovered' = Uncovered
  BY DEF Complete, AfterRows, AfterGroups, Uncovered
<1>3. StillThere'
  BY <1>1 DEF GInv, StillThere
<1>4. RowsTold'
  BY <1>1, <1>2 DEF GInv, RowsTold
<1>5. GroupsTold'
  BY <1>2 DEF GInv, GroupsTold
<1> QED BY <1>3, <1>4, <1>5 DEF GInv

LEMMA WritersGInv ==
    ASSUME GInv, WriteCases \/ SetStatus \/ AddEntity
    PROVE  GInv'
<1>1. TypeOK /\ GenTypeOK /\ ListTyped
  BY DEF GInv
<1>2. gen' \in Locals /\ gen'.pc = gen.pc /\ gen'.doc = gen.doc
      /\ gen'.at = gen.at /\ gen'.rows = gen.rows /\ gen'.leaves = gen.leaves
      /\ gen'.known = gen.known /\ gen'.covered = gen.covered
  BY <1>1, DisturbKeeps DEF WriteCases, SetStatus, AddEntity
<1>3. CASE WriteCases
  <2>1. TypeOK' /\ Covered \subseteq Covered' /\ UNCHANGED <<scalars, entities>>
    BY <1>1, <1>3, CasesKept DEF WriteCases
  <2>2. GenTypeOK' /\ ListTyped'
    BY <1>1, <1>2, <2>1 DEF GenTypeOK, ListTyped
  <2> QED BY <1>2, <2>1, <2>2, GrowthGInv
<1>4. CASE SetStatus
  <2>1. PICK f \in Function, s \in Status : scalars' = [scalars EXCEPT ![f] = s]
    BY <1>4 DEF SetStatus
  <2>2. UNCHANGED <<cases, runs, entities>>
    BY <1>4 DEF SetStatus
  <2>3. scalars' \in [Function -> Status \cup {None}]
        /\ \A g \in Function : scalars[g] # None => scalars'[g] # None
    BY <1>1, <2>1, CataloguesAssumption DEF GenTypeOK
  <2>4. TypeOK' /\ GenTypeOK' /\ ListTyped' /\ Covered' = Covered
    BY <1>1, <1>2, <2>2, <2>3
       DEF TypeOK, GenTypeOK, ListTyped, Covered, CasesOf, Present
  <2> QED BY <1>2, <2>3, <2>4, GrowthGInv
<1>5. CASE AddEntity
  <2>1. PICK t \in Table : /\ entities[t] # None
                           /\ entities' = [entities EXCEPT ![t] = @ + 1]
    BY <1>5 DEF AddEntity
  <2>2. UNCHANGED <<cases, runs, scalars>>
    BY <1>5 DEF AddEntity
  <2>3. entities[t] \in Nat /\ entities[t] + 1 \in Nat /\ entities[t] + 1 # None
    BY <1>1, <2>1, CatalogueAssumption DEF GenTypeOK
  <2>4. entities' \in [Table -> Nat \cup {None}]
        /\ \A u \in Table : entities[u] # None => entities'[u] # None
    BY <1>1, <2>1, <2>3 DEF GenTypeOK
  <2>5. ListTyped'
    BY <1>1, <1>2, <2>4 DEF ListTyped, Table
  <2>6. TypeOK' /\ GenTypeOK' /\ Covered' = Covered
    BY <1>1, <1>2, <2>2, <2>4
       DEF TypeOK, GenTypeOK, Covered, CasesOf, Present
  <2> QED BY <1>2, <2>2, <2>5, <2>6, GrowthGInv
<1> QED BY <1>3, <1>4, <1>5

-----------------------------------------------------------------------------
(* The generator.                                                          *)

\* A read leaves the database as it is.
LEMMA ReadsKeep ==
    ASSUME TypeOK, GenTypeOK, Reads, gen' \in Locals
    PROVE  TypeOK' /\ GenTypeOK' /\ Covered' = Covered
BY DEF Reads, TypeOK, GenTypeOK, Covered, CasesOf, Present

\* A step of the generator that touches neither rows nor groups.
LEMMA OtherStepGInv ==
    ASSUME GInv, Reads, gen' \in Locals, ListTyped', gen.pc # "idle",
           gen'.rows = gen.rows, gen'.leaves = gen.leaves,
           gen'.known = gen.known, gen'.covered = gen.covered,
           AfterRows' => AfterRows, AfterGroups' => AfterGroups
    PROVE  GInv'
<1>1. TypeOK' /\ GenTypeOK' /\ Covered' = Covered /\ Uncovered' = Uncovered
  BY ReadsKeep DEF GInv, Uncovered
<1>2. scalars' = scalars
  BY DEF Reads
<1>3. StillThere' /\ RowsTold' /\ GroupsTold'
  BY <1>1, <1>2 DEF GInv, StillThere, RowsTold, GroupsTold
<1> QED BY <1>1, <1>3 DEF GInv

LEMMA StartGInv ==
    ASSUME GInv, Start
    PROVE  GInv'
<1>1. gen \in Locals /\ gen.pc = "idle"
  BY DEF GInv, GenTypeOK, Start
<1>2. PICK summary \in BOOLEAN :
        gen' = [gen EXCEPT !.pc = "names", !.summary = summary,
                    !.header = StatusCounts, !.covered = Covered,
                    !.known = Covered \cup {f \in Function : scalars[f] # None}]
  BY DEF Start
<1>3. /\ StatusCounts \in [Status -> Nat] /\ Covered \in SUBSET Function
      /\ Covered \cup {f \in Function : scalars[f] # None} \in SUBSET Function
  BY Counts DEF Covered
<1>4. gen' \in Locals
  BY <1>1, <1>2, <1>3 DEF Locals, Phases
<1>5. /\ gen'.pc = "names" /\ gen'.covered = Covered
      /\ gen'.known = Covered \cup {f \in Function : scalars[f] # None}
  BY <1>1, <1>2 DEF Locals
<1>6. TypeOK' /\ GenTypeOK' /\ Covered' = Covered /\ scalars' = scalars
  BY <1>4, ReadsKeep DEF GInv, Start, Reads
<1>7. ListTyped' /\ StillThere' /\ RowsTold' /\ GroupsTold'
  BY <1>5, <1>6 DEF ListTyped, StillThere, RowsTold, GroupsTold, AfterRows,
                    AfterGroups, Complete
<1> QED BY <1>6, <1>7 DEF GInv

\* The rows are read: every function that still has no case has its row.
LEMMA ReadRowsGInv ==
    ASSUME GInv, ReadRows
    PROVE  GInv'
<1> DEFINE rows == [f \in Function |->
                      IF scalars[f] = None THEN None
                      ELSE [status |-> scalars[f],
                            cases |-> Cardinality(CasesOf(f))]]
<1>1. gen \in Locals /\ gen.pc = "rows" /\ StillThere
      /\ scalars \in [Function -> Status \cup {None}]
  BY DEF GInv, GenTypeOK, ReadRows
<1>2. gen' = [gen EXCEPT !.pc = "groups", !.rows = rows]
  BY DEF ReadRows
<1>3. ASSUME NEW f \in Function, scalars[f] # None
      PROVE  /\ rows[f] \in FnRow /\ rows[f] # None
             /\ rows[f].cases = Cardinality(CasesOf(f))
  <2>1. rows[f] = [status |-> scalars[f], cases |-> Cardinality(CasesOf(f))]
    BY <1>3
  <2>2. rows[f] \in FnRow
    BY <1>1, <1>3, <2>1, Counts DEF FnRow
  <2> QED BY <2>1, <2>2, NoFnRowAssumption
<1>4. ASSUME NEW f \in Function, scalars[f] = None PROVE rows[f] = None
  BY <1>4
<1>5. rows \in [Function -> FnRow \cup {None}]
  BY <1>3, <1>4
<1> HIDE DEF rows
<1>6. gen' \in Locals
  BY <1>1, <1>2, <1>5 DEF Locals, Phases
<1>7. /\ gen'.pc = "groups" /\ gen'.rows = rows
      /\ gen'.known = gen.known /\ gen'.covered = gen.covered
      /\ gen.known \subseteq Function /\ gen.covered \subseteq Function
  BY <1>1, <1>2 DEF Locals
<1>8. TypeOK' /\ GenTypeOK' /\ Covered' = Covered /\ scalars' = scalars
  BY <1>6, ReadsKeep DEF GInv, ReadRows, Reads
<1>9. ListTyped' /\ StillThere' /\ GroupsTold'
  BY <1>1, <1>7, <1>8 DEF ListTyped, StillThere, GroupsTold, AfterGroups,
                          Complete
<1>10. RowsTold'
  <2>1. \A f \in gen.known : rows[f] # None \/ f \in Covered
    BY <1>1, <1>3, <1>7 DEF StillThere
  <2>2. \A f \in Function : rows[f] # None => scalars[f] # None
    BY <1>4
  <2>3. \A f \in Function : rows[f] # None =>
            (rows[f].cases = 0 <=> f \notin Covered)
    BY <1>3, <2>2, Counts
  <2>4. \A f \in gen.covered : f \in Covered /\ f \in Function
    BY <1>1, <1>7 DEF StillThere
  <2> QED BY <1>7, <1>8, <2>1, <2>3, <2>4 DEF RowsTold
<1> QED BY <1>8, <1>9, <1>10 DEF GInv

\* The groups are read: what the rows did not settle has a case by now.
LEMMA ReadGroupsGInv ==
    ASSUME GInv, ReadGroups
    PROVE  GInv'
<1> DEFINE leaves == [f \in Function |->
                        IF CasesOf(f) = {} THEN None ELSE LeavesOf(f)]
<1>1. gen \in Locals /\ gen.pc = "groups" /\ StillThere /\ RowsTold
  BY DEF GInv, GenTypeOK, ReadGroups
<1>2. gen' = [gen EXCEPT !.pc = "lookup", !.leaves = leaves]
  BY DEF ReadGroups
<1>3. leaves \in [Function -> (SUBSET Leaf) \cup {None}]
  BY LeavesTyped
<1>4. ASSUME NEW f \in Covered PROVE leaves[f] # None
  <2>1. f \in Function /\ leaves[f] = LeavesOf(f)
    BY DEF Covered
  <2>2. LeavesOf(f) \in SUBSET Tag
    BY <2>1, LeavesTyped DEF Tag
  <2> QED BY <2>1, <2>2, TagsAreNoNull
<1> HIDE DEF leaves
<1>5. gen' \in Locals
  BY <1>1, <1>2, <1>3 DEF Locals, Phases
<1>6. /\ gen'.pc = "lookup" /\ gen'.leaves = leaves /\ gen'.rows = gen.rows
      /\ gen'.known = gen.known /\ gen'.covered = gen.covered
      /\ gen.known \subseteq Function
  BY <1>1, <1>2 DEF Locals
<1>7. TypeOK' /\ GenTypeOK' /\ Covered' = Covered /\ scalars' = scalars
  BY <1>5, ReadsKeep DEF GInv, ReadGroups, Reads
<1>8. ListTyped' /\ StillThere' /\ RowsTold'
  BY <1>1, <1>6, <1>7 DEF ListTyped, StillThere, RowsTold, AfterRows
<1>9. GroupsTold'
  <2>1. \A f \in gen.known : f \in Covered \/ f \in Uncovered
    BY <1>1, <1>6 DEF RowsTold, AfterRows, Uncovered
  <2>2. Uncovered' = Uncovered
    BY <1>6 DEF Uncovered
  <2> QED BY <1>4, <1>6, <2>1, <2>2 DEF GroupsTold
<1> QED BY <1>7, <1>8, <1>9 DEF GInv

\* The SELECTs and writes around them.
LEMMA SelectsGInv ==
    ASSUME GInv, ReadNames \/ WriteLine \/ LookUp \/ Create \/ WriteFunctions
    PROVE  GInv'
<1>1. gen \in Locals
  BY DEF GInv, GenTypeOK
<1>2. CASE ReadNames
  <2>1. gen' = [gen EXCEPT !.pc = IF gen.summary THEN "line" ELSE "rows",
                           !.names = Covered]
        /\ gen.pc = "names" /\ Covered \in SUBSET Function /\ Reads
    BY <1>2 DEF ReadNames, Covered
  <2>2. gen' \in Locals
    BY <1>1, <2>1 DEF Locals, Phases
  <2>3. /\ gen'.pc \in {"line", "rows"}
        /\ gen'.rows = gen.rows /\ gen'.leaves = gen.leaves
        /\ gen'.known = gen.known /\ gen'.covered = gen.covered
    BY <1>1, <2>1 DEF Locals
  <2> QED BY <2>1, <2>2, <2>3, OtherStepGInv
          DEF ListTyped, AfterRows, AfterGroups, Complete
<1>3. CASE WriteLine
  <2>1. gen' = [gen EXCEPT !.pc = "done", !.doc = "summary"]
        /\ gen.pc = "line" /\ Reads
    BY <1>3 DEF WriteLine
  <2>2. gen' \in Locals
    BY <1>1, <2>1 DEF Locals, Phases
  <2>3. /\ gen'.pc = "done" /\ gen'.doc = "summary"
        /\ gen'.rows = gen.rows /\ gen'.leaves = gen.leaves
        /\ gen'.known = gen.known /\ gen'.covered = gen.covered
    BY <1>1, <2>1 DEF Locals
  <2> QED BY <2>1, <2>2, <2>3, OtherStepGInv
          DEF ListTyped, AfterRows, AfterGroups, Complete
<1>4. CASE LookUp
  <2>1. PICK f \in Uncounted :
            gen' = [gen EXCEPT !.counts[f] = Cardinality(CasesOf(f))]
    BY <1>4 DEF LookUp
  <2>2. gen.pc = "lookup" /\ Reads /\ f \in Function
    BY <1>4, <2>1 DEF LookUp, Uncounted
  <2>3. Cardinality(CasesOf(f)) \in Nat
    BY <2>2, Counts
  <2>4. gen.counts \in [Function -> Nat \cup {None}]
    BY <1>1 DEF Locals
  <2>5. [gen.counts EXCEPT ![f] = Cardinality(CasesOf(f))]
            \in [Function -> Nat \cup {None}]
    BY <2>2, <2>3, <2>4
  <2>6. gen' \in Locals
    BY <1>1, <2>1, <2>5 DEF Locals
  <2>7. /\ gen'.pc = gen.pc
        /\ gen'.rows = gen.rows /\ gen'.leaves = gen.leaves
        /\ gen'.known = gen.known /\ gen'.covered = gen.covered
    BY <1>1, <2>1 DEF Locals
  <2> QED BY <2>2, <2>6, <2>7, OtherStepGInv
          DEF ListTyped, AfterRows, AfterGroups, Complete
<1>5. CASE Create
  <2>1. gen' = [gen EXCEPT !.pc = "write", !.doc = "empty"]
        /\ gen.pc = "lookup" /\ Reads
    BY <1>5 DEF Create
  <2>2. gen' \in Locals
    BY <1>1, <2>1 DEF Locals, Phases
  <2>3. /\ gen'.pc = "write"
        /\ gen'.rows = gen.rows /\ gen'.leaves = gen.leaves
        /\ gen'.known = gen.known /\ gen'.covered = gen.covered
    BY <1>1, <2>1 DEF Locals
  <2> QED BY <2>1, <2>2, <2>3, OtherStepGInv
          DEF ListTyped, AfterRows, AfterGroups, Complete
<1>6. CASE WriteFunctions
  <2>1. PICK to \in {"header", "tables", "functions"} :
            gen' = [gen EXCEPT !.doc = to,
                        !.pc = IF to = "functions" THEN "head" ELSE "write"]
    BY <1>6 DEF WriteFunctions, Writes
  <2>2. gen.pc = "write" /\ Reads
    BY <1>6 DEF WriteFunctions, Writes
  <2>3. gen' \in Locals
    BY <1>1, <2>1 DEF Locals, Phases
  <2>4. /\ gen'.pc \in {"write", "head"}
        /\ gen'.rows = gen.rows /\ gen'.leaves = gen.leaves
        /\ gen'.known = gen.known /\ gen'.covered = gen.covered
    BY <1>1, <2>1 DEF Locals
  <2> QED BY <2>2, <2>3, <2>4, OtherStepGInv
          DEF ListTyped, AfterRows, AfterGroups, Complete
<1> QED BY <1>2, <1>3, <1>4, <1>5, <1>6

\* The sections with SELECTs of their own.
LEMMA SectionsGInv ==
    ASSUME GInv, HeadSection \/ ListSection
    PROVE  GInv'
<1>1. gen \in Locals /\ entities \in [Table -> Nat \cup {None}] /\ Reads
      /\ ListTyped
  BY DEF GInv, GenTypeOK, HeadSection, ListSection
<1>2. gen.at \in Nat /\ gen.at + 1 \in Nat /\ Len(Sections) \in Nat
      /\ gen.heading \in [Table -> Nat] /\ gen.listed \in [Table -> Nat]
  BY <1>1, CataloguesAssumption DEF Locals
<1> DEFINE t == Sections[gen.at]
<1>3. ASSUME gen.at \in DOMAIN Sections PROVE t \in Table
  BY <1>3 DEF Table
<1>4. ASSUME gen' \in Locals, ListTyped', gen.pc \in {"head", "list"},
             gen'.pc \in {"head", "list"},
             gen'.rows = gen.rows, gen'.leaves = gen.leaves,
             gen'.known = gen.known, gen'.covered = gen.covered
      PROVE  GInv'
  BY <1>1, <1>4, OtherStepGInv DEF AfterRows, AfterGroups, Complete
<1>5. CASE HeadSection /\ entities[t] \in {None, 0}
  <2>1. gen' = [gen EXCEPT !.at = gen.at + 1] /\ gen.pc = "head"
    BY <1>5 DEF HeadSection
  <2>2. gen' \in Locals
    BY <1>1, <1>2, <2>1 DEF Locals
  <2>3. /\ gen'.pc = "head"
        /\ gen'.rows = gen.rows /\ gen'.leaves = gen.leaves
        /\ gen'.known = gen.known /\ gen'.covered = gen.covered
    BY <1>1, <2>1 DEF Locals
  <2> QED BY <2>1, <2>2, <2>3, <1>4 DEF ListTyped
<1>6. CASE HeadSection /\ entities[t] \notin {None, 0}
  <2>1. gen' = [gen EXCEPT !.pc = "list", !.heading[t] = entities[t]]
        /\ gen.pc = "head" /\ gen.at \in DOMAIN Sections
    BY <1>6 DEF HeadSection
  <2>2. t \in Table /\ entities[t] \in Nat /\ entities[t] # None
    BY <1>1, <1>3, <1>6, <2>1
  <2> HIDE DEF t
  <2>3. [gen.heading EXCEPT ![t] = entities[t]] \in [Table -> Nat]
    BY <1>2, <2>2
  <2>4. gen' \in Locals
    BY <1>1, <2>1, <2>3 DEF Locals, Phases
  <2>5. /\ gen'.pc = "list" /\ gen'.at = gen.at
        /\ gen'.rows = gen.rows /\ gen'.leaves = gen.leaves
        /\ gen'.known = gen.known /\ gen'.covered = gen.covered
    BY <1>1, <2>1 DEF Locals
  <2>6. ListTyped'
    BY <1>1, <2>1, <2>2, <2>5 DEF ListTyped, Reads, t
  <2> QED BY <2>1, <2>4, <2>5, <2>6, <1>4
<1>7. CASE ListSection
  <2>1. gen' = [gen EXCEPT !.pc = "head", !.at = gen.at + 1,
                           !.listed[t] = entities[t]]
        /\ gen.pc = "list"
    BY <1>7 DEF ListSection
  <2>2. t \in Table /\ entities[t] \in Nat
    BY <1>1, <1>3, <2>1 DEF ListTyped
  <2> HIDE DEF t
  <2>3. [gen.listed EXCEPT ![t] = entities[t]] \in [Table -> Nat]
    BY <1>2, <2>2
  <2>4. gen' \in Locals
    BY <1>1, <1>2, <2>1, <2>3 DEF Locals, Phases
  <2>5. /\ gen'.pc = "head"
        /\ gen'.rows = gen.rows /\ gen'.leaves = gen.leaves
        /\ gen'.known = gen.known /\ gen'.covered = gen.covered
    BY <1>1, <2>1 DEF Locals
  <2> QED BY <2>1, <2>4, <2>5, <1>4 DEF ListTyped
<1> QED BY <1>5, <1>6, <1>7

\* The end, and an end before it.
LEMMA EndGInv ==
    ASSUME GInv, Finish \/ Die
    PROVE  GInv'
<1>1. gen \in Locals /\ Reads /\ gen.pc # "idle"
  BY DEF GInv, GenTypeOK, Finish, Die
<1>2. PICK to \in {"done", "dead"} :
        /\ gen' = [gen EXCEPT !.pc = to]
        /\ to = "done" => gen.pc = "head"
  BY DEF Finish, Die
<1>3. gen' \in Locals
  BY <1>1, <1>2 DEF Locals, Phases
<1>4. /\ gen'.pc = to /\ gen'.doc = gen.doc
      /\ gen'.rows = gen.rows /\ gen'.leaves = gen.leaves
      /\ gen'.known = gen.known /\ gen'.covered = gen.covered
  BY <1>1, <1>2 DEF Locals
<1> QED BY <1>1, <1>2, <1>3, <1>4, OtherStepGInv
        DEF ListTyped, AfterRows, AfterGroups, Complete

-----------------------------------------------------------------------------

LEMMA InitGInv == GenInit => GInv
<1> SUFFICES ASSUME GenInit PROVE GInv
  OBVIOUS
<1>1. TypeOK
  BY DEF GenInit, Init, TypeOK, CaseTable
<1>2. scalars \in [Function -> Status \cup {None}]
      /\ entities \in [Table -> Nat \cup {None}]
  BY CataloguesAssumption DEF GenInit
<1>3. gen \in Locals /\ gen.pc = "idle"
  BY DEF GenInit, Locals, Phases
<1> QED BY <1>1, <1>2, <1>3
        DEF GInv, GenTypeOK, ListTyped, StillThere, RowsTold, GroupsTold,
            AfterRows, AfterGroups, Complete

LEMMA StepGInv == GInv /\ [GenNext]_genVars => GInv'
<1> SUFFICES ASSUME GInv, [GenNext]_genVars PROVE GInv'
  OBVIOUS
<1>1. CASE Generate
  BY <1>1, StartGInv, SelectsGInv, ReadRowsGInv, ReadGroupsGInv, SectionsGInv,
     EndGInv DEF Generate
<1>2. CASE Die
  BY <1>2, EndGInv
<1>3. CASE WriteCases \/ SetStatus \/ AddEntity
  BY <1>3, WritersGInv
<1>4. CASE UNCHANGED genVars
  BY <1>4 DEF genVars, GInv, TypeOK, GenTypeOK, ListTyped, StillThere, RowsTold,
              GroupsTold, AfterRows, AfterGroups, Complete, Covered, CasesOf,
              Present, Uncovered
<1> QED BY <1>1, <1>2, <1>3, <1>4 DEF GenNext

\* A function with a group is in a table, in `<untagged>` at least.
LEMMA GInvPlaces == GInv => EveryFunctionPlaced
<1> SUFFICES ASSUME GInv, Complete PROVE EveryFunctionPlaced
  BY DEF EveryFunctionPlaced
<1>1. gen \in Locals /\ RowsTold /\ GroupsTold /\ AfterRows /\ AfterGroups
  BY DEF GInv, GenTypeOK, AfterRows, AfterGroups
<1>2. gen.leaves \in [Function -> (SUBSET Leaf) \cup {None}]
      /\ gen.known \subseteq Function
  BY <1>1 DEF Locals
<1>3. ASSUME NEW f \in gen.known, gen.leaves[f] # None PROVE InTables(f)
  <2>1. gen.leaves[f] \in SUBSET Leaf /\ f \in Function
    BY <1>2, <1>3
  <2>2. CASE gen.leaves[f] = {}
    BY <1>3, <2>1, <2>2 DEF InTables, LeafTable
  <2>3. CASE gen.leaves[f] # {}
    <3>1. PICK leaf \in Leaf : leaf \in gen.leaves[f]
      BY <2>1, <2>3
    <3> QED BY <1>3, <2>1, <3>1 DEF InTables, LeafTable
  <2> QED BY <2>2, <2>3
<1>4. gen.covered \cap Uncovered = {}
  BY <1>1 DEF RowsTold, Uncovered
<1> QED BY <1>1, <1>3, <1>4 DEF EveryFunctionPlaced, GroupsTold

\* Types of the tables, of the generator's locals and of what it has written,
\* whoever writes in between.
THEOREM GeneratorTypes == GenSpec => []GenTypeOK
<1>1. GInv => GenTypeOK
  BY DEF GInv
<1> QED BY <1>1, InitGInv, StepGInv, PTL DEF GenSpec

\* However imports, seeds, promotions and the extractor interleave with the
\* SELECTs of the generator, a finished document has every function known at
\* its start in a leaf table or in the uncovered list, and no covered one in
\* that list.
THEOREM DocumentIsComplete == GenSpec => []EveryFunctionPlaced
BY InitGInv, StepGInv, GInvPlaces, PTL DEF GenSpec

\* The tables keep their types under the writers of the coverage report.
THEOREM ReportedTables == GenSpec => []TypeOK
<1>1. GInv => TypeOK
  BY DEF GInv
<1> QED BY <1>1, InitGInv, StepGInv, PTL DEF GenSpec

-----------------------------------------------------------------------------
(* A generation nobody disturbs.  The argument: as long as nobody else has *)
(* written, what has been read is what the database still says.            *)

RowsNow ==
    [f \in Function |->
        IF scalars[f] = None THEN None
        ELSE [status |-> scalars[f], cases |-> Cardinality(CasesOf(f))]]

LeavesNow == [f \in Function |-> IF CasesOf(f) = {} THEN None ELSE LeavesOf(f)]

AfterNames == gen.pc = "rows" \/ AfterRows
AfterCreate == gen.pc \in {"write", "head", "list"} \/ Complete

\* The SELECTs before File::create.
ReadRight ==
    /\ gen.pc # "idle" => gen.header = StatusCounts
    /\ AfterNames => gen.names = Covered
    /\ AfterRows => gen.rows = RowsNow
    /\ AfterGroups => gen.leaves = LeavesNow

\* The counts of the functions without a row are their own, and complete
\* when the document is begun.
CountedRight ==
    /\ \A f \in Function : gen.counts[f] \in {None, Cardinality(CasesOf(f))}
    /\ AfterCreate => Uncounted = {}

\* A heading is ahead of its list only between the two SELECTs of a section.
HeadedRight ==
    /\ gen.pc \notin {"list", "dead"} => gen.heading = gen.listed
    /\ gen.pc = "list" =>
          /\ gen.at \in DOMAIN Sections
          /\ gen.heading[Sections[gen.at]] = entities[Sections[gen.at]]
          /\ \A t \in Table : t # Sections[gen.at] => gen.heading[t] = gen.listed[t]

\* Before the start nothing has been counted, and nobody has disturbed.
Fresh ==
    gen.pc = "idle" =>
        /\ gen.quiet
        /\ gen.counts = [f \in Function |-> None]
        /\ gen.heading = gen.listed

QInv == GInv /\ Fresh /\ (gen.quiet => ReadRight /\ CountedRight /\ HeadedRight)

\* A read leaves everything that is compared with it as it is.
LEMMA NowKept ==
    ASSUME Reads
    PROVE  /\ Covered' = Covered /\ StatusCounts' = StatusCounts
           /\ RowsNow' = RowsNow /\ LeavesNow' = LeavesNow
           /\ \A f \in Function : CasesOf(f)' = CasesOf(f)
           /\ entities' = entities
<1>1. cases' = cases /\ scalars' = scalars /\ entities' = entities
  BY DEF Reads
<1>2. Present' = Present
  BY <1>1 DEF Present
<1>3. \A f \in Function : CasesOf(f)' = CasesOf(f)
  BY <1>2 DEF CasesOf
<1>4. \A f \in Function : LeavesOf(f)' = LeavesOf(f)
  BY <1>1, <1>3 DEF LeavesOf
<1>5. Covered' = Covered /\ StatusCounts' = StatusCounts
  BY <1>1, <1>3 DEF Covered, StatusCounts
<1>6. RowsNow' = RowsNow
  BY <1>1, <1>3 DEF RowsNow
<1>7. LeavesNow' = LeavesNow
  BY <1>3, <1>4 DEF LeavesNow
<1> QED
  BY <1>1, <1>3, <1>5, <1>6, <1>7

\* One step of the generator: what it reads it reads as it is now, the rest
\* it leaves.
LEMMA QuietStep ==
    ASSUME QInv, GInv', Reads, gen.pc # "idle", gen'.pc # "idle",
           gen'.quiet = gen.quiet, gen'.header = gen.header,
           AfterNames' =>
              gen'.names = Covered \/ (AfterNames /\ gen'.names = gen.names),
           AfterRows' =>
              gen'.rows = RowsNow \/ (AfterRows /\ gen'.rows = gen.rows),
           AfterGroups' =>
              gen'.leaves = LeavesNow
              \/ (AfterGroups /\ gen'.leaves = gen.leaves),
           \A f \in Function :
              gen'.counts[f] \in {gen.counts[f], Cardinality(CasesOf(f))},
           AfterCreate' =>
              Uncounted' = {} \/ (AfterCreate /\ Uncounted' = Uncounted),
           gen.quiet => HeadedRight'
    PROVE  QInv'
<1>1. Fresh'
  BY DEF Fresh
<1> SUFFICES ASSUME gen.quiet PROVE ReadRight' /\ CountedRight' /\ HeadedRight'
  BY <1>1 DEF QInv
<1>2. ReadRight /\ CountedRight
  BY DEF QInv
<1>3. ReadRight'
  BY <1>2, NowKept DEF ReadRight
<1>4. \A f \in Function : gen'.counts[f] \in {None, Cardinality(CasesOf(f)')}
  BY <1>2, NowKept DEF CountedRight
<1>5. AfterCreate' => Uncounted' = {}
  BY <1>2 DEF CountedRight
<1>6. CountedRight'
  BY <1>4, <1>5 DEF CountedRight
<1> QED
  BY <1>3, <1>6

\* A write of others ends the quiet, but before the start there is none.
LEMMA WritersQInv ==
    ASSUME QInv, GInv', WriteCases \/ SetStatus \/ AddEntity
    PROVE  QInv'
<1>1. gen \in Locals
  BY DEF QInv, GInv, GenTypeOK
<1>2. CASE gen.pc = "idle"
  <2>1. gen' = gen
    BY <1>2 DEF WriteCases, SetStatus, AddEntity, Disturb
  <2>2. Fresh' /\ gen'.pc = "idle"
    BY <1>2, <2>1 DEF QInv, Fresh
  <2>3. ReadRight'
    BY <2>2 DEF ReadRight, AfterNames, AfterRows, AfterGroups, Complete
  <2>4. CountedRight'
    BY <2>2 DEF Fresh, CountedRight, AfterCreate, Complete
  <2>5. HeadedRight'
    BY <2>2 DEF Fresh, HeadedRight
  <2> QED
    BY <2>2, <2>3, <2>4, <2>5 DEF QInv
<1>3. CASE gen.pc # "idle"
  <2>1. gen' = [gen EXCEPT !.writes = @ + 1, !.quiet = FALSE]
    BY <1>3 DEF WriteCases, SetStatus, AddEntity, Disturb
  <2>2. gen'.pc # "idle" /\ ~gen'.quiet
    BY <1>1, <1>3, <2>1 DEF Locals
  <2> QED
    BY <2>2 DEF QInv, Fresh
<1> QED
  BY <1>2, <1>3

LEMMA StartQInv ==
    ASSUME QInv, GInv', Start
    PROVE  QInv'
<1>1. gen \in Locals /\ Fresh /\ gen.pc = "idle" /\ Reads
  BY DEF QInv, GInv, GenTypeOK, Start
<1>2. PICK summary \in BOOLEAN :
        gen' = [gen EXCEPT !.pc = "names", !.summary = summary,
                    !.header = StatusCounts, !.covered = Covered,
                    !.known = Covered \cup {f \in Function : scalars[f] # None}]
  BY DEF Start
<1>3. /\ gen'.pc = "names" /\ gen'.header = StatusCounts
      /\ gen'.counts = gen.counts
      /\ gen'.heading = gen.heading /\ gen'.listed = gen.listed
  BY <1>1, <1>2 DEF Locals
<1>4. ReadRight'
  BY <1>1, <1>3, NowKept
  DEF ReadRight, AfterNames, AfterRows, AfterGroups, Complete
<1>5. CountedRight'
  BY <1>1, <1>3 DEF CountedRight, AfterCreate, Complete, Fresh
<1>6. HeadedRight' /\ Fresh'
  BY <1>1, <1>3 DEF HeadedRight, Fresh
<1> QED
  BY <1>4, <1>5, <1>6 DEF QInv

\* The five SELECTs that others may come between.
LEMMA SelectsQInv ==
    ASSUME QInv, GInv', ReadNames \/ ReadRows \/ ReadGroups \/ LookUp
    PROVE  QInv'
<1>1. gen \in Locals /\ Reads /\ gen.pc \in {"names", "rows", "groups", "lookup"}
  BY DEF QInv, GInv, GenTypeOK, ReadNames, ReadRows, ReadGroups, LookUp
<1>2. ASSUME gen'.heading = gen.heading, gen'.listed = gen.listed,
             gen'.pc \notin {"list", "dead"}
      PROVE  gen.quiet => HeadedRight'
  BY <1>1, <1>2 DEF QInv, HeadedRight
<1>3. CASE ReadNames
  <2>1. gen.pc = "names"
        /\ gen' = [gen EXCEPT !.pc = IF gen.summary THEN "line" ELSE "rows",
                              !.names = Covered]
    BY <1>3 DEF ReadNames
  <2>2. /\ gen'.pc \in {"line", "rows"} /\ gen'.names = Covered
        /\ gen'.header = gen.header /\ gen'.counts = gen.counts
        /\ gen'.heading = gen.heading /\ gen'.listed = gen.listed
        /\ gen'.quiet = gen.quiet
    BY <1>1, <2>1 DEF Locals
  <2>3. ~AfterRows' /\ ~AfterGroups' /\ ~AfterCreate'
    BY <2>2 DEF AfterRows, AfterGroups, AfterCreate, Complete
  <2>4. gen'.quiet = gen.quiet /\ (gen.quiet => HeadedRight')
    BY <1>2, <2>2
  <2> QED
    BY <1>1, <2>2, <2>3, <2>4, QuietStep
<1>4. CASE ReadRows
  <2>1. gen.pc = "rows" /\ gen' = [gen EXCEPT !.pc = "groups", !.rows = RowsNow]
    BY <1>4 DEF ReadRows, RowsNow
  <2>2. /\ gen'.pc = "groups" /\ gen'.rows = RowsNow /\ gen'.names = gen.names
        /\ gen'.header = gen.header /\ gen'.counts = gen.counts
        /\ gen'.heading = gen.heading /\ gen'.listed = gen.listed
        /\ gen'.quiet = gen.quiet
    BY <1>1, <2>1 DEF Locals
  <2>3. AfterNames /\ ~AfterGroups' /\ ~AfterCreate'
    BY <2>1, <2>2 DEF AfterNames, AfterGroups, AfterCreate, Complete
  <2>4. gen'.quiet = gen.quiet /\ (gen.quiet => HeadedRight')
    BY <1>2, <2>2
  <2> QED
    BY <1>1, <2>2, <2>3, <2>4, QuietStep
<1>5. CASE ReadGroups
  <2>1. gen.pc = "groups"
        /\ gen' = [gen EXCEPT !.pc = "lookup", !.leaves = LeavesNow]
    BY <1>5 DEF ReadGroups, LeavesNow
  <2>2. /\ gen'.pc = "lookup" /\ gen'.leaves = LeavesNow
        /\ gen'.rows = gen.rows /\ gen'.names = gen.names
        /\ gen'.header = gen.header /\ gen'.counts = gen.counts
        /\ gen'.heading = gen.heading /\ gen'.listed = gen.listed
        /\ gen'.quiet = gen.quiet
    BY <1>1, <2>1 DEF Locals
  <2>3. AfterNames /\ AfterRows /\ ~AfterCreate'
    BY <2>1, <2>2 DEF AfterNames, AfterRows, AfterCreate, Complete
  <2>4. gen'.quiet = gen.quiet /\ (gen.quiet => HeadedRight')
    BY <1>2, <2>2
  <2> QED
    BY <1>1, <2>2, <2>3, <2>4, QuietStep
<1>6. CASE LookUp
  <2>1. gen.pc = "lookup"
        /\ \E f \in Uncounted :
              gen' = [gen EXCEPT !.counts[f] = Cardinality(CasesOf(f))]
    BY <1>6 DEF LookUp
  <2>2. PICK f \in Function :
              gen' = [gen EXCEPT !.counts[f] = Cardinality(CasesOf(f))]
    BY <2>1 DEF Uncounted
  <2>3. gen.counts \in [Function -> Nat \cup {None}]
    BY <1>1 DEF Locals
  <2>4. /\ gen'.pc = "lookup" /\ gen'.leaves = gen.leaves
        /\ gen'.rows = gen.rows /\ gen'.names = gen.names
        /\ gen'.header = gen.header
        /\ gen'.counts = [gen.counts EXCEPT ![f] = Cardinality(CasesOf(f))]
        /\ gen'.heading = gen.heading /\ gen'.listed = gen.listed
        /\ gen'.quiet = gen.quiet
    BY <1>1, <2>1, <2>2 DEF Locals
  <2>5. \A g \in Function :
            gen'.counts[g] \in {gen.counts[g], Cardinality(CasesOf(g))}
    BY <2>3, <2>4
  <2>6. AfterNames /\ AfterRows /\ AfterGroups /\ ~AfterCreate'
    BY <2>1, <2>4 DEF AfterNames, AfterRows, AfterGroups, AfterCreate, Complete
  <2> QED
    BY <1>1, <1>2, <2>1, <2>4, <2>5, <2>6, QuietStep
<1> QED
  BY <1>3, <1>4, <1>5, <1>6

\* A step that reads nothing of what the tables are made of.
LEMMA OtherStepQInv ==
    ASSUME QInv, GInv', Reads, gen.pc # "idle", gen'.pc # "idle",
           gen'.quiet = gen.quiet, gen'.header = gen.header,
           gen'.names = gen.names, gen'.rows = gen.rows,
           gen'.leaves = gen.leaves, gen'.counts = gen.counts,
           AfterNames' => AfterNames, AfterRows' => AfterRows,
           AfterGroups' => AfterGroups,
           AfterCreate' => AfterCreate \/ Uncounted = {},
           gen.quiet => HeadedRight'
    PROVE  QInv'
<1>1. Uncounted' = Uncounted
  BY DEF Uncounted
<1> QED
  BY <1>1, QuietStep

LEMMA WritesQInv ==
    ASSUME QInv, GInv', WriteLine \/ Create \/ WriteFunctions \/ Finish \/ Die
    PROVE  QInv'
<1>1. gen \in Locals /\ Reads
  BY DEF QInv, GInv, GenTypeOK, WriteLine, Create, WriteFunctions, Writes,
         Finish, Die
<1>2. ASSUME gen'.heading = gen.heading, gen'.listed = gen.listed,
             gen'.pc = "dead" \/ (gen'.pc # "list" /\ gen.pc \notin {"list", "dead"})
      PROVE  gen.quiet => HeadedRight'
  BY <1>2 DEF QInv, HeadedRight
<1>3. CASE WriteLine
  <2>1. gen' = [gen EXCEPT !.pc = "done", !.doc = "summary"] /\ gen.pc = "line"
    BY <1>3 DEF WriteLine
  <2>2. /\ gen'.pc = "done" /\ gen'.doc = "summary"
        /\ gen'.quiet = gen.quiet /\ gen'.header = gen.header
        /\ gen'.names = gen.names /\ gen'.rows = gen.rows
        /\ gen'.leaves = gen.leaves /\ gen'.counts = gen.counts
        /\ gen'.heading = gen.heading /\ gen'.listed = gen.listed
    BY <1>1, <2>1 DEF Locals
  <2>3. gen.pc = "line"
    BY <2>1
  <2> QED
    BY <1>1, <1>2, <2>2, <2>3, OtherStepQInv
    DEF AfterNames, AfterRows, AfterGroups, AfterCreate, Complete
<1>4. CASE Create
  <2>1. gen' = [gen EXCEPT !.pc = "write", !.doc = "empty"]
        /\ gen.pc = "lookup" /\ Uncounted = {}
    BY <1>4 DEF Create
  <2>2. /\ gen'.pc = "write"
        /\ gen'.quiet = gen.quiet /\ gen'.header = gen.header
        /\ gen'.names = gen.names /\ gen'.rows = gen.rows
        /\ gen'.leaves = gen.leaves /\ gen'.counts = gen.counts
        /\ gen'.heading = gen.heading /\ gen'.listed = gen.listed
    BY <1>1, <2>1 DEF Locals
  <2>3. gen.pc = "lookup" /\ Uncounted = {}
    BY <2>1
  <2> QED
    BY <1>1, <1>2, <2>2, <2>3, OtherStepQInv
    DEF AfterNames, AfterRows, AfterGroups, AfterCreate, Complete
<1>5. CASE WriteFunctions
  <2>1. PICK to \in {"header", "tables", "functions"} :
            gen' = [gen EXCEPT !.doc = to,
                        !.pc = IF to = "functions" THEN "head" ELSE "write"]
    BY <1>5 DEF WriteFunctions, Writes
  <2>2. gen.pc = "write"
    BY <1>5 DEF WriteFunctions, Writes
  <2>3. /\ gen'.pc \in {"write", "head"}
        /\ gen'.quiet = gen.quiet /\ gen'.header = gen.header
        /\ gen'.names = gen.names /\ gen'.rows = gen.rows
        /\ gen'.leaves = gen.leaves /\ gen'.counts = gen.counts
        /\ gen'.heading = gen.heading /\ gen'.listed = gen.listed
    BY <1>1, <2>1 DEF Locals
  <2> QED
    BY <1>1, <1>2, <2>2, <2>3, OtherStepQInv
    DEF AfterNames, AfterRows, AfterGroups, AfterCreate, Complete
<1>6. CASE Finish \/ Die
  <2>1. PICK to \in {"done", "dead"} :
          /\ gen' = [gen EXCEPT !.pc = to]
          /\ to = "done" => gen.pc = "head"
          /\ gen.pc # "idle"
    BY <1>6 DEF Finish, Die
  <2>2. /\ gen'.pc = to /\ gen'.doc = gen.doc
        /\ gen'.quiet = gen.quiet /\ gen'.header = gen.header
        /\ gen'.names = gen.names /\ gen'.rows = gen.rows
        /\ gen'.leaves = gen.leaves /\ gen'.counts = gen.counts
        /\ gen'.heading = gen.heading /\ gen'.listed = gen.listed
    BY <1>1, <2>1 DEF Locals
  <2> QED
    BY <1>1, <1>2, <2>1, <2>2, OtherStepQInv
    DEF AfterNames, AfterRows, AfterGroups, AfterCreate, Complete
<1> QED
  BY <1>3, <1>4, <1>5, <1>6

\* A section: the heading is read, then the list, and with nobody else at
\* work they agree.
LEMMA SectionsQInv ==
    ASSUME QInv, GInv', HeadSection \/ ListSection
    PROVE  QInv'
<1> DEFINE t == Sections[gen.at]
<1>1. gen \in Locals /\ Reads /\ gen.pc \in {"head", "list"} /\ entities' = entities
  BY DEF QInv, GInv, GenTypeOK, HeadSection, ListSection, Reads
<1>2. gen.heading \in [Table -> Nat] /\ gen.listed \in [Table -> Nat]
  BY <1>1 DEF Locals
<1>3. ASSUME gen'.pc \in {"head", "list"},
             gen'.quiet = gen.quiet, gen'.header = gen.header,
             gen'.names = gen.names, gen'.rows = gen.rows,
             gen'.leaves = gen.leaves, gen'.counts = gen.counts,
             gen.quiet => HeadedRight'
      PROVE  QInv'
  BY <1>1, <1>3, OtherStepQInv
  DEF AfterNames, AfterRows, AfterGroups, AfterCreate, Complete
<1>4. CASE HeadSection /\ entities[t] \in {None, 0}
  <2>1. gen' = [gen EXCEPT !.at = gen.at + 1] /\ gen.pc = "head"
    BY <1>4 DEF HeadSection
  <2>2. /\ gen'.pc = "head"
        /\ gen'.quiet = gen.quiet /\ gen'.header = gen.header
        /\ gen'.names = gen.names /\ gen'.rows = gen.rows
        /\ gen'.leaves = gen.leaves /\ gen'.counts = gen.counts
        /\ gen'.heading = gen.heading /\ gen'.listed = gen.listed
    BY <1>1, <2>1 DEF Locals
  <2>3. gen.quiet => HeadedRight'
    BY <2>1, <2>2 DEF QInv, HeadedRight
  <2> QED
    BY <1>3, <2>2, <2>3
<1>5. CASE HeadSection /\ entities[t] \notin {None, 0}
  <2>1. gen' = [gen EXCEPT !.pc = "list", !.heading[t] = entities[t]]
        /\ gen.pc = "head" /\ gen.at \in DOMAIN Sections
    BY <1>5 DEF HeadSection
  <2>2. t \in Table
    BY <2>1 DEF Table
  <2>3. /\ gen'.pc = "list" /\ gen'.at = gen.at
        /\ gen'.quiet = gen.quiet /\ gen'.header = gen.header
        /\ gen'.names = gen.names /\ gen'.rows = gen.rows
        /\ gen'.leaves = gen.leaves /\ gen'.counts = gen.counts
        /\ gen'.heading = [gen.heading EXCEPT ![t] = entities[t]]
        /\ gen'.listed = gen.listed
    BY <1>1, <2>1 DEF Locals
  <2>4. gen.quiet => HeadedRight'
    BY <1>1, <1>2, <2>1, <2>2, <2>3 DEF QInv, HeadedRight
  <2> QED
    BY <1>3, <2>3, <2>4
<1>6. CASE ListSection
  <2>1. gen' = [gen EXCEPT !.pc = "head", !.at = gen.at + 1,
                           !.listed[t] = entities[t]]
        /\ gen.pc = "list"
    BY <1>6 DEF ListSection
  <2>2. /\ gen'.pc = "head"
        /\ gen'.quiet = gen.quiet /\ gen'.header = gen.header
        /\ gen'.names = gen.names /\ gen'.rows = gen.rows
        /\ gen'.leaves = gen.leaves /\ gen'.counts = gen.counts
        /\ gen'.heading = gen.heading
        /\ gen'.listed = [gen.listed EXCEPT ![t] = entities[t]]
    BY <1>1, <2>1 DEF Locals
  <2>3. ASSUME gen.quiet PROVE gen.heading = [gen.listed EXCEPT ![t] = entities[t]]
    <3>1. /\ t \in Table /\ gen.heading[t] = entities[t]
          /\ \A u \in Table : u # t => gen.heading[u] = gen.listed[u]
      BY <2>1, <2>3 DEF QInv, HeadedRight, Table
    <3> QED
      BY <1>2, <3>1
  <2>4. gen.quiet => HeadedRight'
    BY <2>2, <2>3 DEF HeadedRight
  <2> QED
    BY <1>3, <2>2, <2>4
<1> QED
  BY <1>4, <1>5, <1>6

LEMMA InitQInv == GenInit => QInv
<1> SUFFICES ASSUME GenInit PROVE QInv
  OBVIOUS
<1>1. /\ gen.pc = "idle" /\ gen.quiet
      /\ gen.counts = [f \in Function |-> None]
      /\ gen.heading = gen.listed
  BY DEF GenInit
<1>2. Fresh
  BY <1>1 DEF Fresh
<1>3. ReadRight /\ CountedRight /\ HeadedRight
  BY <1>1 DEF ReadRight, CountedRight, HeadedRight, AfterNames, AfterRows,
              AfterGroups, AfterCreate, Complete
<1> QED
  BY <1>2, <1>3, InitGInv DEF QInv

LEMMA StepQInv == QInv /\ [GenNext]_genVars => QInv'
<1> SUFFICES ASSUME QInv, [GenNext]_genVars PROVE QInv'
  OBVIOUS
<1>1. GInv'
  BY StepGInv DEF QInv
<1>2. CASE Generate \/ Die
  BY <1>1, <1>2, StartQInv, SelectsQInv, WritesQInv, SectionsQInv DEF Generate
<1>3. CASE WriteCases \/ SetStatus \/ AddEntity
  BY <1>1, <1>3, WritersQInv
<1>4. CASE UNCHANGED genVars
  <2>1. Reads /\ gen' = gen
    BY <1>4 DEF genVars, Reads
  <2>2. Fresh' /\ Uncounted' = Uncounted
    BY <2>1 DEF QInv, Fresh, Uncounted
  <2>3. ReadRight => ReadRight'
    BY <2>1, NowKept DEF ReadRight, AfterNames, AfterRows, AfterGroups, Complete
  <2>4. CountedRight => CountedRight'
    BY <2>1, <2>2, NowKept DEF CountedRight, AfterCreate, Complete
  <2>5. HeadedRight => HeadedRight'
    BY <2>1, NowKept DEF HeadedRight
  <2> QED
    BY <1>1, <2>1, <2>2, <2>3, <2>4, <2>5 DEF QInv
<1> QED
  BY <1>2, <1>3, <1>4 DEF GenNext

\* Grouped by the second SELECT, a function is in a table.
LEMMA GroupedInTables ==
    ASSUME gen \in Locals, NEW f \in Function, gen.leaves[f] # None
    PROVE  InTables(f)
<1>1. gen.leaves[f] \in SUBSET Leaf
  BY DEF Locals
<1>2. CASE gen.leaves[f] = {}
  BY <1>2 DEF InTables, LeafTable
<1>3. CASE gen.leaves[f] # {}
  <2>1. PICK leaf \in Leaf : leaf \in gen.leaves[f]
    BY <1>1, <1>3
  <2> QED
    BY <2>1 DEF InTables, LeafTable
<1> QED
  BY <1>2, <1>3

\* What an undisturbed document is made of.
LEMMA QuietParts ==
    ASSUME QInv, Complete, gen.quiet
    PROVE  /\ gen.header = StatusCounts /\ gen.names = Covered
           /\ gen.heading = gen.listed
           /\ \A f \in Function : gen.rows[f] = RowsNow[f]
           /\ \A f \in Function : gen.leaves[f] = LeavesNow[f]
           /\ \A f \in Function : InTables(f) <=> f \in Covered
           /\ \A f \in Function :
                 f \in Uncovered <=> scalars[f] # None /\ f \notin Covered
<1>1. ReadRight /\ HeadedRight /\ gen.pc = "done" /\ gen \in Locals
      /\ AfterNames /\ AfterRows /\ AfterGroups
  BY DEF QInv, GInv, GenTypeOK, Complete, AfterNames, AfterRows, AfterGroups
<1>2. gen.header = StatusCounts /\ gen.names = Covered
      /\ gen.rows = RowsNow /\ gen.leaves = LeavesNow
      /\ gen.heading = gen.listed
  BY <1>1 DEF ReadRight, HeadedRight
<1>3. ASSUME NEW f \in Function PROVE InTables(f) <=> f \in Covered
  <2>1. LeavesOf(f) # None
    BY LeavesTyped, TagsAreNoNull DEF Tag
  <2>2. gen.leaves[f] # None <=> f \in Covered
    BY <1>2, <2>1 DEF LeavesNow, Covered
  <2>3. InTables(f) => gen.leaves[f] # None
    BY DEF InTables, LeafTable
  <2> QED
    BY <1>1, <2>2, <2>3, GroupedInTables
<1>4. ASSUME NEW f \in Function
      PROVE  f \in Uncovered <=> scalars[f] # None /\ f \notin Covered
  <2>1. CASE scalars[f] = None
    <3>1. gen.rows[f] = None
      BY <1>2, <2>1 DEF RowsNow
    <3> QED
      BY <2>1, <3>1 DEF Uncovered
  <2>2. CASE scalars[f] # None
    <3>1. gen.rows[f] = [status |-> scalars[f], cases |-> Cardinality(CasesOf(f))]
      BY <1>2, <2>2 DEF RowsNow
    <3>2. scalars[f] \in Status /\ Cardinality(CasesOf(f)) \in Nat
      BY <2>2, Counts DEF QInv, GInv, GenTypeOK
    <3>3. gen.rows[f] # None
      BY <3>1, <3>2, NoFnRowAssumption DEF FnRow
    <3>4. gen.rows[f].cases = 0 <=> f \notin Covered
      BY <3>1, Counts
    <3> QED
      BY <2>2, <3>3, <3>4 DEF Uncovered
  <2> QED
    BY <2>1, <2>2
<1> QED
  BY <1>2, <1>3, <1>4

LEMMA QInvAddsUp == QInv => QuietReportAddsUp
<1> SUFFICES ASSUME QInv, Complete, gen.quiet PROVE QuietReportAddsUp
  BY DEF QuietReportAddsUp
<1>1. scalars \in [Function -> Status \cup {None}]
  BY DEF QInv, GInv, GenTypeOK
<1>2. ASSUME NEW s \in Status
      PROVE  gen.header[s] =
                Cardinality({f \in Function :
                    /\ InTables(f) \/ f \in Uncovered
                    /\ gen.rows[f] # None /\ gen.rows[f].status = s})
  <2>1. s # None
    BY CataloguesAssumption
  <2>2. ASSUME NEW f \in Function
        PROVE  (/\ InTables(f) \/ f \in Uncovered
                /\ gen.rows[f] # None /\ gen.rows[f].status = s)
                  <=> scalars[f] = s
    <3>1. CASE scalars[f] = None
      BY <2>1, <3>1, QuietParts DEF RowsNow
    <3>2. CASE scalars[f] # None
      <4>1. gen.rows[f]
              = [status |-> scalars[f], cases |-> Cardinality(CasesOf(f))]
        BY <3>2, QuietParts DEF RowsNow
      <4>2. gen.rows[f] # None
        BY <1>1, <3>2, <4>1, Counts, NoFnRowAssumption DEF FnRow
      <4>3. InTables(f) \/ f \in Uncovered
        BY <3>2, QuietParts
      <4> QED
        BY <4>1, <4>2, <4>3
    <3> QED
      BY <3>1, <3>2
  <2>3. {f \in Function :
            /\ InTables(f) \/ f \in Uncovered
            /\ gen.rows[f] # None /\ gen.rows[f].status = s}
          = {f \in Function : scalars[f] = s}
    BY <2>2
  <2> QED
    BY <2>3, QuietParts DEF StatusCounts
<1>3. {f \in Function : InTables(f) /\ gen.rows[f] # None} \subseteq gen.names
  BY QuietParts DEF Covered
<1>4. \A f \in gen.names : InTables(f) /\ f \notin Uncovered
  BY QuietParts DEF Covered
<1>5. gen.heading = gen.listed
  BY QuietParts
<1> QED
  BY <1>2, <1>3, <1>4, <1>5 DEF QuietReportAddsUp

(***************************************************************************)
(* While nobody else writes, the parts of a finished document agree: the   *)
(* status counts split the scalar rows shown, the coverage line counts     *)
(* every scalar in the tables and nothing outside them, no function it     *)
(* counts is uncovered, every heading states the number of its rows.       *)
(* (QuietReportAddsUp, main.rs:92-97, 139-226, 318-364)                    *)
(***************************************************************************)
THEOREM QuietDocumentAddsUp == GenSpec => []QuietReportAddsUp
BY InitQInv, StepQInv, QInvAddsUp, PTL DEF GenSpec

LEMMA QInvMatches == QInv => DocumentMatchesCoverage
<1> SUFFICES ASSUME QInv, Complete, gen.quiet PROVE DocumentMatchesCoverage
  BY DEF DocumentMatchesCoverage
<1>1. ASSUME NEW line \in Leaf \cup {"<untagged>"}
      PROVE  LET charged == {FnOf[c] : c \in {d \in Present : line \in LinesOf(d)}}
             IN  LeafTable(line) =
                    IF line = "<untagged>"
                    THEN {f \in charged : LeavesOf(f) = {}} ELSE charged
  <2> DEFINE charged == {FnOf[c] : c \in {d \in Present : line \in LinesOf(d)}}
  <2>1. \A f \in Function : gen.leaves[f] # None <=> f \in Covered
    BY QuietParts, LeavesTyped, TagsAreNoNull DEF LeavesNow, Covered, Tag
  <2>2. \A f \in Covered : gen.leaves[f] = LeavesOf(f)
    BY QuietParts DEF LeavesNow, Covered
  <2>3. LeafTable(line) =
          {f \in Covered : \/ line \in LeavesOf(f)
                           \/ line = "<untagged>" /\ LeavesOf(f) = {}}
    BY <2>1, <2>2 DEF LeafTable, Covered
  <2>4. \A f \in Function :
            f \in charged <=> \E c \in CasesOf(f) : line \in LinesOf(c)
    BY CatalogueAssumption DEF CasesOf, Present
  <2>5. charged \subseteq Function
    BY CatalogueAssumption DEF Present
  <2>6. CASE line = "<untagged>"
    <3>1. \A f \in Function : line \notin LeavesOf(f)
      BY <2>6, LeafNamesAssumption, LeavesTyped
    <3>2. ASSUME NEW f \in Function, LeavesOf(f) = {}
          PROVE  f \in charged <=> f \in Covered
      <4>1. \A c \in CasesOf(f) : cases[c] \cap Leaf = {}
        BY <3>2 DEF LeavesOf
      <4>2. \A c \in CasesOf(f) : line \in LinesOf(c)
        BY <2>6, <4>1 DEF LinesOf
      <4> QED
        BY <2>4, <4>2 DEF Covered
    <3>3. LeafTable(line) = {f \in charged : LeavesOf(f) = {}}
      BY <2>3, <2>5, <2>6, <3>1, <3>2 DEF Covered
    <3> QED
      BY <2>6, <3>3
  <2>7. CASE line # "<untagged>"
    <3>1. line \in Leaf
      BY <2>7
    <3>2. \A c \in Case : line \in LinesOf(c) <=> line \in cases[c] \cap Leaf
      BY <2>7, <3>1 DEF LinesOf
    <3>3. \A f \in Function : line \in LeavesOf(f) <=> f \in charged
      BY <2>4, <3>1, <3>2 DEF LeavesOf, CasesOf, Present
    <3>4. charged \subseteq Covered
      BY <2>4, <2>5 DEF Covered
    <3>5. LeafTable(line) = charged
      BY <2>3, <2>5, <2>7, <3>3, <3>4 DEF Covered
    <3> QED
      BY <2>7, <3>5
  <2> QED
    BY <2>6, <2>7
<1>2. ASSUME NEW f \in gen.names
      PROVE  ShownCount(f) = ByFunction[f].cases
  <2>1. f \in Covered /\ f \in Function
    BY QuietParts DEF Covered
  <2>2. ByFunction[f].cases = Cardinality(CasesOf(f))
    <3>1. f \in {FnOf[c] : c \in Present}
      BY <2>1 DEF Covered, CasesOf
    <3> QED
      BY <3>1 DEF ByFunction, CasesOf
  <2>3. CASE scalars[f] # None
    <3>1. gen.rows[f] = [status |-> scalars[f], cases |-> Cardinality(CasesOf(f))]
      BY <2>1, <2>3, QuietParts DEF RowsNow
    <3>2. scalars[f] \in Status
      BY <2>1, <2>3 DEF QInv, GInv, GenTypeOK
    <3>3. gen.rows[f] # None
      BY <2>1, <3>1, <3>2, Counts, NoFnRowAssumption DEF FnRow
    <3> QED
      BY <2>2, <3>1, <3>3 DEF ShownCount
  <2>4. CASE scalars[f] = None
    <3>1. gen.rows[f] = None
      BY <2>1, <2>4, QuietParts DEF RowsNow
    <3>2. gen.leaves[f] # None
      BY <2>1, QuietParts, LeavesTyped, TagsAreNoNull DEF LeavesNow, Covered, Tag
    <3>3. Uncounted = {} /\ gen.counts[f] \in {None, Cardinality(CasesOf(f))}
      BY <2>1 DEF QInv, CountedRight, AfterCreate
    <3>4. gen.counts[f] = Cardinality(CasesOf(f))
      BY <2>1, <3>1, <3>2, <3>3 DEF Uncounted
    <3> QED
      BY <2>2, <3>1, <3>4 DEF ShownCount
  <2> QED
    BY <2>3, <2>4
<1>3. ASSUME NEW s \in Status
      PROVE  gen.header[s] = IF s \in DOMAIN Histogram THEN Histogram[s] ELSE 0
  <2>1. gen.header[s] = Cardinality({f \in Function : scalars[f] = s})
    BY QuietParts DEF StatusCounts
  <2>2. CASE s \in DOMAIN Histogram
    BY <2>1, <2>2 DEF Histogram
  <2>3. CASE s \notin DOMAIN Histogram
    <3>1. s # None
      BY CataloguesAssumption
    <3>2. s \notin {scalars[f] : f \in Function}
      BY <2>3, <3>1 DEF Histogram
    <3>3. {f \in Function : scalars[f] = s} = {}
      BY <3>2
    <3> QED
      BY <2>1, <2>3, <3>3, FS_EmptySet
  <2> QED
    BY <2>2, <2>3
<1> QED
  BY <1>1, <1>2, <1>3 DEF DocumentMatchesCoverage

(***************************************************************************)
(* While nobody else writes, the document and `test-fn coverage` tell the  *)
(* same of the database: leaf tables and charged cases, the count of each  *)
(* function's cases, status line and histogram.  (DocumentMatchesCoverage, *)
(* main.rs:532-608, db.rs:330-467, 534-565, 588-613)                       *)
(***************************************************************************)
THEOREM DocumentIsTheReport == GenSpec => []DocumentMatchesCoverage
BY InitQInv, StepQInv, QInvMatches, PTL DEF GenSpec

-----------------------------------------------------------------------------
(* The reports.                                                            *)

\* An import gives a case one leaf, a seeded case has none.
OneLeaf == \A c \in Present : \A k, l \in cases[c] \cap Leaf : k = l

LEMMA NextOneLeaf ==
    ASSUME TypeOK, OneLeaf, Next
    PROVE  OneLeaf'
<1> PICK c \in Case : Import(c) \/ Reseed(c) \/ \E s \in RunStatus : Record(c, s)
  BY DEF Next
<1> SUFFICES ASSUME NEW d \in Case, cases'[d] # None,
                    NEW k \in cases'[d] \cap Leaf, NEW l \in cases'[d] \cap Leaf
             PROVE  k = l
  BY DEF OneLeaf, Present
<1>1. CASE d # c \/ \E s \in RunStatus : Record(c, s)
  <2>1. cases'[d] = cases[d]
    BY <1>1 DEF Import, Reseed, Record, TypeOK, CaseTable
  <2> QED
    BY <2>1 DEF OneLeaf, Present
<1>2. CASE d = c /\ Reseed(c)
  BY <1>2 DEF Reseed, TypeOK, CaseTable
<1>3. CASE d = c /\ Import(c)
  <2>1. PICK leaf \in LeafTags, marks \in SUBSET {"pg_only", "fixture_bad"} :
            cases' = [cases EXCEPT ![c] = leaf \cup marks]
    BY <1>3 DEF Import
  <2>2. cases'[d] = leaf \cup marks
    BY <1>3, <2>1 DEF TypeOK, CaseTable
  <2>3. PICK tag \in Leaf : leaf = {tag}
    BY DEF LeafTags
  <2>4. marks \cap Leaf = {}
    BY LeafNamesAssumption
  <2> QED
    BY <2>2, <2>3, <2>4
<1> QED
  BY <1>1, <1>2, <1>3

LEMMA StepOneLeaf ==
    ASSUME GInv, OneLeaf, [GenNext]_genVars
    PROVE  OneLeaf'
<1>1. CASE UNCHANGED cases
  BY <1>1 DEF OneLeaf, Present
<1>2. CASE Next
  BY <1>2, NextOneLeaf DEF GInv
<1>3. (UNCHANGED cases) \/ Next
  BY DEF GenNext, genVars, Generate, Start, ReadNames, WriteLine, ReadRows,
         ReadGroups, LookUp, Create, WriteFunctions, Writes, HeadSection,
         ListSection, Finish, Die, WriteCases, SetStatus, AddEntity, Reads
<1> QED
  BY <1>1, <1>2, <1>3

\* A case is charged to one line.
LEMMA OneLine ==
    ASSUME OneLeaf, NEW c \in Present
    PROVE  \E line \in Leaf \cup {"<untagged>"} : LinesOf(c) = {line}
<1>1. CASE cases[c] \cap Leaf = {}
  BY <1>1 DEF LinesOf
<1>2. CASE cases[c] \cap Leaf # {}
  <2>1. PICK l \in cases[c] \cap Leaf : TRUE
    BY <1>2
  <2>2. LinesOf(c) = cases[c] \cap Leaf
    BY <1>2 DEF LinesOf
  <2>3. \A k \in cases[c] \cap Leaf : k = l
    BY DEF OneLeaf
  <2> QED
    BY <2>1, <2>2, <2>3
<1> QED
  BY <1>1, <1>2

LEMMA PresentFinite ==
    ASSUME NEW C, C \subseteq Present
    PROVE  IsFiniteSet(C) /\ Cardinality(C) \in Nat
<1>1. C \in SUBSET Case /\ IsFiniteSet(Case)
  BY LeafNamesAssumption DEF Present
<1> QED
  BY <1>1, FS_Subset, FS_CardinalityType

\* A cell counts cases.
LEMMA CellCounts ==
    ASSUME NEW flags, NEW line, NEW col \in Column
    PROVE  Cell(flags, line, col) =
             Cardinality({c \in Present : line \in LinesOf(c)
                                          /\ Charge(c, flags)[col] = 1})
<1> DEFINE charged == {c \in Present : line \in LinesOf(c)}
           w == [c \in charged |-> Charge(c, flags)[col]]
<1>1. \A c : Charge(c, flags)[col] \in {0, 1}
  BY DEF Charge, Column, Count
<1>2. IsFiniteSet(charged)
  BY PresentFinite
<1> HIDE DEF charged
<1>3. w \in [charged -> {0, 1}]
  BY <1>1
<1>4. SumFunction(w) = Cardinality({c \in charged : w[c] = 1})
  <2> HIDE DEF w
  <2> QED
    BY <1>2, <1>3, SumOfMarks
<1>5. {c \in charged : w[c] = 1} =
        {c \in Present : line \in LinesOf(c) /\ Charge(c, flags)[col] = 1}
  BY DEF charged
<1>6. Cell(flags, line, col) = SumFunction(w)
  BY DEF Cell, charged
<1> HIDE DEF w
<1> QED
  BY <1>4, <1>5, <1>6

LEMMA BacklogCounted == BacklogRegardless
<1> SUFFICES ASSUME NEW flags \in Flags, NEW line \in Leaf \cup {"<untagged>"}
             PROVE  Cell(flags, line, "fixture_bad") =
                      Cardinality({c \in Present : line \in LinesOf(c)
                                        /\ HasTag(cases, c, "fixture_bad")})
  BY DEF BacklogRegardless
<1>1. \A c : Charge(c, flags)["fixture_bad"] = 1
                <=> HasTag(cases, c, "fixture_bad")
  BY DEF Charge, Count
<1>2. "fixture_bad" \in Column
  BY DEF Column
<1>3. Cell(flags, line, "fixture_bad") =
        Cardinality({c \in Present : line \in LinesOf(c)
                                 /\ Charge(c, flags)["fixture_bad"] = 1})
  BY <1>2, CellCounts
<1> QED
  BY <1>1, <1>3

\* What a batch of the leaf executes, and of each leaf its pattern takes in.
BatchOf(leaf) ==
    {c \in LoadCasesByLeaf(cases, leaf) : ~HasTag(cases, c, "fixture_bad")}

InBatch(c) ==
    c \in Present /\ ~HasTag(cases, c, "pg_only")
                  /\ ~HasTag(cases, c, "fixture_bad")

Ran(c) == \E s \in RunStatus : <<c, s>> \in runs

\* The default report charges to a leaf the cases of it that a batch runs.
LEMMA PlainCells ==
    ASSUME NEW leaf \in Leaf
    PROVE  /\ Cell(Plain, leaf, "cases") =
                Cardinality({c \in Present : leaf \in cases[c] /\ InBatch(c)})
           /\ Cell(Plain, leaf, "untested") =
                Cardinality({c \in Present : leaf \in cases[c] /\ InBatch(c)
                                             /\ ~Ran(c)})
<1>1. \A c \in Present : leaf \in LinesOf(c) <=> leaf \in cases[c]
  BY LeafNamesAssumption DEF LinesOf
<1>2. \A c \in Present : Charge(c, Plain)["cases"] = 1 <=> InBatch(c)
  BY DEF Charge, Count, InRollup, Plain, InBatch
<1>3. \A c \in Present :
        Charge(c, Plain)["untested"] = 1 <=> InBatch(c) /\ ~Ran(c)
  BY DEF Charge, Count, InRollup, Plain, InBatch, Ran, RunStatus,
         Passed, Failed
<1>4. "cases" \in Column /\ "untested" \in Column
  BY DEF Column
<1>5. /\ Cell(Plain, leaf, "cases") =
            Cardinality({c \in Present : leaf \in LinesOf(c)
                             /\ Charge(c, Plain)["cases"] = 1})
      /\ Cell(Plain, leaf, "untested") =
            Cardinality({c \in Present : leaf \in LinesOf(c)
                             /\ Charge(c, Plain)["untested"] = 1})
  BY <1>4, CellCounts
<1>6. /\ {c \in Present : leaf \in LinesOf(c)
                             /\ Charge(c, Plain)["cases"] = 1} =
         {c \in Present : leaf \in cases[c] /\ InBatch(c)}
      /\ {c \in Present : leaf \in LinesOf(c)
                             /\ Charge(c, Plain)["untested"] = 1} =
         {c \in Present : leaf \in cases[c] /\ InBatch(c) /\ ~Ran(c)}
  BY <1>1, <1>2, <1>3
<1> QED
  BY <1>5, <1>6

\* Where every case has one leaf, the cells of the leaves that a batch takes
\* in divide the cases that it runs among them.
LEMMA BatchCounted ==
    ASSUME OneLeaf, NEW leaf \in Leaf
    PROVE  SumFunction([l \in Alike[leaf] |-> Cell(Plain, l, "cases")]) =
             Cardinality(BatchOf(leaf))
<1> DEFINE batch == BatchOf(leaf)
           f == [c \in batch |-> CHOOSE l \in Alike[leaf] : l \in cases[c]]
           w == [l \in Alike[leaf] |-> Cell(Plain, l, "cases")]
<1>1. Alike[leaf] \in SUBSET Leaf /\ IsFiniteSet(Alike[leaf])
  <2>1. Alike[leaf] \in SUBSET Leaf /\ IsFiniteSet(Leaf)
    BY CatalogueAssumption, LeafNamesAssumption
  <2> QED
    BY <2>1, FS_Subset
<1>2. \A c : c \in batch <=>
        InBatch(c) /\ \E l \in Alike[leaf] : l \in cases[c]
  BY DEF BatchOf, LoadCasesByLeaf, InBatch, HasTag, Present
<1>3. \A c \in batch : f[c] \in Alike[leaf] /\ f[c] \in cases[c]
  BY <1>2
<1>4. ASSUME NEW l \in Alike[leaf]
      PROVE  {c \in Present : l \in cases[c] /\ InBatch(c)} =
             {c \in batch : f[c] = l}
  <2>1. ASSUME NEW c \in Present, l \in cases[c], InBatch(c)
        PROVE  c \in batch /\ f[c] = l
    <3>1. c \in batch
      BY <1>2, <2>1
    <3> HIDE DEF f, batch
    <3> QED
      BY <1>1, <1>3, <2>1, <3>1 DEF OneLeaf
  <2>2. ASSUME NEW c \in batch, f[c] = l
        PROVE  c \in Present /\ l \in cases[c] /\ InBatch(c)
    <3> HIDE DEF f, batch
    <3> QED
      BY <1>2, <1>3, <2>2 DEF InBatch
  <2> HIDE DEF f, batch
  <2> QED
    BY <2>1, <2>2
<1>5. f \in [batch -> Alike[leaf]]
  BY <1>3
<1>6. IsFiniteSet(batch)
  <2>1. batch \subseteq Present
    BY <1>2 DEF InBatch
  <2> QED
    BY <2>1, PresentFinite
<1>7. w = [l \in Alike[leaf] |-> Cardinality({c \in batch : f[c] = l})]
  <2>1. \A l \in Alike[leaf] :
            Cell(Plain, l, "cases") = Cardinality({c \in batch : f[c] = l})
    <3> SUFFICES ASSUME NEW l \in Alike[leaf]
                 PROVE  Cell(Plain, l, "cases") =
                          Cardinality({c \in batch : f[c] = l})
      OBVIOUS
    <3> HIDE DEF f, batch
    <3> QED
      BY <1>1, <1>4, PlainCells
  <2> HIDE DEF f, batch
  <2> QED
    BY <2>1
<1> HIDE DEF f, batch, w
<1>8. SumFunction(w) = Cardinality(batch)
  BY <1>1, <1>5, <1>6, <1>7, SumOfShares
<1> QED
  BY <1>8 DEF w, batch

LEMMA BatchUntested ==
    ASSUME NEW leaf \in Leaf
    PROVE  SumFunction([l \in Alike[leaf] |-> Cell(Plain, l, "untested")]) = 0
             <=> \A c \in BatchOf(leaf) : Ran(c)
<1> DEFINE w == [l \in Alike[leaf] |-> Cell(Plain, l, "untested")]
           Idle(l) ==
             {c \in Present : l \in cases[c] /\ InBatch(c) /\ ~Ran(c)}
<1>1. Alike[leaf] \in SUBSET Leaf /\ IsFiniteSet(Alike[leaf])
  <2>1. Alike[leaf] \in SUBSET Leaf /\ IsFiniteSet(Leaf)
    BY CatalogueAssumption, LeafNamesAssumption
  <2> QED
    BY <2>1, FS_Subset
<1>2. ASSUME NEW l \in Alike[leaf]
      PROVE  w[l] \in Nat /\ (w[l] = 0 <=> Idle(l) = {})
  <2>1. w[l] = Cardinality(Idle(l))
    BY <1>1, PlainCells
  <2>2. IsFiniteSet(Idle(l)) /\ Cardinality(Idle(l)) \in Nat
    BY PresentFinite
  <2> HIDE DEF w, Idle
  <2> QED
    BY <2>1, <2>2, FS_EmptySet
<1>3. w \in [Alike[leaf] -> Nat]
  BY <1>2
<1>4. SumFunction(w) = 0 <=> \A l \in Alike[leaf] : w[l] = 0
  <2> HIDE DEF w
  <2> QED
    BY <1>1, <1>3, SumOfNumbers
<1>5. SumFunction(w) = 0 <=> \A l \in Alike[leaf] : Idle(l) = {}
  <2> HIDE DEF w, Idle
  <2> QED
    BY <1>2, <1>4
<1>6. (\A l \in Alike[leaf] : Idle(l) = {}) <=> \A c \in BatchOf(leaf) : Ran(c)
  BY DEF BatchOf, LoadCasesByLeaf, InBatch, HasTag, Present
<1> HIDE DEF Idle
<1> QED
  BY <1>5, <1>6

LEMMA BatchReported ==
    ASSUME OneLeaf
    PROVE  ReportIsOfTheBatch
BY BatchCounted, BatchUntested DEF ReportIsOfTheBatch, BatchOf, Ran

AllShown == [pgOnly |-> TRUE, fixtureBad |-> TRUE]

\* The cases that both axes count in a column.
Tally(col) ==
    {c \in Present : \/ col = "cases"
                     \/ col = "pass" /\ Passed(c)
                     \/ col = "fail" /\ Failed(c) /\ ~Passed(c)}

\* The lines divide the cases, each being charged to one.
LEMMA LeafAxis ==
    ASSUME OneLeaf, NEW col \in {"cases", "pass", "fail"}
    PROVE  Total(ByLeaf(AllShown), col) = Cardinality(Tally(col))
<1> DEFINE lines == UNION {LinesOf(c) : c \in Present}
           C == Tally(col)
           f == [c \in C |-> CHOOSE l : l \in LinesOf(c)]
           w == [l \in lines |-> Cell(AllShown, l, col)]
<1>1. lines \subseteq Leaf \cup {"<untagged>"}
  BY DEF LinesOf
<1>2. IsFiniteSet(lines)
  <2>1. IsFiniteSet(Leaf \cup {"<untagged>"})
    BY LeafNamesAssumption, FS_AddElement
  <2> HIDE DEF lines
  <2> QED
    BY <1>1, <2>1, FS_Subset
<1>3. C \subseteq Present
  BY DEF Tally
<1>4. \A c \in C : f[c] \in lines /\ LinesOf(c) = {f[c]}
  <2> SUFFICES ASSUME NEW c \in C
               PROVE  f[c] \in lines /\ LinesOf(c) = {f[c]}
    OBVIOUS
  <2>1. PICK line : LinesOf(c) = {line}
    BY <1>3, OneLine
  <2>2. f[c] = line
    <3>1. f[c] = CHOOSE l : l \in LinesOf(c)
      OBVIOUS
    <3>2. (CHOOSE l : l \in LinesOf(c)) \in LinesOf(c)
      BY <2>1
    <3> HIDE DEF f
    <3> QED
      BY <2>1, <3>1, <3>2
  <2>3. line \in lines
    BY <1>3, <2>1
  <2> QED
    BY <2>1, <2>2, <2>3
<1>5. f \in [C -> lines]
  BY <1>4
<1>6. \A c \in Present : Charge(c, AllShown)[col] = 1 <=> c \in C
  BY DEF Charge, Count, InRollup, AllShown, Tally
<1>7. ASSUME NEW l \in lines
      PROVE  Cell(AllShown, l, col) = Cardinality({c \in C : f[c] = l})
  <2>1. col \in Column
    BY DEF Column
  <2>2. Cell(AllShown, l, col) =
          Cardinality({c \in Present : l \in LinesOf(c)
                                       /\ Charge(c, AllShown)[col] = 1})
    BY <2>1, CellCounts
  <2>3. {c \in Present : l \in LinesOf(c) /\ Charge(c, AllShown)[col] = 1} =
        {c \in C : f[c] = l}
    <3> HIDE DEF C, f
    <3> QED
      BY <1>3, <1>4, <1>6
  <2> QED
    BY <2>2, <2>3
<1>8. w = [l \in lines |-> Cardinality({c \in C : f[c] = l})]
  <2> HIDE DEF C, f, lines
  <2> QED
    BY <1>7
<1>9. IsFiniteSet(C)
  BY <1>3, PresentFinite
<1>10. SumFunction(w) = Cardinality(C)
  <2> HIDE DEF C, f, lines, w
  <2> QED
    BY <1>2, <1>5, <1>8, <1>9, SumOfShares
<1>11. Total(ByLeaf(AllShown), col) = SumFunction(w)
  <2> DEFINE shown == ByLeaf(AllShown)
  <2>1. DOMAIN shown = lines
    BY DEF ByLeaf
  <2>2. \A l \in lines : shown[l][col] = Cell(AllShown, l, col)
    BY DEF ByLeaf, Column
  <2> HIDE DEF shown, lines
  <2>3. [l \in DOMAIN shown |-> shown[l][col]] = w
    BY <2>1, <2>2
  <2>4. Total(shown, col) = SumFunction([l \in DOMAIN shown |-> shown[l][col]])
    BY DEF Total
  <2> QED
    BY <2>3, <2>4 DEF shown
<1> QED
  BY <1>10, <1>11

\* The functions divide the cases.
LEMMA FunctionAxis ==
    ASSUME NEW col \in {"cases", "pass", "fail"}
    PROVE  Total(ByFunction, col) = Cardinality(Tally(col))
<1> DEFINE fns == {FnOf[c] : c \in Present}
           C == Tally(col)
           f == [c \in C |-> FnOf[c]]
           w == [g \in fns |-> Cardinality({c \in C : f[c] = g})]
<1>1. IsFiniteSet(fns)
  <2>1. fns \in SUBSET Function
    BY CatalogueAssumption DEF Present
  <2> HIDE DEF fns
  <2> QED
    BY <2>1, CataloguesAssumption, FS_Subset
<1>2. C \subseteq Present
  BY DEF Tally
<1>3. f \in [C -> fns]
  BY <1>2
<1>4. IsFiniteSet(C)
  BY <1>2, PresentFinite
<1>5. SumFunction(w) = Cardinality(C)
  <2> HIDE DEF C, f, fns
  <2> QED
    BY <1>1, <1>3, <1>4, SumOfShares
<1>6. ASSUME NEW g \in fns
      PROVE  ByFunction[g][col] = Cardinality({c \in C : f[c] = g})
  <2> DEFINE own == {c \in Present : FnOf[c] = g}
  <2>1. ByFunction[g] =
          [cases |-> Cardinality(own),
           pass |-> Cardinality({c \in own : Passed(c)}),
           fail |-> Cardinality({c \in own : Failed(c) /\ ~Passed(c)})]
    BY DEF ByFunction
  <2>2. CASE col = "cases"
    <3>1. {c \in C : f[c] = g} = own
      BY <2>2 DEF Tally
    <3> HIDE DEF C, f, own
    <3> QED
      BY <2>1, <2>2, <3>1
  <2>3. CASE col = "pass"
    <3>1. {c \in C : f[c] = g} = {c \in own : Passed(c)}
      BY <2>3 DEF Tally
    <3> HIDE DEF C, f, own
    <3> QED
      BY <2>1, <2>3, <3>1
  <2>4. CASE col = "fail"
    <3>1. {c \in C : f[c] = g} = {c \in own : Failed(c) /\ ~Passed(c)}
      BY <2>4 DEF Tally
    <3> HIDE DEF C, f, own
    <3> QED
      BY <2>1, <2>4, <3>1
  <2> QED
    BY <2>2, <2>3, <2>4
<1>7. Total(ByFunction, col) = SumFunction(w)
  <2>1. DOMAIN ByFunction = fns
    BY DEF ByFunction
  <2> HIDE DEF C, f, fns
  <2>2. [g \in DOMAIN ByFunction |-> ByFunction[g][col]] = w
    BY <1>6, <2>1
  <2>3. Total(ByFunction, col) =
          SumFunction([g \in DOMAIN ByFunction |-> ByFunction[g][col]])
    BY DEF Total
  <2> QED
    BY <2>2, <2>3
<1> QED
  BY <1>5, <1>7

LEMMA AxesAgreed ==
    ASSUME OneLeaf
    PROVE  AxesAgree
BY LeafAxis, FunctionAxis DEF AxesAgree, AllShown

LEMMA InitOneLeaf == GenInit => OneLeaf
BY DEF GenInit, Init, OneLeaf, Present

\* `coverage --by leaf` tells of a leaf what `batch --leaf` would execute,
\* however many leaves its LIKE pattern takes in and whatever imports, seeds
\* and runs came before.
THEOREM ReportIsTheBatch == GenSpec => []ReportIsOfTheBatch
<1>1. GenInit => GInv /\ OneLeaf
  BY InitGInv, InitOneLeaf
<1>2. GInv /\ OneLeaf /\ [GenNext]_genVars => GInv' /\ OneLeaf'
  BY StepGInv, StepOneLeaf
<1>3. GInv /\ OneLeaf => ReportIsOfTheBatch
  BY BatchReported
<1> QED
  BY <1>1, <1>2, <1>3, PTL DEF GenSpec

\* FIX-BAD of `coverage --by leaf` does not depend on the flags.
THEOREM BacklogIsRegardless == GenSpec => []BacklogRegardless
BY BacklogCounted, PTL

\* Once nothing is hidden, --by leaf and --by function have the same totals
\* of cases, passes and failures.
THEOREM ReportAxesAgree == GenSpec => []AxesAgree
<1>1. GenInit => GInv /\ OneLeaf
  BY InitGInv, InitOneLeaf
<1>2. GInv /\ OneLeaf /\ [GenNext]_genVars => GInv' /\ OneLeaf'
  BY StepGInv, StepOneLeaf
<1>3. GInv /\ OneLeaf => AxesAgree
  BY AxesAgreed
<1> QED
  BY <1>1, <1>2, <1>3, PTL DEF GenSpec

=============================================================================
