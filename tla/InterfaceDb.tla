----------------------------- MODULE InterfaceDb -----------------------------
(***************************************************************************)
(* The interface database as the harness sees it: rows of `scalars`, rows  *)
(* of `test_cases`, and the statements of crates/test-fn/src/db.rs that    *)
(* read and write them.  One SQL statement is one operator, so an action   *)
(* that uses it is one autocommitted statement.                            *)
(*                                                                         *)
(* A case stands for the primary key (function_name, case_name); cases are *)
(* numbers in the order ORDER BY function_name, case_name delivers them.   *)
(* SQL text, expected output, notes and versions are not represented.      *)
(***************************************************************************)
EXTENDS Naturals, FiniteSets

CONSTANTS
    Function,   \* names of functions (of one extension)
    Case,       \* keys of `test_cases`
    FnOf,       \* the function a case belongs to
    Leaf,       \* values of the leaf:<name> tags
    Alike,      \* the leaves a LIKE pattern made of a leaf's name matches
    Hash,       \* signature and implementation digests
    None,       \* SQL NULL, a missing row, an absent option
    Blank       \* the empty string `unwrap_or_default` puts for NULL

ASSUME CatalogueAssumption ==
    /\ Case \subseteq Nat
    /\ FnOf \in [Case -> Function]
    /\ Alike \in [Leaf -> SUBSET Leaf]
    /\ \A leaf \in Leaf : leaf \in Alike[leaf]
    /\ None \notin Hash /\ Blank \notin Hash
    /\ None # Blank /\ None \notin Nat

\* ORDER BY function_name first: the cases of a function stand together.
ASSUME OrderAssumption ==
    \A c, d, e \in Case :
        c <= d /\ d <= e /\ FnOf[c] = FnOf[e] => FnOf[d] = FnOf[c]

\* "broken" has a glyph in the tracker but is no value of the column yet.
Status ==
    {"implemented_verified", "implemented_unverified", "unimplemented",
     "deprecated", "skip"}

Tag == {"pg_only", "fixture_bad"} \cup Leaf

\* A row of `scalars`: the recorded digests, the status, and the stamp of
\* the last verification (lvAt: `last_verified_at`, 0 when never stamped).
ScalarRow ==
    [sig: Hash \cup {None}, impl: Hash \cup {None}, status: Status,
     lvSig: Hash \cup {None, Blank}, lvImpl: Hash \cup {None, Blank},
     lvAt: Nat]

ASSUME NoRowAssumption == None \notin ScalarRow

\* `test_cases`: the tags of each case, or None where there is no row.
CaseTable == [Case -> (SUBSET Tag) \cup {None}]

\* Mutant of IsCacheHit: the implementation hash is not compared.
IsCacheHitBySignature(row) ==
    /\ row.status = "implemented_verified"
    /\ None \notin {row.sig, row.lvSig}
    /\ row.sig = row.lvSig

IsCacheHit(row) ==
    /\ row.status = "implemented_verified"
    /\ None \notin {row.sig, row.lvSig, row.impl, row.lvImpl}
    /\ row.sig = row.lvSig
    /\ row.impl = row.lvImpl

OrBlank(hash) == IF hash = None THEN Blank ELSE hash

MarkVerified(row, sig, impl, ranAt) ==
    [row EXCEPT !.status = "implemented_verified",
                !.lvSig = sig, !.lvImpl = impl, !.lvAt = ranAt]

\* Mutant of MarkFailed: a status the schema has no word for.
MarkBroken(row) ==
    [row EXCEPT !.status = "broken", !.lvSig = None, !.lvImpl = None]

MarkFailed(row) ==
    [row EXCEPT !.status = "implemented_unverified",
                !.lvSig = None, !.lvImpl = None]

HasTag(cases, c, tag) == cases[c] # None /\ tag \in cases[c]

LoadCasesEx(cases, fns, only, includePgOnly) ==
    {c \in Case : /\ cases[c] # None
                  /\ FnOf[c] \in fns
                  /\ only \in {None, c}
                  /\ includePgOnly \/ ~HasTag(cases, c, "pg_only")}

\* Mutant of LoadCasesByLeaf: the tags are compared for equality.
LoadCasesByEqualLeaf(cases, leaf) ==
    {c \in Case : HasTag(cases, c, leaf) /\ ~HasTag(cases, c, "pg_only")}

\* The tag is put into a LIKE pattern, where `_` stands for any character
\* and case does not count.
LoadCasesByLeaf(cases, leaf) ==
    {c \in Case : /\ \E tag \in Alike[leaf] : HasTag(cases, c, tag)
                  /\ ~HasTag(cases, c, "pg_only")}

\* What the harness documents as a function's suite: its cases outside the
\* two skip buckets (runner.rs:620-624).
Runnable(cases, fns) ==
    {c \in LoadCasesEx(cases, fns, None, FALSE) :
        ~HasTag(cases, c, "fixture_bad")}
=============================================================================
