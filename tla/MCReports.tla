----------------------------- MODULE MCReports ------------------------------
(***************************************************************************)
(* The coverage reports and the tracking document over one database: F1    *)
(* with cases 1 and 2, F2 with case 3 and perhaps no row in `scalars`, two *)
(* leaves of which the name of one, as a LIKE pattern, matches the other.  *)
(***************************************************************************)
EXTENDS FuncsMdGen, TLC

CONSTANTS F1, F2, L, M

MCFnOf == 1 :> F1 @@ 2 :> F1 @@ 3 :> F2

MCAlike == L :> {L, M} @@ M :> {M}

MCCatalogues ==
    {F1 :> "implemented_verified" @@ F2 :> None,
     F1 :> "unimplemented" @@ F2 :> "unimplemented"}

MCSections == <<"operators">>

\* Three pairs of a catalogue and a table before generation, and three of
\* the statuses a function may move to.
Few ==
    /\ gen.pc = "idle" =>
          IF scalars[F2] = None THEN entities["operators"] # 0
          ELSE entities["operators"] = 0
    /\ \A f \in Function :
          scalars[f] \in {None, "implemented_verified", "unimplemented"}

\* The generator reads neither test_runs nor the skip tags: documents are
\* generated over databases without them, reports are printed over all, one
\* catalogue being enough since they read no catalogue.
Apart ==
    \/ runs = {} /\ \A c \in Present : cases[c] \subseteq Leaf
    \/ gen.pc = "idle" /\ entities["operators"] = 0

Bounded == Few /\ Apart
=============================================================================
