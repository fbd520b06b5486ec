------------------------------ MODULE MCTestFn ------------------------------
(***************************************************************************)
(* Finite instances of TestFn: function F1 with cases 1 and 2, F2 with     *)
(* case 3, one leaf, and the command lines each run exercises.             *)
(***************************************************************************)
EXTENDS TestFn, TLC

CONSTANTS F1, F2, L, H1, H2

MCFnOf == 1 :> F1 @@ 2 :> F1 @@ 3 :> F2

MCAlike == L :> {L}

Line(cmd, fns) ==
    [cmd |-> cmd, fns |-> fns, leaf |-> None, only |-> None, limit |-> None,
     force |-> FALSE, print |-> FALSE, provider |-> "bridge"]

RunF1 == Line("run", {F1})
BatchAll == Line("batch", {F1, F2})

Unstamped(hash) ==
    [sig |-> hash, impl |-> hash, status |-> "unimplemented",
     lvSig |-> None, lvImpl |-> None, lvAt |-> 0]

\* F1 has hashes; F2 has none yet, so a pass stamps it with Blank.
MCInitScalars == {F1 :> Unstamped(H1) @@ F2 :> Unstamped(None)}

Symmetry == Permutations(Invocation)

Tags(one, two, three) == 1 :> one @@ 2 :> two @@ 3 :> three

\* Two invocations at once: a full run, a single case, a batch over
\* everything and one that a cap of one case cuts short.  All cases of
\* a function, or some, are in a skip bucket.
OverlapRequests ==
    {RunF1, [RunF1 EXCEPT !.only = 1], BatchAll, [BatchAll EXCEPT !.limit = 1]}

OverlapCases ==
    {Tags({}, {"fixture_bad"}, {}), Tags({}, {}, {"pg_only"}),
     Tags({"fixture_bad"}, {"fixture_bad"}, {})}

\* One invocation after another, over cases whose tags a seed may clear.
SequentialRequests ==
    {RunF1, BatchAll, [BatchAll EXCEPT !.leaf = L, !.limit = 0],
     [BatchAll EXCEPT !.limit = 1, !.provider = "provider"],
     [BatchAll EXCEPT !.print = TRUE, !.limit = 1]}

SequentialCases == {Tags({L}, {"fixture_bad", L}, {"fixture_bad"})}

\* The run that shows the code and its comments disagree.
LeafRequests == {[BatchAll EXCEPT !.leaf = L]}
LeafCases == {Tags({L}, {}, {})}
=============================================================================
