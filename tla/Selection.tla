------------------------------ MODULE Selection ------------------------------
(***************************************************************************)
(* Elements of a sequence picked by their positions.  The filters of the   *)
(* models select with these operators and not with SelectSeq, which has no *)
(* definition a proof can use.                                             *)
(***************************************************************************)
EXTENDS Naturals, FiniteSets

\* The numbers of a finite set in order.
InOrder(keep) ==
    LET rank(i) == Cardinality({j \in keep : j <= i})
    IN  [k \in 1..Cardinality(keep) |-> CHOOSE i \in keep : rank(i) = k]

\* The elements of s at the positions in keep, in order.
Selected(s, keep) ==
    LET order == InOrder(keep) IN [k \in DOMAIN order |-> s[order[k]]]
=============================================================================
