----------------------------- MODULE FoldLemmas -----------------------------
(***************************************************************************)
(* What the folds of the community modules compute, for the sums of the    *)
(* coverage reports and the table an import leaves.  A fold is a recursive *)
(* function on the subsets of a finite set; the induction is over a set of *)
(* counterexamples, of which a smallest one cannot exist.  And what the    *)
(* selections of the text passes pick.                                     *)
(***************************************************************************)
EXTENDS Naturals, FiniteSets, Sequences, Functions, FiniteSetsExt,
        FiniteSetTheorems, Selection, WellFoundedInduction, TLAPS

\* Of a nonempty set of subsets of a finite set, one has none of the others
\* inside it.
LEMMA SmallestSubset ==
    ASSUME NEW S, IsFiniteSet(S), NEW Bad, Bad \subseteq SUBSET S, Bad # {}
    PROVE  \E T \in Bad : \A U \in Bad : U \subseteq T => U = T
<1>1. IsWellFoundedOn(StrictSubsetOrdering(S), SUBSET S)
  BY FS_StrictSubsetOrderingWellFounded, FS_FiniteSubsetsOfFinite
<1>2. PICK T \in Bad : \A U \in Bad : ~(<<U, T>> \in StrictSubsetOrdering(S))
  BY <1>1, WFMin
<1>3. ASSUME NEW U \in Bad, U \subseteq T PROVE U = T
  BY <1>2, <1>3 DEF StrictSubsetOrdering
<1> QED
  BY <1>3

\* h solves the equation of a fold on the subsets of T: nothing is base, and
\* what pick takes out of s is applied last.
Solves(h, T, base, step, pick) ==
    /\ h[{}] = base
    /\ \A s \in SUBSET T : s # {} => h[s] = step[pick[s]][h[s \ {pick[s]}]]

LEMMA SolutionsAgree ==
    ASSUME NEW S, IsFiniteSet(S), NEW base, NEW step, NEW pick,
           \A s \in SUBSET S : s # {} => pick[s] \in s,
           NEW T \in SUBSET S, NEW g, Solves(g, T, base, step, pick),
           NEW U \in SUBSET S, NEW h, Solves(h, U, base, step, pick)
    PROVE  \A s \in SUBSET (T \cap U) : g[s] = h[s]
<1> DEFINE Bad == {s \in SUBSET (T \cap U) : g[s] # h[s]}
<1> SUFFICES ASSUME Bad # {} PROVE FALSE
  OBVIOUS
<1>1. PICK s \in Bad : \A r \in Bad : r \subseteq s => r = s
  <2>1. Bad \subseteq SUBSET S
    OBVIOUS
  <2> HIDE DEF Bad
  <2> QED
    BY <2>1, SmallestSubset
<1>2. s # {}
  <2>1. g[{}] = base /\ h[{}] = base
    BY Zenon DEF Solves
  <2> QED
    BY <1>1, <2>1
<1>3. pick[s] \in s /\ s \ {pick[s]} \in SUBSET (T \cap U)
  BY <1>2
<1>4. g[s \ {pick[s]}] = h[s \ {pick[s]}]
  BY <1>1, <1>3
<1>5. /\ g[s] = step[pick[s]][g[s \ {pick[s]}]]
      /\ h[s] = step[pick[s]][h[s \ {pick[s]}]]
  BY <1>2 DEF Solves
<1> QED
  BY <1>4, <1>5

Picks(pick, S) == \A s \in SUBSET S : s # {} => pick[s] \in s

Steps(step, S, A) == step \in [S -> [A -> A]]

Solution(h, S, A, base, step, pick) ==
    h \in [SUBSET S -> A] /\ Solves(h, S, base, step, pick)

LEMMA SolutionExists ==
    ASSUME NEW S, IsFiniteSet(S), NEW A, NEW base \in A,
           NEW step, Steps(step, S, A), NEW pick, Picks(pick, S)
    PROVE  \E h : Solution(h, S, A, base, step, pick)
<1> USE DEF Picks, Steps
<1> DEFINE Sol(T) == {h \in [SUBSET T -> A] : Solves(h, T, base, step, pick)}
           Bad == {T \in SUBSET S : Sol(T) = {}}
<1> SUFFICES ASSUME Bad # {} PROVE FALSE
  <2> SUFFICES ASSUME Bad = {} PROVE \E h : Solution(h, S, A, base, step, pick)
    OBVIOUS
  <2>1. S \in SUBSET S
    OBVIOUS
  <2>2. PICK h : h \in Sol(S)
    BY <2>1
  <2>3. Solution(h, S, A, base, step, pick)
    BY <2>2, Zenon DEF Solution
  <2> QED
    BY <2>3
<1>1. PICK T \in Bad : \A U \in Bad : U \subseteq T => U = T
  <2>1. Bad \subseteq SUBSET S
    OBVIOUS
  <2> HIDE DEF Bad
  <2> QED
    BY <2>1, SmallestSubset
<1>2. \A U \in SUBSET T : U # T => Sol(U) # {}
  BY <1>1
<1> DEFINE part == [U \in SUBSET T |-> CHOOSE h : h \in Sol(U)]
<1>3. \A U \in SUBSET T : U # T => part[U] \in Sol(U)
  BY <1>2
<1> DEFINE x == pick[T]
           h == [U \in SUBSET T |->
                    IF U # T THEN part[U][U]
                    ELSE IF T = {} THEN base
                         ELSE step[x][part[T \ {x}][T \ {x}]]]
<1>4. \A U \in SUBSET T : U # T => h[U] = part[U][U] /\ h[U] \in A
  <2> SUFFICES ASSUME NEW U \in SUBSET T, U # T
               PROVE  h[U] = part[U][U] /\ part[U][U] \in A
    OBVIOUS
  <2>1. part[U] \in [SUBSET U -> A] /\ U \in SUBSET U
    BY <1>3
  <2> QED
    BY <2>1
<1> HIDE DEF part
<1>5. h \in [SUBSET T -> A]
  <2>1. T # {} => x \in T /\ x \in S /\ T \ {x} \in SUBSET T /\ T \ {x} # T
    OBVIOUS
  <2>2. T # {} => part[T \ {x}][T \ {x}] \in A
    BY <1>4, <2>1
  <2>3. T # {} => step[x][part[T \ {x}][T \ {x}]] \in A
    BY <2>1, <2>2
  <2>4. \A U \in SUBSET T : h[U] \in A
    BY <1>4, <2>3
  <2> QED
    BY <2>4
<1>6. h[{}] = base
  <2>1. CASE T = {}
    BY <2>1
  <2>2. CASE T # {}
    <3>1. h[{}] = part[{}][{}] /\ part[{}] \in Sol({})
      BY <1>3, <1>4, <2>2
    <3> QED
      BY <3>1 DEF Solves
  <2> QED
    BY <2>1, <2>2
<1>7. ASSUME NEW U \in SUBSET T, U # {}
      PROVE  h[U] = step[pick[U]][h[U \ {pick[U]}]]
  <2> DEFINE y == pick[U]
             V == U \ {y}
  <2>1. y \in U /\ V \in SUBSET T /\ V # T /\ V \in SUBSET U
    BY <1>7
  <2>2. h[V] = part[V][V]
    BY <1>4, <2>1
  <2>3. CASE U = T
    BY <1>7, <2>2, <2>3
  <2>4. CASE U # T
    <3>1. h[U] = part[U][U] /\ part[U] \in Sol(U) /\ part[V] \in Sol(V)
      BY <1>3, <1>4, <2>1, <2>4
    <3>2. part[U][U] = step[y][part[U][V]]
      BY <1>7, <3>1 DEF Solves
    <3>3. part[U][V] = part[V][V]
      <4>1. V \in SUBSET (U \cap V) /\ U \in SUBSET S /\ V \in SUBSET S
        BY <2>1
      <4> HIDE DEF V
      <4> QED
        BY <3>1, <4>1, SolutionsAgree
    <3> QED
      BY <2>2, <3>1, <3>2, <3>3
  <2> QED
    BY <2>3, <2>4
<1>8. h \in Sol(T)
  BY <1>5, <1>6, <1>7 DEF Solves
<1> QED
  BY <1>1, <1>8

-----------------------------------------------------------------------------
(* Sums.                                                                   *)

Picked(s) == CHOOSE x \in s : TRUE

\* The equation that the library's sum of w over S is chosen to solve.
SumEquation(g, w, S) ==
    g = [s \in SUBSET S |->
            IF s = {} THEN 0 ELSE w[Picked(s)] + g[s \ {Picked(s)}]]

LEMMA SumIsSolution ==
    ASSUME NEW w, NEW h, SumEquation(h, w, DOMAIN w),
           \A g : SumEquation(g, w, DOMAIN w) => g[DOMAIN w] = h[DOMAIN w]
    PROVE  SumFunction(w) = h[DOMAIN w]
<1> DEFINE total == CHOOSE g : SumEquation(g, w, DOMAIN w)
<1>1. SumFunction(w) = total[DOMAIN w]
  BY Zenon DEF SumFunction, SumFunctionOnSet, FoldFunctionOnSet,
               MapThenFoldSet, Picked, SumEquation
<1>2. SumEquation(total, w, DOMAIN w)
  OBVIOUS
<1> HIDE DEF total
<1> QED
  BY <1>1, <1>2

\* The sums over the parts of a set: taking any one element out of a part
\* takes its share out of the sum.
Sums(h, S, w) ==
    /\ h[{}] = 0
    /\ \A s \in SUBSET S : \A x \in s : h[s] = w[x] + h[s \ {x}]
    /\ \A s \in SUBSET S : SumFunction([x \in s |-> w[x]]) = h[s]

LEMMA SumsOfParts ==
    ASSUME NEW S, IsFiniteSet(S), NEW w \in [S -> Nat]
    PROVE  \E h \in [SUBSET S -> Nat] : Sums(h, S, w)
<1> DEFINE step == [x \in S |-> [n \in Nat |-> w[x] + n]]
           pick == [s \in SUBSET S |-> Picked(s)]
<1>1. \A s \in SUBSET S : s # {} => pick[s] \in s
  BY DEF Picked
<1>2. step \in [S -> [Nat -> Nat]]
  OBVIOUS
<1>3. PICK h \in [SUBSET S -> Nat] : Solves(h, S, 0, step, pick)
  <2>1. Picks(pick, S) /\ Steps(step, S, Nat) /\ 0 \in Nat
    BY <1>1, <1>2 DEF Picks, Steps
  <2> HIDE DEF step, pick
  <2>2. \E h : Solution(h, S, Nat, 0, step, pick)
    BY <2>1, SolutionExists
  <2> QED
    BY <2>2, Zenon DEF Solution
<1>4. h[{}] = 0
  BY <1>3, Zenon DEF Solves
<1>5. \A s \in SUBSET S : s # {} =>
         /\ Picked(s) \in s
         /\ h[s] = w[Picked(s)] + h[s \ {Picked(s)}]
  <2> SUFFICES ASSUME NEW s \in SUBSET S, s # {}
               PROVE  Picked(s) \in s /\ h[s] = w[Picked(s)] + h[s \ {Picked(s)}]
    OBVIOUS
  <2>1. pick[s] = Picked(s) /\ Picked(s) \in s
    BY <1>1
  <2>2. h[s] = step[Picked(s)][h[s \ {Picked(s)}]]
    <3> HIDE DEF step, pick
    <3> QED
      BY <1>3, <2>1, Zenon DEF Solves
  <2>3. h[s \ {Picked(s)}] \in Nat /\ Picked(s) \in S
    BY <2>1
  <2> QED
    BY <2>1, <2>2, <2>3
<1> HIDE DEF step, pick
<1>6. \A s \in SUBSET S : \A x \in s : h[s] = w[x] + h[s \ {x}]
  <2> DEFINE Bad == {s \in SUBSET S : \E x \in s : h[s] # w[x] + h[s \ {x}]}
  <2> SUFFICES ASSUME Bad # {} PROVE FALSE
    OBVIOUS
  <2>1. PICK s \in Bad : \A r \in Bad : r \subseteq s => r = s
    <3>1. Bad \subseteq SUBSET S
      OBVIOUS
    <3> HIDE DEF Bad
    <3> QED
      BY <3>1, SmallestSubset
  <2>2. PICK x \in s : h[s] # w[x] + h[s \ {x}]
    OBVIOUS
  <2> DEFINE y == Picked(s)
             rest == (s \ {x}) \ {y}
  <2>3. y \in s /\ s \in SUBSET S /\ h[s] = w[y] + h[s \ {y}]
    BY <1>5, <2>2
  <2> HIDE DEF y
  <2>4. x # y
    BY <2>2, <2>3
  <2>5. h[s \ {y}] = w[x] + h[(s \ {y}) \ {x}]
    <3>1. s \ {y} \notin Bad /\ x \in s \ {y} /\ s \ {y} \in SUBSET S
      BY <2>1, <2>3, <2>4
    <3> QED
      BY <3>1
  <2>6. h[s \ {x}] = w[y] + h[rest]
    <3>1. s \ {x} \notin Bad /\ y \in s \ {x} /\ s \ {x} \in SUBSET S
      BY <2>1, <2>3, <2>4
    <3> QED
      BY <3>1
  <2>7. (s \ {y}) \ {x} = rest /\ rest \in SUBSET S
    BY <2>3
  <2>8. w[x] \in Nat /\ w[y] \in Nat /\ h[rest] \in Nat
    BY <2>3, <2>7
  <2> HIDE DEF Bad, rest
  <2>9. h[s] = w[y] + (w[x] + h[rest])
    BY <2>3, <2>5, <2>7
  <2>10. w[x] + h[s \ {x}] = w[x] + (w[y] + h[rest])
    BY <2>6
  <2>11. w[y] + (w[x] + h[rest]) = w[x] + (w[y] + h[rest])
    BY <2>8
  <2> QED
    BY <2>2, <2>9, <2>10, <2>11
<1>7. ASSUME NEW U \in SUBSET S
      PROVE  SumFunction([x \in U |-> w[x]]) = h[U]
  <2> DEFINE v == [x \in U |-> w[x]]
             own == [s \in SUBSET U |-> h[s]]
  <2>1. SumEquation(own, v, U)
    <3>1. ASSUME NEW s \in SUBSET U
          PROVE  own[s] = IF s = {} THEN 0
                          ELSE v[Picked(s)] + own[s \ {Picked(s)}]
      <4>1. CASE s = {}
        BY <1>4, <4>1
      <4>2. CASE s # {}
        <5>1. Picked(s) \in s /\ s \in SUBSET S /\ s \ {Picked(s)} \in SUBSET U
          BY <1>5, <4>2
        <5> QED
          BY <1>5, <4>2, <5>1
      <4> QED
        BY <4>1, <4>2
    <3> HIDE DEF v
    <3> QED
      BY <3>1 DEF SumEquation
  <2>2. \A g : SumEquation(g, v, U) => g[U] = own[U]
    <3> SUFFICES ASSUME NEW g, SumEquation(g, v, U) PROVE g[U] = own[U]
      OBVIOUS
    <3>0. SumEquation(g, v, U)
      OBVIOUS
    <3> DEFINE Bad == {s \in SUBSET U : g[s] # own[s]}
    <3> SUFFICES ASSUME Bad # {} PROVE FALSE
      OBVIOUS
    <3>1. PICK s \in Bad : \A r \in Bad : r \subseteq s => r = s
      <4>1. Bad \subseteq SUBSET S
        OBVIOUS
      <4> HIDE DEF Bad
      <4> QED
        BY <4>1, SmallestSubset
    <3>2. s \in SUBSET U /\ g[s] # own[s]
      BY <3>1
    <3>3. s # {}
      <4> SUFFICES ASSUME s = {} PROVE FALSE
        OBVIOUS
      <4>1. g[{}] = 0 /\ own[{}] = 0
        <5> HIDE DEF v, own
        <5> QED
          BY <2>1, <3>0 DEF SumEquation
      <4> HIDE DEF own
      <4> QED
        BY <3>2, <4>1
    <3>4. Picked(s) \in s /\ s \ {Picked(s)} \in SUBSET U
      BY <1>5, <3>2, <3>3
    <3>5. g[s \ {Picked(s)}] = own[s \ {Picked(s)}]
      <4>1. s \ {Picked(s)} \notin Bad
        <5> HIDE DEF Bad
        <5> QED
          BY <3>1, <3>4
      <4> HIDE DEF own
      <4> QED
        BY <3>4, <4>1
    <3>6. /\ g[s] = v[Picked(s)] + g[s \ {Picked(s)}]
          /\ own[s] = v[Picked(s)] + own[s \ {Picked(s)}]
      <4> HIDE DEF v, own
      <4> QED
        BY <2>1, <3>0, <3>2, <3>3 DEF SumEquation
    <3> QED
      BY <3>2, <3>5, <3>6
  <2>3. DOMAIN v = U
    OBVIOUS
  <2>4. own[U] = h[U]
    OBVIOUS
  <2> HIDE DEF v, own
  <2>5. SumFunction(v) = own[U]
    BY <2>1, <2>2, <2>3, SumIsSolution
  <2> QED
    BY <2>4, <2>5 DEF v
<1> QED
  BY <1>4, <1>6, <1>7, Zenon DEF Sums

LEMMA SumOfMarks ==
    ASSUME NEW S, IsFiniteSet(S), NEW w \in [S -> {0, 1}]
    PROVE  SumFunction(w) = Cardinality({x \in S : w[x] = 1})
<1> DEFINE Ones(s) == {x \in s : w[x] = 1}
<1>1. w \in [S -> Nat] /\ w = [x \in S |-> w[x]]
  OBVIOUS
<1>2. PICK h \in [SUBSET S -> Nat] : Sums(h, S, w)
  BY <1>1, SumsOfParts
<1> DEFINE Bad == {s \in SUBSET S : h[s] # Cardinality(Ones(s))}
<1>3. Bad = {}
  <2> SUFFICES ASSUME Bad # {} PROVE FALSE
    OBVIOUS
  <2>1. PICK s \in Bad : \A r \in Bad : r \subseteq s => r = s
    <3>1. Bad \subseteq SUBSET S
      OBVIOUS
    <3> HIDE DEF Bad
    <3> QED
      BY <3>1, SmallestSubset
  <2>2. s \in SUBSET S /\ h[s] # Cardinality(Ones(s))
    BY <2>1
  <2>3. s # {}
    <3> SUFFICES ASSUME s = {} PROVE FALSE
      OBVIOUS
    <3>1. h[{}] = 0
      BY <1>2, Zenon DEF Sums
    <3>2. Cardinality(Ones({})) = 0
      BY FS_EmptySet
    <3> HIDE DEF Ones
    <3> QED
      BY <2>2, <3>1, <3>2
  <2>4. PICK x \in s : TRUE
    BY <2>3
  <2> DEFINE rest == s \ {x}
  <2>5. h[s] = w[x] + h[rest] /\ x \in S
    <3>1. \A r \in SUBSET S : \A y \in r : h[r] = w[y] + h[r \ {y}]
      BY <1>2, Zenon DEF Sums
    <3> QED
      BY <2>2, <2>4, <3>1
  <2>6. h[rest] = Cardinality(Ones(rest))
    <3>1. rest \notin Bad
      <4> HIDE DEF Bad
      <4> QED
        BY <2>1, <2>4
    <3> HIDE DEF Ones
    <3> QED
      BY <2>2, <3>1
  <2>7. IsFiniteSet(Ones(s)) /\ Ones(rest) = Ones(s) \ {x}
    <3>1. Ones(s) \in SUBSET S
      BY <2>2
    <3> QED
      BY <3>1, FS_Subset
  <2>8. Cardinality(Ones(s)) \in Nat
    BY <2>7, FS_CardinalityType
  <2>9. Cardinality(Ones(rest)) =
            IF x \in Ones(s) THEN Cardinality(Ones(s)) - 1
                             ELSE Cardinality(Ones(s))
    <3> DEFINE ones == Ones(s)
    <3>1. IsFiniteSet(ones)
      BY <2>7
    <3> HIDE DEF ones
    <3>2. Cardinality(ones \ {x}) = IF x \in ones THEN Cardinality(ones) - 1
                                                  ELSE Cardinality(ones)
      BY <3>1, FS_RemoveElement
    <3>3. Ones(rest) = ones \ {x}
      BY <2>7 DEF ones
    <3> HIDE DEF Ones, rest
    <3> QED
      BY <3>2, <3>3 DEF ones
  <2>10. CASE w[x] = 1
    <3>1. x \in Ones(s)
      BY <2>4, <2>10
    <3> HIDE DEF Ones, rest
    <3> QED
      BY <2>2, <2>5, <2>6, <2>8, <2>9, <2>10, <3>1
  <2>11. CASE w[x] = 0
    <3>1. x \notin Ones(s)
      BY <2>11
    <3> HIDE DEF Ones, rest
    <3> QED
      BY <2>2, <2>5, <2>6, <2>8, <2>9, <2>11, <3>1
  <2> QED
    BY <2>5, <2>10, <2>11
<1>4. S \in SUBSET S
  OBVIOUS
<1>5. h[S] = Cardinality(Ones(S))
  <2> HIDE DEF Ones
  <2> QED
    BY <1>3, <1>4
<1>6. SumFunction([x \in S |-> w[x]]) = h[S]
  <2>1. \A s \in SUBSET S : SumFunction([x \in s |-> w[x]]) = h[s]
    BY <1>2, Zenon DEF Sums
  <2> QED
    BY <1>4, <2>1
<1> QED
  BY <1>1, <1>5, <1>6

\* A sum of numbers is a number, and zero only where all of them are.
LEMMA SumOfNumbers ==
    ASSUME NEW S, IsFiniteSet(S), NEW w \in [S -> Nat]
    PROVE  /\ SumFunction(w) \in Nat
           /\ SumFunction(w) = 0 <=> \A x \in S : w[x] = 0
<1>1. PICK h \in [SUBSET S -> Nat] : Sums(h, S, w)
  BY SumsOfParts
<1>2. /\ h[{}] = 0
      /\ \A s \in SUBSET S : \A x \in s : h[s] = w[x] + h[s \ {x}]
      /\ \A s \in SUBSET S : SumFunction([x \in s |-> w[x]]) = h[s]
  BY <1>1, Zenon DEF Sums
<1>3. SumFunction(w) = h[S] /\ h[S] \in Nat
  <2>1. w = [x \in S |-> w[x]] /\ S \in SUBSET S
    OBVIOUS
  <2> QED
    BY <1>2, <2>1
<1>4. ASSUME h[S] = 0, NEW x \in S PROVE w[x] = 0
  <2>1. h[S] = w[x] + h[S \ {x}] /\ h[S \ {x}] \in Nat /\ w[x] \in Nat
    BY <1>2
  <2> QED
    BY <1>4, <2>1
<1>5. ASSUME \A x \in S : w[x] = 0 PROVE h[S] = 0
  <2> DEFINE Bad == {s \in SUBSET S : h[s] # 0}
  <2> SUFFICES ASSUME Bad # {} PROVE FALSE
    OBVIOUS
  <2>1. PICK s \in Bad : \A r \in Bad : r \subseteq s => r = s
    <3>1. Bad \subseteq SUBSET S
      OBVIOUS
    <3> HIDE DEF Bad
    <3> QED
      BY <3>1, SmallestSubset
  <2>2. s \in SUBSET S /\ h[s] # 0
    OBVIOUS
  <2>3. s # {}
    <3> SUFFICES ASSUME s = {} PROVE FALSE
      OBVIOUS
    <3> HIDE DEF Bad
    <3> QED
      BY <1>2, <2>2
  <2>4. PICK x \in s : TRUE
    BY <2>3
  <2>5. h[s \ {x}] = 0
    <3>1. s \ {x} \notin Bad
      <4> HIDE DEF Bad
      <4> QED
        BY <2>1, <2>4
    <3> QED
      BY <2>2, <3>1
  <2>6. h[s] = w[x] + h[s \ {x}] /\ w[x] = 0
    BY <1>2, <1>5, <2>2, <2>4
  <2> QED
    BY <2>2, <2>5, <2>6
<1> QED
  BY <1>3, <1>4, <1>5

\* Counting by shares: f puts every member of C into one share, and the
\* sizes of the shares add up to the size of C.
LEMMA SumOfShares ==
    ASSUME NEW S, IsFiniteSet(S), NEW C, IsFiniteSet(C), NEW f \in [C -> S],
           NEW w, w = [x \in S |-> Cardinality({c \in C : f[c] = x})]
    PROVE  SumFunction(w) = Cardinality(C)
<1> DEFINE Part(s) == {c \in C : f[c] \in s}
<1>1. \A s \in SUBSET S : IsFiniteSet(Part(s)) /\ Cardinality(Part(s)) \in Nat
  <2>1. ASSUME NEW s \in SUBSET S
        PROVE  IsFiniteSet(Part(s)) /\ Cardinality(Part(s)) \in Nat
    <3>1. Part(s) \in SUBSET C
      OBVIOUS
    <3> QED
      BY <3>1, FS_Subset, FS_CardinalityType
  <2> QED
    BY <2>1
<1>2. \A x \in S : {x} \in SUBSET S /\ Part({x}) = {c \in C : f[c] = x}
  OBVIOUS
<1>3. \A x \in S : w[x] = Cardinality(Part({x}))
  <2> HIDE DEF Part
  <2> QED
    BY <1>2
<1> HIDE DEF Part
<1>4. w \in [S -> Nat] /\ w = [x \in S |-> w[x]]
  BY <1>1, <1>2, <1>3
<1>5. PICK h \in [SUBSET S -> Nat] : Sums(h, S, w)
  BY <1>4, SumsOfParts
<1>6. /\ h[{}] = 0
      /\ \A s \in SUBSET S : \A x \in s : h[s] = w[x] + h[s \ {x}]
      /\ \A s \in SUBSET S : SumFunction([x \in s |-> w[x]]) = h[s]
  BY <1>5, Zenon DEF Sums
<1> DEFINE Bad == {s \in SUBSET S : h[s] # Cardinality(Part(s))}
<1>7. Bad = {}
  <2> SUFFICES ASSUME Bad # {} PROVE FALSE
    OBVIOUS
  <2>1. PICK s \in Bad : \A r \in Bad : r \subseteq s => r = s
    <3>1. Bad \subseteq SUBSET S
      OBVIOUS
    <3> HIDE DEF Bad
    <3> QED
      BY <3>1, SmallestSubset
  <2>2. s \in SUBSET S /\ h[s] # Cardinality(Part(s))
    OBVIOUS
  <2>3. s # {}
    <3> SUFFICES ASSUME s = {} PROVE FALSE
      OBVIOUS
    <3>1. Cardinality(Part({})) = 0
      BY FS_EmptySet DEF Part
    <3> HIDE DEF Bad
    <3> QED
      BY <1>6, <2>2, <3>1
  <2>4. PICK x \in s : TRUE
    BY <2>3
  <2> DEFINE rest == s \ {x}
  <2>5. x \in S /\ rest \in SUBSET S
    BY <2>2, <2>4
  <2>6. h[s] = w[x] + h[rest]
    BY <1>6, <2>2, <2>4
  <2>7. h[rest] = Cardinality(Part(rest))
    <3>1. rest \notin Bad
      <4> HIDE DEF Bad
      <4> QED
        BY <2>1, <2>4
    <3> QED
      BY <2>5, <3>1
  <2>8. Part(s) = Part({x}) \cup Part(rest) /\ Part({x}) \cap Part(rest) = {}
    BY <2>4 DEF Part
  <2>9. Cardinality(Part(s)) = Cardinality(Part({x})) + Cardinality(Part(rest))
    <3>1. /\ IsFiniteSet(Part({x})) /\ IsFiniteSet(Part(rest))
          /\ Cardinality(Part({x})) \in Nat /\ Cardinality(Part(rest)) \in Nat
      BY <1>1, <1>2, <2>5
    <3>2. Cardinality(Part({x}) \cup Part(rest)) =
            Cardinality(Part({x})) + Cardinality(Part(rest))
            - Cardinality(Part({x}) \cap Part(rest))
      BY <3>1, FS_Union
    <3>3. Cardinality(Part({x}) \cap Part(rest)) = 0
      BY <2>8, FS_EmptySet
    <3> HIDE DEF rest
    <3> QED
      BY <2>8, <3>1, <3>2, <3>3
  <2> HIDE DEF rest
  <2> QED
    BY <1>3, <2>2, <2>5, <2>6, <2>7, <2>9
<1>8. S \in SUBSET S /\ Part(S) = C
  BY DEF Part
<1>9. h[S] = Cardinality(Part(S))
  BY <1>7, <1>8
<1>10. SumFunction([x \in S |-> w[x]]) = h[S]
  BY <1>6, <1>8
<1> QED
  BY <1>4, <1>8, <1>9, <1>10

-----------------------------------------------------------------------------
(* Prefixes.                                                               *)

LEMMA SmallestNumber ==
    ASSUME NEW Bad, Bad \subseteq Nat, Bad # {}
    PROVE  \E n \in Bad : \A m \in Bad : n <= m
<1>1. PICK n \in Bad : \A m \in Bad : ~(<<m, n>> \in OpToRel(<, Nat))
  BY NatLessThanWellFounded, WFMin
<1>2. \A m \in Bad : ~(m < n)
  BY <1>1 DEF OpToRel
<1> QED
  BY <1>2

\* What holds of 0 and of the successor of every number it holds of, holds
\* up to n.
LEMMA Upto ==
    ASSUME NEW n \in Nat, NEW Good, 0 \in Good,
           \A i \in 1 .. n : (i - 1 \in Good) => (i \in Good)
    PROVE  \A i \in 0 .. n : i \in Good
<1> DEFINE Bad == {i \in 0 .. n : i \notin Good}
<1> SUFFICES ASSUME Bad # {} PROVE FALSE
  OBVIOUS
<1>1. PICK i \in Bad : \A j \in Bad : i <= j
  <2>1. Bad \subseteq Nat
    OBVIOUS
  <2> HIDE DEF Bad
  <2> QED
    BY <2>1, SmallestNumber
<1>2. i \in 1 .. n /\ i \notin Good
  BY <1>1
<1>3. i - 1 \in 0 .. n /\ ~(i <= i - 1)
  BY <1>2
<1>4. i - 1 \in Good
  BY <1>1, <1>3
<1> QED
  BY <1>2, <1>4

LEMMA LargestNumber ==
    ASSUME NEW n \in Nat, NEW s, s \subseteq 1 .. n, s # {}
    PROVE  /\ Max(s) \in s
           /\ \A i \in s : i <= Max(s)
<1> DEFINE Bounds == {m \in Nat : \A i \in s : i <= m}
<1>1. n \in Bounds
  OBVIOUS
<1>2. PICK m \in Bounds : \A k \in Bounds : m <= k
  <2>1. Bounds \subseteq Nat /\ Bounds # {}
    BY <1>1
  <2> HIDE DEF Bounds
  <2> QED
    BY <2>1, SmallestNumber
<1>3. m \in s
  <2> SUFFICES ASSUME m \notin s PROVE FALSE
    OBVIOUS
  <2>1. \A i \in s : i <= m /\ i # m /\ i \in Nat /\ 1 <= i
    BY <1>2
  <2>2. PICK i \in s : TRUE
    OBVIOUS
  <2>3. m \in Nat /\ m - 1 \in Nat
    BY <2>1, <2>2
  <2>4. m - 1 \in Bounds
    BY <2>1, <2>3
  <2> QED
    BY <1>2, <2>3, <2>4
<1>4. \E x \in s : \A y \in s : x >= y
  BY <1>3
<1> DEFINE x == Max(s)
<1>5. x \in s /\ \A y \in s : x >= y
  BY <1>4 DEF Max
<1> QED
  BY <1>5

LEMMA PrefixMax ==
    ASSUME NEW n \in Nat, n # 0
    PROVE  Max(1 .. n) = n /\ (1 .. n) \ {n} = 1 .. n - 1
<1>1. 1 .. n \subseteq 1 .. n /\ 1 .. n # {}
  OBVIOUS
<1>2. Max(1 .. n) \in 1 .. n /\ \A i \in 1 .. n : i <= Max(1 .. n)
  BY <1>1, LargestNumber
<1>3. Max(1 .. n) = n
  BY <1>2
<1>4. (1 .. n) \ {n} = 1 .. n - 1
  OBVIOUS
<1> QED
  BY <1>3, <1>4

\* The solution of a fold from the left, with values in A.
LeftSolution(h, S, A, base, step) ==
    /\ h \in [SUBSET S -> A]
    /\ h[{}] = base
    /\ \A s \in SUBSET S : s # {} => h[s] = step[Max(s)][h[s \ {Max(s)}]]

LEMMA MaxSolution ==
    ASSUME NEW S, IsFiniteSet(S), NEW A, NEW base \in A,
           NEW step, Steps(step, S, A),
           \A s \in SUBSET S : s # {} => Max(s) \in s
    PROVE  \E h : LeftSolution(h, S, A, base, step)
<1> DEFINE pick == [s \in SUBSET S |-> Max(s)]
<1>1. \A s \in SUBSET S : pick[s] = Max(s)
  OBVIOUS
<1>2. Picks(pick, S)
  BY <1>1 DEF Picks
<1> HIDE DEF pick
<1>3. PICK h : Solution(h, S, A, base, step, pick)
  BY <1>2, SolutionExists
<1>4. h \in [SUBSET S -> A] /\ Solves(h, S, base, step, pick)
  BY <1>3, Zenon DEF Solution
<1>5. /\ h[{}] = base
      /\ \A s \in SUBSET S :
            s # {} => h[s] = step[pick[s]][h[s \ {pick[s]}]]
  BY <1>4, Zenon DEF Solves
<1>6. \A s \in SUBSET S : s # {} => h[s] = step[Max(s)][h[s \ {Max(s)}]]
  BY <1>1, <1>5
<1>7. LeftSolution(h, S, A, base, step)
  BY <1>4, <1>5, <1>6, Zenon DEF LeftSolution
<1> QED
  BY <1>7

LEMMA LeftFold ==
    ASSUME NEW n \in Nat, NEW A, NEW base \in A,
           NEW step, Steps(step, 1 .. n, A)
    PROVE  \E h : LeftSolution(h, 1 .. n, A, base, step)
<1> DEFINE S == 1 .. n
<1>1. \A s \in SUBSET S : s # {} => Max(s) \in s
  BY LargestNumber
<1>2. IsFiniteSet(S)
  BY FS_Interval
<1> HIDE DEF S
<1>3. Steps(step, S, A)
  BY DEF S
<1>4. \E h : LeftSolution(h, S, A, base, step)
  BY <1>1, <1>2, <1>3, MaxSolution
<1> QED
  BY <1>4 DEF S

-----------------------------------------------------------------------------
(* The numbers of a set in order, and what is selected at them.            *)

Rank(keep, i) == Cardinality({j \in keep : j <= i})

LEMMA RankOf ==
    ASSUME NEW n \in Nat, NEW keep \in SUBSET (1 .. n), NEW i \in keep
    PROVE  /\ IsFiniteSet(keep) /\ Cardinality(keep) \in Nat
           /\ Rank(keep, i) \in 1 .. Cardinality(keep)
<1>1. IsFiniteSet(keep) /\ Cardinality(keep) \in Nat
  <2>1. IsFiniteSet(1 .. n)
    BY FS_Interval
  <2> QED
    BY <2>1, FS_Subset, FS_CardinalityType
<1> DEFINE upto == {j \in keep : j <= i}
<1>2. upto \in SUBSET keep /\ i \in upto
  <2>1. i \in Nat
    OBVIOUS
  <2> QED
    BY <2>1
<1> HIDE DEF upto
<1>3. /\ IsFiniteSet(upto) /\ Cardinality(upto) \in Nat
      /\ Cardinality(upto) <= Cardinality(keep)
  BY <1>1, <1>2, FS_Subset, FS_CardinalityType
<1>4. Cardinality(upto) # 0
  BY <1>2, <1>3, FS_EmptySet
<1>5. Rank(keep, i) = Cardinality(upto)
  BY DEF Rank, upto
<1> QED
  BY <1>1, <1>3, <1>4, <1>5

LEMMA RankGrows ==
    ASSUME NEW n \in Nat, NEW keep \in SUBSET (1 .. n),
           NEW i \in keep, NEW k \in keep, i < k
    PROVE  Rank(keep, i) < Rank(keep, k)
<1> DEFINE low == {j \in keep : j <= i}
           high == {j \in keep : j <= k}
<1>1. \A j \in keep : j \in Nat
  OBVIOUS
<1>2. low \subseteq high /\ k \in high /\ k \notin low
  <2>1. \A j \in keep : j <= i => j <= k
    BY <1>1
  <2>2. k <= k /\ ~(k <= i)
    BY <1>1
  <2> QED
    BY <2>1, <2>2
<1>3. IsFiniteSet(high) /\ IsFiniteSet(low)
  <2>1. IsFiniteSet(keep)
    BY RankOf
  <2> QED
    BY <2>1, FS_Subset
<1> HIDE DEF low, high
<1>4. /\ Cardinality(low) <= Cardinality(high)
      /\ Cardinality(low) # Cardinality(high)
      /\ Cardinality(low) \in Nat /\ Cardinality(high) \in Nat
  BY <1>2, <1>3, FS_Subset, FS_CardinalityType
<1>5. Rank(keep, i) = Cardinality(low) /\ Rank(keep, k) = Cardinality(high)
  BY DEF Rank, low, high
<1> QED
  BY <1>4, <1>5

\* p lists the positions in keep, in order.
Lists(p, keep) ==
    /\ p \in [1 .. Cardinality(keep) -> keep]
    /\ \A a, b \in 1 .. Cardinality(keep) : a < b => p[a] < p[b]
    /\ \A i \in keep : \E a \in 1 .. Cardinality(keep) : p[a] = i

Selects(p, s, keep) ==
    /\ Lists(p, keep)
    /\ Selected(s, keep) = [k \in 1 .. Cardinality(keep) |-> s[p[k]]]

LEMMA InOrderLists ==
    ASSUME NEW n \in Nat, NEW keep \in SUBSET (1 .. n)
    PROVE  /\ Lists(InOrder(keep), keep)
           /\ \A k \in 1 .. Cardinality(keep) : Rank(keep, InOrder(keep)[k]) = k
<1> DEFINE m == Cardinality(keep)
           rank == [i \in keep |-> Rank(keep, i)]
           p == [k \in 1 .. m |-> CHOOSE i \in keep : rank[i] = k]
<1>1. IsFiniteSet(keep) /\ m \in Nat
  <2>1. IsFiniteSet(1 .. n)
    BY FS_Interval
  <2> QED
    BY <2>1, FS_Subset, FS_CardinalityType
<1>2. \A i \in keep : i \in Nat
  OBVIOUS
<1>3. rank \in [keep -> 1 .. m]
  BY RankOf
<1>4. \A i, k \in keep : i < k => rank[i] < rank[k]
  BY RankGrows
<1> HIDE DEF rank
<1>5. \A i \in keep : rank[i] \in Nat
  BY <1>1, <1>3
<1>6. \A i, k \in keep : rank[i] = rank[k] => i = k
  BY <1>2, <1>4, <1>5
<1>7. rank \in Injection(keep, 1 .. m)
  BY <1>3, <1>6 DEF Injection, IsInjective
<1>8. IsFiniteSet(1 .. m) /\ Cardinality(1 .. m) = m
  BY <1>1, FS_Interval
<1>9. rank \in Surjection(keep, 1 .. m)
  <2> HIDE DEF m
  <2>1. Cardinality(keep) = Cardinality(1 .. m)
    BY <1>8 DEF m
  <2> QED
    BY <1>1, <1>7, <1>8, <2>1, FS_Injection
<1>10. \A k \in 1 .. m : \E i \in keep : rank[i] = k
  BY <1>9 DEF Surjection
<1> HIDE DEF m
<1>11. \A k \in 1 .. m : p[k] \in keep /\ rank[p[k]] = k
  BY <1>10
<1>12. p \in [1 .. m -> keep]
  BY <1>11
<1> HIDE DEF p
<1>13. \A a, b \in 1 .. m : a < b => p[a] < p[b]
  <2> SUFFICES ASSUME NEW a \in 1 .. m, NEW b \in 1 .. m, a < b
               PROVE  p[a] < p[b]
    OBVIOUS
  <2>1. p[a] \in Nat /\ p[b] \in Nat
    BY <1>2, <1>11
  <2>2. p[b] < p[a] => rank[p[b]] < rank[p[a]]
    BY <1>4, <1>11
  <2>3. rank[p[b]] = b /\ rank[p[a]] = a
    BY <1>11
  <2>4. a \in Nat /\ b \in Nat
    BY <1>1
  <2> QED
    BY <2>1, <2>2, <2>3, <2>4
<1>14. \A i \in keep : \E a \in 1 .. m : p[a] = i
  <2> SUFFICES ASSUME NEW i \in keep PROVE \E a \in 1 .. m : p[a] = i
    OBVIOUS
  <2>1. rank[i] \in 1 .. m
    BY <1>3
  <2>2. p[rank[i]] = i
    BY <1>6, <1>11, <2>1
  <2> QED
    BY <2>1, <2>2
<1>15. Lists(p, keep)
  BY <1>12, <1>13, <1>14 DEF Lists, m
<1>16. InOrder(keep) = p
  <2> DEFINE q(k) == CHOOSE i \in keep : Cardinality({j \in keep : j <= i}) = k
  <2>1. InOrder(keep) = [k \in 1 .. m |-> q(k)]
    BY Zenon DEF InOrder, m
  <2>2. \A k \in 1 .. m : p[k] = q(k)
    BY DEF p, rank, Rank
  <2>3. p = [k \in 1 .. m |-> p[k]]
    BY <1>12
  <2> HIDE DEF q
  <2> QED
    BY <2>1, <2>2, <2>3
<1>17. \A k \in 1 .. m : Rank(keep, p[k]) = k
  BY <1>11 DEF rank
<1> QED
  BY <1>15, <1>16, <1>17 DEF m

LEMMA SelectedInOrder ==
    ASSUME NEW n \in Nat, NEW keep \in SUBSET (1 .. n), NEW s
    PROVE  \E p : Selects(p, s, keep)
<1> DEFINE p == InOrder(keep)
<1>1. Lists(p, keep)
  BY InOrderLists
<1>2. DOMAIN p = 1 .. Cardinality(keep)
  BY <1>1 DEF Lists
<1>3. Selected(s, keep) = [k \in DOMAIN p |-> s[p[k]]]
  BY Zenon DEF Selected
<1> HIDE DEF p
<1> QED
  BY <1>1, <1>2, <1>3 DEF Selects

\* What is selected when every position is.
LEMMA SelectedAll ==
    ASSUME NEW S, NEW s \in Seq(S)
    PROVE  Selected(s, DOMAIN s) = s
<1> DEFINE n == Len(s)
<1>0. n \in Nat /\ 1 .. n \in SUBSET (1 .. n)
  OBVIOUS
<1>1. n \in Nat /\ DOMAIN s = 1 .. n /\ s = [k \in 1 .. n |-> s[k]]
  OBVIOUS
<1> HIDE DEF n
<1>2. PICK p : Selects(p, s, DOMAIN s)
  <2>1. DOMAIN s \in SUBSET (1 .. n)
    BY <1>0, <1>1
  <2> QED
    BY <1>0, <2>1, SelectedInOrder
<1>3. Cardinality(1 .. n) = n
  BY <1>0, FS_Interval
<1>4. /\ p \in [1 .. n -> 1 .. n]
      /\ \A a, b \in 1 .. n : a < b => p[a] < p[b]
      /\ \A i \in 1 .. n : \E a \in 1 .. n : p[a] = i
  BY <1>1, <1>2, <1>3, Zenon DEF Selects, Lists
<1> DEFINE Off == {k \in 1 .. n : p[k] # k}
<1>5. Off = {}
  <2> SUFFICES ASSUME Off # {} PROVE FALSE
    OBVIOUS
  <2>1. Off \subseteq Nat
    BY <1>1
  <2> HIDE DEF Off
  <2>2. PICK k \in Off : \A j \in Off : k <= j
    BY <2>1, SmallestNumber
  <2>3. k \in 1 .. n /\ p[k] # k /\ p[k] \in 1 .. n
    BY <1>4, <2>2 DEF Off
  <2>4. \A j \in 1 .. n : j < k => p[j] = j
    BY <2>2, <2>3 DEF Off
  <2>5. PICK a \in 1 .. n : p[a] = k
    BY <1>4, <2>3
  <2>6. p[k] > k
    <3>1. p[k] < k => p[p[k]] = p[k] /\ p[p[k]] < p[k]
      BY <1>4, <2>3, <2>4
    <3>2. p[k] \in Nat /\ k \in Nat
      BY <1>1, <2>3
    <3> QED
      BY <2>3, <3>1, <3>2
  <2>7. a > k
    <3>1. a < k => p[a] = a
      BY <2>4
    <3>2. a \in Nat /\ k \in Nat
      BY <1>1, <2>3
    <3> QED
      BY <2>3, <2>5, <3>1, <3>2
  <2>8. p[k] < p[a]
    BY <1>4, <2>3, <2>7
  <2>9. p[k] \in Nat /\ k \in Nat
    BY <1>1, <2>3
  <2> QED
    BY <2>5, <2>6, <2>8, <2>9
<1>6. \A k \in 1 .. n : p[k] = k
  BY <1>5
<1>7. [k \in 1 .. n |-> s[p[k]]] = [k \in 1 .. n |-> s[k]]
  BY <1>6
<1>8. Selected(s, DOMAIN s) = [k \in 1 .. n |-> s[p[k]]]
  BY <1>1, <1>2, <1>3, Zenon DEF Selects
<1> QED
  BY <1>1, <1>7, <1>8
=============================================================================
