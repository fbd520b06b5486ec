-------------------------- MODULE CaseImportProofs --------------------------
(***************************************************************************)
(* Theorems about CaseImport for every corpus, limit and number of starts: *)
(* what of an --insert-into import can be seen before its commit, what a   *)
(* finished import has made of the table, and where --limit cuts off.      *)
(***************************************************************************)
EXTENDS CaseImport, FoldLemmas

-----------------------------------------------------------------------------
(* The cases of a statement.                                               *)

TagSet == Leaves \cup {"pg_only", "fixture_bad"}

\* A case emitted from the statements ss, and what the scraper has so far.
CaseRow(ss) ==
    [fn: Function, idx: Nat, stmt: ToSet(ss), tags: SUBSET TagSet]

Sofar(ss) == [taken: [Function -> Nat], cases: Seq(CaseRow(ss))]

\* What Emitted does about the i-th call of a statement.
Emit(acc, limit, stmt, i) ==
    LET f == stmt.calls[i] IN
    IF limit # None /\ acc.taken[f] >= limit THEN acc
    ELSE [taken |-> [acc.taken EXCEPT ![f] = @ + 1],
          cases |-> Append(acc.cases,
              [fn |-> f, idx |-> i, stmt |-> stmt, tags |-> Tags(stmt, f)])]

\* The equation that the fold in Emitted is chosen to solve.
EmitEquation(g, base, limit, stmt) ==
    g = [s \in SUBSET (DOMAIN [i \in 1 .. Len(stmt.calls) |-> i]) |->
            IF s = {} THEN base
            ELSE Emit(g[s \ {Max(s)}], limit, stmt,
                      [i \in 1 .. Len(stmt.calls) |-> i][Max(s)])]

EmittedFrom(base, limit, stmt) ==
    (CHOOSE g : EmitEquation(g, base, limit, stmt))
        [DOMAIN [i \in 1 .. Len(stmt.calls) |-> i]]

LEMMA EmittedIsFrom ==
    ASSUME NEW stmt
    PROVE  Emitted(stmt) =
             EmittedFrom([taken |-> taken, cases |-> cases], args.limit, stmt)
BY Zenon DEF Emitted, EmittedFrom, EmitEquation, Emit, FoldLeft, MapThenFoldSet

LEMMA TagsTyped ==
    ASSUME NEW stmt \in Statement, NEW f \in Function
    PROVE  Tags(stmt, f) \in SUBSET TagSet
BY DEF Tags, TagSet, Leaves, Statement

LEMMA Statements ==
    ASSUME NEW ss \in Corpora, NEW stmt \in ToSet(ss)
    PROVE  /\ stmt \in Statement
           /\ Len(stmt.calls) \in Nat /\ Len(stmt.calls) <= MaxCalls
           /\ \A i \in 1 .. Len(stmt.calls) : stmt.calls[i] \in Function
<1>1. PICK i \in DOMAIN ss : stmt = ss[i]
  BY DEF ToSet
<1>2. ss \in Seq(Statement) /\ Len(ss[i].calls) <= MaxCalls
  BY ImportAssumption
<1>3. stmt \in Statement
  BY <1>1, <1>2
<1>4. stmt.calls \in Seq(Function)
  BY <1>3 DEF Statement
<1> QED
  BY <1>1, <1>2, <1>3, <1>4

LEMMA EmitTyped ==
    ASSUME NEW ss \in Corpora, NEW stmt \in ToSet(ss), NEW limit \in Limits,
           NEW i \in 1 .. Len(stmt.calls), NEW acc \in Sofar(ss)
    PROVE  Emit(acc, limit, stmt, i) \in Sofar(ss)
<1> DEFINE f == stmt.calls[i]
           c == [fn |-> f, idx |-> i, stmt |-> stmt, tags |-> Tags(stmt, f)]
<1>1. f \in Function /\ i \in Nat
  BY Statements
<1>2. Tags(stmt, f) \in SUBSET TagSet
  BY <1>1, Statements, TagsTyped
<1>3. c \in CaseRow(ss)
  BY <1>1, <1>2 DEF CaseRow
<1> HIDE DEF c
<1>4. /\ acc.taken \in [Function -> Nat]
      /\ acc.cases \in Seq(CaseRow(ss))
  BY DEF Sofar
<1>5. Append(acc.cases, c) \in Seq(CaseRow(ss))
  BY <1>3, <1>4
<1>6. [acc.taken EXCEPT ![f] = @ + 1] \in [Function -> Nat]
  BY <1>1, <1>4
<1>7. [taken |-> [acc.taken EXCEPT ![f] = @ + 1],
       cases |-> Append(acc.cases, c)] \in Sofar(ss)
  BY <1>5, <1>6 DEF Sofar
<1> QED
  BY <1>7 DEF Emit, c

\* The fold taken apart: run[i] is what the scraper has after i calls.
EmitRun(run, base, limit, stmt, ss) ==
    /\ run \in [0 .. Len(stmt.calls) -> Sofar(ss)]
    /\ run[0] = base
    /\ \A i \in 1 .. Len(stmt.calls) :
          run[i] = Emit(run[i - 1], limit, stmt, i)
    /\ EmittedFrom(base, limit, stmt) = run[Len(stmt.calls)]

LEMMA EmittedByCalls ==
    ASSUME NEW ss \in Corpora, NEW stmt \in ToSet(ss), NEW limit \in Limits,
           NEW base \in Sofar(ss)
    PROVE  \E run : EmitRun(run, base, limit, stmt, ss)
<1> DEFINE n == Len(stmt.calls)
           A == Sofar(ss)
           step == [i \in 1 .. n |-> [acc \in A |-> Emit(acc, limit, stmt, i)]]
           g == CHOOSE h : EmitEquation(h, base, limit, stmt)
           run == [i \in 0 .. n |-> g[1 .. i]]
<1>1. n \in Nat
  BY Statements
<1> HIDE DEF A
<1>2. Steps(step, 1 .. n, A)
  BY EmitTyped DEF Steps, A
<1>3. PICK h : LeftSolution(h, 1 .. n, A, base, step)
  <2>1. base \in A
    BY DEF A
  <2> HIDE DEF n, step
  <2> QED
    BY <1>1, <1>2, <2>1, LeftFold
<1>4. EmitEquation(h, base, limit, stmt)
  <2>1. /\ h \in [SUBSET (1 .. n) -> A]
        /\ h[{}] = base
        /\ \A s \in SUBSET (1 .. n) :
              s # {} => h[s] = step[Max(s)][h[s \ {Max(s)}]]
    <3> HIDE DEF n, step
    <3> QED
      BY <1>3, Zenon DEF LeftSolution
  <2>2. DOMAIN [i \in 1 .. n |-> i] = 1 .. n
    OBVIOUS
  <2>3. ASSUME NEW s \in SUBSET (1 .. n), s # {}
        PROVE  h[s] = Emit(h[s \ {Max(s)}], limit, stmt,
                           [i \in 1 .. n |-> i][Max(s)])
    <3>1. Max(s) \in 1 .. n
      <4> HIDE DEF n
      <4> QED
        BY <1>1, <2>3, LargestNumber
    <3>2. h[s \ {Max(s)}] \in A
      BY <2>1
    <3>3. h[s] = step[Max(s)][h[s \ {Max(s)}]]
      <4> HIDE DEF n, step
      <4> QED
        BY <2>1, <2>3
    <3>4. step[Max(s)] = [acc \in A |-> Emit(acc, limit, stmt, Max(s))]
      BY <3>1
    <3>5. [i \in 1 .. n |-> i][Max(s)] = Max(s)
      BY <3>1
    <3> HIDE DEF n, step
    <3> QED
      BY <3>2, <3>3, <3>4, <3>5
  <2> DEFINE val(s) == IF s = {} THEN base
                       ELSE Emit(h[s \ {Max(s)}], limit, stmt,
                                 [i \in 1 .. n |-> i][Max(s)])
  <2>4. \A s \in SUBSET (1 .. n) : h[s] = val(s)
    <3> HIDE DEF n
    <3> QED
      BY <2>1, <2>3
  <2>5. h = [s \in SUBSET (1 .. n) |-> val(s)]
    <3> HIDE DEF val, n
    <3> QED
      BY <2>1, <2>4
  <2> QED
    BY <2>2, <2>5 DEF EmitEquation
<1>5. EmitEquation(g, base, limit, stmt)
  <2> HIDE DEF n, step, run
  <2> QED
    BY <1>4, Zenon
<1> HIDE DEF g
<1>6. /\ g[{}] = base
      /\ \A s \in SUBSET (1 .. n) : s # {} /\ Max(s) \in 1 .. n =>
            g[s] = Emit(g[s \ {Max(s)}], limit, stmt, Max(s))
  BY <1>5 DEF EmitEquation
<1>7. run[0] = base
  BY <1>1, <1>6
<1>8. ASSUME NEW i \in 1 .. n
      PROVE  run[i] = Emit(run[i - 1], limit, stmt, i)
  <2>1. Max(1 .. i) = i /\ (1 .. i) \ {i} = 1 .. i - 1
    BY PrefixMax
  <2>2. 1 .. i \in SUBSET (1 .. n) /\ 1 .. i # {} /\ i - 1 \in 0 .. n
    <3> HIDE DEF n
    <3>1. i \in 1 .. i
      BY <1>1
    <3>2. 1 .. i \in SUBSET (1 .. n)
      BY <1>1
    <3>3. i - 1 \in 0 .. n
      BY <1>1
    <3> QED
      BY <3>1, <3>2, <3>3
  <2>3. g[1 .. i] = Emit(g[1 .. i - 1], limit, stmt, i)
    BY <1>6, <2>1, <2>2
  <2> QED
    BY <1>1, <2>2, <2>3
<1>9. \A i \in 0 .. n : run[i] \in A
  <2> DEFINE Good == {i \in 0 .. n : run[i] \in A}
  <2>1. 0 \in Good
    BY <1>1, <1>7 DEF A
  <2>2. ASSUME NEW i \in 1 .. n, i - 1 \in Good
        PROVE  i \in Good
    <3>1. run[i - 1] \in A
      BY <2>2
    <3>2. Emit(run[i - 1], limit, stmt, i) \in A
      <4> HIDE DEF run
      <4> QED
        BY <3>1, EmitTyped DEF A
    <3>3. i \in 0 .. n
      BY <1>1
    <3> HIDE DEF run
    <3> QED
      BY <1>8, <3>2, <3>3
  <2> HIDE DEF Good
  <2>3. \A i \in 0 .. n : i \in Good
    <3> HIDE DEF n
    <3> QED
      BY <1>1, <2>1, <2>2, Upto
  <2> QED
    BY <2>3 DEF Good
<1>10. run \in [0 .. n -> A]
  <2>1. run = [i \in 0 .. n |-> run[i]]
    OBVIOUS
  <2> HIDE DEF run
  <2> QED
    BY <1>9, <2>1
<1>11. EmittedFrom(base, limit, stmt) = run[n]
  BY <1>1 DEF EmittedFrom, g
<1> HIDE DEF run
<1>12. EmitRun(run, base, limit, stmt, ss)
  BY <1>7, <1>8, <1>10, <1>11 DEF EmitRun, A
<1> QED
  BY <1>12

-----------------------------------------------------------------------------
(* The TOML.                                                               *)

\* The rows that a grouping by name leaves in front of i, and i.
Ahead(rows, i) ==
    {j \in DOMAIN rows : \/ rows[j].fn < rows[i].fn
                         \/ rows[j].fn = rows[i].fn /\ j <= i}

LEMMA RowTyped ==
    ASSUME NEW ss, NEW rows \in Seq(CaseRow(ss)), NEW i \in DOMAIN rows
    PROVE  rows[i] \in CaseRow(ss) /\ rows[i].fn \in Nat
<1>1. rows[i] \in CaseRow(ss)
  OBVIOUS
<1>2. rows[i].fn \in Function
  BY <1>1 DEF CaseRow
<1>3. Function \subseteq Nat
  BY ImportAssumption
<1> QED
  BY <1>1, <1>2, <1>3

LEMMA PlacesDiffer ==
    ASSUME NEW ss, NEW rows \in Seq(CaseRow(ss)),
           NEW i \in DOMAIN rows, NEW k \in DOMAIN rows,
           Place(rows, i) = Place(rows, k)
    PROVE  i = k
<1> DEFINE n == Len(rows)
<1>1. n \in Nat /\ DOMAIN rows = 1 .. n
  OBVIOUS
<1>2. \A j \in DOMAIN rows : rows[j].fn \in Nat
  BY RowTyped
<1>3. ASSUME NEW a \in DOMAIN rows, NEW b \in DOMAIN rows, a # b,
             \/ rows[a].fn < rows[b].fn
             \/ rows[a].fn = rows[b].fn /\ a <= b
      PROVE  Place(rows, a) # Place(rows, b)
  <2>1. Ahead(rows, a) \subseteq Ahead(rows, b)
    <3> SUFFICES ASSUME NEW j \in Ahead(rows, a) PROVE j \in Ahead(rows, b)
      OBVIOUS
    <3>1. j \in Nat /\ a \in Nat /\ b \in Nat
      BY <1>1 DEF Ahead
    <3>2. rows[j].fn \in Nat /\ rows[a].fn \in Nat /\ rows[b].fn \in Nat
      BY <1>2 DEF Ahead
    <3> QED
      BY <1>3, <3>1, <3>2 DEF Ahead
  <2>2. b \in Ahead(rows, b) /\ b \notin Ahead(rows, a)
    <3>1. a \in Nat /\ b \in Nat
      BY <1>1
    <3>2. rows[a].fn \in Nat /\ rows[b].fn \in Nat
      BY <1>2
    <3> QED
      BY <1>3, <3>1, <3>2 DEF Ahead
  <2>3. IsFiniteSet(Ahead(rows, b))
    <3>1. Ahead(rows, b) \subseteq 1 .. n
      BY <1>1 DEF Ahead
    <3>2. IsFiniteSet(1 .. n)
      BY <1>1, FS_Interval
    <3> HIDE DEF n
    <3> QED
      BY <3>1, <3>2, FS_Subset
  <2>4. Cardinality(Ahead(rows, a)) # Cardinality(Ahead(rows, b))
    BY <2>1, <2>2, <2>3, FS_Subset
  <2> QED
    BY <2>4 DEF Place, Ahead
<1>4. \/ rows[i].fn < rows[k].fn
      \/ rows[i].fn = rows[k].fn /\ i <= k
      \/ rows[k].fn < rows[i].fn
      \/ rows[k].fn = rows[i].fn /\ k <= i
  <2>1. rows[i].fn \in Nat /\ rows[k].fn \in Nat /\ i \in Nat /\ k \in Nat
    BY <1>1, <1>2
  <2> QED
    BY <2>1
<1> QED
  BY <1>3, <1>4

Untagged(c) == [c EXCEPT !.tags = {}]

\* p puts the rows in an order.
IsOrder(p, n) ==
    /\ p \in [1 .. n -> 1 .. n]
    /\ \A i, j \in 1 .. n : p[i] = p[j] => i = j
    /\ \A k \in 1 .. n : \E i \in 1 .. n : p[i] = k

LEMMA PlacesAreAnOrder ==
    ASSUME NEW ss, NEW rows \in Seq(CaseRow(ss))
    PROVE  IsOrder([i \in DOMAIN rows |-> Place(rows, i)], Len(rows))
<1> DEFINE n == Len(rows)
           place == [i \in 1 .. n |-> Place(rows, i)]
<1>1. n \in Nat /\ DOMAIN rows = 1 .. n
  OBVIOUS
<1>2. \A i \in 1 .. n : Place(rows, i) \in 1 .. n
  <2> SUFFICES ASSUME NEW i \in 1 .. n PROVE Place(rows, i) \in 1 .. n
    OBVIOUS
  <2>1. Ahead(rows, i) \subseteq 1 .. n
    BY <1>1 DEF Ahead
  <2>2. i \in Ahead(rows, i)
    BY <1>1 DEF Ahead
  <2>3. IsFiniteSet(1 .. n) /\ Cardinality(1 .. n) = n
    BY <1>1, FS_Interval
  <2>4. /\ IsFiniteSet(Ahead(rows, i))
        /\ Cardinality(Ahead(rows, i)) <= n
        /\ Cardinality(Ahead(rows, i)) \in Nat
    BY <2>1, <2>3, FS_Subset, FS_CardinalityType
  <2>5. Cardinality(Ahead(rows, i)) # 0
    BY <2>2, <2>4, FS_EmptySet
  <2>6. Place(rows, i) = Cardinality(Ahead(rows, i))
    BY DEF Place, Ahead
  <2> QED
    BY <1>1, <2>4, <2>5, <2>6
<1>3. place \in [1 .. n -> 1 .. n]
  BY <1>2
<1>4. \A i, j \in 1 .. n : place[i] = place[j] => i = j
  BY <1>1, PlacesDiffer
<1>5. place \in Injection(1 .. n, 1 .. n)
  BY <1>3, <1>4 DEF Injection, IsInjective
<1>6. place \in Surjection(1 .. n, 1 .. n)
  <2>1. IsFiniteSet(1 .. n)
    BY <1>1, FS_Interval
  <2> HIDE DEF place, n
  <2> QED
    BY <1>5, <2>1, FS_Injection
<1>7. \A k \in 1 .. n : \E i \in 1 .. n : place[i] = k
  BY <1>6 DEF Surjection
<1> HIDE DEF place
<1>8. IsOrder(place, n)
  BY <1>3, <1>4, <1>7 DEF IsOrder
<1> QED
  BY <1>1, <1>8 DEF place

\* The TOML has every row once.
LEMMA TomlIsReordered ==
    ASSUME NEW ss, NEW rows \in Seq(CaseRow(ss))
    PROVE  \E p : /\ IsOrder(p, Len(rows))
                  /\ TomlOf(rows) = [k \in 1 .. Len(rows) |->
                                        Untagged(rows[p[k]])]
<1> DEFINE n == Len(rows)
           place == [i \in DOMAIN rows |-> Place(rows, i)]
           p == [k \in 1 .. n |-> CHOOSE i \in 1 .. n : place[i] = k]
<1>1. n \in Nat /\ DOMAIN rows = 1 .. n
  OBVIOUS
<1>2. /\ \A i \in 1 .. n : place[i] \in 1 .. n
      /\ \A i, j \in 1 .. n : place[i] = place[j] => i = j
      /\ \A k \in 1 .. n : \E i \in 1 .. n : place[i] = k
  <2>1. IsOrder(place, n)
    BY PlacesAreAnOrder
  <2> HIDE DEF place, n
  <2> QED
    BY <2>1 DEF IsOrder
<1>3. \A k \in 1 .. n : p[k] \in 1 .. n /\ place[p[k]] = k
  <2> HIDE DEF place, n
  <2> QED
    BY <1>2
<1>4. IsOrder(p, n)
  <2>1. p \in [1 .. n -> 1 .. n]
    <3> HIDE DEF place, n
    <3> QED
      BY <1>3
  <2>2. \A i, j \in 1 .. n : p[i] = p[j] => i = j
    <3> HIDE DEF place, n, p
    <3> QED
      BY <1>3
  <2>3. \A k \in 1 .. n : \E i \in 1 .. n : p[i] = k
    <3> HIDE DEF place, n, p
    <3>1. \A k \in 1 .. n : p[place[k]] = k
      BY <1>2, <1>3
    <3> QED
      BY <1>2, <3>1
  <2> HIDE DEF p
  <2> QED
    BY <2>1, <2>2, <2>3 DEF IsOrder
<1>5. \A k \in 1 .. n :
        p[k] = CHOOSE i \in DOMAIN rows : Place(rows, i) = k
  BY <1>1
<1> HIDE DEF p
<1>6. TomlOf(rows) = [k \in 1 .. n |-> Untagged(rows[p[k]])]
  <2>1. TomlOf(rows) =
          [k \in DOMAIN rows |->
              Untagged(rows[CHOOSE i \in DOMAIN rows : Place(rows, i) = k])]
    BY Zenon DEF TomlOf, Untagged
  <2> DEFINE q(k) == CHOOSE i \in DOMAIN rows : Place(rows, i) = k
  <2>2. \A k \in 1 .. n : p[k] = q(k)
    BY <1>5
  <2> HIDE DEF n, q
  <2>3. TomlOf(rows) = [k \in 1 .. n |-> Untagged(rows[q(k)])]
    BY <1>1, <2>1, Zenon DEF q
  <2> QED
    BY <2>2, <2>3
<1> QED
  BY <1>4, <1>6

LEMMA TomlTyped ==
    ASSUME NEW ss, NEW rows \in Seq(CaseRow(ss))
    PROVE  TomlOf(rows) \in Seq(CaseRow(ss))
<1>1. PICK p : /\ IsOrder(p, Len(rows))
               /\ TomlOf(rows) = [k \in 1 .. Len(rows) |->
                                     Untagged(rows[p[k]])]
  BY TomlIsReordered
<1>2. \A c \in CaseRow(ss) : Untagged(c) \in CaseRow(ss)
  BY DEF CaseRow, Untagged
<1>3. \A k \in 1 .. Len(rows) : Untagged(rows[p[k]]) \in CaseRow(ss)
  BY <1>1, <1>2 DEF IsOrder
<1> DEFINE n == Len(rows)
           u(k) == Untagged(rows[p[k]])
<1>4. n \in Nat /\ \A k \in 1 .. n : u(k) \in CaseRow(ss)
  BY <1>3
<1> HIDE DEF n, u
<1>5. [k \in 1 .. n |-> u(k)] \in Seq(CaseRow(ss))
  BY <1>4
<1> QED
  BY <1>1, <1>5 DEF n, u

-----------------------------------------------------------------------------
(* Types.                                                                  *)

TableTyped(t) == \A key \in DOMAIN t : t[key].tags \subseteq TagSet

TInv ==
    /\ corpus \in Corpora /\ args \in [route: Routes, limit: Limits]
    /\ pc \in {"idle", "scrape", "insert", "seed", "done"}
    /\ at \in Nat \ {0} /\ starts \in 0 .. MaxStart
    /\ taken \in [Function -> Nat] /\ cases \in Seq(CaseRow(corpus))
    /\ TableTyped(tx) /\ TableTyped(table) /\ TableTyped(before)

LEMMA EmptyTyped == TableTyped(<<>>)
BY DEF TableTyped

LEMMA UpsertTyped ==
    ASSUME NEW rows, TableTyped(rows), NEW ss, NEW c \in CaseRow(ss)
    PROVE  TableTyped(Upserted(rows, c))
BY DEF TableTyped, Upserted, CaseRow, Row

LEMMA Constants ==
    /\ MaxCalls \in Nat /\ MaxStart \in Nat
    /\ Function \subseteq Nat /\ None \notin Nat
    /\ Limits \subseteq Nat \cup {None}
BY ImportAssumption

LEMMA EmittedTyped ==
    ASSUME TInv, NEW stmt \in ToSet(corpus)
    PROVE  /\ [taken |-> taken, cases |-> cases] \in Sofar(corpus)
           /\ Emitted(stmt) \in Sofar(corpus)
<1> DEFINE base == [taken |-> taken, cases |-> cases]
<1>1. base \in Sofar(corpus) /\ corpus \in Corpora /\ args.limit \in Limits
  BY DEF TInv, Sofar
<1> HIDE DEF base
<1>2. PICK run : EmitRun(run, base, args.limit, stmt, corpus)
  BY <1>1, EmittedByCalls
<1>3. Len(stmt.calls) \in Nat
  BY <1>1, Statements
<1>4. EmittedFrom(base, args.limit, stmt) \in Sofar(corpus)
  <2>1. /\ run \in [0 .. Len(stmt.calls) -> Sofar(corpus)]
        /\ EmittedFrom(base, args.limit, stmt) = run[Len(stmt.calls)]
    BY <1>2, Zenon DEF EmitRun
  <2>2. Len(stmt.calls) \in 0 .. Len(stmt.calls)
    BY <1>3
  <2> QED
    BY <2>1, <2>2
<1>5. Emitted(stmt) = EmittedFrom(base, args.limit, stmt)
  BY EmittedIsFrom DEF base
<1> QED
  BY <1>1, <1>4, <1>5 DEF base

\* The statement at hand is one of the corpus.
LEMMA AtStatement ==
    ASSUME TInv, at <= Len(corpus)
    PROVE  at \in DOMAIN corpus /\ corpus[at] \in ToSet(corpus)
<1>1. corpus \in Seq(Statement) /\ at \in Nat \ {0}
  BY ImportAssumption DEF TInv
<1>2. at \in DOMAIN corpus
  BY <1>1
<1> QED
  BY <1>2 DEF ToSet

LEMMA AtCase ==
    ASSUME TInv, at <= Len(cases)
    PROVE  at \in DOMAIN cases /\ cases[at] \in CaseRow(corpus)
<1>1. cases \in Seq(CaseRow(corpus)) /\ at \in Nat \ {0}
  BY DEF TInv
<1> QED
  BY <1>1

LEMMA InitTInv == Init => TInv
<1> SUFFICES ASSUME Init PROVE TInv
  OBVIOUS
<1>1. starts \in 0 .. MaxStart /\ at \in Nat \ {0}
  BY Constants DEF Init
<1>2. taken \in [Function -> Nat] /\ cases \in Seq(CaseRow(corpus))
  BY DEF Init
<1>3. TableTyped(tx) /\ TableTyped(table) /\ TableTyped(before)
  BY EmptyTyped DEF Init
<1> QED
  BY <1>1, <1>2, <1>3 DEF Init, TInv

LEMMA StepTInv == TInv /\ [Next]_vars => TInv'
<1> SUFFICES ASSUME TInv, [Next]_vars PROVE TInv'
  OBVIOUS
<1>1. CASE Start
  <2>1. /\ starts \in 0 .. MaxStart /\ starts < MaxStart
        /\ starts' = starts + 1 /\ at' = 1 /\ pc' = "scrape" /\ cases' = <<>>
        /\ taken' = [f \in Function |-> 0]
        /\ UNCHANGED <<tx, table>>
        /\ before' \in {table, before}
    BY <1>1 DEF Start, TInv
  <2>2. corpus' \in Corpora /\ args' \in [route: Routes, limit: Limits]
    BY <1>1 DEF Start, TInv
  <2>3. starts' \in 0 .. MaxStart
    BY <2>1, Constants
  <2>4. TableTyped(tx') /\ TableTyped(table') /\ TableTyped(before')
    BY <2>1 DEF TInv
  <2>5. /\ taken' \in [Function -> Nat]
        /\ cases' \in Seq(CaseRow(corpus'))
    BY <2>1
  <2> QED
    BY <2>1, <2>2, <2>3, <2>4, <2>5 DEF TInv, TableTyped, CaseRow, ToSet
<1>2. CASE ScrapeStatement
  <2>1. /\ UNCHANGED <<corpus, args, pc, tx, table, before, starts>>
        /\ at <= Len(corpus) /\ at' = at + 1
    BY <1>2 DEF ScrapeStatement
  <2>2. taken' \in [Function -> Nat] /\ cases' \in Seq(CaseRow(corpus))
    <3>1. CASE Skipped(corpus[at])
      BY <1>2, <3>1 DEF ScrapeStatement, TInv
    <3>2. CASE ~Skipped(corpus[at])
      <4>1. Emitted(corpus[at]) \in Sofar(corpus)
        BY <2>1, AtStatement, EmittedTyped
      <4>2. taken' = Emitted(corpus[at]).taken /\ cases' = Emitted(corpus[at]).cases
        BY <1>2, <3>2, Zenon DEF ScrapeStatement
      <4> QED
        BY <4>1, <4>2 DEF Sofar
    <3> QED
      BY <3>1, <3>2
  <2>3. at' \in Nat \ {0}
    BY <2>1 DEF TInv
  <2> QED
    BY <2>1, <2>2, <2>3 DEF TInv, TableTyped, CaseRow
<1>3. CASE EndScrape
  <2>1. /\ UNCHANGED <<corpus, args, taken, table, before, starts>>
        /\ at' = 1 /\ pc' \in {"insert", "seed"}
        /\ tx' \in {tx, table} /\ cases' \in {cases, TomlOf(cases)}
    BY <1>3 DEF EndScrape
  <2>2. cases \in Seq(CaseRow(corpus))
    BY DEF TInv
  <2>3. cases' \in Seq(CaseRow(corpus))
    BY <2>1, <2>2, TomlTyped
  <2> QED
    BY <2>1, <2>3 DEF TInv, TableTyped, CaseRow
<1>4. CASE InsertCase \/ SeedCase
  <2>1. /\ UNCHANGED <<corpus, args, pc, taken, cases, before, starts>>
        /\ at <= Len(cases) /\ at' = at + 1
        /\ tx' \in {tx, Upserted(tx, cases[at])}
        /\ table' \in {table, Upserted(table, cases[at])}
    BY <1>4 DEF InsertCase, SeedCase
  <2>2. TableTyped(tx') /\ TableTyped(table')
    BY <2>1, AtCase, UpsertTyped DEF TInv
  <2>3. at' \in Nat \ {0}
    BY <2>1 DEF TInv
  <2> QED
    BY <2>1, <2>2, <2>3 DEF TInv, TableTyped, CaseRow
<1>5. CASE Commit \/ EndSeed \/ Crash
  <2>1. /\ UNCHANGED <<corpus, args, at, taken, cases, before, starts>>
        /\ pc' \in {"idle", "done"}
        /\ tx' \in {tx, <<>>} /\ table' \in {table, tx}
    BY <1>5 DEF Commit, EndSeed, Crash
  <2>2. TableTyped(tx') /\ TableTyped(table')
    BY <2>1, EmptyTyped DEF TInv
  <2> QED
    BY <2>1, <2>2 DEF TInv, TableTyped, CaseRow
<1>6. CASE UNCHANGED vars
  BY <1>6 DEF vars, TInv, TableTyped, CaseRow
<1> QED
  BY <1>1, <1>2, <1>3, <1>4, <1>5, <1>6 DEF Next

\* Every case comes from a statement of the corpus for a function of
\* interest, and every row of the table, of the open transaction and of the
\* table before has tags the scraper knows.  (TypeOK)
THEOREM ImportTypes == Spec => []TypeOK
<1>1. TInv => TypeOK
  <2> SUFFICES ASSUME TInv PROVE TypeOK
    OBVIOUS
  <2>1. \A c \in ToSet(cases) : c \in CaseRow(corpus)
    BY DEF TInv, ToSet
  <2>2. \A c \in ToSet(cases) :
          /\ c.fn \in Function /\ c.stmt \in ToSet(corpus)
          /\ c.tags \subseteq Leaves \cup {"pg_only", "fixture_bad"}
    BY <2>1 DEF CaseRow, TagSet
  <2>3. \A t \in {tx, table, before} : \A key \in DOMAIN t :
          t[key].tags \subseteq Leaves \cup {"pg_only", "fixture_bad"}
    BY DEF TInv, TableTyped, TagSet
  <2> QED
    BY <2>2, <2>3 DEF TInv, TypeOK
<1> QED
  BY <1>1, InitTInv, StepTInv, PTL DEF Spec

-----------------------------------------------------------------------------
(* The scraper is deterministic: repeating an import offers the same cases. *)

Nothing == [taken |-> [f \in Function |-> 0], cases |-> <<>>]

AfterOne(acc, limit, stmt) ==
    IF Skipped(stmt) THEN acc ELSE EmittedFrom(acc, limit, stmt)

Chain(run, ss, limit, k) ==
    /\ run[0] = Nothing
    /\ \A i \in 1 .. k : run[i] = AfterOne(run[i - 1], limit, ss[i])

\* acc is what the scraper has after k statements of ss.
Scraped(acc, ss, limit, k) ==
    \E run : Chain(run, ss, limit, k) /\ run[k] = acc

LEMMA ScrapedNone ==
    ASSUME NEW ss, NEW limit
    PROVE  Scraped(Nothing, ss, limit, 0)
<1> DEFINE run == [i \in {0} |-> Nothing]
<1>1. run[0] = Nothing
  OBVIOUS
<1> HIDE DEF run
<1>2. Chain(run, ss, limit, 0)
  BY <1>1 DEF Chain
<1> QED
  BY <1>1, <1>2 DEF Scraped

LEMMA ScrapedNext ==
    ASSUME NEW acc, NEW ss, NEW limit, NEW k \in Nat,
           Scraped(acc, ss, limit, k)
    PROVE  Scraped(AfterOne(acc, limit, ss[k + 1]), ss, limit, k + 1)
<1>1. PICK run : Chain(run, ss, limit, k) /\ run[k] = acc
  BY DEF Scraped
<1> DEFINE new == AfterOne(acc, limit, ss[k + 1])
           more == [i \in 0 .. k + 1 |-> IF i = k + 1 THEN new ELSE run[i]]
<1>2. /\ \A i \in 0 .. k : more[i] = run[i]
      /\ more[k + 1] = new
  OBVIOUS
<1> HIDE DEF more
<1>3. more[0] = Nothing
  BY <1>1, <1>2 DEF Chain
<1>4. ASSUME NEW i \in 1 .. k + 1
      PROVE  more[i] = AfterOne(more[i - 1], limit, ss[i])
  <2>1. CASE i = k + 1
    <3>1. i - 1 = k /\ k \in 0 .. k
      BY <2>1
    <3> QED
      BY <1>1, <1>2, <2>1, <3>1
  <2>2. CASE i # k + 1
    <3>1. i \in 1 .. k /\ i \in 0 .. k /\ i - 1 \in 0 .. k
      BY <2>2
    <3> QED
      BY <1>1, <1>2, <3>1 DEF Chain
  <2> QED
    BY <2>1, <2>2
<1>5. Chain(more, ss, limit, k + 1)
  BY <1>3, <1>4 DEF Chain
<1> QED
  BY <1>2, <1>5 DEF Scraped

LEMMA ScrapedOnce ==
    ASSUME NEW ss, NEW limit, NEW k \in Nat,
           NEW a, Scraped(a, ss, limit, k), NEW b, Scraped(b, ss, limit, k)
    PROVE  a = b
<1>1. PICK run : Chain(run, ss, limit, k) /\ run[k] = a
  BY DEF Scraped
<1>2. PICK again : Chain(again, ss, limit, k) /\ again[k] = b
  BY DEF Scraped
<1> DEFINE Good == {i \in 0 .. k : run[i] = again[i]}
<1>3. 0 \in Good
  BY <1>1, <1>2 DEF Chain
<1>4. ASSUME NEW i \in 1 .. k, i - 1 \in Good PROVE i \in Good
  BY <1>1, <1>2, <1>4 DEF Chain
<1>5. \A i \in 0 .. k : i \in Good
  <2> HIDE DEF Good
  <2> QED
    BY <1>3, <1>4, Upto
<1>6. run[k] = again[k]
  BY <1>5
<1> QED
  BY <1>1, <1>2, <1>6

\* What a finished scrape of ss hands to seed.
SeedList(c, ss, limit) ==
    \E acc : Scraped(acc, ss, limit, Len(ss)) /\ c = TomlOf(acc.cases)

LEMMA SeedListOnce ==
    ASSUME NEW ss \in Corpora, NEW limit,
           NEW c, SeedList(c, ss, limit), NEW d, SeedList(d, ss, limit)
    PROVE  c = d
<1>1. Len(ss) \in Nat
  <2>1. ss \in Seq(Statement)
    BY ImportAssumption
  <2> QED
    BY <2>1
<1>2. PICK a : Scraped(a, ss, limit, Len(ss)) /\ c = TomlOf(a.cases)
  BY DEF SeedList
<1>3. PICK b : Scraped(b, ss, limit, Len(ss)) /\ d = TomlOf(b.cases)
  BY DEF SeedList
<1>4. a = b
  BY <1>1, <1>2, <1>3, ScrapedOnce
<1> QED
  BY <1>2, <1>3, <1>4

-----------------------------------------------------------------------------
(* What becomes of the table.                                              *)

\* The keys of the first k cases, and the claims to one of them.
Keys(c, k) == {Key(c[i]) : i \in 1 .. k}

LastClaim(c, k, key, i) ==
    /\ i \in 1 .. k /\ Key(c[i]) = key
    /\ \A j \in 1 .. k : Key(c[j]) = key => j <= i

FirstClaim(c, key, i) ==
    /\ i \in 1 .. Len(c) /\ Key(c[i]) = key
    /\ \A j \in 1 .. Len(c) : Key(c[j]) = key => i <= j

LEMMA KeysNext ==
    ASSUME NEW c, NEW k \in Nat
    PROVE  Keys(c, k + 1) = Keys(c, k) \cup {Key(c[k + 1])}
<1>1. 1 .. k + 1 = (1 .. k) \cup {k + 1}
  OBVIOUS
<1> QED
  BY <1>1 DEF Keys

LEMMA LastNext ==
    ASSUME NEW c, NEW k \in Nat, NEW key
    PROVE  /\ key = Key(c[k + 1]) => LastClaim(c, k + 1, key, k + 1)
           /\ \A i : key # Key(c[k + 1]) /\ LastClaim(c, k, key, i)
                        => LastClaim(c, k + 1, key, i)
BY DEF LastClaim

\* The rows b with the first k cases put over them.
Imported(t, b, c, k) ==
    /\ DOMAIN t = DOMAIN b \cup Keys(c, k)
    /\ \A key \in Keys(c, k) :
          \E i : LastClaim(c, k, key, i) /\ t[key] = Row(c[i])
    /\ \A key \in DOMAIN t \ Keys(c, k) : t[key] = b[key]

LEMMA ImportedNone ==
    ASSUME NEW b, NEW c
    PROVE  Imported(b, b, c, 0)
BY DEF Imported, Keys

LEMMA UpsertedRows ==
    ASSUME NEW t, NEW c
    PROVE  /\ DOMAIN Upserted(t, c) = DOMAIN t \cup {Key(c)}
           /\ Upserted(t, c)[Key(c)] = Row(c)
           /\ \A key \in DOMAIN t : key # Key(c) =>
                    Upserted(t, c)[key] = t[key]
BY DEF Upserted

LEMMA ImportedNext ==
    ASSUME NEW t, NEW b, NEW c, NEW k \in Nat, Imported(t, b, c, k)
    PROVE  Imported(Upserted(t, c[k + 1]), b, c, k + 1)
<1> DEFINE x == c[k + 1]
           u == Upserted(t, x)
           new == Key(x)
<1>1. /\ DOMAIN u = DOMAIN t \cup {new} /\ u[new] = Row(x)
      /\ \A key \in DOMAIN t : key # new => u[key] = t[key]
  BY UpsertedRows
<1>2. Keys(c, k + 1) = Keys(c, k) \cup {new}
  BY KeysNext
<1> HIDE DEF u
<1>3. ASSUME NEW key \in Keys(c, k + 1)
      PROVE  \E i : LastClaim(c, k + 1, key, i) /\ u[key] = Row(c[i])
  <2>1. CASE key = new
    BY <1>1, <2>1, LastNext
  <2>2. CASE key # new
    <3>1. key \in Keys(c, k) /\ key \in DOMAIN t
      BY <1>2, <1>3, <2>2 DEF Imported
    <3>2. PICK i : LastClaim(c, k, key, i) /\ t[key] = Row(c[i])
      BY <3>1 DEF Imported
    <3> QED
      BY <1>1, <2>2, <3>1, <3>2, LastNext
  <2> QED
    BY <2>1, <2>2
<1>4. ASSUME NEW key \in DOMAIN u, key \notin Keys(c, k + 1)
      PROVE  u[key] = b[key]
  BY <1>1, <1>2, <1>4 DEF Imported
<1>5. DOMAIN u = DOMAIN b \cup Keys(c, k + 1)
  BY <1>1, <1>2 DEF Imported
<1> HIDE DEF x
<1>6. Imported(u, b, c, k + 1)
  BY <1>3, <1>4, <1>5 DEF Imported
<1> QED
  BY <1>6 DEF u, x

\* What seed has done to the keys of the first k cases, in this attempt.
Seeded(t, c, k, route) ==
    \A key \in Keys(c, k) :
        /\ key \in DOMAIN t
        /\ route # "toml" => \E i : LastClaim(c, k, key, i) /\ t[key] = Row(c[i])

\* What it may have done to the rows b in this attempt and those before.
Reached(t, b, c, route) ==
    /\ DOMAIN b \subseteq DOMAIN t
    /\ DOMAIN t \subseteq DOMAIN b \cup Keys(c, Len(c))
    /\ \A key \in DOMAIN b :
          route = "toml" \/ key \notin Keys(c, Len(c)) => t[key] = b[key]
    /\ route = "toml" =>
          \A key \in DOMAIN t \ DOMAIN b :
              \E i : FirstClaim(c, key, i) /\ t[key] = Row(c[i])

LEMMA ReachedNone ==
    ASSUME NEW b, NEW c, NEW route
    PROVE  Reached(b, b, c, route) /\ Seeded(b, c, 0, route)
BY DEF Reached, Seeded, Keys

SeedRow(t, x, route) ==
    IF route = "toml" /\ Key(x) \in DOMAIN t THEN t ELSE Upserted(t, x)

LEMMA SeededNext ==
    ASSUME NEW t, NEW c, NEW k \in Nat, NEW route, Seeded(t, c, k, route)
    PROVE  Seeded(SeedRow(t, c[k + 1], route), c, k + 1, route)
<1> DEFINE x == c[k + 1]
           u == SeedRow(t, x, route)
           new == Key(x)
<1>1. Keys(c, k + 1) = Keys(c, k) \cup {new}
  BY KeysNext
<1>2. /\ DOMAIN Upserted(t, x) = DOMAIN t \cup {new}
      /\ Upserted(t, x)[new] = Row(x)
      /\ \A key \in DOMAIN t : key # new => Upserted(t, x)[key] = t[key]
  BY UpsertedRows
<1>3. /\ DOMAIN u = DOMAIN t \cup {new}
      /\ route # "toml" => /\ u[new] = Row(x)
                           /\ \A key \in DOMAIN t : key # new => u[key] = t[key]
  BY <1>2 DEF SeedRow
<1> HIDE DEF u
<1>4. ASSUME NEW key \in Keys(c, k + 1), route # "toml"
      PROVE  \E i : LastClaim(c, k + 1, key, i) /\ u[key] = Row(c[i])
  <2>1. CASE key = new
    BY <1>3, <1>4, <2>1, LastNext
  <2>2. CASE key # new
    <3>1. key \in Keys(c, k)
      BY <1>1, <1>4, <2>2
    <3>2. key \in DOMAIN t
      BY <3>1 DEF Seeded
    <3>3. PICK i : LastClaim(c, k, key, i) /\ t[key] = Row(c[i])
      BY <1>4, <3>1 DEF Seeded
    <3> QED
      BY <1>3, <1>4, <2>2, <3>2, <3>3, LastNext
  <2> QED
    BY <2>1, <2>2
<1>5. \A key \in Keys(c, k + 1) : key \in DOMAIN u
  BY <1>1, <1>3 DEF Seeded
<1> HIDE DEF x
<1>6. Seeded(u, c, k + 1, route)
  BY <1>4, <1>5 DEF Seeded
<1> QED
  BY <1>6 DEF u, x

LEMMA ReachedNext ==
    ASSUME NEW t, NEW b, NEW c, NEW k \in Nat, NEW route, Len(c) \in Nat,
           k < Len(c), Seeded(t, c, k, route), Reached(t, b, c, route)
    PROVE  Reached(SeedRow(t, c[k + 1], route), b, c, route)
<1> DEFINE x == c[k + 1]
           u == SeedRow(t, x, route)
           new == Key(x)
<1>1. new \in Keys(c, Len(c))
  BY DEF Keys
<1>2. CASE route = "toml" /\ new \in DOMAIN t
  BY <1>2 DEF SeedRow
<1>3. CASE ~(route = "toml" /\ new \in DOMAIN t)
  <2>1. u = Upserted(t, x)
    BY <1>3 DEF SeedRow
  <2>2. /\ DOMAIN u = DOMAIN t \cup {new} /\ u[new] = Row(x)
        /\ \A key \in DOMAIN t : key # new => u[key] = t[key]
    <3> HIDE DEF u, x
    <3> QED
      BY <2>1, UpsertedRows
  <2> HIDE DEF u
  <2>3. /\ DOMAIN b \subseteq DOMAIN u
        /\ DOMAIN u \subseteq DOMAIN b \cup Keys(c, Len(c))
    BY <1>1, <2>2 DEF Reached
  <2>4. ASSUME NEW key \in DOMAIN b,
               route = "toml" \/ key \notin Keys(c, Len(c))
        PROVE  u[key] = b[key]
    <3>1. key \in DOMAIN t /\ t[key] = b[key]
      BY <2>4 DEF Reached
    <3>2. key # new
      BY <1>1, <1>3, <2>4, <3>1
    <3> QED
      BY <2>2, <3>1, <3>2
  <2>5. ASSUME route = "toml", NEW key \in DOMAIN u \ DOMAIN b
        PROVE  \E i : FirstClaim(c, key, i) /\ u[key] = Row(c[i])
    <3>1. CASE key = new
      <4>1. \A j \in 1 .. k : Key(c[j]) # new
        BY <1>3, <2>5 DEF Seeded, Keys
      <4>2. ASSUME NEW j \in 1 .. Len(c), Key(c[j]) = new PROVE k + 1 <= j
        <5>1. ~(j \in 1 .. k)
          BY <4>1, <4>2
        <5> QED
          BY <5>1
      <4>3. k + 1 \in 1 .. Len(c)
        OBVIOUS
      <4>4. FirstClaim(c, key, k + 1)
        BY <3>1, <4>2, <4>3 DEF FirstClaim
      <4> QED
        BY <2>2, <3>1, <4>4
    <3>2. CASE key # new
      <4>1. key \in DOMAIN t \ DOMAIN b
        BY <2>2, <2>5, <3>2
      <4>2. PICK i : FirstClaim(c, key, i) /\ t[key] = Row(c[i])
        BY <2>5, <4>1 DEF Reached
      <4> QED
        BY <2>2, <3>2, <4>1, <4>2
    <3> QED
      BY <3>1, <3>2
  <2> HIDE DEF x
  <2>6. Reached(u, b, c, route)
    BY <2>3, <2>4, <2>5 DEF Reached
  <2> QED
    BY <2>6 DEF u, x
<1> QED
  BY <1>2, <1>3

\* What a finished import has made of the rows b.
ImportDone(t, b, c, route) ==
    /\ DOMAIN t = DOMAIN b \cup Keys(c, Len(c))
    /\ \A key \in DOMAIN t :
          IF key \notin Keys(c, Len(c)) \/ (route = "toml" /\ key \in DOMAIN b)
          THEN t[key] = b[key]
          ELSE \E i : /\ IF route = "toml" THEN FirstClaim(c, key, i)
                         ELSE LastClaim(c, Len(c), key, i)
                      /\ t[key] = Row(c[i])

LEMMA ImportedAll ==
    ASSUME NEW t, NEW b, NEW c, Imported(t, b, c, Len(c)),
           NEW route, route # "toml"
    PROVE  ImportDone(t, b, c, route)
BY DEF Imported, ImportDone

LEMMA SeededAll ==
    ASSUME NEW t, NEW b, NEW c, NEW route,
           Seeded(t, c, Len(c), route), Reached(t, b, c, route)
    PROVE  ImportDone(t, b, c, route)
<1>1. DOMAIN t = DOMAIN b \cup Keys(c, Len(c))
  BY DEF Seeded, Reached
<1>2. ASSUME NEW key \in DOMAIN t,
             key \notin Keys(c, Len(c)) \/ (route = "toml" /\ key \in DOMAIN b)
      PROVE  t[key] = b[key]
  BY <1>1, <1>2 DEF Reached
<1>3. ASSUME NEW key \in DOMAIN t, key \in Keys(c, Len(c)),
             route = "toml", key \notin DOMAIN b
      PROVE  \E i : FirstClaim(c, key, i) /\ t[key] = Row(c[i])
  BY <1>3 DEF Reached
<1>4. ASSUME NEW key \in Keys(c, Len(c)), route # "toml"
      PROVE  \E i : LastClaim(c, Len(c), key, i) /\ t[key] = Row(c[i])
  BY <1>4 DEF Seeded
<1> QED
  BY <1>1, <1>2, <1>3, <1>4 DEF ImportDone

-----------------------------------------------------------------------------
(* The invariant.                                                          *)

\* Only `test-fn seed` writes outside a transaction, and it is not part of
\* an --insert-into import.
SeedIsOfToml == pc = "seed" => args.route # "insert"

\* The scraper has done the statements before the one it is at.
Scraping ==
    pc = "scrape" =>
        /\ at <= Len(corpus) + 1
        /\ Scraped([taken |-> taken, cases |-> cases],
                   corpus, args.limit, at - 1)

\* The open transaction has the cases before the one it is at.
Inserting ==
    pc = "insert" =>
        /\ args.route = "insert" /\ at <= Len(cases) + 1
        /\ Imported(tx, before, cases, at - 1)

\* So has the table, when seed runs; and seed, killed and started again,
\* gets the same cases.
Seeding ==
    pc = "seed" =>
        /\ at <= Len(cases) + 1
        /\ SeedList(cases, corpus, args.limit)
        /\ Seeded(table, cases, at - 1, args.route)

PartlySeeded ==
    pc # "done" /\ args.route # "insert" =>
        \A c : SeedList(c, corpus, args.limit) =>
                    Reached(table, before, c, args.route)

Finished == pc = "done" => ImportDone(table, before, cases, args.route)

CInv ==
    /\ TInv /\ InsertIsAtomic /\ SeedIsOfToml
    /\ Scraping /\ Inserting /\ Seeding /\ PartlySeeded /\ Finished

LEMMA InitCInv == Init => CInv
<1> SUFFICES ASSUME Init PROVE CInv
  OBVIOUS
<1>1. table = before /\ pc = "idle"
  BY DEF Init
<1> QED
  BY <1>1, InitTInv, ReachedNone
     DEF CInv, InsertIsAtomic, SeedIsOfToml, Scraping, Inserting, Seeding,
         PartlySeeded, Finished

\* Neither a program's start nor its death touches the table.
LEMMA StartCInv == ASSUME CInv, Start, TInv' PROVE CInv'
<1>1. /\ pc \in {"idle", "done"} /\ pc' = "scrape" /\ at' = 1 /\ cases' = <<>>
      /\ taken' = [f \in Function |-> 0] /\ UNCHANGED table
  BY DEF Start
<1>2. ASSUME pc = "done" PROVE PartlySeeded' /\ InsertIsAtomic'
  <2>1. before' = table
    BY <1>2 DEF Start
  <2>2. PartlySeeded' /\ InsertIsAtomic'
    BY <1>1, <2>1, ReachedNone DEF PartlySeeded, InsertIsAtomic
  <2> QED
    BY <2>2
<1>3. ASSUME pc # "done" PROVE PartlySeeded' /\ InsertIsAtomic'
  <2>1. UNCHANGED <<before, corpus, args>>
    BY <1>1, <1>3 DEF Start
  <2> QED
    BY <1>1, <1>3, <2>1 DEF CInv, PartlySeeded, InsertIsAtomic
<1>4. PartlySeeded' /\ InsertIsAtomic'
  BY <1>2, <1>3
<1>5. Scraping'
  <2>1. [taken |-> taken', cases |-> cases'] = Nothing
    BY <1>1 DEF Nothing
  <2>2. Scraped(Nothing, corpus', args'.limit, 0)
    BY ScrapedNone
  <2>3. at' - 1 = 0 /\ at' <= Len(corpus') + 1
    <3>1. corpus' \in Seq(Statement)
      BY ImportAssumption DEF TInv
    <3> QED
      BY <1>1, <3>1
  <2> QED
    BY <2>1, <2>2, <2>3 DEF Scraping
<1> QED
  BY <1>1, <1>4, <1>5 DEF CInv, SeedIsOfToml, Inserting, Seeding, Finished

\* What the step of the scraper does, in terms of the fold.
LEMMA ScrapedMore ==
    ASSUME TInv, ScrapeStatement
    PROVE  [taken |-> taken', cases |-> cases'] =
             AfterOne([taken |-> taken, cases |-> cases], args.limit,
                      corpus[at])
<1> DEFINE sofar == [taken |-> taken, cases |-> cases]
           stmt == corpus[at]
<1>1. at <= Len(corpus)
  BY DEF ScrapeStatement
<1>2. CASE Skipped(stmt)
  BY <1>2 DEF ScrapeStatement, AfterOne
<1>3. CASE ~Skipped(stmt)
  <2>1. Emitted(stmt) \in Sofar(corpus)
    BY <1>1, AtStatement, EmittedTyped
  <2>2. taken' = Emitted(stmt).taken /\ cases' = Emitted(stmt).cases
    BY <1>3, Zenon DEF ScrapeStatement
  <2>3. [taken |-> taken', cases |-> cases'] = Emitted(stmt)
    <3> HIDE DEF stmt
    <3> QED
      BY <2>1, <2>2 DEF Sofar
  <2>4. Emitted(stmt) = EmittedFrom(sofar, args.limit, stmt)
    BY EmittedIsFrom
  <2> QED
    BY <1>3, <2>3, <2>4 DEF AfterOne
<1> QED
  BY <1>2, <1>3

LEMMA ScrapeCInv == ASSUME CInv, ScrapeStatement, TInv' PROVE CInv'
<1> DEFINE sofar == [taken |-> taken, cases |-> cases]
           stmt == corpus[at]
<1>1. /\ UNCHANGED <<corpus, args, pc, table, before>>
      /\ pc = "scrape" /\ at <= Len(corpus) /\ at' = at + 1
  BY DEF ScrapeStatement
<1>2. at \in Nat \ {0} /\ Len(corpus) \in Nat
  <2>1. corpus \in Seq(Statement)
    BY ImportAssumption DEF CInv, TInv
  <2> QED
    BY <2>1 DEF CInv, TInv
<1>3. [taken |-> taken', cases |-> cases'] =
        AfterOne(sofar, args.limit, stmt)
  BY ScrapedMore DEF CInv
<1>4. Scraping'
  <2>1. Scraped(sofar, corpus, args.limit, at - 1)
    BY <1>1 DEF CInv, Scraping
  <2>2. at - 1 \in Nat /\ (at - 1) + 1 = at
    BY <1>2
  <2> HIDE DEF sofar
  <2>3. Scraped(AfterOne(sofar, args.limit, corpus[at]),
                corpus, args.limit, at)
    BY <2>1, <2>2, ScrapedNext
  <2>4. Scraped([taken |-> taken', cases |-> cases'], corpus, args.limit, at)
    BY <1>3, <2>3
  <2>5. at' - 1 = at /\ at' <= Len(corpus') + 1
    BY <1>1, <1>2
  <2> QED
    BY <1>1, <2>4, <2>5 DEF Scraping
<1> QED
  BY <1>1, <1>4
     DEF CInv, InsertIsAtomic, SeedIsOfToml, Inserting, Seeding, PartlySeeded,
         Finished

LEMMA EndScrapeCInv == ASSUME CInv, EndScrape, TInv' PROVE CInv'
<1>1. /\ UNCHANGED <<corpus, args, taken, table, before>>
      /\ pc = "scrape" /\ at > Len(corpus) /\ at' = 1
  BY DEF EndScrape
<1>2. at = Len(corpus) + 1 /\ Len(corpus) \in Nat
  <2>1. corpus \in Seq(Statement)
    BY ImportAssumption DEF CInv, TInv
  <2>2. Len(corpus) \in Nat /\ at \in Nat
    BY <2>1 DEF CInv, TInv
  <2>3. at <= Len(corpus) + 1
    BY <1>1 DEF CInv, Scraping
  <2> QED
    BY <1>1, <2>2, <2>3
<1>3. at' - 1 = 0 /\ at' <= Len(cases') + 1
  <2>1. cases' \in Seq(CaseRow(corpus'))
    BY DEF TInv
  <2> QED
    BY <1>1, <2>1
<1>4. CASE args.route = "insert"
  <2>1. pc' = "insert" /\ tx' = table /\ UNCHANGED cases
    BY <1>4 DEF EndScrape
  <2>2. tx' = before
    BY <1>1, <1>4, <2>1 DEF CInv, InsertIsAtomic
  <2>3. Inserting'
    BY <1>1, <1>3, <1>4, <2>2, ImportedNone DEF Inserting
  <2> QED
    BY <1>1, <1>4, <2>1, <2>3
       DEF CInv, InsertIsAtomic, SeedIsOfToml, Scraping, Seeding, PartlySeeded,
           Finished
<1>5. CASE args.route # "insert"
  <2>1. pc' = "seed" /\ cases' = TomlOf(cases)
    BY <1>5 DEF EndScrape
  <2>2. SeedList(cases', corpus, args.limit)
    <3>1. at - 1 = Len(corpus)
      BY <1>2
    <3>2. Scraped([taken |-> taken, cases |-> cases], corpus, args.limit,
                  Len(corpus))
      BY <1>1, <3>1 DEF CInv, Scraping
    <3>3. [taken |-> taken, cases |-> cases].cases = cases
      OBVIOUS
    <3> QED
      BY <2>1, <3>2, <3>3 DEF SeedList
  <2>3. Seeded(table, cases', 0, args.route)
    BY ReachedNone
  <2>4. Seeding'
    BY <1>1, <1>3, <2>2, <2>3 DEF Seeding
  <2> QED
    BY <1>1, <1>5, <2>1, <2>4
       DEF CInv, InsertIsAtomic, SeedIsOfToml, Scraping, Inserting,
           PartlySeeded, Finished
<1> QED
  BY <1>4, <1>5

LEMMA CaseNumbers ==
    ASSUME CInv
    PROVE  at \in Nat \ {0} /\ Len(cases) \in Nat /\ corpus \in Corpora
<1>1. cases \in Seq(CaseRow(corpus))
  BY DEF CInv, TInv
<1> QED
  BY <1>1 DEF CInv, TInv

LEMMA InsertCInv == ASSUME CInv, InsertCase, TInv' PROVE CInv'
<1>1. /\ UNCHANGED <<corpus, args, pc, cases, table, before>>
      /\ pc = "insert" /\ at <= Len(cases) /\ at' = at + 1
      /\ tx' = Upserted(tx, cases[at])
  BY DEF InsertCase
<1>2. at - 1 \in Nat /\ (at - 1) + 1 = at /\ at' - 1 = at
      /\ at' <= Len(cases) + 1
  BY <1>1, CaseNumbers
<1>3. Imported(tx, before, cases, at - 1)
  BY <1>1 DEF CInv, Inserting
<1>4. Imported(tx', before, cases, at)
  BY <1>1, <1>2, <1>3, ImportedNext
<1>5. Inserting'
  BY <1>1, <1>2, <1>4 DEF CInv, Inserting
<1> QED
  BY <1>1, <1>5
     DEF CInv, InsertIsAtomic, SeedIsOfToml, Scraping, Seeding, PartlySeeded,
         Finished

LEMMA CommitCInv == ASSUME CInv, Commit, TInv' PROVE CInv'
<1>1. /\ UNCHANGED <<corpus, args, cases, before>>
      /\ pc = "insert" /\ at > Len(cases) /\ pc' = "done" /\ table' = tx
  BY DEF Commit
<1>2. at - 1 = Len(cases)
  BY <1>1, CaseNumbers DEF CInv, Inserting
<1>3. Imported(tx, before, cases, Len(cases)) /\ args.route = "insert"
  BY <1>1, <1>2 DEF CInv, Inserting
<1>4. ImportDone(tx, before, cases, args.route)
  BY <1>3, ImportedAll
<1>5. Finished'
  BY <1>1, <1>4 DEF Finished
<1> QED
  BY <1>1, <1>5
     DEF CInv, InsertIsAtomic, SeedIsOfToml, Scraping, Inserting, Seeding,
         PartlySeeded

LEMMA SeedCInv == ASSUME CInv, SeedCase, TInv' PROVE CInv'
<1>1. /\ UNCHANGED <<corpus, args, pc, cases, before>>
      /\ pc = "seed" /\ at <= Len(cases) /\ at' = at + 1
      /\ table' = SeedRow(table, cases[at], args.route)
  BY DEF SeedCase, SeedRow
<1>2. /\ at - 1 \in Nat /\ (at - 1) + 1 = at /\ at' - 1 = at
      /\ at' <= Len(cases) + 1 /\ at - 1 < Len(cases)
  BY <1>1, CaseNumbers
<1>3. /\ SeedList(cases, corpus, args.limit) /\ args.route # "insert"
      /\ Seeded(table, cases, at - 1, args.route)
  BY <1>1 DEF CInv, Seeding, SeedIsOfToml
<1>4. Reached(table, before, cases, args.route)
  BY <1>1, <1>3 DEF CInv, PartlySeeded
<1>5. Seeded(table', cases, at, args.route)
  BY <1>1, <1>2, <1>3, SeededNext
<1>6. Reached(table', before, cases, args.route)
  BY <1>1, <1>2, <1>3, <1>4, CaseNumbers, ReachedNext
<1>7. Seeding'
  BY <1>1, <1>2, <1>3, <1>5 DEF Seeding
<1>8. PartlySeeded'
  <2>1. \A c : SeedList(c, corpus, args.limit) => c = cases
    BY <1>3, CaseNumbers, SeedListOnce
  <2> QED
    BY <1>1, <1>6, <2>1 DEF PartlySeeded
<1> QED
  BY <1>1, <1>3, <1>7, <1>8
     DEF CInv, InsertIsAtomic, SeedIsOfToml, Scraping, Inserting, Finished

LEMMA EndSeedCInv == ASSUME CInv, EndSeed, TInv' PROVE CInv'
<1>1. /\ UNCHANGED <<corpus, args, cases, table, before>>
      /\ pc = "seed" /\ at > Len(cases) /\ pc' = "done"
  BY DEF EndSeed
<1>2. at - 1 = Len(cases)
  BY <1>1, CaseNumbers DEF CInv, Seeding
<1>3. /\ SeedList(cases, corpus, args.limit) /\ args.route # "insert"
      /\ Seeded(table, cases, Len(cases), args.route)
  BY <1>1, <1>2 DEF CInv, Seeding, SeedIsOfToml
<1>4. Reached(table, before, cases, args.route)
  BY <1>1, <1>3 DEF CInv, PartlySeeded
<1>5. ImportDone(table, before, cases, args.route)
  BY <1>3, <1>4, SeededAll
<1>6. Finished'
  BY <1>1, <1>5 DEF Finished
<1> QED
  BY <1>1, <1>6
     DEF CInv, InsertIsAtomic, SeedIsOfToml, Scraping, Inserting, Seeding,
         PartlySeeded

LEMMA CrashCInv == ASSUME CInv, Crash, TInv' PROVE CInv'
<1>1. /\ UNCHANGED <<corpus, args, table, before>>
      /\ pc # "done" /\ pc' = "idle"
  BY DEF Crash
<1> QED
  BY <1>1
     DEF CInv, InsertIsAtomic, SeedIsOfToml, Scraping, Inserting, Seeding,
         PartlySeeded, Finished

LEMMA StepCInv == CInv /\ [Next]_vars => CInv'
<1> SUFFICES ASSUME CInv, [Next]_vars PROVE CInv'
  OBVIOUS
<1>1. TInv'
  BY StepTInv DEF CInv
<1>2. CASE UNCHANGED vars
  BY <1>1, <1>2
     DEF vars, CInv, InsertIsAtomic, SeedIsOfToml, Scraping, Inserting,
         Seeding, PartlySeeded, Finished
<1> QED
  BY <1>1, <1>2, StartCInv, ScrapeCInv, EndScrapeCInv, InsertCInv, CommitCInv,
     SeedCInv, EndSeedCInv, CrashCInv DEF Next

(***************************************************************************)
(* However often an import is killed and started again, nobody sees any of *)
(* its rows before it commits: until then `test_cases` is what it was when *)
(* the import was asked for.  (InsertIsAtomic, emit.rs:64-111)             *)
(***************************************************************************)
THEOREM ImportIsAtomic == Spec => []InsertIsAtomic
<1>1. CInv => InsertIsAtomic
  BY DEF CInv
<1> QED
  BY <1>1, InitCInv, StepCInv, PTL DEF Spec

LEMMA CInvTable == CInv => TableIsImport
<1> SUFFICES ASSUME CInv, pc = "done" PROVE
        /\ DOMAIN table = DOMAIN before \cup {Key(c) : c \in ToSet(cases)}
        /\ \A key \in DOMAIN table :
              table[key] =
                IF \/ Claims(key) = {}
                   \/ args.route = "toml" /\ key \in DOMAIN before
                THEN before[key] ELSE Row(cases[Winner(key)])
  BY DEF TableIsImport
<1>1. ImportDone(table, before, cases, args.route)
  BY DEF CInv, Finished
<1>2. DOMAIN cases = 1 .. Len(cases) /\ Len(cases) \in Nat
  <2>1. cases \in Seq(CaseRow(corpus))
    BY DEF CInv, TInv
  <2> QED
    BY <2>1
<1> DEFINE keys == Keys(cases, Len(cases))
<1>3. keys = {Key(c) : c \in ToSet(cases)}
  BY <1>2 DEF Keys, ToSet
<1>4. \A key : Claims(key) = {} <=> key \notin keys
  BY <1>2 DEF Claims, Keys
<1>5. ASSUME NEW key, NEW i, args.route = "toml", FirstClaim(cases, key, i)
      PROVE  Winner(key) = i
  <2>1. i \in Claims(key) /\ \A j \in Claims(key) : i <= j
    BY <1>2, <1>5 DEF FirstClaim, Claims
  <2>2. \A x, y \in Claims(key) : x <= y /\ y <= x => x = y
    BY <1>2 DEF Claims
  <2>3. Winner(key) = CHOOSE x \in Claims(key) : \A j \in Claims(key) : x <= j
    BY <1>5 DEF Winner
  <2> HIDE DEF Claims
  <2> QED
    BY <2>1, <2>2, <2>3
<1>6. ASSUME NEW key, NEW i, args.route # "toml",
             LastClaim(cases, Len(cases), key, i)
      PROVE  Winner(key) = i
  <2>1. i \in Claims(key) /\ \A j \in Claims(key) : i >= j
    BY <1>2, <1>6 DEF LastClaim, Claims
  <2>2. \A x, y \in Claims(key) : x >= y /\ y >= x => x = y
    BY <1>2 DEF Claims
  <2>3. Winner(key) = CHOOSE x \in Claims(key) : \A j \in Claims(key) : x >= j
    BY <1>6 DEF Winner
  <2> HIDE DEF Claims
  <2> QED
    BY <2>1, <2>2, <2>3
<1> HIDE DEF keys
<1>7. DOMAIN table = DOMAIN before \cup keys
  BY <1>1 DEF ImportDone, keys
<1>8. ASSUME NEW key \in DOMAIN table
      PROVE  table[key] =
               IF \/ Claims(key) = {}
                  \/ args.route = "toml" /\ key \in DOMAIN before
               THEN before[key] ELSE Row(cases[Winner(key)])
  <2>1. CASE key \notin keys \/ (args.route = "toml" /\ key \in DOMAIN before)
    BY <1>1, <1>4, <1>8, <2>1 DEF ImportDone, keys
  <2>2. CASE ~(key \notin keys \/ (args.route = "toml" /\ key \in DOMAIN before))
    <3>1. PICK i : /\ IF args.route = "toml" THEN FirstClaim(cases, key, i)
                      ELSE LastClaim(cases, Len(cases), key, i)
                   /\ table[key] = Row(cases[i])
      BY <1>1, <1>8, <2>2 DEF ImportDone, keys
    <3>2. Winner(key) = i
      BY <1>5, <1>6, <3>1
    <3> QED
      BY <1>4, <2>2, <3>1, <3>2
  <2> QED
    BY <2>1, <2>2
<1> QED
  BY <1>3, <1>7, <1>8

(***************************************************************************)
(* However often an import is killed and repeated, when it is finished the *)
(* table has its keys, each with the row of the claim that is to win, and  *)
(* every other row as it was before.  (TableIsImport, seed.rs:69-108,      *)
(* emit.rs:64-111)                                                         *)
(***************************************************************************)
THEOREM ImportTable == Spec => []TableIsImport
BY CInvTable, InitCInv, StepCInv, PTL DEF Spec

-----------------------------------------------------------------------------
(* Where --limit cuts off.                                                 *)

\* The calls of f that the statements offer, and those of them before the
\* statement k or among the first i calls of it.
Offers(ss, f) ==
    {o \in (DOMAIN ss) \X (1 .. MaxCalls) :
        ~Skipped(ss[o[1]]) /\ o[2] <= Len(ss[o[1]].calls)
                           /\ ss[o[1]].calls[o[2]] = f}

Offered(ss, f, k, i) ==
    {o \in Offers(ss, f) : o[1] < k \/ (o[1] = k /\ o[2] <= i)}

\* Positions of the cases of f.
Of(rows, f) == {i \in DOMAIN rows : rows[i].fn = f}

\* t is n, cut at the limit.
IsCut(t, limit, n) ==
    IF limit = None THEN t = n
    ELSE t = (IF limit <= n THEN limit ELSE n)

Counted(acc, ss, limit, k, i) ==
    \A f \in Function :
        /\ acc.taken[f] = Cardinality(Of(acc.cases, f))
        /\ IsCut(acc.taken[f], limit, Cardinality(Offered(ss, f, k, i)))

LEMMA OffersFinite ==
    ASSUME NEW ss \in Corpora, NEW f, NEW k, NEW i
    PROVE  /\ IsFiniteSet(Offered(ss, f, k, i))
           /\ Cardinality(Offered(ss, f, k, i)) \in Nat
<1>1. Len(ss) \in Nat /\ DOMAIN ss = 1 .. Len(ss)
  <2>1. ss \in Seq(Statement)
    BY ImportAssumption
  <2> QED
    BY <2>1
<1>2. IsFiniteSet(DOMAIN ss) /\ IsFiniteSet(1 .. MaxCalls)
  BY <1>1, Constants, FS_Interval
<1>3. IsFiniteSet((DOMAIN ss) \X (1 .. MaxCalls))
  BY <1>2, FS_Product
<1>4. Offered(ss, f, k, i) \subseteq (DOMAIN ss) \X (1 .. MaxCalls)
  BY DEF Offered, Offers
<1> QED
  BY <1>3, <1>4, FS_Subset, FS_CardinalityType

LEMMA OfFinite ==
    ASSUME NEW ss, NEW rows \in Seq(CaseRow(ss)), NEW f
    PROVE  /\ IsFiniteSet(Of(rows, f))
           /\ Cardinality(Of(rows, f)) \in Nat
<1>1. Len(rows) \in Nat /\ DOMAIN rows = 1 .. Len(rows)
  OBVIOUS
<1>2. IsFiniteSet(1 .. Len(rows))
  BY <1>1, FS_Interval
<1>3. Of(rows, f) \subseteq 1 .. Len(rows)
  BY <1>1 DEF Of
<1> QED
  BY <1>2, <1>3, FS_Subset, FS_CardinalityType

\* One more call offered, and one more case.
LEMMA OfferedNext ==
    ASSUME NEW ss \in Corpora, NEW k \in DOMAIN ss, ~Skipped(ss[k]),
           NEW i \in 1 .. Len(ss[k].calls), NEW f
    PROVE  Cardinality(Offered(ss, f, k, i)) =
             Cardinality(Offered(ss, f, k, i - 1))
               + (IF ss[k].calls[i] = f THEN 1 ELSE 0)
<1>1. /\ Len(ss[k].calls) \in Nat /\ Len(ss[k].calls) <= MaxCalls
      /\ MaxCalls \in Nat /\ i \in Nat
  BY Statements, Constants DEF ToSet
<1>2. <<k, i>> \notin Offered(ss, f, k, i - 1)
  BY <1>1 DEF Offered
<1>3. IsFiniteSet(Offered(ss, f, k, i - 1))
  BY OffersFinite
<1>4. CASE ss[k].calls[i] = f
  <2>1. <<k, i>> \in Offers(ss, f)
    <3>1. i \in 1 .. MaxCalls /\ i <= Len(ss[k].calls)
      BY <1>1
    <3>2. <<k, i>>[1] = k /\ <<k, i>>[2] = i
      OBVIOUS
    <3>3. <<k, i>> \in (DOMAIN ss) \X (1 .. MaxCalls)
      BY <3>1
    <3> QED
      BY <1>4, <3>1, <3>2, <3>3, Zenon DEF Offers
  <2>2. Offered(ss, f, k, i) = Offered(ss, f, k, i - 1) \cup {<<k, i>>}
    <3>1. ASSUME NEW o \in Offers(ss, f)
          PROVE  /\ o = <<o[1], o[2]>> /\ o[2] \in Nat
      BY DEF Offers
    <3>2. ASSUME NEW o \in Offers(ss, f)
          PROVE  (o[1] < k \/ (o[1] = k /\ o[2] <= i)) <=>
                   \/ o[1] < k \/ (o[1] = k /\ o[2] <= i - 1)
                   \/ o = <<k, i>>
      BY <1>1, <3>1
    <3> QED
      BY <2>1, <3>2 DEF Offered
  <2>3. Cardinality(Offered(ss, f, k, i)) =
          Cardinality(Offered(ss, f, k, i - 1)) + 1
    BY <1>2, <1>3, <2>2, FS_AddElement
  <2> QED
    BY <1>4, <2>3
<1>5. CASE ss[k].calls[i] # f
  <2>1. ASSUME NEW o \in Offers(ss, f)
        PROVE  o[2] \in Nat /\ ~(o[1] = k /\ o[2] = i)
    <3>1. o[2] \in 1 .. MaxCalls /\ ss[o[1]].calls[o[2]] = f
      BY DEF Offers
    <3> QED
      BY <1>5, <3>1
  <2>2. Offered(ss, f, k, i) = Offered(ss, f, k, i - 1)
    BY <1>1, <2>1 DEF Offered
  <2>3. Cardinality(Offered(ss, f, k, i - 1)) \in Nat
    BY OffersFinite
  <2> QED
    BY <1>5, <2>2, <2>3
<1> QED
  BY <1>4, <1>5

LEMMA OfAppend ==
    ASSUME NEW ss, NEW rows \in Seq(CaseRow(ss)), NEW c, NEW f
    PROVE  Cardinality(Of(Append(rows, c), f)) =
             Cardinality(Of(rows, f)) + (IF c.fn = f THEN 1 ELSE 0)
<1> DEFINE n == Len(rows)
           more == Append(rows, c)
<1>1. n \in Nat /\ DOMAIN rows = 1 .. n
  OBVIOUS
<1>2. /\ DOMAIN more = 1 .. n + 1 /\ more[n + 1] = c
      /\ \A i \in 1 .. n : more[i] = rows[i]
  OBVIOUS
<1> HIDE DEF more
<1>3. n + 1 \notin Of(rows, f) /\ IsFiniteSet(Of(rows, f))
      /\ Cardinality(Of(rows, f)) \in Nat
  <2>1. n + 1 \notin DOMAIN rows
    BY <1>1
  <2>2. n + 1 \notin Of(rows, f)
    BY <2>1 DEF Of
  <2> QED
    BY <2>2, OfFinite
<1> HIDE DEF n
<1>4. CASE c.fn = f
  <2>1. Of(more, f) = Of(rows, f) \cup {n + 1}
    BY <1>1, <1>2, <1>4 DEF Of
  <2>2. Cardinality(Of(more, f)) = Cardinality(Of(rows, f)) + 1
    BY <1>3, <2>1, FS_AddElement
  <2> QED
    BY <1>4, <2>2 DEF more
<1>5. CASE c.fn # f
  <2>1. Of(more, f) = Of(rows, f)
    BY <1>1, <1>2, <1>5 DEF Of
  <2> QED
    BY <1>3, <1>5, <2>1 DEF more
<1> QED
  BY <1>4, <1>5

\* Counting one more call keeps the counts cut.
LEMMA CutNext ==
    ASSUME NEW t \in Nat, NEW n \in Nat, NEW limit \in Nat \cup {None},
           IsCut(t, limit, n)
    PROVE  IF limit # None /\ t >= limit THEN IsCut(t, limit, n + 1)
           ELSE IsCut(t + 1, limit, n + 1)
<1>1. None \notin Nat
  BY Constants
<1>2. CASE limit = None
  BY <1>2 DEF IsCut
<1>3. CASE limit \in Nat /\ limit # None
  BY <1>3 DEF IsCut
<1> QED
  BY <1>2, <1>3

LEMMA EmitCounts ==
    ASSUME NEW ss \in Corpora, NEW k \in DOMAIN ss, ~Skipped(ss[k]),
           NEW limit \in Limits, NEW i \in 1 .. Len(ss[k].calls),
           NEW acc \in Sofar(ss), Counted(acc, ss, limit, k, i - 1)
    PROVE  Counted(Emit(acc, limit, ss[k], i), ss, limit, k, i)
<1> DEFINE g == ss[k].calls[i]
           c == [fn |-> g, idx |-> i, stmt |-> ss[k], tags |-> Tags(ss[k], g)]
           new == Emit(acc, limit, ss[k], i)
<1>1. /\ g \in Function /\ acc.taken \in [Function -> Nat]
      /\ acc.cases \in Seq(CaseRow(ss)) /\ limit \in Nat \cup {None}
  BY Statements, Constants DEF Sofar, ToSet
<1>2. c.fn = g
  OBVIOUS
<1>3. new = IF limit # None /\ acc.taken[g] >= limit THEN acc
            ELSE [taken |-> [acc.taken EXCEPT ![g] = @ + 1],
                  cases |-> Append(acc.cases, c)]
  BY Zenon DEF Emit
<1> HIDE DEF c, new
<1>4. ASSUME NEW f \in Function
      PROVE  /\ new.taken[f] = Cardinality(Of(new.cases, f))
             /\ IsCut(new.taken[f], limit, Cardinality(Offered(ss, f, k, i)))
  <2> DEFINE n == Cardinality(Offered(ss, f, k, i - 1))
             m == Cardinality(Offered(ss, f, k, i))
  <2>1. /\ acc.taken[f] = Cardinality(Of(acc.cases, f))
        /\ IsCut(acc.taken[f], limit, n) /\ acc.taken[f] \in Nat
    BY <1>1 DEF Counted
  <2>2. n \in Nat /\ m = n + (IF g = f THEN 1 ELSE 0)
    BY OffersFinite, OfferedNext
  <2>3. Cardinality(Of(Append(acc.cases, c), f)) =
          Cardinality(Of(acc.cases, f)) + (IF g = f THEN 1 ELSE 0)
    BY <1>1, <1>2, OfAppend
  <2> HIDE DEF n, m, g
  <2>4. CASE g # f
    <3>1. m = n
      BY <2>2, <2>4
    <3>2. Cardinality(Of(Append(acc.cases, c), f)) =
            Cardinality(Of(acc.cases, f))
      BY <2>1, <2>3, <2>4
    <3>3. [acc.taken EXCEPT ![g] = @ + 1][f] = acc.taken[f]
      BY <1>1, <2>4
    <3>4. new.taken[f] = acc.taken[f]
          /\ Cardinality(Of(new.cases, f)) = Cardinality(Of(acc.cases, f))
      BY <1>3, <3>2, <3>3
    <3> QED
      BY <2>1, <3>1, <3>4 DEF m
  <2>5. CASE g = f
    <3>1. m = n + 1
      BY <2>2, <2>5
    <3>2. IF limit # None /\ acc.taken[f] >= limit THEN IsCut(acc.taken[f], limit, m)
          ELSE IsCut(acc.taken[f] + 1, limit, m)
      BY <1>1, <2>1, <2>2, <3>1, CutNext
    <3>3. CASE limit # None /\ acc.taken[f] >= limit
      <4>1. new = acc
        BY <1>3, <2>5, <3>3
      <4> QED
        BY <2>1, <3>2, <3>3, <4>1 DEF m
    <3>4. CASE ~(limit # None /\ acc.taken[f] >= limit)
      <4>1. /\ new.taken = [acc.taken EXCEPT ![g] = @ + 1]
            /\ new.cases = Append(acc.cases, c)
        BY <1>3, <2>5, <3>4
      <4>2. new.taken[f] = acc.taken[f] + 1
        BY <1>1, <2>5, <4>1
      <4>3. Cardinality(Of(new.cases, f)) = acc.taken[f] + 1
        BY <2>1, <2>3, <2>5, <4>1
      <4> QED
        BY <3>2, <3>4, <4>2, <4>3 DEF m
    <3> QED
      BY <3>3, <3>4
  <2> QED
    BY <2>4, <2>5
<1> QED
  BY <1>4 DEF Counted, new

\* After the calls of a statement the counts are those of the next one.
LEMMA StatementCounts ==
    ASSUME NEW ss \in Corpora, NEW k \in DOMAIN ss, NEW limit \in Limits,
           NEW acc \in Sofar(ss), Counted(acc, ss, limit, k, 0)
    PROVE  Counted(AfterOne(acc, limit, ss[k]), ss, limit, k + 1, 0)
<1>1. k \in Nat /\ DOMAIN ss \subseteq Nat
  <2>1. ss \in Seq(Statement)
    BY ImportAssumption
  <2> QED
    BY <2>1
<1>2. CASE Skipped(ss[k])
  <2>1. ASSUME NEW f, NEW o \in Offers(ss, f)
        PROVE  /\ o[1] \in Nat /\ o[2] \in Nat /\ o[1] # k
               /\ o[2] > 0
    BY <1>1, <1>2 DEF Offers
  <2>2. ASSUME NEW f PROVE Offered(ss, f, k + 1, 0) = Offered(ss, f, k, 0)
    BY <1>1, <2>1 DEF Offered
  <2> QED
    BY <1>2, <2>2 DEF Counted, AfterOne
<1>3. CASE ~Skipped(ss[k])
  <2> DEFINE n == Len(ss[k].calls)
  <2>1. ss[k] \in ToSet(ss)
    BY DEF ToSet
  <2>2. PICK run : EmitRun(run, acc, limit, ss[k], ss)
    BY <2>1, EmittedByCalls
  <2>3. /\ run \in [0 .. n -> Sofar(ss)] /\ run[0] = acc
        /\ \A i \in 1 .. n : run[i] = Emit(run[i - 1], limit, ss[k], i)
        /\ EmittedFrom(acc, limit, ss[k]) = run[n]
    BY <2>2, Zenon DEF EmitRun
  <2>4. n \in Nat
    BY <2>1, Statements
  <2> HIDE DEF n
  <2> DEFINE Good == {i \in 0 .. n : Counted(run[i], ss, limit, k, i)}
  <2>5. 0 \in Good
    BY <2>3, <2>4
  <2>6. ASSUME NEW i \in 1 .. n, i - 1 \in Good
        PROVE  i \in Good
    <3>1. i - 1 \in 0 .. n /\ i \in 0 .. n
      BY <2>4
    <3>2. run[i - 1] \in Sofar(ss) /\ Counted(run[i - 1], ss, limit, k, i - 1)
      BY <2>3, <2>6, <3>1
    <3>3. Counted(Emit(run[i - 1], limit, ss[k], i), ss, limit, k, i)
      <4>1. i \in 1 .. Len(ss[k].calls)
        BY DEF n
      <4> QED
        BY <1>3, <3>2, <4>1, EmitCounts
    <3> QED
      BY <2>3, <3>1, <3>3
  <2> HIDE DEF Good
  <2>7. \A i \in 0 .. n : i \in Good
    BY <2>4, <2>5, <2>6, Upto
  <2>8. Counted(run[n], ss, limit, k, n)
    <3>1. n \in Good
      BY <2>4, <2>7
    <3> QED
      BY <3>1 DEF Good
  <2>9. ASSUME NEW f PROVE Offered(ss, f, k + 1, 0) = Offered(ss, f, k, n)
    <3>1. ASSUME NEW o \in Offers(ss, f)
          PROVE  /\ o[1] \in Nat /\ o[2] \in Nat /\ o[2] > 0
                 /\ (o[1] = k => o[2] <= n)
      BY <1>1 DEF Offers, n
    <3>2. ASSUME NEW o \in Offers(ss, f)
          PROVE  (o[1] < k + 1 \/ (o[1] = k + 1 /\ o[2] <= 0)) <=>
                   (o[1] < k \/ (o[1] = k /\ o[2] <= n))
      BY <1>1, <2>4, <3>1
    <3> QED
      BY <3>2 DEF Offered
  <2> QED
    BY <1>3, <2>3, <2>8, <2>9 DEF Counted, AfterOne
<1> QED
  BY <1>2, <1>3

\* The TOML has as many rows of every function.
LEMMA TomlCounts ==
    ASSUME NEW ss, NEW rows \in Seq(CaseRow(ss)), NEW f
    PROVE  Cardinality(Of(TomlOf(rows), f)) = Cardinality(Of(rows, f))
<1> DEFINE n == Len(rows)
           toml == TomlOf(rows)
<1>1. n \in Nat /\ DOMAIN rows = 1 .. n
  OBVIOUS
<1>2. PICK p : /\ IsOrder(p, n)
               /\ toml = [k \in 1 .. n |-> Untagged(rows[p[k]])]
  BY TomlIsReordered
<1>3. /\ p \in [1 .. n -> 1 .. n]
      /\ \A i, j \in 1 .. n : p[i] = p[j] => i = j
      /\ \A k \in 1 .. n : \E i \in 1 .. n : p[i] = k
  <2> HIDE DEF n
  <2> QED
    BY <1>2, Zenon DEF IsOrder
<1>4. \A k \in 1 .. n : toml[k].fn = rows[p[k]].fn
  <2>1. \A c \in CaseRow(ss) : Untagged(c).fn = c.fn
    BY DEF CaseRow, Untagged
  <2>2. \A k \in 1 .. n : rows[p[k]] \in CaseRow(ss)
    BY <1>1, <1>3
  <2> HIDE DEF n, toml
  <2> QED
    BY <1>2, <2>1, <2>2
<1>5. DOMAIN toml = 1 .. n
  BY <1>2
<1> HIDE DEF n, toml
<1> DEFINE S == Of(toml, f)
           T == Of(rows, f)
           q == [k \in S |-> p[k]]
<1>6. q \in [S -> T]
  BY <1>1, <1>3, <1>4, <1>5 DEF Of
<1>7. \A a, b \in S : q[a] = q[b] => a = b
  BY <1>3, <1>5 DEF Of
<1>8. ASSUME NEW t \in T PROVE \E s \in S : q[s] = t
  <2>1. t \in 1 .. n /\ rows[t].fn = f
    BY <1>1 DEF Of
  <2>2. PICK i \in 1 .. n : p[i] = t
    BY <1>3, <2>1
  <2>3. i \in S
    BY <1>4, <1>5, <2>1, <2>2 DEF Of
  <2> QED
    BY <2>2, <2>3
<1> HIDE DEF q
<1>9. q \in Bijection(S, T)
  BY <1>6, <1>7, <1>8 DEF Bijection, Injection, Surjection, IsInjective
<1>10. IsFiniteSet(S)
  <2>1. IsFiniteSet(1 .. n) /\ S \subseteq 1 .. n
    BY <1>1, <1>5, FS_Interval DEF Of
  <2> QED
    BY <2>1, FS_Subset
<1>11. ExistsBijection(S, T)
  BY <1>9 DEF ExistsBijection
<1> QED
  BY <1>10, <1>11, FS_Bijection DEF toml

\* While it scrapes, the counts are those of the statements behind.
Counting ==
    pc = "scrape" =>
        Counted([taken |-> taken, cases |-> cases], corpus, args.limit, at, 0)

\* Then they are those of all the statements.
Full ==
    pc \in {"insert", "seed", "done"} =>
        \A f \in Function :
            IsCut(Cardinality(Of(cases, f)), args.limit,
                  Cardinality(Offers(corpus, f)))

LInv == TInv /\ Counting /\ Full

LEMMA NothingCounts ==
    ASSUME NEW ss \in Corpora, NEW limit \in Limits
    PROVE  Counted(Nothing, ss, limit, 1, 0)
<1>1. DOMAIN ss \subseteq Nat \ {0}
  <2>1. ss \in Seq(Statement)
    BY ImportAssumption
  <2> QED
    BY <2>1
<1>2. limit \in Nat \cup {None} /\ None \notin Nat
  BY Constants
<1>3. ASSUME NEW f \in Function
      PROVE  Offered(ss, f, 1, 0) = {} /\ Of(<<>>, f) = {}
  <2>1. ASSUME NEW o \in Offers(ss, f)
        PROVE  ~(o[1] < 1 \/ (o[1] = 1 /\ o[2] <= 0))
    <3>1. o[1] \in Nat \ {0} /\ o[2] \in Nat \ {0}
      BY <1>1 DEF Offers
    <3> QED
      BY <3>1
  <2> QED
    BY <2>1 DEF Offered, Of
<1>4. Cardinality({}) = 0
  BY FS_EmptySet
<1>5. IsCut(0, limit, 0)
  BY <1>2 DEF IsCut
<1> QED
  BY <1>3, <1>4, <1>5 DEF Counted, Nothing

LEMMA InitLInv == Init => LInv
BY InitTInv DEF Init, LInv, Counting, Full

LEMMA StepLInv == LInv /\ [Next]_vars => LInv'
<1> SUFFICES ASSUME LInv, [Next]_vars PROVE LInv'
  OBVIOUS
<1> DEFINE sofar == [taken |-> taken, cases |-> cases]
<1>1. TInv /\ TInv'
  BY StepTInv DEF LInv
<1>2. /\ corpus \in Corpora /\ args.limit \in Limits
      /\ cases \in Seq(CaseRow(corpus)) /\ sofar \in Sofar(corpus)
  BY <1>1 DEF TInv, Sofar
<1>3. CASE Start
  <2>1. /\ [taken |-> taken', cases |-> cases'] = Nothing
        /\ at' = 1 /\ pc' = "scrape"
    BY <1>3 DEF Start, Nothing
  <2>2. corpus' \in Corpora /\ args'.limit \in Limits
    BY <1>1 DEF TInv
  <2>3. Counted(Nothing, corpus', args'.limit, 1, 0)
    BY <2>2, NothingCounts
  <2> QED
    BY <1>1, <2>1, <2>3 DEF LInv, Counting, Full
<1>4. CASE ScrapeStatement
  <2>1. /\ UNCHANGED <<corpus, args, pc>>
        /\ pc = "scrape" /\ at <= Len(corpus) /\ at' = at + 1
    BY <1>4 DEF ScrapeStatement
  <2>2. at \in DOMAIN corpus
    BY <1>1, <2>1, AtStatement
  <2>3. Counted(sofar, corpus, args.limit, at, 0)
    BY <2>1 DEF LInv, Counting
  <2>4. Counted(AfterOne(sofar, args.limit, corpus[at]), corpus, args.limit,
                at + 1, 0)
    <3> HIDE DEF sofar
    <3> QED
      BY <1>2, <2>2, <2>3, StatementCounts
  <2>5. [taken |-> taken', cases |-> cases'] =
          AfterOne(sofar, args.limit, corpus[at])
    BY <1>1, <1>4, ScrapedMore
  <2> QED
    BY <1>1, <2>1, <2>4, <2>5 DEF LInv, Counting, Full
<1>5. CASE EndScrape
  <2>1. /\ UNCHANGED <<corpus, args>>
        /\ pc = "scrape" /\ at > Len(corpus)
        /\ pc' # "scrape" /\ cases' \in {cases, TomlOf(cases)}
    BY <1>5 DEF EndScrape
  <2>2. Counted(sofar, corpus, args.limit, at, 0)
    BY <2>1 DEF LInv, Counting
  <2>3. ASSUME NEW f \in Function
        PROVE  IsCut(Cardinality(Of(cases', f)), args.limit,
                     Cardinality(Offers(corpus, f)))
    <3>1. Offered(corpus, f, at, 0) = Offers(corpus, f)
      <4>1. corpus \in Seq(Statement) /\ at \in Nat
        BY <1>1, ImportAssumption DEF TInv
      <4>2. \A k \in DOMAIN corpus : k < at
        BY <2>1, <4>1
      <4>3. \A o \in Offers(corpus, f) : o[1] \in DOMAIN corpus
        BY DEF Offers
      <4> QED
        BY <4>2, <4>3 DEF Offered
    <3>2. Cardinality(Of(cases', f)) = Cardinality(Of(cases, f))
      BY <1>2, <2>1, TomlCounts
    <3>3. taken[f] = Cardinality(Of(cases, f))
          /\ IsCut(taken[f], args.limit,
                   Cardinality(Offered(corpus, f, at, 0)))
      BY <2>2 DEF Counted
    <3> QED
      BY <3>1, <3>2, <3>3
  <2> QED
    BY <1>1, <2>1, <2>3 DEF LInv, Counting, Full
<1>6. CASE InsertCase \/ Commit \/ SeedCase \/ EndSeed
  <2>1. /\ UNCHANGED <<corpus, args, cases>>
        /\ pc \in {"insert", "seed"} /\ pc' \in {"insert", "seed", "done"}
    BY <1>6 DEF InsertCase, Commit, SeedCase, EndSeed
  <2> QED
    BY <1>1, <2>1 DEF LInv, Counting, Full
<1>7. CASE Crash
  BY <1>1, <1>7 DEF LInv, Counting, Full, Crash
<1>8. CASE UNCHANGED vars
  BY <1>1, <1>8 DEF LInv, Counting, Full, vars
<1> QED
  BY <1>3, <1>4, <1>5, <1>6, <1>7, <1>8 DEF Next

LEMMA SmallerOfTwo ==
    ASSUME NEW a \in Nat, NEW b \in Nat
    PROVE  Min({a, b}) = IF a <= b THEN a ELSE b
BY DEF Min

(***************************************************************************)
(* --limit cuts a function off exactly when it is full: when the scraper   *)
(* is through, a function has as many cases as the statements offer, or    *)
(* the limit, and grouping them into a TOML loses none.                    *)
(* (LimitCutsAtLimit, main.rs:325-344, emit.rs:23-54)                      *)
(***************************************************************************)
THEOREM LimitIsExact == Spec => []LimitCutsAtLimit
<1>1. LInv => LimitCutsAtLimit
  <2> SUFFICES ASSUME LInv, pc \in {"insert", "seed", "done"},
                      NEW f \in Function
               PROVE  LET offered == Offers(corpus, f)
                          got == Cardinality(Of(cases, f))
                      IN  IF args.limit = None THEN got = Cardinality(offered)
                          ELSE got = Min({args.limit, Cardinality(offered)})
    BY Zenon DEF LimitCutsAtLimit, Offers, Of
  <2>1. args.limit \in Nat \cup {None} /\ corpus \in Corpora
    BY Constants DEF LInv, TInv
  <2>2. Cardinality(Offers(corpus, f)) \in Nat
    <3>1. Offered(corpus, f, Len(corpus) + 1, 0) = Offers(corpus, f)
      <4>1. corpus \in Seq(Statement)
        BY <2>1, ImportAssumption
      <4>2. \A k \in DOMAIN corpus : k < Len(corpus) + 1
        BY <4>1
      <4>3. \A o \in Offers(corpus, f) : o[1] \in DOMAIN corpus
        BY DEF Offers
      <4> QED
        BY <4>2, <4>3 DEF Offered
    <3> QED
      BY <2>1, <3>1, OffersFinite
  <2>3. IsCut(Cardinality(Of(cases, f)), args.limit,
              Cardinality(Offers(corpus, f)))
    BY DEF LInv, Full
  <2> QED
    BY <2>1, <2>2, <2>3, SmallerOfTwo DEF IsCut
<1> QED
  BY <1>1, InitLInv, StepLInv, PTL DEF Spec
=============================================================================
