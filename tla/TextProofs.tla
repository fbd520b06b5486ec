----------------------------- MODULE TextProofs -----------------------------
(***************************************************************************)
(* Theorems about the text passes, for texts of any length.                *)
(***************************************************************************)
EXTENDS MCTexts, FoldLemmas

-----------------------------------------------------------------------------
(* Sequences built step by step.                                           *)

\* run[k] is what there is after k steps.
Runs(run, n, A, base, step) ==
    /\ run \in [0 .. n -> A] /\ run[0] = base
    /\ \A k \in 1 .. n : run[k] = step[k][run[k - 1]]

LEMMA RunExists ==
    ASSUME NEW n \in Nat, NEW A, NEW base \in A,
           NEW step, Steps(step, 1 .. n, A)
    PROVE  \E run : Runs(run, n, A, base, step)
<1>1. PICK h : LeftSolution(h, 1 .. n, A, base, step)
  BY LeftFold
<1>2. /\ h \in [SUBSET (1 .. n) -> A]
      /\ h[{}] = base
      /\ \A s \in SUBSET (1 .. n) :
            s # {} => h[s] = step[Max(s)][h[s \ {Max(s)}]]
  BY <1>1, Zenon DEF LeftSolution
<1> DEFINE run == [k \in 0 .. n |-> h[1 .. k]]
<1>3. \A k \in 0 .. n : 1 .. k \in SUBSET (1 .. n)
  OBVIOUS
<1>4. run \in [0 .. n -> A]
  BY <1>2, <1>3
<1>5. run[0] = base
  <2>1. 1 .. 0 = {} /\ 0 \in 0 .. n
    OBVIOUS
  <2> QED
    BY <1>2, <2>1
<1>6. ASSUME NEW k \in 1 .. n PROVE run[k] = step[k][run[k - 1]]
  <2>1. k \in Nat /\ k # 0 /\ k \in 0 .. n /\ k - 1 \in 0 .. n
    OBVIOUS
  <2>2. Max(1 .. k) = k /\ (1 .. k) \ {k} = 1 .. k - 1
    BY <2>1, PrefixMax
  <2>3. 1 .. k \in SUBSET (1 .. n) /\ 1 .. k # {}
    <3>1. k \in 1 .. k
      OBVIOUS
    <3> QED
      BY <1>3, <2>1, <3>1
  <2>4. h[1 .. k] = step[k][h[1 .. k - 1]]
    BY <1>2, <2>2, <2>3
  <2> QED
    BY <2>1, <2>4
<1> QED
  BY <1>4, <1>5, <1>6 DEF Runs

\* The equation that the local function of FlattenSeq is chosen to solve.
FlattenEquation(g, seqs) ==
    g = [i \in 1 .. Len(seqs) |->
            IF i = 1 THEN seqs[i] ELSE g[i - 1] \o seqs[i]]

Flattened(seqs) == (CHOOSE g : FlattenEquation(g, seqs))[Len(seqs)]

LEMMA FlattenIsFlattened ==
    ASSUME NEW seqs
    PROVE  FlattenSeq(seqs) = IF Len(seqs) = 0 THEN seqs ELSE Flattened(seqs)
BY Zenon DEF FlattenSeq, Flattened, FlattenEquation

\* What FlattenSeq has after k of its arguments, for every k.
Flattening(run, seqs, A) ==
    /\ run \in [0 .. Len(seqs) -> Seq(A)]
    /\ run[0] = << >>
    /\ \A k \in 1 .. Len(seqs) : run[k] = run[k - 1] \o seqs[k]
    /\ FlattenSeq(seqs) = run[Len(seqs)]

LEMMA FlattenRun ==
    ASSUME NEW A, NEW seqs \in Seq(Seq(A))
    PROVE  \E run : Flattening(run, seqs, A)
<1>10. PICK n \in Nat : Len(seqs) = n
  OBVIOUS
<1>5. DOMAIN seqs = 1 .. n /\ \A k \in 1 .. n : seqs[k] \in Seq(A)
  BY <1>10
<1> DEFINE B == Seq(A)
           step == [k \in 1 .. n |-> [x \in B |-> x \o seqs[k]]]
           none == << >>
<1>1. Steps(step, 1 .. n, B)
  BY <1>5 DEF Steps
<1>2. none \in B
  OBVIOUS
<1>3. PICK run : /\ run \in [0 .. n -> Seq(A)]
                 /\ run[0] = << >>
                 /\ \A k \in 1 .. n : run[k] = step[k][run[k - 1]]
  <2> HIDE DEF step, B, none
  <2>1. PICK run : Runs(run, n, B, none, step)
    BY <1>1, <1>2, <1>5, RunExists
  <2> QED
    BY <2>1 DEF Runs, B, none
<1>4. ASSUME NEW k \in 1 .. n PROVE run[k] = run[k - 1] \o seqs[k]
  <2>1. k - 1 \in 0 .. n
    OBVIOUS
  <2>2. run[k - 1] \in Seq(A)
    BY <1>3, <2>1
  <2> QED
    BY <1>3, <2>2
<1>6. CASE n = 0
  <2>1. seqs = << >>
    BY <1>6, <1>10
  <2>2. FlattenSeq(seqs) = run[n]
    BY <1>3, <1>6, <1>10, <2>1, FlattenIsFlattened
  <2> QED
    BY <1>3, <1>4, <1>10, <2>2 DEF Flattening
<1>7. CASE n # 0
  <2> DEFINE f == [i \in 1 .. n |-> run[i]]
             g == CHOOSE h : FlattenEquation(h, seqs)
  <2>1. FlattenEquation(f, seqs)
    <3>1. ASSUME NEW i \in 1 .. n
          PROVE  f[i] = IF i = 1 THEN seqs[i] ELSE f[i - 1] \o seqs[i]
      <4>1. CASE i = 1
        <5>1. seqs[1] \in Seq(A)
          BY <1>5, <4>1
        <5>2. run[1] = << >> \o seqs[1]
          <6>1. 1 \in 1 .. n /\ 1 - 1 = 0
            BY <4>1
          <6> QED
            BY <1>3, <1>4, <6>1
        <5> QED
          BY <4>1, <5>1, <5>2
      <4>2. CASE i # 1
        <5>1. i - 1 \in 1 .. n
          BY <4>2
        <5> QED
          BY <1>4, <4>2, <5>1
      <4> QED
        BY <4>1, <4>2
    <3> QED
      BY <1>10, <3>1 DEF FlattenEquation
  <2>2. FlattenEquation(g, seqs)
    <3> HIDE DEF f
    <3> QED
      BY <2>1
  <2>3. \A i \in 1 .. n :
           g[i] = IF i = 1 THEN seqs[i] ELSE g[i - 1] \o seqs[i]
    <3> HIDE DEF g
    <3> QED
      BY <1>10, <2>2, Zenon DEF FlattenEquation
  <2>4. \A i \in 0 .. n : i \in {k \in 0 .. n : k = 0 \/ g[k] = run[k]}
    <3> DEFINE Good == {k \in 0 .. n : k = 0 \/ g[k] = run[k]}
    <3>1. 0 \in Good
      OBVIOUS
    <3>2. ASSUME NEW i \in 1 .. n, i - 1 \in Good PROVE i \in Good
      <4>1. CASE i = 1
        <5>1. seqs[1] \in Seq(A) /\ g[1] = seqs[1]
          <6> HIDE DEF g
          <6>1. 1 \in 1 .. n
            BY <4>1
          <6> QED
            BY <1>5, <2>3, <6>1
        <5>2. run[1] = << >> \o seqs[1]
          <6>1. 1 \in 1 .. n /\ 1 - 1 = 0
            BY <4>1
          <6> QED
            BY <1>3, <1>4, <6>1
        <5> QED
          BY <4>1, <5>1, <5>2
      <4>2. CASE i # 1
        <5>1. g[i - 1] = run[i - 1]
          BY <3>2, <4>2
        <5>2. g[i] = g[i - 1] \o seqs[i]
          BY <2>3, <4>2
        <5>3. i \in 0 .. n
          OBVIOUS
        <5> HIDE DEF g
        <5> QED
          BY <1>4, <5>1, <5>2, <5>3
      <4> QED
        BY <4>1, <4>2
    <3> HIDE DEF Good
    <3>3. \A i \in 0 .. n : i \in Good
      BY <3>1, <3>2, Upto
    <3> QED
      BY <3>3 DEF Good
  <2>5. g[n] = run[n]
    BY <1>7, <2>4
  <2>6. FlattenSeq(seqs) = g[n]
    BY <1>7, <1>10, FlattenIsFlattened DEF Flattened
  <2> HIDE DEF g
  <2> QED
    BY <1>3, <1>4, <1>10, <2>5, <2>6 DEF Flattening
<1> QED
  BY <1>6, <1>7

\* Where the parts of a flattened sequence stand: e[k] is its length after k
\* of them.
Parts(e, seqs, flat) ==
    /\ e \in [0 .. Len(seqs) -> Nat] /\ e[0] = 0 /\ e[Len(seqs)] = Len(flat)
    /\ \A k \in 1 .. Len(seqs) :
          /\ e[k] = e[k - 1] + Len(seqs[k]) /\ e[k] <= Len(flat)
          /\ \A x \in 1 .. Len(seqs[k]) : flat[e[k - 1] + x] = seqs[k][x]
    /\ \A y \in 1 .. Len(flat) : \E k \in 1 .. Len(seqs) :
          \E x \in 1 .. Len(seqs[k]) : y = e[k - 1] + x

LEMMA Joined ==
    ASSUME NEW A, NEW u \in Seq(A), NEW v \in Seq(A)
    PROVE  /\ Len(u \o v) = Len(u) + Len(v)
           /\ \A x \in 1 .. Len(v) : (u \o v)[Len(u) + x] = v[x]
           /\ \A y \in 1 .. Len(u) : (u \o v)[y] = u[y]
OBVIOUS

LEMMA FlattenParts ==
    ASSUME NEW A, NEW seqs \in Seq(Seq(A))
    PROVE  /\ FlattenSeq(seqs) \in Seq(A)
           /\ \E e : Parts(e, seqs, FlattenSeq(seqs))
<1>11. PICK n \in Nat : Len(seqs) = n
  OBVIOUS
<1>1. PICK run : /\ run \in [0 .. n -> Seq(A)]
                 /\ run[0] = << >>
                 /\ \A k \in 1 .. n : run[k] = run[k - 1] \o seqs[k]
                 /\ FlattenSeq(seqs) = run[n]
  <2>1. PICK run : Flattening(run, seqs, A)
    BY FlattenRun
  <2> QED
    BY <1>11, <2>1 DEF Flattening
<1>2. Len(seqs) = n /\ \A k \in 1 .. n : seqs[k] \in Seq(A)
  BY <1>11
<1> DEFINE flat == FlattenSeq(seqs)
           e == [k \in 0 .. n |-> Len(run[k])]
<1>3. flat \in Seq(A) /\ flat = run[n]
  BY <1>1
<1> HIDE DEF flat
<1>4. e \in [0 .. n -> Nat] /\ e[0] = 0 /\ e[n] = Len(flat)
  <2>1. 0 \in 0 .. n /\ n \in 0 .. n /\ Len(run[0]) = 0
    BY <1>1, <1>2
  <2>2. \A k \in 0 .. n : Len(run[k]) \in Nat
    BY <1>1
  <2> QED
    BY <1>3, <2>1, <2>2
<1>5. ASSUME NEW k \in 1 .. n
      PROVE  /\ run[k] \in Seq(A) /\ run[k - 1] \in Seq(A) /\ seqs[k] \in Seq(A)
             /\ e[k] = e[k - 1] + Len(seqs[k])
             /\ \A x \in 1 .. Len(seqs[k]) : run[k][e[k - 1] + x] = seqs[k][x]
             /\ \A y \in 1 .. e[k - 1] : run[k][y] = run[k - 1][y]
  <2>1. k \in 0 .. n /\ k - 1 \in 0 .. n
    OBVIOUS
  <2>2. run[k] \in Seq(A) /\ run[k - 1] \in Seq(A) /\ seqs[k] \in Seq(A)
    BY <1>1, <1>2, <2>1
  <2>3. run[k] = run[k - 1] \o seqs[k]
    BY <1>1
  <2>4. e[k] = Len(run[k]) /\ e[k - 1] = Len(run[k - 1])
    BY <2>1
  <2> HIDE DEF e
  <2>5. /\ Len(run[k]) = Len(run[k - 1]) + Len(seqs[k])
        /\ \A x \in 1 .. Len(seqs[k]) :
              run[k][Len(run[k - 1]) + x] = seqs[k][x]
        /\ \A y \in 1 .. Len(run[k - 1]) : run[k][y] = run[k - 1][y]
    <3> DEFINE u == run[k - 1]
               v == seqs[k]
    <3>1. u \in Seq(A) /\ v \in Seq(A) /\ run[k] = u \o v
      BY <2>2, <2>3
    <3> HIDE DEF u, v
    <3>2. /\ Len(u \o v) = Len(u) + Len(v)
          /\ \A x \in 1 .. Len(v) : (u \o v)[Len(u) + x] = v[x]
          /\ \A y \in 1 .. Len(u) : (u \o v)[y] = u[y]
      BY <3>1, Joined
    <3>3. /\ Len(run[k]) = Len(u) + Len(v)
          /\ \A x \in 1 .. Len(v) : run[k][Len(u) + x] = v[x]
          /\ \A y \in 1 .. Len(u) : run[k][y] = u[y]
      BY <3>1, <3>2
    <3> QED
      BY <3>3 DEF u, v
  <2> QED
    BY <2>2, <2>4, <2>5
<1>6. \A k \in 0 .. n : e[k] \in Nat /\ run[k] \in Seq(A) /\ e[k] = Len(run[k])
  BY <1>1, <1>4
<1> HIDE DEF e
\* What is there after k parts stays there.
<1>7. ASSUME NEW k \in 0 .. n
      PROVE  e[k] <= e[n] /\ \A y \in 1 .. e[k] : flat[y] = run[k][y]
  <2> DEFINE Good == {d \in 0 .. n : k + d <= n =>
                         /\ e[k] <= e[k + d]
                         /\ \A y \in 1 .. e[k] : run[k + d][y] = run[k][y]}
  <2>1. 0 \in Good
    BY <1>6
  <2>2. ASSUME NEW d \in 1 .. n, d - 1 \in Good PROVE d \in Good
    <3> SUFFICES ASSUME k + d <= n
                 PROVE  /\ e[k] <= e[k + d]
                        /\ \A y \in 1 .. e[k] : run[k + d][y] = run[k][y]
      OBVIOUS
    <3>1. k + d \in 1 .. n /\ k + (d - 1) <= n /\ k + (d - 1) = (k + d) - 1
      OBVIOUS
    <3>2. /\ e[k] <= e[(k + d) - 1]
          /\ \A y \in 1 .. e[k] : run[(k + d) - 1][y] = run[k][y]
      BY <2>2, <3>1
    <3>3. /\ e[k + d] = e[(k + d) - 1] + Len(seqs[k + d])
          /\ Len(seqs[k + d]) \in Nat
          /\ \A y \in 1 .. e[(k + d) - 1] : run[k + d][y] = run[(k + d) - 1][y]
      BY <1>5, <3>1
    <3>4. e[k] \in Nat /\ e[(k + d) - 1] \in Nat
      BY <1>6, <3>1
    <3> QED
      BY <3>2, <3>3, <3>4
  <2> HIDE DEF Good
  <2>3. \A d \in 0 .. n : d \in Good
    BY <2>1, <2>2, Upto
  <2>4. n - k \in 0 .. n /\ k + (n - k) = n /\ k + (n - k) <= n
    BY <1>2
  <2>5. /\ e[k] <= e[k + (n - k)]
        /\ \A y \in 1 .. e[k] : run[k + (n - k)][y] = run[k][y]
    BY <2>3, <2>4 DEF Good
  <2> QED
    BY <1>3, <2>4, <2>5
<1>8. ASSUME NEW k \in 1 .. n
      PROVE  /\ e[k] = e[k - 1] + Len(seqs[k]) /\ e[k] <= Len(flat)
             /\ \A x \in 1 .. Len(seqs[k]) : flat[e[k - 1] + x] = seqs[k][x]
  <2>1. k \in 0 .. n /\ k - 1 \in 0 .. n
    OBVIOUS
  <2>2. e[k] \in Nat /\ e[k - 1] \in Nat /\ Len(seqs[k]) \in Nat
    BY <1>5, <1>6, <2>1
  <2>3. ASSUME NEW x \in 1 .. Len(seqs[k])
        PROVE  flat[e[k - 1] + x] = seqs[k][x]
    <3>1. e[k - 1] + x \in 1 .. e[k]
      BY <1>5, <2>2
    <3> QED
      BY <1>5, <1>7, <2>1, <3>1
  <2> QED
    BY <1>4, <1>5, <1>7, <2>1, <2>3
<1>9. ASSUME NEW y \in 1 .. Len(flat)
      PROVE  \E k \in 1 .. n : \E x \in 1 .. Len(seqs[k]) : y = e[k - 1] + x
  <2> DEFINE Ends == {k \in Nat : k <= n /\ y <= e[k]}
  <2>1. n \in Ends
    BY <1>4
  <2>2. PICK k \in Ends : \A j \in Ends : k <= j
    <3>1. Ends \subseteq Nat /\ Ends # {}
      BY <2>1
    <3> HIDE DEF Ends
    <3> QED
      BY <3>1, SmallestNumber
  <2>3. k \in 1 .. n /\ y <= e[k]
    BY <1>4, <2>2
  <2>4. ~(y <= e[k - 1])
    <3>1. k - 1 \in Nat /\ k - 1 <= n /\ ~(k <= k - 1)
      BY <2>3
    <3> QED
      BY <2>2, <3>1
  <2>5. e[k] \in Nat /\ e[k - 1] \in Nat /\ Len(seqs[k]) \in Nat
    <3>1. k \in 0 .. n /\ k - 1 \in 0 .. n
      BY <2>3
    <3> QED
      BY <1>5, <1>6, <2>3, <3>1
  <2>6. e[k] = e[k - 1] + Len(seqs[k])
    BY <1>5, <2>3
  <2>7. y - e[k - 1] \in 1 .. Len(seqs[k]) /\ y = e[k - 1] + (y - e[k - 1])
    BY <2>3, <2>4, <2>5, <2>6
  <2> QED
    BY <2>3, <2>7
<1>10. Parts(e, seqs, flat)
  BY <1>2, <1>4, <1>8, <1>9 DEF Parts
<1> QED
  BY <1>2, <1>3, <1>10 DEF flat

-----------------------------------------------------------------------------
(* Casting again.                                                          *)

Cast == "::GEOMETRY"

\* The quotes that get a cast, and the characters pushed as two.
Wanted(s) == {j \in DOMAIN s : WantsCast(s, j)}

Broken(s) == {j \in DOMAIN s : s[j] = "wide" /\ StateAt(s, j).in # "literal"}

Doubled(s) == Wanted(s) \cup Broken(s)

\* What comes behind a token that becomes two.
Second(token) == IF token = "'" THEN Cast ELSE "wide"

LEMMA SecondIs ==
    /\ Second("'") = Cast /\ Second("wide") = "wide" /\ Cast # "wide"
    /\ \A token : Second(token) \in {Cast, "wide"} /\ Second(token) # "'"
BY DEF Second, Cast

LEMMA DoubledAre ==
    ASSUME NEW s, NEW j \in Doubled(s)
    PROVE  /\ j \in DOMAIN s /\ s[j] \in {"'", "wide"}
           /\ j \in Wanted(s) <=> s[j] = "'"
BY DEF Doubled, Wanted, Broken, WantsCast, ClosesWkt

\* r is s with a token more behind the positions in w; e[j] is how long it is
\* behind s[j].
Spread(r, s, w, e) ==
    /\ e \in [0 .. Len(s) -> Nat] /\ e[0] = 0 /\ e[Len(s)] = Len(r)
    /\ \A j \in 1 .. Len(s) :
          /\ e[j] = e[j - 1] + (IF j \in w THEN 2 ELSE 1) /\ e[j] <= Len(r)
          /\ r[e[j - 1] + 1] = s[j]
          /\ j \in w => r[e[j]] = Second(s[j])
    /\ \A y \in 1 .. Len(r) : \E j \in 1 .. Len(s) :
          y = e[j - 1] + 1 \/ (j \in w /\ y = e[j])

LEMMA ShortSeqs ==
    ASSUME NEW B, NEW a \in B, NEW c \in B
    PROVE  /\ <<a>> \in Seq(B) /\ Len(<<a>>) = 1 /\ <<a>>[1] = a
           /\ <<a, c>> \in Seq(B) /\ Len(<<a, c>>) = 2
           /\ <<a, c>>[1] = a /\ <<a, c>>[2] = c
OBVIOUS

LEMMA CastsSpread ==
    ASSUME NEW A, NEW s \in Seq(A)
    PROVE  /\ InjectGeometryCasts(s) \in Seq(A \cup {Cast, "wide"})
           /\ \E e : Spread(InjectGeometryCasts(s), s, Doubled(s), e)
<1>1. PICK n \in Nat : Len(s) = n /\ DOMAIN s = 1 .. n
  OBVIOUS
<1> DEFINE w == Doubled(s)
           B == A \cup {Cast, "wide"}
           pieces == [j \in DOMAIN s |->
              CASE WantsCast(s, j) -> <<s[j], "::GEOMETRY">>
                [] s[j] = "wide" /\ StateAt(s, j).in # "literal" ->
                      <<"wide", "wide">>
                [] OTHER -> <<s[j]>>]
           r == FlattenSeq(pieces)
<1>2. InjectGeometryCasts(s) = r
  BY Zenon DEF InjectGeometryCasts
<1>3. \A j \in 1 .. n :
         /\ s[j] \in B /\ Second(s[j]) \in B
         /\ pieces[j] = IF j \in w THEN <<s[j], Second(s[j])>> ELSE <<s[j]>>
  <2> SUFFICES ASSUME NEW j \in 1 .. n
               PROVE  /\ s[j] \in B /\ Second(s[j]) \in B
                      /\ pieces[j] = IF j \in w THEN <<s[j], Second(s[j])>>
                                     ELSE <<s[j]>>
    OBVIOUS
  <2>1. s[j] \in B /\ Second(s[j]) \in B /\ j \in DOMAIN s
    BY <1>1, SecondIs
  <2>2. WantsCast(s, j) => s[j] = "'"
    BY DEF WantsCast, ClosesWkt
  <2>3. CASE WantsCast(s, j)
    <3>1. j \in w /\ Second(s[j]) = "::GEOMETRY"
      BY <2>1, <2>2, <2>3 DEF Doubled, Wanted, Second, Cast
    <3> QED
      BY <2>1, <2>2, <2>3, <3>1
  <2>4. CASE ~WantsCast(s, j) /\ s[j] = "wide" /\ StateAt(s, j).in # "literal"
    <3>1. j \in w /\ Second(s[j]) = "wide"
      BY <2>1, <2>4 DEF Doubled, Broken, Second
    <3> QED
      BY <2>1, <2>2, <2>4, <3>1
  <2>5. CASE ~WantsCast(s, j) /\ ~(s[j] = "wide" /\ StateAt(s, j).in # "literal")
    <3>1. j \notin w
      BY <2>1, <2>5 DEF Doubled, Wanted, Broken
    <3> QED
      BY <2>1, <2>5, <3>1
  <2> QED
    BY <2>3, <2>4, <2>5
<1>4. DOMAIN pieces = 1 .. n /\ pieces = [j \in 1 .. n |-> pieces[j]]
  BY <1>1
<1> HIDE DEF pieces, w
<1>5. ASSUME NEW j \in 1 .. n
      PROVE  /\ pieces[j] \in Seq(B)
             /\ Len(pieces[j]) = IF j \in w THEN 2 ELSE 1
             /\ pieces[j][1] = s[j]
             /\ j \in w => pieces[j][2] = Second(s[j])
  <2> DEFINE a == s[j]
             d == Second(s[j])
             p == pieces[j]
  <2>1. d \in B /\ a \in B /\ p = IF j \in w THEN <<a, d>> ELSE <<a>>
    BY <1>3
  <2> HIDE DEF B, a, d, p
  <2>2. /\ <<a>> \in Seq(B) /\ Len(<<a>>) = 1 /\ <<a>>[1] = a
        /\ <<a, d>> \in Seq(B) /\ Len(<<a, d>>) = 2
        /\ <<a, d>>[1] = a /\ <<a, d>>[2] = d
    BY <2>1, ShortSeqs
  <2>3. /\ p \in Seq(B) /\ Len(p) = (IF j \in w THEN 2 ELSE 1)
        /\ p[1] = a /\ (j \in w => p[2] = d)
    <3>1. CASE j \in w
      <4>1. p = <<a, d>>
        BY <2>1, <3>1
      <4> QED
        BY <2>2, <3>1, <4>1
    <3>2. CASE j \notin w
      <4>1. p = <<a>>
        BY <2>1, <3>2
      <4> QED
        BY <2>2, <3>2, <4>1
    <3> QED
      BY <3>1, <3>2
  <2> QED
    BY <2>3 DEF a, d, p
<1>6. pieces \in Seq(Seq(B)) /\ Len(pieces) = n
  <2> DEFINE C == Seq(B)
  <2>1. pieces \in [1 .. n -> C]
    BY <1>4, <1>5
  <2> HIDE DEF C
  <2> QED
    BY <2>1 DEF C
<1> HIDE DEF B
<1>7. r \in Seq(B) /\ \E e : Parts(e, pieces, r)
  BY <1>6, FlattenParts
<1>8. PICK e : Parts(e, pieces, r)
  BY <1>7
<1> HIDE DEF r
<1>9. /\ e \in [0 .. n -> Nat] /\ e[0] = 0 /\ e[n] = Len(r)
      /\ \A k \in 1 .. n :
            /\ e[k] = e[k - 1] + Len(pieces[k]) /\ e[k] <= Len(r)
            /\ \A x \in 1 .. Len(pieces[k]) : r[e[k - 1] + x] = pieces[k][x]
      /\ \A y \in 1 .. Len(r) : \E k \in 1 .. n :
            \E x \in 1 .. Len(pieces[k]) : y = e[k - 1] + x
  BY <1>6, <1>8 DEF Parts
<1>10. \A k \in 0 .. n : e[k] \in Nat
  BY <1>9
<1>11. ASSUME NEW j \in 1 .. n
       PROVE  /\ e[j] = e[j - 1] + (IF j \in w THEN 2 ELSE 1) /\ e[j] <= Len(r)
              /\ r[e[j - 1] + 1] = s[j]
              /\ j \in w => r[e[j]] = Second(s[j])
  <2>1. e[j] = e[j - 1] + Len(pieces[j]) /\ e[j] <= Len(r)
    BY <1>9
  <2>5. /\ j \in w => Len(pieces[j]) = 2 /\ pieces[j][2] = Second(s[j])
        /\ j \notin w => Len(pieces[j]) = 1
        /\ pieces[j][1] = s[j]
    BY <1>5
  <2>2. \A x \in 1 .. Len(pieces[j]) : r[e[j - 1] + x] = pieces[j][x]
    BY <1>9
  <2>3. CASE j \in w
    <3>1. Len(pieces[j]) = 2 /\ 1 \in 1 .. 2 /\ 2 \in 1 .. 2
      BY <2>3, <2>5
    <3>2. r[e[j - 1] + 1] = pieces[j][1] /\ r[e[j - 1] + 2] = pieces[j][2]
      BY <2>2, <3>1
    <3> QED
      BY <2>1, <2>3, <2>5, <3>1, <3>2
  <2>4. CASE j \notin w
    <3>1. Len(pieces[j]) = 1 /\ 1 \in 1 .. 1
      BY <2>4, <2>5
    <3>2. r[e[j - 1] + 1] = pieces[j][1]
      BY <2>2, <3>1
    <3> QED
      BY <2>1, <2>4, <2>5, <3>1, <3>2
  <2> QED
    BY <2>3, <2>4
<1>12. ASSUME NEW y \in 1 .. Len(r)
       PROVE  \E j \in 1 .. n : y = e[j - 1] + 1 \/ (j \in w /\ y = e[j])
  <2>1. PICK k \in 1 .. n : \E x \in 1 .. Len(pieces[k]) : y = e[k - 1] + x
    BY <1>9
  <2>2. PICK x \in 1 .. Len(pieces[k]) : y = e[k - 1] + x
    BY <2>1
  <2>3. x = 1 \/ (x = 2 /\ k \in w)
    BY <1>5
  <2>4. e[k] = e[k - 1] + (IF k \in w THEN 2 ELSE 1)
    BY <1>11
  <2> QED
    BY <2>2, <2>3, <2>4
<1>13. Spread(r, s, w, e)
  BY <1>1, <1>9, <1>11, <1>12 DEF Spread
<1> QED
  BY <1>2, <1>7, <1>13 DEF w, B

LEMMA SpreadGrows ==
    ASSUME NEW s, NEW n \in Nat, Len(s) = n, NEW r, NEW w, NEW e,
           Spread(r, s, w, e), NEW i \in 0 .. n, NEW j \in 0 .. n, i < j
    PROVE  e[i] < e[j]
<1>1. /\ \A k \in 0 .. n : e[k] \in Nat
      /\ \A k \in 1 .. n : e[k] = e[k - 1] + (IF k \in w THEN 2 ELSE 1)
  BY DEF Spread
<1> DEFINE Good == {d \in 0 .. n : d = 0 \/ (i + d <= n => e[i] < e[i + d])}
<1>2. 0 \in Good
  OBVIOUS
<1>3. ASSUME NEW d \in 1 .. n, d - 1 \in Good PROVE d \in Good
  <2> SUFFICES ASSUME i + d <= n PROVE e[i] < e[i + d]
    OBVIOUS
  <2>1. /\ i + d \in 1 .. n /\ (i + d) - 1 \in 0 .. n /\ i + d \in 0 .. n
        /\ (i + d) - 1 = i + (d - 1)
    OBVIOUS
  <2>2. e[i + d] > e[(i + d) - 1]
    <3> DEFINE k == i + d
    <3>1. k \in 1 .. n /\ k - 1 \in 0 .. n
      BY <2>1
    <3> HIDE DEF k
    <3>2. e[k - 1] \in Nat /\ e[k] = e[k - 1] + (IF k \in w THEN 2 ELSE 1)
      BY <1>1, <3>1
    <3>3. e[k] > e[k - 1]
      BY <3>2
    <3> QED
      BY <3>3 DEF k
  <2>3. CASE d = 1
    BY <2>2, <2>3
  <2>4. CASE d # 1
    <3>1. e[i] < e[(i + d) - 1]
      BY <1>3, <2>1, <2>4
    <3> QED
      BY <1>1, <2>1, <2>2, <3>1
  <2> QED
    BY <2>3, <2>4
<1> HIDE DEF Good
<1>4. \A d \in 0 .. n : d \in Good
  BY <1>2, <1>3, Upto
<1>5. j - i \in 0 .. n /\ j - i # 0 /\ i + (j - i) = j
  OBVIOUS
<1> QED
  BY <1>4, <1>5 DEF Good

\* Without a position to double, nothing changes.
LEMMA NothingToCast ==
    ASSUME NEW A, NEW s \in Seq(A), Doubled(s) = {}
    PROVE  InjectGeometryCasts(s) = s
<1> DEFINE r == InjectGeometryCasts(s)
<1>1. PICK n \in Nat : Len(s) = n /\ DOMAIN s = 1 .. n
  OBVIOUS
<1>2. r \in Seq(A \cup {Cast, "wide"}) /\ \E e : Spread(r, s, {}, e)
  BY CastsSpread
<1> HIDE DEF r
<1>3. PICK e : Spread(r, s, {}, e)
  BY <1>2
<1>4. /\ e \in [0 .. n -> Nat] /\ e[0] = 0 /\ e[n] = Len(r)
      /\ \A j \in 1 .. n : e[j] = e[j - 1] + 1 /\ r[e[j - 1] + 1] = s[j]
  BY <1>1, <1>3 DEF Spread
<1> DEFINE Good == {k \in 0 .. n : e[k] = k}
<1>5. \A k \in 0 .. n : k \in Good
  <2>1. 0 \in Good
    BY <1>4
  <2>2. ASSUME NEW k \in 1 .. n, k - 1 \in Good PROVE k \in Good
    BY <1>4, <2>2
  <2> HIDE DEF Good
  <2> QED
    BY <2>1, <2>2, Upto
<1>6. Len(r) = n
  BY <1>4, <1>5
<1>7. \A j \in 1 .. n : r[j] = s[j]
  <2> SUFFICES ASSUME NEW j \in 1 .. n PROVE r[j] = s[j]
    OBVIOUS
  <2>1. j - 1 \in 0 .. n /\ (j - 1) + 1 = j
    OBVIOUS
  <2>2. e[j - 1] = j - 1
    BY <1>5, <2>1
  <2> QED
    BY <1>4, <2>1, <2>2
<1>8. r = s
  <2> DEFINE B == A \cup {Cast, "wide"}
  <2>1. r \in Seq(B) /\ s \in Seq(A)
    BY <1>2
  <2> HIDE DEF B
  <2>2. r = [j \in 1 .. n |-> r[j]] /\ s = [j \in 1 .. n |-> s[j]]
    BY <1>1, <1>6, <2>1
  <2> QED
    BY <1>7, <2>2
<1> QED
  BY <1>8 DEF r

LEMMA QuotesStep ==
    ASSUME NEW s, NEW i \in Nat, i # 0
    PROVE  /\ QuotesBefore(s, i) \in Nat /\ QuotesBefore(s, 1) = 0
           /\ QuotesBefore(s, i + 1) =
                QuotesBefore(s, i) + (IF s[i] = "'" THEN 1 ELSE 0)
<1> DEFINE Q(k) == {x \in 1 .. (k - 1) : s[x] = "'"}
<1>1. \A k : QuotesBefore(s, k) = Cardinality(Q(k))
  BY DEF QuotesBefore
<1>2. IsFiniteSet(Q(i)) /\ Cardinality(Q(i)) \in Nat
  <2>1. IsFiniteSet(1 .. (i - 1)) /\ Q(i) \subseteq 1 .. (i - 1)
    BY FS_Interval
  <2> QED
    BY <2>1, FS_Subset, FS_CardinalityType
<1>3. Cardinality(Q(1)) = 0
  <2>1. Q(1) = {}
    OBVIOUS
  <2> HIDE DEF Q
  <2> QED
    BY <2>1, FS_EmptySet
<1>4. CASE s[i] = "'"
  <2>1. Q(i + 1) = Q(i) \cup {i} /\ i \notin Q(i)
    BY <1>4
  <2> HIDE DEF Q
  <2>2. Cardinality(Q(i + 1)) = Cardinality(Q(i)) + 1
    BY <1>2, <2>1, FS_AddElement
  <2> QED
    BY <1>1, <1>2, <1>3, <1>4, <2>2
<1>5. CASE s[i] # "'"
  <2>1. Q(i + 1) = Q(i)
    BY <1>5
  <2> HIDE DEF Q
  <2> QED
    BY <1>1, <1>2, <1>3, <1>5, <2>1
<1> QED
  BY <1>4, <1>5

\* What is put in is no quote: what was inside literals stays inside.
LEMMA QuotesOfSpread ==
    ASSUME NEW s, NEW n \in Nat, Len(s) = n, NEW r, NEW w, NEW e,
           Spread(r, s, w, e), NEW k \in 0 .. n
    PROVE  QuotesBefore(r, e[k] + 1) = QuotesBefore(s, k + 1)
<1>1. /\ e[0] = 0
      /\ \A i \in 0 .. n : e[i] \in Nat
      /\ \A i \in 1 .. n :
            /\ e[i] = e[i - 1] + (IF i \in w THEN 2 ELSE 1)
            /\ r[e[i - 1] + 1] = s[i]
            /\ i \in w => r[e[i]] = Second(s[i])
  BY DEF Spread
<1> DEFINE Good == {i \in 0 .. n :
                       QuotesBefore(r, e[i] + 1) = QuotesBefore(s, i + 1)}
<1>2. 0 \in Good
  <2>1. QuotesBefore(r, 1) = 0 /\ QuotesBefore(s, 1) = 0
    BY QuotesStep
  <2> QED
    BY <1>1, <2>1
<1>3. ASSUME NEW i \in 1 .. n, i - 1 \in Good PROVE i \in Good
  <2>1. i - 1 \in 0 .. n /\ i \in 0 .. n /\ (i - 1) + 1 = i
    OBVIOUS
  <2> DEFINE a == e[i - 1] + 1
  <2>2. a \in Nat /\ a # 0 /\ i \in Nat /\ i # 0 /\ a + 1 \in Nat /\ a + 1 # 0
    BY <1>1, <2>1
  <2>3. QuotesBefore(r, a) = QuotesBefore(s, i)
    BY <1>3, <2>1
  <2>4. e[i] + 1 = a + (IF i \in w THEN 2 ELSE 1) /\ r[a] = s[i]
    BY <1>1, <2>1
  <2> HIDE DEF a
  <2>5. /\ QuotesBefore(r, a) \in Nat
        /\ QuotesBefore(r, a + 1) =
             QuotesBefore(r, a) + (IF r[a] = "'" THEN 1 ELSE 0)
    BY <2>2, QuotesStep
  <2>6. QuotesBefore(s, i + 1) =
             QuotesBefore(s, i) + (IF s[i] = "'" THEN 1 ELSE 0)
    BY <2>2, QuotesStep
  <2>7. QuotesBefore(r, a + 1) = QuotesBefore(s, i + 1)
    BY <2>3, <2>4, <2>5, <2>6
  <2>8. CASE i \notin w
    BY <2>1, <2>4, <2>7, <2>8
  <2>9. CASE i \in w
    <3>1. e[i] = a + 1 /\ r[a + 1] = Second(s[i])
      BY <1>1, <2>1, <2>2, <2>4, <2>9
    <3>2. Second(s[i]) # "'"
      BY SecondIs
    <3>3. /\ QuotesBefore(r, a + 1) \in Nat
          /\ QuotesBefore(r, (a + 1) + 1) =
             QuotesBefore(r, a + 1) + (IF r[a + 1] = "'" THEN 1 ELSE 0)
      BY <2>2, QuotesStep
    <3> QED
      BY <2>1, <2>7, <3>1, <3>2, <3>3
  <2> QED
    BY <2>8, <2>9
<1> HIDE DEF Good
<1>4. \A i \in 0 .. n : i \in Good
  BY <1>2, <1>3, Upto
<1> QED
  BY <1>4 DEF Good

LEMMA BareOfSpread ==
    ASSUME NEW s, NEW n \in Nat, Len(s) = n, DOMAIN s = 1 .. n,
           NEW r, DOMAIN r = 1 .. Len(r), NEW w, NEW e,
           Spread(r, s, w, e), NEW j \in 1 .. n
    PROVE  /\ e[j - 1] + 1 \in 1 .. Len(r)
           /\ QuotesBefore(r, e[j - 1] + 1) = QuotesBefore(s, j)
           /\ e[j - 1] + 1 \in Bare(r) <=> j \in Bare(s)
<1>1. j - 1 \in 0 .. n /\ j \in 0 .. n /\ (j - 1) + 1 = j
  OBVIOUS
<1>2. /\ e[j - 1] \in Nat /\ e[j] <= Len(r) /\ r[e[j - 1] + 1] = s[j]
      /\ e[j] = e[j - 1] + (IF j \in w THEN 2 ELSE 1)
  BY <1>1 DEF Spread
<1>3. Len(r) \in Nat
  BY DEF Spread
<1>4. e[j - 1] + 1 \in 1 .. Len(r)
  BY <1>2, <1>3
<1>5. QuotesBefore(r, e[j - 1] + 1) = QuotesBefore(s, j)
  BY <1>1, QuotesOfSpread
<1>6. e[j - 1] + 1 \in Bare(r) <=> j \in Bare(s)
  BY <1>2, <1>4, <1>5, Zenon DEF Bare
<1> QED
  BY <1>4, <1>5, <1>6

-----------------------------------------------------------------------------
(* What the scanner of inject_geometry_casts knows, token by token.        *)

\* Names wait for a bracket in code only.
Scanning(A) ==
    {st \in [in : {"code", "quote", "literal", "line", "block"},
             body : A \cup {Nameless}, ident : A \cup {Nameless},
             open : Seq(A \cup {Nameless})] :
        st.in # "code" => st.ident = Nameless}

LEMMA StartTyped ==
    ASSUME NEW A
    PROVE  AtStart \in Scanning(A)
BY DEF AtStart, Scanning

LEMMA PastTyped ==
    ASSUME NEW A, NEW st \in Scanning(A), NEW token \in A
    PROVE  Past(st, token) \in Scanning(A)
<1> DEFINE B == A \cup {Nameless}
           S == Seq(B)
<1>1. /\ st \in [in : {"code", "quote", "literal", "line", "block"},
                 body : B, ident : B, open : S]
      /\ st.in # "code" => st.ident = Nameless
  BY DEF Scanning
<1>2. /\ token \in B /\ Nameless \in B
      /\ Append(st.open, st.ident) \in S
      /\ st.open # << >> => Front(st.open) \in S
  BY <1>1 DEF Front
<1> HIDE DEF B, S
<1> SUFFICES /\ Past(st, token) \in
                   [in : {"code", "quote", "literal", "line", "block"},
                    body : B, ident : B, open : S]
             /\ Past(st, token).in # "code" => Past(st, token).ident = Nameless
  BY DEF Scanning, B, S
<1>3. CASE st.in = "literal"
  BY <1>1, <1>2, <1>3 DEF Past, PastLiteral
<1>4. CASE st.in = "quote" /\ token = "'"
  BY <1>1, <1>2, <1>4 DEF Past
<1>5. CASE st.in = "line"
  BY <1>1, <1>2, <1>5 DEF Past
<1>6. CASE st.in = "block"
  BY <1>1, <1>2, <1>6 DEF Past
<1>7. CASE st.in = "code" \/ (st.in = "quote" /\ token # "'")
  <2>1. Past(st, token) = PastCode(st, token)
    BY <1>7 DEF Past
  <2>2. PastCode(st, token) \in
                   [in : {"code", "quote", "literal", "line", "block"},
                    body : B, ident : B, open : S]
    BY <1>1, <1>2 DEF PastCode
  <2>3. PastCode(st, token).in # "code" => PastCode(st, token).ident = Nameless
    BY DEF PastCode, OfInterest
  <2> QED
    BY <2>1, <2>2, <2>3
<1> QED
  BY <1>1, <1>3, <1>4, <1>5, <1>6, <1>7

\* The equation that the local function of StateAt is chosen to solve.
StateEquation(g, s, i) ==
    g = [k \in 0 .. (i - 1) |-> IF k = 0 THEN AtStart ELSE Past(g[k - 1], s[k])]

LEMMA StateIs ==
    ASSUME NEW s, NEW i
    PROVE  StateAt(s, i) = (CHOOSE g : StateEquation(g, s, i))[i - 1]
BY Zenon DEF StateAt, StateEquation

LEMMA StatesRun ==
    ASSUME NEW A, NEW s \in Seq(A), NEW n \in Nat, Len(s) = n
    PROVE  /\ StateAt(s, 1) = AtStart
           /\ \A i \in 1 .. n :
                 /\ StateAt(s, i) \in Scanning(A)
                 /\ StateAt(s, i + 1) = Past(StateAt(s, i), s[i])
<1> DEFINE C == Scanning(A)
           step == [k \in 1 .. n |-> [x \in C |-> Past(x, s[k])]]
<1>1. \A k \in 1 .. n : \A x \in C : Past(x, s[k]) \in C
  <2> SUFFICES ASSUME NEW k \in 1 .. n, NEW x \in C PROVE Past(x, s[k]) \in C
    OBVIOUS
  <2>1. s[k] \in A
    OBVIOUS
  <2> QED
    BY <2>1, PastTyped
<1>2. AtStart \in C
  BY StartTyped
<1> HIDE DEF C
<1>3. Steps(step, 1 .. n, C)
  BY <1>1 DEF Steps
<1>4. PICK run : Runs(run, n, C, AtStart, step)
  <2> HIDE DEF step
  <2> QED
    BY <1>2, <1>3, RunExists
<1>5. run \in [0 .. n -> C] /\ run[0] = AtStart
  BY <1>4 DEF Runs
<1>6. ASSUME NEW k \in 1 .. n PROVE run[k] = Past(run[k - 1], s[k])
  <2>1. run[k] = step[k][run[k - 1]]
    <3> HIDE DEF step
    <3> QED
      BY <1>4 DEF Runs
  <2>2. run[k - 1] \in C
    <3>1. k - 1 \in 0 .. n
      OBVIOUS
    <3> QED
      BY <1>5, <3>1
  <2> QED
    BY <2>1, <2>2
<1> HIDE DEF step
<1>7. ASSUME NEW m \in 0 .. n PROVE StateAt(s, m + 1) = run[m]
  <2> DEFINE i == m + 1
             f == [k \in 0 .. m |-> run[k]]
             g == CHOOSE h : StateEquation(h, s, i)
  <2>1. i - 1 = m
    OBVIOUS
  <2> HIDE DEF i
  <2>2. \A k \in 0 .. m :
           f[k] = IF k = 0 THEN AtStart ELSE Past(f[k - 1], s[k])
    <3> SUFFICES ASSUME NEW k \in 0 .. m
                 PROVE  f[k] = IF k = 0 THEN AtStart ELSE Past(f[k - 1], s[k])
      OBVIOUS
    <3>1. CASE k = 0
      BY <1>5, <3>1
    <3>2. CASE k # 0
      <4>1. k \in 1 .. n /\ k - 1 \in 0 .. m
        BY <3>2
      <4> QED
        BY <1>6, <3>2, <4>1
    <3> QED
      BY <3>1, <3>2
  <2>3. StateEquation(f, s, i)
    <3>1. f = [k \in 0 .. m |-> f[k]]
      OBVIOUS
    <3> HIDE DEF f
    <3>2. f = [k \in 0 .. m |->
                  IF k = 0 THEN AtStart ELSE Past(f[k - 1], s[k])]
      BY <2>2, <3>1
    <3> QED
      BY <2>1, <3>2, Zenon DEF StateEquation
  <2>4. StateEquation(g, s, i)
    BY <2>3
  <2> HIDE DEF g
  <2>5. \A k \in 0 .. m :
           g[k] = IF k = 0 THEN AtStart ELSE Past(g[k - 1], s[k])
    BY <2>1, <2>4, Zenon DEF StateEquation
  <2> DEFINE Good == {x \in 0 .. m : g[x] = run[x]}
  <2>6. 0 \in Good
    BY <1>5, <2>5
  <2>7. ASSUME NEW k \in 1 .. m, k - 1 \in Good PROVE k \in Good
    <3>1. k \in 0 .. m /\ k # 0 /\ g[k - 1] = run[k - 1] /\ k \in 1 .. n
      BY <2>7
    <3>2. g[k] = Past(g[k - 1], s[k])
      BY <2>5, <3>1
    <3> QED
      BY <1>6, <3>1, <3>2
  <2> HIDE DEF Good
  <2>8. \A k \in 0 .. m : k \in Good
    BY <2>6, <2>7, Upto
  <2>9. g[m] = run[m]
    BY <2>8 DEF Good
  <2>10. StateAt(s, i) = g[m]
    BY <2>1, StateIs DEF g
  <2> QED
    BY <2>9, <2>10 DEF i
<1>8. StateAt(s, 1) = AtStart
  <2>1. 0 \in 0 .. n /\ 0 + 1 = 1
    OBVIOUS
  <2> QED
    BY <1>5, <1>7, <2>1
<1>9. ASSUME NEW i \in 1 .. n
      PROVE  /\ StateAt(s, i) \in C
             /\ StateAt(s, i + 1) = Past(StateAt(s, i), s[i])
  <2>1. i \in 0 .. n /\ i - 1 \in 0 .. n /\ (i - 1) + 1 = i
    OBVIOUS
  <2>2. StateAt(s, i) = run[i - 1] /\ StateAt(s, i + 1) = run[i]
    <3>1. StateAt(s, (i - 1) + 1) = run[i - 1]
      BY <1>7, <2>1
    <3> QED
      BY <1>7, <2>1, <3>1
  <2> QED
    BY <1>5, <1>6, <2>1, <2>2
<1> QED
  BY <1>8, <1>9 DEF C

\* A cast behind a quote: the literal has ended for good.
Ended(st) == [st EXCEPT !.in = "code"]

LEMMA PastCast ==
    ASSUME NEW A, NEW st \in Scanning(A), st.in = "quote"
    PROVE  Past(st, Cast) = Ended(st)
<1> DEFINE B == A \cup {Nameless}
           S == Seq(B)
<1>1. /\ st \in [in : {"code", "quote", "literal", "line", "block"},
                 body : B, ident : B, open : S]
      /\ st.ident = Nameless
  BY DEF Scanning
<1> HIDE DEF B, S
<1>2. Past(st, Cast) = [in |-> "code", body |-> st.body, ident |-> Nameless,
                        open |-> st.open]
  BY DEF Past, PastCode, Cast, OfInterest
<1> QED
  BY <1>1, <1>2 DEF Ended

\* What follows a closing quote, if no quote, is read as in code.
LEMMA PastEnded ==
    ASSUME NEW A, NEW st \in Scanning(A), st.in = "quote", NEW token,
           token # "'"
    PROVE  Past(Ended(st), token) = Past(st, token)
<1> DEFINE B == A \cup {Nameless}
           S == Seq(B)
<1>1. st \in [in : {"code", "quote", "literal", "line", "block"},
              body : B, ident : B, open : S]
  BY DEF Scanning
<1> HIDE DEF B, S
<1>2. /\ Ended(st).in = "code" /\ Ended(st).body = st.body
      /\ Ended(st).ident = st.ident /\ Ended(st).open = st.open
  BY <1>1 DEF Ended
<1>3. Past(Ended(st), token) = PastCode(Ended(st), token)
  BY <1>2 DEF Past
<1>4. Past(st, token) = PastCode(st, token)
  BY DEF Past
<1> QED
  BY <1>2, <1>3, <1>4 DEF PastCode

\* Outside literals a second wide character changes nothing.
LEMMA PastWide ==
    ASSUME NEW A, NEW st \in Scanning(A), st.in # "literal"
    PROVE  Past(Past(st, "wide"), "wide") = Past(st, "wide")
<1> DEFINE B == A \cup {Nameless}
           S == Seq(B)
<1>1. st \in [in : {"code", "quote", "literal", "line", "block"},
              body : B, ident : B, open : S]
  BY DEF Scanning
<1> HIDE DEF B, S
<1>2. CASE st.in = "line" \/ st.in = "block"
  <2>1. Past(st, "wide") = st
    BY <1>1, <1>2 DEF Past
  <2> QED
    BY <2>1
<1>3. CASE st.in = "code" \/ st.in = "quote"
  <2> DEFINE x == Past(st, "wide")
  <2>1. x = [in |-> "code", body |-> st.body, ident |-> Nameless,
             open |-> st.open]
    BY <1>3 DEF Past, PastCode, OfInterest
  <2>2. Past(x, "wide") = [in |-> "code", body |-> x.body, ident |-> Nameless,
                           open |-> x.open]
    BY <2>1 DEF Past, PastCode, OfInterest
  <2> QED
    BY <2>1, <2>2
<1> QED
  BY <1>1, <1>2, <1>3

\* Where a literal that opens at i can close.
Closing(s, i) ==
    {j \in (i + 1) .. Len(s) :
        /\ s[j] = "'" /\ QuotesBefore(s, j) % 2 = 1
        /\ j < Len(s) => s[j + 1] # "'"}

LEMMA ClosingQuoteIs ==
    ASSUME NEW s, Len(s) \in Nat, NEW i \in Nat, NEW j \in Nat, j # 0
    PROVE  ClosingQuote(s, i) = j <=>
               j \in Closing(s, i) /\ \A k \in Closing(s, i) : j <= k
<1> DEFINE c == Closing(s, i)
<1>1. ClosingQuote(s, i) = IF c = {} THEN 0 ELSE Min(c)
  BY Zenon DEF ClosingQuote, Closing
<1>2. c \subseteq Nat
  BY DEF Closing
<1> HIDE DEF c
<1>3. CASE c = {}
  BY <1>1, <1>3 DEF c
<1>4. CASE c # {}
  <2>1. PICK k \in c : \A x \in c : k <= x
    BY <1>2, <1>4, SmallestNumber
  <2> DEFINE least == Min(c)
  <2>2. least \in c /\ \A x \in c : least <= x
    BY <2>1 DEF Min
  <2> HIDE DEF least
  <2>3. ClosingQuote(s, i) = least
    BY <1>1, <1>4 DEF least
  <2>4. \A x \in c : (\A y \in c : x <= y) => x = least
    BY <1>2, <2>2
  <2> QED
    BY <2>2, <2>3, <2>4 DEF c
<1> QED
  BY <1>3, <1>4


LEMMA WantedIs ==
    ASSUME NEW A, NEW s \in Seq(A), NEW n \in Nat, Len(s) = n,
           NEW j \in Wanted(s)
    PROVE  /\ j \in 1 .. n /\ s[j] = "'" /\ StateAt(s, j).in = "literal"
           /\ StateAt(s, j + 1).in = "quote"
           /\ j < n => s[j + 1] # "'"
<1>1. j \in 1 .. n /\ WantsCast(s, j)
  BY DEF Wanted
<1>2. /\ s[j] = "'" /\ StateAt(s, j).in = "literal"
      /\ j < n => s[j + 1] # "'"
  BY <1>1 DEF WantsCast, ClosesWkt
<1> DEFINE st == StateAt(s, j)
           B == A \cup {Nameless}
           S == Seq(B)
<1>3. StateAt(s, j + 1) = Past(st, "'") /\ st \in Scanning(A)
  BY <1>1, <1>2, StatesRun
<1> HIDE DEF st
<1>4. st \in [in : {"code", "quote", "literal", "line", "block"},
              body : B, ident : B, open : S]
  BY <1>3 DEF Scanning
<1> HIDE DEF B, S
<1>5. st.in = "literal"
  BY <1>2 DEF st
<1>6. Past(st, "'").in = "quote"
  BY <1>4, <1>5 DEF Past, PastLiteral
<1> QED
  BY <1>1, <1>2, <1>3, <1>6

\* Along r the scanner knows what it knew along s, but for the end of a
\* literal behind which a cast stands now.
LEMMA StatesOfSpread ==
    ASSUME NEW A, NEW s \in Seq(A), NEW n \in Nat, Len(s) = n,
           NEW B, NEW r \in Seq(B), NEW e, Spread(r, s, Doubled(s), e),
           NEW i \in 0 .. n
    PROVE  StateAt(r, e[i] + 1) =
              IF i \in Wanted(s) THEN Ended(StateAt(s, i + 1))
              ELSE StateAt(s, i + 1)
<1> DEFINE w == Doubled(s)
           y(k) == StateAt(s, k + 1)
           Good == {k \in 0 .. n :
                       StateAt(r, e[k] + 1) =
                          IF k \in Wanted(s) THEN Ended(y(k)) ELSE y(k)}
<1>1. /\ e[0] = 0 /\ \A k \in 0 .. n : e[k] \in Nat
      /\ \A k \in 1 .. n :
            /\ e[k] = e[k - 1] + (IF k \in w THEN 2 ELSE 1) /\ e[k] <= Len(r)
            /\ r[e[k - 1] + 1] = s[k]
            /\ k \in w => r[e[k]] = Second(s[k])
  BY DEF Spread
<1>2. PICK m \in Nat : Len(r) = m
  OBVIOUS
<1>3. 0 \in Good
  <2>1. StateAt(r, 1) = AtStart /\ StateAt(s, 1) = AtStart
    BY <1>2, StatesRun
  <2>2. 0 \notin Wanted(s)
    BY WantedIs
  <2>3. e[0] + 1 = 1 /\ 0 + 1 = 1 /\ 0 \in 0 .. n
    BY <1>1
  <2> QED
    BY <2>1, <2>2, <2>3
<1>4. ASSUME NEW k \in 1 .. n, k - 1 \in Good PROVE k \in Good
  <2> DEFINE a == e[k - 1] + 1
             x == StateAt(s, k)
             b == StateAt(r, a)
             c == s[k]
  <2>1. k \in 0 .. n /\ k - 1 \in 0 .. n /\ (k - 1) + 1 = k /\ c \in A
    OBVIOUS
  <2>2. /\ e[k] = e[k - 1] + (IF k \in w THEN 2 ELSE 1) /\ e[k] <= m
        /\ r[a] = c /\ (k \in w => r[e[k]] = Second(c))
        /\ e[k - 1] \in Nat /\ e[k] \in Nat
    BY <1>1, <1>2, <2>1
  <2>3. a \in 1 .. m /\ a \in Nat
    BY <1>2, <2>2
  <2>4. b = IF k - 1 \in Wanted(s) THEN Ended(x) ELSE x
    BY <1>4, <2>1
  <2>5. x \in Scanning(A) /\ y(k) = Past(x, c)
    BY StatesRun
  <2>6. y(k) \in Scanning(A)
    BY <2>1, <2>5, PastTyped
  <2>7. StateAt(r, a + 1) = Past(b, c)
    BY <1>2, <2>2, <2>3, StatesRun
  <2> HIDE DEF x, b, c, y
  <2>8. Past(b, c) = y(k)
    <3>1. CASE k - 1 \in Wanted(s)
      <4>1. /\ StateAt(s, (k - 1) + 1).in = "quote"
            /\ k - 1 < n => s[(k - 1) + 1] # "'"
        BY <3>1, WantedIs
      <4>2. x.in = "quote" /\ c # "'"
        BY <2>1, <4>1 DEF x, c
      <4> QED
        BY <2>4, <2>5, <3>1, <4>2, PastEnded
    <3>2. CASE k - 1 \notin Wanted(s)
      BY <2>4, <2>5, <3>2
    <3> QED
      BY <3>1, <3>2
  <2>9. Wanted(s) \subseteq w
    BY DEF Doubled
  <2>10. CASE k \notin w
    <3>1. e[k] + 1 = a + 1
      BY <2>2, <2>10
    <3> QED
      BY <2>1, <2>7, <2>8, <2>9, <2>10, <3>1
  <2>11. k \in w => e[k] = a + 1 /\ a + 1 \in 1 .. m
    BY <1>2, <2>2, <2>3
  <2>12. ASSUME k \in w
         PROVE  StateAt(r, e[k] + 1) = Past(y(k), Second(c))
    <3> DEFINE d == a + 1
    <3>1. d \in 1 .. m /\ e[k] = d /\ r[d] = Second(c) /\ StateAt(r, d) = y(k)
      BY <2>2, <2>7, <2>8, <2>11, <2>12
    <3> HIDE DEF d
    <3> QED
      BY <1>2, <3>1, StatesRun
  <2>13. CASE k \in Wanted(s)
    <3>1. c = "'" /\ y(k).in = "quote"
      BY <2>13, WantedIs DEF c, y
    <3>2. Past(y(k), Second(c)) = Ended(y(k))
      BY <2>6, <3>1, SecondIs, PastCast
    <3> QED
      BY <2>1, <2>9, <2>12, <2>13, <3>2
  <2>14. CASE k \in w /\ k \notin Wanted(s)
    <3>1. c = "wide" /\ x.in # "literal"
      BY <2>14 DEF Doubled, Broken, c, x
    <3>2. Past(y(k), Second(c)) = y(k)
      BY <2>5, <3>1, SecondIs, PastWide
    <3> QED
      BY <2>1, <2>12, <2>14, <3>2
  <2> QED
    BY <2>10, <2>13, <2>14
<1> HIDE DEF Good
<1>5. \A k \in 0 .. n : k \in Good
  BY <1>3, <1>4, Upto
<1> QED
  BY <1>5 DEF Good

\* A second time no cast is wanted, and what is pushed as two was before.
LEMMA CastsSettle ==
    ASSUME NEW A, NEW s \in Seq(A), NEW r, r = InjectGeometryCasts(s)
    PROVE  /\ r \in Seq(A \cup {Cast, "wide"})
           /\ Wanted(r) = {}
           /\ PlainCode(s) => Broken(r) = {}
<1> DEFINE w == Doubled(s)
           B == A \cup {Cast, "wide"}
<1>1. PICK n \in Nat : Len(s) = n /\ DOMAIN s = 1 .. n
  OBVIOUS
<1>2. r \in Seq(B) /\ \E e : Spread(r, s, w, e)
  BY CastsSpread
<1> HIDE DEF B
<1>3. PICK e : Spread(r, s, w, e)
  BY <1>2
<1>4. PICK m \in Nat : Len(r) = m /\ DOMAIN r = 1 .. m
  BY <1>2
<1>5. /\ \A k \in 0 .. n : e[k] \in Nat
      /\ e[n] = m
      /\ \A k \in 1 .. n :
            /\ e[k] = e[k - 1] + (IF k \in w THEN 2 ELSE 1) /\ e[k] <= m
            /\ r[e[k - 1] + 1] = s[k]
            /\ k \in w => r[e[k]] = Second(s[k])
      /\ \A y \in 1 .. m : \E k \in 1 .. n :
            y = e[k - 1] + 1 \/ (k \in w /\ y = e[k])
  BY <1>1, <1>3, <1>4 DEF Spread
<1>6. ASSUME NEW j \in 1 .. n, StateAt(r, e[j - 1] + 1).in = "literal"
      PROVE  StateAt(r, e[j - 1] + 1) = StateAt(s, j)
  <2>1. j - 1 \in 0 .. n /\ (j - 1) + 1 = j
    OBVIOUS
  <2>2. StateAt(r, e[j - 1] + 1) =
           IF j - 1 \in Wanted(s) THEN Ended(StateAt(s, (j - 1) + 1))
           ELSE StateAt(s, (j - 1) + 1)
    BY <1>1, <1>2, <1>3, <2>1, StatesOfSpread
  <2>3. Ended(StateAt(s, j)).in # "literal"
    <3> DEFINE st == StateAt(s, j)
               N == A \cup {Nameless}
               S == Seq(N)
    <3>1. st \in Scanning(A)
      BY <1>1, StatesRun
    <3> HIDE DEF st
    <3>2. st \in [in : {"code", "quote", "literal", "line", "block"},
                  body : N, ident : N, open : S]
      BY <3>1 DEF Scanning
    <3> HIDE DEF N, S
    <3>3. Ended(st).in = "code"
      BY <3>2 DEF Ended
    <3> QED
      BY <3>3 DEF st
  <2> QED
    BY <1>6, <2>1, <2>2, <2>3
<1>7. Wanted(r) = {}
  <2> SUFFICES ASSUME NEW y \in Wanted(r) PROVE FALSE
    OBVIOUS
  <2>1. /\ y \in 1 .. m /\ r[y] = "'" /\ StateAt(r, y).in = "literal"
        /\ WantsCast(r, y)
    BY <1>4 DEF Wanted, WantsCast, ClosesWkt
  <2>2. PICK j \in 1 .. n : y = e[j - 1] + 1 \/ (j \in w /\ y = e[j])
    BY <1>5, <2>1
  <2>3. /\ j - 1 \in 0 .. n /\ j \in 0 .. n
        /\ e[j] = e[j - 1] + (IF j \in w THEN 2 ELSE 1) /\ e[j] <= m
        /\ r[e[j - 1] + 1] = s[j]
        /\ j \in w => r[e[j]] = Second(s[j])
        /\ e[j - 1] \in Nat /\ e[j] \in Nat
    BY <1>5
  <2>4. y = e[j - 1] + 1 /\ s[j] = "'"
    BY <2>1, <2>2, <2>3, SecondIs
  <2>5. StateAt(r, y) = StateAt(s, j)
    BY <1>6, <2>1, <2>4
  <2>6. y < m => r[y + 1] \notin Casts /\ r[y + 1] # "'"
    BY <1>4, <2>1 DEF WantsCast, ClosesWkt
  <2>7. j \notin w
    <3> SUFFICES ASSUME j \in w PROVE FALSE
      OBVIOUS
    <3>1. e[j] = y + 1 /\ y < m
      <4>1. e[j] = y + 1
        BY <2>3, <2>4
      <4>2. y + 1 <= m /\ y \in Nat
        BY <2>1, <2>3, <4>1
      <4> QED
        BY <1>4, <4>1, <4>2
    <3>2. r[y + 1] = Cast
      BY <2>3, <2>4, <3>1, SecondIs
    <3> QED
      BY <2>6, <3>1, <3>2 DEF Cast, Casts
  <2>8. j < n => s[j + 1] \notin Casts /\ s[j + 1] # "'"
    <3> SUFFICES ASSUME j < n PROVE s[j + 1] \notin Casts /\ s[j + 1] # "'"
      OBVIOUS
    <3> DEFINE k == j + 1
    <3>1. k \in 1 .. n /\ k - 1 = j /\ k \in 0 .. n
      OBVIOUS
    <3> HIDE DEF k
    <3>2. e[j] = y
      BY <2>3, <2>4, <2>7
    <3>3. /\ e[k] = e[k - 1] + (IF k \in w THEN 2 ELSE 1) /\ e[k] <= m
          /\ r[e[k - 1] + 1] = s[k] /\ e[k] \in Nat
      BY <1>5, <3>1
    <3>4. y < m /\ r[y + 1] = s[k]
      <4>1. e[k - 1] = y /\ y \in Nat
        BY <2>1, <3>1, <3>2
      <4>2. e[k] > y
        BY <3>3, <4>1
      <4> QED
        BY <1>4, <3>3, <4>1, <4>2
    <3> QED
      BY <2>6, <3>4 DEF k
  <2>9. WantsCast(s, j)
    <3>1. StateAt(r, y).body = "WKT" /\ ~InParser(StateAt(r, y))
      BY <2>1 DEF WantsCast, ClosesWkt
    <3> QED
      BY <1>1, <2>1, <2>4, <2>5, <2>8, <3>1 DEF WantsCast, ClosesWkt
  <2> QED
    BY <1>1, <2>7, <2>9 DEF Wanted, Doubled
<1>8. ASSUME PlainCode(s) PROVE Broken(r) = {}
  <2> SUFFICES ASSUME NEW y \in Broken(r) PROVE FALSE
    OBVIOUS
  <2>1. y \in 1 .. m /\ r[y] = "wide" /\ StateAt(r, y).in # "literal"
    BY <1>4 DEF Broken
  <2>2. PICK j \in 1 .. n : y = e[j - 1] + 1 \/ (j \in w /\ y = e[j])
    BY <1>5, <2>1
  <2>3. r[e[j - 1] + 1] = s[j] /\ (j \in w => r[e[j]] = Second(s[j]))
    BY <1>5
  <2>4. w = Wanted(s)
    BY <1>8 DEF Doubled, Broken, PlainCode
  <2>5. j \in w => s[j] = "'"
    BY <1>1, <2>4, WantedIs
  <2>6. y = e[j - 1] + 1 /\ s[j] = "wide"
    BY <2>1, <2>2, <2>3, <2>5, SecondIs
  <2>7. j - 1 \in 0 .. n /\ (j - 1) + 1 = j
    OBVIOUS
  <2>8. j - 1 \notin Wanted(s)
    <3> SUFFICES ASSUME j - 1 \in Wanted(s) PROVE FALSE
      OBVIOUS
    <3>1. StateAt(s, (j - 1) + 1).in = "quote"
      BY <1>1, WantedIs
    <3>2. StateAt(s, j).in = "literal"
      BY <1>1, <1>8, <2>6 DEF PlainCode
    <3> QED
      BY <2>7, <3>1, <3>2
  <2>9. StateAt(r, y) = StateAt(s, j)
    <3>1. StateAt(r, e[j - 1] + 1) =
             IF j - 1 \in Wanted(s) THEN Ended(StateAt(s, (j - 1) + 1))
             ELSE StateAt(s, (j - 1) + 1)
      BY <1>1, <1>2, <1>3, <2>7, StatesOfSpread
    <3> QED
      BY <2>6, <2>7, <2>8, <3>1
  <2>10. StateAt(s, j).in = "literal"
    BY <1>1, <1>8, <2>6 DEF PlainCode
  <2> QED
    BY <2>1, <2>9, <2>10
<1> QED
  BY <1>2, <1>7, <1>8 DEF B

-----------------------------------------------------------------------------

-----------------------------------------------------------------------------

ListTyped == kind = "list" => text \in Seq(MCListTokens)

LEMMA GrownList == TextSpec => []ListTyped
<1>1. TextInit => ListTyped
  BY DEF TextInit, ListTyped
<1>2. ListTyped /\ [TextNext]_textVars => ListTyped'
  <2> SUFFICES ASSUME ListTyped, [TextNext]_textVars, kind' = "list"
               PROVE  text' \in Seq(MCListTokens)
    BY DEF ListTyped
  <2>1. CASE UNCHANGED textVars
    BY <2>1 DEF ListTyped, textVars
  <2>2. CASE TextNext
    <3>1. GrowList
      BY <2>2 DEF TextNext, GrowRegress, GrowList, GrowRow, GrowOut, GrowSmoke,
                  Grow
    <3>2. PICK token \in MCListTokens : text' = text \o <<token>>
      BY <3>1 DEF GrowList, Grow
    <3>3. text \in Seq(MCListTokens)
      BY <3>1 DEF GrowList, Grow, ListTyped
    <3> QED
      BY <3>2, <3>3
  <2> QED
    BY <2>1, <2>2
<1> QED
  BY <1>1, <1>2, PTL DEF TextSpec

\* Rows that have been migrated already do not change when the preprocessor
\* runs over them again, whatever their SELECT lists are
\* (preprocess.rs:174-177, 306-312).

(* Quotes in parts of a text.                                              *)

\* What r has behind d has its quotes where s has them, up to m.
SameQuotes(r, s, d, m) == \A x \in 1 .. m : r[d + x] = "'" <=> s[x] = "'"

LEMMA QuotesShift ==
    ASSUME NEW r, NEW s, NEW d \in Nat, NEW m \in Nat, SameQuotes(r, s, d, m)
    PROVE  \A k \in 0 .. m :
              QuotesBefore(r, d + k + 1) =
                 QuotesBefore(r, d + 1) + QuotesBefore(s, k + 1)
<1> DEFINE Good == {k \in 0 .. m : QuotesBefore(r, d + k + 1) =
                       QuotesBefore(r, d + 1) + QuotesBefore(s, k + 1)}
<1>1. 0 \in Good
  <2>1. QuotesBefore(s, 1) = 0 /\ QuotesBefore(r, d + 1) \in Nat
    BY QuotesStep
  <2>2. d + 0 + 1 = d + 1 /\ 0 + 1 = 1 /\ 0 \in 0 .. m
    OBVIOUS
  <2> QED
    BY <2>1, <2>2
<1>2. ASSUME NEW k \in 1 .. m, k - 1 \in Good PROVE k \in Good
  <2> DEFINE a == d + k
             q == QuotesBefore(r, d + 1)
  <2>1. a \in Nat /\ a # 0 /\ k \in Nat /\ k # 0 /\ d + (k - 1) + 1 = a
        /\ (k - 1) + 1 = k /\ d + k + 1 = a + 1 /\ k \in 0 .. m
    OBVIOUS
  <2>2. QuotesBefore(r, a) = q + QuotesBefore(s, k)
    BY <1>2, <2>1
  <2>3. r[a] = "'" <=> s[k] = "'"
    BY DEF SameQuotes
  <2> HIDE DEF a
  <2>4. QuotesBefore(r, a + 1) =
           QuotesBefore(r, a) + (IF r[a] = "'" THEN 1 ELSE 0)
    BY <2>1, QuotesStep
  <2>5. /\ QuotesBefore(s, k) \in Nat
        /\ QuotesBefore(s, k + 1) =
              QuotesBefore(s, k) + (IF s[k] = "'" THEN 1 ELSE 0)
    BY <2>1, QuotesStep
  <2>6. q \in Nat
    BY QuotesStep
  <2> HIDE DEF q
  <2>7. QuotesBefore(r, a + 1) = q + QuotesBefore(s, k + 1)
    BY <2>2, <2>3, <2>4, <2>5, <2>6
  <2> QED
    BY <2>1, <2>7 DEF q
<1> HIDE DEF Good
<1>3. \A k \in 0 .. m : k \in Good
  BY <1>1, <1>2, Upto
<1> QED
  BY <1>3 DEF Good

LEMMA QuotesOfAll ==
    ASSUME NEW A, NEW t \in Seq(A)
    PROVE  Quotes(t) = QuotesBefore(t, Len(t) + 1) /\ Quotes(t) \in Nat
<1>1. DOMAIN t = 1 .. Len(t) /\ Len(t) \in Nat /\ (Len(t) + 1) - 1 = Len(t)
  OBVIOUS
<1>2. Quotes(t) = QuotesBefore(t, Len(t) + 1)
  BY <1>1 DEF Quotes, QuotesBefore
<1> QED
  BY <1>1, <1>2, QuotesStep

LEMMA PartOf ==
    ASSUME NEW A, NEW t \in Seq(A), NEW a \in Nat, a # 0, NEW b \in Nat,
           a <= b + 1, b <= Len(t)
    PROVE  /\ SubSeq(t, a, b) \in Seq(A)
           /\ Len(SubSeq(t, a, b)) = (b + 1) - a
           /\ \A i \in 1 .. (b + 1) - a : SubSeq(t, a, b)[i] = t[a - 1 + i]
OBVIOUS

LEMMA QuotesOfPart ==
    ASSUME NEW A, NEW t \in Seq(A), NEW a \in Nat, a # 0, NEW b \in Nat,
           a <= b + 1, b <= Len(t)
    PROVE  Quotes(SubSeq(t, a, b)) =
              QuotesBefore(t, b + 1) - QuotesBefore(t, a)
<1> DEFINE u == SubSeq(t, a, b)
           m == (b + 1) - a
<1>1. u \in Seq(A) /\ Len(u) = m /\ \A i \in 1 .. m : u[i] = t[a - 1 + i]
  BY PartOf
<1>2. m \in Nat /\ a - 1 \in Nat /\ m \in 0 .. m
      /\ (a - 1) + m + 1 = b + 1 /\ (a - 1) + 1 = a
  OBVIOUS
<1> HIDE DEF u, m
<1>3. QuotesBefore(t, (a - 1) + m + 1) =
         QuotesBefore(t, (a - 1) + 1) + QuotesBefore(u, m + 1)
  <2> DEFINE d == a - 1
  <2>1. SameQuotes(t, u, d, m) /\ d \in Nat
    BY <1>1, <1>2 DEF SameQuotes
  <2> HIDE DEF d
  <2>2. \A k \in 0 .. m : QuotesBefore(t, d + k + 1) =
           QuotesBefore(t, d + 1) + QuotesBefore(u, k + 1)
    BY <1>2, <2>1, QuotesShift
  <2> QED
    BY <1>2, <2>2 DEF d
<1>4. Quotes(u) = QuotesBefore(u, m + 1) /\ Quotes(u) \in Nat
  BY <1>1, QuotesOfAll
<1>5. QuotesBefore(t, a) \in Nat
  BY QuotesStep
<1> QED
  BY <1>2, <1>3, <1>4, <1>5 DEF u

\* Inside a literal the quotes before a position are odd.
LEMMA InsideIs ==
    ASSUME NEW A, NEW t \in Seq(A), NEW i \in 1 .. Len(t) + 1
    PROVE  Inside(t, i) <=> QuotesBefore(t, i) % 2 = 1
<1>1. i - 1 \in Nat /\ i - 1 <= Len(t) /\ (i - 1) + 1 = i /\ 1 <= (i - 1) + 1
  OBVIOUS
<1>2. Quotes(SubSeq(t, 1, i - 1)) = QuotesBefore(t, i) - QuotesBefore(t, 1)
  BY <1>1, QuotesOfPart
<1>3. QuotesBefore(t, 1) = 0 /\ QuotesBefore(t, i) \in Nat
  BY QuotesStep
<1> QED
  BY <1>2, <1>3 DEF Inside

\* Texts in a row have the quotes they have together.
LEMMA QuotesOfJoin ==
    ASSUME NEW A, NEW u \in Seq(A), NEW v \in Seq(A)
    PROVE  /\ \A k \in 0 .. Len(u) :
                 QuotesBefore(u \o v, k + 1) = QuotesBefore(u, k + 1)
           /\ \A k \in 0 .. Len(v) :
                 QuotesBefore(u \o v, Len(u) + k + 1) =
                    Quotes(u) + QuotesBefore(v, k + 1)
           /\ Quotes(u \o v) = Quotes(u) + Quotes(v)
<1> DEFINE w == u \o v
           d == Len(u)
           m == Len(v)
<1>1. w \in Seq(A) /\ d \in Nat /\ m \in Nat
  OBVIOUS
<1>2. /\ Len(w) = d + m
      /\ \A x \in 1 .. m : w[d + x] = v[x]
      /\ \A x \in 1 .. d : w[x] = u[x]
  BY Joined
<1>3. /\ Quotes(u) = QuotesBefore(u, d + 1) /\ Quotes(u) \in Nat
      /\ Quotes(v) = QuotesBefore(v, m + 1)
      /\ Quotes(w) = QuotesBefore(w, Len(w) + 1)
  BY <1>1, QuotesOfAll
<1> HIDE DEF w, d, m
<1>4. \A k \in 0 .. d : QuotesBefore(w, k + 1) = QuotesBefore(u, k + 1)
  <2> DEFINE z == 0
  <2>1. z \in Nat /\ SameQuotes(w, u, z, d)
    BY <1>1, <1>2 DEF SameQuotes
  <2>2. \A k \in 0 .. d : z + k + 1 = k + 1 /\ z + 1 = 1
    BY <1>1
  <2> HIDE DEF z
  <2>3. \A k \in 0 .. d : QuotesBefore(w, z + k + 1) =
           QuotesBefore(w, z + 1) + QuotesBefore(u, k + 1)
    BY <1>1, <2>1, QuotesShift
  <2>4. QuotesBefore(w, 1) = 0
    BY QuotesStep
  <2>5. \A k \in 0 .. d : QuotesBefore(u, k + 1) \in Nat
    BY QuotesStep
  <2> QED
    BY <2>2, <2>3, <2>4, <2>5
<1>5. \A k \in 0 .. m : QuotesBefore(w, d + k + 1) =
         QuotesBefore(w, d + 1) + QuotesBefore(v, k + 1)
  <2>1. SameQuotes(w, v, d, m)
    BY <1>2 DEF SameQuotes
  <2> QED
    BY <1>1, <2>1, QuotesShift
<1>6. QuotesBefore(w, d + 1) = Quotes(u)
  <2>1. d \in 0 .. d
    BY <1>1
  <2> QED
    BY <1>3, <1>4, <2>1
<1>7. Quotes(w) = Quotes(u) + Quotes(v)
  <2>1. m \in 0 .. m
    BY <1>1
  <2>2. QuotesBefore(w, d + m + 1) = Quotes(u) + QuotesBefore(v, m + 1)
    BY <1>5, <1>6, <2>1
  <2> QED
    BY <1>2, <1>3, <2>2
<1> QED
  BY <1>4, <1>5, <1>6, <1>7 DEF w, d, m

\* The running number of quotes in the lines of a list.
QuoteSums(q, lines) ==
    /\ q \in [0 .. Len(lines) -> Nat] /\ q[0] = 0
    /\ \A k \in 1 .. Len(lines) : /\ Quotes(lines[k]) \in Nat
                                   /\ q[k] = q[k - 1] + Quotes(lines[k])

\* The lines have so many quotes together.
QuotesAre(lines, n) == \E q : QuoteSums(q, lines) /\ q[Len(lines)] = n

LEMMA QuotesAdd ==
    ASSUME NEW B, NEW u \in Seq(B), NEW v \in Seq(B), NEW m, NEW n,
           QuotesAre(u, m), QuotesAre(v, n)
    PROVE  QuotesAre(u \o v, m + n)
<1> DEFINE w == u \o v
           d == Len(u)
           e == Len(v)
<1>1. PICK p : QuoteSums(p, u) /\ p[d] = m
  BY DEF QuotesAre
<1>2. PICK q : QuoteSums(q, v) /\ q[e] = n
  BY DEF QuotesAre
<1>3. d \in Nat /\ e \in Nat
  OBVIOUS
<1>4. /\ Len(w) = d + e
      /\ \A x \in 1 .. e : w[d + x] = v[x]
      /\ \A x \in 1 .. d : w[x] = u[x]
  BY Joined
<1>5. /\ p \in [0 .. d -> Nat] /\ p[0] = 0
      /\ \A k \in 1 .. d : /\ Quotes(u[k]) \in Nat
                            /\ p[k] = p[k - 1] + Quotes(u[k])
  BY <1>1 DEF QuoteSums
<1>6. /\ q \in [0 .. e -> Nat] /\ q[0] = 0
      /\ \A k \in 1 .. e : /\ Quotes(v[k]) \in Nat
                            /\ q[k] = q[k - 1] + Quotes(v[k])
  BY <1>2 DEF QuoteSums
<1> HIDE DEF w, d, e
<1>7. m \in Nat
  BY <1>1, <1>3, <1>5
<1> DEFINE r == [k \in 0 .. (d + e) |-> IF k <= d THEN p[k] ELSE m + q[k - d]]
<1>8. r \in [0 .. (d + e) -> Nat]
  <2>1. ASSUME NEW k \in 0 .. (d + e)
        PROVE  (IF k <= d THEN p[k] ELSE m + q[k - d]) \in Nat
    <3>1. k <= d => k \in 0 .. d
      OBVIOUS
    <3>2. ~(k <= d) => k - d \in 0 .. e
      BY <1>3
    <3> QED
      BY <1>5, <1>6, <1>7, <3>1, <3>2
  <2> QED
    BY <2>1
<1>9. r[0] = 0 /\ r[d + e] = m + n
  <2>1. 0 \in 0 .. (d + e) /\ d + e \in 0 .. (d + e) /\ 0 <= d
    BY <1>3
  <2>2. r[0] = 0
    BY <1>5, <2>1
  <2>3. CASE e = 0
    <3>1. d + e <= d /\ d + e = d /\ q[e] = 0
      BY <1>3, <1>6, <2>3
    <3> QED
      BY <1>1, <1>2, <1>7, <2>1, <2>2, <3>1
  <2>4. CASE e # 0
    <3>1. ~(d + e <= d) /\ (d + e) - d = e
      BY <1>3, <2>4
    <3> QED
      BY <1>2, <2>1, <2>2, <3>1
  <2> QED
    BY <2>3, <2>4
<1>10. ASSUME NEW k \in 1 .. (d + e)
       PROVE  Quotes(w[k]) \in Nat /\ r[k] = r[k - 1] + Quotes(w[k])
  <2>1. k \in 0 .. (d + e) /\ k - 1 \in 0 .. (d + e)
    BY <1>3
  <2>2. CASE k <= d
    <3>1. k \in 1 .. d /\ k - 1 <= d
      BY <1>3, <2>2
    <3> QED
      BY <1>4, <1>5, <2>1, <2>2, <3>1
  <2>3. CASE ~(k <= d)
    <3> DEFINE x == k - d
    <3>1. x \in 1 .. e /\ d + x = k
      BY <1>3, <2>3
    <3>2. r[k] = m + q[x]
      BY <2>1, <2>3
    <3>3. r[k - 1] = m + q[x - 1]
      <4>1. CASE k - 1 <= d
        <5>1. k - 1 = d /\ x - 1 = 0
          BY <1>3, <2>3, <4>1
        <5> QED
          BY <1>1, <1>6, <1>7, <2>1, <4>1, <5>1
      <4>2. CASE ~(k - 1 <= d)
        <5>1. (k - 1) - d = x - 1
          BY <1>3
        <5> QED
          BY <2>1, <4>2, <5>1
      <4> QED
        BY <4>1, <4>2
    <3>4. w[k] = v[x]
      BY <1>4, <3>1
    <3> HIDE DEF x, r
    <3>5. /\ q[x] = q[x - 1] + Quotes(v[x]) /\ q[x - 1] \in Nat
          /\ Quotes(v[x]) \in Nat
      <4>1. x - 1 \in 0 .. e /\ x \in 0 .. e
        BY <1>3, <3>1
      <4> QED
        BY <1>6, <3>1, <4>1
    <3>6. m + (q[x - 1] + Quotes(v[x])) = (m + q[x - 1]) + Quotes(v[x])
      BY <1>7, <3>5
    <3> QED
      BY <3>2, <3>3, <3>4, <3>5, <3>6
  <2> QED
    BY <2>2, <2>3
<1> HIDE DEF r
<1>11. QuoteSums(r, w)
  BY <1>4, <1>8, <1>9, <1>10 DEF QuoteSums
<1>12. QuotesAre(w, m + n)
  BY <1>4, <1>9, <1>11 DEF QuotesAre
<1> QED
  BY <1>12 DEF w

-----------------------------------------------------------------------------
(* Lines cut out of a text.                                                *)

\* The k-th line has the quotes between the k-th end and the one before.
Stretches(t, p, m, lines) ==
    \A k \in 1 .. m :
       /\ p[k] \in Nat /\ p[k] # 0
       /\ Quotes(lines[k]) \in Nat
       /\ QuotesBefore(t, p[k]) =
             (IF k = 1 THEN 0 ELSE QuotesBefore(t, p[k - 1])) + Quotes(lines[k])

LEMMA StretchesAdd ==
    ASSUME NEW t, NEW m \in Nat, NEW lines, Len(lines) = m,
           NEW p, Stretches(t, p, m, lines)
    PROVE  QuotesAre(lines, IF m = 0 THEN 0 ELSE QuotesBefore(t, p[m]))
<1> DEFINE q == [k \in 0 .. m |-> IF k = 0 THEN 0 ELSE QuotesBefore(t, p[k])]
<1>1. \A k \in 1 .. m : QuotesBefore(t, p[k]) \in Nat
  BY QuotesStep DEF Stretches
<1>2. q \in [0 .. m -> Nat] /\ q[0] = 0
  <2>1. \A k \in 0 .. m : k # 0 => k \in 1 .. m
    OBVIOUS
  <2> QED
    BY <1>1, <2>1
<1>3. ASSUME NEW k \in 1 .. m
      PROVE  Quotes(lines[k]) \in Nat /\ q[k] = q[k - 1] + Quotes(lines[k])
  <2>1. k \in 0 .. m /\ k - 1 \in 0 .. m /\ k # 0 /\ (k - 1 = 0 <=> k = 1)
    OBVIOUS
  <2>2. q[k] = QuotesBefore(t, p[k])
    BY <2>1
  <2>3. q[k - 1] = IF k = 1 THEN 0 ELSE QuotesBefore(t, p[k - 1])
    BY <2>1
  <2> QED
    BY <2>2, <2>3 DEF Stretches
<1>4. q[m] = IF m = 0 THEN 0 ELSE QuotesBefore(t, p[m])
  OBVIOUS
<1> HIDE DEF q
<1>5. QuoteSums(q, lines)
  BY <1>2, <1>3 DEF QuoteSums
<1> QED
  BY <1>4, <1>5 DEF QuotesAre

\* The ends of lines: positions in order, the one behind the text among them.
LEMMA EndsOf ==
    ASSUME NEW n \in Nat, NEW keep \in SUBSET (1 .. n + 1), NEW p,
           p = InOrder(keep)
    PROVE  LET m == Cardinality(keep)
           IN  /\ m \in Nat /\ DOMAIN p = 1 .. m
               /\ \A k \in 1 .. m : p[k] \in keep /\ p[k] \in 1 .. n + 1
               /\ \A k, j \in 1 .. m : k < j <=> p[k] < p[j]
               /\ \A i \in keep : \E k \in 1 .. m : p[k] = i
               /\ \A i \in keep : (\A j \in keep : j <= i) =>
                     m # 0 /\ p[m] = i
<1> DEFINE m == Cardinality(keep)
           last == n + 1
<1>1. last \in Nat
  OBVIOUS
<1> HIDE DEF last
<1>2. keep \in SUBSET (1 .. last)
  BY DEF last
<1>3. Lists(p, keep)
  BY <1>1, <1>2, InOrderLists
<1>4. IsFiniteSet(keep) /\ m \in Nat
  <2>1. IsFiniteSet(1 .. last)
    BY <1>1, FS_Interval
  <2> QED
    BY <1>2, <2>1, FS_Subset, FS_CardinalityType
<1>5. /\ p \in [1 .. m -> keep]
      /\ \A a, b \in 1 .. m : a < b => p[a] < p[b]
      /\ \A i \in keep : \E a \in 1 .. m : p[a] = i
  BY <1>3 DEF Lists
<1> HIDE DEF m
<1>6. \A k \in 1 .. m : p[k] \in keep /\ p[k] \in 1 .. last /\ p[k] \in Nat
  <2>1. \A i \in keep : i \in 1 .. last /\ i \in Nat
    BY <1>1, <1>2
  <2> QED
    BY <1>5, <2>1
<1>7. \A k, j \in 1 .. m : k < j <=> p[k] < p[j]
  <2> SUFFICES ASSUME NEW k \in 1 .. m, NEW j \in 1 .. m, p[k] < p[j]
               PROVE  k < j
    BY <1>5
  <2>1. k = j \/ j < k \/ k < j
    BY <1>4
  <2>2. j < k => p[j] < p[k]
    BY <1>5
  <2>3. p[j] \in Nat /\ p[k] \in Nat
    BY <1>6
  <2> QED
    BY <2>1, <2>2, <2>3
<1>8. ASSUME NEW i \in keep, \A j \in keep : j <= i PROVE m # 0 /\ p[m] = i
  <2>1. PICK k \in 1 .. m : p[k] = i
    BY <1>5
  <2>2. m # 0 /\ m \in 1 .. m
    BY <1>4
  <2>3. p[m] <= i /\ p[m] \in Nat /\ i \in Nat
    BY <1>6, <1>8, <2>1, <2>2
  <2>4. k < m => p[k] < p[m]
    BY <1>5, <2>2
  <2>5. k = m
    BY <1>4, <2>1, <2>3, <2>4
  <2> QED
    BY <2>1, <2>2, <2>5
<1> QED
  BY <1>4, <1>5, <1>6, <1>7, <1>8 DEF m, last

\* No newline is a quote: the lines have the quotes of the text.
LEMMA LinesHaveQuotes ==
    ASSUME NEW A, NEW t \in Seq(A)
    PROVE  /\ LinesOfText(t) \in Seq(Seq(A))
           /\ QuotesAre(LinesOfText(t), Quotes(t))
<1> DEFINE newlines == {i \in DOMAIN t : t[i] = "LF"}
           keep == IF t = << >> \/ Len(t) \in newlines THEN newlines
                   ELSE newlines \cup {Len(t) + 1}
           p == InOrder(keep)
           m == Cardinality(keep)
           lines == LinesOfText(t)
<1>1. PICK n \in Nat : Len(t) = n /\ DOMAIN t = 1 .. n
  OBVIOUS
<1>2. lines = [k \in DOMAIN p |-> SubSeq(t, After(p, k), p[k] - 1)]
  BY Zenon DEF LinesOfText
<1>3. keep \in SUBSET (1 .. n + 1)
  BY <1>1
<1>4. \A i \in keep : i \in newlines \/ i = n + 1
  BY <1>1
<1>5. /\ t = << >> => keep = {} /\ n = 0
      /\ t # << >> => n \in newlines \/ n + 1 \in keep
      /\ n \in newlines => n \in keep /\ \A i \in keep : i <= n
  <2>1. t = << >> => n = 0 /\ newlines = {}
    BY <1>1
  <2>2. n \in newlines => keep = newlines
    BY <1>1
  <2>3. \A i \in newlines : i <= n
    BY <1>1
  <2> HIDE DEF newlines
  <2> QED
    BY <1>1, <2>1, <2>2, <2>3
<1>6. \A i \in newlines : i \in 1 .. n /\ t[i] = "LF"
  BY <1>1
<1> HIDE DEF newlines, keep, p, m, lines
<1>7. /\ m \in Nat /\ DOMAIN p = 1 .. m
      /\ \A k \in 1 .. m : p[k] \in keep /\ p[k] \in 1 .. n + 1
      /\ \A k, j \in 1 .. m : k < j <=> p[k] < p[j]
      /\ \A i \in keep : (\A j \in keep : j <= i) => m # 0 /\ p[m] = i
  BY <1>3, EndsOf DEF p, m
<1>8. ASSUME NEW i \in Nat, i # 0, t[i] = "LF"
      PROVE  QuotesBefore(t, i + 1) = QuotesBefore(t, i)
  <2>1. t[i] # "'"
    BY <1>8
  <2>2. /\ QuotesBefore(t, i) \in Nat
        /\ QuotesBefore(t, i + 1) =
              QuotesBefore(t, i) + (IF t[i] = "'" THEN 1 ELSE 0)
    BY <1>8, QuotesStep
  <2> QED
    BY <2>1, <2>2
<1>9. ASSUME NEW k \in 1 .. m
      PROVE  /\ After(p, k) \in Nat /\ After(p, k) # 0
             /\ p[k] \in Nat /\ p[k] # 0 /\ p[k] - 1 \in Nat
             /\ After(p, k) <= (p[k] - 1) + 1 /\ p[k] - 1 <= n
             /\ QuotesBefore(t, After(p, k)) =
                   IF k = 1 THEN 0 ELSE QuotesBefore(t, p[k - 1])
  <2>1. p[k] \in 1 .. n + 1
    BY <1>7
  <2>2. CASE k = 1
    <3>1. After(p, k) = 1
      BY <2>2 DEF After
    <3>2. QuotesBefore(t, 1) = 0
      BY QuotesStep
    <3> QED
      BY <2>1, <2>2, <3>1, <3>2
  <2>3. CASE k # 1
    <3>1. k - 1 \in 1 .. m /\ k - 1 < k
      BY <1>7, <2>3
    <3>2. /\ p[k - 1] \in keep /\ p[k - 1] \in 1 .. n + 1 /\ p[k - 1] < p[k]
      BY <1>7, <3>1
    <3>3. p[k - 1] \in newlines
      BY <1>1, <1>4, <2>1, <3>2
    <3>4. QuotesBefore(t, p[k - 1] + 1) = QuotesBefore(t, p[k - 1])
      BY <1>6, <1>8, <3>2, <3>3
    <3>5. After(p, k) = p[k - 1] + 1
      BY <2>3 DEF After
    <3> QED
      BY <2>1, <2>3, <3>2, <3>4, <3>5
  <2> QED
    BY <2>2, <2>3
<1>10. ASSUME NEW k \in 1 .. m
       PROVE  /\ SubSeq(t, After(p, k), p[k] - 1) \in Seq(A)
              /\ Quotes(SubSeq(t, After(p, k), p[k] - 1)) \in Nat
              /\ QuotesBefore(t, p[k]) =
                    (IF k = 1 THEN 0 ELSE QuotesBefore(t, p[k - 1]))
                       + Quotes(SubSeq(t, After(p, k), p[k] - 1))
  <2> DEFINE a == After(p, k)
             b == p[k] - 1
             u == SubSeq(t, a, b)
  <2>1. a \in Nat /\ a # 0 /\ b \in Nat /\ a <= b + 1 /\ b <= Len(t)
        /\ b + 1 = p[k]
    BY <1>1, <1>9
  <2> HIDE DEF a, b
  <2>2. u \in Seq(A) /\ Quotes(u) = QuotesBefore(t, b + 1) - QuotesBefore(t, a)
    BY <2>1, PartOf, QuotesOfPart
  <2>3. Quotes(u) \in Nat
    BY <2>2, QuotesOfAll
  <2>4. QuotesBefore(t, a) \in Nat /\ QuotesBefore(t, b + 1) \in Nat
    BY <2>1, QuotesStep
  <2>5. QuotesBefore(t, b + 1) = QuotesBefore(t, a) + Quotes(u)
    BY <2>2, <2>3, <2>4
  <2>6. QuotesBefore(t, a) = IF k = 1 THEN 0 ELSE QuotesBefore(t, p[k - 1])
    BY <1>9 DEF a
  <2> QED
    BY <2>1, <2>2, <2>3, <2>5, <2>6 DEF a, b
<1>11. lines \in Seq(Seq(A)) /\ Len(lines) = m
  <2>1. lines \in [1 .. m -> Seq(A)]
    BY <1>2, <1>7, <1>10
  <2> QED
    BY <1>7, <2>1
<1>12. Stretches(t, p, m, lines)
  <2>1. \A k \in 1 .. m : lines[k] = SubSeq(t, After(p, k), p[k] - 1)
    BY <1>2, <1>7
  <2> QED
    BY <1>9, <1>10, <2>1 DEF Stretches
<1>13. QuotesAre(lines, IF m = 0 THEN 0 ELSE QuotesBefore(t, p[m]))
  BY <1>7, <1>11, <1>12, StretchesAdd
<1>14. (IF m = 0 THEN 0 ELSE QuotesBefore(t, p[m])) = Quotes(t)
  <2>1. Quotes(t) = QuotesBefore(t, n + 1)
    BY <1>1, QuotesOfAll
  <2>2. CASE t = << >>
    <3>1. m = 0 /\ n = 0
      BY <1>5, <2>2, FS_EmptySet DEF m
    <3>2. QuotesBefore(t, 1) = 0
      BY QuotesStep
    <3> QED
      BY <2>1, <3>1, <3>2
  <2>3. CASE t # << >> /\ n \in newlines
    <3>1. m # 0 /\ p[m] = n
      BY <1>5, <1>7, <2>3
    <3>2. QuotesBefore(t, n + 1) = QuotesBefore(t, n)
      BY <1>6, <1>8, <2>3
    <3> QED
      BY <2>1, <3>1, <3>2
  <2>4. CASE t # << >> /\ n \notin newlines
    <3>1. n + 1 \in keep /\ \A j \in keep : j <= n + 1
      BY <1>3, <1>5, <2>4
    <3>2. m # 0 /\ p[m] = n + 1
      BY <1>7, <3>1
    <3> QED
      BY <2>1, <3>2
  <2> QED
    BY <2>2, <2>3, <2>4
<1> QED
  BY <1>11, <1>13, <1>14 DEF lines

\* The sign that sed breaks lines at.
Semicolon == ";"

\* A line has a semicolon only at its end.
EndsAtSemicolon(line) ==
    \A i \in DOMAIN line : line[i] = Semicolon => i = Len(line)

LEMMA LeastOf ==
    ASSUME NEW S, S \subseteq Nat, S # {}
    PROVE  Min(S) \in S /\ \A i \in S : Min(S) <= i
<1>1. PICK n \in S : \A m \in S : n <= m
  BY SmallestNumber
<1> QED
  BY <1>1, Zenon DEF Min

LEMMA LesserOf ==
    ASSUME NEW a \in Nat, NEW b \in Nat
    PROVE  Min({a, b}) = IF a <= b THEN a ELSE b
<1>1. {a, b} \subseteq Nat /\ {a, b} # {}
  OBVIOUS
<1>2. Min({a, b}) \in {a, b} /\ \A i \in {a, b} : Min({a, b}) <= i
  BY <1>1, LeastOf
<1> QED
  BY <1>2

LEMMA NoQuotesBetween ==
    ASSUME NEW t, NEW a \in Nat, a # 0, NEW b \in Nat, a <= b,
           \A i \in a .. b - 1 : t[i] # "'"
    PROVE  QuotesBefore(t, b) = QuotesBefore(t, a)
<1>1. {k \in 1 .. (b - 1) : t[k] = "'"} = {k \in 1 .. (a - 1) : t[k] = "'"}
  OBVIOUS
<1> QED
  BY <1>1 DEF QuotesBefore

LEMMA SignsDiffer ==
    /\ Space # "'" /\ Semicolon # "'" /\ Space # Semicolon /\ "LF" # Space
    /\ Splice # "'" /\ Splice # Semicolon /\ Splice # Space
BY Zenon DEF Space, Semicolon, Splice

\* sed: the parts of a line have its quotes, and a semicolon only at their end
\* (run.sh:358).
LEMMA BrokenLine ==
    ASSUME NEW A, NEW line \in Seq(A)
    PROVE  /\ BreakLine(line) \in Seq(Seq(A))
           /\ QuotesAre(BreakLine(line), Quotes(line))
           /\ \A k \in DOMAIN BreakLine(line) :
                 EndsAtSemicolon(BreakLine(line)[k])
<1> DEFINE semis == {i \in DOMAIN line : line[i] = Semicolon}
           keep == semis \cup {Len(line) + 1}
           p == InOrder(keep)
           m == Cardinality(keep)
           Inky(k) == {i \in After(p, k) .. p[k] :
                           i = Len(line) + 1 \/ line[i] # Space}
           First(k) == IF k = 1 THEN 1 ELSE Min(Inky(k))
           Final(k) == Min({p[k], Len(line)})
           broken == BreakLine(line)
<1>1. PICK n \in Nat : Len(line) = n /\ DOMAIN line = 1 .. n
  OBVIOUS
<1>2. broken = [k \in DOMAIN p |-> SubSeq(line, First(k), Final(k))]
  BY Zenon DEF BreakLine, Semicolon
<1>3. keep \in SUBSET (1 .. n + 1) /\ n + 1 \in keep
  <2>1. semis \subseteq 1 .. n + 1 /\ n + 1 \in 1 .. n + 1
    BY <1>1
  <2>2. keep = semis \cup {n + 1}
    BY <1>1
  <2> HIDE DEF semis, keep
  <2> QED
    BY <2>1, <2>2
<1>4. \A i \in keep : i \in semis \/ i = n + 1
  BY <1>1
<1>5. \A i \in 1 .. n : line[i] = Semicolon <=> i \in semis
  BY <1>1
<1>6. semis \subseteq keep /\ \A i \in semis : i \in 1 .. n
  BY <1>1
<1>7. \A k : Inky(k) = {i \in After(p, k) .. p[k] : i = n + 1 \/ line[i] # Space}
  BY <1>1
<1>8. \A k : Final(k) = Min({p[k], n})
  BY <1>1
<1> HIDE DEF semis, keep, p, m, broken, Inky, Final
<1>9. /\ m \in Nat /\ DOMAIN p = 1 .. m
      /\ \A k \in 1 .. m : p[k] \in keep /\ p[k] \in 1 .. n + 1
      /\ \A k, j \in 1 .. m : k < j <=> p[k] < p[j]
      /\ \A i \in keep : \E k \in 1 .. m : p[k] = i
      /\ \A i \in keep : (\A j \in keep : j <= i) => m # 0 /\ p[m] = i
  BY <1>3, EndsOf DEF p, m
<1>10. m # 0 /\ p[m] = n + 1
  <2>1. \A j \in keep : j <= n + 1
    BY <1>3
  <2> QED
    BY <1>3, <1>9, <2>1
<1>11. ASSUME NEW k \in 1 .. m
       PROVE  /\ p[k] \in Nat /\ p[k] # 0 /\ Final(k) \in Nat /\ Final(k) <= n
              /\ Final(k) <= p[k]
              /\ QuotesBefore(line, Final(k) + 1) = QuotesBefore(line, p[k])
  <2>1. p[k] \in 1 .. n + 1 /\ p[k] \in Nat
    BY <1>9
  <2>2. Final(k) = IF p[k] <= n THEN p[k] ELSE n
    BY <1>8, <2>1, LesserOf
  <2>3. CASE p[k] <= n
    <3>1. p[k] \in semis
      BY <1>1, <1>4, <1>9, <2>1, <2>3
    <3>2. line[p[k]] # "'"
      BY <1>5, <2>1, <2>3, <3>1, SignsDiffer
    <3>3. /\ QuotesBefore(line, p[k]) \in Nat
          /\ QuotesBefore(line, p[k] + 1) =
                QuotesBefore(line, p[k]) + (IF line[p[k]] = "'" THEN 1 ELSE 0)
      <4>1. p[k] # 0
        BY <1>1, <2>1
      <4> QED
        BY <2>1, <4>1, QuotesStep
    <3> QED
      BY <1>1, <2>1, <2>2, <2>3, <3>2, <3>3
  <2>4. CASE ~(p[k] <= n)
    <3>1. p[k] = n + 1 /\ Final(k) = n
      BY <1>1, <2>1, <2>2, <2>4
    <3> QED
      BY <1>1, <2>1, <3>1
  <2> QED
    BY <2>3, <2>4
<1>12. ASSUME NEW k \in 1 .. m
       PROVE  /\ First(k) \in Nat /\ First(k) # 0 /\ First(k) <= Final(k) + 1
              /\ QuotesBefore(line, First(k)) =
                    IF k = 1 THEN 0 ELSE QuotesBefore(line, p[k - 1])
              /\ k # 1 => p[k - 1] < First(k)
  <2>1. CASE k = 1
    <3>1. First(k) = 1
      BY <2>1
    <3>2. QuotesBefore(line, 1) = 0
      BY QuotesStep
    <3> QED
      BY <1>11, <2>1, <3>1, <3>2
  <2>2. CASE k # 1
    <3>1. k - 1 \in 1 .. m /\ k - 1 < k
      BY <1>9, <2>2
    <3>2. /\ p[k] \in 1 .. n + 1 /\ p[k] \in keep
          /\ p[k - 1] \in 1 .. n + 1 /\ p[k - 1] \in keep /\ p[k - 1] < p[k]
      BY <1>9, <3>1
    <3>3. p[k - 1] \in semis
      BY <1>4, <3>2
    <3> DEFINE a == p[k - 1]
               f == First(k)
    <3>4. a \in Nat /\ a # 0 /\ a <= n /\ a < p[k]
      BY <3>2
    <3>5. After(p, k) = a + 1
      BY <2>2 DEF After
    <3>6. line[p[k]] # Space \/ p[k] = n + 1
      BY <1>1, <1>4, <1>5, <3>2, SignsDiffer
    <3>7. p[k] \in Inky(k)
      BY <1>7, <3>2, <3>4, <3>5, <3>6
    <3>8. Inky(k) \subseteq Nat
      BY <1>7, <3>4, <3>5
    <3>9. f \in Inky(k) /\ \A i \in Inky(k) : f <= i
      <4>1. f = Min(Inky(k))
        BY <2>2
      <4> HIDE DEF f
      <4> QED
        BY <3>7, <3>8, <4>1, LeastOf
    <3>10. f \in Nat /\ f >= a + 1 /\ f <= p[k]
      BY <1>7, <3>2, <3>4, <3>5, <3>9
    <3> HIDE DEF f
    <3>11. \A i \in a + 1 .. f - 1 : line[i] = Space
      <4> SUFFICES ASSUME NEW i \in a + 1 .. f - 1, line[i] # Space
                   PROVE  FALSE
        OBVIOUS
      <4>1. i \in Nat /\ i >= a + 1 /\ i <= p[k] /\ i < f
        BY <3>2, <3>4, <3>10
      <4>2. i \in Inky(k)
        BY <1>7, <3>5, <3>2, <4>1
      <4> QED
        BY <3>9, <3>10, <4>1, <4>2
    <3>12. QuotesBefore(line, f) = QuotesBefore(line, a + 1)
      <4>1. \A i \in a + 1 .. f - 1 : line[i] # "'"
        BY <3>11, SignsDiffer
      <4>2. a + 1 \in Nat /\ a + 1 # 0 /\ a + 1 <= f
        BY <3>4, <3>10
      <4> DEFINE b == a + 1
      <4> HIDE DEF b
      <4>3. QuotesBefore(line, f) = QuotesBefore(line, b)
        BY <3>10, <4>1, <4>2, NoQuotesBetween DEF b
      <4> QED
        BY <4>3 DEF b
    <3>13. QuotesBefore(line, a + 1) = QuotesBefore(line, a)
      <4>1. line[a] # "'"
        BY <1>5, <1>6, <3>3, SignsDiffer
      <4>2. /\ QuotesBefore(line, a) \in Nat
            /\ QuotesBefore(line, a + 1) =
                  QuotesBefore(line, a) + (IF line[a] = "'" THEN 1 ELSE 0)
        BY <3>4, QuotesStep
      <4> QED
        BY <4>1, <4>2
    <3>14. f <= Final(k) + 1
      <4>1. Final(k) = IF p[k] <= n THEN p[k] ELSE n
        <5>1. p[k] \in Nat
          BY <1>1, <3>2
        <5> QED
          BY <1>1, <1>8, <5>1, LesserOf
      <4> QED
        BY <1>1, <3>2, <3>10, <4>1
    <3>15. f # 0 /\ a < f
      BY <3>4, <3>10
    <3> QED
      BY <2>2, <3>10, <3>12, <3>13, <3>14, <3>15 DEF f
  <2> QED
    BY <2>1, <2>2
<1> HIDE DEF First
<1>13. ASSUME NEW k \in 1 .. m
       PROVE  LET u == SubSeq(line, First(k), Final(k))
              IN  /\ u \in Seq(A) /\ Quotes(u) \in Nat
                  /\ QuotesBefore(line, p[k]) =
                       (IF k = 1 THEN 0 ELSE QuotesBefore(line, p[k - 1]))
                          + Quotes(u)
                  /\ EndsAtSemicolon(u)
  <2> DEFINE a == First(k)
             b == Final(k)
             u == SubSeq(line, a, b)
  <2>1. a \in Nat /\ a # 0 /\ b \in Nat /\ a <= b + 1 /\ b <= Len(line)
    BY <1>1, <1>11, <1>12
  <2>2. /\ QuotesBefore(line, b + 1) = QuotesBefore(line, p[k])
        /\ QuotesBefore(line, a) =
             IF k = 1 THEN 0 ELSE QuotesBefore(line, p[k - 1])
        /\ b <= p[k] /\ (k # 1 => p[k - 1] < a)
    BY <1>11, <1>12
  <2> HIDE DEF a, b
  <2>3. /\ u \in Seq(A) /\ Quotes(u) = QuotesBefore(line, b + 1) - QuotesBefore(line, a)
        /\ Len(u) = (b + 1) - a
        /\ \A i \in 1 .. (b + 1) - a : u[i] = line[a - 1 + i]
    BY <2>1, PartOf, QuotesOfPart
  <2> HIDE DEF u
  <2>4. Quotes(u) \in Nat
    BY <2>3, QuotesOfAll
  <2>5. QuotesBefore(line, a) \in Nat /\ QuotesBefore(line, b + 1) \in Nat
    BY <2>1, QuotesStep
  <2>6. QuotesBefore(line, b + 1) = QuotesBefore(line, a) + Quotes(u)
    BY <2>3, <2>4, <2>5
  <2>7. EndsAtSemicolon(u)
    <3> SUFFICES ASSUME NEW i \in DOMAIN u, u[i] = Semicolon PROVE i = Len(u)
      BY Zenon DEF EndsAtSemicolon
    <3> DEFINE x == a - 1 + i
    <3>1. i \in 1 .. (b + 1) - a
      <4>1. DOMAIN u = 1 .. Len(u)
        BY <2>3
      <4> QED
        BY <2>3, <4>1
    <3>2. x \in 1 .. n /\ a <= x /\ x <= b
      BY <1>1, <2>1, <3>1
    <3>3. line[x] = Semicolon
      BY <2>3, <3>1
    <3> HIDE DEF x
    <3>4. x \in keep
      BY <1>5, <1>6, <3>2, <3>3
    <3>5. PICK j \in 1 .. m : p[j] = x
      BY <1>9, <3>4
    <3>6. ~(k < j)
      <4>1. p[k] \in Nat /\ x \in Nat
        BY <1>1, <1>11, <3>2
      <4>2. ~(p[k] < x)
        BY <1>1, <2>1, <2>2, <3>2, <4>1
      <4> QED
        BY <1>9, <3>5, <4>2
    <3>7. ~(j < k)
      <4> SUFFICES ASSUME j < k PROVE FALSE
        OBVIOUS
      <4>1. k # 1 /\ k - 1 \in 1 .. m /\ ~(k - 1 < j)
        BY <1>9, <3>5
      <4>2. p[k - 1] < a
        BY <2>2, <4>1
      <4>3. p[k - 1] \in Nat
        BY <1>11, <4>1
      <4>4. p[k - 1] < x
        BY <1>1, <2>1, <3>2, <4>2, <4>3
      <4> QED
        BY <1>9, <3>5, <4>1, <4>4
    <3>8. j = k
      BY <1>9, <3>6, <3>7
    <3>9. x = b
      <4>1. p[k] = x /\ p[k] <= n
        BY <1>1, <3>2, <3>5, <3>8
      <4>2. b = p[k]
        <5>1. Final(k) = IF p[k] <= n THEN p[k] ELSE n
          <6>1. p[k] \in Nat
            BY <1>11
          <6> QED
            BY <1>8, <6>1, LesserOf
        <5> QED
          BY <4>1, <5>1 DEF b
      <4> QED
        BY <4>1, <4>2
    <3>10. i = (b + 1) - a
      BY <2>1, <3>1, <3>9 DEF x
    <3> QED
      BY <2>3, <3>10
  <2> QED
    BY <2>2, <2>3, <2>4, <2>6, <2>7 DEF u, a, b
<1>14. \A k \in 1 .. m : broken[k] = SubSeq(line, First(k), Final(k))
  BY <1>2, <1>9
<1>15. broken \in Seq(Seq(A)) /\ Len(broken) = m /\ DOMAIN broken = 1 .. m
  <2>1. broken \in [1 .. m -> Seq(A)]
    BY <1>2, <1>9, <1>13
  <2> QED
    BY <1>9, <2>1
<1>16. Stretches(line, p, m, broken)
  BY <1>11, <1>13, <1>14 DEF Stretches
<1>17. QuotesAre(broken, Quotes(line))
  <2>1. QuotesAre(broken, IF m = 0 THEN 0 ELSE QuotesBefore(line, p[m]))
    BY <1>9, <1>15, <1>16, StretchesAdd
  <2>2. Quotes(line) = QuotesBefore(line, n + 1)
    BY <1>1, QuotesOfAll
  <2> QED
    BY <1>10, <2>1, <2>2
<1>18. \A k \in DOMAIN broken : EndsAtSemicolon(broken[k])
  BY <1>13, <1>14, <1>15
<1> QED
  BY <1>15, <1>17, <1>18 DEF broken

\* Lines as sed leaves them, with n quotes together.
Sedded(lines, n, A) ==
    /\ lines \in Seq(Seq(A)) /\ QuotesAre(lines, n)
    /\ \A i \in DOMAIN lines : EndsAtSemicolon(lines[i])

LEMMA NothingSedded ==
    ASSUME NEW A
    PROVE  Sedded(<< >>, 0, A)
<1> DEFINE none == << >>
           q == [k \in 0 .. 0 |-> 0]
<1>1. none \in Seq(Seq(A)) /\ Len(none) = 0 /\ DOMAIN none = {}
  OBVIOUS
<1>2. q \in [0 .. 0 -> Nat] /\ q[0] = 0
  OBVIOUS
<1> HIDE DEF none, q
<1>3. QuoteSums(q, none)
  BY <1>1, <1>2 DEF QuoteSums
<1>4. QuotesAre(none, 0)
  BY <1>1, <1>2, <1>3 DEF QuotesAre
<1>5. Sedded(none, 0, A)
  BY <1>1, <1>4 DEF Sedded
<1> QED
  BY <1>5 DEF none

LEMMA SeddedAdd ==
    ASSUME NEW A, NEW u, NEW v, NEW m, NEW n, Sedded(u, m, A), Sedded(v, n, A)
    PROVE  Sedded(u \o v, m + n, A)
<1> DEFINE B == Seq(A)
           w == u \o v
<1>1. u \in Seq(B) /\ v \in Seq(B)
  BY DEF Sedded
<1>2. w \in Seq(B)
  BY <1>1
<1> HIDE DEF B
<1>3. QuotesAre(w, m + n)
  <2>1. QuotesAre(u, m) /\ QuotesAre(v, n)
    BY DEF Sedded
  <2> QED
    BY <1>1, <2>1, QuotesAdd
<1>4. ASSUME NEW i \in DOMAIN w PROVE EndsAtSemicolon(w[i])
  <2>1. /\ Len(w) = Len(u) + Len(v)
        /\ \A x \in 1 .. Len(v) : w[Len(u) + x] = v[x]
        /\ \A y \in 1 .. Len(u) : w[y] = u[y]
    BY <1>1, Joined
  <2>2. /\ DOMAIN u = 1 .. Len(u) /\ DOMAIN v = 1 .. Len(v)
        /\ Len(u) \in Nat /\ Len(v) \in Nat /\ DOMAIN w = 1 .. Len(w)
    BY <1>1, <1>2
  <2> HIDE DEF w
  <2>3. CASE i <= Len(u)
    <3>1. i \in DOMAIN u /\ w[i] = u[i]
      BY <1>4, <2>1, <2>2, <2>3
    <3> QED
      BY <3>1 DEF Sedded
  <2>4. CASE ~(i <= Len(u))
    <3> DEFINE x == i - Len(u)
    <3>1. x \in 1 .. Len(v) /\ Len(u) + x = i
      BY <1>4, <2>1, <2>2, <2>4
    <3> HIDE DEF x
    <3>2. x \in DOMAIN v /\ w[i] = v[x]
      BY <2>1, <2>2, <3>1
    <3> QED
      BY <3>2 DEF Sedded
  <2> QED
    BY <2>3, <2>4
<1> QED
  BY <1>2, <1>3, <1>4 DEF Sedded, B

\* sed on a text of any length (run.sh:358).
LEMMA SedLinesAre ==
    ASSUME NEW A, NEW t \in Seq(A)
    PROVE  Sedded(SedLines(t), Quotes(t), A)
<1> DEFINE lines == LinesOfText(t)
           broken == [k \in DOMAIN lines |-> BreakLine(lines[k])]
           B == Seq(A)
<1>1. lines \in Seq(B) /\ QuotesAre(lines, Quotes(t))
  BY LinesHaveQuotes
<1>2. SedLines(t) = FlattenSeq(broken)
  BY Zenon DEF SedLines
<1> HIDE DEF lines
<1>3. PICK n \in Nat : Len(lines) = n /\ DOMAIN lines = 1 .. n
  BY <1>1
<1>4. PICK q : QuoteSums(q, lines) /\ q[n] = Quotes(t)
  BY <1>1, <1>3 DEF QuotesAre
<1>5. /\ q[0] = 0
      /\ \A k \in 1 .. n : q[k] = q[k - 1] + Quotes(lines[k])
  BY <1>3, <1>4 DEF QuoteSums
<1>6. \A k \in 1 .. n : broken[k] = BreakLine(lines[k]) /\ lines[k] \in Seq(A)
  BY <1>1, <1>3
<1>7. ASSUME NEW k \in 1 .. n PROVE Sedded(broken[k], Quotes(lines[k]), A)
  <2> DEFINE line == lines[k]
  <2>1. line \in Seq(A) /\ broken[k] = BreakLine(line)
    BY <1>6
  <2> HIDE DEF line, broken
  <2>2. Sedded(BreakLine(line), Quotes(line), A)
    BY <2>1, BrokenLine DEF Sedded
  <2> QED
    BY <2>1, <2>2 DEF line
<1>8. broken \in Seq(Seq(B)) /\ Len(broken) = n
  <2>1. \A k \in 1 .. n : broken[k] \in Seq(B)
    BY <1>7 DEF Sedded
  <2>2. broken \in [1 .. n -> Seq(B)]
    <3>1. broken = [k \in 1 .. n |-> broken[k]]
      BY <1>3
    <3> HIDE DEF broken
    <3> QED
      BY <2>1, <3>1
  <2> HIDE DEF broken
  <2> QED
    BY <2>2
<1> HIDE DEF broken
<1>9. PICK run : Flattening(run, broken, B)
  <2> HIDE DEF B
  <2> QED
    BY <1>8, FlattenRun
<1>10. /\ run[0] = << >> /\ FlattenSeq(broken) = run[n]
       /\ \A k \in 1 .. n : run[k] = run[k - 1] \o broken[k]
  BY <1>8, <1>9 DEF Flattening
<1> DEFINE Good == {k \in 0 .. n : Sedded(run[k], q[k], A)}
<1>11. 0 \in Good
  <2>1. 0 \in 0 .. n
    BY <1>3
  <2> QED
    BY <1>5, <1>10, <2>1, NothingSedded
<1>12. ASSUME NEW k \in 1 .. n, k - 1 \in Good PROVE k \in Good
  <2>1. Sedded(run[k - 1], q[k - 1], A) /\ k \in 0 .. n
    BY <1>12
  <2>2. Sedded(run[k - 1] \o broken[k], q[k - 1] + Quotes(lines[k]), A)
    BY <1>7, <2>1, SeddedAdd
  <2> QED
    BY <1>5, <1>10, <2>1, <2>2
<1> HIDE DEF Good
<1>13. \A k \in 0 .. n : k \in Good
  BY <1>3, <1>11, <1>12, Upto
<1>14. Sedded(run[n], q[n], A)
  <2>1. n \in 0 .. n
    BY <1>3
  <2> QED
    BY <1>13, <2>1 DEF Good
<1> QED
  BY <1>2, <1>4, <1>10, <1>14

-----------------------------------------------------------------------------
(* The lines awk folds.                                                    *)

LEMMA JoinAt ==
    ASSUME NEW B, NEW u \in Seq(B), NEW v \in Seq(B)
    PROVE  /\ u \o v \in Seq(B) /\ Len(u \o v) = Len(u) + Len(v)
           /\ Quotes(u \o v) = Quotes(u) + Quotes(v)
           /\ \A i \in DOMAIN u :
                 (u \o v)[i] = u[i] /\ QuotesBefore(u \o v, i) = QuotesBefore(u, i)
           /\ \A i \in DOMAIN (u \o v) :
                 i \in DOMAIN u
                 \/ \E x \in DOMAIN v : i = Len(u) + x /\ (u \o v)[i] = v[x]
<1> DEFINE w == u \o v
<1>1. /\ w \in Seq(B) /\ DOMAIN u = 1 .. Len(u) /\ DOMAIN v = 1 .. Len(v)
      /\ DOMAIN w = 1 .. Len(w) /\ Len(u) \in Nat /\ Len(v) \in Nat
  OBVIOUS
<1>2. /\ Len(w) = Len(u) + Len(v)
      /\ \A x \in 1 .. Len(v) : w[Len(u) + x] = v[x]
      /\ \A y \in 1 .. Len(u) : w[y] = u[y]
  BY Joined
<1>3. /\ \A k \in 0 .. Len(u) : QuotesBefore(w, k + 1) = QuotesBefore(u, k + 1)
      /\ Quotes(w) = Quotes(u) + Quotes(v)
  BY QuotesOfJoin
<1> HIDE DEF w
<1>4. ASSUME NEW i \in DOMAIN u PROVE QuotesBefore(w, i) = QuotesBefore(u, i)
  <2>1. i - 1 \in 0 .. Len(u) /\ (i - 1) + 1 = i
    BY <1>1
  <2> QED
    BY <1>3, <2>1
<1>5. ASSUME NEW i \in DOMAIN w, i \notin DOMAIN u
      PROVE  \E x \in DOMAIN v : i = Len(u) + x /\ w[i] = v[x]
  <2>1. i - Len(u) \in DOMAIN v /\ i = Len(u) + (i - Len(u))
    BY <1>1, <1>2, <1>5
  <2> QED
    BY <1>1, <1>2, <2>1
<1>6. \A i \in DOMAIN u : w[i] = u[i]
  BY <1>1, <1>2
<1> QED
  BY <1>1, <1>2, <1>3, <1>4, <1>5, <1>6 DEF w

LEMMA NoQuotes ==
    ASSUME NEW B, NEW u \in Seq(B), \A i \in DOMAIN u : u[i] # "'"
    PROVE  Quotes(u) = 0
<1>1. {i \in DOMAIN u : u[i] = "'"} = {}
  OBVIOUS
<1> QED
  BY <1>1, FS_EmptySet DEF Quotes

\* Every semicolon of u is inside a literal.
Held(u) == \A i \in DOMAIN u : u[i] = Semicolon => QuotesBefore(u, i) % 2 = 1

\* Every semicolon of u, but for one at its end.
HeldBefore(u) ==
    \A i \in DOMAIN u :
       u[i] = Semicolon => QuotesBefore(u, i) % 2 = 1 \/ i = Len(u)

\* A line that ducklink can execute.
Whole(line) ==
    /\ Quotes(line) % 2 = 0 /\ IsTerminated(line)
    /\ \A i \in DOMAIN line :
          line[i] = Semicolon /\ QuotesBefore(line, i) % 2 = 0 => i = Len(line)

LEMMA ParityOf ==
    ASSUME NEW n \in Nat
    PROVE  n % 2 \in {0, 1}
OBVIOUS

\* A line joined to an open literal: every semicolon before its last position
\* stays inside a literal.
LEMMA HeldJoin ==
    ASSUME NEW B, Splice \in B, NEW u \in Seq(B), NEW line \in Seq(B),
           Held(u), EndsAtSemicolon(line)
    PROVE  LET joined == u \o <<Splice>> \o line
           IN  /\ joined \in Seq(B)
               /\ Quotes(joined) = Quotes(u) + Quotes(line)
               /\ HeldBefore(joined)
<1> DEFINE mid == <<Splice>>
           v == u \o mid
           joined == v \o line
<1>1. mid \in Seq(B) /\ DOMAIN mid = {1} /\ mid[1] = Splice
  OBVIOUS
<1> HIDE DEF mid
<1>2. /\ v \in Seq(B) /\ Quotes(v) = Quotes(u) + Quotes(mid)
      /\ \A i \in DOMAIN u :
            v[i] = u[i] /\ QuotesBefore(v, i) = QuotesBefore(u, i)
      /\ \A i \in DOMAIN v :
            i \in DOMAIN u \/ \E x \in DOMAIN mid : v[i] = mid[x]
  BY <1>1, JoinAt
<1>3. Quotes(mid) = 0
  BY <1>1, SignsDiffer, NoQuotes
<1>4. Quotes(v) = Quotes(u)
  BY <1>2, <1>3, QuotesOfAll
<1>5. \A i \in DOMAIN v : v[i] = Semicolon => QuotesBefore(v, i) % 2 = 1
  BY <1>1, <1>2, SignsDiffer DEF Held
<1> HIDE DEF v
<1>6. /\ joined \in Seq(B) /\ Quotes(joined) = Quotes(v) + Quotes(line)
      /\ Len(joined) = Len(v) + Len(line)
      /\ \A i \in DOMAIN v :
            joined[i] = v[i] /\ QuotesBefore(joined, i) = QuotesBefore(v, i)
      /\ \A i \in DOMAIN joined :
            i \in DOMAIN v
            \/ \E x \in DOMAIN line : i = Len(v) + x /\ joined[i] = line[x]
  BY <1>2, JoinAt
<1> HIDE DEF joined
<1>7. HeldBefore(joined)
  <2> SUFFICES ASSUME NEW i \in DOMAIN joined, joined[i] = Semicolon
               PROVE  QuotesBefore(joined, i) % 2 = 1 \/ i = Len(joined)
    BY DEF HeldBefore
  <2>1. CASE i \in DOMAIN v
    BY <1>5, <1>6, <2>1
  <2>2. CASE i \notin DOMAIN v
    <3>1. PICK x \in DOMAIN line : i = Len(v) + x /\ joined[i] = line[x]
      BY <1>6, <2>2
    <3>2. x = Len(line)
      BY <3>1 DEF EndsAtSemicolon
    <3> QED
      BY <1>6, <3>1, <3>2
  <2> QED
    BY <2>1, <2>2
<1> QED
  BY <1>4, <1>6, <1>7 DEF joined, v, mid

LEMMA IsTerminatedIs ==
    ASSUME NEW u
    PROVE  /\ IsTerminated(u) <=>
                 \E i \in DOMAIN u :
                    u[i] = Semicolon
                    /\ \A j \in (i + 1) .. Len(u) : u[j] = Space
           /\ Terminated(u) =
                 IF IsTerminated(u) THEN u ELSE Append(u, Semicolon)
BY Zenon DEF IsTerminated, Terminated, Semicolon

\* What awk prints is whole, its semicolon the only one outside a literal
\* (run.sh:383-388).
LEMMA TerminatedIsWhole ==
    ASSUME NEW B, Semicolon \in B, NEW joined \in Seq(B),
           Quotes(joined) % 2 = 0, HeldBefore(joined)
    PROVE  Terminated(joined) \in Seq(B) /\ Whole(Terminated(joined))
<1>1. CASE IsTerminated(joined)
  <2>1. Terminated(joined) = joined
    BY <1>1, IsTerminatedIs
  <2>2. Whole(joined)
    BY <1>1 DEF Whole, HeldBefore
  <2> QED
    BY <2>1, <2>2
<1>2. CASE ~IsTerminated(joined)
  <2> DEFINE end == <<Semicolon>>
             u == joined \o end
             n == Len(joined)
  <2>1. Terminated(joined) = Append(joined, Semicolon)
    BY <1>2, IsTerminatedIs
  <2>2. Append(joined, Semicolon) = u
    OBVIOUS
  <2>3. end \in Seq(B) /\ DOMAIN end = {1} /\ end[1] = Semicolon /\ Len(end) = 1
    OBVIOUS
  <2>4. n \in Nat /\ DOMAIN joined = 1 .. n
    OBVIOUS
  <2> HIDE DEF end, n
  <2>5. /\ u \in Seq(B) /\ Len(u) = n + 1 /\ Quotes(u) = Quotes(joined) + Quotes(end)
        /\ \A i \in DOMAIN joined :
              u[i] = joined[i] /\ QuotesBefore(u, i) = QuotesBefore(joined, i)
        /\ \A i \in DOMAIN u :
              i \in DOMAIN joined
              \/ \E x \in DOMAIN end : i = n + x /\ u[i] = end[x]
    BY <2>3, JoinAt DEF n
  <2>6. DOMAIN u = 1 .. n + 1
    BY <2>4, <2>5
  <2> HIDE DEF u
  <2>7. Quotes(u) = Quotes(joined)
    <3>1. Quotes(end) = 0
      BY <2>3, SignsDiffer, NoQuotes
    <3> QED
      BY <2>5, <3>1, QuotesOfAll
  <2>8. u[n + 1] = Semicolon
    <3>1. n + 1 \in DOMAIN u /\ n + 1 \notin DOMAIN joined
      BY <2>4, <2>6
    <3> QED
      BY <2>3, <2>5, <3>1
  <2>9. IsTerminated(u)
    <3>1. n + 1 \in DOMAIN u /\ (n + 1) + 1 .. Len(u) = {}
      BY <2>4, <2>5, <2>6
    <3> QED
      BY <2>8, <3>1, IsTerminatedIs
  <2>10. ASSUME NEW i \in DOMAIN u, u[i] = Semicolon, QuotesBefore(u, i) % 2 = 0
         PROVE  i = Len(u)
    <3>1. CASE i \in DOMAIN joined
      <4>1. joined[i] = Semicolon /\ QuotesBefore(joined, i) % 2 = 0
        BY <2>5, <2>10, <3>1
      <4>2. i = n
        BY <3>1, <4>1 DEF HeldBefore, n
      <4>3. (i + 1) .. Len(joined) = {}
        BY <2>4, <4>2 DEF n
      <4>4. IsTerminated(joined)
        BY <3>1, <4>1, <4>3, IsTerminatedIs
      <4> QED
        BY <1>2, <4>4
    <3>2. CASE i \notin DOMAIN joined
      <4>1. PICK x \in DOMAIN end : i = n + x
        BY <2>5, <3>2
      <4> QED
        BY <2>3, <2>5, <4>1
    <3> QED
      BY <3>1, <3>2
  <2>11. Whole(u)
    BY <2>7, <2>9, <2>10 DEF Whole
  <2> QED
    BY <2>1, <2>2, <2>5, <2>11
<1> QED
  BY <1>1, <1>2

\* What awk keeps between lines.
AwkStates(B) == [inStr : BOOLEAN, buf : Seq(B), out : Seq(Seq(B))]

\* What awk has after lines with n quotes together: a literal that is open is
\* held back, and what is out can be executed.
Folded(awk, n) ==
    /\ awk.inStr <=> n % 2 = 1
    /\ Quotes(awk.buf) % 2 = n % 2
    /\ ~awk.inStr => awk.buf = << >>
    /\ Held(awk.buf)
    /\ \A i \in DOMAIN awk.out : Whole(awk.out[i])

\* The text a line is made into.
FoldedText(awk, line) ==
    IF awk.inStr THEN awk.buf \o <<Splice>> \o line ELSE line

LEMMA AwkLineIs ==
    ASSUME NEW awk, NEW line, NEW inside,
           inside = ((Quotes(line) % 2 = 0) = awk.inStr)
    PROVE  AwkLine(awk, line, TRUE) =
              IF ~awk.inStr /\ IsBlank(line) THEN awk
              ELSE [inStr |-> inside,
                    buf |-> IF inside THEN FoldedText(awk, line) ELSE << >>,
                    out |-> IF inside THEN awk.out
                            ELSE Append(awk.out,
                                        Terminated(FoldedText(awk, line)))]
<1>1. CASE inside
  BY <1>1 DEF AwkLine, FoldedText
<1>2. CASE ~inside
  BY <1>2 DEF AwkLine, FoldedText
<1> QED
  BY <1>1, <1>2

LEMMA NothingHeld == Quotes(<< >>) = 0 /\ Held(<< >>)
<1> DEFINE none == << >>
<1>1. none \in Seq(Nat) /\ DOMAIN none = {}
  OBVIOUS
<1> HIDE DEF none
<1>2. Quotes(none) = 0
  BY <1>1, NoQuotes
<1>3. Held(none)
  BY <1>1 DEF Held
<1> QED
  BY <1>2, <1>3 DEF none

LEMMA ParityOfSum ==
    ASSUME NEW a \in Nat, NEW n \in Nat, NEW q \in Nat, a % 2 = n % 2
    PROVE  (a + q) % 2 = (n + q) % 2
OBVIOUS

\* A line, with what was held back before it, has the parity of the quotes seen.
LEMMA FoldedTextIs ==
    ASSUME NEW B, Splice \in B, NEW awk \in AwkStates(B), NEW n \in Nat,
           Folded(awk, n), NEW line \in Seq(B), EndsAtSemicolon(line)
    PROVE  LET joined == FoldedText(awk, line)
           IN  /\ joined \in Seq(B) /\ HeldBefore(joined)
               /\ Quotes(joined) % 2 = (n + Quotes(line)) % 2
<1>1. Quotes(line) \in Nat
  BY QuotesOfAll
<1>2. CASE awk.inStr
  <2> DEFINE u == awk.buf
             joined == u \o <<Splice>> \o line
  <2>1. u \in Seq(B) /\ Held(u) /\ Quotes(u) % 2 = n % 2
    BY DEF AwkStates, Folded
  <2>2. FoldedText(awk, line) = joined
    BY <1>2 DEF FoldedText
  <2> HIDE DEF u
  <2>3. joined \in Seq(B) /\ Quotes(joined) = Quotes(u) + Quotes(line)
        /\ HeldBefore(joined)
    BY <2>1, HeldJoin
  <2>4. Quotes(u) \in Nat
    BY <2>1, QuotesOfAll
  <2> HIDE DEF joined
  <2>5. Quotes(joined) % 2 = (n + Quotes(line)) % 2
    <3> DEFINE a == Quotes(u)
               q == Quotes(line)
    <3>1. a \in Nat /\ q \in Nat /\ a % 2 = n % 2 /\ Quotes(joined) = a + q
      BY <1>1, <2>1, <2>3, <2>4
    <3> HIDE DEF a, q
    <3>2. (a + q) % 2 = (n + q) % 2
      BY <3>1, ParityOfSum
    <3> QED
      BY <3>1, <3>2 DEF q
  <2> QED
    BY <2>2, <2>3, <2>5
<1>3. CASE ~awk.inStr
  <2>1. FoldedText(awk, line) = line
    BY <1>3 DEF FoldedText
  <2>2. n % 2 = 0
    BY <1>3, ParityOf DEF Folded
  <2>3. Quotes(line) % 2 = (n + Quotes(line)) % 2
    BY <1>1, <2>2
  <2>4. HeldBefore(line)
    BY DEF HeldBefore, EndsAtSemicolon
  <2> QED
    BY <2>1, <2>3, <2>4
<1> QED
  BY <1>2, <1>3

LEMMA OpenTextIsHeld ==
    ASSUME NEW B, NEW joined \in Seq(B), HeldBefore(joined), Quotes(joined) % 2 = 1
    PROVE  Held(joined)
<1> SUFFICES ASSUME NEW i \in DOMAIN joined, joined[i] = Semicolon, i = Len(joined)
             PROVE  QuotesBefore(joined, i) % 2 = 1
  BY DEF Held, HeldBefore
<1>1. i \in Nat /\ i # 0
  OBVIOUS
<1>2. Quotes(joined) = QuotesBefore(joined, i + 1)
  BY QuotesOfAll
<1>3. QuotesBefore(joined, i + 1) =
         QuotesBefore(joined, i) + (IF joined[i] = "'" THEN 1 ELSE 0)
      /\ QuotesBefore(joined, i) \in Nat
  BY <1>1, QuotesStep
<1>4. joined[i] # "'"
  BY SignsDiffer
<1> QED
  BY <1>2, <1>3, <1>4

\* One record of the awk program keeps Folded (run.sh:361-391).
LEMMA AwkStep ==
    ASSUME NEW B, Splice \in B, Semicolon \in B,
           NEW awk \in AwkStates(B), NEW n \in Nat, Folded(awk, n),
           NEW line \in Seq(B), EndsAtSemicolon(line)
    PROVE  Folded(AwkLine(awk, line, TRUE), n + Quotes(line))
<1> DEFINE inside == (Quotes(line) % 2 = 0) = awk.inStr
           joined == FoldedText(awk, line)
           q == Quotes(line)
<1>1. q \in Nat
  BY QuotesOfAll
<1>2. /\ joined \in Seq(B) /\ HeldBefore(joined)
      /\ Quotes(joined) % 2 = (n + q) % 2
  BY FoldedTextIs
<1>3. awk.inStr <=> n % 2 = 1
  BY DEF Folded
<1>4. n % 2 \in {0, 1} /\ q % 2 \in {0, 1}
  BY <1>1, ParityOf
<1>5. inside <=> (n + q) % 2 = 1
  <2>1. CASE awk.inStr
    <3>1. n % 2 = 1 /\ inside = (q % 2 = 0)
      BY <1>3, <2>1
    <3>2. (q % 2 = 0) <=> (n + q) % 2 = 1
      BY <1>1, <1>4, <3>1
    <3> QED
      BY <3>1, <3>2
  <2>2. CASE ~awk.inStr
    <3>1. n % 2 = 0 /\ (inside <=> ~(q % 2 = 0))
      <4>1. awk.inStr \in BOOLEAN
        BY DEF AwkStates
      <4> QED
        BY <1>3, <1>4, <2>2, <4>1
    <3>2. ~(q % 2 = 0) <=> (n + q) % 2 = 1
      BY <1>1, <1>4, <3>1
    <3> QED
      BY <3>1, <3>2
  <2> QED
    BY <2>1, <2>2
<1>6. (n + q) % 2 \in {0, 1} /\ n + q \in Nat
  BY <1>1, ParityOf
<1>7. awk.out \in Seq(Seq(B)) /\ \A i \in DOMAIN awk.out : Whole(awk.out[i])
  BY DEF AwkStates, Folded
<1>8. inside \in BOOLEAN
  OBVIOUS
<1>9. AwkLine(awk, line, TRUE) =
         IF ~awk.inStr /\ IsBlank(line) THEN awk
         ELSE [inStr |-> inside,
               buf |-> IF inside THEN joined ELSE << >>,
               out |-> IF inside THEN awk.out
                       ELSE Append(awk.out, Terminated(joined))]
  BY AwkLineIs
<1>10. CASE ~awk.inStr /\ IsBlank(line)
  <2>1. \A i \in DOMAIN line : line[i] # "'"
    BY <1>10, SignsDiffer DEF IsBlank
  <2>2. q = 0
    BY <2>1, NoQuotes
  <2>3. n + q = n
    BY <2>2
  <2>4. AwkLine(awk, line, TRUE) = awk
    BY <1>9, <1>10
  <2> QED
    BY <2>3, <2>4
<1> HIDE DEF joined, q, inside
<1>11. CASE ~(~awk.inStr /\ IsBlank(line)) /\ inside
  <2> DEFINE new == [inStr |-> inside, buf |-> joined, out |-> awk.out]
  <2>1. AwkLine(awk, line, TRUE) = new
    BY <1>9, <1>11
  <2>2. Quotes(joined) % 2 = 1 /\ (n + q) % 2 = 1
    BY <1>2, <1>5, <1>11
  <2>3. Held(joined)
    BY <1>2, <2>2, OpenTextIsHeld
  <2>4. Folded(new, n + q)
    BY <1>7, <1>8, <1>11, <2>2, <2>3 DEF Folded
  <2> QED
    BY <2>1, <2>4 DEF q
<1>12. CASE ~(~awk.inStr /\ IsBlank(line)) /\ ~inside
  <2> DEFINE done == Terminated(joined)
             out == Append(awk.out, done)
             none == << >>
             new == [inStr |-> inside, buf |-> none, out |-> out]
  <2>1. AwkLine(awk, line, TRUE) = new
    BY <1>9, <1>12
  <2>2. Quotes(joined) % 2 = 0 /\ (n + q) % 2 = 0
    BY <1>2, <1>5, <1>6, <1>12
  <2>3. done \in Seq(B) /\ Whole(done)
    BY <1>2, <2>2, TerminatedIsWhole
  <2> HIDE DEF done
  <2>4. ASSUME NEW i \in DOMAIN out PROVE Whole(out[i])
    <3>1. DOMAIN out = 1 .. Len(awk.out) + 1 /\ DOMAIN awk.out = 1 .. Len(awk.out)
          /\ Len(awk.out) \in Nat /\ out[Len(awk.out) + 1] = done
          /\ \A k \in 1 .. Len(awk.out) : out[k] = awk.out[k]
      BY <1>7, <2>3
    <3> QED
      BY <1>7, <2>3, <2>4, <3>1
  <2>5. Quotes(none) = 0 /\ Held(none)
    BY NothingHeld
  <2> HIDE DEF out, none
  <2>6. new.inStr = inside /\ new.buf = none /\ new.out = out
    OBVIOUS
  <2> HIDE DEF new
  <2>7. Folded(new, n + q)
    <3>1. 0 % 2 = 0
      OBVIOUS
    <3>2. new.buf = << >>
      BY <2>6 DEF none
    <3> QED
      BY <1>12, <2>2, <2>4, <2>5, <2>6, <3>1, <3>2 DEF Folded
  <2> QED
    BY <2>1, <2>7 DEF q
<1> QED
  BY <1>10, <1>11, <1>12

LEMMA AwkLineTyped ==
    ASSUME NEW B, Splice \in B, Semicolon \in B,
           NEW awk \in AwkStates(B), NEW line \in Seq(B)
    PROVE  AwkLine(awk, line, TRUE) \in AwkStates(B)
<1> DEFINE inside == (Quotes(line) % 2 = 0) = awk.inStr
           joined == FoldedText(awk, line)
<1>1. awk.buf \in Seq(B) /\ awk.out \in Seq(Seq(B))
  BY DEF AwkStates
<1>2. joined \in Seq(B)
  <2> DEFINE u == awk.buf
             mid == <<Splice>>
  <2>1. u \in Seq(B) /\ mid \in Seq(B)
    BY <1>1
  <2> HIDE DEF u, mid
  <2>2. u \o mid \in Seq(B)
    BY <2>1
  <2>3. (u \o mid) \o line \in Seq(B)
    BY <2>2
  <2>4. joined = IF awk.inStr THEN (u \o mid) \o line ELSE line
    BY Zenon DEF FoldedText, u, mid
  <2> QED
    BY <2>3, <2>4
<1>3. inside \in BOOLEAN
  OBVIOUS
<1>4. AwkLine(awk, line, TRUE) =
         IF ~awk.inStr /\ IsBlank(line) THEN awk
         ELSE [inStr |-> inside,
               buf |-> IF inside THEN joined ELSE << >>,
               out |-> IF inside THEN awk.out
                       ELSE Append(awk.out, Terminated(joined))]
  BY AwkLineIs
<1> HIDE DEF joined, inside
<1>5. Terminated(joined) \in Seq(B)
  <2>1. Append(joined, Semicolon) \in Seq(B)
    BY <1>2
  <2> QED
    BY <1>2, <2>1, IsTerminatedIs
<1> DEFINE buf == IF inside THEN joined ELSE << >>
           out == IF inside THEN awk.out ELSE Append(awk.out, Terminated(joined))
           new == [inStr |-> inside, buf |-> buf, out |-> out]
<1>6. buf \in Seq(B)
  BY <1>2
<1>7. out \in Seq(Seq(B))
  BY <1>1, <1>5
<1>8. AwkLine(awk, line, TRUE) = IF ~awk.inStr /\ IsBlank(line) THEN awk ELSE new
  BY <1>4
<1> HIDE DEF buf, out
<1>9. new \in AwkStates(B)
  BY <1>3, <1>6, <1>7 DEF AwkStates
<1> QED
  BY <1>8, <1>9

\* The equation that the local function of Rewrite is chosen to solve.
AwkEquation(g, lines, fold) ==
    g = [n \in 0 .. Len(lines) |->
            IF n = 0 THEN [inStr |-> FALSE, buf |-> << >>, out |-> << >>]
            ELSE AwkLine(g[n - 1], lines[n], fold)]

\* awk after the last line.
AwkEnd(lines, fold) == (CHOOSE g : AwkEquation(g, lines, fold))[Len(lines)]

LEMMA RewriteIs ==
    ASSUME NEW t
    PROVE  LET end == AwkEnd(SedLines(t), TRUE)
           IN  Rewrite(t, TRUE) = IF end.buf = << >> THEN end.out
                                  ELSE Append(end.out, Terminated(end.buf))
BY Zenon DEF Rewrite, AwkEnd, AwkEquation

\* All records, one after the other.
LEMMA AwkRun ==
    ASSUME NEW B, Splice \in B, Semicolon \in B, NEW lines, NEW total,
           Sedded(lines, total, B)
    PROVE  AwkEnd(lines, TRUE) \in AwkStates(B) /\ Folded(AwkEnd(lines, TRUE), total)
<1> DEFINE none == << >>
           start == [inStr |-> FALSE, buf |-> none, out |-> none]
           T == AwkStates(B)
           step == [k \in 1 .. Len(lines) |->
                       [x \in T |-> AwkLine(x, lines[k], TRUE)]]
<1>1. PICK n \in Nat : Len(lines) = n /\ DOMAIN lines = 1 .. n
  <2> DEFINE C == Seq(B)
  <2>1. lines \in Seq(C)
    BY DEF Sedded
  <2> HIDE DEF C
  <2> QED
    BY <2>1
<1>2. \A k \in 1 .. n : lines[k] \in Seq(B) /\ EndsAtSemicolon(lines[k])
  <2> DEFINE C == Seq(B)
  <2>1. lines \in Seq(C) /\ \A k \in DOMAIN lines : EndsAtSemicolon(lines[k])
    BY DEF Sedded
  <2> HIDE DEF C
  <2>2. \A k \in 1 .. n : lines[k] \in C
    BY <1>1, <2>1
  <2> QED
    BY <1>1, <2>1, <2>2 DEF C
<1>3. PICK q : QuoteSums(q, lines) /\ q[n] = total
  BY <1>1 DEF Sedded, QuotesAre
<1>4. /\ q \in [0 .. n -> Nat] /\ q[0] = 0
      /\ \A k \in 1 .. n : q[k] = q[k - 1] + Quotes(lines[k])
  BY <1>1, <1>3 DEF QuoteSums
<1>5. start \in T
  BY DEF AwkStates
<1>6. Folded(start, 0)
  <2>1. Quotes(none) = 0 /\ Held(none)
    BY NothingHeld
  <2>2. DOMAIN none = {}
    OBVIOUS
  <2>3. 0 % 2 = 0 /\ start.inStr = FALSE /\ start.buf = << >>
        /\ start.buf = none /\ start.out = none
    OBVIOUS
  <2> HIDE DEF start, none
  <2> QED
    BY <2>1, <2>2, <2>3 DEF Folded
<1>7. Steps(step, 1 .. n, T)
  <2>1. \A k \in 1 .. n : \A x \in T : AwkLine(x, lines[k], TRUE) \in T
    BY <1>2, AwkLineTyped
  <2> HIDE DEF T
  <2> QED
    BY <1>1, <2>1 DEF Steps
<1>8. \A k \in 1 .. n : \A x \in T : step[k][x] = AwkLine(x, lines[k], TRUE)
  BY <1>1
<1> HIDE DEF start, T, step
<1>9. PICK run : /\ run \in [0 .. n -> T] /\ run[0] = start
                 /\ \A k \in 1 .. n : run[k] = step[k][run[k - 1]]
  <2>1. PICK run : Runs(run, n, T, start, step)
    BY <1>5, <1>7, RunExists
  <2> QED
    BY <2>1 DEF Runs
<1>10. \A k \in 1 .. n : run[k] = AwkLine(run[k - 1], lines[k], TRUE)
  <2>1. \A k \in 1 .. n : k - 1 \in 0 .. n
    OBVIOUS
  <2> QED
    BY <1>8, <1>9, <2>1
<1> DEFINE g == CHOOSE h : AwkEquation(h, lines, TRUE)
<1>11. AwkEquation(run, lines, TRUE)
  <2>1. ASSUME NEW k \in 0 .. n
        PROVE  run[k] = IF k = 0 THEN start
                        ELSE AwkLine(run[k - 1], lines[k], TRUE)
    <3>1. k # 0 => k \in 1 .. n
      OBVIOUS
    <3> QED
      BY <1>9, <1>10, <3>1
  <2>2. run = [k \in 0 .. n |-> run[k]]
    BY <1>9
  <2>3. run = [k \in 0 .. n |->
                  IF k = 0 THEN start ELSE AwkLine(run[k - 1], lines[k], TRUE)]
    BY <2>1, <2>2
  <2> QED
    BY <1>1, <2>3, Zenon DEF AwkEquation, start, none
<1>12. \A k \in 0 .. n :
          g[k] = IF k = 0 THEN start ELSE AwkLine(g[k - 1], lines[k], TRUE)
  <2>1. AwkEquation(g, lines, TRUE)
    BY <1>11
  <2> HIDE DEF g
  <2> QED
    BY <1>1, <2>1, Zenon DEF AwkEquation, start, none
<1> HIDE DEF g
<1> DEFINE Good == {k \in 0 .. n : g[k] \in T /\ Folded(g[k], q[k])}
<1>13. 0 \in Good
  <2>1. 0 \in 0 .. n
    OBVIOUS
  <2> QED
    BY <1>4, <1>5, <1>6, <1>12, <2>1
<1>14. ASSUME NEW k \in 1 .. n, k - 1 \in Good PROVE k \in Good
  <2>1. k \in 0 .. n /\ k # 0 /\ k - 1 \in 0 .. n
    OBVIOUS
  <2>2. /\ g[k - 1] \in T /\ Folded(g[k - 1], q[k - 1]) /\ q[k - 1] \in Nat
        /\ lines[k] \in Seq(B) /\ EndsAtSemicolon(lines[k])
    BY <1>2, <1>4, <1>14, <2>1
  <2>3. g[k] = AwkLine(g[k - 1], lines[k], TRUE)
    BY <1>12, <2>1
  <2> DEFINE awk == g[k - 1]
             line == lines[k]
             p == q[k - 1]
  <2>4. awk \in AwkStates(B) /\ Folded(awk, p) /\ p \in Nat
        /\ line \in Seq(B) /\ EndsAtSemicolon(line)
    BY <2>2 DEF T
  <2> HIDE DEF awk, line, p
  <2>5. /\ AwkLine(awk, line, TRUE) \in AwkStates(B)
        /\ Folded(AwkLine(awk, line, TRUE), p + Quotes(line))
    BY <2>4, AwkStep, AwkLineTyped
  <2> QED
    BY <1>4, <2>1, <2>3, <2>5 DEF awk, line, p, T
<1> HIDE DEF Good
<1>15. \A k \in 0 .. n : k \in Good
  BY <1>13, <1>14, Upto
<1>16. g[n] \in T /\ Folded(g[n], total)
  <2>1. n \in 0 .. n
    OBVIOUS
  <2> QED
    BY <1>3, <1>15, <2>1 DEF Good
<1>17. AwkEnd(lines, TRUE) = g[n]
  BY <1>1 DEF AwkEnd, g
<1> QED
  BY <1>16, <1>17 DEF T

\* Every line that ducklink reads is whole when every literal of the script is
\* closed (run.sh:354-398).
LEMMA RewriteIsWhole ==
    ASSUME NEW A, NEW t \in Seq(A), Quotes(t) % 2 = 0
    PROVE  /\ Rewrite(t, TRUE) \in Seq(Seq(A \cup {Splice, Semicolon}))
           /\ \A i \in DOMAIN Rewrite(t, TRUE) : Whole(Rewrite(t, TRUE)[i])
<1> DEFINE B == A \cup {Splice, Semicolon}
           lines == SedLines(t)
           end == AwkEnd(lines, TRUE)
<1>1. t \in Seq(B) /\ Splice \in B /\ Semicolon \in B
  OBVIOUS
<1> HIDE DEF B
<1>2. Sedded(lines, Quotes(t), B)
  BY <1>1, SedLinesAre
<1> HIDE DEF lines
<1>3. end \in AwkStates(B) /\ Folded(end, Quotes(t))
  BY <1>1, <1>2, AwkRun
<1>4. end.buf = << >>
  <2>1. ~(Quotes(t) % 2 = 1)
    OBVIOUS
  <2>2. (end.inStr <=> Quotes(t) % 2 = 1) /\ (~end.inStr => end.buf = << >>)
    BY <1>3 DEF Folded
  <2> HIDE DEF end
  <2> QED
    BY <2>1, <2>2
<1>5. end.out \in Seq(Seq(B)) /\ \A i \in DOMAIN end.out : Whole(end.out[i])
  BY <1>3 DEF AwkStates, Folded
<1>6. Rewrite(t, TRUE) = end.out
  <2>1. Rewrite(t, TRUE) = IF end.buf = << >> THEN end.out
                           ELSE Append(end.out, Terminated(end.buf))
    BY RewriteIs, Zenon DEF lines
  <2> QED
    BY <1>4, <2>1
<1> QED
  BY <1>5, <1>6 DEF B

-----------------------------------------------------------------------------
(* A line that can be executed holds one statement.                        *)

\* StatementsRead, taken apart.
ValueOf(t) == [i \in DOMAIN t |-> IF t[i] = Splice THEN "LF" ELSE t[i]]

CutsOf(value) ==
    {i \in DOMAIN value : value[i] = Semicolon /\ ~Inside(value, i)}

OwnOf(value, cuts, end) ==
    {i \in {x \in DOMAIN value \ cuts :
               value[x] # Space /\ (value[x] = "LF" => Inside(value, x))} :
        i < end /\ \A c \in cuts : c < end => c < i}

TextOf(value, cuts, end) ==
    IF OwnOf(value, cuts, end) = {} THEN << >>
    ELSE SubSeq(value, Min(OwnOf(value, cuts, end)),
                       Max(OwnOf(value, cuts, end)))

LEMMA StatementsReadIs ==
    ASSUME NEW t
    PROVE  LET value == ValueOf(t)
               cuts == CutsOf(value)
               order == InOrder(cuts \cup {Len(value) + 1})
               texts == [n \in DOMAIN order |-> TextOf(value, cuts, order[n])]
           IN  StatementsRead(t) =
                  Selected(texts, {n \in DOMAIN texts : texts[n] # << >>})
BY Zenon DEF StatementsRead, ValueOf, CutsOf, TextOf, OwnOf, Semicolon

LEMMA AtMostOne ==
    ASSUME NEW S, \A x, y \in S : x = y
    PROVE  IsFiniteSet(S) /\ Cardinality(S) \in {0, 1}
<1>1. CASE S = {}
  BY <1>1, FS_EmptySet
<1>2. CASE S # {}
  <2>1. PICK x \in S : TRUE
    BY <1>2
  <2>2. S = {x}
    BY <2>1
  <2> QED
    BY <2>2, FS_Singleton
<1> QED
  BY <1>1, <1>2

LEMMA LenOfSelected ==
    ASSUME NEW n \in Nat, NEW keep \in SUBSET (1 .. n), NEW s
    PROVE  Len(Selected(s, keep)) = Cardinality(keep)
<1> DEFINE m == Cardinality(keep)
           r == Selected(s, keep)
<1>1. PICK p : Selects(p, s, keep)
  BY SelectedInOrder
<1>2. r = [k \in 1 .. m |-> s[p[k]]]
  BY <1>1 DEF Selects
<1>3. m \in Nat
  <2>1. IsFiniteSet(1 .. n)
    BY FS_Interval
  <2> QED
    BY <2>1, FS_Subset, FS_CardinalityType
<1> DEFINE T == {s[p[k]] : k \in 1 .. m}
<1> HIDE DEF m, r
<1>4. \A k \in 1 .. m : s[p[k]] \in T
  OBVIOUS
<1> HIDE DEF T
<1>5. r \in [1 .. m -> T]
  BY <1>2, <1>4
<1>6. r \in Seq(T) /\ DOMAIN r = 1 .. m
  BY <1>3, <1>5
<1>7. Len(r) = m
  BY <1>3, <1>6
<1> QED
  BY <1>7 DEF m, r

LEMMA LineBreakDiffers == "LF" # Semicolon /\ "LF" # "'"
BY Zenon DEF Semicolon

\* A whole line has no statement behind its semicolon.
LEMMA OneStatementRead ==
    ASSUME NEW A, NEW line \in Seq(A), Whole(line)
    PROVE  Len(StatementsRead(line)) <= 1
<1> DEFINE value == ValueOf(line)
           cuts == CutsOf(value)
           order == InOrder(cuts \cup {Len(value) + 1})
           texts == [k \in DOMAIN order |-> TextOf(value, cuts, order[k])]
           read == {k \in DOMAIN texts : texts[k] # << >>}
           B == A \cup {"LF"}
<1>1. PICK n \in Nat : Len(line) = n /\ DOMAIN line = 1 .. n
  OBVIOUS
<1>2. /\ value \in Seq(B) /\ Len(value) = n /\ DOMAIN value = 1 .. n
      /\ \A i \in 1 .. n : value[i] = IF line[i] = Splice THEN "LF" ELSE line[i]
  <2>1. value = [i \in 1 .. n |-> IF line[i] = Splice THEN "LF" ELSE line[i]]
    BY <1>1 DEF ValueOf
  <2>2. \A i \in 1 .. n :
           (IF line[i] = Splice THEN "LF" ELSE line[i]) \in B
    BY <1>1
  <2> HIDE DEF value, B
  <2>3. value \in [1 .. n -> B]
    BY <2>1, <2>2
  <2> QED
    BY <2>1, <2>3
<1>3. StatementsRead(line) = Selected(texts, read)
  BY StatementsReadIs, Zenon
<1> HIDE DEF value, B
<1>4. ASSUME NEW i \in 1 .. n + 1
      PROVE  QuotesBefore(value, i) = QuotesBefore(line, i)
  <2>1. \A k \in 1 .. i - 1 : value[k] = "'" <=> line[k] = "'"
    BY <1>2, SignsDiffer, LineBreakDiffers
  <2>2. {k \in 1 .. (i - 1) : value[k] = "'"} = {k \in 1 .. (i - 1) : line[k] = "'"}
    BY <2>1
  <2> QED
    BY <2>2 DEF QuotesBefore
<1>5. ASSUME NEW i \in cuts PROVE i = n /\ i \in 1 .. n
  <2>1. i \in 1 .. n /\ value[i] = Semicolon /\ ~Inside(value, i)
    BY <1>2 DEF CutsOf
  <2>2. line[i] = Semicolon
    BY <1>2, <2>1, LineBreakDiffers
  <2>3. i \in 1 .. Len(value) + 1 /\ i \in 1 .. n + 1
    BY <1>2, <2>1
  <2>4. ~(QuotesBefore(value, i) % 2 = 1)
    <3>1. Inside(value, i) <=> QuotesBefore(value, i) % 2 = 1
      <4> HIDE DEF cuts
      <4>1. value \in Seq(B) /\ i \in 1 .. Len(value) + 1
        BY <1>2, <2>3
      <4> QED
        BY <4>1, InsideIs
    <3> QED
      BY <2>1, <3>1, Zenon
  <2>5. QuotesBefore(line, i) \in Nat
    <3>1. i \in Nat \ {0}
      BY <1>1, <2>1
    <3> QED
      BY <3>1, QuotesStep
  <2>6. QuotesBefore(line, i) % 2 = 0
    BY <1>4, <2>3, <2>4, <2>5, ParityOf
  <2> QED
    BY <1>1, <2>1, <2>2, <2>6 DEF Whole
<1> HIDE DEF cuts
<1> DEFINE keep == cuts \cup {n + 1}
           m == Cardinality(keep)
<1>6. keep \in SUBSET (1 .. n + 1)
  BY <1>5
<1>7. order = InOrder(keep)
  BY <1>2
<1> HIDE DEF order
<1>8. /\ m \in Nat /\ DOMAIN order = 1 .. m
      /\ \A k \in 1 .. m : order[k] \in keep
      /\ \A k, j \in 1 .. m : k < j <=> order[k] < order[j]
  <2> HIDE DEF keep
  <2> QED
    BY <1>6, <1>7, EndsOf
<1>9. \A i \in keep : i \in cuts \/ i = n + 1
  OBVIOUS
<1> HIDE DEF keep, m
<1>10. DOMAIN texts = 1 .. m /\ read \in SUBSET (1 .. m)
       /\ \A k \in 1 .. m : texts[k] = TextOf(value, cuts, order[k])
  BY <1>8
<1>11. n \in cuts => TextOf(value, cuts, n + 1) = << >>
  <2> SUFFICES ASSUME n \in cuts PROVE OwnOf(value, cuts, n + 1) = {}
    BY DEF TextOf
  <2> SUFFICES ASSUME NEW i \in OwnOf(value, cuts, n + 1) PROVE FALSE
    OBVIOUS
  <2>1. i \in 1 .. n /\ (n < n + 1 => n < i)
    BY <1>2 DEF OwnOf
  <2> QED
    BY <2>1
<1>12. \A k \in read : texts[k] # << >> /\ k \in 1 .. m
  BY <1>10
<1> HIDE DEF texts, read
<1>13. ASSUME NEW k \in read, NEW j \in read PROVE k = j
  <2>1. /\ k \in 1 .. m /\ j \in 1 .. m
        /\ TextOf(value, cuts, order[k]) # << >>
        /\ TextOf(value, cuts, order[j]) # << >>
    BY <1>10, <1>12
  <2>2. order[k] \in keep /\ order[j] \in keep
    BY <1>8, <2>1
  <2>3. order[k] = order[j]
    <3>1. CASE n \in cuts
      <4>1. order[k] # n + 1 /\ order[j] # n + 1
        BY <1>11, <2>1, <3>1
      <4> QED
        BY <1>5, <1>9, <2>2, <4>1
    <3>2. CASE n \notin cuts
      BY <1>5, <1>9, <2>2, <3>2
    <3> QED
      BY <3>1, <3>2
  <2>4. order[k] \in Nat
    <3>1. \A i \in keep : i \in 1 .. n + 1
      BY <1>6
    <3>2. order[k] \in 1 .. n + 1
      BY <2>2, <3>1
    <3> QED
      BY <1>1, <3>2
  <2>5. ~(order[k] < order[j]) /\ ~(order[j] < order[k])
    BY <2>3, <2>4
  <2>6. ~(k < j) /\ ~(j < k)
    BY <1>8, <2>1, <2>5
  <2> QED
    BY <1>8, <2>1, <2>6
<1>14. Cardinality(read) \in {0, 1}
  BY <1>13, AtMostOne
<1>15. Len(Selected(texts, read)) = Cardinality(read)
  BY <1>8, <1>10, LenOfSelected
<1> QED
  BY <1>3, <1>14, <1>15

\* The operator the property is about, for a text of any length.
LEMMA FoldedDispatch ==
    ASSUME NEW A, NEW t \in Seq(A)
    PROVE  OneStatementPerLine(t)
<1> SUFFICES ASSUME Reprinted(t), NEW line \in ToSet(Rewrite(t, TRUE))
             PROVE  /\ Quotes(line) % 2 = 0 /\ IsTerminated(line)
                    /\ Len(StatementsRead(line)) <= 1
  BY Zenon DEF OneStatementPerLine
<1> DEFINE B == Seq(A \cup {Splice, Semicolon})
<1>1. Quotes(t) % 2 = 0
  BY Zenon DEF Reprinted
<1>2. /\ Rewrite(t, TRUE) \in Seq(B)
      /\ \A i \in DOMAIN Rewrite(t, TRUE) : Whole(Rewrite(t, TRUE)[i])
  BY <1>1, RewriteIsWhole
<1>3. PICK i \in DOMAIN Rewrite(t, TRUE) : line = Rewrite(t, TRUE)[i]
  BY Zenon DEF ToSet
<1> DEFINE lines == Rewrite(t, TRUE)
<1> HIDE DEF B, lines
<1>4. line \in B /\ Whole(line)
  <2>1. lines \in Seq(B) /\ i \in DOMAIN lines /\ line = lines[i]
    BY <1>2, <1>3, Zenon DEF lines
  <2>2. line \in B
    BY <2>1
  <2>3. Whole(line)
    BY <1>2, <1>3
  <2> QED
    BY <2>2, <2>3
<1>5. Len(StatementsRead(line)) <= 1
  BY <1>4, OneStatementRead DEF B
<1> QED
  BY <1>4, <1>5 DEF Whole

\* The scripts that MCTexts grows are texts.
ScriptTyped == kind = "smoke" => text \in Seq(MCScriptChars)

LEMMA GrownScript == TextSpec => []ScriptTyped
<1>1. TextInit => ScriptTyped
  <2>1. << >> \in Seq(MCScriptChars)
    OBVIOUS
  <2> QED
    BY <2>1, Zenon DEF TextInit, ScriptTyped
<1>2. ScriptTyped /\ [TextNext]_textVars => ScriptTyped'
  <2> SUFFICES ASSUME ScriptTyped, [TextNext]_textVars, kind' = "smoke"
               PROVE  text' \in Seq(MCScriptChars)
    BY Zenon DEF ScriptTyped
  <2>1. CASE UNCHANGED textVars
    BY <2>1 DEF ScriptTyped, textVars
  <2>2. CASE TextNext
    <3>1. GrowSmoke
      BY <2>2 DEF TextNext, GrowRegress, GrowList, GrowRow, GrowOut, GrowSmoke,
                  Grow
    <3>2. PICK c \in MCScriptChars : text' = text \o <<c>>
      BY <3>1 DEF GrowSmoke, Grow
    <3>3. text \in Seq(MCScriptChars)
      BY <3>1 DEF GrowSmoke, Grow, ScriptTyped
    <3> QED
      BY <3>2, <3>3
  <2> QED
    BY <2>1, <2>2
<1> QED
  BY <1>1, <1>2, PTL DEF TextSpec

\* Every line that ducklink is given holds one whole statement, however long
\* the script, its lines and its literals are (run.sh:327-398).
THEOREM FoldedLinesAreStatements ==
    /\ \A A : \A t \in Seq(A) : OneStatementPerLine(t)
    /\ TextSpec => []FoldedLinesDispatch
<1>1. \A A : \A t \in Seq(A) : OneStatementPerLine(t)
  BY FoldedDispatch
<1>2. ScriptTyped => FoldedLinesDispatch
  BY <1>1, Zenon DEF ScriptTyped, FoldedLinesDispatch
<1>3. TextSpec => []FoldedLinesDispatch
  BY <1>2, GrownScript, PTL
<1> QED
  BY <1>1, <1>3

-----------------------------------------------------------------------------
(* Calls and columns of a list that stands in another one.                 *)

\* The words that end the columns.
ColumnStops == Stops \cup {"ORDER BY"}

\* What calls and columns are found by, commas apart.
Marks == OfInterest \cup ColumnStops \cup {"(", ")"}

\* e says where the n tokens of r stand among the m of s.  No mark stands in
\* between, and nothing behind a name.
Embeds(e, r, n, s, m) ==
    /\ e \in [1 .. n -> 1 .. m]
    /\ \A i, j \in 1 .. n : i < j => e[i] < e[j]
    /\ \A i \in 1 .. n : s[e[i]] = r[i] /\ (e[i] \in Bare(s) <=> i \in Bare(r))
    /\ \A y \in Bare(s) : s[y] \in Marks => \E i \in 1 .. n : y = e[i]
    /\ \A i \in 1 .. n : r[i] \in OfInterest =>
          IF i < n THEN e[i + 1] = e[i] + 1 ELSE e[i] = m

Lengths(r, n, s, m) ==
    /\ n \in Nat /\ DOMAIN r = 1 .. n
    /\ m \in Nat /\ DOMAIN s = 1 .. m

LEMMA EmbedsOnce ==
    ASSUME NEW r, NEW n, NEW s, NEW m, NEW e, Lengths(r, n, s, m),
           Embeds(e, r, n, s, m), NEW i \in 1 .. n, NEW j \in 1 .. n
    PROVE  /\ e[i] = e[j] <=> i = j
           /\ e[i] < e[j] <=> i < j
           /\ e[i] <= e[j] <=> i <= j
<1>1. n \in Nat /\ m \in Nat
  BY DEF Lengths
<1>2. e[i] \in Nat /\ e[j] \in Nat /\ i \in Nat /\ j \in Nat
  BY <1>1 DEF Embeds
<1>3. (i < j => e[i] < e[j]) /\ (j < i => e[j] < e[i])
  BY DEF Embeds
<1> QED
  BY <1>2, <1>3

\* Where e puts the positions in S.
Image(e, S) == {e[i] : i \in S}

LEMMA SameSize ==
    ASSUME NEW S, IsFiniteSet(S), NEW e, \A x, y \in S : e[x] = e[y] => x = y
    PROVE  IsFiniteSet(Image(e, S)) /\ Cardinality(Image(e, S)) = Cardinality(S)
<1> DEFINE T == Image(e, S)
           f == [x \in S |-> e[x]]
<1>1. \A x \in S : e[x] \in T
  BY DEF Image
<1>2. \A y \in T : \E x \in S : e[x] = y
  BY DEF Image
<1> HIDE DEF T
<1>3. f \in [S -> T]
  BY <1>1
<1>4. f \in Injection(S, T)
  BY <1>3 DEF Injection, IsInjective
<1>5. f \in Surjection(S, T)
  BY <1>2, <1>3 DEF Surjection
<1>6. ExistsBijection(S, T)
  BY <1>4, <1>5 DEF ExistsBijection, Bijection
<1> QED
  BY <1>6, FS_Bijection DEF T

LEMMA SizeOfImage ==
    ASSUME NEW r, NEW n, NEW s, NEW m, NEW e, Lengths(r, n, s, m),
           Embeds(e, r, n, s, m), NEW S \in SUBSET (1 .. n)
    PROVE  /\ IsFiniteSet(S) /\ IsFiniteSet(Image(e, S))
           /\ Cardinality(Image(e, S)) = Cardinality(S)
           /\ Image(e, S) \in SUBSET (1 .. m)
<1>1. IsFiniteSet(S)
  <2>1. n \in Nat
    BY DEF Lengths
  <2>2. IsFiniteSet(1 .. n)
    BY <2>1, FS_Interval
  <2> QED
    BY <2>2, FS_Subset
<1>2. \A x, y \in S : e[x] = e[y] => x = y
  BY EmbedsOnce
<1>3. Image(e, S) \in SUBSET (1 .. m)
  BY DEF Image, Embeds
<1> QED
  BY <1>1, <1>2, <1>3, SameSize

\* How many brackets of a kind stand before i.
Brackets(s, i, bracket) == {k \in Bare(s) : k < i /\ s[k] = bracket}

LEMMA OutermostIs ==
    ASSUME NEW s, NEW i
    PROVE  Outermost(s, i) <=> Cardinality(Brackets(s, i, "(")) =
                               Cardinality(Brackets(s, i, ")"))
BY Zenon DEF Outermost, Brackets

LEMMA OutermostEmbedded ==
    ASSUME NEW r, NEW n, NEW s, NEW m, NEW e, Lengths(r, n, s, m),
           Embeds(e, r, n, s, m), NEW i \in 1 .. n
    PROVE  Outermost(s, e[i]) <=> Outermost(r, i)
<1>1. ASSUME NEW b \in {"(", ")"}
      PROVE  Cardinality(Brackets(s, e[i], b)) = Cardinality(Brackets(r, i, b))
  <2> DEFINE S == Brackets(r, i, b)
             T == Brackets(s, e[i], b)
  <2>1. b \in Marks
    BY DEF Marks
  <2>2. S \in SUBSET (1 .. n)
    BY DEF Brackets, Bare, Lengths
  <2>3. \A k \in 1 .. n : k \in S <=> e[k] \in T
    <3> SUFFICES ASSUME NEW k \in 1 .. n PROVE k \in S <=> e[k] \in T
      OBVIOUS
    <3>1. s[e[k]] = r[k] /\ (e[k] \in Bare(s) <=> k \in Bare(r))
      BY DEF Embeds
    <3>2. e[k] < e[i] <=> k < i
      BY EmbedsOnce
    <3> QED
      BY <3>1, <3>2 DEF Brackets
  <2>4. \A y \in T : \E k \in 1 .. n : y = e[k]
    BY <2>1 DEF Brackets, Embeds
  <2> HIDE DEF S, T
  <2>5. T = Image(e, S)
    BY <2>2, <2>3, <2>4 DEF Image
  <2>6. Cardinality(Image(e, S)) = Cardinality(S)
    BY <2>2, SizeOfImage
  <2> QED
    BY <2>5, <2>6 DEF S, T
<1>2. /\ Cardinality(Brackets(s, e[i], "(")) = Cardinality(Brackets(r, i, "("))
      /\ Cardinality(Brackets(s, e[i], ")")) = Cardinality(Brackets(r, i, ")"))
  BY <1>1
<1> QED
  BY <1>2, OutermostIs

\* No word in words stands outside all brackets before i.
Running(s, i, words) ==
    \A k \in Bare(s) : k < i /\ s[k] \in words => ~Outermost(s, k)

LEMMA RunningEmbedded ==
    ASSUME NEW r, NEW n, NEW s, NEW m, NEW e, Lengths(r, n, s, m),
           Embeds(e, r, n, s, m), NEW i \in 1 .. n, NEW words \in SUBSET Marks
    PROVE  Running(s, e[i], words) <=> Running(r, i, words)
<1>1. \A k \in 1 .. n : s[e[k]] = r[k] /\ (e[k] \in Bare(s) <=> k \in Bare(r))
  BY DEF Embeds
<1>2. \A k \in 1 .. n : e[k] < e[i] <=> k < i
  BY EmbedsOnce
<1>3. \A k \in 1 .. n : Outermost(s, e[k]) <=> Outermost(r, k)
  BY OutermostEmbedded
<1>4. \A y \in Bare(s) : s[y] \in words => \E k \in 1 .. n : y = e[k]
  BY DEF Embeds
<1>5. \A k \in Bare(r) : k \in 1 .. n
  BY DEF Bare, Lengths
<1>6. ASSUME Running(r, i, words) PROVE Running(s, e[i], words)
  <2> SUFFICES ASSUME NEW y \in Bare(s), y < e[i], s[y] \in words
               PROVE  ~Outermost(s, y)
    BY DEF Running
  <2>1. PICK k \in 1 .. n : y = e[k]
    BY <1>4
  <2>2. k \in Bare(r) /\ k < i /\ r[k] \in words
    BY <1>1, <1>2, <2>1
  <2> QED
    BY <1>3, <1>6, <2>1, <2>2 DEF Running
<1>7. ASSUME Running(s, e[i], words) PROVE Running(r, i, words)
  <2> SUFFICES ASSUME NEW k \in Bare(r), k < i, r[k] \in words
               PROVE  ~Outermost(r, k)
    BY DEF Running
  <2>1. k \in 1 .. n
    BY <1>5
  <2>2. e[k] \in Bare(s) /\ e[k] < e[i] /\ s[e[k]] \in words
    BY <1>1, <1>2, <2>1
  <2> QED
    BY <1>3, <1>7, <2>1, <2>2 DEF Running
<1> QED
  BY <1>6, <1>7

\* Where the calls of extract_top_calls stand.
Calls(s) ==
    {i \in Bare(s) :
        /\ s[i] \in OfInterest
        /\ i + 1 \in Bare(s) /\ s[i + 1] = "("
        /\ Outermost(s, i)
        /\ Running(s, i, Stops)}

LEMMA FunctionsAre ==
    ASSUME NEW s
    PROVE  Functions(s) = Selected(s, Calls(s))
<1>1. TopCalls(s) = InOrder(Calls(s))
  BY Zenon DEF TopCalls, Calls, Running
<1> QED
  BY <1>1, Zenon DEF Functions, Selected

\* The calls of s are those of r.
LEMMA CallsEmbedded ==
    ASSUME NEW r, NEW n, NEW s, NEW m, NEW e, Lengths(r, n, s, m),
           Embeds(e, r, n, s, m)
    PROVE  Calls(s) = Image(e, Calls(r)) /\ Calls(r) \in SUBSET (1 .. n)
<1>1. OfInterest \in SUBSET Marks /\ Stops \in SUBSET Marks
  BY DEF Marks, ColumnStops
<1>2. Bare(r) \in SUBSET (1 .. n) /\ Bare(s) \in SUBSET (1 .. m)
  BY DEF Bare, Lengths
<1>3. n \in Nat /\ m \in Nat /\ e \in [1 .. n -> 1 .. m]
  BY DEF Lengths, Embeds
<1>4. ASSUME NEW i \in 1 .. n PROVE e[i] \in Calls(s) <=> i \in Calls(r)
  <2>1. s[e[i]] = r[i] /\ (e[i] \in Bare(s) <=> i \in Bare(r))
    BY DEF Embeds
  <2>2. Outermost(s, e[i]) <=> Outermost(r, i)
    BY OutermostEmbedded
  <2>3. Running(s, e[i], Stops) <=> Running(r, i, Stops)
    BY <1>1, RunningEmbedded
  <2>4. ASSUME r[i] \in OfInterest
        PROVE  e[i] + 1 \in Bare(s) /\ s[e[i] + 1] = "(" <=>
                  i + 1 \in Bare(r) /\ r[i + 1] = "("
    <3>1. CASE i < n
      <4> DEFINE k == i + 1
      <4>1. k \in 1 .. n /\ e[k] = e[i] + 1
        BY <1>3, <2>4, <3>1 DEF Embeds
      <4> HIDE DEF k
      <4>2. s[e[k]] = r[k] /\ (e[k] \in Bare(s) <=> k \in Bare(r))
        BY <4>1 DEF Embeds
      <4>3. e[k] \in Bare(s) /\ s[e[k]] = "(" <=> k \in Bare(r) /\ r[k] = "("
        BY <4>2
      <4> QED
        BY <4>1, <4>3 DEF k
    <3>2. CASE ~(i < n)
      <4>1. e[i] = m
        BY <2>4, <3>2 DEF Embeds
      <4>2. i + 1 \notin 1 .. n /\ e[i] + 1 \notin 1 .. m
        BY <1>3, <3>2, <4>1
      <4> QED
        BY <1>2, <4>2
    <3> QED
      BY <3>1, <3>2
  <2> QED
    BY <2>1, <2>2, <2>3, <2>4 DEF Calls
<1>5. \A y \in Calls(s) : \E i \in 1 .. n : y = e[i]
  BY <1>1 DEF Calls, Embeds
<1>6. Calls(r) \in SUBSET (1 .. n)
  BY <1>2 DEF Calls
<1> QED
  BY <1>4, <1>5, <1>6 DEF Image

\* What is embedded comes in the same order.
LEMMA SelectedEmbedded ==
    ASSUME NEW r, NEW n, NEW s, NEW m, NEW e, Lengths(r, n, s, m),
           Embeds(e, r, n, s, m), NEW S \in SUBSET (1 .. n)
    PROVE  Selected(s, Image(e, S)) = Selected(r, S)
<1> DEFINE T == Image(e, S)
           c == Cardinality(S)
           p == InOrder(S)
           q == InOrder(T)
<1>1. T \in SUBSET (1 .. m) /\ Cardinality(T) = c /\ n \in Nat /\ m \in Nat
  BY SizeOfImage DEF Lengths
<1>2. /\ p \in [1 .. c -> S] /\ \A k \in 1 .. c : Rank(S, p[k]) = k
  BY <1>1, InOrderLists DEF Lists
<1>3. /\ q \in [1 .. c -> T] /\ \A k \in 1 .. c : Rank(T, q[k]) = k
  BY <1>1, InOrderLists DEF Lists
<1>4. Selected(r, S) = [k \in DOMAIN p |-> r[p[k]]]
  BY Zenon DEF Selected
<1>5. Selected(s, T) = [k \in DOMAIN q |-> s[q[k]]]
  BY Zenon DEF Selected
<1>6. \A i \in S : i \in 1 .. n /\ e[i] \in T
  BY DEF Image
<1>7. \A y \in T : y \in Nat /\ \E i \in S : y = e[i]
  BY <1>1 DEF Image
<1>8. \A i \in S : Rank(T, e[i]) = Rank(S, i)
  <2> SUFFICES ASSUME NEW i \in S PROVE Rank(T, e[i]) = Rank(S, i)
    OBVIOUS
  <2> DEFINE low == {j \in S : j <= i}
             high == {y \in T : y <= e[i]}
  <2>1. \A j \in S : e[j] <= e[i] <=> j <= i
    BY <1>6, EmbedsOnce
  <2>2. high = Image(e, low)
    <3> HIDE DEF T
    <3> QED
      BY <1>6, <1>7, <2>1 DEF Image
  <2>3. low \in SUBSET (1 .. n)
    BY <1>6
  <2> HIDE DEF low, high
  <2>4. Cardinality(high) = Cardinality(low)
    BY <2>2, <2>3, SizeOfImage
  <2> QED
    BY <2>4 DEF Rank, low, high
<1> HIDE DEF T, c, p, q
<1>9. \A k \in 1 .. c : q[k] = e[p[k]]
  <2> SUFFICES ASSUME NEW k \in 1 .. c PROVE q[k] = e[p[k]]
    OBVIOUS
  <2> DEFINE x == e[p[k]]
             y == q[k]
  <2>1. x \in T /\ y \in T /\ Rank(T, x) = k /\ Rank(T, y) = k
    BY <1>2, <1>3, <1>6, <1>8
  <2>2. x \in Nat /\ y \in Nat
    BY <1>7, <2>1
  <2> HIDE DEF x, y
  <2>3. Rank(T, x) \in Nat
    <3>1. Cardinality(T) \in Nat /\ Rank(T, x) \in 1 .. Cardinality(T)
      BY <1>1, <2>1, RankOf
    <3> QED
      BY <3>1
  <2>4. ~(x < y) /\ ~(y < x)
    <3>1. x < y => Rank(T, x) < Rank(T, y)
      BY <1>1, <2>1, RankGrows
    <3>2. y < x => Rank(T, y) < Rank(T, x)
      BY <1>1, <2>1, RankGrows
    <3> QED
      BY <2>1, <2>3, <3>1, <3>2
  <2>5. x = y
    BY <2>2, <2>4
  <2> QED
    BY <2>5 DEF x, y
<1>10. \A k \in 1 .. c : s[q[k]] = r[p[k]]
  <2> SUFFICES ASSUME NEW k \in 1 .. c PROVE s[q[k]] = r[p[k]]
    OBVIOUS
  <2>1. p[k] \in 1 .. n
    BY <1>2, <1>6
  <2>2. s[e[p[k]]] = r[p[k]]
    BY <2>1 DEF Embeds
  <2> QED
    BY <1>9, <2>2
<1>11. DOMAIN p = 1 .. c /\ DOMAIN q = 1 .. c
  BY <1>2, <1>3
<1> QED
  BY <1>4, <1>5, <1>10, <1>11 DEF T

LEMMA FunctionsEmbedded ==
    ASSUME NEW r, NEW n, NEW s, NEW m, NEW e, Lengths(r, n, s, m),
           Embeds(e, r, n, s, m)
    PROVE  Functions(s) = Functions(r)
BY CallsEmbedded, SelectedEmbedded, FunctionsAre

\* The commas that separate columns.
Commas(s) ==
    {i \in Bare(s) : s[i] = "," /\ Outermost(s, i) /\ Running(s, i, ColumnStops)}

LEMMA ColumnsAre ==
    ASSUME NEW s
    PROVE  Columns(s) = 1 + Cardinality(Commas(s))
BY Zenon DEF Columns, Commas, Running, ColumnStops

\* Those of r are in s.
LEMMA CommasEmbedded ==
    ASSUME NEW r, NEW n, NEW s, NEW m, NEW e, Lengths(r, n, s, m),
           Embeds(e, r, n, s, m)
    PROVE  /\ Commas(r) \in SUBSET (1 .. n)
           /\ Image(e, Commas(r)) =
                 {y \in Commas(s) : \E i \in 1 .. n : y = e[i]}
<1>1. ColumnStops \in SUBSET Marks
  BY DEF Marks
<1>2. Commas(r) \in SUBSET (1 .. n)
  BY DEF Bare, Lengths, Commas
<1>3. ASSUME NEW i \in 1 .. n PROVE e[i] \in Commas(s) <=> i \in Commas(r)
  <2>1. s[e[i]] = r[i] /\ (e[i] \in Bare(s) <=> i \in Bare(r))
    BY DEF Embeds
  <2>2. Outermost(s, e[i]) <=> Outermost(r, i)
    BY OutermostEmbedded
  <2>3. Running(s, e[i], ColumnStops) <=> Running(r, i, ColumnStops)
    BY <1>1, RunningEmbedded
  <2> QED
    BY <2>1, <2>2, <2>3 DEF Commas
<1> QED
  BY <1>2, <1>3 DEF Image

LEMMA SecondIsNoMark ==
    /\ \A token : Second(token) \notin Marks /\ Second(token) # ","
    /\ "'" \notin OfInterest /\ "wide" \notin OfInterest
BY DEF Second, Cast, Marks, ColumnStops, Stops, OfInterest

LEMMA CommaIsNoMark == "," \notin Marks /\ "," # "'" /\ "'" \notin Marks
BY DEF Marks, ColumnStops, Stops, OfInterest

\* A list stands in the casted one, and in between what was put in.
LEMMA CastEmbeds ==
    ASSUME NEW A, NEW s \in Seq(A), NEW r, r = InjectGeometryCasts(s)
    PROVE  /\ Lengths(s, Len(s), r, Len(r))
           /\ \E f : /\ Embeds(f, s, Len(s), r, Len(r))
                     /\ \A y \in 1 .. Len(r) :
                           \/ \E i \in 1 .. Len(s) : y = f[i]
                           \/ \E j \in Doubled(s) : r[y] = Second(s[j])
<1> DEFINE w == Doubled(s)
           B == A \cup {Cast, "wide"}
<1>1. PICK n \in Nat : Len(s) = n /\ DOMAIN s = 1 .. n
  OBVIOUS
<1>2. r \in Seq(B) /\ \E e : Spread(r, s, w, e)
  BY CastsSpread
<1>3. PICK e : Spread(r, s, w, e)
  BY <1>2
<1> HIDE DEF B
<1>4. DOMAIN r = 1 .. Len(r) /\ Len(r) \in Nat
  BY <1>2
<1> DEFINE m == Len(r)
           f == [i \in 1 .. n |-> e[i - 1] + 1]
<1>5. \A j \in w : s[j] \in {"'", "wide"}
  BY DoubledAre
<1> HIDE DEF w
<1>6. /\ e[0] = 0 /\ e[n] = m
      /\ \A i \in 0 .. n : e[i] \in Nat
      /\ \A i \in 1 .. n :
            /\ e[i] = e[i - 1] + (IF i \in w THEN 2 ELSE 1)
            /\ r[e[i - 1] + 1] = s[i]
            /\ i \in w => r[e[i]] = Second(s[i])
      /\ \A y \in 1 .. m : \E j \in 1 .. n :
            y = e[j - 1] + 1 \/ (j \in w /\ y = e[j])
  BY <1>1, <1>3 DEF Spread
<1>7. \A i \in 1 .. n : /\ f[i] \in 1 .. m
                        /\ f[i] \in Bare(r) <=> i \in Bare(s)
                        /\ r[f[i]] = s[i]
  <2> SUFFICES ASSUME NEW i \in 1 .. n
               PROVE  /\ f[i] \in 1 .. m
                      /\ f[i] \in Bare(r) <=> i \in Bare(s)
                      /\ r[f[i]] = s[i]
    OBVIOUS
  <2>1. /\ e[i - 1] + 1 \in 1 .. Len(r)
        /\ e[i - 1] + 1 \in Bare(r) <=> i \in Bare(s)
    BY <1>1, <1>3, <1>4, BareOfSpread
  <2> QED
    BY <1>6, <2>1
<1>8. \A i, j \in 1 .. n : i < j => f[i] < f[j]
  <2> SUFFICES ASSUME NEW i \in 1 .. n, NEW j \in 1 .. n, i < j
               PROVE  f[i] < f[j]
    OBVIOUS
  <2> DEFINE a == i - 1
             b == j - 1
  <2>1. a \in 0 .. n /\ b \in 0 .. n /\ a < b
    OBVIOUS
  <2> HIDE DEF a, b
  <2>2. e[a] < e[b]
    BY <1>1, <1>3, <2>1, SpreadGrows
  <2>3. e[a] \in Nat /\ e[b] \in Nat
    BY <1>6, <2>1
  <2>4. f[i] = e[a] + 1 /\ f[j] = e[b] + 1
    BY DEF a, b
  <2> QED
    BY <2>2, <2>3, <2>4
<1>9. \A y \in 1 .. m : \/ \E i \in 1 .. n : y = f[i]
                        \/ \E j \in w : r[y] = Second(s[j])
  <2> SUFFICES ASSUME NEW y \in 1 .. m
               PROVE  \/ \E i \in 1 .. n : y = f[i]
                      \/ \E j \in w : r[y] = Second(s[j])
    OBVIOUS
  <2>1. PICK j \in 1 .. n : y = e[j - 1] + 1 \/ (j \in w /\ y = e[j])
    BY <1>6
  <2>2. j \in w => r[e[j]] = Second(s[j])
    BY <1>6
  <2> QED
    BY <2>1, <2>2
<1>10. \A i \in 1 .. n : s[i] \in OfInterest =>
          IF i < n THEN f[i + 1] = f[i] + 1 ELSE f[i] = m
  <2> SUFFICES ASSUME NEW i \in 1 .. n, s[i] \in OfInterest
               PROVE  IF i < n THEN f[i + 1] = f[i] + 1 ELSE f[i] = m
    OBVIOUS
  <2>1. i \notin w
    BY <1>5, SecondIsNoMark
  <2>2. e[i] = e[i - 1] + 1
    BY <1>6, <2>1
  <2>3. CASE i < n
    <3> DEFINE k == i + 1
    <3>1. k \in 1 .. n /\ k - 1 = i
      BY <2>3
    <3> HIDE DEF k
    <3>2. f[k] = e[i] + 1
      BY <3>1
    <3> QED
      BY <2>2, <2>3, <3>2 DEF k
  <2>4. CASE ~(i < n)
    <3>1. i = n
      BY <2>4
    <3> QED
      BY <1>6, <2>2, <2>4, <3>1
  <2> QED
    BY <2>3, <2>4
<1>11. \A y \in Bare(r) : y \in 1 .. m
  BY <1>4 DEF Bare
<1>12. f \in [1 .. n -> 1 .. m]
  BY <1>7
<1> HIDE DEF f, m
<1>13. Embeds(f, s, n, r, m)
  <2>1. \A y \in Bare(r) : r[y] \in Marks => \E i \in 1 .. n : y = f[i]
    BY <1>9, <1>11, SecondIsNoMark
  <2> QED
    BY <1>7, <1>8, <1>10, <1>12, <2>1 DEF Embeds
<1>14. Lengths(s, n, r, m)
  BY <1>1, <1>4 DEF Lengths, m
<1> QED
  BY <1>1, <1>9, <1>13, <1>14 DEF m, w

\* Casts change neither calls nor columns.
LEMMA CastsKeepShape ==
    ASSUME NEW A, NEW s \in Seq(A), NEW r, r = InjectGeometryCasts(s)
    PROVE  Functions(r) = Functions(s) /\ Columns(r) = Columns(s)
<1> DEFINE n == Len(s)
           m == Len(r)
<1>1. Lengths(s, n, r, m)
  BY CastEmbeds
<1>2. PICK f : /\ Embeds(f, s, n, r, m)
               /\ \A y \in 1 .. m :
                     \/ \E i \in 1 .. n : y = f[i]
                     \/ \E j \in Doubled(s) : r[y] = Second(s[j])
  BY CastEmbeds
<1> HIDE DEF n, m
<1>3. Functions(r) = Functions(s)
  BY <1>1, <1>2, FunctionsEmbedded
<1>4. /\ Commas(s) \in SUBSET (1 .. n)
      /\ Image(f, Commas(s)) =
            {y \in Commas(r) : \E i \in 1 .. n : y = f[i]}
  BY <1>1, <1>2, CommasEmbedded
<1>5. \A y \in Commas(r) : y \in 1 .. m /\ r[y] = ","
  BY <1>1 DEF Commas, Bare, Lengths
<1>6. Image(f, Commas(s)) = Commas(r)
  <2>1. ASSUME NEW y \in Commas(r) PROVE \E i \in 1 .. n : y = f[i]
    <3>1. y \in 1 .. m /\ ~\E j \in Doubled(s) : r[y] = Second(s[j])
      BY <1>5, SecondIsNoMark
    <3> QED
      BY <1>2, <3>1
  <2> QED
    BY <1>4, <2>1
<1>7. Cardinality(Commas(r)) = Cardinality(Commas(s))
  BY <1>1, <1>2, <1>4, <1>6, SizeOfImage
<1> QED
  BY <1>3, <1>7, ColumnsAre

\* Everything up to the closing quote of a leading literal is inside it.
LEMMA LabelIsHidden ==
    ASSUME NEW s, NEW n \in Nat, Len(s) = n, DOMAIN s = 1 .. n,
           NEW c \in 1 .. n, s[1] = "'", ClosingQuote(s, 1) = c
    PROVE  /\ 1 < c /\ s[c] = "'" /\ QuotesBefore(s, c) % 2 = 1
           /\ \A y \in 1 .. c : y \notin Bare(s)
<1>1. c \in Closing(s, 1) /\ \A y \in Closing(s, 1) : c <= y
  <2>1. c \in Nat /\ c # 0 /\ 1 \in Nat /\ Len(s) \in Nat
    OBVIOUS
  <2> QED
    BY <2>1, ClosingQuoteIs
<1>2. c \in 2 .. n /\ s[c] = "'" /\ QuotesBefore(s, c) % 2 = 1
  BY <1>1 DEF Closing
<1> DEFINE Good == {y \in 0 .. c : y # 0 =>
                       s[y] = "'" \/ QuotesBefore(s, y) % 2 = 1}
<1>3. ASSUME NEW y \in 1 .. c, y - 1 \in Good PROVE y \in Good
  <2>1. CASE y = 1
    BY <2>1
  <2>2. CASE y # 1
    <3> DEFINE x == y - 1
    <3>1. x \in 1 .. n /\ x \in Nat /\ x # 0 /\ x < c /\ y = x + 1
      BY <2>2
    <3>2. s[x] = "'" \/ QuotesBefore(s, x) % 2 = 1
      BY <1>3, <3>1
    <3> HIDE DEF x, Good
    <3>3. /\ QuotesBefore(s, x) \in Nat /\ QuotesBefore(s, 1) = 0
          /\ QuotesBefore(s, x + 1) =
                QuotesBefore(s, x) + (IF s[x] = "'" THEN 1 ELSE 0)
      BY <3>1, QuotesStep
    <3>4. CASE s[x] # "'"
      BY <3>1, <3>2, <3>3, <3>4 DEF Good
    <3>5. CASE s[x] = "'" /\ QuotesBefore(s, x) % 2 # 1
      <4>1. (QuotesBefore(s, x) + 1) % 2 = 1
        BY <3>3, <3>5
      <4> QED
        BY <3>1, <3>3, <3>5, <4>1 DEF Good
    <3>6. CASE s[x] = "'" /\ QuotesBefore(s, x) % 2 = 1
      <4>1. x # 1
        BY <3>3, <3>6
      <4>2. x \notin Closing(s, 1)
        BY <1>1, <1>2, <3>1
      <4>3. s[x + 1] = "'"
        BY <3>1, <3>6, <4>1, <4>2 DEF Closing
      <4> QED
        BY <3>1, <4>3 DEF Good
    <3> QED
      BY <3>4, <3>5, <3>6
  <2> QED
    BY <2>1, <2>2
<1>4. 0 \in Good /\ c \in Nat
  OBVIOUS
<1> HIDE DEF Good
<1>5. \A y \in 0 .. c : y \in Good
  BY <1>3, <1>4, Upto
<1>6. \A y \in 1 .. c : y \notin Bare(s)
  <2> SUFFICES ASSUME NEW y \in 1 .. c, y \in Bare(s) PROVE FALSE
    OBVIOUS
  <2>1. s[y] # "'" /\ QuotesBefore(s, y) % 2 = 0
    BY DEF Bare
  <2>2. y \in Good /\ y # 0
    BY <1>5
  <2> QED
    BY <2>1, <2>2 DEF Good
<1> QED
  BY <1>2, <1>6

\* A stripped list is the end of the list, behind the label and its comma.
LEMMA StripEmbeds ==
    ASSUME NEW A, NEW s \in Seq(A), Labelled(s), NEW r,
           r = StripLeadingLabel(s)
    PROVE  /\ r \in Seq(A) /\ Lengths(r, Len(r), s, Len(s))
           /\ \E f, comma :
                 /\ Embeds(f, r, Len(r), s, Len(s))
                 /\ comma \in Commas(s)
                 /\ \A i \in 1 .. Len(r) : f[i] # comma
                 /\ \A y \in Bare(s) :
                       y # comma => \E i \in 1 .. Len(r) : y = f[i]
<1>1. PICK n \in Nat : Len(s) = n /\ DOMAIN s = 1 .. n
  OBVIOUS
<1> DEFINE c == ClosingQuote(s, 1)
           k == n - (c + 1)
           d == c + 1
           f == [i \in 1 .. k |-> i + d]
<1>2. /\ s # << >> /\ s[1] = "'" /\ c \notin {0, n} /\ s[c + 1] = ","
      /\ r = SubSeq(s, c + 2, n)
  BY <1>1 DEF Labelled, StripLeadingLabel
<1> HIDE DEF k, d, f
<1>3. c \in 1 .. n
  <2>1. Closing(s, 1) \subseteq 1 .. n
    BY <1>1 DEF Closing
  <2>2. c = IF Closing(s, 1) = {} THEN 0 ELSE Min(Closing(s, 1))
    BY Zenon DEF ClosingQuote, Closing
  <2>3. Closing(s, 1) # {}
    BY <1>2, <2>2
  <2>4. Min(Closing(s, 1)) \in Closing(s, 1)
    <3>1. Closing(s, 1) \subseteq Nat
      BY <2>1
    <3> QED
      BY <2>3, <3>1, LeastOf
  <2> QED
    BY <2>1, <2>2, <2>3, <2>4
<1> HIDE DEF c
<1>4. /\ 1 < c /\ s[c] = "'" /\ QuotesBefore(s, c) % 2 = 1
      /\ \A y \in 1 .. c : y \notin Bare(s)
  BY <1>1, <1>2, <1>3, LabelIsHidden DEF c
<1>5. /\ k \in Nat /\ d \in Nat /\ c + 2 = d + 1 /\ n = d + k /\ d \in 1 .. n
      /\ d - 1 = c
  <2>1. c # n
    BY <1>2
  <2> QED
    BY <1>3, <2>1 DEF k, d
<1>6. r \in Seq(A) /\ Len(r) = k /\ \A i \in 1 .. k : r[i] = s[i + d]
  <2>1. r = SubSeq(s, d + 1, n)
    BY <1>2, <1>5
  <2>2. d + 1 \in 1 .. n + 1 /\ n <= Len(s) /\ n - (d + 1) + 1 = k
    BY <1>1, <1>5
  <2>3. Len(r) = k
    BY <1>1, <1>5, <2>1, <2>2
  <2>4. \A i \in 1 .. k : r[i] = s[(d + 1) + i - 1] /\ (d + 1) + i - 1 = i + d
    BY <1>1, <1>5, <2>1, <2>2
  <2>5. r \in Seq(A)
    BY <1>1, <1>5, <2>1
  <2> QED
    BY <2>3, <2>4, <2>5
<1>7. DOMAIN r = 1 .. k
  BY <1>6
<1>8. QuotesBefore(s, d + 1) \in Nat /\ QuotesBefore(s, d + 1) % 2 = 0
      /\ QuotesBefore(s, d) % 2 = 0
  <2>1. /\ QuotesBefore(s, c) \in Nat
        /\ QuotesBefore(s, c + 1) = QuotesBefore(s, c) + 1
    <3>1. c \in Nat /\ c # 0
      BY <1>3
    <3> QED
      BY <1>4, <3>1, QuotesStep
  <2>2. QuotesBefore(s, d + 1) = QuotesBefore(s, d) + 0
    <3>1. d \in Nat /\ d # 0 /\ s[d] = ","
      <4>1. d \in Nat /\ d # 0
        BY <1>1, <1>5
      <4>2. s[c + 1] = ","
        BY <1>2
      <4> QED
        BY <4>1, <4>2 DEF d
    <3> QED
      BY <3>1, CommaIsNoMark, QuotesStep
  <2>3. c + 1 = d
    BY <1>5
  <2>4. (QuotesBefore(s, c) + 1) % 2 = 0
    BY <1>4, <2>1
  <2> QED
    BY <2>1, <2>2, <2>3, <2>4
<1>9. ASSUME NEW i \in 1 .. k
      PROVE  QuotesBefore(s, i + d) % 2 = QuotesBefore(r, i) % 2
  <2>1. SameQuotes(s, r, d, k)
    BY <1>5, <1>6 DEF SameQuotes
  <2>2. \A x \in 0 .. k : QuotesBefore(s, d + x + 1) =
                             QuotesBefore(s, d + 1) + QuotesBefore(r, x + 1)
    BY <1>5, <2>1, QuotesShift
  <2>3. i - 1 \in 0 .. k /\ d + (i - 1) + 1 = i + d /\ (i - 1) + 1 = i
    BY <1>5
  <2>4. QuotesBefore(s, i + d) = QuotesBefore(s, d + 1) + QuotesBefore(r, i)
    BY <2>2, <2>3
  <2>5. QuotesBefore(r, i) \in Nat
    <3>1. i \in Nat /\ i # 0
      BY <1>5
    <3> QED
      BY <3>1, QuotesStep
  <2> QED
    BY <1>8, <2>4, <2>5
<1>9a. f = [i \in 1 .. k |-> i + d]
  BY DEF f
<1>10. \A i \in 1 .. k : /\ f[i] \in 1 .. n /\ f[i] # d /\ s[f[i]] = r[i]
                         /\ f[i] \in Bare(s) <=> i \in Bare(r)
  <2> SUFFICES ASSUME NEW i \in 1 .. k
               PROVE  /\ f[i] \in 1 .. n /\ f[i] # d /\ s[f[i]] = r[i]
                      /\ f[i] \in Bare(s) <=> i \in Bare(r)
    OBVIOUS
  <2>1. f[i] \in 1 .. n /\ f[i] # d /\ s[f[i]] = r[i]
    BY <1>5, <1>6, <1>9a
  <2>2. QuotesBefore(s, f[i]) % 2 = QuotesBefore(r, i) % 2
    BY <1>9, <1>9a
  <2> QED
    BY <1>1, <1>7, <2>1, <2>2, Zenon DEF Bare
<1>11. \A y \in Bare(s) : y \in 1 .. n /\ (y # d => \E i \in 1 .. k : y = f[i])
  <2> SUFFICES ASSUME NEW y \in Bare(s)
               PROVE  y \in 1 .. n /\ (y # d => \E i \in 1 .. k : y = f[i])
    OBVIOUS
  <2>1. y \in 1 .. n
    BY <1>1 DEF Bare
  <2>2. ~(y <= c)
    BY <1>4, <2>1
  <2>3. ASSUME y # d PROVE y - d \in 1 .. k /\ (y - d) + d = y
    BY <1>3, <1>5, <2>1, <2>2, <2>3
  <2> QED
    BY <1>9a, <2>1, <2>3
<1>12. d \in Commas(s)
  <2>1. d \in 1 .. n /\ s[d] = "," /\ d = c + 1
    BY <1>2, <1>5 DEF d
  <2>2. d \in Bare(s)
    <3>1. d \in DOMAIN s /\ s[d] # "'"
      BY <1>1, <2>1, CommaIsNoMark
    <3> QED
      BY <1>8, <3>1, Zenon DEF Bare
  <2>3. \A y \in Bare(s) : ~(y < d)
    <3>1. \A y \in Bare(s) : y \in 1 .. n
      BY <1>1 DEF Bare
    <3>2. \A y \in 1 .. n : y < d => y \in 1 .. c
      <4>1. d = c + 1 /\ c \in Nat /\ n \in Nat
        <5>1. d = c + 1
          BY DEF d
        <5>2. n \in Nat
          BY <1>1
        <5> QED
          BY <1>3, <5>1, <5>2
      <4> SUFFICES ASSUME NEW y \in 1 .. n, y < d PROVE y \in 1 .. c
        OBVIOUS
      <4>2. y \in Nat /\ 1 <= y
        BY <4>1
      <4> QED
        BY <4>1, <4>2
    <3> QED
      BY <1>4, <3>1, <3>2
  <2>4. Brackets(s, d, "(") = {} /\ Brackets(s, d, ")") = {}
    BY <2>3 DEF Brackets
  <2>5. Outermost(s, d)
    BY <2>4, OutermostIs
  <2>6. Running(s, d, ColumnStops)
    BY <2>3 DEF Running
  <2> QED
    BY <2>1, <2>2, <2>5, <2>6 DEF Commas
<1>13. f \in [1 .. k -> 1 .. n]
  BY <1>10, <1>9a
<1>14. \A i, j \in 1 .. k : i < j => f[i] < f[j]
  BY <1>5, <1>9a
<1>15. \A i \in 1 .. k : IF i < k THEN f[i + 1] = f[i] + 1 ELSE f[i] = n
  BY <1>5, <1>9a
<1>16. s[d] \notin Marks
  BY <1>2, CommaIsNoMark DEF d
<1>17. Embeds(f, r, k, s, n)
  BY <1>10, <1>11, <1>13, <1>14, <1>15, <1>16 DEF Embeds
<1>18. Lengths(r, k, s, n)
  BY <1>1, <1>5, <1>7 DEF Lengths
<1>19. /\ Embeds(f, r, Len(r), s, Len(s)) /\ d \in Commas(s)
       /\ \A i \in 1 .. Len(r) : f[i] # d
       /\ \A y \in Bare(s) : y # d => \E i \in 1 .. Len(r) : y = f[i]
  <2>1. Len(r) = k /\ Len(s) = n
    BY <1>1, <1>6
  <2>2. \A i \in 1 .. k : f[i] # d
    BY <1>10
  <2>3. \A y \in Bare(s) : y # d => \E i \in 1 .. k : y = f[i]
    BY <1>11
  <2> QED
    BY <1>12, <1>17, <2>1, <2>2, <2>3, Zenon
<1>20. r \in Seq(A) /\ Lengths(r, Len(r), s, Len(s))
  BY <1>1, <1>6, <1>18
<1> QED
  BY <1>19, <1>20, Zenon

\* A label is a column without a call.
LEMMA StripTakesAColumn ==
    ASSUME NEW A, NEW s \in Seq(A), Labelled(s), NEW r,
           r = StripLeadingLabel(s)
    PROVE  /\ r \in Seq(A) /\ Functions(r) = Functions(s)
           /\ Columns(r) = Columns(s) - 1
<1> DEFINE k == Len(r)
           n == Len(s)
<1>1. r \in Seq(A) /\ Lengths(r, k, s, n)
  BY StripEmbeds
<1>2. PICK f, comma :
         /\ Embeds(f, r, k, s, n)
         /\ comma \in Commas(s)
         /\ \A i \in 1 .. k : f[i] # comma
         /\ \A y \in Bare(s) : y # comma => \E i \in 1 .. k : y = f[i]
  BY StripEmbeds
<1> HIDE DEF k, n
<1>3. Functions(r) = Functions(s)
  BY <1>1, <1>2, FunctionsEmbedded
<1>4. /\ Commas(r) \in SUBSET (1 .. k)
      /\ Image(f, Commas(r)) =
            {y \in Commas(s) : \E i \in 1 .. k : y = f[i]}
  BY <1>1, <1>2, CommasEmbedded
<1>5. /\ IsFiniteSet(Image(f, Commas(r)))
      /\ Cardinality(Image(f, Commas(r))) = Cardinality(Commas(r))
  BY <1>1, <1>2, <1>4, SizeOfImage
<1>6. \A y \in Commas(s) : y \in Bare(s)
  BY DEF Commas
<1>7. /\ Commas(s) = Image(f, Commas(r)) \cup {comma}
      /\ comma \notin Image(f, Commas(r))
  BY <1>2, <1>4, <1>6
<1>8. Cardinality(Commas(s)) = Cardinality(Commas(r)) + 1
  BY <1>5, <1>7, FS_AddElement
<1>9. Cardinality(Commas(r)) \in Nat
  BY <1>5, FS_CardinalityType
<1>10. Columns(r) = Columns(s) - 1
  BY <1>8, <1>9, ColumnsAre
<1> QED
  BY <1>1, <1>3, <1>10

LEMMA CharsTyped ==
    ASSUME NEW A, NEW s \in Seq(A)
    PROVE  AsChars(s) \in Seq(A)
<1> DEFINE C == Seq(A)
           pieces == [i \in DOMAIN s |->
               IF s[i] = "wide" THEN <<"wide", "wide">> ELSE <<s[i]>>]
<1>1. PICK n \in Nat : DOMAIN s = 1 .. n
  OBVIOUS
<1>2. ASSUME NEW i \in 1 .. n PROVE pieces[i] \in C
  <2>1. s[i] \in A
    BY <1>1
  <2> DEFINE a == s[i]
  <2> HIDE DEF a
  <2>2. <<a>> \in C /\ <<a, a>> \in C
    BY <2>1, ShortSeqs DEF a
  <2> HIDE DEF C
  <2>3. pieces[i] = IF a = "wide" THEN <<"wide", "wide">> ELSE <<a>>
    BY <1>1 DEF a
  <2> QED
    BY <2>2, <2>3
<1>3. pieces \in Seq(C)
  <2> HIDE DEF C
  <2>1. pieces \in [1 .. n -> C]
    BY <1>1, <1>2
  <2> QED
    BY <2>1
<1>4. AsChars(s) = FlattenSeq(pieces)
  BY Zenon DEF AsChars
<1> HIDE DEF pieces
<1> QED
  BY <1>3, <1>4, FlattenParts

\* For a list of any tokens of which no text is taken for no label.
LEMMA ProbeFits ==
    ASSUME NEW A, NoLabel \notin Seq(A), NEW s \in Seq(A)
    PROVE  ProbeFitsItsCase(s)
<1> DEFINE r == StripLeadingLabel(s)
<1>1. Functions(ProbeSql(s)) = Functions(r) /\ Columns(ProbeSql(s)) = Columns(r)
  <2>1. r \in Seq(A)
    <3>1. CASE Labelled(s)
      BY <3>1, StripTakesAColumn
    <3>2. CASE ~Labelled(s)
      BY <3>2 DEF StripLeadingLabel
    <3> QED
      BY <3>1, <3>2
  <2>2. ProbeSql(s) = InjectGeometryCasts(r)
    BY DEF ProbeSql
  <2> HIDE DEF r
  <2> QED
    BY <2>1, <2>2, CastsKeepShape
<1>2. CASE Labelled(s)
  <2>1. Functions(r) = Functions(s) /\ Columns(r) = Columns(s) - 1
    BY <1>2, StripTakesAColumn
  <2>2. ExtractLabel(s) # NoLabel
    <3>1. ExtractLabel(s) = AsChars(SubSeq(s, 2, ClosingQuote(s, 1) - 1))
      BY <1>2 DEF ExtractLabel
    <3>2. SubSeq(s, 2, ClosingQuote(s, 1) - 1) \in Seq(A)
      <4>1. ClosingQuote(s, 1) \in 1 .. Len(s)
        <5>1. Closing(s, 1) \subseteq Nat /\ Closing(s, 1) \subseteq 1 .. Len(s)
          BY DEF Closing
        <5>2. ClosingQuote(s, 1) =
                 IF Closing(s, 1) = {} THEN 0 ELSE Min(Closing(s, 1))
          BY Zenon DEF ClosingQuote, Closing
        <5>3. ClosingQuote(s, 1) # 0
          BY <1>2 DEF Labelled
        <5> QED
          BY <5>1, <5>2, <5>3, LeastOf
      <4> DEFINE last == ClosingQuote(s, 1) - 1
      <4>2. last \in Int /\ last <= Len(s)
        BY <4>1
      <4> HIDE DEF last
      <4>3. SubSeq(s, 2, last) \in Seq(A)
        BY <4>2
      <4> QED
        BY <4>3 DEF last
    <3> QED
      BY <3>1, <3>2, CharsTyped
  <2> QED
    BY <1>1, <2>1, <2>2 DEF ProbeFitsItsCase
<1>3. CASE ~Labelled(s)
  <2>1. r = s /\ ExtractLabel(s) = NoLabel
    BY <1>3 DEF StripLeadingLabel, ExtractLabel
  <2>2. Columns(s) = Columns(s) - 0
    <3>1. PICK n \in Nat : DOMAIN s = 1 .. n
      OBVIOUS
    <3>2. Commas(s) \subseteq 1 .. n
      BY <3>1 DEF Commas, Bare
    <3>3. IsFiniteSet(1 .. n)
      BY <3>1, FS_Interval
    <3>4. Cardinality(Commas(s)) \in Nat
      BY <3>2, <3>3, FS_Subset, FS_CardinalityType
    <3> QED
      BY <3>4, ColumnsAre
  <2> QED
    BY <1>1, <2>1, <2>2 DEF ProbeFitsItsCase
<1> QED
  BY <1>2, <1>3

\* The probe of a case calls the functions the case was filed under, and its
\* row has the columns that PostGIS expects, whatever the SELECT list is
\* (main.rs:384-396, parse.rs:380-461, preprocess.rs:120-250).
THEOREM ProbesFitTheirCases ==
    /\ \A A : NoLabel \notin Seq(A) => \A s \in Seq(A) : ProbeFitsItsCase(s)
    /\ TextSpec => []ProbesFitCases
<1>1. \A A : NoLabel \notin Seq(A) => \A s \in Seq(A) : ProbeFitsItsCase(s)
  BY ProbeFits
<1>2. ListTyped => ProbesFitCases
  BY <1>1, NoLabelAssumption, Zenon DEF ListTyped, ProbesFitCases
<1>3. TextSpec => []ProbesFitCases
  BY <1>2, GrownList, PTL
<1> QED
  BY <1>1, <1>3

-----------------------------------------------------------------------------

\* What casting again puts in is characters outside ASCII.
LEMMA CastOnce ==
    ASSUME NEW A, NEW s \in Seq(A)
    PROVE  CastingAgainIsNoChange(s)
<1> DEFINE r == InjectGeometryCasts(s)
           again == InjectGeometryCasts(r)
           B == A \cup {Cast, "wide"}
<1>1. r \in Seq(B) /\ Wanted(r) = {} /\ (PlainCode(s) => Broken(r) = {})
  BY CastsSettle
<1> HIDE DEF r, B
<1>2. PlainCode(s) => again = r
  <2>1. Broken(r) = {} => Doubled(r) = {}
    BY <1>1 DEF Doubled
  <2> QED
    BY <1>1, <2>1, NothingToCast
<1> DEFINE n == Len(r)
           m == Len(again)
<1>3. Lengths(r, n, again, m)
  BY <1>1, CastEmbeds
<1>4. PICK f : /\ Embeds(f, r, n, again, m)
               /\ \A y \in 1 .. m :
                     \/ \E i \in 1 .. n : y = f[i]
                     \/ \E j \in Doubled(r) : again[y] = Second(r[j])
  BY <1>1, CastEmbeds
<1>5. \A j \in Doubled(r) : Second(r[j]) = "wide"
  BY <1>1, DoubledAre, SecondIs
<1> HIDE DEF n, m, again
<1> DEFINE S == {i \in DOMAIN r : r[i] # "wide"}
           T == {y \in DOMAIN again : again[y] # "wide"}
<1>6. S \in SUBSET (1 .. n) /\ T \in SUBSET (1 .. m)
  BY <1>3 DEF Lengths
<1>7. Image(f, S) = T
  <2>1. \A i \in 1 .. n : f[i] \in 1 .. m /\ again[f[i]] = r[i]
    BY <1>4 DEF Embeds
  <2>2. DOMAIN r = 1 .. n /\ DOMAIN again = 1 .. m
    BY <1>3 DEF Lengths
  <2>3. \A y \in T : \E i \in 1 .. n : y = f[i]
    BY <1>4, <1>5, <2>2
  <2> QED
    BY <2>1, <2>2, <2>3 DEF Image
<1>8. Narrow(again) = Selected(again, T) /\ Narrow(r) = Selected(r, S)
  BY Zenon DEF Narrow
<1> HIDE DEF S, T
<1>9. Narrow(again) = Narrow(r)
  BY <1>3, <1>4, <1>6, <1>7, <1>8, SelectedEmbedded
<1>10. CastingAgainIsNoChange(s) <=>
         /\ Narrow(again) = Narrow(r)
         /\ PlainCode(s) => again = r
  BY Zenon DEF CastingAgainIsNoChange, again, r
<1> QED
  BY <1>2, <1>9, <1>10

RowTyped == kind = "row" => text \in Seq(MCRowTokens)

LEMMA GrownRow == TextSpec => []RowTyped
<1>1. TextInit => RowTyped
  BY DEF TextInit, RowTyped
<1>2. RowTyped /\ [TextNext]_textVars => RowTyped'
  <2> SUFFICES ASSUME RowTyped, [TextNext]_textVars, kind' = "row"
               PROVE  text' \in Seq(MCRowTokens)
    BY DEF RowTyped
  <2>1. CASE UNCHANGED textVars
    BY <2>1 DEF RowTyped, textVars
  <2>2. CASE TextNext
    <3>1. GrowRow
      BY <2>2 DEF TextNext, GrowRegress, GrowList, GrowRow, GrowOut, GrowSmoke,
                  Grow
    <3>2. PICK token \in MCRowTokens : text' = text \o <<token>>
      BY <3>1 DEF GrowRow, Grow
    <3>3. text \in Seq(MCRowTokens)
      BY <3>1 DEF GrowRow, Grow, RowTyped
    <3> QED
      BY <3>2, <3>3
  <2> QED
    BY <2>1, <2>2
<1> QED
  BY <1>1, <1>2, PTL DEF TextSpec

\* A row that was migrated gets no cast when the preprocessor runs over it
\* again, comments or not, and does not change at all if it is in ASCII but
\* for its literals, whatever it is made of (preprocess.rs:120-250, 306-312).
THEOREM CastingSettles ==
    /\ \A A : \A s \in Seq(A) : CastingAgainIsNoChange(s)
    /\ TextSpec => []CastingIsIdempotent
<1>1. \A A : \A s \in Seq(A) : CastingAgainIsNoChange(s)
  BY CastOnce
<1>2. ListTyped /\ RowTyped => CastingIsIdempotent
  BY <1>1, Zenon DEF ListTyped, RowTyped, CastingIsIdempotent
<1>3. TextSpec => []CastingIsIdempotent
  BY <1>2, GrownList, GrownRow, PTL
<1> QED
  BY <1>1, <1>3

-----------------------------------------------------------------------------
(* What psql printed, line by line.                                        *)

Rows == Datum \cup {NoRow}

BlockKinds == {"answered", "wrapped", "noted", "noticed", "failed", "silent",
               "other", "comment", "meta"}

\* Statements that are SELECTs.
SelectKinds == {"answered", "wrapped", "noted", "noticed", "failed", "silent"}

Blocks == [kind : BlockKinds, key : Key \cup {NoRow}, rows : Seq(Rows)]

LineKinds == {"select", "open", "close", "noted", "header", "dashes", "blank",
              "row", "count", "diagnostic", "other", "comment", "meta"}

OutLines == [kind : LineKinds, text : Key \cup Rows \cup LineKinds]

\* From p on there stand the lines of rows.
RowsetAt(lines, p, rows) ==
    /\ lines[p + 1].kind = "header" /\ lines[p + 2].kind = "dashes"
    /\ \A r \in 1 .. Len(rows) :
          /\ rows[r] = NoRow => lines[p + 2 + r].kind = "blank"
          /\ rows[r] # NoRow => /\ lines[p + 2 + r].kind = "row"
                                /\ lines[p + 2 + r].text = rows[r]
    /\ lines[p + Len(rows) + 3].kind = "count"
    /\ lines[p + Len(rows) + 4].kind = "blank"

LEMMA LineTyped ==
    /\ \A k \in LineKinds : Line(k) \in OutLines /\ Line(k).kind = k
    /\ \A k \in LineKinds, x \in Key \cup Rows :
          /\ TextLine(k, x) \in OutLines
          /\ TextLine(k, x).kind = k /\ TextLine(k, x).text = x
BY DEF Line, TextLine, OutLines

LEMMA RowsetIs ==
    ASSUME NEW rows \in Seq(Rows)
    PROVE  /\ Rowset(rows) \in Seq(OutLines)
           /\ Len(Rowset(rows)) = Len(rows) + 4
           /\ RowsetAt(Rowset(rows), 0, rows)
           /\ \A x \in 1 .. Len(rows) + 4 :
                 Rowset(rows)[x].kind \in {"header", "dashes", "blank", "row", "count"}
<1> DEFINE one == Line("header")
           two == Line("dashes")
           three == Line("count")
           four == Line("blank")
           upper == <<one, two>>
           middle == [r \in DOMAIN rows |->
                        IF rows[r] = NoRow THEN Line("blank")
                        ELSE TextLine("row", rows[r])]
           lower == <<three, four>>
<1>1. PICK m \in Nat : Len(rows) = m /\ DOMAIN rows = 1 .. m
  OBVIOUS
<1>2. \A r \in 1 .. m : rows[r] \in Rows
  BY <1>1
<1>3. /\ {one, two, three, four} \subseteq OutLines
      /\ one.kind = "header" /\ two.kind = "dashes"
      /\ three.kind = "count" /\ four.kind = "blank"
  BY LineTyped DEF LineKinds
<1>4. \A r \in 1 .. m :
         /\ middle[r] \in OutLines
         /\ rows[r] = NoRow => middle[r].kind = "blank"
         /\ rows[r] # NoRow => middle[r].kind = "row" /\ middle[r].text = rows[r]
  BY <1>1, <1>2, LineTyped DEF LineKinds
<1>5. middle \in Seq(OutLines) /\ Len(middle) = m
  <2>1. middle = [r \in 1 .. m |-> middle[r]]
    BY <1>1
  <2> HIDE DEF middle
  <2> QED
    BY <1>1, <1>4, <2>1
<1>6. Rowset(rows) = (upper \o middle) \o lower
  BY Zenon DEF Rowset, upper, middle, lower, one, two, three, four
<1> HIDE DEF one, two, three, four, middle
<1>7. /\ upper \in Seq(OutLines) /\ Len(upper) = 2
      /\ upper[1] = one /\ upper[2] = two
      /\ lower \in Seq(OutLines) /\ Len(lower) = 2
      /\ lower[1] = three /\ lower[2] = four
  BY <1>3
<1> HIDE DEF upper, lower
<1> DEFINE both == upper \o middle
           all == both \o lower
<1>8. /\ both \in Seq(OutLines) /\ Len(both) = 2 + m
      /\ \A x \in 1 .. m : both[2 + x] = middle[x]
      /\ both[1] = one /\ both[2] = two
  <2>1. both \in Seq(OutLines)
    BY <1>5, <1>7
  <2>2. /\ Len(upper \o middle) = Len(upper) + Len(middle)
        /\ \A x \in 1 .. Len(middle) : (upper \o middle)[Len(upper) + x] = middle[x]
        /\ \A y \in 1 .. Len(upper) : (upper \o middle)[y] = upper[y]
    BY <1>5, <1>7, Joined
  <2>3. 1 \in 1 .. 2 /\ 2 \in 1 .. 2
    OBVIOUS
  <2> HIDE DEF both
  <2>4. /\ Len(both) = Len(upper) + Len(middle)
        /\ \A x \in 1 .. Len(middle) : both[Len(upper) + x] = middle[x]
        /\ \A y \in 1 .. Len(upper) : both[y] = upper[y]
    BY <2>2 DEF both
  <2> QED
    BY <1>5, <1>7, <2>1, <2>3, <2>4
<1> HIDE DEF both
<1>9. /\ all \in Seq(OutLines) /\ Len(all) = m + 4
      /\ all[m + 3] = three /\ all[m + 4] = four
      /\ \A y \in 1 .. m + 2 : all[y] = both[y]
  <2>1. all \in Seq(OutLines)
    BY <1>7, <1>8
  <2>2. /\ Len(all) = Len(both) + Len(lower)
        /\ \A x \in 1 .. Len(lower) : all[Len(both) + x] = lower[x]
        /\ \A y \in 1 .. Len(both) : all[y] = both[y]
    BY <1>7, <1>8, Joined
  <2>3. 1 \in 1 .. 2 /\ 2 \in 1 .. 2 /\ (2 + m) + 1 = m + 3 /\ (2 + m) + 2 = m + 4
        /\ 2 + m = m + 2
    BY <1>1
  <2>4. /\ all[m + 3] = three /\ all[m + 4] = four
    BY <1>7, <1>8, <2>2, <2>3
  <2> QED
    BY <1>7, <1>8, <2>1, <2>2, <2>3, <2>4
<1>10. Rowset(rows) = all
  BY <1>6, Zenon DEF all, both
<1> HIDE DEF all
<1>11. /\ all[1] = one /\ all[2] = two
       /\ \A r \in 1 .. m : all[2 + r] = middle[r]
  <2>1. 1 \in 1 .. m + 2 /\ 2 \in 1 .. m + 2
    BY <1>1
  <2>2. \A r \in 1 .. m : 2 + r \in 1 .. m + 2
    BY <1>1
  <2> QED
    BY <1>8, <1>9, <2>1, <2>2
<1>12. RowsetAt(all, 0, rows)
  <2>1. 0 + 1 = 1 /\ 0 + 2 = 2 /\ 0 + m + 3 = m + 3 /\ 0 + m + 4 = m + 4
    BY <1>1
  <2> QED
    BY <1>1, <1>3, <1>4, <1>9, <1>11, <2>1 DEF RowsetAt
<1>13. ASSUME NEW x \in 1 .. m + 4
       PROVE  all[x].kind \in {"header", "dashes", "blank", "row", "count"}
  <2>1. CASE x = 1 \/ x = 2 \/ x = m + 3 \/ x = m + 4
    BY <1>3, <1>9, <1>11, <2>1
  <2>2. CASE ~(x = 1 \/ x = 2 \/ x = m + 3 \/ x = m + 4)
    <3> DEFINE r == x - 2
    <3>1. r \in 1 .. m /\ x = 2 + r
      BY <1>1, <2>2
    <3>2. all[x] = middle[r]
      BY <1>11, <3>1
    <3> QED
      BY <1>4, <3>1, <3>2
  <2> QED
    BY <2>1, <2>2
<1> QED
  BY <1>1, <1>9, <1>10, <1>12, <1>13

\* What psql printed for a block stands behind p, up to q.
BlockAt(lines, p, q, block) ==
    /\ p < q
    /\ block.kind \in {"answered", "failed", "noticed", "silent"} =>
          lines[p + 1].kind = "select" /\ lines[p + 1].text = block.key
    /\ block.kind = "wrapped" =>
          /\ lines[p + 1].kind = "open" /\ lines[p + 1].text = block.key
          /\ lines[p + 2].kind = "close"
    /\ block.kind = "noted" => lines[p + 1].kind = "noted"
    /\ block.kind \in {"failed", "noticed"} =>
          p + 2 <= q /\ lines[p + 2].kind = "diagnostic"
    /\ block.kind = "answered" =>
          q = p + 1 + Len(block.rows) + 4 /\ RowsetAt(lines, p + 1, block.rows)
    /\ block.kind = "wrapped" =>
          q = p + 2 + Len(block.rows) + 4 /\ RowsetAt(lines, p + 2, block.rows)
    /\ \A x \in p + 1 .. q :
          StartsSelect(lines[x]) => x = p + 1 /\ block.kind \in SelectKinds

LEMMA PrintedIs ==
    ASSUME NEW block
    PROVE  /\ block.kind = "answered" =>
                 Printed(block) = <<TextLine("select", block.key)>> \o Rowset(block.rows)
           /\ block.kind = "wrapped" =>
                 Printed(block) =
                    <<TextLine("open", block.key), TextLine("close", block.key)>>
                        \o Rowset(block.rows)
           /\ block.kind = "noted" =>
                 Printed(block) = <<TextLine("noted", block.key)>> \o Rowset(block.rows)
           /\ block.kind = "failed" =>
                 Printed(block) = <<TextLine("select", block.key), Line("diagnostic")>>
           /\ block.kind = "noticed" =>
                 Printed(block) = <<TextLine("select", block.key), Line("diagnostic")>>
                                     \o Rowset(block.rows)
           /\ block.kind = "silent" => Printed(block) = <<TextLine("select", block.key)>>
           /\ block.kind \in {"other", "comment", "meta"} =>
                 Printed(block) = <<Line(block.kind)>>
<1> DEFINE k == block.kind
<1>1. CASE k = "answered"
  BY <1>1 DEF Printed
<1>2. CASE k = "wrapped"
  BY <1>2 DEF Printed
<1>3. CASE k = "noted"
  BY <1>3 DEF Printed
<1>4. CASE k = "failed"
  BY <1>4 DEF Printed
<1>5. CASE k = "noticed"
  BY <1>5 DEF Printed
<1>6. CASE k = "silent"
  BY <1>6 DEF Printed
<1>7. CASE k \in {"other", "comment", "meta"}
  BY <1>7 DEF Printed
<1> QED
  BY <1>1, <1>2, <1>3, <1>4, <1>5, <1>6, <1>7

\* The rows of a rowset that is printed behind other lines.
LEMMA RowsetBehind ==
    ASSUME NEW u \in Seq(OutLines), NEW rows \in Seq(Rows)
    PROVE  /\ u \o Rowset(rows) \in Seq(OutLines)
           /\ Len(u \o Rowset(rows)) = Len(u) + Len(rows) + 4
           /\ RowsetAt(u \o Rowset(rows), Len(u), rows)
           /\ \A x \in 1 .. Len(u) : (u \o Rowset(rows))[x] = u[x]
           /\ \A x \in Len(u) + 1 .. Len(u) + Len(rows) + 4 :
                 ~ StartsSelect((u \o Rowset(rows))[x])
<1> DEFINE v == Rowset(rows)
           w == u \o v
<1>1. PICK m \in Nat : Len(rows) = m
  OBVIOUS
<1>2. PICK d \in Nat : Len(u) = d
  OBVIOUS
<1>3. /\ v \in Seq(OutLines) /\ Len(v) = m + 4 /\ RowsetAt(v, 0, rows)
      /\ \A x \in 1 .. m + 4 :
            v[x].kind \in {"header", "dashes", "blank", "row", "count"}
  BY <1>1, RowsetIs
<1> HIDE DEF v
<1>4. w \in Seq(OutLines)
  BY <1>3
<1>5. /\ Len(w) = d + (m + 4)
      /\ \A x \in 1 .. m + 4 : w[d + x] = v[x]
      /\ \A y \in 1 .. d : w[y] = u[y]
  <2>1. /\ Len(u \o v) = Len(u) + Len(v)
        /\ \A x \in 1 .. Len(v) : (u \o v)[Len(u) + x] = v[x]
        /\ \A y \in 1 .. Len(u) : (u \o v)[y] = u[y]
    BY <1>3, Joined
  <2> QED
    BY <1>2, <1>3, <2>1
<1> HIDE DEF w
<1>6. RowsetAt(w, d, rows)
  <2>1. /\ 1 \in 1 .. m + 4 /\ 2 \in 1 .. m + 4 /\ m + 3 \in 1 .. m + 4
        /\ m + 4 \in 1 .. m + 4
        /\ 0 + 1 = 1 /\ 0 + 2 = 2 /\ 0 + m + 3 = m + 3 /\ 0 + m + 4 = m + 4
        /\ d + m + 3 = d + (m + 3) /\ d + m + 4 = d + (m + 4)
    BY <1>1, <1>2
  <2>2. \A r \in 1 .. m : 2 + r \in 1 .. m + 4 /\ 0 + 2 + r = 2 + r
                          /\ d + 2 + r = d + (2 + r)
    BY <1>1, <1>2
  <2>3. \A r \in 1 .. m : w[d + 2 + r] = v[0 + 2 + r]
    BY <1>5, <2>2
  <2>4. /\ w[d + 1] = v[0 + 1] /\ w[d + 2] = v[0 + 2]
        /\ w[d + m + 3] = v[0 + m + 3] /\ w[d + m + 4] = v[0 + m + 4]
    BY <1>5, <2>1
  <2> QED
    BY <1>1, <1>3, <2>3, <2>4 DEF RowsetAt
<1>7. \A x \in d + 1 .. d + m + 4 : ~ StartsSelect(w[x])
  <2> TAKE x \in d + 1 .. d + m + 4
  <2>1. x - d \in 1 .. m + 4 /\ d + (x - d) = x
    BY <1>1, <1>2
  <2>2. w[x] = v[x - d]
    BY <1>5, <2>1
  <2> QED
    BY <1>3, <2>1, <2>2 DEF StartsSelect
<1>8. Len(w) = d + m + 4
  BY <1>1, <1>2, <1>5
<1> QED
  BY <1>1, <1>2, <1>4, <1>5, <1>6, <1>7, <1>8 DEF w, v

LEMMA PrintedAt ==
    ASSUME NEW block \in Blocks
    PROVE  /\ Printed(block) \in Seq(OutLines)
           /\ BlockAt(Printed(block), 0, Len(Printed(block)), block)
<1> DEFINE w == Printed(block)
           key == block.key
           rows == block.rows
           select == TextLine("select", key)
           open == TextLine("open", key)
           close == TextLine("close", key)
           remark == TextLine("noted", key)
           message == Line("diagnostic")
<1>1. block.kind \in BlockKinds /\ key \in Key \cup Rows /\ rows \in Seq(Rows)
  BY DEF Blocks, Rows
<1>2. PICK m \in Nat : Len(rows) = m
  BY <1>1
<1>3. /\ {select, open, close, remark, message} \subseteq OutLines
      /\ select.kind = "select" /\ select.text = key
      /\ open.kind = "open" /\ open.text = key
      /\ close.kind = "close" /\ remark.kind = "noted"
      /\ message.kind = "diagnostic"
  BY <1>1, LineTyped DEF LineKinds
<1>4. /\ block.kind = "answered" => w = <<select>> \o Rowset(rows)
      /\ block.kind = "wrapped" => w = <<open, close>> \o Rowset(rows)
      /\ block.kind = "noted" => w = <<remark>> \o Rowset(rows)
      /\ block.kind = "failed" => w = <<select, message>>
      /\ block.kind = "noticed" => w = <<select, message>> \o Rowset(rows)
      /\ block.kind = "silent" => w = <<select>>
      /\ block.kind \in {"other", "comment", "meta"} => w = <<Line(block.kind)>>
  BY PrintedIs, Zenon
<1> SUFFICES w \in Seq(OutLines) /\ BlockAt(w, 0, Len(w), block)
  OBVIOUS
<1> HIDE DEF w, select, open, close, remark, message
<1>5. ASSUME NEW x \in OutLines, w = <<x>> \o Rowset(rows)
      PROVE  /\ w \in Seq(OutLines) /\ Len(w) = 1 + m + 4
             /\ RowsetAt(w, 1, rows) /\ w[1] = x
             /\ \A y \in 2 .. Len(w) : ~ StartsSelect(w[y])
  <2> DEFINE u == <<x>>
  <2>1. u \in Seq(OutLines) /\ Len(u) = 1 /\ u[1] = x /\ 1 \in 1 .. 1 /\ w = u \o Rowset(rows)
    BY <1>5
  <2> HIDE DEF u
  <2>2. /\ w \in Seq(OutLines) /\ Len(w) = Len(u) + Len(rows) + 4
        /\ RowsetAt(w, Len(u), rows)
        /\ \A y \in 1 .. Len(u) : w[y] = u[y]
        /\ \A y \in Len(u) + 1 .. Len(u) + Len(rows) + 4 : ~ StartsSelect(w[y])
    BY <1>1, <2>1, RowsetBehind
  <2> QED
    BY <1>2, <2>1, <2>2
<1>6. ASSUME NEW x \in OutLines, NEW z \in OutLines, w = <<x, z>> \o Rowset(rows)
      PROVE  /\ w \in Seq(OutLines) /\ Len(w) = 2 + m + 4
             /\ RowsetAt(w, 2, rows) /\ w[1] = x /\ w[2] = z
             /\ \A y \in 3 .. Len(w) : ~ StartsSelect(w[y])
  <2> DEFINE u == <<x, z>>
  <2>1. /\ u \in Seq(OutLines) /\ Len(u) = 2 /\ u[1] = x /\ u[2] = z
        /\ 1 \in 1 .. 2 /\ 2 \in 1 .. 2 /\ w = u \o Rowset(rows)
    BY <1>6
  <2> HIDE DEF u
  <2>2. /\ w \in Seq(OutLines) /\ Len(w) = Len(u) + Len(rows) + 4
        /\ RowsetAt(w, Len(u), rows)
        /\ \A y \in 1 .. Len(u) : w[y] = u[y]
        /\ \A y \in Len(u) + 1 .. Len(u) + Len(rows) + 4 : ~ StartsSelect(w[y])
    BY <1>1, <2>1, RowsetBehind
  <2> QED
    BY <1>2, <2>1, <2>2
<1>7. 0 + 1 = 1 /\ 0 + 2 = 2
  OBVIOUS
<1>8. CASE block.kind = "answered"
  <2>1. /\ w \in Seq(OutLines) /\ Len(w) = 1 + m + 4
        /\ RowsetAt(w, 1, rows) /\ w[1] = select
        /\ \A y \in 2 .. Len(w) : ~ StartsSelect(w[y])
    BY <1>3, <1>4, <1>5, <1>8
  <2>2. \A y \in 0 + 1 .. Len(w) : y = 1 \/ y \in 2 .. Len(w)
    BY <2>1
  <2>3. 0 < Len(w) /\ Len(w) = 0 + 1 + m + 4
    BY <1>2, <2>1
  <2> QED
    BY <1>2, <1>3, <1>7, <1>8, <2>1, <2>2, <2>3 DEF BlockAt, SelectKinds
<1>9. CASE block.kind = "wrapped"
  <2>1. /\ w \in Seq(OutLines) /\ Len(w) = 2 + m + 4
        /\ RowsetAt(w, 2, rows) /\ w[1] = open /\ w[2] = close
        /\ \A y \in 3 .. Len(w) : ~ StartsSelect(w[y])
    BY <1>3, <1>4, <1>6, <1>9
  <2>2. \A y \in 0 + 1 .. Len(w) : y = 1 \/ y = 2 \/ y \in 3 .. Len(w)
    BY <2>1
  <2>3. 0 < Len(w) /\ Len(w) = 0 + 2 + m + 4
    BY <1>2, <2>1
  <2>4. ~ StartsSelect(w[2])
    BY <1>3, <2>1 DEF StartsSelect
  <2> QED
    BY <1>2, <1>3, <1>7, <1>9, <2>1, <2>2, <2>3, <2>4 DEF BlockAt, SelectKinds
<1>10. CASE block.kind = "noted"
  <2>1. /\ w \in Seq(OutLines) /\ Len(w) = 1 + m + 4
        /\ w[1] = remark
        /\ \A y \in 2 .. Len(w) : ~ StartsSelect(w[y])
    BY <1>3, <1>4, <1>5, <1>10
  <2>2. \A y \in 0 + 1 .. Len(w) : y = 1 \/ y \in 2 .. Len(w)
    BY <2>1
  <2>3. 0 < Len(w)
    BY <1>2, <2>1
  <2> QED
    BY <1>3, <1>7, <1>10, <2>1, <2>2, <2>3 DEF BlockAt, SelectKinds
<1>11. CASE block.kind = "noticed"
  <2>1. /\ w \in Seq(OutLines) /\ Len(w) = 2 + m + 4
        /\ w[1] = select /\ w[2] = message
        /\ \A y \in 3 .. Len(w) : ~ StartsSelect(w[y])
    BY <1>3, <1>4, <1>6, <1>11
  <2>2. \A y \in 0 + 1 .. Len(w) : y = 1 \/ y = 2 \/ y \in 3 .. Len(w)
    BY <2>1
  <2>3. 0 < Len(w) /\ 0 + 2 <= Len(w)
    BY <1>2, <2>1
  <2>4. ~ StartsSelect(w[2])
    BY <1>3, <2>1 DEF StartsSelect
  <2> QED
    BY <1>3, <1>7, <1>11, <2>1, <2>2, <2>3, <2>4 DEF BlockAt, SelectKinds
<1>12. CASE block.kind = "failed"
  <2>1. w = <<select, message>> /\ select \in OutLines /\ message \in OutLines
    BY <1>3, <1>4, <1>12
  <2>2. w \in Seq(OutLines) /\ Len(w) = 2 /\ w[1] = select /\ w[2] = message
    BY <2>1
  <2>3. \A y \in 0 + 1 .. Len(w) : y = 1 \/ y = 2
    BY <2>2
  <2>4. 0 < Len(w) /\ 0 + 2 <= Len(w)
    BY <2>2
  <2>5. ~ StartsSelect(w[2])
    BY <1>3, <2>2 DEF StartsSelect
  <2> QED
    BY <1>3, <1>7, <1>12, <2>2, <2>3, <2>4, <2>5 DEF BlockAt, SelectKinds
<1>13. CASE block.kind = "silent"
  <2>1. w = <<select>> /\ select \in OutLines
    BY <1>3, <1>4, <1>13
  <2>2. w \in Seq(OutLines) /\ Len(w) = 1 /\ w[1] = select
    BY <2>1
  <2>3. \A y \in 0 + 1 .. Len(w) : y = 1
    BY <2>2
  <2>4. 0 < Len(w)
    BY <2>2
  <2> QED
    BY <1>3, <1>7, <1>13, <2>2, <2>3, <2>4 DEF BlockAt, SelectKinds
<1>14. CASE block.kind \in {"other", "comment", "meta"}
  <2> DEFINE x == Line(block.kind)
  <2>1. x \in OutLines /\ x.kind = block.kind /\ w = <<x>>
    BY <1>4, <1>14, LineTyped DEF LineKinds
  <2> HIDE DEF x
  <2>2. w \in Seq(OutLines) /\ Len(w) = 1 /\ w[1] = x
    BY <2>1
  <2>3. \A y \in 0 + 1 .. Len(w) : y = 1
    BY <2>2
  <2>4. 0 < Len(w)
    BY <2>2
  <2>5. ~ StartsSelect(w[1])
    BY <1>14, <2>1, <2>2 DEF StartsSelect
  <2> QED
    BY <1>14, <2>2, <2>3, <2>4, <2>5 DEF BlockAt
<1> QED
  BY <1>1, <1>8, <1>9, <1>10, <1>11, <1>12, <1>13, <1>14 DEF BlockKinds

LEMMA BlockMoved ==
    ASSUME NEW block \in Blocks, NEW w \in Seq(OutLines),
           BlockAt(w, 0, Len(w), block), NEW p \in Nat, NEW lines,
           \A x \in 1 .. Len(w) : lines[p + x] = w[x]
    PROVE  BlockAt(lines, p, p + Len(w), block)
<1> DEFINE q == p + Len(w)
           rows == block.rows
<1>1. PICK n \in Nat : Len(w) = n
  OBVIOUS
<1>2. PICK m \in Nat : Len(rows) = m
  BY DEF Blocks
<1>3. \A x \in 1 .. n : lines[p + x] = w[x]
  BY <1>1
<1>4. /\ 0 < n
      /\ block.kind \in {"answered", "failed", "noticed", "silent"} =>
            w[0 + 1].kind = "select" /\ w[0 + 1].text = block.key
      /\ block.kind = "wrapped" =>
            /\ w[0 + 1].kind = "open" /\ w[0 + 1].text = block.key
            /\ w[0 + 2].kind = "close"
      /\ block.kind = "noted" => w[0 + 1].kind = "noted"
      /\ block.kind \in {"failed", "noticed"} =>
            0 + 2 <= n /\ w[0 + 2].kind = "diagnostic"
      /\ block.kind = "answered" =>
            n = 0 + 1 + m + 4 /\ RowsetAt(w, 0 + 1, rows)
      /\ block.kind = "wrapped" =>
            n = 0 + 2 + m + 4 /\ RowsetAt(w, 0 + 2, rows)
      /\ \A x \in 0 + 1 .. n :
            StartsSelect(w[x]) => x = 0 + 1 /\ block.kind \in SelectKinds
  BY <1>1, <1>2 DEF BlockAt
<1>5. 0 + 1 = 1 /\ 0 + 2 = 2 /\ 1 \in 1 .. n
  BY <1>4
<1>6. lines[p + 1] = w[1]
  BY <1>3, <1>5
<1>7. 2 <= n => lines[p + 2] = w[2]
  BY <1>3
<1>8. ASSUME NEW h \in Nat, n = h + m + 4, RowsetAt(w, h, rows)
      PROVE  RowsetAt(lines, p + h, rows)
  <2>1. /\ h + 1 \in 1 .. n /\ h + 2 \in 1 .. n /\ h + m + 3 \in 1 .. n
        /\ h + m + 4 \in 1 .. n /\ p + h + 1 = p + (h + 1)
        /\ p + h + 2 = p + (h + 2) /\ p + h + m + 3 = p + (h + m + 3)
        /\ p + h + m + 4 = p + (h + m + 4)
    BY <1>2, <1>8
  <2>2. \A r \in 1 .. m : h + 2 + r \in 1 .. n /\ p + h + 2 + r = p + (h + 2 + r)
    BY <1>2, <1>8
  <2>3. \A r \in 1 .. m : lines[p + h + 2 + r] = w[h + 2 + r]
    BY <1>3, <2>2
  <2>4. /\ lines[p + h + 1] = w[h + 1] /\ lines[p + h + 2] = w[h + 2]
        /\ lines[p + h + m + 3] = w[h + m + 3]
        /\ lines[p + h + m + 4] = w[h + m + 4]
    BY <1>3, <2>1
  <2> QED
    BY <1>2, <1>8, <2>3, <2>4 DEF RowsetAt
<1>9. p < q /\ q = p + n /\ (2 <= n => p + 2 <= q)
  BY <1>1, <1>4
<1>10. block.kind = "answered" =>
          q = p + 1 + m + 4 /\ RowsetAt(lines, p + 1, rows)
  BY <1>2, <1>4, <1>5, <1>8, <1>9
<1>11. block.kind = "wrapped" =>
          2 <= n /\ q = p + 2 + m + 4 /\ RowsetAt(lines, p + 2, rows)
  BY <1>2, <1>4, <1>5, <1>8, <1>9
<1>12. ASSUME NEW y \in p + 1 .. q, StartsSelect(lines[y])
       PROVE  y = p + 1 /\ block.kind \in SelectKinds
  <2>1. y - p \in 1 .. n /\ p + (y - p) = y
    BY <1>9
  <2>2. lines[y] = w[y - p]
    BY <1>3, <2>1
  <2>3. y - p = 1 /\ block.kind \in SelectKinds
    BY <1>4, <1>5, <1>12, <2>1, <2>2
  <2> QED
    BY <2>1, <2>3
<1> HIDE DEF q
<1>13. BlockAt(lines, p, q, block)
  BY <1>2, <1>4, <1>5, <1>6, <1>7, <1>9, <1>10, <1>11, <1>12 DEF BlockAt
<1> QED
  BY <1>13 DEF q

\* The file: block b stands behind e[b - 1], up to e[b].
Laid(e, blocks, lines) ==
    /\ lines \in Seq(OutLines) /\ e \in [0 .. Len(blocks) -> Nat]
    /\ \A b \in 1 .. Len(blocks) :
          e[b] <= Len(lines) /\ BlockAt(lines, e[b - 1], e[b], blocks[b])
    /\ \A y \in 1 .. Len(lines) :
          \E b \in 1 .. Len(blocks) : y \in e[b - 1] + 1 .. e[b]

LEMMA OutFileIs ==
    ASSUME NEW blocks \in Seq(Blocks)
    PROVE  \E e : Laid(e, blocks, OutFile(blocks))
<1> DEFINE C == Seq(OutLines)
           seqs == [b \in DOMAIN blocks |-> Printed(blocks[b])]
           lines == FlattenSeq(seqs)
<1>1. PICK n \in Nat : Len(blocks) = n /\ DOMAIN blocks = 1 .. n
  OBVIOUS
<1>2. \A b \in 1 .. n :
         /\ blocks[b] \in Blocks /\ seqs[b] = Printed(blocks[b])
         /\ seqs[b] \in C /\ BlockAt(seqs[b], 0, Len(seqs[b]), blocks[b])
  BY <1>1, PrintedAt
<1>3. seqs \in Seq(C) /\ Len(seqs) = n
  <2>1. seqs = [b \in 1 .. n |-> seqs[b]]
    BY <1>1
  <2> HIDE DEF seqs, C
  <2> QED
    BY <1>2, <2>1
<1>4. OutFile(blocks) = lines
  BY DEF OutFile
<1> HIDE DEF seqs
<1>5. lines \in Seq(OutLines) /\ \E e : Parts(e, seqs, lines)
  BY <1>3, FlattenParts
<1> HIDE DEF lines
<1>6. PICK e : Parts(e, seqs, lines)
  BY <1>5
<1>7. /\ e \in [0 .. n -> Nat]
      /\ \A k \in 1 .. n :
            /\ e[k] = e[k - 1] + Len(seqs[k]) /\ e[k] <= Len(lines)
            /\ \A x \in 1 .. Len(seqs[k]) : lines[e[k - 1] + x] = seqs[k][x]
      /\ \A y \in 1 .. Len(lines) : \E k \in 1 .. n :
            \E x \in 1 .. Len(seqs[k]) : y = e[k - 1] + x
  BY <1>3, <1>6, Zenon DEF Parts
<1>8. ASSUME NEW b \in 1 .. n
      PROVE  e[b] <= Len(lines) /\ BlockAt(lines, e[b - 1], e[b], blocks[b])
  <2> DEFINE p == e[b - 1]
             w == seqs[b]
             block == blocks[b]
  <2>1. b - 1 \in 0 .. n
    OBVIOUS
  <2>2. /\ p \in Nat /\ w \in Seq(OutLines) /\ block \in Blocks
        /\ BlockAt(w, 0, Len(w), block)
        /\ \A x \in 1 .. Len(w) : lines[p + x] = w[x]
        /\ e[b] = p + Len(w)
    BY <1>2, <1>7, <2>1
  <2> HIDE DEF p, w, block
  <2>3. BlockAt(lines, p, p + Len(w), block)
    BY <2>2, BlockMoved
  <2> QED
    BY <1>7, <2>2, <2>3 DEF p, block
<1>9. ASSUME NEW y \in 1 .. Len(lines)
      PROVE  \E b \in 1 .. n : y \in e[b - 1] + 1 .. e[b]
  <2>1. PICK k \in 1 .. n : \E x \in 1 .. Len(seqs[k]) : y = e[k - 1] + x
    BY <1>7
  <2>2. PICK x \in 1 .. Len(seqs[k]) : y = e[k - 1] + x
    BY <2>1
  <2>3. k - 1 \in 0 .. n /\ k \in 0 .. n
    BY <2>1
  <2>4. e[k - 1] \in Nat /\ Len(seqs[k]) \in Nat /\ e[k] = e[k - 1] + Len(seqs[k])
    <3>1. seqs[k] \in Seq(OutLines)
      BY <1>2, <2>1
    <3>2. Len(seqs[k]) \in Nat
      BY <3>1
    <3> QED
      BY <1>7, <2>1, <2>3, <3>2
  <2>5. y \in e[k - 1] + 1 .. e[k]
    BY <2>2, <2>4
  <2> QED
    BY <2>1, <2>5
<1>10. Laid(e, blocks, lines)
  BY <1>1, <1>5, <1>7, <1>8, <1>9 DEF Laid
<1> QED
  BY <1>4, <1>10

-----------------------------------------------------------------------------
(* What the scan makes of the lines.                                       *)

LEMMA FirstIs ==
    ASSUME NEW lines, NEW S \in SUBSET Nat, NEW f \in S, \A i \in S : f <= i
    PROVE  FirstOf(lines, S) = f
<1>1. S # {} /\ f \in Nat
  OBVIOUS
<1>2. Min(S) \in S /\ \A i \in S : Min(S) <= i
  BY <1>1, LeastOf
<1> DEFINE g == Min(S)
<1>3. g \in S /\ g \in Nat /\ \A i \in S : g <= i
  BY <1>2
<1> HIDE DEF g
<1>4. g = f
  BY <1>1, <1>3
<1> QED
  BY <1>1, <1>4 DEF FirstOf, g

\* An echo on one line or on two ends where it should.
LEMMA EchoEndIs ==
    ASSUME NEW lines \in Seq(OutLines), NEW i \in 1 .. Len(lines)
    PROVE  /\ EchoEnd(lines, i) \in i .. Len(lines) + 1
           /\ lines[i].kind = "select" => EchoEnd(lines, i) = i
           /\ lines[i].kind = "open" /\ i + 1 <= Len(lines)
                 /\ lines[i + 1].kind = "close" => EchoEnd(lines, i) = i + 1
<1> DEFINE S == {j \in i .. Len(lines) : EndsStatement(lines[j])}
<1>1. PICK n \in Nat : Len(lines) = n
  OBVIOUS
<1>2. S \in SUBSET Nat /\ S \subseteq i .. n /\ i \in 1 .. n
  BY <1>1
<1>3. EchoEnd(lines, i) = FirstOf(lines, S)
  BY DEF EchoEnd
<1>4. EchoEnd(lines, i) \in i .. n + 1
  <2>1. CASE S = {}
    BY <1>1, <1>2, <1>3, <2>1 DEF FirstOf
  <2>2. CASE S # {}
    <3> HIDE DEF S
    <3> DEFINE f == Min(S)
    <3>1. f \in S
      BY <1>2, <2>2, LeastOf
    <3>2. EchoEnd(lines, i) = f
      BY <1>3, <2>2 DEF FirstOf
    <3> HIDE DEF f
    <3> QED
      BY <1>2, <3>1, <3>2
  <2> QED
    BY <2>1, <2>2
<1>5. CASE lines[i].kind = "select"
  <2>1. i \in S
    BY <1>5 DEF EndsStatement
  <2>2. \A j \in S : i <= j
    BY <1>2
  <2> HIDE DEF S
  <2> QED
    BY <1>1, <1>2, <1>3, <1>4, <1>5, <2>1, <2>2, FirstIs
<1>6. CASE lines[i].kind = "open" /\ i + 1 <= n /\ lines[i + 1].kind = "close"
  <2>1. i + 1 \in S
    BY <1>1, <1>2, <1>6 DEF EndsStatement
  <2>2. i \notin S
    BY <1>6 DEF EndsStatement
  <2>3. \A j \in S : i + 1 <= j
    <3> HIDE DEF S
    <3> QED
      BY <1>2, <2>2
  <2> HIDE DEF S
  <2>4. FirstOf(lines, S) = i + 1
    BY <1>2, <2>1, <2>3, FirstIs
  <2> QED
    BY <1>1, <1>3, <1>4, <1>6, <2>4
<1> QED
  BY <1>1, <1>4, <1>5, <1>6

EchoOf(lines, i) == SubSeq(lines, i, Min({EchoEnd(lines, i), Len(lines)}))

KindsOf(echo) == [n \in DOMAIN echo |-> echo[n].kind]

LEMMA EchoKeyIsOf ==
    ASSUME NEW lines, NEW i
    PROVE  EchoKey(lines, i) =
              IF KindsOf(EchoOf(lines, i)) \in {<<"select">>, <<"open", "close">>}
              THEN EchoOf(lines, i)[1].text ELSE NoRow
BY Zenon DEF EchoKey, EchoOf, KindsOf

LEMMA EchoKeyIs ==
    ASSUME NEW lines \in Seq(OutLines), NEW i \in 1 .. Len(lines)
    PROVE  /\ EchoKey(lines, i) # NoRow =>
                 /\ EchoKey(lines, i) = lines[i].text
                 /\ lines[i].kind \in {"select", "open"}
           /\ lines[i].kind = "select" => EchoKey(lines, i) = lines[i].text
           /\ lines[i].kind = "open" /\ i + 1 <= Len(lines)
                 /\ lines[i + 1].kind = "close" => EchoKey(lines, i) = lines[i].text
<1> DEFINE end == EchoEnd(lines, i)
           echo == EchoOf(lines, i)
           kinds == KindsOf(echo)
<1>1. PICK n \in Nat : Len(lines) = n
  OBVIOUS
<1>2. /\ end \in i .. n + 1 /\ i \in 1 .. n
      /\ lines[i].kind = "select" => end = i
      /\ lines[i].kind = "open" /\ i + 1 <= n
            /\ lines[i + 1].kind = "close" => end = i + 1
  BY <1>1, EchoEndIs
<1> HIDE DEF end
<1> DEFINE last == Min({end, n})
<1>3. last = IF end <= n THEN end ELSE n
  BY <1>2, LesserOf
<1>4. echo = SubSeq(lines, i, last)
  BY <1>1, Zenon DEF EchoOf, end
<1> HIDE DEF last, echo
<1>5. last \in i .. n /\ (end <= n => last = end)
  BY <1>2, <1>3
<1>6. /\ DOMAIN echo = 1 .. last - i + 1
      /\ \A x \in 1 .. last - i + 1 : echo[x] = lines[i + x - 1]
  BY <1>1, <1>2, <1>4, <1>5
<1>7. kinds = [x \in 1 .. last - i + 1 |-> lines[i + x - 1].kind]
  BY <1>6 DEF KindsOf
<1>8. EchoKey(lines, i) =
         IF kinds \in {<<"select">>, <<"open", "close">>} THEN echo[1].text ELSE NoRow
  BY EchoKeyIsOf, Zenon DEF echo
<1> HIDE DEF kinds
<1>9. 1 \in 1 .. last - i + 1 /\ i + 1 - 1 = i
  BY <1>2, <1>5
<1>10. echo[1] = lines[i] /\ kinds[1] = lines[i].kind
  BY <1>6, <1>7, <1>9
<1>11. ASSUME EchoKey(lines, i) # NoRow
       PROVE  EchoKey(lines, i) = lines[i].text /\ lines[i].kind \in {"select", "open"}
  <2>1. kinds \in {<<"select">>, <<"open", "close">>}
    BY <1>8, <1>11
  <2>2. kinds[1] \in {"select", "open"}
    BY <2>1
  <2> QED
    BY <1>8, <1>10, <2>1, <2>2
<1>12. ASSUME lines[i].kind = "select" PROVE EchoKey(lines, i) = lines[i].text
  <2>1. last = i
    BY <1>2, <1>5, <1>12
  <2>2. last - i + 1 = 1 /\ 1 .. 1 = {1}
    BY <1>2, <2>1
  <2>3. kinds = [x \in {1} |-> "select"]
    <3>1. \A x \in {1} : lines[i + x - 1].kind = "select"
      BY <1>9, <1>12
    <3> QED
      BY <1>7, <2>2, <3>1
  <2>4. <<"select">> = [x \in {1} |-> "select"]
    OBVIOUS
  <2> QED
    BY <1>8, <1>10, <2>3, <2>4
<1>13. ASSUME lines[i].kind = "open", i + 1 <= n, lines[i + 1].kind = "close"
       PROVE  EchoKey(lines, i) = lines[i].text
  <2>1. last = i + 1
    BY <1>2, <1>5, <1>13
  <2>2. last - i + 1 = 2
    BY <1>2, <2>1
  <2>3. i + 2 - 1 = i + 1
    BY <1>2
  <2>4. kinds = [x \in 1 .. 2 |-> IF x = 1 THEN "open" ELSE "close"]
    <3>1. \A x \in 1 .. 2 :
             lines[i + x - 1].kind = IF x = 1 THEN "open" ELSE "close"
      BY <1>9, <1>13, <2>3
    <3> QED
      BY <1>7, <2>2, <3>1
  <2>5. <<"open", "close">> = [x \in 1 .. 2 |-> IF x = 1 THEN "open" ELSE "close"]
    OBVIOUS
  <2> QED
    BY <1>8, <1>10, <2>4, <2>5
<1> QED
  BY <1>1, <1>11, <1>12, <1>13

TopOf(lines, end) ==
    FirstOf(lines, {k \in (end + 1)..Len(lines) : lines[k].kind # "blank"})

BodyOf(lines, top) ==
    IF top < Len(lines) /\ lines[top + 1].kind \in {"dashes", "blank"}
    THEN top + 2 ELSE top + 1

StopOf(lines, body) ==
    FirstOf(lines, {k \in body..Len(lines) :
                       \/ lines[k].kind \in {"count", "diagnostic", "meta"}
                       \/ StartsSelect(lines[k])})

DataOf(lines, body, stop) == {k \in body..(stop - 1) : lines[k].kind # "blank"}

Taken(lines, top, stop, data) ==
    IF \/ top > Len(lines) \/ StartsSelect(lines[top])
       \/ lines[top].kind \in {"diagnostic", "comment", "meta"}
       \/ stop <= Len(lines) /\ lines[stop].kind # "count"
       \/ Cardinality(data) # 1
    THEN NoRow ELSE lines[Min(data)].text

LEMMA BoundRowIs ==
    ASSUME NEW lines, NEW end, NEW top, top = TopOf(lines, end),
           NEW body, body = BodyOf(lines, top),
           NEW stop, stop = StopOf(lines, body)
    PROVE  BoundRow(lines, end) = Taken(lines, top, stop, DataOf(lines, body, stop))
BY Zenon DEF BoundRow, TopOf, BodyOf, StopOf, DataOf, Taken

\* Nothing is bound to an echo that a diagnostic follows.
LEMMA NothingBound ==
    ASSUME NEW lines \in Seq(OutLines), NEW end \in Nat, end + 1 <= Len(lines),
           lines[end + 1].kind = "diagnostic"
    PROVE  BoundRow(lines, end) = NoRow
<1> DEFINE S == {k \in (end + 1)..Len(lines) : lines[k].kind # "blank"}
           top == end + 1
           body == BodyOf(lines, top)
           stop == StopOf(lines, body)
           data == DataOf(lines, body, stop)
<1>1. S \in SUBSET Nat /\ top \in S /\ \A k \in S : top <= k
  OBVIOUS
<1>2. TopOf(lines, end) = FirstOf(lines, S)
  BY DEF TopOf
<1>3. lines[top].kind = "diagnostic"
  OBVIOUS
<1> HIDE DEF S, top, body, stop
<1>4. top = TopOf(lines, end)
  BY <1>1, <1>2, FirstIs
<1>5. BoundRow(lines, end) = Taken(lines, top, stop, data)
  BY <1>4, BoundRowIs DEF body, stop
<1> HIDE DEF data
<1> QED
  BY <1>3, <1>5 DEF Taken

\* The rows that are not blank.
Inky(rows) == {r \in DOMAIN rows : rows[r] # NoRow}

\* What is bound to an echo that a rowset follows is its only row.
LEMMA OnlyRowBound ==
    ASSUME NEW lines \in Seq(OutLines), NEW end \in Nat, NEW rows \in Seq(Rows),
           end + Len(rows) + 4 <= Len(lines), RowsetAt(lines, end, rows)
    PROVE  /\ BoundRow(lines, end) # NoRow =>
                 \E r \in DOMAIN rows :
                    Inky(rows) = {r} /\ BoundRow(lines, end) = rows[r]
           /\ \A r \in DOMAIN rows :
                 Inky(rows) = {r} => BoundRow(lines, end) = rows[r]
<1>1. PICK n \in Nat : Len(lines) = n
  OBVIOUS
<1>2. PICK m \in Nat : Len(rows) = m /\ DOMAIN rows = 1 .. m
  OBVIOUS
<1>3. /\ lines[end + 1].kind = "header" /\ lines[end + 2].kind = "dashes"
      /\ \A r \in 1 .. m :
            /\ rows[r] = NoRow => lines[end + 2 + r].kind = "blank"
            /\ rows[r] # NoRow => /\ lines[end + 2 + r].kind = "row"
                                  /\ lines[end + 2 + r].text = rows[r]
      /\ lines[end + m + 3].kind = "count"
  BY <1>2 DEF RowsetAt
<1>4. end + m + 4 <= n
  BY <1>1, <1>2
<1> DEFINE top == end + 1
           body == end + 3
           stop == end + m + 3
           S == {k \in (end + 1)..Len(lines) : lines[k].kind # "blank"}
           T == {k \in body..Len(lines) :
                       \/ lines[k].kind \in {"count", "diagnostic", "meta"}
                       \/ StartsSelect(lines[k])}
           data == DataOf(lines, body, stop)
           inky == Inky(rows)
<1>5. top = TopOf(lines, end)
  <2>1. S \in SUBSET Nat /\ top \in S /\ \A k \in S : top <= k
    BY <1>1, <1>3, <1>4
  <2>2. TopOf(lines, end) = FirstOf(lines, S)
    BY DEF TopOf
  <2> HIDE DEF S, top
  <2> QED
    BY <2>1, <2>2, FirstIs
<1>6. body = BodyOf(lines, top)
  <2>1. top < Len(lines) /\ top + 1 = end + 2 /\ top + 2 = body
    BY <1>1, <1>4
  <2> QED
    BY <1>3, <2>1 DEF BodyOf
<1>7. \A k \in body .. stop - 1 :
         /\ k - end - 2 \in 1 .. m /\ end + 2 + (k - end - 2) = k
         /\ rows[k - end - 2] = NoRow => lines[k].kind = "blank"
         /\ rows[k - end - 2] # NoRow =>
               lines[k].kind = "row" /\ lines[k].text = rows[k - end - 2]
  <2> TAKE k \in body .. stop - 1
  <2> DEFINE r == k - end - 2
  <2>1. r \in 1 .. m /\ end + 2 + r = k
    BY <1>2
  <2> HIDE DEF r
  <2>2. /\ r \in 1 .. m /\ end + 2 + r = k
        /\ rows[r] = NoRow => lines[k].kind = "blank"
        /\ rows[r] # NoRow => lines[k].kind = "row" /\ lines[k].text = rows[r]
    BY <1>3, <2>1
  <2> QED
    BY <2>2 DEF r
<1>8. stop = StopOf(lines, body)
  <2>1. stop \in T
    BY <1>1, <1>2, <1>3, <1>4
  <2>2. \A k \in T : stop <= k
    <3> SUFFICES ASSUME NEW k \in T, ~ (stop <= k) PROVE FALSE
      OBVIOUS
    <3>1. k \in body .. stop - 1
      BY <1>2
    <3>2. lines[k].kind \in {"blank", "row"}
      BY <1>7, <3>1
    <3> QED
      BY <3>2 DEF StartsSelect
  <2>3. T \in SUBSET Nat
    OBVIOUS
  <2>4. StopOf(lines, body) = FirstOf(lines, T)
    BY DEF StopOf
  <2> HIDE DEF T, stop
  <2> QED
    BY <2>1, <2>2, <2>3, <2>4, FirstIs
<1>9. /\ data = {end + 2 + r : r \in inky} /\ inky \in SUBSET (1 .. m)
      /\ \A r \in inky : lines[end + 2 + r].text = rows[r]
  <2>1. inky = {r \in 1 .. m : rows[r] # NoRow}
    BY <1>2 DEF Inky
  <2>2. data = {k \in body .. stop - 1 : lines[k].kind # "blank"}
    BY DEF DataOf
  <2> HIDE DEF inky, data
  <2>3. \A r \in inky : end + 2 + r \in data
    <3> TAKE r \in inky
    <3>1. r \in 1 .. m /\ rows[r] # NoRow
      BY <2>1
    <3>2. lines[end + 2 + r].kind = "row"
      BY <1>3, <3>1
    <3>3. end + 2 + r \in body .. stop - 1
      BY <1>2, <3>1
    <3> QED
      BY <2>2, <3>2, <3>3
  <2>4. \A k \in data : \E r \in inky : k = end + 2 + r
    <3> TAKE k \in data
    <3>1. k \in body .. stop - 1 /\ lines[k].kind # "blank"
      BY <2>2
    <3>2. k - end - 2 \in inky /\ k = end + 2 + (k - end - 2)
      BY <1>7, <2>1, <3>1
    <3> QED
      BY <3>2
  <2> QED
    BY <1>3, <2>1, <2>3, <2>4
<1> HIDE DEF data, inky
<1>10. BoundRow(lines, end) = Taken(lines, top, stop, data)
  BY <1>5, <1>6, <1>8, BoundRowIs DEF data
<1>11. Taken(lines, top, stop, data) =
          IF Cardinality(data) # 1 THEN NoRow ELSE lines[Min(data)].text
  <2>1. ~ (top > Len(lines)) /\ lines[top].kind = "header"
    BY <1>1, <1>3, <1>4
  <2>2. lines[stop].kind = "count"
    BY <1>3
  <2> HIDE DEF top, stop
  <2> QED
    BY <2>1, <2>2 DEF Taken, StartsSelect
<1> HIDE DEF top, body, stop
<1>12. ASSUME NEW r \in 1 .. m, inky = {r}
       PROVE  BoundRow(lines, end) = rows[r]
  <2> DEFINE d == end + 2 + r
  <2>1. data = {d} /\ d \in Nat /\ lines[d].text = rows[r]
    BY <1>9, <1>12
  <2> HIDE DEF d
  <2>2. Cardinality(data) = 1
    BY <2>1, FS_Singleton
  <2>3. Min(data) = d
    <3>1. data \subseteq Nat /\ data # {}
      BY <2>1
    <3>2. Min(data) \in data
      BY <3>1, LeastOf
    <3> QED
      BY <2>1, <3>2
  <2> QED
    BY <1>10, <1>11, <2>1, <2>2, <2>3
<1>13. ASSUME BoundRow(lines, end) # NoRow
       PROVE  \E r \in 1 .. m : inky = {r} /\ BoundRow(lines, end) = rows[r]
  <2>1. Cardinality(data) = 1
    BY <1>10, <1>11, <1>13
  <2>2. PICK k : data = {k}
    <3>1. IsFiniteSet(data)
      <4> DEFINE z == end + 2 + m
      <4>1. data \subseteq 0 .. z /\ z \in Int
        BY <1>2, <1>9
      <4> HIDE DEF z
      <4>2. IsFiniteSet(0 .. z)
        BY <4>1, FS_Interval
      <4> QED
        BY <4>1, <4>2, FS_Subset
    <3> QED
      BY <2>1, <3>1, FS_Singleton
  <2>3. PICK r \in inky : k = end + 2 + r
    BY <1>9, <2>2
  <2>4. \A q \in inky : q = r
    <3> TAKE q \in inky
    <3>1. q \in Int /\ r \in Int
      BY <1>9
    <3>2. end + 2 + q = k
      BY <1>9, <2>2
    <3> QED
      BY <2>3, <3>1, <3>2
  <2>5. r \in 1 .. m /\ inky = {r}
    BY <1>9, <2>3, <2>4
  <2>6. BoundRow(lines, end) = rows[r]
    BY <1>12, <2>5
  <2>7. inky = {r} /\ BoundRow(lines, end) = rows[r]
    BY <2>5, <2>6
  <2> QED
    BY <2>5, <2>7
<1> QED
  BY <1>2, <1>12, <1>13 DEF inky

\* The scan at the k-th line, which saw the echoes of `seen` before.
SeenAfter(lines, k, seen) ==
    IF StartsSelect(lines[k]) /\ \A i \in seen : EchoEnd(lines, i) < k
    THEN seen \cup {k} ELSE seen

\* The equation that the local function of EchoStarts is chosen to solve.
SeenEquation(g, lines) ==
    g = [k \in 0 .. Len(lines) |->
            IF k = 0 THEN {}
            ELSE IF /\ StartsSelect(lines[k])
                    /\ \A i \in g[k - 1] : EchoEnd(lines, i) < k
                 THEN g[k - 1] \cup {k} ELSE g[k - 1]]

SeenAtEnd(lines) == (CHOOSE g : SeenEquation(g, lines))[Len(lines)]

LEMMA EchoStartsIs ==
    ASSUME NEW lines
    PROVE  EchoStarts(lines) = SeenAtEnd(lines)
BY Zenon DEF EchoStarts, SeenAtEnd, SeenEquation

\* Every echo that starts before line i ends before it.
Reached(lines, i) ==
    \A j \in 1 .. i - 1 : StartsSelect(lines[j]) => EchoEnd(lines, j) < i

\* The scan finds only lines that start a SELECT, and all it gets to.
LEMMA EchoesSeen ==
    ASSUME NEW lines, Len(lines) \in Nat
    PROVE  /\ \A i \in EchoStarts(lines) :
                 i \in 1 .. Len(lines) /\ StartsSelect(lines[i])
           /\ \A i \in 1 .. Len(lines) :
                 StartsSelect(lines[i]) /\ Reached(lines, i) => i \in EchoStarts(lines)
<1>1. PICK n \in Nat : Len(lines) = n
  OBVIOUS
<1> DEFINE T == SUBSET (1 .. n)
           none == {}
           step == [k \in 1 .. n |-> [x \in T |-> SeenAfter(lines, k, x)]]
<1>2. \A k \in 1 .. n : \A x \in T : SeenAfter(lines, k, x) \in T
  BY DEF SeenAfter
<1>3. none \in T
  OBVIOUS
<1>4. \A k \in 1 .. n : \A x \in T : step[k][x] = SeenAfter(lines, k, x)
  OBVIOUS
<1> HIDE DEF T
<1>5. Steps(step, 1 .. n, T)
  BY <1>2 DEF Steps
<1> HIDE DEF step, none
<1>6. PICK run : /\ run \in [0 .. n -> T] /\ run[0] = none
                 /\ \A k \in 1 .. n : run[k] = step[k][run[k - 1]]
  <2>1. PICK run : Runs(run, n, T, none, step)
    BY <1>3, <1>5, RunExists
  <2> QED
    BY <2>1 DEF Runs
<1>7. \A k \in 1 .. n : run[k] = SeenAfter(lines, k, run[k - 1])
  <2>1. \A k \in 1 .. n : k - 1 \in 0 .. n
    OBVIOUS
  <2> QED
    BY <1>4, <1>6, <2>1
<1>8. SeenEquation(run, lines)
  <2>1. ASSUME NEW k \in 0 .. n
        PROVE  run[k] = IF k = 0 THEN {}
                        ELSE IF /\ StartsSelect(lines[k])
                                /\ \A i \in run[k - 1] : EchoEnd(lines, i) < k
                             THEN run[k - 1] \cup {k} ELSE run[k - 1]
    <3>1. k # 0 => k \in 1 .. n
      OBVIOUS
    <3>2. CASE k = 0
      BY <1>6, <3>2 DEF none
    <3>3. CASE k # 0
      BY <1>7, <3>1, <3>3, Zenon DEF SeenAfter
    <3> QED
      BY <3>2, <3>3
  <2>2. run = [k \in 0 .. n |-> run[k]]
    BY <1>6
  <2>3. run = [k \in 0 .. n |->
                  IF k = 0 THEN {}
                  ELSE IF /\ StartsSelect(lines[k])
                          /\ \A i \in run[k - 1] : EchoEnd(lines, i) < k
                       THEN run[k - 1] \cup {k} ELSE run[k - 1]]
    BY <2>1, <2>2, Zenon
  <2> QED
    BY <1>1, <2>3, Zenon DEF SeenEquation
<1> DEFINE g == CHOOSE h : SeenEquation(h, lines)
<1>9. SeenEquation(g, lines)
  BY <1>8
<1>10. EchoStarts(lines) = g[n]
  BY <1>1, EchoStartsIs DEF SeenAtEnd
<1> HIDE DEF g
<1>11. g = [k \in 0 .. n |->
               IF k = 0 THEN {}
               ELSE IF /\ StartsSelect(lines[k])
                       /\ \A i \in g[k - 1] : EchoEnd(lines, i) < k
                    THEN g[k - 1] \cup {k} ELSE g[k - 1]]
  BY <1>1, <1>9, Zenon DEF SeenEquation
<1>12. g[0] = {}
  <2>1. 0 \in 0 .. n
    OBVIOUS
  <2> QED
    BY <1>11, <2>1, Zenon
<1>13. \A k \in 1 .. n : g[k] = SeenAfter(lines, k, g[k - 1])
  <2>1. \A k \in 1 .. n : k \in 0 .. n /\ k # 0
    OBVIOUS
  <2> QED
    BY <1>11, <2>1, Zenon DEF SeenAfter
<1> DEFINE Good == {k \in 0 .. n :
                       /\ \A i \in g[k] : i \in 1 .. k /\ StartsSelect(lines[i])
                       /\ \A i \in 1 .. k :
                             StartsSelect(lines[i]) /\ Reached(lines, i) => i \in g[k]}
<1>14. 0 \in Good
  BY <1>12
<1>15. ASSUME NEW k \in 1 .. n, k - 1 \in Good PROVE k \in Good
  <2> DEFINE seen == g[k - 1]
             new == g[k]
  <2>1. /\ \A i \in seen : i \in 1 .. k - 1 /\ StartsSelect(lines[i])
        /\ \A i \in 1 .. k - 1 :
              StartsSelect(lines[i]) /\ Reached(lines, i) => i \in seen
    BY <1>15
  <2>2. new = SeenAfter(lines, k, seen)
    BY <1>13
  <2> HIDE DEF seen, new, Good
  <2>3. /\ seen \subseteq new
        /\ \A i \in new : i \in seen \/ (i = k /\ StartsSelect(lines[k]))
    BY <2>2 DEF SeenAfter
  <2>4. \A i \in new : i \in 1 .. k /\ StartsSelect(lines[i])
    BY <2>1, <2>3
  <2>5. StartsSelect(lines[k]) /\ Reached(lines, k) => k \in new
    BY <2>1, <2>2 DEF SeenAfter, Reached
  <2>6. \A i \in 1 .. k :
           StartsSelect(lines[i]) /\ Reached(lines, i) => i \in new
    <3>1. \A i \in 1 .. k : i = k \/ i \in 1 .. k - 1
      OBVIOUS
    <3> QED
      BY <2>1, <2>3, <2>5, <3>1
  <2>7. k \in 0 .. n
    OBVIOUS
  <2> QED
    BY <2>4, <2>6, <2>7 DEF Good, new
<1> HIDE DEF Good
<1>16. \A k \in 0 .. n : k \in Good
  BY <1>14, <1>15, Upto
<1>17. n \in Good
  <2>1. n \in 0 .. n
    OBVIOUS
  <2> QED
    BY <1>16, <2>1
<1> QED
  BY <1>1, <1>10, <1>17 DEF Good

LEMMA LaidInOrder ==
    ASSUME NEW e, NEW blocks, NEW lines, Laid(e, blocks, lines), Len(blocks) \in Nat
    PROVE  \A b \in 0 .. Len(blocks) : \A a \in 0 .. b : e[a] <= e[b]
<1>1. PICK n \in Nat : Len(blocks) = n
  OBVIOUS
<1>2. /\ \A b \in 0 .. n : e[b] \in Nat
      /\ \A b \in 1 .. n : e[b - 1] < e[b]
  BY <1>1 DEF Laid, BlockAt
<1> DEFINE Good == {b \in 0 .. n : \A a \in 0 .. b : e[a] <= e[b]}
<1>3. 0 \in Good
  <2>1. \A a \in 0 .. 0 : a = 0
    OBVIOUS
  <2>2. 0 \in 0 .. n
    OBVIOUS
  <2> QED
    BY <1>2, <2>1, <2>2
<1>4. ASSUME NEW b \in 1 .. n, b - 1 \in Good PROVE b \in Good
  <2>1. b \in 0 .. n /\ b - 1 \in 0 .. n
    OBVIOUS
  <2>2. ASSUME NEW a \in 0 .. b PROVE e[a] <= e[b]
    <3>1. a = b \/ a \in 0 .. b - 1
      OBVIOUS
    <3>2. CASE a = b
      BY <1>2, <2>1, <3>2
    <3>3. CASE a \in 0 .. b - 1
      <4>1. e[a] <= e[b - 1] /\ a \in 0 .. n
        BY <1>4, <3>3
      <4>2. e[a] \in Nat /\ e[b - 1] \in Nat /\ e[b] \in Nat /\ e[b - 1] < e[b]
        BY <1>2, <2>1, <4>1
      <4> QED
        BY <4>1, <4>2
    <3> QED
      BY <3>1, <3>2, <3>3
  <2> QED
    BY <2>1, <2>2
<1> HIDE DEF Good
<1>5. \A b \in 0 .. n : b \in Good
  BY <1>3, <1>4, Upto
<1> QED
  BY <1>1, <1>5 DEF Good

\* The echo and the row of a block that starts at line i.
EchoIs(lines, i, q, block) ==
    /\ block.kind \in {"answered", "failed", "noticed", "wrapped"} =>
          EchoEnd(lines, i) <= q /\ EchoKey(lines, i) = block.key
    /\ block.kind = "noted" => EchoKey(lines, i) = NoRow
    /\ block.kind \in {"failed", "noticed"} =>
          BoundRow(lines, EchoEnd(lines, i)) = NoRow
    /\ block.kind \in {"answered", "wrapped"} =>
          /\ BoundRow(lines, EchoEnd(lines, i)) # NoRow =>
                \E r \in DOMAIN block.rows :
                   /\ Inky(block.rows) = {r}
                   /\ BoundRow(lines, EchoEnd(lines, i)) = block.rows[r]
          /\ \A r \in DOMAIN block.rows :
                Inky(block.rows) = {r} =>
                   BoundRow(lines, EchoEnd(lines, i)) = block.rows[r]

LEMMA EchoOfBlock ==
    ASSUME NEW lines \in Seq(OutLines), NEW block \in Blocks, NEW p \in Nat,
           NEW q \in Nat, q <= Len(lines), BlockAt(lines, p, q, block)
    PROVE  EchoIs(lines, p + 1, q, block)
<1> DEFINE i == p + 1
           end == EchoEnd(lines, i)
           rows == block.rows
<1>1. PICK n \in Nat : Len(lines) = n
  OBVIOUS
<1>2. rows \in Seq(Rows)
  BY DEF Blocks
<1>3. PICK m \in Nat : Len(rows) = m
  BY <1>2
<1>4. /\ p < q
      /\ block.kind \in {"answered", "failed", "noticed"} =>
            lines[i].kind = "select" /\ lines[i].text = block.key
      /\ block.kind = "wrapped" =>
            /\ lines[i].kind = "open" /\ lines[i].text = block.key
            /\ lines[p + 2].kind = "close"
      /\ block.kind = "noted" => lines[i].kind = "noted"
      /\ block.kind \in {"failed", "noticed"} =>
            p + 2 <= q /\ lines[p + 2].kind = "diagnostic"
      /\ block.kind = "answered" =>
            q = p + 1 + m + 4 /\ RowsetAt(lines, p + 1, rows)
      /\ block.kind = "wrapped" =>
            q = p + 2 + m + 4 /\ RowsetAt(lines, p + 2, rows)
  BY <1>3 DEF BlockAt
<1>5. i \in 1 .. n /\ i + 1 = p + 2 /\ q <= n /\ i \in Nat
  BY <1>1, <1>4
<1> HIDE DEF i
<1>6. /\ end \in i .. n + 1
      /\ lines[i].kind = "select" => end = i
      /\ lines[i].kind = "open" /\ i + 1 <= n
            /\ lines[i + 1].kind = "close" => end = i + 1
  BY <1>1, <1>5, EchoEndIs
<1>7. /\ EchoKey(lines, i) # NoRow => lines[i].kind \in {"select", "open"}
      /\ lines[i].kind = "select" => EchoKey(lines, i) = lines[i].text
      /\ lines[i].kind = "open" /\ i + 1 <= n
            /\ lines[i + 1].kind = "close" => EchoKey(lines, i) = lines[i].text
  BY <1>1, <1>5, EchoKeyIs
<1> HIDE DEF end
<1>8. block.kind \in {"answered", "failed", "noticed"} =>
         end = i /\ EchoKey(lines, i) = block.key /\ end <= q
  BY <1>4, <1>5, <1>6, <1>7 DEF i
<1>9. block.kind = "wrapped" =>
         end = i + 1 /\ EchoKey(lines, i) = block.key /\ end <= q
  <2> SUFFICES ASSUME block.kind = "wrapped"
               PROVE  end = i + 1 /\ EchoKey(lines, i) = block.key /\ end <= q
    OBVIOUS
  <2>1. i + 1 <= q /\ lines[i + 1].kind = "close"
    BY <1>3, <1>4, <1>5
  <2>2. i + 1 <= n
    BY <1>5, <2>1
  <2> QED
    BY <1>4, <1>6, <1>7, <2>1, <2>2
<1>10. block.kind = "noted" => EchoKey(lines, i) = NoRow
  BY <1>4, <1>7
<1>11. block.kind \in {"failed", "noticed"} => BoundRow(lines, end) = NoRow
  <2> SUFFICES ASSUME block.kind \in {"failed", "noticed"}
               PROVE  BoundRow(lines, end) = NoRow
    OBVIOUS
  <2>1. /\ end \in Nat /\ end + 1 <= n /\ lines[end + 1].kind = "diagnostic"
    BY <1>4, <1>5, <1>8
  <2> QED
    BY <1>1, <2>1, NothingBound
<1>12. ASSUME block.kind \in {"answered", "wrapped"}
       PROVE  /\ BoundRow(lines, end) # NoRow =>
                    \E r \in DOMAIN rows :
                       Inky(rows) = {r} /\ BoundRow(lines, end) = rows[r]
              /\ \A r \in DOMAIN rows :
                    Inky(rows) = {r} => BoundRow(lines, end) = rows[r]
  <2>1. end \in Nat /\ end + m + 4 <= n /\ RowsetAt(lines, end, rows)
    <3>1. CASE block.kind = "answered"
      BY <1>3, <1>4, <1>5, <1>8, <3>1 DEF i
    <3>2. CASE block.kind = "wrapped"
      BY <1>3, <1>4, <1>5, <1>9, <3>2
    <3> QED
      BY <1>12, <3>1, <3>2
  <2> HIDE DEF rows
  <2> QED
    BY <1>1, <1>2, <1>3, <2>1, OnlyRowBound
<1>13. EchoIs(lines, i, q, block)
  BY <1>8, <1>9, <1>10, <1>11, <1>12 DEF EchoIs, end
<1> QED
  BY <1>13 DEF i

\* The echoes of a SELECT that something is bound to.
BoundTo(lines, k) ==
    {i \in EchoStarts(lines) :
        EchoKey(lines, i) = k /\ BoundRow(lines, EchoEnd(lines, i)) # NoRow}

LEMMA IndexIs ==
    ASSUME NEW lines, NEW k \in Key
    PROVE  Index(lines)[k] =
              IF BoundTo(lines, k) = {} THEN NoRow
              ELSE BoundRow(lines, EchoEnd(lines, Min(BoundTo(lines, k))))
BY Zenon DEF Index, BoundTo

\* An echo behind no noted one is found.
LEMMA EchoReached ==
    ASSUME NEW blocks \in Seq(Blocks), NEW lines, NEW e, Laid(e, blocks, lines),
           NEW b \in 1 .. Len(blocks),
           \A a \in 1 .. b - 1 : blocks[a].kind \notin {"silent", "noted"}
    PROVE  Reached(lines, e[b - 1] + 1)
<1>1. PICK n \in Nat : Len(blocks) = n
  OBVIOUS
<1>2. PICK i : i = e[b - 1] + 1
  OBVIOUS
<1>3. b - 1 \in 0 .. n /\ b \in 0 .. n /\ b \in 1 .. n
  BY <1>1
<1>4. /\ lines \in Seq(OutLines) /\ e \in [0 .. n -> Nat]
      /\ \A a \in 1 .. n :
            e[a] <= Len(lines) /\ BlockAt(lines, e[a - 1], e[a], blocks[a])
      /\ \A y \in 1 .. Len(lines) : \E a \in 1 .. n : y \in e[a - 1] + 1 .. e[a]
  BY <1>1 DEF Laid
<1>5. \A d \in 0 .. n : \A a \in 0 .. d : e[a] <= e[d]
  BY <1>1, LaidInOrder
<1>6. ASSUME NEW j \in 1 .. i - 1, StartsSelect(lines[j])
      PROVE  EchoEnd(lines, j) < i
  <2>1. i \in Nat /\ Len(lines) \in Nat /\ e[b - 1] \in Nat
    BY <1>2, <1>3, <1>4
  <2>2. e[b - 1] < e[b] /\ e[b] <= Len(lines) /\ e[b] \in Nat
    BY <1>3, <1>4 DEF BlockAt
  <2>3. j \in 1 .. Len(lines)
    BY <1>2, <2>1, <2>2
  <2>4. PICK a \in 1 .. n : j \in e[a - 1] + 1 .. e[a]
    BY <1>4, <2>3
  <2>5. a - 1 \in 0 .. n /\ a \in 0 .. n
    BY <2>4
  <2>6. e[a - 1] \in Nat /\ e[a] \in Nat
    BY <1>4, <2>5
  <2>7. BlockAt(lines, e[a - 1], e[a], blocks[a]) /\ e[a] <= Len(lines)
    BY <1>4, <2>4
  <2>8. j = e[a - 1] + 1 /\ blocks[a].kind \in SelectKinds
    BY <1>6, <2>4, <2>7 DEF BlockAt
  <2>9. a <= b - 1
    <3> SUFFICES ASSUME ~ (a <= b - 1) PROVE FALSE
      OBVIOUS
    <3>1. b - 1 \in 0 .. a - 1
      BY <1>3, <2>4
    <3>2. e[b - 1] <= e[a - 1]
      BY <1>5, <2>5, <3>1
    <3> QED
      BY <1>2, <2>1, <2>6, <2>8, <3>2
  <2>10. blocks[a].kind \in {"answered", "failed", "noticed", "wrapped"}
    <3>1. a \in 1 .. b - 1
      BY <2>4, <2>9
    <3> QED
      BY <2>8, <3>1 DEF SelectKinds
  <2>11. blocks[a] \in Blocks
    BY <1>1, <2>4
  <2>12. EchoEnd(lines, j) <= e[a]
    <3> DEFINE p == e[a - 1]
               q == e[a]
               block == blocks[a]
    <3>1. /\ p \in Nat /\ q \in Nat /\ q <= Len(lines) /\ block \in Blocks
          /\ BlockAt(lines, p, q, block) /\ lines \in Seq(OutLines)
          /\ j = p + 1
      BY <1>4, <2>6, <2>7, <2>8, <2>11
    <3> HIDE DEF p, q, block
    <3>2. EchoIs(lines, p + 1, q, block)
      BY <3>1, EchoOfBlock
    <3> QED
      BY <2>10, <3>1, <3>2 DEF EchoIs, q, block
  <2>13. e[a] <= e[b - 1]
    <3>1. a \in 0 .. b - 1
      BY <2>4, <2>9
    <3> QED
      BY <1>3, <1>5, <3>1
  <2>14. EchoEnd(lines, j) \in Nat
    <3>1. EchoEnd(lines, j) \in j .. Len(lines) + 1
      BY <1>4, <2>3, EchoEndIs
    <3> QED
      BY <2>1, <2>3, <3>1
  <2> QED
    BY <1>2, <2>1, <2>6, <2>12, <2>13, <2>14
<1> QED
  BY <1>2, <1>6 DEF Reached

\* The SELECT of a block returned one row that is not blank.
LEMMA AnswersIs ==
    ASSUME NEW block \in Blocks, NEW row
    PROVE  OnlyRow(block, row) <=>
              /\ block.kind \in {"answered", "wrapped", "noted", "noticed"}
              /\ \E r \in DOMAIN block.rows :
                    block.rows[r] = row /\ row # NoRow /\ Inky(block.rows) = {r}
<1> DEFINE rows == block.rows
<1>1. ASSUME NEW r \in DOMAIN rows
      PROVE  (\A q \in DOMAIN rows : rows[q] # NoRow <=> q = r) <=> Inky(rows) = {r}
  BY DEF Inky
<1>2. ASSUME NEW r \in DOMAIN rows, Inky(rows) = {r} PROVE rows[r] # NoRow
  BY <1>2 DEF Inky
<1> QED
  BY <1>1, <1>2 DEF OnlyRow

\* A block whose one row is an answer to a SELECT.
AnswersTo(block, k) ==
    /\ block.kind \in {"answered", "wrapped"} /\ block.key = k
    /\ \E row \in Datum : OnlyRow(block, row)

LEMMA OwnIs ==
    ASSUME NEW blocks
    PROVE  BoundRowsAreOwn(blocks) =
              ((\A b \in DOMAIN blocks : blocks[b].kind # "silent") =>
                 \A k \in Key : Index(OutFile(blocks))[k] # NoRow =>
                    \E b \in DOMAIN blocks :
                       /\ AnswersTo(blocks[b], k)
                       /\ OnlyRow(blocks[b], Index(OutFile(blocks))[k])
                       /\ \A e \in 1..(b - 1) :
                             AnswersTo(blocks[e], k) =>
                                \E n \in 1..(e - 1) : blocks[n].kind = "noted")
BY DEF BoundRowsAreOwn, AnswersTo

LEMMA EchoesAreOwn ==
    ASSUME NEW blocks \in Seq(Blocks)
    PROVE  BoundRowsAreOwn(blocks)
<1> DEFINE lines == OutFile(blocks)
<1>1. PICK n \in Nat : Len(blocks) = n /\ DOMAIN blocks = 1 .. n
  OBVIOUS
<1>2. PICK e : Laid(e, blocks, lines)
  BY OutFileIs
<1>3. PICK index : index = Index(lines)
  OBVIOUS
<1>4. SUFFICES ASSUME \A b \in 1 .. n : blocks[b].kind # "silent",
                      NEW k \in Key, index[k] # NoRow
               PROVE  \E b \in 1 .. n :
                        /\ AnswersTo(blocks[b], k) /\ OnlyRow(blocks[b], index[k])
                        /\ \A c \in 1 .. (b - 1) :
                              AnswersTo(blocks[c], k) =>
                                 \E d \in 1 .. (c - 1) : blocks[d].kind = "noted"
  BY <1>1, <1>3, OwnIs
<1> HIDE DEF lines
<1>5. /\ lines \in Seq(OutLines) /\ e \in [0 .. n -> Nat]
      /\ \A a \in 1 .. n :
            e[a] <= Len(lines) /\ BlockAt(lines, e[a - 1], e[a], blocks[a])
      /\ \A y \in 1 .. Len(lines) : \E a \in 1 .. n : y \in e[a - 1] + 1 .. e[a]
  BY <1>1, <1>2 DEF Laid
<1>6. PICK N \in Nat : Len(lines) = N
  BY <1>5
<1>7. /\ \A i \in EchoStarts(lines) : i \in 1 .. N /\ StartsSelect(lines[i])
      /\ \A i \in 1 .. N :
            StartsSelect(lines[i]) /\ Reached(lines, i) => i \in EchoStarts(lines)
  BY <1>6, EchoesSeen
<1>8. \A d \in 0 .. n : \A a \in 0 .. d : e[a] <= e[d]
  BY <1>1, <1>2, LaidInOrder
<1>9. ASSUME NEW a \in 1 .. n
      PROVE  /\ e[a - 1] \in Nat /\ e[a] \in Nat /\ e[a - 1] < e[a] /\ e[a] <= N
             /\ blocks[a] \in Blocks
             /\ EchoIs(lines, e[a - 1] + 1, e[a], blocks[a])
  <2> DEFINE p == e[a - 1]
             q == e[a]
             block == blocks[a]
  <2>1. a - 1 \in 0 .. n /\ a \in 0 .. n
    OBVIOUS
  <2>2. /\ p \in Nat /\ q \in Nat /\ q <= Len(lines) /\ block \in Blocks
        /\ BlockAt(lines, p, q, block)
    BY <1>1, <1>5, <2>1
  <2> HIDE DEF p, q, block
  <2>3. EchoIs(lines, p + 1, q, block)
    BY <1>5, <2>2, EchoOfBlock
  <2>4. p < q
    BY <2>2 DEF BlockAt
  <2> QED
    BY <1>6, <2>2, <2>3, <2>4 DEF p, q, block
<1> DEFINE bound == BoundTo(lines, k)
           i == Min(bound)
           row == BoundRow(lines, EchoEnd(lines, i))
<1>10. bound # {} /\ index[k] = row
  BY <1>3, <1>4, IndexIs
<1>11. bound \subseteq Nat
  BY <1>7 DEF BoundTo
<1>12. i \in bound /\ \A j \in bound : i <= j
  <2> HIDE DEF bound
  <2> QED
    BY <1>10, <1>11, LeastOf
<1> HIDE DEF i
<1>13. /\ i \in 1 .. N /\ StartsSelect(lines[i])
       /\ EchoKey(lines, i) = k /\ row # NoRow
  BY <1>7, <1>12 DEF BoundTo
<1>14. k # NoRow
  BY EchoAssumption
<1>15. PICK b \in 1 .. n : i \in e[b - 1] + 1 .. e[b]
  BY <1>5, <1>6, <1>13
<1>16. i = e[b - 1] + 1 /\ blocks[b].kind \in SelectKinds
  BY <1>5, <1>13, <1>15 DEF BlockAt
<1>17. /\ blocks[b] \in Blocks /\ EchoIs(lines, i, e[b], blocks[b])
  BY <1>9, <1>15, <1>16
<1>18. blocks[b].kind \in {"answered", "wrapped"}
  BY <1>4, <1>13, <1>14, <1>15, <1>16, <1>17 DEF EchoIs, SelectKinds
<1>19. /\ blocks[b].key = k
       /\ \E r \in DOMAIN blocks[b].rows :
             Inky(blocks[b].rows) = {r} /\ row = blocks[b].rows[r]
  BY <1>13, <1>17, <1>18 DEF EchoIs
<1>20. PICK r \in DOMAIN blocks[b].rows :
          Inky(blocks[b].rows) = {r} /\ row = blocks[b].rows[r]
  BY <1>19
<1> HIDE DEF row
<1>21. OnlyRow(blocks[b], row)
  BY <1>13, <1>17, <1>18, <1>20, AnswersIs
<1>22. row \in Datum
  <2>1. blocks[b].rows \in Seq(Rows)
    BY <1>17 DEF Blocks
  <2>2. blocks[b].rows[r] \in Rows
    BY <1>20, <2>1
  <2> QED
    BY <1>13, <1>20, <2>2 DEF Rows
<1>23. AnswersTo(blocks[b], k) /\ OnlyRow(blocks[b], index[k])
  BY <1>10, <1>18, <1>19, <1>21, <1>22 DEF AnswersTo
<1>24. ASSUME NEW c \in 1 .. (b - 1), AnswersTo(blocks[c], k),
              \A d \in 1 .. (c - 1) : blocks[d].kind # "noted"
       PROVE  FALSE
  <2> DEFINE j == e[c - 1] + 1
  <2>1. c \in 1 .. n
    BY <1>15
  <2>2. /\ e[c - 1] \in Nat /\ e[c] \in Nat /\ e[c - 1] < e[c] /\ e[c] <= N
        /\ blocks[c] \in Blocks /\ EchoIs(lines, j, e[c], blocks[c])
    BY <1>9, <2>1
  <2>3. Reached(lines, j)
    <3>1. \A d \in 1 .. c - 1 : blocks[d].kind \notin {"silent", "noted"}
      BY <1>4, <1>24, <2>1
    <3> QED
      BY <1>1, <1>2, <2>1, <3>1, EchoReached
  <2>4. j \in 1 .. N
    BY <2>2
  <2>5. StartsSelect(lines[j])
    BY <1>5, <1>24, <2>1 DEF AnswersTo, BlockAt, StartsSelect
  <2>6. j < i
    <3>1. c \in 0 .. b - 1 /\ b - 1 \in 0 .. n
      BY <1>15
    <3>2. e[c] <= e[b - 1]
      BY <1>8, <3>1
    <3>3. e[b - 1] \in Nat
      BY <1>9, <1>15
    <3> QED
      BY <1>16, <2>2, <3>2, <3>3
  <2> HIDE DEF j
  <2>7. j \in EchoStarts(lines)
    BY <1>7, <2>3, <2>4, <2>5
  <2>8. EchoKey(lines, j) = k
    BY <1>24, <2>2 DEF AnswersTo, EchoIs
  <2>9. BoundRow(lines, EchoEnd(lines, j)) # NoRow
    <3>1. PICK datum \in Datum : OnlyRow(blocks[c], datum)
      BY <1>24 DEF AnswersTo
    <3>2. PICK s \in DOMAIN blocks[c].rows :
             /\ blocks[c].rows[s] = datum /\ datum # NoRow
             /\ Inky(blocks[c].rows) = {s}
      BY <2>2, <3>1, AnswersIs
    <3>3. blocks[c].kind \in {"answered", "wrapped"}
      BY <1>24 DEF AnswersTo
    <3> QED
      BY <2>2, <3>2, <3>3 DEF EchoIs
  <2>10. j \in bound
    BY <2>7, <2>8, <2>9 DEF BoundTo
  <2> QED
    BY <1>12, <1>13, <2>4, <2>6, <2>10
<1>25. \A c \in 1 .. (b - 1) :
          AnswersTo(blocks[c], k) => \E d \in 1 .. (c - 1) : blocks[d].kind = "noted"
  BY <1>24
<1> QED
  BY <1>15, <1>23, <1>25

\* The files that MCTexts grows are what psql printed for statements.
OutTyped == kind = "out" => text \in Seq(Blocks)

LEMMA GrownOut == TextSpec => []OutTyped
<1>1. TextInit => OutTyped
  BY DEF TextInit, OutTyped
<1>2. MCBlocks \subseteq Blocks
  <2>1. ASSUME NEW of \in BlockKinds, NEW key \in Key \cup {NoRow},
               NEW rows \in Seq(Rows)
        PROVE  Block(of, key, rows) \in Blocks
    BY DEF Block, Blocks
  <2>2. {Q1, Q2} \subseteq Key /\ {D1, D2, NoRow} \subseteq Rows
    BY BlocksAssumption DEF Rows
  <2>3. {<< >>, <<D1>>, <<D2>>, <<NoRow>>, <<D1, NoRow>>, <<D1, D2>>} \subseteq Seq(Rows)
    BY <2>2
  <2> HIDE DEF Block
  <2> SUFFICES ASSUME NEW block \in MCBlocks PROVE block \in Blocks
    OBVIOUS
  <2>4. CASE \E rows \in {<< >>, <<D1>>, <<D2>>, <<NoRow>>, <<D1, NoRow>>, <<D1, D2>>} :
                block = Block("answered", Q1, rows)
    BY <2>1, <2>2, <2>3, <2>4 DEF BlockKinds
  <2>5. CASE \E of \in {"wrapped", "noted", "noticed", "failed", "silent"} :
                block = Block(of, Q1, <<D1>>)
    BY <2>1, <2>2, <2>3, <2>5 DEF BlockKinds
  <2>6. CASE block = Block("answered", Q2, <<D2>>)
    BY <2>1, <2>2, <2>3, <2>6 DEF BlockKinds
  <2>7. CASE \E of \in {"other", "comment", "meta"} : block = Block(of, NoRow, << >>)
    BY <2>1, <2>2, <2>3, <2>7 DEF BlockKinds
  <2> QED
    BY <2>4, <2>5, <2>6, <2>7, Zenon DEF MCBlocks
<1>3. OutTyped /\ [TextNext]_textVars => OutTyped'
  <2> SUFFICES ASSUME OutTyped, [TextNext]_textVars, kind' = "out"
               PROVE  text' \in Seq(Blocks)
    BY DEF OutTyped
  <2>1. CASE UNCHANGED textVars
    BY <2>1 DEF OutTyped, textVars
  <2>2. CASE TextNext
    <3>1. GrowOut
      BY <2>2 DEF TextNext, GrowRegress, GrowList, GrowRow, GrowOut, GrowSmoke,
                  Grow
    <3>2. PICK block \in MCBlocks : text' = text \o <<block>>
      BY <3>1 DEF GrowOut, Grow
    <3>3. text \in Seq(Blocks)
      BY <3>1 DEF GrowOut, Grow, OutTyped
    <3>4. block \in Blocks
      BY <1>2, <3>2
    <3> QED
      BY <3>2, <3>3, <3>4
  <2> QED
    BY <2>1, <2>2
<1> QED
  BY <1>1, <1>3, PTL DEF TextSpec

\* Every row of expected output that the import takes from a file of psql is
\* the only row its SELECT returned, the first time that can be read, however
\* long the file is, whatever the texts and the rows are and wherever errors,
\* notices, comments and wrapped echoes stand (main.rs:773-877).
THEOREM BoundEchoesAreOwn ==
    /\ \A blocks \in Seq(Blocks) : BoundRowsAreOwn(blocks)
    /\ TextSpec => []EchoesBindOwnRows
<1>1. \A blocks \in Seq(Blocks) : BoundRowsAreOwn(blocks)
  BY EchoesAreOwn
<1>2. OutTyped => EchoesBindOwnRows
  BY <1>1, Zenon DEF OutTyped, EchoesBindOwnRows
<1>3. TextSpec => []EchoesBindOwnRows
  BY <1>2, GrownOut, PTL
<1> QED
  BY <1>1, <1>3

-----------------------------------------------------------------------------
(* Selections of a text, put together and taken apart.                     *)

\* z lists the n numbers of S in order.
Enumerates(z, n, S) ==
    /\ z \in [1 .. n -> S]
    /\ \A a, b \in 1 .. n : a < b => z[a] < z[b]
    /\ \A i \in S : \E a \in 1 .. n : z[a] = i

\* InOrder lists any set of positions.
LEMMA Enumeration ==
    ASSUME NEW N \in Nat, NEW S \in SUBSET (1 .. N)
    PROVE  Cardinality(S) \in Nat /\ Enumerates(InOrder(S), Cardinality(S), S)
<1>1. Lists(InOrder(S), S)
  BY InOrderLists
<1>2. Cardinality(S) \in Nat
  <2>1. IsFiniteSet(1 .. N)
    BY FS_Interval
  <2> QED
    BY <2>1, FS_Subset, FS_CardinalityType
<1> QED
  BY <1>1, <1>2 DEF Lists, Enumerates

\* Where two lists of a set first differ, the first is not the smaller.
LEMMA NotBefore ==
    ASSUME NEW S, S \subseteq Nat, NEW n \in Nat, NEW p, Enumerates(p, n, S),
           NEW z, Enumerates(z, n, S), NEW k \in 1 .. n,
           \A j \in 1 .. n : j < k => p[j] = z[j]
    PROVE  ~ (p[k] < z[k])
<1>1. \A j \in 1 .. n : p[j] \in Nat /\ z[j] \in Nat /\ p[j] \in S
  BY DEF Enumerates
<1>2. PICK a \in 1 .. n : z[a] = p[k]
  BY <1>1 DEF Enumerates
<1>3. CASE a < k
  <2>1. p[a] < p[k] /\ p[a] = z[a]
    BY <1>2, <1>3 DEF Enumerates
  <2> QED
    BY <1>1, <1>2, <2>1
<1>4. CASE a = k
  BY <1>1, <1>2, <1>4
<1>5. CASE k < a
  <2>1. z[k] < z[a]
    BY <1>2, <1>5 DEF Enumerates
  <2> QED
    BY <1>1, <1>2, <2>1
<1> QED
  BY <1>2, <1>3, <1>4, <1>5

\* A set of numbers is listed in order in one way.
LEMMA OneOrder ==
    ASSUME NEW N \in Nat, NEW S \in SUBSET (1 .. N), NEW n \in Nat, NEW z,
           Enumerates(z, n, S)
    PROVE  Cardinality(S) = n /\ InOrder(S) = z
<1>1. \A a, b \in 1 .. n : a < b => z[a] < z[b]
  BY DEF Enumerates
<1>2. \A a \in 1 .. n : z[a] \in S /\ z[a] \in Nat
  <2>1. \A i \in S : i \in Nat
    OBVIOUS
  <2> QED
    BY <2>1 DEF Enumerates
<1>3. Cardinality(S) = n
  <2>1. \A x, y \in 1 .. n : z[x] = z[y] => x = y
    BY <1>1, <1>2
  <2>2. IsFiniteSet(1 .. n) /\ Cardinality(1 .. n) = n
    BY FS_Interval
  <2>3. Image(z, 1 .. n) = S
    BY DEF Image, Enumerates
  <2>4. Cardinality(Image(z, 1 .. n)) = Cardinality(1 .. n)
    BY <2>1, <2>2, SameSize
  <2> QED
    BY <2>2, <2>3, <2>4
<1> DEFINE p == InOrder(S)
           Off == {k \in 1 .. n : p[k] # z[k]}
<1>4. Enumerates(p, n, S)
  BY <1>3, Enumeration
<1> HIDE DEF p
<1>5. Off = {}
  <2> SUFFICES ASSUME Off # {} PROVE FALSE
    OBVIOUS
  <2>1. Off \subseteq Nat
    OBVIOUS
  <2>2. PICK k \in Off : \A j \in Off : k <= j
    <3> HIDE DEF Off
    <3> QED
      BY <2>1, SmallestNumber
  <2>3. k \in 1 .. n /\ \A j \in 1 .. n : j < k => p[j] = z[j] /\ z[j] = p[j]
    BY <2>2
  <2>4. S \subseteq Nat
    OBVIOUS
  <2>5. ~ (p[k] < z[k]) /\ ~ (z[k] < p[k])
    BY <1>4, <2>3, <2>4, NotBefore
  <2>6. p[k] \in Nat /\ z[k] \in Nat
    BY <1>2, <1>4, <2>3 DEF Enumerates
  <2> QED
    BY <2>2, <2>5, <2>6
<1>6. p = z
  BY <1>4, <1>5 DEF Enumerates
<1> QED
  BY <1>3, <1>6 DEF p

\* What s has at the n numbers of z.
Read(s, z, n) == [y \in 1 .. n |-> s[z[y]]]

\* Sequences of one length with the same elements are the same.
LEMMA SameSeq ==
    ASSUME NEW A, NEW u \in Seq(A), NEW v \in Seq(A), Len(u) = Len(v),
           \A y \in 1 .. Len(u) : u[y] = v[y]
    PROVE  u = v
<1>1. PICK n \in Nat : Len(u) = n /\ Len(v) = n
  OBVIOUS
<1>2. u = [y \in 1 .. n |-> u[y]] /\ v = [y \in 1 .. n |-> v[y]]
  BY <1>1
<1>3. \A y \in 1 .. n : u[y] = v[y]
  BY <1>1
<1> QED
  BY <1>2, <1>3

\* What is selected is read off where the selection is listed.
LEMMA SelectedAt ==
    ASSUME NEW N \in Nat, NEW S \in SUBSET (1 .. N), NEW n \in Nat, NEW z,
           Enumerates(z, n, S), NEW s
    PROVE  Selected(s, S) = Read(s, z, n)
<1>1. InOrder(S) = z
  BY OneOrder
<1>2. Selected(s, S) = [k \in DOMAIN InOrder(S) |-> s[InOrder(S)[k]]]
  BY Zenon DEF Selected
<1>3. DOMAIN z = 1 .. n
  BY DEF Enumerates
<1> QED
  BY <1>1, <1>2, <1>3 DEF Read

\* The same with one hypothesis.
Listing(z, n, S, N) ==
    N \in Nat /\ S \in SUBSET (1 .. N) /\ n \in Nat /\ Enumerates(z, n, S)

\* What is selected, by any list of the selection.
LEMMA SelectedBy ==
    ASSUME NEW N, NEW S, NEW n, NEW z, Listing(z, n, S, N), NEW s
    PROVE  Selected(s, S) = Read(s, z, n)
BY SelectedAt DEF Listing

\* One selection behind another.
LEMMA SelectedJoin ==
    ASSUME NEW A, NEW t \in Seq(A), NEW S \in SUBSET (1 .. Len(t)),
           NEW T \in SUBSET (1 .. Len(t)), \A i \in S : \A j \in T : i < j
    PROVE  /\ Selected(t, S) \in Seq(A)
           /\ Selected(t, S \cup T) = Selected(t, S) \o Selected(t, T)
<1>1. PICK N \in Nat : Len(t) = N /\ S \in SUBSET (1 .. N) /\ T \in SUBSET (1 .. N)
  OBVIOUS
<1>2. PICK n \in Nat : \E p : Enumerates(p, n, S)
  BY <1>1, Enumeration
<1>3. PICK m \in Nat : \E q : Enumerates(q, m, T)
  BY <1>1, Enumeration
<1>4. PICK p : Enumerates(p, n, S)
  BY <1>2
<1>5. PICK q : Enumerates(q, m, T)
  BY <1>3
<1> DEFINE z == [y \in 1 .. n + m |-> IF y <= n THEN p[y] ELSE q[y - n]]
           U == S \cup T
<1>6. /\ \A y \in 1 .. n : p[y] \in S /\ p[y] \in Nat
      /\ \A y \in 1 .. m : q[y] \in T /\ q[y] \in Nat
  <2>1. \A i \in S \cup T : i \in Nat
    BY <1>1
  <2> QED
    BY <1>4, <1>5, <2>1 DEF Enumerates
<1>7. /\ \A y \in 1 .. n : z[y] = p[y] /\ y \in 1 .. n + m
      /\ \A y \in 1 .. m : z[n + y] = q[y] /\ n + y \in 1 .. n + m
      /\ \A y \in 1 .. n + m : y \in 1 .. n \/ (y - n \in 1 .. m /\ y = n + (y - n))
  BY <1>2, <1>3
<1>8. \A y \in 1 .. n + m : z[y] \in U
  BY <1>6, <1>7
<1>9. z \in [1 .. n + m -> U]
  BY <1>8
<1> HIDE DEF z
<1>10. ASSUME NEW a \in 1 .. n + m, NEW b \in 1 .. n + m, a < b
       PROVE  z[a] < z[b]
  <2>1. CASE b \in 1 .. n
    <3>1. a \in 1 .. n
      BY <1>2, <1>10, <2>1
    <3> QED
      BY <1>4, <1>7, <1>10, <2>1, <3>1 DEF Enumerates
  <2>2. CASE a \in 1 .. n /\ b \notin 1 .. n
    <3>1. z[a] \in S /\ z[b] \in T
      BY <1>6, <1>7, <2>2
    <3> QED
      BY <3>1
  <2>3. CASE a \notin 1 .. n
    <3>1. b \notin 1 .. n
      BY <1>2, <1>10, <2>3
    <3>2. a - n \in 1 .. m /\ b - n \in 1 .. m /\ a - n < b - n
      BY <1>2, <1>3, <1>7, <1>10, <2>3, <3>1
    <3>3. z[a] = q[a - n] /\ z[b] = q[b - n]
      BY <1>7, <2>3, <3>1
    <3> QED
      BY <1>5, <3>2, <3>3 DEF Enumerates
  <2> QED
    BY <1>2, <2>1, <2>2, <2>3
<1>11. ASSUME NEW i \in U PROVE \E a \in 1 .. n + m : z[a] = i
  <2>1. CASE i \in S
    <3>1. PICK a \in 1 .. n : p[a] = i
      BY <1>4, <2>1 DEF Enumerates
    <3> QED
      BY <1>7, <3>1
  <2>2. CASE i \in T
    <3>1. PICK a \in 1 .. m : q[a] = i
      BY <1>5, <2>2 DEF Enumerates
    <3> QED
      BY <1>7, <3>1
  <2> QED
    BY <2>1, <2>2
<1>12. Enumerates(z, n + m, U)
  BY <1>9, <1>10, <1>11 DEF Enumerates
<1> DEFINE u == Selected(t, S)
           v == Selected(t, T)
           w == Selected(t, U)
<1>13. w = Read(t, z, n + m)
  <2> DEFINE l == n + m
  <2>1. Listing(z, l, U, N)
    BY <1>1, <1>2, <1>3, <1>12 DEF Listing
  <2> HIDE DEF l
  <2>2. Selected(t, U) = Read(t, z, l)
    BY <2>1, SelectedBy
  <2> QED
    BY <2>2 DEF l
<1>14. u = Read(t, p, n)
  <2>1. Listing(p, n, S, N)
    BY <1>1, <1>2, <1>4 DEF Listing
  <2> QED
    BY <2>1, SelectedBy
<1>15. v = Read(t, q, m)
  <2>1. Listing(q, m, T, N)
    BY <1>1, <1>3, <1>5 DEF Listing
  <2> QED
    BY <2>1, SelectedBy
<1> HIDE DEF u, v, w
<1>16. \A i \in 1 .. N : t[i] \in A
  BY <1>1
<1>17. u \in Seq(A) /\ Len(u) = n /\ \A y \in 1 .. n : u[y] = t[p[y]]
  <2>1. \A y \in 1 .. n : t[p[y]] \in A
    BY <1>1, <1>6, <1>16
  <2> QED
    BY <1>14, <2>1 DEF Read
<1>18. v \in Seq(A) /\ Len(v) = m /\ \A y \in 1 .. m : v[y] = t[q[y]]
  <2>1. \A y \in 1 .. m : t[q[y]] \in A
    BY <1>1, <1>6, <1>16
  <2> QED
    BY <1>15, <2>1 DEF Read
<1>19. /\ w \in Seq(A) /\ Len(w) = n + m
       /\ \A y \in 1 .. n + m : w[y] = t[z[y]]
  <2>1. \A y \in 1 .. n + m : t[z[y]] \in A
    BY <1>1, <1>8, <1>16
  <2> QED
    BY <1>13, <2>1 DEF Read
<1>20. /\ u \o v \in Seq(A) /\ Len(u \o v) = n + m
       /\ \A y \in 1 .. n : (u \o v)[y] = u[y]
       /\ \A y \in 1 .. m : (u \o v)[n + y] = v[y]
  <2>1. u \in Seq(A) /\ v \in Seq(A)
    BY <1>17, <1>18
  <2>2. /\ Len(u \o v) = Len(u) + Len(v)
        /\ \A x \in 1 .. Len(v) : (u \o v)[Len(u) + x] = v[x]
        /\ \A y \in 1 .. Len(u) : (u \o v)[y] = u[y]
    BY <2>1, Joined
  <2>3. u \o v \in Seq(A)
    BY <2>1
  <2> QED
    BY <1>17, <1>18, <2>2, <2>3
<1> DEFINE x == u \o v
<1>21. /\ x \in Seq(A) /\ Len(x) = n + m
       /\ \A y \in 1 .. n : x[y] = u[y]
       /\ \A y \in 1 .. m : x[n + y] = v[y]
  BY <1>20
<1> HIDE DEF x
<1>22. \A y \in 1 .. n + m : w[y] = x[y]
  <2> TAKE y \in 1 .. n + m
  <2>1. CASE y \in 1 .. n
    BY <1>7, <1>17, <1>19, <1>21, <2>1
  <2>2. CASE y \notin 1 .. n
    <3>1. y - n \in 1 .. m /\ y = n + (y - n) /\ z[y] = q[y - n]
      BY <1>7, <2>2
    <3>2. x[n + (y - n)] = v[y - n]
      BY <1>21, <3>1
    <3> QED
      BY <1>18, <1>19, <3>1, <3>2
  <2> QED
    BY <2>1, <2>2
<1>23. w = x
  BY <1>19, <1>22, <1>21, SameSeq
<1> QED
  BY <1>17, <1>23 DEF u, v, w, x

\* A selection of a selection.
LEMMA SelectedOf ==
    ASSUME NEW N \in Nat, NEW K \in SUBSET (1 .. N), NEW n \in Nat, NEW z,
           Enumerates(z, n, K), NEW t, NEW S \in SUBSET (1 .. n)
    PROVE  /\ Image(z, S) \in SUBSET (1 .. N)
           /\ Selected(Read(t, z, n), S) = Selected(t, Image(z, S))
<1>1. PICK m \in Nat : \E p : Enumerates(p, m, S)
  BY Enumeration
<1>2. PICK p : Enumerates(p, m, S)
  BY <1>1
<1>3. \A y \in 1 .. m : p[y] \in S /\ p[y] \in 1 .. n
  BY <1>2 DEF Enumerates
<1>4. \A x \in 1 .. n : z[x] \in K /\ z[x] \in 1 .. N
  BY DEF Enumerates
<1> DEFINE e == [y \in 1 .. m |-> z[p[y]]]
           T == Image(z, S)
           u == Read(t, z, n)
<1>5. T \in SUBSET (1 .. N)
  BY <1>4 DEF Image
<1>6. Enumerates(e, m, T)
  <2>1. \A y \in 1 .. m : e[y] = z[p[y]] /\ e[y] \in T
    BY <1>3 DEF Image
  <2>2. e \in [1 .. m -> T]
    BY <2>1
  <2>3. ASSUME NEW a \in 1 .. m, NEW b \in 1 .. m, a < b PROVE e[a] < e[b]
    <3>1. p[a] < p[b]
      BY <1>2, <2>3 DEF Enumerates
    <3>2. z[p[a]] < z[p[b]]
      BY <1>3, <3>1 DEF Enumerates
    <3> QED
      BY <2>1, <3>2
  <2>4. ASSUME NEW i \in T PROVE \E a \in 1 .. m : e[a] = i
    <3>1. PICK x \in S : i = z[x]
      BY DEF Image
    <3>2. PICK a \in 1 .. m : p[a] = x
      BY <1>2, <3>1 DEF Enumerates
    <3>3. e[a] = i
      BY <2>1, <3>1, <3>2
    <3> QED
      BY <3>2, <3>3
  <2> HIDE DEF e, T
  <2> QED
    BY <2>2, <2>3, <2>4 DEF Enumerates
<1>7. Selected(u, S) = Read(u, p, m)
  <2>1. Listing(p, m, S, n)
    BY <1>1, <1>2 DEF Listing
  <2> QED
    BY <2>1, SelectedBy
<1>8. Read(u, p, m) = Read(t, e, m)
  <2>1. \A y \in 1 .. m : u[p[y]] = t[e[y]]
    <3>1. \A x \in 1 .. n : u[x] = t[z[x]]
      BY DEF Read
    <3> QED
      BY <1>3, <3>1
  <2> HIDE DEF u, e
  <2> QED
    BY <2>1 DEF Read
<1> HIDE DEF e, T, u
<1>9. Selected(t, T) = Read(t, e, m)
  <2>1. Listing(e, m, T, N)
    BY <1>1, <1>5, <1>6 DEF Listing
  <2> QED
    BY <2>1, SelectedBy
<1> QED
  BY <1>5, <1>7, <1>8, <1>9 DEF T, u

\* A stretch of a text is what stands at its positions.
LEMMA SelectedStretch ==
    ASSUME NEW A, NEW t \in Seq(A), NEW a \in Nat, NEW b \in Nat, 1 <= a, a <= b,
           b <= Len(t) + 1
    PROVE  LET z == [y \in 1 .. b - a |-> a + y - 1]
           IN  /\ Enumerates(z, b - a, a .. b - 1)
               /\ SubSeq(t, a, b - 1) = Read(t, z, b - a)
               /\ SubSeq(t, a, b - 1) = Selected(t, a .. b - 1)
<1> DEFINE n == b - a
           z == [y \in 1 .. n |-> a + y - 1]
           S == a .. b - 1
           s == SubSeq(t, a, b - 1)
<1>1. PICK N \in Nat : Len(t) = N
  OBVIOUS
<1>2. n \in Nat /\ S \in SUBSET (1 .. N)
  BY <1>1
<1>3. Enumerates(z, n, S)
  <2>1. \A y \in 1 .. n : z[y] = a + y - 1 /\ z[y] \in S
    BY <1>2
  <2>2. z \in [1 .. n -> S]
    BY <2>1
  <2>3. \A x, y \in 1 .. n : x < y => z[x] < z[y]
    BY <1>2, <2>1
  <2>4. ASSUME NEW i \in S PROVE \E y \in 1 .. n : z[y] = i
    <3>1. i - a + 1 \in 1 .. n /\ a + (i - a + 1) - 1 = i
      BY <1>2
    <3>2. z[i - a + 1] = i
      BY <2>1, <3>1
    <3> QED
      BY <3>1, <3>2
  <2> HIDE DEF z, S, n
  <2> QED
    BY <2>2, <2>3, <2>4 DEF Enumerates
<1>4. s = Read(t, z, n)
  <2>1. s = [y \in 1 .. n |-> t[a + y - 1]]
    BY <1>1, <1>2
  <2>2. \A y \in 1 .. n : z[y] = a + y - 1
    OBVIOUS
  <2> HIDE DEF z, s, n
  <2> QED
    BY <2>1, <2>2 DEF Read
<1>5. Selected(t, S) = Read(t, z, n)
  <2> HIDE DEF z, S, n
  <2>1. Listing(z, n, S, N)
    BY <1>1, <1>2, <1>3 DEF Listing
  <2> QED
    BY <2>1, SelectedBy
<1> HIDE DEF n, S, s
<1> QED
  BY <1>3, <1>4, <1>5 DEF n, S, s

\* The newlines of a stretch.
LEMMA NewlinesOf ==
    ASSUME NEW A, NEW t \in Seq(A), NEW a \in Nat, NEW b \in Nat, 1 <= a, a <= b,
           b <= Len(t) + 1
    PROVE  Newlines(SubSeq(t, a, b - 1)) =
              Selected(t, {i \in a .. b - 1 : t[i] = "LF"})
<1> DEFINE n == b - a
           z == [y \in 1 .. n |-> a + y - 1]
           S == a .. b - 1
           s == SubSeq(t, a, b - 1)
           X == {x \in 1 .. n : s[x] = "LF"}
           Y == {i \in S : t[i] = "LF"}
<1>1. PICK N \in Nat : Len(t) = N
  OBVIOUS
<1>2. n \in Nat /\ S \in SUBSET (1 .. N)
  BY <1>1
<1>3. Enumerates(z, n, S) /\ s = Read(t, z, n)
  BY SelectedStretch
<1>4. DOMAIN s = 1 .. n /\ \A y \in 1 .. n : s[y] = t[a + y - 1]
  BY <1>1, <1>2
<1>5. Newlines(s) = Selected(s, X)
  BY <1>4 DEF Newlines
<1>6. Image(z, X) = Y
  <2>1. \A x \in X : z[x] \in Y
    BY <1>2, <1>4
  <2>2. ASSUME NEW i \in Y PROVE \E x \in X : z[x] = i
    <3>1. i - a + 1 \in 1 .. n /\ a + (i - a + 1) - 1 = i
      BY <1>2
    <3>2. z[i - a + 1] = i /\ i - a + 1 \in X
      BY <1>4, <3>1
    <3> QED
      BY <3>2
  <2> HIDE DEF X, Y, z
  <2> QED
    BY <2>1, <2>2 DEF Image
<1>7. X \in SUBSET (1 .. n)
  OBVIOUS
<1> HIDE DEF n, z, S, s, X, Y
<1>8. Selected(Read(t, z, n), X) = Selected(t, Image(z, X))
  <2>1. ASSUME NEW k \in Nat, NEW f, NEW K \in SUBSET (1 .. N), Enumerates(f, k, K),
               NEW V \in SUBSET (1 .. k)
        PROVE  Selected(Read(t, f, k), V) = Selected(t, Image(f, V))
    BY <1>1, <2>1, SelectedOf
  <2> QED
    BY <1>2, <1>3, <1>7, <2>1
<1> QED
  BY <1>3, <1>5, <1>6, <1>8 DEF s, S, Y

-----------------------------------------------------------------------------
(* Where a scanner leaves literals and comments.                           *)

QuotesFrom(t, i) == {j \in (i + 1)..Len(t) : t[j] = "'"}

OpenerOf(t, i) == SubSeq(t, i, Min(OpenerEnds(t, i)))

ClosersOf(t, i) ==
    {j \in (i + Len(OpenerOf(t, i)))..Len(t) : At(t, j, OpenerOf(t, i))}

\* Where a literal ends: by the kind that starts there, if one does.
LEMMA LiteralEndIs ==
    ASSUME NEW t, NEW i
    PROVE  /\ t[i] = "'" => LiteralEnd(t, i) = 1 + FirstOr(Len(t), QuotesFrom(t, i))
           /\ t[i] # "'" /\ OpenerEnds(t, i) # {} =>
                 LiteralEnd(t, i) =
                    IF ClosersOf(t, i) = {} THEN Len(t) + 1
                    ELSE Min(ClosersOf(t, i)) + Len(OpenerOf(t, i))
           /\ t[i] # "'" /\ OpenerEnds(t, i) = {} => LiteralEnd(t, i) = i
<1>1. CASE t[i] = "'"
  <2>1. t[i] # "$"
    BY <1>1
  <2>2. OpenerEnds(t, i) = {}
    BY <2>1 DEF OpenerEnds
  <2> QED
    BY <1>1, <2>2, Zenon DEF LiteralEnd, QuotesFrom
<1>2. CASE t[i] # "'" /\ OpenerEnds(t, i) # {}
  BY <1>2, Zenon DEF LiteralEnd, OpenerOf, ClosersOf
<1>3. CASE t[i] # "'" /\ OpenerEnds(t, i) = {}
  BY <1>3, Zenon DEF LiteralEnd
<1> QED
  BY <1>1, <1>2, <1>3

\* Between two quotes, or to the end of the text.
Quoted(t, i, j) ==
    /\ t[i] = "'"
    /\ \/ /\ i + 1 < j /\ j <= Len(t) + 1 /\ t[j - 1] = "'"
          /\ \A x \in i + 1 .. j - 2 : t[x] # "'"
       \/ j = Len(t) + 1 /\ \A x \in i + 1 .. Len(t) : t[x] # "'"

IsOpener(t, i, o) ==
    /\ i < o /\ o <= Len(t) /\ t[i] = "$" /\ t[o] = "$"
    /\ \A k \in i + 1 .. o - 1 : t[k] = "a"

\* What stands from i to o stands at c again.
Again(t, i, o, c) ==
    c + (o - i) <= Len(t) /\ \A x \in 0 .. o - i : t[c + x] = t[i + x]

\* Between two openers, or to the end of the text.
Tagged(t, i, o, j) ==
    /\ IsOpener(t, i, o)
    /\ \/ /\ o < j - 1 - (o - i) /\ j <= Len(t) + 1
          /\ Again(t, i, o, j - 1 - (o - i))
          /\ \A c \in o + 1 .. j - 2 - (o - i) : ~ Again(t, i, o, c)
       \/ j = Len(t) + 1 /\ \A c \in o + 1 .. Len(t) : ~ Again(t, i, o, c)

\* The opener of a tagged literal, as the characters it consists of.
LEMMA OpenerIs ==
    ASSUME NEW A, NEW t \in Seq(A), NEW i \in 1 .. Len(t)
    PROVE  /\ \A o \in OpenerEnds(t, i) : o \in Nat /\ IsOpener(t, i, o)
           /\ \A o \in Nat : IsOpener(t, i, o) =>
                 /\ OpenerEnds(t, i) # {} /\ Min(OpenerEnds(t, i)) = o
                 /\ Len(OpenerOf(t, i)) = o - i + 1
                 /\ \A c \in o + 1 .. Len(t) :
                       At(t, c, OpenerOf(t, i)) <=> Again(t, i, o, c)
<1>1. PICK N \in Nat : Len(t) = N
  OBVIOUS
<1> DEFINE S == OpenerEnds(t, i)
<1>2. S = {j \in (i + 1)..N :
              t[i] = "$" /\ t[j] = "$" /\ \A k \in (i + 1)..(j - 1) : t[k] = "a"}
  BY <1>1 DEF OpenerEnds
<1>3. \A o \in S : o \in Nat /\ IsOpener(t, i, o)
  BY <1>1, <1>2 DEF IsOpener
<1>4. \A o \in Nat : IsOpener(t, i, o) => o \in S
  BY <1>1, <1>2 DEF IsOpener
<1>5. ASSUME NEW o \in Nat, IsOpener(t, i, o), NEW p \in Nat, IsOpener(t, i, p)
      PROVE  ~ (o < p)
  <2> SUFFICES ASSUME o < p PROVE FALSE
    OBVIOUS
  <2>1. i < o /\ o \in i + 1 .. p - 1
    BY <1>5 DEF IsOpener
  <2>2. t[o] = "$" /\ t[o] = "a"
    BY <1>5, <2>1 DEF IsOpener
  <2> QED
    BY <2>2
<1> HIDE DEF S
<1>6. ASSUME NEW o \in Nat, IsOpener(t, i, o)
      PROVE  /\ S # {} /\ Min(S) = o /\ Len(OpenerOf(t, i)) = o - i + 1
             /\ \A c \in o + 1 .. N : At(t, c, OpenerOf(t, i)) <=> Again(t, i, o, c)
  <2>1. S # {} /\ S \subseteq Nat
    BY <1>3, <1>4, <1>6
  <2>2. Min(S) \in S
    BY <2>1, LeastOf
  <2>3. Min(S) = o
    <3> DEFINE p == Min(S)
    <3>1. p \in Nat /\ IsOpener(t, i, p)
      BY <1>3, <2>2
    <3> HIDE DEF p
    <3>2. ~ (o < p) /\ ~ (p < o)
      BY <1>5, <1>6, <3>1
    <3>3. p = o
      BY <1>6, <3>1, <3>2
    <3> QED
      BY <3>3 DEF p
  <2> DEFINE w == OpenerOf(t, i)
             l == o - i + 1
  <2>4. w = SubSeq(t, i, o)
    BY <2>3 DEF OpenerOf, S
  <2>5. i < o /\ o <= N
    BY <1>1, <1>6 DEF IsOpener
  <2>6. Len(w) = l /\ l \in Nat /\ DOMAIN w = 1 .. l
        /\ \A y \in 1 .. l : w[y] = t[i + y - 1]
    BY <1>1, <2>4, <2>5
  <2>7. w = [y \in 1 .. l |-> w[y]]
    <3>1. w \in Seq(A)
      BY <1>1, <2>4, <2>5
    <3> QED
      BY <2>6, <3>1
  <2> HIDE DEF w
  <2>8. ASSUME NEW c \in o + 1 .. N
        PROVE  At(t, c, w) <=> Again(t, i, o, c)
    <3> DEFINE v == SubSeq(t, c, c + l - 1)
    <3>1. c + l <= N + 1 <=> c + (o - i) <= N
      BY <1>1, <2>5, <2>6
    <3>2. CASE ~ (c + l <= N + 1)
      BY <1>1, <2>6, <3>1, <3>2 DEF At, Again
    <3>3. CASE c + l <= N + 1
      <4>1. /\ v = [y \in 1 .. l |-> v[y]]
            /\ \A y \in 1 .. l : v[y] = t[c + y - 1]
        <5>1. /\ c \in Nat /\ 1 <= c /\ c + l - 1 <= N /\ c + l - 1 - c + 1 = l
              /\ c + l - 1 \in Nat
          BY <2>5, <2>6, <3>3
        <5> QED
          BY <1>1, <2>6, <5>1
      <4> HIDE DEF v
      <4>2. v = w <=> \A y \in 1 .. l : t[c + y - 1] = t[i + y - 1]
        BY <2>6, <2>7, <4>1
      <4>3. (\A y \in 1 .. l : t[c + y - 1] = t[i + y - 1])
               <=> \A x \in 0 .. o - i : t[c + x] = t[i + x]
        <5>1. ASSUME \A y \in 1 .. l : t[c + y - 1] = t[i + y - 1],
                     NEW x \in 0 .. o - i
              PROVE  t[c + x] = t[i + x]
          <6>1. x + 1 \in 1 .. l /\ c + (x + 1) - 1 = c + x /\ i + (x + 1) - 1 = i + x
            BY <2>6
          <6> QED
            BY <5>1, <6>1
        <5>2. ASSUME \A x \in 0 .. o - i : t[c + x] = t[i + x], NEW y \in 1 .. l
              PROVE  t[c + y - 1] = t[i + y - 1]
          <6>1. y - 1 \in 0 .. o - i /\ c + (y - 1) = c + y - 1 /\ i + (y - 1) = i + y - 1
            BY <2>6
          <6> QED
            BY <5>2, <6>1
        <5> QED
          BY <5>1, <5>2
      <4>4. At(t, c, w) <=> v = w
        BY <1>1, <2>6, <3>3 DEF At, v
      <4>5. Again(t, i, o, c) <=> \A x \in 0 .. o - i : t[c + x] = t[i + x]
        BY <1>1, <3>1, <3>3 DEF Again
      <4> QED
        BY <4>2, <4>3, <4>4, <4>5
    <3> QED
      BY <3>2, <3>3
  <2> QED
    BY <2>1, <2>3, <2>6, <2>8 DEF w
<1> QED
  BY <1>1, <1>3, <1>6 DEF S

\* What LiteralEnd finds is a quoted or a tagged literal (parse.rs:34-245).
LEMMA LiteralFrom ==
    ASSUME NEW A, NEW t \in Seq(A), NEW i \in 1 .. Len(t)
    PROVE  /\ LiteralEnd(t, i) \in i .. Len(t) + 1
           /\ LiteralEnd(t, i) # i =>
                 \/ Quoted(t, i, LiteralEnd(t, i))
                 \/ \E o \in Nat : Tagged(t, i, o, LiteralEnd(t, i))
           /\ t[i] = "'" => LiteralEnd(t, i) # i
           /\ t[i] # "'" /\ t[i] # "$" => LiteralEnd(t, i) = i
<1>1. PICK N \in Nat : Len(t) = N
  OBVIOUS
<1> DEFINE j == LiteralEnd(t, i)
<1>2. CASE t[i] = "'"
  <2> DEFINE Q == QuotesFrom(t, i)
  <2>1. j = 1 + FirstOr(N, Q)
    BY <1>1, <1>2, LiteralEndIs
  <2>2. Q = {k \in i + 1 .. N : t[k] = "'"}
    BY <1>1 DEF QuotesFrom
  <2> HIDE DEF j, Q
  <2>3. CASE Q = {}
    <3>1. j = N + 1
      BY <2>1, <2>3 DEF FirstOr
    <3> QED
      BY <1>1, <1>2, <2>2, <2>3, <3>1 DEF Quoted, j
  <2>4. CASE Q # {}
    <3>1. Q \subseteq Nat
      BY <2>2
    <3> DEFINE q == Min(Q)
    <3>2. q \in Q /\ \A k \in Q : q <= k
      BY <2>4, <3>1, LeastOf
    <3>3. j = 1 + q
      BY <2>1, <2>4 DEF FirstOr
    <3> HIDE DEF q
    <3>4. q \in i + 1 .. N /\ t[q] = "'" /\ q \in Nat
      BY <2>2, <3>2
    <3>5. \A x \in i + 1 .. j - 2 : t[x] # "'"
      <4> SUFFICES ASSUME NEW x \in i + 1 .. j - 2, t[x] = "'" PROVE FALSE
        OBVIOUS
      <4>1. x \in i + 1 .. N /\ x < q
        BY <1>1, <3>3, <3>4
      <4>2. x \in Q
        BY <2>2, <4>1
      <4> QED
        BY <3>2, <3>4, <4>1, <4>2
    <3>6. j - 1 = q /\ i + 1 < j /\ j <= N + 1 /\ j \in i .. N + 1
      BY <1>1, <3>3, <3>4
    <3>7. Quoted(t, i, j)
      BY <1>1, <1>2, <3>4, <3>5, <3>6 DEF Quoted
    <3> QED
      BY <1>1, <1>2, <3>6, <3>7 DEF j
  <2> QED
    BY <2>3, <2>4
<1>3. CASE t[i] # "'" /\ OpenerEnds(t, i) = {}
  <2>1. j = i
    BY <1>3, LiteralEndIs
  <2> QED
    BY <1>1, <1>3, <2>1
<1>4. CASE t[i] # "'" /\ OpenerEnds(t, i) # {}
  <2> DEFINE C == ClosersOf(t, i)
             w == OpenerOf(t, i)
  <2>1. j = IF C = {} THEN N + 1 ELSE Min(C) + Len(w)
    BY <1>1, <1>4, LiteralEndIs
  <2>2. PICK o \in Nat : IsOpener(t, i, o)
    BY <1>4, OpenerIs
  <2>3. /\ Len(w) = o - i + 1
        /\ \A c \in o + 1 .. N : At(t, c, w) <=> Again(t, i, o, c)
    BY <1>1, <2>2, OpenerIs
  <2>4. i < o /\ o <= N /\ t[i] = "$"
    BY <1>1, <2>2 DEF IsOpener
  <2>5. C = {c \in o + 1 .. N : At(t, c, w)}
    <3>1. i + Len(w) = o + 1
      BY <2>3, <2>4
    <3> QED
      BY <1>1, <3>1 DEF ClosersOf
  <2> HIDE DEF C, w, j
  <2>6. C = {c \in o + 1 .. N : Again(t, i, o, c)}
    BY <2>3, <2>5
  <2>7. CASE C = {}
    <3>1. j = N + 1
      BY <2>1, <2>7
    <3>2. \A c \in o + 1 .. N : ~ Again(t, i, o, c)
      BY <2>6, <2>7
    <3>3. Tagged(t, i, o, j)
      BY <1>1, <2>2, <3>1, <3>2 DEF Tagged
    <3> QED
      BY <1>1, <1>4, <2>4, <3>1, <3>3 DEF j
  <2>8. CASE C # {}
    <3>1. C \subseteq Nat
      BY <2>6
    <3> DEFINE q == Min(C)
    <3>2. q \in C /\ \A k \in C : q <= k
      BY <2>8, <3>1, LeastOf
    <3>3. j = q + (o - i + 1)
      BY <2>1, <2>3, <2>8
    <3> HIDE DEF q
    <3>4. q \in o + 1 .. N /\ Again(t, i, o, q) /\ q \in Nat
      BY <2>6, <3>2
    <3>5. j - 1 - (o - i) = q /\ j - 2 - (o - i) = q - 1 /\ o < q
      BY <2>4, <3>3, <3>4
    <3>6. q + (o - i) <= N
      BY <1>1, <3>4 DEF Again
    <3>7. j <= N + 1 /\ j \in i .. N + 1 /\ j # i
      BY <1>1, <2>4, <3>3, <3>4, <3>6
    <3>8. \A c \in o + 1 .. q - 1 : ~ Again(t, i, o, c)
      <4> SUFFICES ASSUME NEW c \in o + 1 .. q - 1, Again(t, i, o, c) PROVE FALSE
        OBVIOUS
      <4>1. c \in o + 1 .. N /\ c < q
        BY <3>4
      <4>2. c \in C
        BY <2>6, <4>1
      <4> QED
        BY <3>2, <3>4, <4>1, <4>2
    <3>9. Tagged(t, i, o, j)
      BY <1>1, <2>2, <3>4, <3>5, <3>7, <3>8 DEF Tagged
    <3> QED
      BY <1>1, <1>4, <2>4, <3>7, <3>9 DEF j
  <2> QED
    BY <2>7, <2>8
<1> QED
  BY <1>2, <1>3, <1>4

\* LiteralEnd finds every quoted and every tagged literal (parse.rs:34-245).
LEMMA LiteralTo ==
    ASSUME NEW A, NEW t \in Seq(A), NEW i \in 1 .. Len(t), NEW j \in Nat
    PROVE  /\ Quoted(t, i, j) => LiteralEnd(t, i) = j
           /\ \A o \in Nat : Tagged(t, i, o, j) => LiteralEnd(t, i) = j
<1>1. PICK N \in Nat : Len(t) = N
  OBVIOUS
<1>2. ASSUME Quoted(t, i, j)
      PROVE  LiteralEnd(t, i) = j
  <2> DEFINE Q == QuotesFrom(t, i)
  <2>1. t[i] = "'"
    BY <1>2 DEF Quoted
  <2>2. LiteralEnd(t, i) = 1 + FirstOr(N, Q)
    BY <1>1, <2>1, LiteralEndIs
  <2>3. Q = {k \in i + 1 .. N : t[k] = "'"}
    BY <1>1 DEF QuotesFrom
  <2> HIDE DEF Q
  <2>4. CASE j = N + 1 /\ \A x \in i + 1 .. N : t[x] # "'"
    <3>1. Q = {}
      BY <2>3, <2>4
    <3> QED
      BY <1>1, <2>2, <2>4, <3>1 DEF FirstOr
  <2>5. CASE /\ i + 1 < j /\ j <= N + 1 /\ t[j - 1] = "'"
             /\ \A x \in i + 1 .. j - 2 : t[x] # "'"
    <3>1. j - 1 \in i + 1 .. N
      BY <1>1, <2>5
    <3>2. j - 1 \in Q /\ Q # {} /\ Q \subseteq Nat
      BY <2>3, <2>5, <3>1
    <3>3. Min(Q) \in Q /\ \A k \in Q : Min(Q) <= k
      BY <3>2, LeastOf
    <3> DEFINE q == Min(Q)
    <3>4. LiteralEnd(t, i) = 1 + q
      BY <2>2, <3>2 DEF FirstOr
    <3> HIDE DEF q
    <3>5. q \in i + 1 .. N /\ t[q] = "'" /\ q <= j - 1
      BY <2>3, <3>2, <3>3 DEF q
    <3>6. ~ (q <= j - 2)
      <4> SUFFICES ASSUME q <= j - 2 PROVE FALSE
        OBVIOUS
      <4>1. q \in i + 1 .. j - 2
        BY <3>5
      <4> QED
        BY <2>5, <3>5, <4>1
    <3> QED
      BY <1>1, <3>4, <3>5, <3>6
  <2> QED
    BY <1>1, <1>2, <2>4, <2>5 DEF Quoted
<1>3. ASSUME NEW o \in Nat, Tagged(t, i, o, j)
      PROVE  LiteralEnd(t, i) = j
  <2> DEFINE C == ClosersOf(t, i)
             w == OpenerOf(t, i)
  <2>1. IsOpener(t, i, o)
    BY <1>3 DEF Tagged
  <2>2. i < o /\ o <= N /\ t[i] = "$"
    BY <1>1, <2>1 DEF IsOpener
  <2>3. /\ Len(w) = o - i + 1 /\ OpenerEnds(t, i) # {}
        /\ \A c \in o + 1 .. N : At(t, c, w) <=> Again(t, i, o, c)
    BY <1>1, <2>1, OpenerIs
  <2>4. LiteralEnd(t, i) = IF C = {} THEN N + 1 ELSE Min(C) + Len(w)
    <3>1. t[i] # "'"
      BY <2>2
    <3> QED
      BY <1>1, <2>3, <3>1, LiteralEndIs
  <2>5. C = {c \in o + 1 .. N : At(t, c, w)}
    <3>1. i + Len(w) = o + 1
      BY <2>2, <2>3
    <3> QED
      BY <1>1, <3>1 DEF ClosersOf
  <2> HIDE DEF C, w
  <2>6. C = {c \in o + 1 .. N : Again(t, i, o, c)}
    BY <2>3, <2>5
  <2>7. CASE j = N + 1 /\ \A c \in o + 1 .. N : ~ Again(t, i, o, c)
    BY <2>4, <2>6, <2>7
  <2>8. CASE /\ o < j - 1 - (o - i) /\ j <= N + 1
             /\ Again(t, i, o, j - 1 - (o - i))
             /\ \A c \in o + 1 .. j - 2 - (o - i) : ~ Again(t, i, o, c)
    <3> DEFINE p == j - 1 - (o - i)
    <3>1. p \in o + 1 .. N
      BY <1>1, <2>2, <2>8
    <3>2. p \in C /\ C # {} /\ C \subseteq Nat
      BY <2>6, <2>8, <3>1
    <3>3. Min(C) \in C /\ \A k \in C : Min(C) <= k
      BY <3>2, LeastOf
    <3> DEFINE q == Min(C)
    <3>4. LiteralEnd(t, i) = q + (o - i + 1)
      BY <2>3, <2>4, <3>2
    <3>5. q \in o + 1 .. N /\ Again(t, i, o, q) /\ q <= p
      BY <2>6, <3>2, <3>3
    <3> HIDE DEF q
    <3>6. ~ (q <= j - 2 - (o - i))
      <4> SUFFICES ASSUME q <= j - 2 - (o - i) PROVE FALSE
        OBVIOUS
      <4>1. q \in o + 1 .. j - 2 - (o - i)
        BY <2>2, <3>1, <3>5
      <4> QED
        BY <2>8, <3>5, <4>1
    <3>7. q = p
      BY <2>2, <3>1, <3>5, <3>6
    <3> QED
      BY <2>2, <3>4, <3>7
  <2> QED
    BY <1>1, <1>3, <2>7, <2>8 DEF Tagged
<1> QED
  BY <1>2, <1>3

\* What stands in t from i up to j stands in u at y, and ends both or neither.
Copied(t, i, j, u, y) ==
    /\ y + (j - i) <= Len(u) + 1
    /\ \A x \in 0 .. j - i - 1 : u[y + x] = t[i + x]
    /\ j = Len(t) + 1 => y + (j - i) = Len(u) + 1

\* A literal is read alike wherever it is copied to.
LEMMA LiteralCopied ==
    ASSUME NEW A, NEW t \in Seq(A), NEW i \in 1 .. Len(t), LiteralEnd(t, i) # i,
           NEW u \in Seq(A), NEW y \in 1 .. Len(u), Copied(t, i, LiteralEnd(t, i), u, y)
    PROVE  LiteralEnd(u, y) = y + (LiteralEnd(t, i) - i)
<1>1. PICK N \in Nat : Len(t) = N
  OBVIOUS
<1>2. PICK M \in Nat : Len(u) = M
  OBVIOUS
<1>3. PICK j \in Nat : j = LiteralEnd(t, i)
  BY <1>1, LiteralFrom
<1>4. j \in i .. N + 1 /\ j # i
  BY <1>1, <1>3, LiteralFrom
<1>5. PICK d \in Int : d = y - i
  BY <1>1, <1>2
<1>6. /\ j + d <= M + 1 /\ y = i + d /\ y \in Nat /\ i \in Nat
      /\ j = N + 1 => j + d = M + 1
  BY <1>1, <1>2, <1>3, <1>4, <1>5 DEF Copied
<1>7. \A a \in i .. j - 1 : u[a + d] = t[a]
  <2> TAKE a \in i .. j - 1
  <2>1. a - i \in 0 .. j - i - 1 /\ y + (a - i) = a + d /\ i + (a - i) = a
    BY <1>4, <1>6
  <2> QED
    BY <1>3, <2>1 DEF Copied
<1>8. j + d \in Nat /\ u[y] = t[i]
  BY <1>4, <1>6, <1>7
<1>9. CASE Quoted(t, i, j)
  <2>1. CASE /\ i + 1 < j /\ j <= N + 1 /\ t[j - 1] = "'"
             /\ \A x \in i + 1 .. j - 2 : t[x] # "'"
    <3>1. u[j + d - 1] = "'"
      <4>1. j - 1 \in i .. j - 1 /\ j - 1 + d = j + d - 1
        BY <1>4, <1>6
      <4> QED
        BY <1>7, <2>1, <4>1
    <3>2. \A x \in y + 1 .. j + d - 2 : u[x] # "'"
      <4> TAKE x \in y + 1 .. j + d - 2
      <4>1. x - d \in i .. j - 1 /\ x - d \in i + 1 .. j - 2 /\ x - d + d = x
        BY <1>4, <1>6
      <4> QED
        BY <1>7, <2>1, <4>1
    <3>3. Quoted(u, y, j + d)
      BY <1>2, <1>4, <1>6, <1>8, <1>9, <2>1, <3>1, <3>2 DEF Quoted
    <3> QED
      BY <1>3, <1>5, <1>6, <1>8, <3>3, LiteralTo
  <2>2. CASE j = N + 1 /\ \A x \in i + 1 .. N : t[x] # "'"
    <3>1. \A x \in y + 1 .. M : u[x] # "'"
      <4> TAKE x \in y + 1 .. M
      <4>1. x - d \in i .. j - 1 /\ x - d \in i + 1 .. N /\ x - d + d = x
        BY <1>4, <1>6, <2>2
      <4> QED
        BY <1>7, <2>2, <4>1
    <3>2. Quoted(u, y, j + d)
      BY <1>2, <1>6, <1>8, <1>9, <2>2, <3>1 DEF Quoted
    <3> QED
      BY <1>3, <1>5, <1>6, <1>8, <3>2, LiteralTo
  <2> QED
    BY <1>1, <1>9, <2>1, <2>2 DEF Quoted
<1>10. ASSUME NEW o \in Nat, Tagged(t, i, o, j)
       PROVE  LiteralEnd(u, y) = j + d
  <2>1. IsOpener(t, i, o)
    BY <1>10 DEF Tagged
  <2>2. i < o /\ o <= N /\ t[i] = "$" /\ t[o] = "$"
        /\ \A k \in i + 1 .. o - 1 : t[k] = "a"
    BY <1>1, <2>1 DEF IsOpener
  <2>3. o < j
    BY <1>1, <1>4, <1>10, <2>2 DEF Tagged
  <2>4. IsOpener(u, y, o + d)
    <3>1. u[o + d] = "$"
      <4>1. o \in i .. j - 1
        BY <2>2, <2>3
      <4> QED
        BY <1>7, <2>2, <4>1
    <3>2. \A k \in y + 1 .. o + d - 1 : u[k] = "a"
      <4> TAKE k \in y + 1 .. o + d - 1
      <4>1. k - d \in i .. j - 1 /\ k - d \in i + 1 .. o - 1 /\ k - d + d = k
        BY <1>4, <1>6, <2>2, <2>3
      <4> QED
        BY <1>7, <2>2, <4>1
    <3> QED
      BY <1>2, <1>6, <1>8, <2>2, <2>3, <3>1, <3>2 DEF IsOpener
  <2>5. ASSUME NEW c \in Nat, i <= c, c + (o - i) < j
        PROVE  Again(u, y, o + d, c + d) <=> Again(t, i, o, c)
    <3>1. o + d - y = o - i /\ c + d + (o - i) <= M /\ c + (o - i) <= N
      BY <1>4, <1>6, <2>2, <2>5
    <3>2. \A x \in 0 .. o - i : u[c + d + x] = t[c + x] /\ u[y + x] = t[i + x]
      <4> TAKE x \in 0 .. o - i
      <4>1. c + x \in i .. j - 1 /\ i + x \in i .. j - 1
            /\ c + x + d = c + d + x /\ i + x + d = y + x
        BY <1>4, <1>6, <2>2, <2>3, <2>5
      <4> QED
        BY <1>7, <4>1
    <3>3. Again(t, i, o, c) <=> \A x \in 0 .. o - i : t[c + x] = t[i + x]
      BY <1>1, <3>1 DEF Again
    <3>4. Again(u, y, o + d, c + d) <=> \A x \in 0 .. o - i : u[c + d + x] = u[y + x]
      <4> DEFINE w == o + d - y
                 e == c + d
      <4>1. Again(u, y, o + d, e) <=>
               e + w <= Len(u) /\ \A x \in 0 .. w : u[e + x] = u[y + x]
        BY DEF Again
      <4>2. w = o - i /\ e + (o - i) <= Len(u)
        BY <1>2, <3>1
      <4> HIDE DEF w, e
      <4>3. Again(u, y, o + d, e) <=> \A x \in 0 .. o - i : u[e + x] = u[y + x]
        BY <4>1, <4>2
      <4> QED
        BY <4>3 DEF e
    <3> QED
      BY <3>2, <3>3, <3>4
  <2>6. o + d \in Nat /\ o + d - y = o - i
    BY <1>6, <2>2
  <2>7. CASE /\ o < j - 1 - (o - i) /\ j <= N + 1
             /\ Again(t, i, o, j - 1 - (o - i))
             /\ \A c \in o + 1 .. j - 2 - (o - i) : ~ Again(t, i, o, c)
    <3> DEFINE p == j - 1 - (o - i)
    <3>1. p \in Nat /\ i <= p /\ p + (o - i) < j /\ p + d = j + d - 1 - (o + d - y)
          /\ o + d < p + d
      BY <1>4, <1>6, <2>2, <2>7
    <3>2. Again(u, y, o + d, j + d - 1 - (o + d - y))
      BY <2>5, <2>7, <3>1
    <3>3. \A c \in o + d + 1 .. j + d - 2 - (o + d - y) : ~ Again(u, y, o + d, c)
      <4> TAKE c \in o + d + 1 .. j + d - 2 - (o + d - y)
      <4>1. c - d \in Nat /\ i <= c - d /\ c - d + (o - i) < j /\ c - d + d = c
            /\ c - d \in o + 1 .. j - 2 - (o - i)
        BY <1>4, <1>6, <2>2, <2>6
      <4> QED
        BY <2>5, <2>7, <4>1
    <3>4. Tagged(u, y, o + d, j + d)
      BY <1>2, <1>6, <2>4, <3>1, <3>2, <3>3 DEF Tagged
    <3> QED
      BY <1>8, <2>6, <3>4, LiteralTo
  <2>8. CASE j = N + 1 /\ \A c \in o + 1 .. N : ~ Again(t, i, o, c)
    <3>1. j + d = M + 1
      BY <1>6, <2>8
    <3>2. \A c \in o + d + 1 .. M : ~ Again(u, y, o + d, c)
      <4> SUFFICES ASSUME NEW c \in o + d + 1 .. M, Again(u, y, o + d, c) PROVE FALSE
        OBVIOUS
      <4>1. c + (o - i) <= M
        BY <1>2, <2>6 DEF Again
      <4>2. c - d \in Nat /\ i <= c - d /\ c - d + (o - i) < j /\ c - d + d = c
            /\ c - d \in o + 1 .. N
        BY <1>4, <1>6, <2>2, <2>6, <2>8, <3>1, <4>1
      <4> QED
        BY <2>5, <2>8, <4>2
    <3>3. Tagged(u, y, o + d, j + d)
      BY <1>2, <2>4, <3>1, <3>2 DEF Tagged
    <3> QED
      BY <1>8, <2>6, <3>3, LiteralTo
  <2> QED
    BY <1>1, <1>10, <2>7, <2>8 DEF Tagged
<1> QED
  BY <1>3, <1>4, <1>5, <1>6, <1>9, <1>10, LiteralFrom

\* Where a comment ends, if one starts at i.
LEMMA CommentTo ==
    ASSUME NEW A, NEW t \in Seq(A), NEW i \in 1 .. Len(t)
    PROVE  CommentEnd(t, i) \in i .. Len(t) + 1
<1>1. PICK N \in Nat : Len(t) = N
  OBVIOUS
<1> DEFINE dash == <<"-", "-">>
           open == <<"/", "*">>
           shut == <<"*", "/">>
           E == {j \in i .. N : t[j] = "LF"}
           C == {j \in i + 2 .. N : At(t, j, shut)}
<1>2. /\ At(t, i, dash) /\ ~ At(t, i, open) => CommentEnd(t, i) = FirstOr(N + 1, E)
      /\ ~ At(t, i, dash) /\ At(t, i, open) =>
            CommentEnd(t, i) = IF C = {} THEN Max({i + 2, N}) ELSE Min(C) + 2
      /\ ~ At(t, i, dash) /\ ~ At(t, i, open) => CommentEnd(t, i) = i
  BY <1>1, Zenon DEF CommentEnd
<1>3. ~ (At(t, i, dash) /\ At(t, i, open))
  <2>1. dash # open
    OBVIOUS
  <2>2. Len(dash) = 2 /\ Len(open) = 2
    OBVIOUS
  <2> HIDE DEF dash, open
  <2> QED
    BY <2>1, <2>2 DEF At
<1>4. E \subseteq Nat /\ C \subseteq Nat /\ \A j \in E : j \in i .. N + 1
  BY <1>1
<1>5. \A j \in C : j + 2 \in i .. N + 1
  <2>1. Len(shut) = 2
    OBVIOUS
  <2> HIDE DEF shut
  <2> QED
    BY <1>1, <2>1 DEF At
<1>6. At(t, i, open) => i + 2 <= N + 1
  <2>1. Len(open) = 2
    OBVIOUS
  <2> HIDE DEF open
  <2> QED
    BY <1>1, <2>1 DEF At
<1> HIDE DEF dash, open, shut, E, C
<1>7. FirstOr(N + 1, E) \in i .. N + 1
  <2>1. E # {} => Min(E) \in E
    BY <1>4, LeastOf
  <2>2. CASE E = {}
    <3>1. FirstOr(N + 1, E) = N + 1
      BY <2>2 DEF FirstOr
    <3> QED
      BY <1>1, <3>1
  <2>3. CASE E # {}
    <3>1. FirstOr(N + 1, E) = Min(E)
      BY <2>3 DEF FirstOr
    <3> QED
      BY <1>4, <2>1, <2>3, <3>1
  <2> QED
    BY <2>2, <2>3
<1>8. C # {} => Min(C) + 2 \in i .. N + 1
  BY <1>4, <1>5, LeastOf
<1>9. At(t, i, open) => Max({i + 2, N}) \in i .. N + 1
  <2> SUFFICES ASSUME At(t, i, open) PROVE Max({i + 2, N}) \in i .. N + 1
    OBVIOUS
  <2> DEFINE S == {i + 2, N}
  <2>1. S \subseteq 1 .. N + 1 /\ S # {} /\ N + 1 \in Nat /\ \A x \in S : x \in i .. N + 1
    BY <1>1, <1>6
  <2> HIDE DEF S
  <2>2. Max(S) \in S
    BY <2>1, LargestNumber
  <2> QED
    BY <2>1, <2>2 DEF S
<1> QED
  BY <1>1, <1>2, <1>3, <1>7, <1>8, <1>9

-----------------------------------------------------------------------------
(* The stretches of a scan.                                                *)

KindAt(t, comments, i) ==
    IF LiteralEnd(t, i) > i THEN "literal"
    ELSE IF comments /\ CommentEnd(t, i) > i THEN "comment" ELSE "code"

NextAt(t, comments, i) ==
    IF LiteralEnd(t, i) > i THEN LiteralEnd(t, i)
    ELSE IF comments /\ CommentEnd(t, i) > i THEN CommentEnd(t, i) ELSE i + 1

StretchAt(t, comments, i) ==
    [kind |-> KindAt(t, comments, i), first |-> i, next |-> NextAt(t, comments, i)]

Stretch(n) ==
    [kind : {"literal", "comment", "code"}, first : 1 .. n, next : 1 .. n + 1]

\* The stretch at a place.
LEMMA StretchTyped ==
    ASSUME NEW A, NEW t \in Seq(A), NEW comments, NEW i \in 1 .. Len(t)
    PROVE  /\ NextAt(t, comments, i) \in i + 1 .. Len(t) + 1
           /\ StretchAt(t, comments, i) \in Stretch(Len(t))
<1>1. PICK N \in Nat : Len(t) = N
  OBVIOUS
<1>2. LiteralEnd(t, i) \in i .. N + 1 /\ CommentEnd(t, i) \in i .. N + 1
  BY <1>1, LiteralFrom, CommentTo
<1>3. NextAt(t, comments, i) \in i + 1 .. N + 1
  BY <1>1, <1>2 DEF NextAt
<1>4. KindAt(t, comments, i) \in {"literal", "comment", "code"}
  BY DEF KindAt
<1> QED
  BY <1>1, <1>3, <1>4 DEF StretchAt, Stretch

\* The equation that the local function of Scan is chosen to solve.
ScanEquation(g, t, comments) ==
    LET Onward(i) == IF LiteralEnd(t, i) = i /\ comments THEN CommentEnd(t, i)
                    ELSE LiteralEnd(t, i)
        Kind(i) == IF LiteralEnd(t, i) > i THEN "literal" ELSE "comment"
    IN  g = [i \in 1 .. (Len(t) + 1) |->
               CASE i > Len(t) -> << >>
                 [] i <= Len(t) /\ Onward(i) > i ->
                       <<[kind |-> Kind(i), first |-> i, next |-> Onward(i)]>>
                           \o g[Onward(i)]
                 [] OTHER -> <<[kind |-> "code", first |-> i, next |-> i + 1]>>
                                 \o g[i + 1]]

ScanFrom(t, comments) == CHOOSE g : ScanEquation(g, t, comments)

\* The scan is what its recursive function has at the first position.
LEMMA ScanIs ==
    ASSUME NEW t, NEW comments
    PROVE  Scan(t, comments) = ScanFrom(t, comments)[1]
BY Zenon DEF Scan, ScanFrom, ScanEquation

\* What a scan makes of the text from i on.
FromHere(g, t, comments, i) ==
    IF i = Len(t) + 1 THEN << >>
    ELSE <<StretchAt(t, comments, i)>> \o g[NextAt(t, comments, i)]

\* The equation of a scan, stretch by stretch.
LEMMA ScanSolves ==
    ASSUME NEW A, NEW t \in Seq(A), NEW comments, NEW g
    PROVE  ScanEquation(g, t, comments) <=>
              g = [i \in 1 .. Len(t) + 1 |-> FromHere(g, t, comments, i)]
<1>1. PICK N \in Nat : Len(t) = N
  OBVIOUS
<1> DEFINE Onward(i) == IF LiteralEnd(t, i) = i /\ comments THEN CommentEnd(t, i)
                       ELSE LiteralEnd(t, i)
           Kind(i) == IF LiteralEnd(t, i) > i THEN "literal" ELSE "comment"
           Here(i) ==
               CASE i > Len(t) -> << >>
                 [] i <= Len(t) /\ Onward(i) > i ->
                       <<[kind |-> Kind(i), first |-> i, next |-> Onward(i)]>>
                           \o g[Onward(i)]
                 [] OTHER -> <<[kind |-> "code", first |-> i, next |-> i + 1]>>
                                 \o g[i + 1]
<1>2. ScanEquation(g, t, comments) <=> g = [i \in 1 .. (Len(t) + 1) |-> Here(i)]
  BY Zenon DEF ScanEquation
<1>3. ASSUME NEW i \in 1 .. N + 1
      PROVE  Here(i) = FromHere(g, t, comments, i)
  <2>1. CASE i = N + 1
    <3>1. i > Len(t) /\ i = Len(t) + 1 /\ ~ (i <= Len(t))
      BY <1>1, <2>1
    <3> QED
      BY <3>1, Zenon DEF FromHere
  <2>2. CASE i # N + 1
    <3>1. i \in 1 .. Len(t) /\ ~ (i > Len(t)) /\ i <= Len(t) /\ i # Len(t) + 1
      BY <1>1, <2>2
    <3>2. LiteralEnd(t, i) \in i .. N + 1 /\ CommentEnd(t, i) \in i .. N + 1
      BY <1>1, <3>1, LiteralFrom, CommentTo
    <3>3. FromHere(g, t, comments, i) =
             <<StretchAt(t, comments, i)>> \o g[NextAt(t, comments, i)]
      BY <3>1, Zenon DEF FromHere
    <3>4. CASE Onward(i) > i
      <4>1. Here(i) = <<[kind |-> Kind(i), first |-> i, next |-> Onward(i)]>> \o g[Onward(i)]
        BY <3>1, <3>4, Zenon
      <4>2. Onward(i) = NextAt(t, comments, i)
        BY <1>1, <3>2, <3>4 DEF NextAt
      <4>3. Kind(i) = KindAt(t, comments, i)
        BY <1>1, <3>2, <3>4 DEF KindAt
      <4> QED
        BY <3>3, <4>1, <4>2, <4>3, Zenon DEF StretchAt
    <3>5. CASE ~ (Onward(i) > i)
      <4>1. Here(i) = <<[kind |-> "code", first |-> i, next |-> i + 1]>> \o g[i + 1]
        BY <3>1, <3>5, Zenon
      <4>2. NextAt(t, comments, i) = i + 1
        BY <1>1, <3>2, <3>5 DEF NextAt
      <4>3. KindAt(t, comments, i) = "code"
        BY <1>1, <3>2, <3>5 DEF KindAt
      <4> QED
        BY <3>3, <4>1, <4>2, <4>3, Zenon DEF StretchAt
    <3> QED
      BY <3>4, <3>5
  <2> QED
    BY <2>1, <2>2
<1>4. 1 .. (Len(t) + 1) = 1 .. N + 1
  BY <1>1
<1> HIDE DEF Here
<1>5. [i \in 1 .. (Len(t) + 1) |-> Here(i)]
         = [i \in 1 .. Len(t) + 1 |-> FromHere(g, t, comments, i)]
  BY <1>3, <1>4
<1> QED
  BY <1>2, <1>5, Zenon

\* The places of a scan: where its stretches start, and the end of the text.
Places(s, t) == {s[k].first : k \in DOMAIN s} \cup {Len(t) + 1}

\* Stretches follow each other: from a place the next one is where the stretch
\* there ends, and no place is between.
Grid(places, t, comments, i) ==
    /\ i \in places
    /\ \A p \in places : p \in i .. Len(t) + 1
    /\ \A p \in places : p # Len(t) + 1 =>
          /\ NextAt(t, comments, p) \in places
          /\ \A q \in places : q <= p \/ NextAt(t, comments, p) <= q

\* The stretches of a scan from i on.
Scanned(s, t, comments, i) ==
    /\ s \in Seq(Stretch(Len(t)))
    /\ Grid(Places(s, t), t, comments, i)
    /\ \A k \in 1 .. Len(s) : s[k] = StretchAt(t, comments, s[k].first)
    /\ i = Len(t) + 1 => Len(s) = 0
    /\ i # Len(t) + 1 =>
          Len(s) > 0 /\ s[1].first = i /\ s[Len(s)].next = Len(t) + 1
    /\ \A k \in 1 .. Len(s) : k # 1 => s[k].first = s[k - 1].next

\* One more place in front: the scan from there.
LEMMA ScannedMore ==
    ASSUME NEW A, NEW t \in Seq(A), NEW comments, NEW i \in 1 .. Len(t), NEW r,
           Scanned(r, t, comments, NextAt(t, comments, i))
    PROVE  Scanned(<<StretchAt(t, comments, i)>> \o r, t, comments, i)
<1>1. PICK N \in Nat : Len(t) = N
  OBVIOUS
<1> DEFINE a == StretchAt(t, comments, i)
           j == NextAt(t, comments, i)
           S == Stretch(N)
           s == <<a>> \o r
<1>2. j \in i + 1 .. N + 1 /\ a \in S
  BY <1>1, StretchTyped
<1>3. a.first = i /\ a.next = j
  BY DEF StretchAt
<1>4. /\ r \in Seq(S)
      /\ Grid(Places(r, t), t, comments, j)
      /\ \A k \in 1 .. Len(r) : r[k] = StretchAt(t, comments, r[k].first)
      /\ j = N + 1 => Len(r) = 0
      /\ j # N + 1 => Len(r) > 0 /\ r[1].first = j /\ r[Len(r)].next = N + 1
      /\ \A k \in 1 .. Len(r) : k # 1 => r[k].first = r[k - 1].next
  BY <1>1 DEF Scanned
<1> HIDE DEF a, j, S
<1>5. PICK m \in Nat : Len(r) = m
  BY <1>4
<1>6. /\ s \in Seq(S) /\ Len(s) = m + 1 /\ s[1] = a
      /\ \A k \in 1 .. m : s[k + 1] = r[k]
  BY <1>2, <1>4, <1>5
<1> HIDE DEF s
<1>7. \A k \in 1 .. m + 1 : k = 1 \/ (k - 1 \in 1 .. m /\ s[k] = r[k - 1])
  <2> TAKE k \in 1 .. m + 1
  <2>1. k = 1 \/ (k - 1 \in 1 .. m /\ k - 1 + 1 = k)
    OBVIOUS
  <2> QED
    BY <1>6, <2>1
<1> DEFINE P == Places(r, t)
           Q == Places(s, t)
<1>8. Q = P \cup {i}
  <2>1. DOMAIN s = 1 .. m + 1 /\ DOMAIN r = 1 .. m
    BY <1>4, <1>5, <1>6
  <2>2. \A x \in Q : x \in P \cup {i}
    <3> TAKE x \in Q
    <3>1. x = N + 1 \/ \E k \in 1 .. m + 1 : x = s[k].first
      BY <1>1, <2>1 DEF Places
    <3>2. ASSUME NEW k \in 1 .. m + 1, x = s[k].first
          PROVE  x \in P \cup {i}
      <4>1. CASE k = 1
        BY <1>3, <1>6, <3>2, <4>1
      <4>2. CASE k # 1
        <5>1. k - 1 \in DOMAIN r /\ x = r[k - 1].first
          BY <1>7, <2>1, <3>2, <4>2
        <5> QED
          BY <5>1 DEF Places
      <4> QED
        BY <4>1, <4>2
    <3> QED
      BY <1>1, <3>1, <3>2 DEF Places
  <2>3. \A x \in P : x \in Q
    <3> TAKE x \in P
    <3>1. x = N + 1 \/ \E k \in 1 .. m : x = r[k].first
      BY <1>1, <2>1 DEF Places
    <3>2. \A k \in 1 .. m : k + 1 \in 1 .. m + 1
      OBVIOUS
    <3> QED
      BY <1>1, <1>6, <2>1, <3>1, <3>2 DEF Places
  <2>4. i \in Q
    <3>1. 1 \in 1 .. m + 1
      OBVIOUS
    <3> QED
      BY <1>3, <1>6, <2>1, <3>1 DEF Places
  <2> QED
    BY <2>2, <2>3, <2>4
<1> HIDE DEF P, Q
<1>9. /\ j \in P
      /\ \A p \in P : p \in j .. N + 1
      /\ \A p \in P : p # N + 1 =>
            /\ NextAt(t, comments, p) \in P
            /\ \A q \in P : q <= p \/ NextAt(t, comments, p) <= q
  BY <1>1, <1>4 DEF Grid, P
<1>10. Grid(Q, t, comments, i)
  <2>1. \A p \in Q : p \in i .. N + 1
    BY <1>1, <1>2, <1>8, <1>9
  <2>2. ASSUME NEW p \in Q, p # N + 1
        PROVE  /\ NextAt(t, comments, p) \in Q
               /\ \A q \in Q : q <= p \/ NextAt(t, comments, p) <= q
    <3>1. CASE p = i
      <4>1. \A q \in P : j <= q
        BY <1>1, <1>2, <1>9
      <4> QED
        BY <1>1, <1>8, <1>9, <3>1, <4>1 DEF j
    <3>2. CASE p \in P
      <4>1. i <= p
        BY <1>1, <2>1
      <4> QED
        BY <1>8, <1>9, <2>2, <3>2, <4>1
    <3> QED
      BY <1>8, <3>1, <3>2
  <2>3. i \in Q
    BY <1>8
  <2> QED
    BY <1>1, <2>1, <2>2, <2>3 DEF Grid
<1>11. \A k \in 1 .. m + 1 : s[k] = StretchAt(t, comments, s[k].first)
  BY <1>3, <1>4, <1>5, <1>6, <1>7 DEF a
<1>12. s[m + 1].next = N + 1
  <2>1. CASE j = N + 1
    BY <1>3, <1>4, <1>5, <1>6, <2>1
  <2>2. CASE j # N + 1
    <3>1. m > 0 /\ r[m].next = N + 1
      BY <1>4, <1>5, <2>2
    <3>2. m + 1 \in 1 .. m + 1 /\ m + 1 # 1 /\ m + 1 - 1 = m
      BY <3>1
    <3> QED
      BY <1>7, <3>1, <3>2
  <2> QED
    BY <2>1, <2>2
<1>13. ASSUME NEW k \in 1 .. m + 1, k # 1
       PROVE  s[k].first = s[k - 1].next
  <2>1. k - 1 \in 1 .. m /\ s[k] = r[k - 1] /\ k - 1 \in 1 .. m + 1
    BY <1>7, <1>13
  <2>2. CASE k = 2
    <3>1. r[1].first = j
      BY <1>1, <1>2, <1>4, <1>5, <2>1
    <3> QED
      BY <1>3, <1>6, <2>1, <2>2, <3>1
  <2>3. CASE k # 2
    <3>1. k - 1 # 1 /\ s[k - 1] = r[k - 1 - 1]
      BY <1>7, <1>13, <2>1, <2>3
    <3> QED
      BY <1>4, <1>5, <2>1, <3>1
  <2> QED
    BY <2>2, <2>3
<1>14. i # N + 1 /\ m + 1 > 0
  BY <1>1
<1> QED
  BY <1>1, <1>3, <1>6, <1>10, <1>11, <1>12, <1>13, <1>14 DEF Scanned, Q, s, S, a

\* The stretches of a scan touch each other and cover the text.
LEMMA ScanTiles ==
    ASSUME NEW A, NEW t \in Seq(A), NEW comments
    PROVE  Scanned(Scan(t, comments), t, comments, 1)
<1>1. PICK N \in Nat : Len(t) = N
  OBVIOUS
<1> DEFINE C == Seq(Stretch(N))
           B == [1 .. N + 1 -> C]
           none == [i \in 1 .. N + 1 |-> << >>]
           Set(x, k) == [x EXCEPT ![N + 1 - k] = FromHere(x, t, comments, N + 1 - k)]
           step == [k \in 1 .. N |-> [x \in B |-> Set(x, k)]]
<1>2. << >> \in C
  OBVIOUS
<1>3. ASSUME NEW x \in B, NEW i \in 1 .. N
      PROVE  FromHere(x, t, comments, i) \in C
  <2> DEFINE a == StretchAt(t, comments, i)
             j == NextAt(t, comments, i)
  <2>1. j \in 1 .. N + 1 /\ a \in Stretch(N)
    BY <1>1, StretchTyped
  <2>2. FromHere(x, t, comments, i) = <<a>> \o x[j]
    BY <1>1 DEF FromHere
  <2> HIDE DEF a, j
  <2>3. x[j] \in Seq(Stretch(N))
    BY <2>1
  <2>4. <<a>> \o x[j] \in Seq(Stretch(N))
    BY <2>1, <2>3
  <2> QED
    BY <2>2, <2>4
<1> HIDE DEF C
<1>4. ASSUME NEW k \in 1 .. N, NEW x \in B
      PROVE  /\ Set(x, k) \in B
             /\ Set(x, k)[N + 1 - k] = FromHere(x, t, comments, N + 1 - k)
             /\ \A i \in 1 .. N + 1 : i # N + 1 - k => Set(x, k)[i] = x[i]
  <2>1. N + 1 - k \in 1 .. N /\ N + 1 - k \in 1 .. N + 1
    OBVIOUS
  <2>2. FromHere(x, t, comments, N + 1 - k) \in C
    BY <1>3, <2>1
  <2> QED
    BY <2>1, <2>2
<1>5. none \in B
  BY <1>2
<1>6. \A k \in 1 .. N : \A x \in B : step[k][x] = Set(x, k)
  OBVIOUS
<1>7. Steps(step, 1 .. N, B)
  <2> HIDE DEF Set, B
  <2> QED
    BY <1>4 DEF Steps
<1>8. PICK run : Runs(run, N, B, none, step)
  <2> HIDE DEF none, step, B
  <2> QED
    BY <1>5, <1>7, RunExists
<1>9. /\ run \in [0 .. N -> B] /\ run[0] = none
      /\ \A k \in 1 .. N : run[k] = step[k][run[k - 1]]
  BY <1>8, Zenon DEF Runs
<1> HIDE DEF step, Set
<1>10. \A k \in 1 .. N : k - 1 \in 0 .. N /\ run[k - 1] \in B /\ run[k] = Set(run[k - 1], k)
  <2>1. \A k \in 1 .. N : k - 1 \in 0 .. N
    OBVIOUS
  <2> HIDE DEF B, none
  <2> QED
    BY <1>6, <1>9, <2>1
<1> DEFINE Fits(g, i) == g[i] = FromHere(g, t, comments, i)
           Good == {k \in 0 .. N : \A i \in N + 1 - k .. N + 1 : Fits(run[k], i)}
<1>11. 0 \in Good
  <2>1. run[0][N + 1] = << >>
    BY <1>9
  <2>2. FromHere(run[0], t, comments, N + 1) = << >>
    BY <1>1 DEF FromHere
  <2>3. 0 \in 0 .. N /\ \A i \in N + 1 - 0 .. N + 1 : i = N + 1
    OBVIOUS
  <2> QED
    BY <2>1, <2>2, <2>3
<1>12. ASSUME NEW k \in 1 .. N, k - 1 \in Good
       PROVE  k \in Good
  <2> DEFINE x == run[k - 1]
             y == run[k]
             p == N + 1 - k
  <2>1. x \in B /\ y = Set(x, k)
    BY <1>10
  <2>2. \A i \in N + 1 - (k - 1) .. N + 1 : Fits(x, i)
    BY <1>12
  <2>3. p \in 1 .. N /\ p \in Nat /\ k \in 0 .. N
    OBVIOUS
  <2> HIDE DEF x, y, B
  <2>4. /\ y[p] = FromHere(x, t, comments, p)
        /\ \A i \in 1 .. N + 1 : i # p => y[i] = x[i]
    BY <1>4, <2>1
  <2> HIDE DEF p
  <2>5. ASSUME NEW i \in p .. N + 1
        PROVE  FromHere(y, t, comments, i) = FromHere(x, t, comments, i)
    <3>1. CASE i = N + 1
      BY <1>1, <3>1 DEF FromHere
    <3>2. CASE i # N + 1
      <4>1. i \in 1 .. N
        BY <2>3, <3>2
      <4>2. NextAt(t, comments, i) \in i + 1 .. N + 1
        BY <1>1, <4>1, StretchTyped
      <4>3. y[NextAt(t, comments, i)] = x[NextAt(t, comments, i)]
        BY <2>3, <2>4, <4>2
      <4> QED
        BY <4>3, Zenon DEF FromHere
    <3> QED
      BY <3>1, <3>2
  <2>6. ASSUME NEW i \in p .. N + 1
        PROVE  Fits(y, i)
    <3>1. CASE i = p
      BY <2>4, <2>5, <3>1
    <3>2. CASE i # p
      <4>1. i \in N + 1 - (k - 1) .. N + 1 /\ i \in 1 .. N + 1
        BY <2>3, <3>2 DEF p
      <4> QED
        BY <2>2, <2>4, <2>5, <3>2, <4>1
    <3> QED
      BY <3>1, <3>2
  <2> QED
    BY <2>3, <2>6 DEF y, p
<1> HIDE DEF Good
<1>13. \A k \in 0 .. N : k \in Good
  BY <1>11, <1>12, Upto
<1> DEFINE f == run[N]
<1>14. f \in B /\ \A i \in 1 .. N + 1 : Fits(f, i)
  <2>1. N \in 0 .. N /\ N + 1 - N = 1
    OBVIOUS
  <2>2. N \in Good
    BY <1>13, <2>1
  <2>3. \A i \in N + 1 - N .. N + 1 : Fits(f, i)
    BY <2>2 DEF Good
  <2> HIDE DEF B
  <2> QED
    BY <1>9, <2>1, <2>3
<1>15. ScanEquation(f, t, comments)
  <2>1. f = [i \in 1 .. N + 1 |-> f[i]]
    BY <1>14
  <2> HIDE DEF f
  <2>2. f = [i \in 1 .. N + 1 |-> FromHere(f, t, comments, i)]
    BY <1>14, <2>1, Zenon
  <2> QED
    BY <1>1, <2>2, ScanSolves
<1> HIDE DEF f
<1> DEFINE g == ScanFrom(t, comments)
<1>16. ScanEquation(g, t, comments)
  BY <1>15, Zenon DEF ScanFrom
<1> HIDE DEF g
<1>17. \A i \in 1 .. N + 1 : g[i] = FromHere(g, t, comments, i)
  <2>1. g = [i \in 1 .. N + 1 |-> FromHere(g, t, comments, i)]
    BY <1>1, <1>16, ScanSolves
  <2> QED
    BY <2>1, Zenon
<1> DEFINE Tiled == {k \in 0 .. N : \A i \in N + 1 - k .. N + 1 :
                                       Scanned(g[i], t, comments, i)}
<1>18. 0 \in Tiled
  <2>1. N + 1 \in 1 .. N + 1 /\ 0 \in 0 .. N
        /\ \A i \in N + 1 - 0 .. N + 1 : i = N + 1
    OBVIOUS
  <2>2. g[N + 1] = << >>
    BY <1>1, <1>17, <2>1 DEF FromHere
  <2>3. Places(<< >>, t) = {N + 1}
    BY <1>1 DEF Places
  <2>4. Grid({N + 1}, t, comments, N + 1)
    BY <1>1 DEF Grid
  <2>5. Scanned(<< >>, t, comments, N + 1)
    <3> DEFINE e == << >>
               S == Stretch(Len(t))
    <3>1. e \in Seq(S) /\ Len(e) = 0 /\ \A k \in 1 .. Len(e) : FALSE
      OBVIOUS
    <3>2. Grid(Places(e, t), t, comments, N + 1)
      BY <2>3, <2>4
    <3> HIDE DEF e
    <3> QED
      BY <1>1, <3>1, <3>2 DEF Scanned, S, e
  <2> QED
    BY <2>1, <2>2, <2>5
<1>19. ASSUME NEW k \in 1 .. N, k - 1 \in Tiled
       PROVE  k \in Tiled
  <2> DEFINE p == N + 1 - k
  <2>1. p \in 1 .. N /\ k \in 0 .. N
    OBVIOUS
  <2>2. \A i \in p + 1 .. N + 1 : Scanned(g[i], t, comments, i)
    <3>1. N + 1 - (k - 1) = p + 1
      OBVIOUS
    <3> QED
      BY <1>19, <3>1
  <2> HIDE DEF p
  <2>3. NextAt(t, comments, p) \in p + 1 .. N + 1
    BY <1>1, <2>1, StretchTyped
  <2>4. g[p] = <<StretchAt(t, comments, p)>> \o g[NextAt(t, comments, p)]
    <3>1. p \in 1 .. N + 1 /\ p # Len(t) + 1
      BY <1>1, <2>1
    <3> QED
      BY <1>17, <3>1, Zenon DEF FromHere
  <2>5. Scanned(g[NextAt(t, comments, p)], t, comments, NextAt(t, comments, p))
    BY <2>2, <2>3
  <2>6. Scanned(g[p], t, comments, p)
    BY <1>1, <2>1, <2>4, <2>5, ScannedMore
  <2>7. \A i \in p .. N + 1 : i = p \/ i \in p + 1 .. N + 1
    BY <2>1
  <2>8. \A i \in p .. N + 1 : Scanned(g[i], t, comments, i)
    BY <2>2, <2>6, <2>7
  <2> QED
    BY <2>1, <2>8 DEF p
<1> HIDE DEF Tiled
<1>20. \A k \in 0 .. N : k \in Tiled
  BY <1>18, <1>19, Upto
<1>21. Scanned(g[1], t, comments, 1)
  <2>1. N \in 0 .. N /\ 1 \in N + 1 - N .. N + 1
    OBVIOUS
  <2>2. N \in Tiled
    BY <1>20, <2>1
  <2> QED
    BY <2>1, <2>2 DEF Tiled
<1> QED
  BY <1>21, ScanIs DEF g

PlacesOf(t, comments) == Places(Scan(t, comments), t)

\* The stretch that starts at p has position x.
Lies(t, comments, x, p) ==
    p \in PlacesOf(t, comments) /\ p <= x /\ x < NextAt(t, comments, p)

\* The first place, the next ones, and that there are no others.
LEMMA PlacesAre ==
    ASSUME NEW A, NEW t \in Seq(A), NEW comments
    PROVE  /\ 1 \in PlacesOf(t, comments)
           /\ PlacesOf(t, comments) \subseteq 1 .. Len(t) + 1
           /\ \A p \in PlacesOf(t, comments) : p # Len(t) + 1 =>
                 /\ NextAt(t, comments, p) \in PlacesOf(t, comments)
                 /\ NextAt(t, comments, p) \in p + 1 .. Len(t) + 1
                 /\ \A q \in PlacesOf(t, comments) :
                       q <= p \/ NextAt(t, comments, p) <= q
<1>1. PICK N \in Nat : Len(t) = N
  OBVIOUS
<1> DEFINE P == PlacesOf(t, comments)
<1>2. Grid(P, t, comments, 1)
  BY ScanTiles, Zenon DEF Scanned, PlacesOf
<1> HIDE DEF P
<1>3. /\ 1 \in P /\ P \subseteq 1 .. N + 1
      /\ \A p \in P : p # N + 1 =>
            /\ NextAt(t, comments, p) \in P
            /\ \A q \in P : q <= p \/ NextAt(t, comments, p) <= q
  BY <1>1, <1>2 DEF Grid
<1>4. \A p \in P : p # N + 1 => NextAt(t, comments, p) \in p + 1 .. N + 1
  <2>1. \A p \in P : p # N + 1 => p \in 1 .. N
    BY <1>3
  <2> QED
    BY <1>1, <2>1, StretchTyped
<1> QED
  BY <1>1, <1>3, <1>4 DEF P

\* Every position of the text lies in one stretch.
LEMMA InOneStretch ==
    ASSUME NEW A, NEW t \in Seq(A), NEW comments, NEW x \in 1 .. Len(t)
    PROVE  /\ \E p \in 1 .. Len(t) : Lies(t, comments, x, p)
           /\ \A p, q : Lies(t, comments, x, p) /\ Lies(t, comments, x, q) => p = q
           /\ \A p : Lies(t, comments, x, p) => p \in 1 .. Len(t)
<1>1. PICK N \in Nat : Len(t) = N
  OBVIOUS
<1> DEFINE P == PlacesOf(t, comments)
           S == {p \in P : p <= x}
           q == Max(S)
<1>2. /\ 1 \in P /\ P \subseteq 1 .. N + 1
      /\ \A p \in P : p # N + 1 =>
            /\ NextAt(t, comments, p) \in P
            /\ NextAt(t, comments, p) \in p + 1 .. N + 1
            /\ \A r \in P : r <= p \/ NextAt(t, comments, p) <= r
  BY <1>1, PlacesAre
<1> HIDE DEF P
<1>3. S \subseteq 1 .. N + 1 /\ S # {} /\ 1 \in S
  <2>1. 1 <= x /\ P \subseteq 1 .. N + 1 /\ 1 \in P
    BY <1>1, <1>2
  <2> QED
    BY <2>1
<1>4. q \in S /\ \A i \in S : i <= q
  <2> HIDE DEF S
  <2>1. N + 1 \in Nat
    BY <1>1
  <2> QED
    BY <1>3, <2>1, LargestNumber
<1> HIDE DEF q
<1>5. q \in P /\ q \in 1 .. N /\ q # N + 1 /\ q <= x
  BY <1>1, <1>2, <1>4
<1>6. ~ (NextAt(t, comments, q) <= x)
  <2> SUFFICES ASSUME NextAt(t, comments, q) <= x PROVE FALSE
    OBVIOUS
  <2>1. NextAt(t, comments, q) \in S /\ NextAt(t, comments, q) \in q + 1 .. N + 1
    BY <1>2, <1>5
  <2>2. NextAt(t, comments, q) <= q
    BY <1>4, <2>1
  <2> QED
    BY <1>5, <2>1, <2>2
<1>7. Lies(t, comments, x, q)
  <2>1. NextAt(t, comments, q) \in q + 1 .. N + 1
    BY <1>2, <1>5
  <2>2. x < NextAt(t, comments, q)
    BY <1>1, <1>5, <1>6, <2>1
  <2> QED
    BY <1>5, <2>2 DEF Lies, P
<1>8. ASSUME NEW p, Lies(t, comments, x, p)
      PROVE  p \in P /\ p \in 1 .. N /\ p # N + 1 /\ p <= x /\ x < NextAt(t, comments, p)
  <2>1. p \in P /\ p <= x /\ x < NextAt(t, comments, p)
    BY <1>8 DEF Lies, P
  <2> QED
    BY <1>1, <1>2, <2>1
<1>9. ASSUME NEW p, Lies(t, comments, x, p), NEW r, Lies(t, comments, x, r)
      PROVE  p = r
  <2>1. /\ p \in P /\ p \in 1 .. N /\ p # N + 1 /\ p <= x /\ x < NextAt(t, comments, p)
        /\ r \in P /\ r \in 1 .. N /\ r # N + 1 /\ r <= x /\ x < NextAt(t, comments, r)
    BY <1>8, <1>9
  <2>2. NextAt(t, comments, p) \in p + 1 .. N + 1 /\ NextAt(t, comments, r) \in r + 1 .. N + 1
        /\ (r <= p \/ NextAt(t, comments, p) <= r)
        /\ (p <= r \/ NextAt(t, comments, r) <= p)
    BY <1>2, <2>1
  <2> QED
    BY <1>1, <2>1, <2>2
<1> QED
  BY <1>1, <1>5, <1>7, <1>8, <1>9

\* Which positions a scan puts in the stretches of a kind.
LEMMA WithinIs ==
    ASSUME NEW A, NEW t \in Seq(A), NEW comments, NEW of
    PROVE  /\ Within(t, comments, of) \subseteq 1 .. Len(t)
           /\ \A x \in 1 .. Len(t) : \A p : Lies(t, comments, x, p) =>
                 (x \in Within(t, comments, of) <=> KindAt(t, comments, p) = of)
<1>1. PICK N \in Nat : Len(t) = N
  OBVIOUS
<1> DEFINE s == Scan(t, comments)
           W == Within(t, comments, of)
<1>2. /\ s \in Seq(Stretch(N))
      /\ \A k \in 1 .. Len(s) : s[k] = StretchAt(t, comments, s[k].first)
  BY <1>1, ScanTiles DEF Scanned
<1>3. W = UNION {stretch.first..(stretch.next - 1) :
                    stretch \in {r \in ToSet(s) : r.kind = of}}
  BY Zenon DEF Within
<1>4. ToSet(s) = {s[k] : k \in DOMAIN s}
  BY Zenon DEF ToSet
<1>5. PlacesOf(t, comments) = {s[k].first : k \in DOMAIN s} \cup {N + 1}
  BY <1>1 DEF PlacesOf, Places
<1> HIDE DEF s, W
<1>6. PICK m \in Nat : Len(s) = m /\ DOMAIN s = 1 .. m
  <2> DEFINE S == Stretch(N)
  <2> HIDE DEF S
  <2>1. s \in Seq(S)
    BY <1>2 DEF S
  <2> QED
    BY <2>1
<1>7. \A k \in 1 .. m : s[k].first \in 1 .. N
  <2>1. \A k \in 1 .. m : s[k] \in Stretch(N)
    <3> DEFINE S == Stretch(N)
    <3> HIDE DEF S
    <3>1. s \in Seq(S)
      BY <1>2 DEF S
    <3>2. \A k \in 1 .. m : s[k] \in S
      BY <1>6, <3>1
    <3> QED
      BY <3>2 DEF S
  <2> QED
    BY <2>1 DEF Stretch
<1>8. \A k \in 1 .. m : /\ s[k].kind = KindAt(t, comments, s[k].first)
                        /\ s[k].next = NextAt(t, comments, s[k].first)
                        /\ s[k].first \in PlacesOf(t, comments)
  <2>1. \A k \in 1 .. m : s[k] = StretchAt(t, comments, s[k].first)
    BY <1>2, <1>6
  <2>2. \A i : /\ StretchAt(t, comments, i).kind = KindAt(t, comments, i)
               /\ StretchAt(t, comments, i).next = NextAt(t, comments, i)
    BY DEF StretchAt
  <2> QED
    BY <1>5, <1>6, <2>1, <2>2
<1>9. \A k \in 1 .. m : s[k].next \in 1 .. N + 1
  <2>1. \A i \in 1 .. N : NextAt(t, comments, i) \in i + 1 .. N + 1
    BY <1>1, StretchTyped
  <2> QED
    BY <1>1, <1>7, <1>8, <2>1
<1>10. ASSUME NEW x \in W
       PROVE  x \in 1 .. N /\ \E p : Lies(t, comments, x, p) /\ KindAt(t, comments, p) = of
  <2>1. PICK k \in 1 .. m : s[k].kind = of /\ x \in s[k].first .. (s[k].next - 1)
    BY <1>3, <1>4, <1>6
  <2>2. x \in 1 .. N /\ s[k].first <= x /\ x < s[k].next
    BY <1>1, <1>7, <1>9, <2>1
  <2>3. Lies(t, comments, x, s[k].first)
    BY <1>8, <2>2 DEF Lies
  <2> QED
    BY <1>8, <2>1, <2>2, <2>3
<1>11. ASSUME NEW x \in 1 .. N, NEW p, Lies(t, comments, x, p), KindAt(t, comments, p) = of
       PROVE  x \in W
  <2>1. p \in PlacesOf(t, comments) /\ p <= x /\ x < NextAt(t, comments, p) /\ p \in 1 .. N
    BY <1>1, <1>11, InOneStretch DEF Lies
  <2>2. PICK k \in 1 .. m : p = s[k].first
    BY <1>1, <1>5, <1>6, <2>1
  <2>3. s[k].kind = of /\ x \in s[k].first .. (s[k].next - 1)
    BY <1>1, <1>7, <1>8, <1>9, <1>11, <2>1, <2>2
  <2> QED
    BY <1>3, <1>4, <1>6, <2>3
<1>12. ASSUME NEW x \in 1 .. N, NEW p, Lies(t, comments, x, p), x \in W
       PROVE  KindAt(t, comments, p) = of
  <2>1. PICK q : Lies(t, comments, x, q) /\ KindAt(t, comments, q) = of
    BY <1>10, <1>12
  <2>2. p = q
    BY <1>1, <1>12, <2>1, InOneStretch
  <2> QED
    BY <2>1, <2>2
<1> QED
  BY <1>1, <1>10, <1>11, <1>12 DEF W

\* The scanners of strip_comments and split_statements; named, so that no
\* Boolean is a parameter where the provers see it.
WithComments == TRUE
LiteralsOnly == FALSE

\* The positions that strip_comments keeps.
KeptOf(t) == DOMAIN t \ InComments(t)

\* What strip_comments leaves of the stretch at a.
LeftAt(t, a) ==
    IF KindAt(t, WithComments, a) = "comment"
    THEN Newlines(SubSeq(t, a, NextAt(t, WithComments, a) - 1))
    ELSE SubSeq(t, a, NextAt(t, WithComments, a) - 1)

\* What strip_comments leaves of a stretch (parse.rs:34-136).
LEMMA LeftIs ==
    ASSUME NEW A, NEW t \in Seq(A), NEW a \in 1 .. Len(t), a \in PlacesOf(t, WithComments)
    PROVE  /\ LeftAt(t, a) = Selected(t, KeptOf(t) \cap (a .. NextAt(t, WithComments, a) - 1))
           /\ KindAt(t, WithComments, a) # "comment" =>
                 a .. NextAt(t, WithComments, a) - 1 \subseteq KeptOf(t)
<1>1. PICK N \in Nat : Len(t) = N /\ DOMAIN t = 1 .. N
  OBVIOUS
<1>2. PICK b \in Nat : b = NextAt(t, WithComments, a) /\ b \in a + 1 .. N + 1
  BY <1>1, StretchTyped
<1>3. \A x \in a .. b - 1 : x \in 1 .. N /\ a <= x /\ x < b
  BY <1>1, <1>2
<1>4. \A x \in a .. b - 1 : x \in 1 .. N /\ Lies(t, WithComments, x, a)
  BY <1>2, <1>3 DEF Lies
<1>5. \A x \in a .. b - 1 : x \in Within(t, WithComments, "comment") <=>
                               KindAt(t, WithComments, a) = "comment"
  <2> TAKE x \in a .. b - 1
  <2>1. x \in 1 .. Len(t) /\ Lies(t, WithComments, x, a)
    BY <1>1, <1>4
  <2> QED
    BY <2>1, WithinIs
<1> DEFINE S == KeptOf(t) \cap (a .. b - 1)
<1>6. \A x \in a .. b - 1 : x \in S <=> ~ (KindAt(t, WithComments, a) = "comment" /\ t[x] # "LF")
  <2>1. InComments(t) = {x \in Within(t, WithComments, "comment") : t[x] # "LF"}
    BY Zenon DEF InComments, WithComments
  <2> QED
    BY <1>1, <1>4, <1>5, <2>1 DEF KeptOf
<1>7. a \in Nat /\ 1 <= a /\ a <= b /\ b <= Len(t) + 1
  BY <1>1, <1>2
<1> DEFINE w == SubSeq(t, a, b - 1)
<1>8. LeftAt(t, a) = IF KindAt(t, WithComments, a) = "comment" THEN Newlines(w) ELSE w
  BY <1>2 DEF LeftAt
<1> HIDE DEF w
<1>9. CASE KindAt(t, WithComments, a) = "comment"
  <2>1. S = {x \in a .. b - 1 : t[x] = "LF"}
    BY <1>6, <1>9
  <2>2. Newlines(w) = Selected(t, {x \in a .. b - 1 : t[x] = "LF"})
    BY <1>2, <1>7, NewlinesOf DEF w
  <2> QED
    BY <1>2, <1>8, <1>9, <2>1, <2>2
<1>10. CASE KindAt(t, WithComments, a) # "comment"
  <2>1. S = a .. b - 1
    BY <1>6, <1>10
  <2>2. w = Selected(t, a .. b - 1)
    BY <1>2, <1>7, SelectedStretch DEF w
  <2> QED
    BY <1>2, <1>8, <1>10, <2>1, <2>2
<1> QED
  BY <1>9, <1>10

\* Positions of a text, one set before the other.
Before(S, T, N) ==
    S \in SUBSET (1 .. N) /\ T \in SUBSET (1 .. N) /\ \A i \in S : \A j \in T : i < j

\* Selections of a text before and behind a position, joined.
LEMMA JoinedBy ==
    ASSUME NEW A, NEW t \in Seq(A), NEW S, NEW T, Before(S, T, Len(t))
    PROVE  Selected(t, S \cup T) = Selected(t, S) \o Selected(t, T)
<1>1. S \in SUBSET (1 .. Len(t)) /\ T \in SUBSET (1 .. Len(t))
      /\ \A i \in S : \A j \in T : i < j
  BY DEF Before
<1> QED
  BY <1>1, SelectedJoin

\* What strip_comments leaves is the selection of what is kept (parse.rs:34-136).
LEMMA StripIs ==
    ASSUME NEW A, NEW t \in Seq(A)
    PROVE  /\ KeptOf(t) \in SUBSET (1 .. Len(t))
           /\ WithoutComments(t) = Selected(t, KeptOf(t))
           /\ WithoutComments(t) \in Seq(A)
<1>1. PICK N \in Nat : Len(t) = N /\ DOMAIN t = 1 .. N
  OBVIOUS
<1> DEFINE s == Scan(t, WithComments)
           K == KeptOf(t)
           P == PlacesOf(t, WithComments)
           Part(r) == SubSeq(t, r.first, r.next - 1)
           Left(r) == IF r.kind = "comment" THEN Newlines(Part(r)) ELSE Part(r)
           seqs == [k \in DOMAIN s |-> Left(s[k])]
<1>2. WithoutComments(t) = FlattenSeq(seqs)
  BY Zenon DEF WithoutComments, WithComments
<1>3. K = 1 .. N \ InComments(t) /\ K \in SUBSET (1 .. N)
  BY <1>1 DEF KeptOf
<1>4. /\ s \in Seq(Stretch(N))
      /\ \A k \in 1 .. Len(s) : s[k] = StretchAt(t, WithComments, s[k].first)
      /\ N = 0 => Len(s) = 0
      /\ N # 0 => Len(s) > 0 /\ s[1].first = 1 /\ s[Len(s)].next = N + 1
      /\ \A k \in 1 .. Len(s) : k # 1 => s[k].first = s[k - 1].next
  <2>1. Scanned(Scan(t, WithComments), t, WithComments, 1)
    BY ScanTiles
  <2>2. 1 = N + 1 <=> N = 0
    OBVIOUS
  <2> QED
    BY <1>1, <2>1, <2>2 DEF Scanned
<1>5. PICK m \in Nat : Len(s) = m /\ DOMAIN s = 1 .. m /\ \A k \in 1 .. m : s[k] \in Stretch(N)
  <2> DEFINE S == Stretch(N)
  <2> HIDE DEF S, s
  <2>1. s \in Seq(S)
    BY <1>4 DEF S
  <2>2. Len(s) \in Nat /\ DOMAIN s = 1 .. Len(s) /\ \A k \in 1 .. Len(s) : s[k] \in S
    BY <2>1
  <2> QED
    BY <2>2 DEF S
<1>6. P = {s[k].first : k \in DOMAIN s} \cup {N + 1}
  BY <1>1 DEF PlacesOf, Places
<1> HIDE DEF s, K, P
<1>7. ASSUME NEW k \in 1 .. m
      PROVE  /\ s[k].first \in 1 .. N /\ s[k].first \in P
             /\ s[k].kind = KindAt(t, WithComments, s[k].first)
             /\ s[k].next = NextAt(t, WithComments, s[k].first)
             /\ s[k].next \in s[k].first + 1 .. N + 1
  <2>1. s[k].first \in 1 .. N
    BY <1>5 DEF Stretch
  <2>2. s[k] = StretchAt(t, WithComments, s[k].first)
    BY <1>4, <1>5
  <2>3. /\ s[k].kind = KindAt(t, WithComments, s[k].first)
        /\ s[k].next = NextAt(t, WithComments, s[k].first)
    <3> DEFINE i == s[k].first
    <3>1. s[k] = StretchAt(t, WithComments, i)
      BY <2>2
    <3> HIDE DEF i
    <3>2. s[k].kind = KindAt(t, WithComments, i) /\ s[k].next = NextAt(t, WithComments, i)
      BY <3>1 DEF StretchAt
    <3> QED
      BY <3>2 DEF i
  <2>4. NextAt(t, WithComments, s[k].first) \in s[k].first + 1 .. N + 1
    BY <1>1, <2>1, StretchTyped
  <2>5. s[k].first \in P
    BY <1>5, <1>6
  <2> QED
    BY <2>1, <2>3, <2>4, <2>5
<1>8. ASSUME NEW k \in 1 .. m
      PROVE  Left(s[k]) = Selected(t, K \cap (s[k].first .. s[k].next - 1))
  <2>1. PICK r : r = s[k]
    OBVIOUS
  <2>2. PICK a : a = r.first
    OBVIOUS
  <2>3. /\ a \in 1 .. Len(t) /\ a \in PlacesOf(t, WithComments)
        /\ r.kind = KindAt(t, WithComments, a) /\ r.next = NextAt(t, WithComments, a)
    BY <1>1, <1>7, <2>1, <2>2 DEF P
  <2>4. Left(r) = LeftAt(t, a)
    BY <2>2, <2>3, Zenon DEF LeftAt
  <2> HIDE DEF Left
  <2>5. Left(r) = Selected(t, K \cap (a .. r.next - 1))
    BY <2>3, <2>4, LeftIs DEF K
  <2> QED
    BY <2>1, <2>2, <2>5
<1> DEFINE E(k) == IF k = 0 THEN 0 ELSE s[k].next - 1
<1>9. ASSUME NEW k \in 1 .. m
       PROVE  /\ seqs[k] = Selected(t, K \cap (s[k].first .. E(k)))
              /\ s[k].first = E(k - 1) + 1 /\ s[k].first <= E(k) + 1
              /\ E(k) \in 0 .. N /\ E(k - 1) \in 0 .. N
  <2>1. seqs[k] = Left(s[k]) /\ E(k) = s[k].next - 1
    BY <1>5
  <2>2. s[k].first \in 1 .. N /\ s[k].next \in s[k].first + 1 .. N + 1
    BY <1>7
  <2>3. Left(s[k]) = Selected(t, K \cap (s[k].first .. s[k].next - 1))
    BY <1>8
  <2> HIDE DEF seqs, Left
  <2>4. seqs[k] = Selected(t, K \cap (s[k].first .. E(k)))
    BY <2>1, <2>3
  <2>5. E(k) \in 0 .. N /\ s[k].first <= E(k) + 1
    BY <2>1, <2>2
  <2>6. s[k].first = E(k - 1) + 1 /\ E(k - 1) \in 0 .. N
    <3>1. CASE k = 1
      <4>1. s[1].first = 1
        BY <1>4, <1>5, <2>2
      <4> QED
        BY <3>1, <4>1
    <3>2. CASE k # 1
      <4>1. k - 1 \in 1 .. m /\ k - 1 # 0
        BY <3>2
      <4>2. s[k].first = s[k - 1].next
        BY <1>4, <1>5, <3>2
      <4>3. s[k - 1].first \in 1 .. N /\ s[k - 1].next \in s[k - 1].first + 1 .. N + 1
        BY <1>7, <4>1
      <4> QED
        BY <4>1, <4>2, <4>3
    <3> QED
      BY <3>1, <3>2
  <2> QED
    BY <2>4, <2>5, <2>6
<1>10. \A S \in SUBSET (1 .. N) : Selected(t, S) \in Seq(A)
  <2> TAKE S \in SUBSET (1 .. N)
  <2>1. S \in SUBSET (1 .. Len(t)) /\ \A i \in S : \A j \in S : i = i
    BY <1>1
  <2>2. {} \in SUBSET (1 .. Len(t)) /\ \A i \in S : \A j \in {} : i < j
    OBVIOUS
  <2> QED
    BY <2>1, <2>2, SelectedJoin
<1>11. seqs \in Seq(Seq(A)) /\ Len(seqs) = m
  <2> DEFINE C == Seq(A)
  <2>1. \A k \in 1 .. m : seqs[k] \in C
    <3> TAKE k \in 1 .. m
    <3>1. K \cap (s[k].first .. E(k)) \in SUBSET (1 .. N)
      BY <1>3
    <3> HIDE DEF seqs, E
    <3> QED
      BY <1>9, <1>10, <3>1
  <2>2. seqs = [k \in 1 .. m |-> seqs[k]]
    BY <1>5
  <2> HIDE DEF C, seqs
  <2>3. seqs \in [1 .. m -> C]
    BY <2>1, <2>2
  <2>4. seqs \in Seq(C) /\ Len(seqs) = m
    BY <2>3
  <2> QED
    BY <2>4 DEF C
<1> HIDE DEF seqs
<1>12. PICK run : Flattening(run, seqs, A)
  BY <1>11, FlattenRun
<1>13. /\ run[0] = << >>
       /\ \A k \in 1 .. m : run[k] = run[k - 1] \o seqs[k]
       /\ FlattenSeq(seqs) = run[m]
  BY <1>11, <1>12, Zenon DEF Flattening
<1> HIDE DEF E
<1> DEFINE Good == {k \in 0 .. m : run[k] = Selected(t, K \cap (1 .. E(k)))}
<1>14. 0 \in Good
  <2>1. E(0) = 0
    BY DEF E
  <2>2. K \cap (1 .. E(0)) = {}
    BY <2>1
  <2>3. Selected(t, {}) = << >>
    <3>1. Len(Newlines(<< >>)) = Len(Newlines(<< >>))
      OBVIOUS
    <3> DEFINE z == [y \in 1 .. 0 |-> y]
               S == {}
    <3>2. Enumerates(z, 0, S)
      BY DEF Enumerates
    <3>3. S \in SUBSET (1 .. N) /\ 0 \in Nat
      OBVIOUS
    <3> HIDE DEF z, S
    <3>4. Selected(t, S) = Read(t, z, 0)
      BY <3>2, <3>3, SelectedAt
    <3>5. Read(t, z, 0) = << >>
      BY DEF Read
    <3> QED
      BY <3>4, <3>5 DEF S
  <2>4. 0 \in 0 .. m
    OBVIOUS
  <2> QED
    BY <1>13, <2>2, <2>3, <2>4
<1>15. ASSUME NEW k \in 1 .. m, k - 1 \in Good
       PROVE  k \in Good
  <2> DEFINE S == K \cap (1 .. E(k - 1))
             T == K \cap (s[k].first .. E(k))
  <2>1. run[k - 1] = Selected(t, S)
    BY <1>15
  <2>2. seqs[k] = Selected(t, T)
    BY <1>9
  <2>3. s[k].first = E(k - 1) + 1 /\ s[k].first <= E(k) + 1
        /\ E(k) \in 0 .. N /\ E(k - 1) \in 0 .. N
    BY <1>9
  <2>4. S \cup T = K \cap (1 .. E(k))
    BY <1>3, <2>3
  <2>5. S \in SUBSET (1 .. Len(t)) /\ T \in SUBSET (1 .. Len(t))
    BY <1>1, <1>3
  <2>6. \A i \in S : \A j \in T : i < j
    <3>1. \A i \in S : i \in 1 .. E(k - 1)
      OBVIOUS
    <3>2. \A j \in T : j \in s[k].first .. E(k)
      OBVIOUS
    <3> HIDE DEF S, T
    <3> QED
      BY <2>3, <3>1, <3>2
  <2> HIDE DEF S, T
  <2>7. Selected(t, S \cup T) = Selected(t, S) \o Selected(t, T)
    <3>1. Before(S, T, Len(t))
      BY <2>5, <2>6 DEF Before
    <3> QED
      BY <3>1, JoinedBy
  <2>8. k \in 0 .. m
    OBVIOUS
  <2>9. run[k] = run[k - 1] \o seqs[k]
    BY <1>13, Zenon
  <2>10. run[k] = Selected(t, K \cap (1 .. E(k)))
    BY <2>1, <2>2, <2>4, <2>7, <2>9, Zenon
  <2> QED
    BY <2>8, <2>10
<1> HIDE DEF Good
<1>16. \A k \in 0 .. m : k \in Good
  BY <1>14, <1>15, Upto
<1>17. E(m) = N
  <2>1. CASE N = 0
    BY <1>4, <1>5, <2>1 DEF E
  <2>2. CASE N # 0
    <3>1. m > 0 /\ s[m].next = N + 1
      BY <1>4, <1>5, <2>2
    <3> QED
      BY <3>1 DEF E
  <2> QED
    BY <2>1, <2>2
<1>18. run[m] = Selected(t, K)
  <2>1. m \in 0 .. m /\ K \cap (1 .. E(m)) = K
    BY <1>3, <1>17
  <2>2. m \in Good
    BY <1>16, <2>1
  <2> QED
    BY <2>1, <2>2 DEF Good
<1> QED
  BY <1>1, <1>2, <1>3, <1>10, <1>13, <1>18 DEF K

-----------------------------------------------------------------------------
(* Both scanners find the same literals.                                   *)

\* What a place starts, by the literal and the comment that may start there.
LEMMA KindIs ==
    ASSUME NEW A, NEW t \in Seq(A), NEW comments, NEW p \in 1 .. Len(t)
    PROVE  /\ KindAt(t, comments, p) = "literal" <=> LiteralEnd(t, p) # p
           /\ LiteralEnd(t, p) # p => NextAt(t, comments, p) = LiteralEnd(t, p)
<1>1. PICK N \in Nat : Len(t) = N
  OBVIOUS
<1>2. LiteralEnd(t, p) \in p .. N + 1
  BY <1>1, LiteralFrom
<1>3. LiteralEnd(t, p) > p <=> LiteralEnd(t, p) # p
  BY <1>1, <1>2
<1> QED
  BY <1>3 DEF KindAt, NextAt

\* Where no literal starts, the scanner of split_statements passes one character.
LEMMA PlainIsCode ==
    ASSUME NEW A, NEW u \in Seq(A), NEW y \in 1 .. Len(u), u[y] # "'", u[y] # "$"
    PROVE  KindAt(u, LiteralsOnly, y) = "code" /\ NextAt(u, LiteralsOnly, y) = y + 1
<1>1. LiteralEnd(u, y) = y
  BY LiteralFrom
<1>2. ~ (LiteralEnd(u, y) > y)
  BY <1>1
<1> QED
  BY <1>2, Zenon DEF KindAt, NextAt, LiteralsOnly

\* What is kept and in no literal starts none.
LEMMA PlainOutside ==
    ASSUME NEW A, NEW t \in Seq(A), NoStrayDollar(t), NEW x \in KeptOf(t),
           x \notin Within(t, WithComments, "literal")
    PROVE  x \in 1 .. Len(t) /\ t[x] # "'" /\ t[x] # "$"
<1>1. PICK N \in Nat : Len(t) = N /\ DOMAIN t = 1 .. N
  OBVIOUS
<1>2. InComments(t) = {i \in Within(t, WithComments, "comment") : t[i] # "LF"}
  BY Zenon DEF InComments, WithComments
<1>3. x \in 1 .. N /\ x \notin InComments(t)
  BY <1>1 DEF KeptOf
<1>4. \A i \in 1 .. N :
         t[i] = "$" => i \in Within(t, WithComments, "literal") \cup InComments(t)
  BY <1>1, Zenon DEF NoStrayDollar, WithComments
<1>5. t[x] # "$"
  BY <1>3, <1>4
<1>6. PICK p \in 1 .. N : Lies(t, WithComments, x, p)
  BY <1>1, <1>3, InOneStretch
<1>7. /\ x \in Within(t, WithComments, "literal") <=>
            KindAt(t, WithComments, p) = "literal"
      /\ x \in Within(t, WithComments, "comment") <=>
            KindAt(t, WithComments, p) = "comment"
  BY <1>1, <1>3, <1>6, WithinIs
<1>8. LiteralEnd(t, p) = p
  BY <1>1, <1>7, KindIs
<1>9. CASE KindAt(t, WithComments, p) = "comment"
  BY <1>1, <1>2, <1>3, <1>5, <1>7, <1>9
<1>10. CASE KindAt(t, WithComments, p) # "comment"
  <2>1. ~ (LiteralEnd(t, p) > p)
    BY <1>8
  <2>2. ~ (WithComments /\ CommentEnd(t, p) > p)
    BY <1>10, <2>1, Zenon DEF KindAt
  <2>3. NextAt(t, WithComments, p) = p + 1
    BY <2>1, <2>2, Zenon DEF NextAt
  <2>4. p <= x /\ x < p + 1
    BY <1>6, <2>3 DEF Lies
  <2>5. x = p
    BY <1>1, <1>3, <2>4
  <2> QED
    BY <1>1, <1>3, <1>5, <1>8, <2>5, LiteralFrom
<1> QED
  BY <1>9, <1>10

\* The y-th kept position is the first that is not before p.
Meets(z, n, p, y) ==
    y \in 1 .. n + 1 /\ \A b \in 1 .. n : z[b] < p <=> b < y

\* How the kept positions are counted on from one position to the next.
LEMMA MeetsNext ==
    ASSUME NEW N, NEW K, NEW n, NEW z, Listing(z, n, K, N),
           NEW p \in 1 .. N, NEW y, Meets(z, n, p, y)
    PROVE  /\ p \in K => y \in 1 .. n /\ z[y] = p /\ Meets(z, n, p + 1, y + 1)
           /\ p \notin K => Meets(z, n, p + 1, y)
<1>1. /\ N \in Nat /\ n \in Nat
      /\ \A b \in 1 .. n : z[b] \in K /\ z[b] \in 1 .. N
      /\ \A a, b \in 1 .. n : a < b => z[a] < z[b]
      /\ \A i \in K : \E a \in 1 .. n : z[a] = i
  BY DEF Listing, Enumerates
<1>2. y \in 1 .. n + 1 /\ y \in Nat /\ \A b \in 1 .. n : z[b] < p <=> b < y
  BY DEF Meets
<1>3. CASE p \notin K
  <2>1. \A b \in 1 .. n : z[b] < p + 1 <=> z[b] < p
    BY <1>1, <1>3
  <2> QED
    BY <1>1, <1>2, <1>3, <2>1 DEF Meets
<1>4. CASE p \in K
  <2>1. PICK b \in 1 .. n : z[b] = p
    BY <1>1, <1>4
  <2>2. ~ (b < y)
    BY <1>1, <1>2, <2>1
  <2>3. ~ (y < b)
    <3> SUFFICES ASSUME y < b PROVE FALSE
      OBVIOUS
    <3>1. y \in 1 .. n
      BY <1>1, <1>2, <2>1
    <3>2. z[y] < p
      BY <1>1, <2>1, <3>1
    <3> QED
      BY <1>1, <1>2, <3>1, <3>2
  <2>4. b = y
    BY <1>1, <1>2, <2>2, <2>3
  <2>5. \A a \in 1 .. n : z[a] < p + 1 <=> a < y + 1
    <3> TAKE a \in 1 .. n
    <3>1. z[a] < p + 1 <=> (z[a] < p \/ z[a] = p)
      BY <1>1
    <3>2. z[a] = p => a = y
      BY <1>1, <2>1, <2>4
    <3>3. a < y + 1 <=> (a < y \/ a = y)
      BY <1>1, <1>2
    <3> QED
      BY <1>1, <1>2, <2>1, <2>4, <3>1, <3>2, <3>3
  <2>6. y + 1 \in 1 .. n + 1
    BY <1>1, <2>1, <2>4
  <2> QED
    BY <1>4, <2>1, <2>4, <2>5, <2>6 DEF Meets
<1> QED
  BY <1>3, <1>4

AllKept(K, p, j) == p .. j - 1 \subseteq K

\* The positions from p up to j are the kept ones from the y-th on.
Along(z, n, p, y, j) ==
    /\ Meets(z, n, j, y + (j - p)) /\ y + (j - p) <= n + 1
    /\ \A x \in 0 .. j - p - 1 : y + x \in 1 .. n /\ z[y + x] = p + x

\* A stretch that is kept whole stands in what is left as it stood.
LEMMA MeetsAlong ==
    ASSUME NEW N, NEW K, NEW n, NEW z, Listing(z, n, K, N),
           NEW p \in 1 .. N, NEW y, Meets(z, n, p, y),
           NEW j \in p .. N + 1, AllKept(K, p, j)
    PROVE  Along(z, n, p, y, j)
<1>1. PICK d \in Nat : d = j - p /\ N \in Nat /\ n \in Nat /\ p \in Nat
  <2>1. N \in Nat /\ n \in Nat
    BY DEF Listing
  <2> QED
    BY <2>1
<1>2. y \in 1 .. n + 1 /\ y \in Nat
  <2>1. y \in 1 .. n + 1
    BY DEF Meets
  <2> QED
    BY <1>1, <2>1
<1> DEFINE Good == {x \in 0 .. d : Meets(z, n, p + x, y + x)}
<1>3. 0 \in Good
  <2>1. p + 0 = p /\ y + 0 = y /\ 0 \in 0 .. d
    BY <1>1, <1>2
  <2> QED
    BY <2>1
<1>4. ASSUME NEW x \in 0 .. d, x # d, Meets(z, n, p + x, y + x)
      PROVE  /\ y + x \in 1 .. n /\ z[y + x] = p + x
             /\ Meets(z, n, p + x + 1, y + x + 1)
  <2>1. p + x \in 1 .. N /\ p + x \in K
    <3>1. p + x \in p .. j - 1 /\ p + x \in 1 .. N
      BY <1>1, <1>4
    <3> QED
      BY <3>1 DEF AllKept
  <2> DEFINE q == p + x
             v == y + x
  <2>2. q \in 1 .. N /\ q \in K /\ Meets(z, n, q, v)
    BY <1>4, <2>1
  <2> HIDE DEF q, v
  <2>3. v \in 1 .. n /\ z[v] = q /\ Meets(z, n, q + 1, v + 1)
    BY <2>2, MeetsNext
  <2> QED
    BY <2>3 DEF q, v
<1>5. ASSUME NEW k \in 1 .. d, k - 1 \in Good
      PROVE  k \in Good
  <2>1. k - 1 \in 0 .. d /\ k - 1 # d /\ Meets(z, n, p + (k - 1), y + (k - 1))
    BY <1>5
  <2>2. Meets(z, n, p + (k - 1) + 1, y + (k - 1) + 1)
    BY <1>4, <2>1
  <2>3. p + (k - 1) + 1 = p + k /\ y + (k - 1) + 1 = y + k /\ k \in 0 .. d
    BY <1>1, <1>2
  <2> QED
    BY <2>2, <2>3
<1> HIDE DEF Good
<1>6. \A x \in 0 .. d : x \in Good
  BY <1>3, <1>5, Upto
<1>7. \A x \in 0 .. d : Meets(z, n, p + x, y + x)
  BY <1>6 DEF Good
<1>8. \A x \in 0 .. d - 1 : y + x \in 1 .. n /\ z[y + x] = p + x
  <2> TAKE x \in 0 .. d - 1
  <2>1. x \in 0 .. d /\ x # d
    OBVIOUS
  <2> QED
    BY <1>4, <1>7, <2>1
<1>9. Meets(z, n, j, y + d)
  <2>1. d \in 0 .. d /\ p + d = j
    BY <1>1
  <2>2. Meets(z, n, p + d, y + d)
    BY <1>7, <2>1
  <2> QED
    BY <2>1, <2>2
<1>10. y + d <= n + 1
  BY <1>1, <1>9 DEF Meets
<1> QED
  BY <1>1, <1>8, <1>9, <1>10 DEF Along

\* Not inside a literal of the file.
Free(t, p) ==
    \A q \in 1 .. Len(t) :
        Lies(t, WithComments, p, q) => p = q \/ KindAt(t, WithComments, q) # "literal"

\* A literal that starts at q of the file starts where q is in what is left.
LEMMA LiteralLeft ==
    ASSUME NEW A, NEW t \in Seq(A), NEW n \in Nat, NEW z,
           Enumerates(z, n, KeptOf(t)), NEW u \in Seq(A), u = Read(t, z, n),
           NEW q \in 1 .. Len(t), q \in PlacesOf(t, WithComments),
           KindAt(t, WithComments, q) = "literal",
           NEW y, y \in PlacesOf(u, LiteralsOnly), Meets(z, n, q, y)
    PROVE  LET j == NextAt(t, WithComments, q)
               v == y + (j - q)
           IN  /\ y \in 1 .. n /\ Meets(z, n, j, v)
               /\ v \in PlacesOf(u, LiteralsOnly) /\ v = NextAt(u, LiteralsOnly, y)
               /\ KindAt(u, LiteralsOnly, y) = "literal"
               /\ \A x \in 0 .. j - q - 1 : y + x \in 1 .. n /\ z[y + x] = q + x
<1>1. PICK N \in Nat : Len(t) = N
  OBVIOUS
<1>2. KeptOf(t) \in SUBSET (1 .. N)
  BY <1>1, StripIs
<1>3. PICK j \in q + 1 .. N + 1 : j = NextAt(t, WithComments, q)
  BY <1>1, StretchTyped
<1>4. LiteralEnd(t, q) = j /\ LiteralEnd(t, q) # q
  BY <1>3, KindIs
<1>5. q .. j - 1 \subseteq KeptOf(t)
  BY <1>3, LeftIs
<1>6. PICK v : v = y + (j - q)
  OBVIOUS
<1>7. /\ Meets(z, n, j, v) /\ v <= n + 1
      /\ \A x \in 0 .. j - q - 1 : y + x \in 1 .. n /\ z[y + x] = q + x
  <2> DEFINE K == KeptOf(t)
  <2>1. Listing(z, n, K, N) /\ AllKept(K, q, j)
    BY <1>2, <1>5 DEF Listing, AllKept
  <2>2. q \in 1 .. N /\ j \in q .. N + 1 /\ Meets(z, n, q, y)
    BY <1>1, <1>3
  <2> HIDE DEF K
  <2>3. Along(z, n, q, y, j)
    BY <2>1, <2>2, MeetsAlong
  <2> QED
    BY <1>6, <2>3 DEF Along
<1>8. y \in 1 .. n + 1 /\ v \in 1 .. n + 1
  BY <1>7 DEF Meets
<1>9. y \in 1 .. n
  <2> DEFINE K == KeptOf(t)
  <2>1. q \in q .. j - 1 /\ q \in 1 .. N
    BY <1>1, <1>3
  <2>2. Listing(z, n, K, N) /\ q \in K
    BY <1>2, <1>5, <2>1 DEF Listing
  <2> HIDE DEF K
  <2> QED
    BY <2>1, <2>2, MeetsNext
<1>10. Len(u) = n /\ \A b \in 1 .. n : u[b] = t[z[b]]
  BY DEF Read
<1>11. \A x \in 0 .. j - q - 1 : u[y + x] = t[q + x]
  <2> TAKE x \in 0 .. j - q - 1
  <2>1. y + x \in 1 .. n /\ z[y + x] = q + x
    BY <1>7
  <2> QED
    BY <1>10, <2>1
<1>12. j = N + 1 => v = n + 1
  <2> SUFFICES ASSUME j = N + 1, v # n + 1 PROVE FALSE
    OBVIOUS
  <2>1. v \in 1 .. n
    BY <1>8
  <2>2. z[v] \in 1 .. N
    BY <1>2, <2>1 DEF Enumerates
  <2>3. z[v] < j <=> v < v
    BY <1>7, <2>1 DEF Meets
  <2> QED
    BY <1>8, <2>2, <2>3
<1>13. Copied(t, q, LiteralEnd(t, q), u, y)
  BY <1>1, <1>4, <1>6, <1>7, <1>10, <1>11, <1>12 DEF Copied
<1>14. LiteralEnd(u, y) = v
  BY <1>4, <1>6, <1>9, <1>10, <1>13, LiteralCopied
<1>15. v # y
  BY <1>1, <1>3, <1>6, <1>8
<1>16. KindAt(u, LiteralsOnly, y) = "literal" /\ NextAt(u, LiteralsOnly, y) = v
  BY <1>9, <1>10, <1>14, <1>15, KindIs
<1>17. v \in PlacesOf(u, LiteralsOnly)
  BY <1>9, <1>10, <1>16, PlacesAre
<1> QED
  BY <1>3, <1>6, <1>7, <1>9, <1>16, <1>17

\* What is left of the text in front of p is cut where p is, too.
LEMMA PlacesMeet ==
    ASSUME NEW A, NEW t \in Seq(A), NoStrayDollar(t), NEW n \in Nat, NEW z,
           Enumerates(z, n, KeptOf(t)), NEW u \in Seq(A), u = Read(t, z, n)
    PROVE  \A p \in 1 .. Len(t) + 1 : Free(t, p) =>
              \E y \in PlacesOf(u, LiteralsOnly) : Meets(z, n, p, y)
<1>1. PICK N \in Nat : Len(t) = N
  OBVIOUS
<1> DEFINE K == KeptOf(t)
           Q == PlacesOf(u, LiteralsOnly)
           Met(p) == \E y \in Q : Meets(z, n, p, y)
           Good == {k \in 0 .. N : \A p \in 1 .. k + 1 : Free(t, p) => Met(p)}
<1>2. K \in SUBSET (1 .. N) /\ Enumerates(z, n, K)
  BY <1>1, StripIs
<1>3. Listing(z, n, K, N)
  BY <1>2 DEF Listing
<1>4. Len(u) = n /\ \A b \in 1 .. n : u[b] = t[z[b]]
  BY DEF Read
<1>5. 1 \in Q
  BY PlacesAre
<1> HIDE DEF K, Q
<1>6. 0 \in Good
  <2>1. \A b \in 1 .. n : z[b] \in 1 .. N
    BY <1>2 DEF Enumerates
  <2>2. Meets(z, n, 1, 1)
    BY <2>1 DEF Meets
  <2>3. \A p \in 1 .. 0 + 1 : p = 1
    OBVIOUS
  <2> QED
    BY <1>5, <2>2, <2>3
<1>7. ASSUME NEW k \in 1 .. N, k - 1 \in Good
      PROVE  k \in Good
  <2>1. \A p \in 1 .. k : Free(t, p) => Met(p)
    <3>1. k - 1 + 1 = k
      OBVIOUS
    <3> QED
      BY <1>7, <3>1
  <2>2. PICK q \in 1 .. N : Lies(t, WithComments, k, q)
    BY <1>1, InOneStretch
  <2>3. PICK j \in q + 1 .. N + 1 : j = NextAt(t, WithComments, q)
    BY <1>1, StretchTyped
  <2>4. q \in PlacesOf(t, WithComments) /\ q <= k /\ k < j
    BY <2>2, <2>3 DEF Lies
  <2> HIDE DEF Met, Good
  <2>5. ASSUME Free(t, k + 1)
        PROVE  Met(k + 1)
    <3>1. CASE KindAt(t, WithComments, q) = "literal"
      <4>1. j = k + 1
        <5> SUFFICES ASSUME j # k + 1 PROVE FALSE
          OBVIOUS
        <5>1. Lies(t, WithComments, k + 1, q)
          <6>1. q <= k + 1 /\ k + 1 < j
            BY <2>3, <2>4
          <6> QED
            BY <2>3, <2>4, <6>1 DEF Lies
        <5>2. k + 1 = q
          BY <1>1, <2>5, <3>1, <5>1 DEF Free
        <5> QED
          BY <2>4, <5>2
      <4>2. Free(t, q)
        <5>1. Lies(t, WithComments, q, q)
          BY <2>3, <2>4 DEF Lies
        <5> QED
          BY <1>1, <5>1, InOneStretch DEF Free
      <4>3. PICK y \in Q : Meets(z, n, q, y)
        <5>1. q \in 1 .. k
          BY <2>4
        <5> QED
          BY <2>1, <4>2, <5>1 DEF Met
      <4>4. Meets(z, n, j, y + (j - q)) /\ y + (j - q) \in Q
        BY <1>1, <2>3, <2>4, <3>1, <4>3, LiteralLeft DEF Q
      <4> QED
        BY <4>1, <4>4 DEF Met
    <3>2. CASE KindAt(t, WithComments, q) # "literal"
      <4>1. Free(t, k)
        BY <1>1, <2>2, <3>2, InOneStretch DEF Free
      <4>2. PICK y \in Q : Meets(z, n, k, y)
        <5>1. k \in 1 .. k
          OBVIOUS
        <5> QED
          BY <2>1, <4>1, <5>1 DEF Met
      <4>3. CASE k \notin K
        <5>1. Meets(z, n, k + 1, y)
          BY <1>3, <4>2, <4>3, MeetsNext
        <5> QED
          BY <4>2, <5>1 DEF Met
      <4>4. CASE k \in K
        <5>1. y \in 1 .. n /\ z[y] = k /\ Meets(z, n, k + 1, y + 1)
          BY <1>3, <4>2, <4>4, MeetsNext
        <5>2. k \notin Within(t, WithComments, "literal")
          BY <1>1, <2>2, <3>2, WithinIs
        <5>3. u[y] # "'" /\ u[y] # "$"
          BY <1>4, <4>4, <5>1, <5>2, PlainOutside DEF K
        <5>4. NextAt(u, LiteralsOnly, y) = y + 1
          BY <1>4, <5>1, <5>3, PlainIsCode
        <5>5. y + 1 \in Q
          BY <1>4, <4>2, <5>1, <5>4, PlacesAre DEF Q
        <5> QED
          BY <5>1, <5>5 DEF Met
      <4> QED
        BY <4>3, <4>4
    <3> QED
      BY <3>1, <3>2
  <2>6. \A p \in 1 .. k + 1 : p \in 1 .. k \/ p = k + 1
    OBVIOUS
  <2>7. \A p \in 1 .. k + 1 : Free(t, p) => Met(p)
    BY <2>1, <2>5, <2>6
  <2> QED
    BY <2>7 DEF Good
<1> HIDE DEF Good, Met
<1>8. \A k \in 0 .. N : k \in Good
  BY <1>6, <1>7, Upto
<1>9. N \in Good
  <2>1. N \in 0 .. N
    OBVIOUS
  <2> QED
    BY <1>8, <2>1
<1> QED
  BY <1>1, <1>9 DEF Good, Met, Q

\* A kept position is in a literal of what is left as it is in one of the file.
LEMMA LiteralsKept ==
    ASSUME NEW A, NEW t \in Seq(A), NoStrayDollar(t), NEW n \in Nat, NEW z,
           Enumerates(z, n, KeptOf(t)), NEW u \in Seq(A), u = Read(t, z, n),
           NEW b \in 1 .. n
    PROVE  b \in Within(u, LiteralsOnly, "literal") <=>
              z[b] \in Within(t, WithComments, "literal")
<1>1. PICK N \in Nat : Len(t) = N
  OBVIOUS
<1> DEFINE K == KeptOf(t)
           Q == PlacesOf(u, LiteralsOnly)
<1>2. K \in SUBSET (1 .. N) /\ Enumerates(z, n, K)
  BY <1>1, StripIs
<1>3. Listing(z, n, K, N)
  BY <1>2 DEF Listing
<1>4. Len(u) = n /\ u[b] = t[z[b]]
  BY DEF Read
<1>5. PICK x \in 1 .. N : x = z[b] /\ x \in K
  BY <1>2 DEF Enumerates
<1>6. PICK q \in 1 .. N : Lies(t, WithComments, x, q)
  BY <1>1, InOneStretch
<1>7. x \in Within(t, WithComments, "literal") <=> KindAt(t, WithComments, q) = "literal"
  BY <1>1, <1>6, WithinIs
<1>8. PICK j \in q + 1 .. N + 1 : j = NextAt(t, WithComments, q)
  BY <1>1, StretchTyped
<1>9. q \in PlacesOf(t, WithComments) /\ q <= x /\ x < j
  BY <1>6, <1>8 DEF Lies
<1> HIDE DEF K, Q
<1>10. CASE KindAt(t, WithComments, q) = "literal"
  <2>1. Free(t, q)
    <3>1. Lies(t, WithComments, q, q)
      BY <1>8, <1>9 DEF Lies
    <3> QED
      BY <1>1, <3>1, InOneStretch DEF Free
  <2>2. PICK y \in Q : Meets(z, n, q, y)
    BY <1>1, <2>1, PlacesMeet DEF Q
  <2>3. PICK v : v = y + (j - q)
    OBVIOUS
  <2>4. /\ y \in 1 .. n /\ v = NextAt(u, LiteralsOnly, y)
        /\ KindAt(u, LiteralsOnly, y) = "literal"
        /\ Meets(z, n, j, v)
    BY <1>1, <1>8, <1>9, <1>10, <2>2, <2>3, LiteralLeft DEF Q
  <2>5. ~ (b < y) /\ b < v
    <3>1. z[b] < q <=> b < y
      BY <2>2 DEF Meets
    <3>2. z[b] < j <=> b < v
      BY <2>4 DEF Meets
    <3> QED
      BY <1>5, <1>9, <3>1, <3>2
  <2>6. Lies(u, LiteralsOnly, b, y)
    BY <2>2, <2>4, <2>5 DEF Lies, Q
  <2>7. b \in Within(u, LiteralsOnly, "literal")
    BY <1>4, <2>4, <2>6, WithinIs
  <2> QED
    BY <1>5, <1>7, <1>10, <2>7
<1>11. CASE KindAt(t, WithComments, q) # "literal"
  <2>1. Free(t, x)
    BY <1>1, <1>6, <1>11, InOneStretch DEF Free
  <2>2. PICK y \in Q : Meets(z, n, x, y)
    BY <1>1, <2>1, PlacesMeet DEF Q
  <2>3. y \in 1 .. n /\ z[y] = x
    <3>1. x \in K /\ x \in 1 .. N
      BY <1>5
    <3>2. Meets(z, n, x, y)
      BY <2>2
    <3> QED
      BY <1>3, <3>1, <3>2, MeetsNext
  <2>4. y = b
    <3>1. ~ (b < y) /\ ~ (y < b)
      BY <1>2, <1>5, <2>3 DEF Enumerates
    <3> QED
      BY <2>3, <3>1
  <2>5. x \notin Within(t, WithComments, "literal")
    BY <1>7, <1>11
  <2>6. u[b] # "'" /\ u[b] # "$"
    BY <1>4, <1>5, <2>5, PlainOutside DEF K
  <2>7. KindAt(u, LiteralsOnly, b) = "code" /\ NextAt(u, LiteralsOnly, b) = b + 1
    BY <1>4, <2>6, PlainIsCode
  <2>8. Lies(u, LiteralsOnly, b, b)
    BY <2>2, <2>4, <2>7 DEF Lies, Q
  <2>9. b \notin Within(u, LiteralsOnly, "literal")
    BY <1>4, <2>7, <2>8, WithinIs
  <2> QED
    BY <1>5, <2>5, <2>9
<1> QED
  BY <1>10, <1>11

-----------------------------------------------------------------------------
(* Both passes cut what is kept alike.                                     *)

\* e lists some numbers; the ones behind them, and 1.
Shifted(e, m) == [k \in 1 .. m + 1 |-> IF k = 1 THEN 1 ELSE e[k - 1] + 1]

StartsOf(cuts) == {1} \cup {i + 1 : i \in cuts}

\* The starts of the statements, as both definitions list them.
LEMMA StartsListed ==
    ASSUME NEW N, NEW C, NEW m, NEW e, Listing(e, m, C, N)
    PROVE  InOrder(StartsOf(C)) = Shifted(e, m)
<1>1. /\ N \in Nat /\ m \in Nat /\ C \in SUBSET (1 .. N)
      /\ \A k \in 1 .. m : e[k] \in C /\ e[k] \in 1 .. N
      /\ \A a, b \in 1 .. m : a < b => e[a] < e[b]
      /\ \A i \in C : \E a \in 1 .. m : e[a] = i
  BY DEF Listing, Enumerates
<1> DEFINE f == Shifted(e, m)
           S == StartsOf(C)
<1>2. S \in SUBSET (1 .. N + 1)
  BY <1>1 DEF StartsOf
<1>3. f[1] = 1 /\ \A k \in 2 .. m + 1 : k - 1 \in 1 .. m /\ f[k] = e[k - 1] + 1
  BY <1>1 DEF Shifted
<1>4. \A k \in 1 .. m + 1 : k = 1 \/ k \in 2 .. m + 1
  BY <1>1
<1>5. f \in [1 .. m + 1 -> S]
  <2>1. \A k \in 1 .. m + 1 : f[k] \in S
    <3>1. f[1] \in S
      BY <1>3 DEF StartsOf
    <3>2. \A k \in 2 .. m + 1 : f[k] \in S
      BY <1>1, <1>3 DEF StartsOf
    <3> QED
      BY <1>4, <3>1, <3>2
  <2> QED
    BY <2>1 DEF Shifted
<1> HIDE DEF f
<1>6. ASSUME NEW a \in 1 .. m + 1, NEW b \in 1 .. m + 1, a < b
      PROVE  f[a] < f[b]
  <2>1. b \in 2 .. m + 1
    BY <1>1, <1>6
  <2>2. CASE a = 1
    BY <1>1, <1>3, <2>1, <2>2
  <2>3. CASE a # 1
    <3>1. a \in 2 .. m + 1 /\ a - 1 < b - 1
      BY <1>1, <1>6, <2>1, <2>3
    <3>2. e[a - 1] < e[b - 1] /\ e[a - 1] \in 1 .. N /\ e[b - 1] \in 1 .. N
      BY <1>1, <1>3, <2>1, <3>1
    <3> QED
      BY <1>1, <1>3, <2>1, <3>1, <3>2
  <2> QED
    BY <2>2, <2>3
<1>7. ASSUME NEW i \in S
      PROVE  \E a \in 1 .. m + 1 : f[a] = i
  <2>1. CASE i = 1
    <3>1. 1 \in 1 .. m + 1
      BY <1>1
    <3> QED
      BY <1>3, <2>1, <3>1
  <2>2. CASE i # 1
    <3>1. PICK c \in C : i = c + 1
      BY <2>2 DEF StartsOf
    <3>2. PICK k \in 1 .. m : e[k] = c
      BY <1>1, <3>1
    <3>3. k + 1 \in 2 .. m + 1 /\ k + 1 - 1 = k /\ k + 1 \in 1 .. m + 1
      BY <1>1
    <3>4. f[k + 1] = i
      BY <1>3, <3>1, <3>2, <3>3
    <3> QED
      BY <3>3, <3>4
  <2> QED
    BY <2>1, <2>2
<1> HIDE DEF S
<1>8. Enumerates(f, m + 1, S)
  BY <1>5, <1>6, <1>7 DEF Enumerates
<1>9. N + 1 \in Nat /\ m + 1 \in Nat
  BY <1>1
<1>10. InOrder(S) = f
  BY <1>2, <1>8, <1>9, OneOrder
<1> QED
  BY <1>10 DEF S, f

\* The least of the positions is read first.
LEMMA LeastMoved ==
    ASSUME NEW N, NEW K, NEW n, NEW z, Listing(z, n, K, N),
           NEW S \in SUBSET (1 .. n), S # {}
    PROVE  /\ Min(S) \in S /\ Min(Image(z, S)) = z[Min(S)]
           /\ Image(z, S) # {}
<1>1. /\ N \in Nat /\ n \in Nat
      /\ \A b \in 1 .. n : z[b] \in 1 .. N
      /\ \A a, b \in 1 .. n : a < b => z[a] < z[b]
  BY DEF Listing, Enumerates
<1>2. S \subseteq Nat
  BY <1>1
<1>3. Min(S) \in S /\ \A i \in S : Min(S) <= i
  BY <1>2, LeastOf
<1> DEFINE T == Image(z, S)
<1>4. T \subseteq Nat /\ T # {} /\ z[Min(S)] \in T
  <2>1. z[Min(S)] \in T
    BY <1>3 DEF Image
  <2>2. \A x \in T : x \in Nat
    <3> TAKE x \in T
    <3>1. PICK b \in S : x = z[b]
      BY DEF Image
    <3> QED
      BY <1>1, <3>1
  <2> QED
    BY <2>1, <2>2
<1> HIDE DEF T
<1>5. Min(T) \in T /\ \A i \in T : Min(T) <= i
  BY <1>4, LeastOf
<1>6. PICK b \in S : Min(T) = z[b]
  BY <1>5 DEF T, Image
<1>7. Min(S) \in 1 .. n /\ b \in 1 .. n /\ Min(S) <= b
  BY <1>3
<1>8. z[b] <= z[Min(S)] /\ z[b] \in 1 .. N /\ z[Min(S)] \in 1 .. N
  BY <1>1, <1>4, <1>5, <1>6, <1>7
<1>9. ~ (Min(S) < b)
  <2> SUFFICES ASSUME Min(S) < b PROVE FALSE
    OBVIOUS
  <2>1. z[Min(S)] < z[b]
    BY <1>1, <1>7
  <2> QED
    BY <1>8, <2>1
<1>10. b = Min(S)
  BY <1>1, <1>7, <1>9
<1> QED
  BY <1>3, <1>4, <1>6, <1>10 DEF T

\* No newline is lost in front of what is kept.
LEMMA LinesKept ==
    ASSUME NEW t, NEW N, NEW K, NEW n, NEW z, Listing(z, n, K, N), NEW u, u = Read(t, z, n),
           \A i \in 1 .. N : t[i] = "LF" => i \in K, NEW b \in 1 .. n
    PROVE  LineOf(u, b) = LineOf(t, z[b])
<1>1. /\ N \in Nat /\ n \in Nat
      /\ \A a \in 1 .. n : z[a] \in K /\ z[a] \in 1 .. N
      /\ \A a, c \in 1 .. n : a < c => z[a] < z[c]
      /\ \A i \in K : \E a \in 1 .. n : z[a] = i
  BY DEF Listing, Enumerates
<1>2. \A a \in 1 .. n : u[a] = t[z[a]]
  BY DEF Read
<1> DEFINE S == {k \in 1 .. (b - 1) : u[k] = "LF"}
           T == {k \in 1 .. (z[b] - 1) : t[k] = "LF"}
<1>3. \A x, y \in 1 .. n : z[x] < z[y] => x < y
  <2> TAKE x, y \in 1 .. n
  <2>1. x < y \/ x = y \/ y < x
    BY <1>1
  <2> QED
    BY <1>1, <2>1
<1>4. \A k \in S : k \in 1 .. n /\ k < b /\ u[k] = "LF"
  BY <1>1
<1>5. \A k \in S : z[k] \in T
  <2> TAKE k \in S
  <2>1. z[k] < z[b] /\ z[k] \in 1 .. N /\ z[b] \in 1 .. N /\ t[z[k]] = "LF"
    BY <1>1, <1>2, <1>4
  <2> QED
    BY <1>1, <2>1
<1>6. \A i \in T : \E k \in S : z[k] = i
  <2> TAKE i \in T
  <2>1. z[b] \in 1 .. N
    BY <1>1
  <2>2. i \in 1 .. N /\ i < z[b] /\ t[i] = "LF"
    BY <1>1, <2>1
  <2>3. PICK k \in 1 .. n : z[k] = i
    BY <1>1, <2>2
  <2>4. k < b /\ u[k] = "LF"
    BY <1>2, <1>3, <2>2, <2>3
  <2>5. k \in S
    BY <1>1, <2>4
  <2> QED
    BY <2>3, <2>5
<1>7. Image(z, S) = T
  <2> HIDE DEF S, T
  <2> QED
    BY <1>5, <1>6 DEF Image
<1>8. IsFiniteSet(S)
  <2>1. IsFiniteSet(1 .. n)
    BY <1>1, FS_Interval
  <2>2. S \subseteq 1 .. n
    BY <1>4
  <2> QED
    BY <2>1, <2>2, FS_Subset
<1>9. \A x, y \in S : z[x] = z[y] => x = y
  <2> TAKE x, y \in S
  <2>1. x \in 1 .. n /\ y \in 1 .. n /\ (x < y \/ x = y \/ y < x)
    BY <1>1, <1>4
  <2> QED
    BY <1>1, <2>1
<1> HIDE DEF S, T
<1>10. Cardinality(T) = Cardinality(S)
  BY <1>7, <1>8, <1>9, SameSize
<1> QED
  BY <1>10 DEF LineOf, S, T

\* A selection of what is left is a selection of the file.
LEMMA SelectedImage ==
    ASSUME NEW N, NEW K, NEW n, NEW z, Listing(z, n, K, N), NEW t,
           NEW S \in SUBSET (1 .. n)
    PROVE  Selected(Read(t, z, n), S) = Selected(t, Image(z, S))
<1>1. N \in Nat /\ K \in SUBSET (1 .. N) /\ n \in Nat /\ Enumerates(z, n, K)
  BY DEF Listing
<1> QED
  BY <1>1, SelectedOf

\* Something is left of a trimmed text only if it has a character that is no newline.
LEMMA TrimsToNothing ==
    ASSUME NEW w, Trim(w) # << >>
    PROVE  \E i \in DOMAIN w : w[i] # "LF"
<1>1. Inked(w) # {}
  BY Zenon DEF Trim
<1> QED
  BY <1>1 DEF Inked

\* The statement that split_statements reads from v on.
CutBehind(u, cuts, v) == FirstOr(Len(u) + 1, {i \in cuts : i >= v})

StmtLeft(u, cuts, v) ==
    [startLine |->
        IF v = 1 THEN 1
        ELSE LineOf(u, FirstOr(Len(u) + 1, {i \in Inked(u) : i >= v})),
     text |-> Trim(SubSeq(u, v, CutBehind(u, cuts, v) - 1))]

\* The statement of the file from s on.
OwnOfFile(t, cuts, s) == {i \in KeptOf(t) : i >= s /\ \A c \in cuts : c >= s => i < c}

StmtFile(t, cuts, s) ==
    [leads |-> s = 1,
     startLine |-> LineOf(t, FirstOr(Len(t) + 1, OwnOfFile(t, cuts, s) \cap Inked(t))),
     text |-> Trim(Selected(t, OwnOfFile(t, cuts, s)))]

\* The y-th kept position is at v or behind it where its place in the file is
\* at s or behind it.
Fronts(z, n, s, v) == \A b \in 1 .. n : b >= v <=> z[b] >= s

\* What a statement has of the file is what it has of what is left.
LEMMA OwnIsImage ==
    ASSUME NEW t, NEW N, NEW n, NEW z, Listing(z, n, KeptOf(t), N),
           NEW u, Len(u) = n, NEW D \in SUBSET (1 .. n),
           NEW v \in 1 .. n + 1, NEW s \in 1 .. N + 1, Fronts(z, n, s, v)
    PROVE  /\ CutBehind(u, D, v) \in v .. n + 1
           /\ OwnOfFile(t, Image(z, D), s) = Image(z, v .. CutBehind(u, D, v) - 1)
<1>1. /\ N \in Nat /\ n \in Nat
      /\ \A a \in 1 .. n : z[a] \in KeptOf(t) /\ z[a] \in 1 .. N
      /\ \A a, c \in 1 .. n : a < c => z[a] < z[c]
      /\ \A i \in KeptOf(t) : \E a \in 1 .. n : z[a] = i
  BY DEF Listing, Enumerates
<1> DEFINE F == {i \in D : i >= v}
           e == CutBehind(u, D, v)
           C == Image(z, D)
           O == OwnOfFile(t, C, s)
<1>2. F \subseteq Nat
  <2>1. \A i \in F : i \in 1 .. n
    OBVIOUS
  <2>2. \A i \in 1 .. n : i \in Nat
    BY <1>1
  <2> HIDE DEF F
  <2> QED
    BY <2>1, <2>2
<1>3. e = FirstOr(n + 1, F)
  BY DEF CutBehind
<1>4. \A x \in 1 .. n : x \in v .. e - 1 <=> x >= v /\ \A c \in F : x < c
  <2> HIDE DEF e
  <2>1. CASE F = {}
    <3>1. e = n + 1
      BY <1>3, <2>1 DEF FirstOr
    <3> QED
      BY <1>1, <2>1, <3>1
  <2>2. CASE F # {}
    <3>1. e = Min(F)
      BY <1>3, <2>2 DEF FirstOr
    <3>2. e \in F /\ \A c \in F : e <= c
      BY <1>2, <2>2, <3>1, LeastOf
    <3>3. \A c \in F : c \in 1 .. n
      OBVIOUS
    <3> HIDE DEF F
    <3>4. ASSUME NEW x \in 1 .. n
          PROVE  x < e <=> \A c \in F : x < c
      <4>1. x < e => \A c \in F : x < c
        BY <1>1, <3>2, <3>3
      <4>2. (\A c \in F : x < c) => x < e
        BY <3>2
      <4> QED
        BY <4>1, <4>2
    <3>5. e \in 1 .. n
      BY <3>2, <3>3
    <3>6. \A x \in 1 .. n : x \in v .. e - 1 <=> x >= v /\ x < e
      BY <1>1, <3>5
    <3> QED
      BY <3>4, <3>6
  <2> QED
    BY <2>1, <2>2
<1>5. e \in v .. n + 1
  <2> HIDE DEF e
  <2>1. CASE F = {}
    BY <1>1, <1>3, <2>1 DEF FirstOr
  <2>2. CASE F # {}
    <3>1. e = Min(F)
      BY <1>3, <2>2 DEF FirstOr
    <3>2. e \in F
      BY <1>2, <2>2, <3>1, LeastOf
    <3>3. e \in D /\ e >= v
      BY <3>2
    <3> QED
      BY <1>1, <3>3
  <2> QED
    BY <2>1, <2>2
<1> HIDE DEF e
<1>6. \A x, y \in 1 .. n : z[x] < z[y] <=> x < y
  <2> TAKE x, y \in 1 .. n
  <2>1. x < y \/ x = y \/ y < x
    BY <1>1
  <2> QED
    BY <1>1, <2>1
<1>7. \A x \in 1 .. n : x >= v <=> z[x] >= s
  BY DEF Fronts
<1>8. ASSUME NEW x \in 1 .. n
      PROVE  z[x] \in O <=> x \in v .. e - 1
  <2>1. z[x] \in O <=> z[x] >= s /\ \A c \in C : c >= s => z[x] < c
    BY <1>1 DEF OwnOfFile
  <2>2. (\A c \in C : c >= s => z[x] < c) <=> \A c \in F : x < c
    <3>1. ASSUME \A c \in C : c >= s => z[x] < c, NEW c \in F
          PROVE  x < c
      <4>1. c \in D /\ c >= v /\ c \in 1 .. n
        OBVIOUS
      <4>2. z[c] \in C /\ z[c] >= s
        BY <1>7, <4>1 DEF Image
      <4> QED
        BY <1>6, <3>1, <4>1, <4>2
    <3>2. ASSUME \A c \in F : x < c, NEW c \in C, c >= s
          PROVE  z[x] < c
      <4>1. PICK a \in D : c = z[a]
        BY DEF Image
      <4>2. a \in 1 .. n /\ a >= v
        BY <1>7, <3>2, <4>1
      <4>3. x < a
        BY <3>2, <4>1, <4>2
      <4> QED
        BY <1>6, <4>1, <4>2, <4>3
    <3> QED
      BY <3>1, <3>2
  <2> QED
    BY <1>4, <1>7, <2>1, <2>2
<1> DEFINE J == v .. e - 1
<1>9. O = Image(z, J)
  <2>1. \A i \in O : i \in Image(z, J)
    <3> TAKE i \in O
    <3>1. i \in KeptOf(t)
      BY DEF OwnOfFile
    <3>2. PICK x \in 1 .. n : z[x] = i
      BY <1>1, <3>1
    <3>3. x \in J
      BY <1>8, <3>2
    <3> QED
      BY <3>2, <3>3 DEF Image
  <2>2. \A i \in Image(z, J) : i \in O
    <3> TAKE i \in Image(z, J)
    <3>1. PICK x \in J : i = z[x]
      BY DEF Image
    <3>2. x \in 1 .. n
      BY <1>1, <1>5
    <3> QED
      BY <1>8, <3>1, <3>2
  <2> QED
    BY <2>1, <2>2
<1> QED
  BY <1>5, <1>9 DEF e

\* The statement that starts at a place has one text and one line in both.
LEMMA SameStatement ==
    ASSUME NEW A, NEW t \in Seq(A), NEW n, NEW z, Listing(z, n, KeptOf(t), Len(t)),
           NEW u \in Seq(A), u = Read(t, z, n),
           \A i \in 1 .. Len(t) : t[i] = "LF" => i \in KeptOf(t),
           NEW D \in SUBSET (1 .. n),
           NEW v \in 1 .. n + 1, NEW s \in 1 .. Len(t) + 1, Fronts(z, n, s, v),
           v = 1 <=> s = 1
    PROVE  LET two == StmtLeft(u, D, v)
               one == StmtFile(t, Image(z, D), s)
           IN  /\ two.text = one.text
               /\ two.text # << >> =>
                     two.startLine = IF one.leads THEN 1 ELSE one.startLine
<1>1. PICK N \in Nat : Len(t) = N /\ DOMAIN t = 1 .. N
  OBVIOUS
<1>2. /\ n \in Nat /\ KeptOf(t) \in SUBSET (1 .. N)
      /\ \A a \in 1 .. n : z[a] \in 1 .. N
      /\ Enumerates(z, n, KeptOf(t))
  BY <1>1 DEF Listing, Enumerates
<1>3. Len(u) = n /\ DOMAIN u = 1 .. n /\ \A b \in 1 .. n : u[b] = t[z[b]]
  BY <1>2 DEF Read
<1> DEFINE e == CutBehind(u, D, v)
           J == v .. e - 1
           O == OwnOfFile(t, Image(z, D), s)
           w == SubSeq(u, v, e - 1)
<1>4. e \in v .. n + 1 /\ O = Image(z, J)
  <2>1. Listing(z, n, KeptOf(t), N)
    BY <1>1
  <2> QED
    BY <1>1, <1>3, <2>1, OwnIsImage
<1> HIDE DEF e, O
<1>5. v \in Nat /\ e \in Nat /\ 1 <= v /\ v <= e /\ e <= n + 1 /\ J \in SUBSET (1 .. n)
  BY <1>2, <1>4
<1>6. w = Selected(t, O)
  <2>1. w = Selected(u, J)
    BY <1>3, <1>5, SelectedStretch
  <2>2. Selected(u, J) = Selected(t, Image(z, J))
    <3> DEFINE K == KeptOf(t)
    <3>1. Listing(z, n, K, N) /\ J \in SUBSET (1 .. n)
      BY <1>1, <1>5
    <3> HIDE DEF K, J
    <3>2. Selected(Read(t, z, n), J) = Selected(t, Image(z, J))
      BY <3>1, SelectedImage
    <3> QED
      BY <3>2
  <2> QED
    BY <1>4, <2>1, <2>2
<1> DEFINE two == StmtLeft(u, D, v)
           one == StmtFile(t, Image(z, D), s)
           first == FirstOr(n + 1, {i \in Inked(u) : i >= v})
           own == FirstOr(N + 1, O \cap Inked(t))
<1>7. two.text = Trim(w) /\ two.startLine = IF v = 1 THEN 1 ELSE LineOf(u, first)
  BY <1>3 DEF StmtLeft, e
<1>8. one.text = Trim(Selected(t, O)) /\ one.startLine = LineOf(t, own)
      /\ one.leads = (s = 1)
  BY <1>1 DEF StmtFile, O
<1>9. two.text = one.text
  BY <1>6, <1>7, <1>8
<1>10. ASSUME two.text # << >>
       PROVE  LineOf(u, first) = LineOf(t, own)
  <2>1. PICK i \in DOMAIN w : w[i] # "LF"
    BY <1>7, <1>10, TrimsToNothing
  <2>2. i \in 1 .. e - v /\ w[i] = u[v + i - 1]
    BY <1>3, <1>5
  <2> DEFINE S == {b \in J : u[b] # "LF"}
             T == {b \in Inked(u) : b >= v}
  <2>3. v + i - 1 \in S
    BY <1>5, <2>1, <2>2
  <2>4. S # {} /\ S \in SUBSET (1 .. n)
    BY <1>5, <2>3
  <2>5. Min(S) \in S /\ Min(Image(z, S)) = z[Min(S)] /\ Image(z, S) # {}
    <3> HIDE DEF S
    <3> QED
      BY <2>4, LeastMoved
  <2>6. Image(z, S) = O \cap Inked(t)
    <3>1. Inked(t) = {x \in 1 .. N : t[x] # "LF"}
      BY <1>1 DEF Inked
    <3>2. \A x \in Image(z, S) : x \in O \cap Inked(t)
      <4> TAKE x \in Image(z, S)
      <4>1. PICK b \in S : x = z[b]
        BY DEF Image
      <4>2. b \in J /\ u[b] # "LF" /\ b \in 1 .. n
        BY <1>5
      <4>3. x \in Image(z, J)
        BY <4>1, <4>2 DEF Image
      <4> QED
        BY <1>2, <1>3, <1>4, <3>1, <4>1, <4>2, <4>3
    <3>3. \A x \in O \cap Inked(t) : x \in Image(z, S)
      <4> TAKE x \in O \cap Inked(t)
      <4>1. x \in Image(z, J) /\ t[x] # "LF"
        BY <1>4, <3>1
      <4>2. PICK b \in J : x = z[b]
        BY <4>1 DEF Image
      <4>3. b \in S
        BY <1>3, <1>5, <4>1, <4>2
      <4> QED
        BY <4>2, <4>3 DEF Image
    <3> QED
      BY <3>2, <3>3
  <2>7. T = {b \in 1 .. n : u[b] # "LF" /\ b >= v}
    BY <1>3 DEF Inked
  <2>8. T \subseteq Nat /\ Min(S) \in T
    BY <1>5, <2>5, <2>7
  <2>9. Min(T) \in T /\ \A b \in T : Min(T) <= b
    BY <2>8, LeastOf
  <2>10. Min(T) = Min(S)
    <3> DEFINE x == Min(T)
               y == Min(S)
    <3>1. x \in 1 .. n /\ u[x] # "LF" /\ x >= v /\ y \in J /\ x <= y
      BY <2>5, <2>7, <2>8, <2>9
    <3>2. S \subseteq Nat /\ \A b \in S : y <= b
      <4>1. S \subseteq Nat
        BY <2>4
      <4> HIDE DEF S
      <4> QED
        BY <2>4, <4>1, LeastOf
    <3> HIDE DEF x, y
    <3>3. x \in J
      BY <1>5, <3>1
    <3>4. x \in S
      BY <3>1, <3>3
    <3>5. y <= x
      BY <3>2, <3>4
    <3>6. x = y
      BY <1>5, <3>1, <3>5
    <3> QED
      BY <3>6 DEF x, y
  <2>11. first = Min(S)
    <3>1. first = Min(T)
      BY <2>8 DEF FirstOr
    <3> QED
      BY <2>10, <3>1
  <2>12. own = z[Min(S)]
    BY <2>5, <2>6 DEF FirstOr
  <2> HIDE DEF first, own
  <2>13. Min(S) \in 1 .. n
    BY <2>4, <2>5
  <2> DEFINE b == Min(S)
             K == KeptOf(t)
  <2>14. Listing(z, n, K, N) /\ \A x \in 1 .. N : t[x] = "LF" => x \in K
    BY <1>1
  <2>15. b \in 1 .. n
    BY <2>13
  <2> HIDE DEF b, K
  <2>16. LineOf(u, b) = LineOf(t, z[b])
    BY <2>14, <2>15, LinesKept
  <2> QED
    BY <2>11, <2>12, <2>16 DEF b
<1>11. two.text # << >> => two.startLine = IF one.leads THEN 1 ELSE one.startLine
  <2> HIDE DEF two, one, first, own
  <2>1. CASE v = 1
    BY <1>7, <1>8, <2>1
  <2>2. CASE v # 1
    BY <1>7, <1>8, <1>10, <2>2
  <2> QED
    BY <2>1, <2>2
<1> QED
  BY <1>9, <1>11

\* Semicolons of the code.
CutsLeft(u) ==
    {i \in DOMAIN u : u[i] = Semicolon /\ i \notin Within(u, LiteralsOnly, "literal")}

CutsFile(t) ==
    {i \in KeptOf(t) \ Within(t, WithComments, "literal") : t[i] = Semicolon}

ReadLeft(u, starts) == [k \in DOMAIN starts |-> StmtLeft(u, CutsLeft(u), starts[k])]

ReadFile(t, starts) == [k \in DOMAIN starts |-> StmtFile(t, CutsFile(t), starts[k])]

\* What split_statements finds, read off the starts (parse.rs:141-245).
LEMMA SplitIs ==
    ASSUME NEW u
    PROVE  SplitStatements(u) = WithText(ReadLeft(u, InOrder(StartsOf(CutsLeft(u)))))
BY Zenon DEF SplitStatements, CutsLeft, StmtLeft, CutBehind, StartsOf, ReadLeft,
             Semicolon, LiteralsOnly

\* What the reference finds, with its statements read off the starts.
LEMMA FileIs ==
    ASSUME NEW t
    PROVE  FileStatements(t) = WithText(ReadFile(t, InOrder(StartsOf(CutsFile(t)))))
BY Zenon DEF FileStatements, CutsFile, StmtFile, OwnOfFile, KeptOf, StartsOf, ReadFile,
             Semicolon, WithComments

-----------------------------------------------------------------------------
(* Bytes pushed as characters.                                             *)

\* What the passes look for is in ASCII.
Signs == {"'", "$", "a", "LF", Semicolon}

LEMMA SignsAreAscii == "high" \notin Signs /\ "latin" \notin Signs
<1>1. Semicolon # "high" /\ Semicolon # "latin"
  BY Zenon DEF Semicolon
<1> QED
  BY <1>1 DEF Signs

\* It stays where it is (parse.rs:59, 65, 132).
LEMMA LatinIs ==
    ASSUME NEW A, NEW x \in Seq(A), NEW N \in Nat, Len(x) = N, NEW y,
           y = Latin1(x)
    PROVE  /\ y \in Seq(A \cup {"latin"}) /\ Len(y) = N /\ DOMAIN y = 1 .. N
           /\ \A k \in 1 .. N : \A c \in Signs : y[k] = c <=> x[k] = c
<1>1. DOMAIN x = 1 .. N /\ \A k \in 1 .. N : x[k] \in A
  OBVIOUS
<1>2. y = [k \in 1 .. N |-> AsChar(x[k])]
  BY <1>1 DEF Latin1
<1>3. \A k \in 1 .. N : AsChar(x[k]) \in A \cup {"latin"}
  BY <1>1 DEF AsChar
<1>4. \A k \in 1 .. N : \A c \in Signs : AsChar(x[k]) = c <=> x[k] = c
  BY SignsAreAscii DEF AsChar
<1> QED
  BY <1>2, <1>3, <1>4

\* What is in ASCII is written as it is.
LEMMA PlainLatin ==
    ASSUME NEW A, NEW x \in Seq(A), Plain(x)
    PROVE  Latin1(x) = x
<1>1. PICK N \in Nat : DOMAIN x = 1 .. N /\ x = [k \in 1 .. N |-> x[k]]
  OBVIOUS
<1>2. \A k \in 1 .. N : AsChar(x[k]) = x[k]
  BY <1>1 DEF Plain, AsChar
<1>3. Latin1(x) = [k \in 1 .. N |-> AsChar(x[k])]
  BY <1>1 DEF Latin1
<1> QED
  BY <1>1, <1>2, <1>3

LEMMA SubSeqLatin ==
    ASSUME NEW A, NEW x \in Seq(A),
           NEW a \in 1 .. Len(x) + 1, NEW b \in 0 .. Len(x)
    PROVE  /\ SubSeq(x, a, b) \in Seq(A)
           /\ SubSeq(Latin1(x), a, b) = Latin1(SubSeq(x, a, b))
<1>0. PICK N \in Nat : Len(x) = N
  OBVIOUS
<1>1. DOMAIN x = 1 .. N /\ a \in 1 .. N + 1 /\ b \in 0 .. N
  BY <1>0
<1> DEFINE y == Latin1(x)
           w == SubSeq(x, a, b)
           B == A \cup {"latin"}
<1>2. /\ w \in Seq(A) /\ DOMAIN w = 1 .. b - a + 1
      /\ \A k \in 1 .. b - a + 1 : w[k] = x[a + k - 1]
  BY <1>0, <1>1
<1>3. y \in Seq(B) /\ Len(y) = N
  BY <1>0, LatinIs
<1>4. \A k \in 1 .. N : y[k] = AsChar(x[k])
  BY <1>1 DEF Latin1
<1> HIDE DEF y, B
<1>5. SubSeq(y, a, b) = [k \in 1 .. b - a + 1 |-> y[a + k - 1]]
  BY <1>1, <1>3
<1>6. \A k \in 1 .. b - a + 1 : y[a + k - 1] = AsChar(w[k])
  <2> TAKE k \in 1 .. b - a + 1
  <2>1. a + k - 1 \in 1 .. N
    BY <1>1
  <2> HIDE DEF w
  <2> QED
    BY <1>2, <1>4, <2>1
<1>7. Latin1(w) = [k \in 1 .. b - a + 1 |-> AsChar(w[k])]
  <2> HIDE DEF w
  <2> QED
    BY <1>2 DEF Latin1
<1> HIDE DEF w
<1> QED
  BY <1>2, <1>5, <1>6, <1>7 DEF y, w

\* Blank is what was blank.
LEMMA TrimLatin ==
    ASSUME NEW A, NEW x \in Seq(A)
    PROVE  /\ Trim(x) \in Seq(A)
           /\ Trim(Latin1(x)) = Latin1(Trim(x))
           /\ Trim(Latin1(x)) = << >> <=> Trim(x) = << >>
<1>1. PICK N \in Nat : Len(x) = N /\ DOMAIN x = 1 .. N
  OBVIOUS
<1> DEFINE I == Inked(x)
           y == Latin1(x)
           a == Min(I)
           b == Max(I)
<1>2. Inked(y) = I
  <2> HIDE DEF y
  <2>1. DOMAIN y = 1 .. N /\ \A k \in 1 .. N : y[k] = "LF" <=> x[k] = "LF"
    <3>1. /\ y \in Seq(A \cup {"latin"}) /\ Len(y) = N /\ DOMAIN y = 1 .. N
          /\ \A k \in 1 .. N : \A c \in Signs : y[k] = c <=> x[k] = c
      <4>1. y = Latin1(x)
        BY DEF y
      <4> QED
        BY <1>1, <4>1, LatinIs
    <3> QED
      BY <3>1 DEF Signs
  <2> QED
    BY <1>1, <2>1 DEF Inked
<1>3. CASE I = {}
  <2>1. Trim(x) = << >> /\ Trim(y) = << >>
    BY <1>2, <1>3, Zenon DEF Trim
  <2>2. Latin1(<< >>) = << >>
    BY DEF Latin1
  <2>3. << >> \in Seq(A)
    OBVIOUS
  <2> HIDE DEF y
  <2> QED
    BY <2>1, <2>2, <2>3 DEF y
<1>4. CASE I # {}
  <2>1. I \subseteq 1 .. N
    BY <1>1 DEF Inked
  <2> HIDE DEF I
  <2>2. a \in I /\ \A k \in I : a <= k
    <3>1. I \subseteq Nat
      BY <2>1
    <3> QED
      BY <1>4, <3>1, LeastOf
  <2>3. b \in I /\ \A k \in I : k <= b
    BY <1>4, <2>1, LargestNumber
  <2>4. a \in 1 .. N /\ b \in 1 .. N /\ a <= b
    BY <2>1, <2>2, <2>3
  <2>5. Trim(x) = SubSeq(x, a, b) /\ Trim(y) = SubSeq(y, a, b)
    BY <1>2, <1>4, Zenon DEF Trim, I
  <2> HIDE DEF a, b
  <2>6. SubSeq(x, a, b) \in Seq(A) /\ SubSeq(y, a, b) = Latin1(SubSeq(x, a, b))
    <3>1. a \in 1 .. Len(x) + 1 /\ b \in 0 .. Len(x)
      BY <1>1, <2>4
    <3> QED
      BY <1>1, <3>1, SubSeqLatin
  <2>7. Len(SubSeq(x, a, b)) = b - a + 1 /\ b - a + 1 # 0
    BY <1>1, <2>4
  <2> DEFINE w == SubSeq(x, a, b)
  <2>8. w \in Seq(A) /\ Len(w) # 0
    BY <2>6, <2>7
  <2> HIDE DEF w
  <2>9. w # << >> /\ Latin1(w) # << >>
    <3>1. PICK M \in Nat : Len(w) = M /\ M # 0
      BY <2>8
    <3>2. Len(Latin1(w)) = M
      BY <2>8, <3>1, LatinIs
    <3> QED
      BY <3>1, <3>2
  <2> QED
    BY <2>5, <2>6, <2>9 DEF w
<1> QED
  BY <1>3, <1>4

\* Literals stay where they are.
LEMMA LiteralLatin ==
    ASSUME NEW A, NEW x \in Seq(A), NEW y, y = Latin1(x), NEW i \in 1 .. Len(x)
    PROVE  LiteralEnd(y, i) = LiteralEnd(x, i)
<1>1. PICK N \in Nat : Len(x) = N /\ DOMAIN x = 1 .. N
  OBVIOUS
<1>2. /\ y \in Seq(A \cup {"latin"}) /\ Len(y) = N
      /\ \A k \in 1 .. N : \A c \in {"'", "$", "a"} : y[k] = c <=> x[k] = c
  BY <1>1, LatinIs DEF Signs
<1>3. QuotesFrom(y, i) = QuotesFrom(x, i)
  BY <1>1, <1>2 DEF QuotesFrom
<1>4. ASSUME NEW o \in Nat
      PROVE  IsOpener(y, i, o) <=> IsOpener(x, i, o)
  BY <1>1, <1>2 DEF IsOpener
<1>5. ASSUME NEW o \in Nat, IsOpener(x, i, o), NEW c \in o + 1 .. N
      PROVE  Again(y, i, o, c) <=> Again(x, i, o, c)
  <2>1. /\ i < o /\ o <= N /\ x[i] = "$" /\ x[o] = "$"
        /\ \A k \in i + 1 .. o - 1 : x[k] = "a"
    BY <1>1, <1>5 DEF IsOpener
  <2>2. \A z \in 0 .. o - i : i + z \in 1 .. N /\ x[i + z] \in {"$", "a"}
    <3> TAKE z \in 0 .. o - i
    <3>1. i + z = i \/ i + z = o \/ i + z \in i + 1 .. o - 1
      BY <1>1, <2>1
    <3> QED
      BY <1>1, <2>1, <3>1
  <2>3. ASSUME c + (o - i) <= N, NEW z \in 0 .. o - i
        PROVE  y[c + z] = y[i + z] <=> x[c + z] = x[i + z]
    <3>1. c + z \in 1 .. N /\ i + z \in 1 .. N /\ x[i + z] \in {"$", "a"}
      BY <1>1, <1>5, <2>1, <2>2, <2>3
    <3>2. y[i + z] = x[i + z]
      BY <1>2, <3>1
    <3> QED
      BY <1>2, <3>1, <3>2
  <2> QED
    BY <1>1, <1>2, <2>3 DEF Again
<1>6. /\ \A o \in OpenerEnds(x, i) : o \in Nat /\ IsOpener(x, i, o)
      /\ \A o \in Nat : IsOpener(x, i, o) =>
            /\ OpenerEnds(x, i) # {}
            /\ Len(OpenerOf(x, i)) = o - i + 1
            /\ \A c \in o + 1 .. N :
                  At(x, c, OpenerOf(x, i)) <=> Again(x, i, o, c)
  BY <1>1, OpenerIs
<1>7. /\ \A o \in OpenerEnds(y, i) : o \in Nat /\ IsOpener(y, i, o)
      /\ \A o \in Nat : IsOpener(y, i, o) =>
            /\ OpenerEnds(y, i) # {}
            /\ Len(OpenerOf(y, i)) = o - i + 1
            /\ \A c \in o + 1 .. N :
                  At(y, c, OpenerOf(y, i)) <=> Again(y, i, o, c)
  BY <1>1, <1>2, OpenerIs
<1>8. OpenerEnds(y, i) # {} <=> OpenerEnds(x, i) # {}
  BY <1>4, <1>6, <1>7
<1>9. ASSUME OpenerEnds(x, i) # {}
      PROVE  ClosersOf(y, i) = ClosersOf(x, i)
             /\ Len(OpenerOf(y, i)) = Len(OpenerOf(x, i))
  <2>1. PICK o \in Nat : IsOpener(x, i, o) /\ IsOpener(y, i, o)
    BY <1>4, <1>6, <1>9
  <2>2. /\ Len(OpenerOf(x, i)) = o - i + 1 /\ Len(OpenerOf(y, i)) = o - i + 1
        /\ \A c \in o + 1 .. N :
              At(y, c, OpenerOf(y, i)) <=> At(x, c, OpenerOf(x, i))
    BY <1>5, <1>6, <1>7, <2>1
  <2>3. i + (o - i + 1) = o + 1
    BY <1>1
  <2>4. /\ ClosersOf(x, i) = {c \in o + 1 .. N : At(x, c, OpenerOf(x, i))}
        /\ ClosersOf(y, i) = {c \in o + 1 .. N : At(y, c, OpenerOf(y, i))}
    BY <1>1, <1>2, <2>2, <2>3 DEF ClosersOf
  <2> QED
    BY <2>2, <2>4
<1>10. x[i] = "'" <=> y[i] = "'"
  BY <1>1, <1>2
<1>11. CASE x[i] = "'"
  <2>1. /\ LiteralEnd(x, i) = 1 + FirstOr(Len(x), QuotesFrom(x, i))
        /\ LiteralEnd(y, i) = 1 + FirstOr(Len(y), QuotesFrom(y, i))
    BY <1>10, <1>11, LiteralEndIs
  <2> QED
    BY <1>1, <1>2, <1>3, <2>1
<1>12. CASE x[i] # "'" /\ OpenerEnds(x, i) # {}
  <2>1. /\ LiteralEnd(x, i) = IF ClosersOf(x, i) = {} THEN Len(x) + 1
                              ELSE Min(ClosersOf(x, i)) + Len(OpenerOf(x, i))
        /\ LiteralEnd(y, i) = IF ClosersOf(y, i) = {} THEN Len(y) + 1
                              ELSE Min(ClosersOf(y, i)) + Len(OpenerOf(y, i))
    BY <1>8, <1>10, <1>12, LiteralEndIs
  <2> QED
    BY <1>1, <1>2, <1>9, <1>12, <2>1
<1>13. CASE x[i] # "'" /\ OpenerEnds(x, i) = {}
  BY <1>8, <1>10, <1>13, LiteralEndIs
<1> QED
  BY <1>11, <1>12, <1>13

LEMMA WithinLatin ==
    ASSUME NEW A, NEW x \in Seq(A), NEW y, y = Latin1(x), NEW of
    PROVE  Within(y, LiteralsOnly, of) = Within(x, LiteralsOnly, of)
<1>1. PICK N \in Nat : Len(x) = N
  OBVIOUS
<1> DEFINE B == A \cup {"latin"}
<1>2. y \in Seq(B) /\ Len(y) = N
  BY <1>1, LatinIs
<1> HIDE DEF B
<1>3. ASSUME NEW i \in 1 .. N
      PROVE  /\ NextAt(y, LiteralsOnly, i) = NextAt(x, LiteralsOnly, i)
             /\ StretchAt(y, LiteralsOnly, i) = StretchAt(x, LiteralsOnly, i)
  <2>1. LiteralEnd(y, i) = LiteralEnd(x, i)
    BY <1>1, LiteralLatin
  <2>2. NextAt(y, LiteralsOnly, i) = NextAt(x, LiteralsOnly, i)
    BY <2>1 DEF NextAt, LiteralsOnly
  <2>3. KindAt(y, LiteralsOnly, i) = KindAt(x, LiteralsOnly, i)
    BY <2>1 DEF KindAt, LiteralsOnly
  <2> QED
    BY <2>2, <2>3 DEF StretchAt
<1>4. ASSUME NEW g
      PROVE  ScanEquation(g, y, LiteralsOnly) <=> ScanEquation(g, x, LiteralsOnly)
  <2>1. ASSUME NEW i \in 1 .. N + 1
        PROVE  FromHere(g, y, LiteralsOnly, i) = FromHere(g, x, LiteralsOnly, i)
    <3>1. CASE i = N + 1
      BY <1>1, <1>2, <3>1, Zenon DEF FromHere
    <3>2. CASE i # N + 1
      <4>1. i \in 1 .. N
        BY <3>2
      <4> QED
        BY <1>1, <1>2, <1>3, <3>2, <4>1, Zenon DEF FromHere
    <3> QED
      BY <3>1, <3>2
  <2>2. [i \in 1 .. Len(y) + 1 |-> FromHere(g, y, LiteralsOnly, i)]
           = [i \in 1 .. Len(x) + 1 |-> FromHere(g, x, LiteralsOnly, i)]
    BY <1>1, <1>2, <2>1
  <2>3. ScanEquation(g, x, LiteralsOnly) <=>
           g = [i \in 1 .. Len(x) + 1 |-> FromHere(g, x, LiteralsOnly, i)]
    BY ScanSolves
  <2>4. ScanEquation(g, y, LiteralsOnly) <=>
           g = [i \in 1 .. Len(y) + 1 |-> FromHere(g, y, LiteralsOnly, i)]
    BY <1>2, ScanSolves
  <2> QED
    BY <2>2, <2>3, <2>4, Zenon
<1>5. ScanFrom(y, LiteralsOnly) = ScanFrom(x, LiteralsOnly)
  BY <1>4, Zenon DEF ScanFrom
<1>6. Scan(y, LiteralsOnly) = Scan(x, LiteralsOnly)
  BY <1>5, ScanIs, Zenon
<1> QED
  BY <1>6, Zenon DEF Within

LEMMA CutsLatin ==
    ASSUME NEW A, NEW x \in Seq(A), NEW y, y = Latin1(x)
    PROVE  CutsLeft(y) = CutsLeft(x)
<1>1. PICK N \in Nat : Len(x) = N /\ DOMAIN x = 1 .. N
  OBVIOUS
<1>2. DOMAIN y = 1 .. N /\ \A k \in 1 .. N : y[k] = Semicolon <=> x[k] = Semicolon
  <2>1. /\ y \in Seq(A \cup {"latin"}) /\ Len(y) = N /\ DOMAIN y = 1 .. N
        /\ \A k \in 1 .. N : \A c \in Signs : y[k] = c <=> x[k] = c
    BY <1>1, LatinIs
  <2> QED
    BY <2>1 DEF Signs
<1>3. Within(y, LiteralsOnly, "literal") = Within(x, LiteralsOnly, "literal")
  BY WithinLatin
<1> QED
  BY <1>1, <1>2, <1>3 DEF CutsLeft

\* A statement has the same line and the text as it is written.
LEMMA StmtLatin ==
    ASSUME NEW A, NEW x \in Seq(A), NEW y, y = Latin1(x), NEW N \in Nat,
           Len(x) = N, NEW D \in SUBSET (1 .. N), NEW v \in 1 .. N + 1
    PROVE  LET two == StmtLeft(y, D, v)
               one == StmtLeft(x, D, v)
           IN  /\ one.text \in Seq(A) /\ two.text = Latin1(one.text)
               /\ two.text = << >> <=> one.text = << >>
               /\ two.startLine = one.startLine
<1>1. /\ Len(y) = N /\ DOMAIN y = 1 .. N /\ DOMAIN x = 1 .. N
      /\ \A k \in 1 .. N : y[k] = "LF" <=> x[k] = "LF"
  <2>1. /\ y \in Seq(A \cup {"latin"}) /\ Len(y) = N /\ DOMAIN y = 1 .. N
        /\ \A k \in 1 .. N : \A c \in Signs : y[k] = c <=> x[k] = c
    BY LatinIs
  <2>2. DOMAIN x = 1 .. N
    OBVIOUS
  <2> QED
    BY <2>1, <2>2 DEF Signs
<1> DEFINE e == CutBehind(x, D, v)
           w == SubSeq(x, v, e - 1)
           S == {i \in Inked(x) : i >= v}
           f == FirstOr(N + 1, S)
           two == StmtLeft(y, D, v)
           one == StmtLeft(x, D, v)
<1>2. CutBehind(y, D, v) = e
  BY <1>1 DEF CutBehind
<1>3. e \in Nat /\ v <= e /\ e <= N + 1
  <2> DEFINE F == {i \in D : i >= v}
  <2>1. e = FirstOr(N + 1, F)
    BY <1>1 DEF CutBehind
  <2>2. v \in Nat /\ v <= N + 1 /\ F \subseteq Nat
        /\ \A i \in F : i \in Nat /\ v <= i /\ i <= N
    <3>1. v \in Nat /\ v <= N + 1
      OBVIOUS
    <3>2. \A i \in D : i \in Nat /\ i <= N
      OBVIOUS
    <3>3. \A i \in F : i \in Nat /\ v <= i /\ i <= N
      BY <3>2
    <3> HIDE DEF F
    <3>4. F \subseteq Nat
      BY <3>3, Zenon
    <3> QED
      BY <3>1, <3>3, <3>4
  <2> HIDE DEF e, F
  <2>3. CASE F = {}
    BY <2>1, <2>2, <2>3 DEF FirstOr
  <2>4. CASE F # {}
    <3>1. PICK i \in F : TRUE
      BY <2>4
    <3>2. Min(F) \in F
      BY <2>2, <3>1, LeastOf
    <3>3. e = Min(F)
      BY <2>1, <2>4 DEF FirstOr
    <3>4. e \in Nat /\ v <= e /\ e <= N
      BY <2>2, <3>2, <3>3, Zenon
    <3> QED
      BY <3>4
  <2> QED
    BY <2>3, <2>4
<1> HIDE DEF e
<1>4. w \in Seq(A) /\ SubSeq(y, v, e - 1) = Latin1(w)
  <2> DEFINE d == e - 1
  <2>1. d \in 0 .. Len(x) /\ v \in 1 .. Len(x) + 1
    BY <1>3
  <2> HIDE DEF d
  <2>2. /\ SubSeq(x, v, d) \in Seq(A)
        /\ SubSeq(Latin1(x), v, d) = Latin1(SubSeq(x, v, d))
    BY <2>1, SubSeqLatin, Zenon
  <2> QED
    BY <2>2, Zenon DEF d, w
<1>5. two.text = Trim(Latin1(w)) /\ one.text = Trim(w)
  BY <1>2, <1>4 DEF StmtLeft, e
<1>6. Inked(y) = Inked(x) /\ S \subseteq 1 .. N
  BY <1>1 DEF Inked
<1>7. f \in 1 .. N + 1
  <2> HIDE DEF S
  <2>1. CASE S = {}
    BY <2>1 DEF FirstOr
  <2>2. CASE S # {}
    <3>1. S \subseteq Nat /\ \E i : i \in S
      BY <1>6, <2>2
    <3>2. Min(S) \in S
      BY <3>1, LeastOf
    <3>3. f = Min(S)
      BY <2>2 DEF FirstOr
    <3> HIDE DEF f
    <3>4. Min(S) \in 1 .. N
      BY <1>6, <3>2
    <3> QED
      BY <3>3, <3>4
  <2> QED
    BY <2>1, <2>2
<1>8. /\ one.startLine = IF v = 1 THEN 1 ELSE LineOf(x, f)
      /\ two.startLine = IF v = 1 THEN 1 ELSE LineOf(y, f)
  BY <1>1, <1>6 DEF StmtLeft
<1> HIDE DEF f, S
<1>9. LineOf(y, f) = LineOf(x, f)
  <2>1. {k \in 1 .. (f - 1) : y[k] = "LF"} = {k \in 1 .. (f - 1) : x[k] = "LF"}
    BY <1>1, <1>7
  <2> QED
    BY <2>1 DEF LineOf
<1>10. /\ Trim(w) \in Seq(A) /\ Trim(Latin1(w)) = Latin1(Trim(w))
       /\ Trim(Latin1(w)) = << >> <=> Trim(w) = << >>
  BY <1>4, TrimLatin
<1> HIDE DEF two, one, w
<1> QED
  BY <1>5, <1>8, <1>9, <1>10 DEF two, one

-----------------------------------------------------------------------------
(* Both passes together.                                                   *)

\* The two lists pair up, statement by statement.
Paired(X, Y, m) ==
    /\ m \in Nat /\ X = [k \in 1 .. m |-> X[k]] /\ Y = [k \in 1 .. m |-> Y[k]]
    /\ \A k \in 1 .. m : X[k].text = << >> <=> Y[k].text = << >>

PairedTexts(p, q, X, Y, m) ==
    /\ Len(p) = Len(q)
    /\ \A k \in DOMAIN q :
          \E i \in 1 .. m : p[k] = X[i] /\ q[k] = Y[i] /\ X[i].text # << >>

\* Statements without a text are left out of both lists alike.
LEMMA WithTextBoth ==
    ASSUME NEW m, NEW X, NEW Y, Paired(X, Y, m)
    PROVE  PairedTexts(WithText(X), WithText(Y), X, Y, m)
<1> DEFINE S == {k \in 1 .. m : X[k].text # << >>}
           n == Cardinality(S)
           z == InOrder(S)
<1>1. /\ m \in Nat /\ X = [k \in 1 .. m |-> X[k]] /\ Y = [k \in 1 .. m |-> Y[k]]
       /\ \A k \in 1 .. m : X[k].text = << >> <=> Y[k].text = << >>
  BY Zenon DEF Paired
<1>2. DOMAIN X = 1 .. m /\ DOMAIN Y = 1 .. m
  BY <1>1, Zenon
<1>3. /\ {k \in DOMAIN X : X[k].text # << >>} = S
      /\ {k \in DOMAIN Y : Y[k].text # << >>} = S
  BY <1>2, <1>1
<1>4. S \in SUBSET (1 .. m)
  OBVIOUS
<1>5. WithText(X) = Selected(X, S) /\ WithText(Y) = Selected(Y, S)
  BY <1>3, Zenon DEF WithText
<1>6. \A i \in S : i \in 1 .. m /\ X[i].text # << >>
  OBVIOUS
<1> HIDE DEF S
<1>7. n \in Nat /\ Enumerates(z, n, S)
  BY <1>4, <1>1, Enumeration
<1> HIDE DEF n, z
<1>8. Selected(X, S) = Read(X, z, n) /\ Selected(Y, S) = Read(Y, z, n)
  BY <1>4, <1>7, <1>1, SelectedAt
<1>9. \A k \in 1 .. n : z[k] \in S
  BY <1>7 DEF Enumerates
<1>10. /\ Len(Read(X, z, n)) = n /\ Len(Read(Y, z, n)) = n /\ DOMAIN Read(Y, z, n) = 1 .. n
      /\ \A k \in 1 .. n : Read(X, z, n)[k] = X[z[k]] /\ Read(Y, z, n)[k] = Y[z[k]]
  BY <1>7 DEF Read
<1> DEFINE p == Read(X, z, n)
           q == Read(Y, z, n)
<1>11. WithText(X) = p /\ WithText(Y) = q
  BY <1>5, <1>8, Zenon
<1> HIDE DEF p, q
<1>12. \A k \in 1 .. n : \E i \in 1 .. m : p[k] = X[i] /\ q[k] = Y[i] /\ X[i].text # << >>
  <2> TAKE k \in 1 .. n
  <2>1. z[k] \in 1 .. m /\ X[z[k]].text # << >>
    BY <1>6, <1>9
  <2>2. p[k] = X[z[k]] /\ q[k] = Y[z[k]]
    BY <1>10 DEF p, q
  <2> QED
    BY <2>1, <2>2
<1>13. Len(p) = Len(q) /\ DOMAIN q = 1 .. n
  BY <1>10 DEF p, q
<1>14. PairedTexts(p, q, X, Y, m)
  BY <1>12, <1>13, Zenon DEF PairedTexts
<1> QED
  BY <1>11, <1>14, Zenon

\* Both passes together, for one text (parse.rs:34-245).
LEMMA PassesDo ==
    ASSUME NEW A, NEW t \in Seq(A)
    PROVE  PassesAgree(t)
<1>1. PICK N \in Nat : Len(t) = N /\ DOMAIN t = 1 .. N
  OBVIOUS
<1> DEFINE u == WithoutComments(t)
           K == KeptOf(t)
           n == Cardinality(K)
           z == InOrder(K)
<1>2. K \in SUBSET (1 .. N) /\ u = Selected(t, K) /\ u \in Seq(A)
  BY <1>1, StripIs
<1> HIDE DEF u, K
<1>3. n \in Nat /\ Enumerates(z, n, K)
  BY <1>1, <1>2, Enumeration
<1> HIDE DEF n, z
<1>4. u = Read(t, z, n)
  BY <1>1, <1>2, <1>3, SelectedAt
<1>5. Listing(z, n, K, N)
  BY <1>1, <1>2, <1>3 DEF Listing
<1>6. Len(u) = n /\ DOMAIN u = 1 .. n /\ \A b \in 1 .. n : u[b] = t[z[b]]
  BY <1>3, <1>4 DEF Read
<1>7. /\ \A b \in 1 .. n : z[b] \in K /\ z[b] \in 1 .. N
      /\ \A a, b \in 1 .. n : a < b => z[a] < z[b]
      /\ \A i \in K : \E b \in 1 .. n : z[b] = i
  BY <1>2, <1>3 DEF Enumerates
<1>8. \A i \in 1 .. N : t[i] = "LF" => i \in K
  <2>1. InComments(t) = {i \in Within(t, WithComments, "comment") : t[i] # "LF"}
    BY Zenon DEF InComments, WithComments
  <2> QED
    BY <1>1, <2>1 DEF KeptOf, K
<1> DEFINE two == Statements(t)
           one == FileStatements(t)
           Agree == /\ Len(two) = Len(one)
                    /\ \A k \in DOMAIN one :
                          /\ Plain(one[k].text) => two[k].text = one[k].text
                          /\ ~one[k].leads => two[k].startLine = one[k].startLine
<1>9. ASSUME NoStrayDollar(t)
      PROVE  Agree
  <2> DEFINE C == CutsFile(t)
             D == CutsLeft(u)
             m == Cardinality(D)
             e == InOrder(D)
             f == [k \in 1 .. m |-> z[e[k]]]
  <2>1. D \in SUBSET (1 .. n)
    BY <1>6 DEF CutsLeft
  <2>2. \A b \in 1 .. n : b \in Within(u, LiteralsOnly, "literal") <=>
                          z[b] \in Within(t, WithComments, "literal")
    <3>1. Enumerates(z, n, KeptOf(t)) /\ n \in Nat
      BY <1>3 DEF K
    <3> QED
      BY <1>2, <1>4, <1>9, <3>1, LiteralsKept
  <2>3. C = Image(z, D)
    <3>1. \A b \in 1 .. n : b \in D <=> z[b] \in C
      BY <1>6, <1>7, <2>2 DEF CutsLeft, CutsFile, K
    <3>2. \A i \in C : i \in K
      BY DEF CutsFile, K
    <3> HIDE DEF C, D
    <3>3. \A i \in C : i \in Image(z, D)
      BY <1>7, <3>1, <3>2 DEF Image
    <3>4. \A i \in Image(z, D) : i \in C
      BY <2>1, <3>1 DEF Image
    <3> QED
      BY <3>3, <3>4
  <2> HIDE DEF C, D
  <2>4. m \in Nat /\ Enumerates(e, m, D)
    BY <1>3, <2>1, Enumeration
  <2> HIDE DEF m, e
  <2>5. /\ \A k \in 1 .. m : e[k] \in D /\ e[k] \in 1 .. n
        /\ \A a, b \in 1 .. m : a < b => e[a] < e[b]
        /\ \A i \in D : \E k \in 1 .. m : e[k] = i
    BY <2>1, <2>4 DEF Enumerates
  <2>6. Listing(e, m, D, n)
    BY <1>3, <2>1, <2>4 DEF Listing
  <2>7. Listing(f, m, C, N)
    <3>1. f \in [1 .. m -> C]
      BY <2>3, <2>5 DEF Image
    <3>2. \A a, b \in 1 .. m : a < b => f[a] < f[b]
      BY <1>7, <2>5
    <3>3. \A i \in C : \E k \in 1 .. m : f[k] = i
      <4> TAKE i \in C
      <4>1. PICK b \in D : i = z[b]
        BY <2>3 DEF Image
      <4>2. PICK k \in 1 .. m : e[k] = b
        BY <2>5
      <4> QED
        BY <4>1, <4>2
    <3>4. C \in SUBSET (1 .. N)
      <4>1. ASSUME NEW i \in C
            PROVE  i \in 1 .. N
        <5>1. PICK b \in D : i = z[b]
          BY <2>3 DEF Image
        <5> QED
          BY <1>7, <2>1, <5>1
      <4> QED
        BY <4>1
    <3> HIDE DEF f
    <3>5. Enumerates(f, m, C)
      BY <3>1, <3>2, <3>3 DEF Enumerates
    <3> QED
      BY <2>4, <3>4, <3>5 DEF Listing
  <2>8. \A k \in 1 .. m : f[k] = z[e[k]]
    OBVIOUS
  <2> HIDE DEF f
  <2> DEFINE v == Shifted(e, m)
             s == Shifted(f, m)
             y == Latin1(u)
             X == ReadLeft(y, v)
             Y == ReadFile(t, s)
  <2>9. two = WithText(X) /\ one = WithText(Y)
    <3>1. InOrder(StartsOf(D)) = v
      BY <2>6, StartsListed
    <3>2. InOrder(StartsOf(C)) = s
      BY <2>7, StartsListed
    <3>3. two = SplitStatements(y)
      BY Zenon DEF Statements, StripComments, u
    <3>4. two = WithText(ReadLeft(y, InOrder(StartsOf(D))))
      <4>1. CutsLeft(y) = D
        BY <1>2, CutsLatin DEF D
      <4> QED
        BY <3>3, <4>1, SplitIs, Zenon
    <3>5. one = WithText(ReadFile(t, InOrder(StartsOf(C))))
      BY FileIs DEF C
    <3> QED
      BY <3>1, <3>2, <3>4, <3>5, Zenon
  <2>10. DOMAIN v = 1 .. m + 1 /\ DOMAIN s = 1 .. m + 1
    BY DEF Shifted
  <2>11. ASSUME NEW k \in 1 .. m + 1
         PROVE  /\ v[k] \in 1 .. n + 1 /\ s[k] \in 1 .. N + 1
                /\ Fronts(z, n, s[k], v[k]) /\ (v[k] = 1 <=> s[k] = 1)
    <3>1. CASE k = 1
      <4>1. v[k] = 1 /\ s[k] = 1
        BY <3>1 DEF Shifted
      <4>2. Fronts(z, n, 1, 1)
        BY <1>7 DEF Fronts
      <4> QED
        BY <1>1, <1>3, <4>1, <4>2
    <3>2. CASE k # 1
      <4>1. k - 1 \in 1 .. m
        BY <2>4, <3>2
      <4>2. PICK a \in 1 .. n : a = e[k - 1]
        BY <2>5, <4>1
      <4>3. v[k] = a + 1 /\ s[k] = z[a] + 1
        BY <2>8, <3>2, <4>1, <4>2 DEF Shifted
      <4>4. z[a] \in 1 .. N
        BY <1>7
      <4>5. \A b \in 1 .. n : b >= a + 1 <=> z[b] >= z[a] + 1
        <5> TAKE b \in 1 .. n
        <5>1. a < b \/ a = b \/ b < a
          BY <1>3
        <5>2. z[b] \in 1 .. N
          BY <1>7
        <5> QED
          BY <1>3, <1>7, <4>4, <5>1, <5>2
      <4>6. Fronts(z, n, z[a] + 1, a + 1)
        BY <4>5 DEF Fronts
      <4>7. a + 1 \in 1 .. n + 1 /\ z[a] + 1 \in 1 .. N + 1 /\ a + 1 # 1 /\ z[a] + 1 # 1
        BY <1>3, <4>4
      <4> QED
        BY <4>3, <4>6, <4>7
    <3> QED
      BY <3>1, <3>2
  <2> HIDE DEF v, s
  <2>12. ASSUME NEW k \in 1 .. m + 1
         PROVE  /\ X[k] = StmtLeft(y, D, v[k]) /\ Y[k] = StmtFile(t, C, s[k])
    <3>1. CutsLeft(y) = D
      BY <1>2, CutsLatin DEF D
    <3> HIDE DEF y
    <3>2. X[k] = StmtLeft(y, CutsLeft(y), v[k])
      BY <2>10 DEF ReadLeft
    <3>3. Y[k] = StmtFile(t, C, s[k])
      BY <2>10 DEF ReadFile, C
    <3> QED
      BY <3>1, <3>2, <3>3
  <2>13. /\ X = [k \in 1 .. m + 1 |-> X[k]] /\ Y = [k \in 1 .. m + 1 |-> Y[k]]
    BY <2>10 DEF ReadLeft, ReadFile
  <2> HIDE DEF X, Y
  <2>14. ASSUME NEW k \in 1 .. m + 1
         PROVE  /\ X[k].text = << >> <=> Y[k].text = << >>
                /\ Plain(Y[k].text) => X[k].text = Y[k].text
                /\ X[k].text # << >> =>
                      X[k].startLine = IF Y[k].leads THEN 1 ELSE Y[k].startLine
    <3>1. PICK p : p = v[k]
      OBVIOUS
    <3>2. PICK q : q = s[k]
      OBVIOUS
    <3>3. /\ p \in 1 .. n + 1 /\ q \in 1 .. Len(t) + 1 /\ Fronts(z, n, q, p)
          /\ (p = 1 <=> q = 1)
      BY <1>1, <2>11, <3>1, <3>2
    <3>4. Listing(z, n, KeptOf(t), Len(t))
      BY <1>1, <1>5 DEF K
    <3>5. \A i \in 1 .. Len(t) : t[i] = "LF" => i \in KeptOf(t)
      BY <1>1, <1>8 DEF K
    <3>6. LET l == StmtLeft(u, D, p)
              g == StmtFile(t, Image(z, D), q)
          IN  /\ l.text = g.text
              /\ l.text # << >> => l.startLine = IF g.leads THEN 1 ELSE g.startLine
      BY <1>2, <1>4, <2>1, <3>3, <3>4, <3>5, SameStatement
    <3>7. LET l == StmtLeft(y, D, p)
              g == StmtLeft(u, D, p)
          IN  /\ g.text \in Seq(A) /\ l.text = Latin1(g.text)
              /\ l.text = << >> <=> g.text = << >>
              /\ l.startLine = g.startLine
      BY <1>2, <1>3, <1>6, <2>1, <3>3, StmtLatin
    <3> DEFINE l == StmtLeft(y, D, p)
               g == StmtLeft(u, D, p)
               h == StmtFile(t, Image(z, D), q)
    <3>8. X[k] = l /\ Y[k] = h
      BY <2>3, <2>12, <3>1, <3>2, Zenon
    <3>9. /\ g.text = h.text /\ g.text \in Seq(A) /\ l.text = Latin1(g.text)
          /\ l.text = << >> <=> g.text = << >>
          /\ l.startLine = g.startLine
          /\ g.text # << >> => g.startLine = IF h.leads THEN 1 ELSE h.startLine
      BY <3>6, <3>7, Zenon
    <3> HIDE DEF l, g, h
    <3>10. Plain(g.text) => Latin1(g.text) = g.text
      BY <3>9, PlainLatin
    <3> QED
      BY <3>8, <3>9, <3>10, Zenon
  <2>15. m + 1 \in Nat
    BY <2>4
  <2> HIDE DEF two, one
  <2>16. Paired(X, Y, m + 1)
    BY <2>13, <2>14, <2>15, Zenon DEF Paired
  <2>17. PairedTexts(WithText(X), WithText(Y), X, Y, m + 1)
    <3> DEFINE l == m + 1
    <3>1. Paired(X, Y, l)
      BY <2>16
    <3> HIDE DEF l
    <3>2. PairedTexts(WithText(X), WithText(Y), X, Y, l)
      BY <3>1, WithTextBoth
    <3> QED
      BY <3>2 DEF l
  <2>18. /\ Len(two) = Len(one)
         /\ \A k \in DOMAIN one :
               \E i \in 1 .. m + 1 : /\ two[k] = X[i] /\ one[k] = Y[i]
                                     /\ X[i].text # << >>
    BY <2>9, <2>17, Zenon DEF PairedTexts
  <2>19. ASSUME NEW k \in DOMAIN one
         PROVE  /\ Plain(one[k].text) => two[k].text = one[k].text
                /\ ~one[k].leads => two[k].startLine = one[k].startLine
    <3>1. PICK i \in 1 .. m + 1 : two[k] = X[i] /\ one[k] = Y[i] /\ X[i].text # << >>
      BY <2>18
    <3> QED
      BY <2>14, <3>1
  <2> QED
    BY <2>18, <2>19
<1> QED
  BY <1>9, Zenon DEF PassesAgree

\* The regress scripts that MCTexts grows are texts.
RegressChars == {"'", "$", "-", "/", "*", Semicolon, "LF", "a", "high"}

\* The parts of a script are texts.
LEMMA PartsAreTexts == MCScriptParts \subseteq Seq(RegressChars)
<1>1. MCScriptParts =
         {<<"'">>, <<"$">>, <<"-", "-">>, <<"/", "*">>, <<"*">>, <<"/">>, <<Semicolon>>,
          <<"LF">>, <<"a">>, <<"high">>}
  BY Zenon DEF MCScriptParts, Semicolon
<1> QED
  BY <1>1 DEF RegressChars

RegressTyped == kind = "regress" => text \in Seq(RegressChars)

\* A regress script is a text of these characters.
LEMMA GrownRegress == TextSpec => []RegressTyped
<1> USE PartsAreTexts
<1>1. TextInit => RegressTyped
  <2>1. << >> \in Seq(RegressChars)
    OBVIOUS
  <2> QED
    BY <2>1, Zenon DEF TextInit, RegressTyped
<1>2. RegressTyped /\ [TextNext]_textVars => RegressTyped'
  <2> SUFFICES ASSUME RegressTyped, [TextNext]_textVars, kind' = "regress"
               PROVE  text' \in Seq(RegressChars)
    BY Zenon DEF RegressTyped
  <2>1. CASE UNCHANGED textVars
    BY <2>1 DEF RegressTyped, textVars
  <2>2. CASE TextNext
    <3>1. GrowRegress
      BY <2>2 DEF TextNext, GrowRegress, GrowList, GrowRow, GrowOut, GrowSmoke,
                  Grow
    <3>2. PICK piece \in MCScriptParts : text' = text \o piece
      BY <3>1 DEF GrowRegress, Grow
    <3>3. text \in Seq(RegressChars)
      BY <3>1 DEF GrowRegress, Grow, RegressTyped
    <3>4. piece \in Seq(RegressChars)
      BY <3>2
    <3> QED
      BY <3>2, <3>3, <3>4
  <2> QED
    BY <2>1, <2>2
<1> QED
  BY <1>1, <1>2, PTL DEF TextSpec

\* strip_comments and split_statements find the statements that one scanner
\* finds in the file, those in ASCII with their texts and those behind a
\* semicolon with their lines, however long the script is and wherever its
\* literals, tags and comments stand (parse.rs:34-245).
THEOREM PassesFindStatements ==
    /\ \A A : \A t \in Seq(A) : PassesAgree(t)
    /\ TextSpec => []SplitFindsStatements
<1>1. \A A : \A t \in Seq(A) : PassesAgree(t)
  BY PassesDo
<1>2. RegressTyped => SplitFindsStatements
  BY <1>1, Zenon DEF RegressTyped, SplitFindsStatements
<1>3. TextSpec => []SplitFindsStatements
  BY <1>2, GrownRegress, PTL
<1> QED
  BY <1>1, <1>3
=============================================================================
