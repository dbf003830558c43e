---------------------------- MODULE RulesProofs ----------------------------
(***************************************************************************)
(* What the two engines derive, for every set of rows: the least model of  *)
(* the rules; and that least models can be taken one component at a time.  *)
(***************************************************************************)
EXTENDS SouffleExecutor, FiniteSetTheorems, WellFoundedInduction, TLAPS

----------------------------------------------------------------------------
(* The limit of a step that only adds to a finite set.                     *)

Follows(U, step, f) == f = [T \in SUBSET U |-> IF step[T] = T THEN T ELSE f[step[T]]]
Runs(U, step) == CHOOSE f : Follows(U, step, f)

\* T is in every family of sets that has S and the step of its members.
Stage(U, step, S, T) ==
    \A F \in SUBSET SUBSET U : S \in F /\ (\A X \in F : step[X] \in F) => T \in F

Ends(U, step, S) == {T \in SUBSET U : Stage(U, step, S, T) /\ step[T] = T}

\* A nonempty set of numbers has a least one.
LEMMA LeastNat ==
    ASSUME NEW S \in SUBSET Nat, S # {}
    PROVE  \E m \in S : \A n \in S : m <= n
<1>1. PICK m \in S : \A y \in S : <<y, m>> \notin OpToRel(<, Nat)
  BY Zenon, NatLessThanWellFounded, WFMin
<1>2. ASSUME NEW y \in S PROVE m <= y
  <2>1. y \in Nat /\ m \in Nat
    BY Zenon
  <2>2. ~(y < m)
    BY <1>1, <2>1, Zenon DEF OpToRel
  <2> QED
    BY <2>1, <2>2
<1> QED
  BY Zenon, <1>2

\* Limit follows the recursion that applies the step until nothing changes.
LEMMA LimitRuns ==
    ASSUME NEW U, NEW step, NEW S
    PROVE  Limit(U, step, S) = Runs(U, step)[S]
<1>1. ASSUME NEW f
      PROVE  [T \in SUBSET U |-> Once(step[T], LAMBDA next : IF next = T THEN T ELSE f[next])]
             = [T \in SUBSET U |-> IF step[T] = T THEN T ELSE f[step[T]]]
  <2>1. ASSUME NEW T \in SUBSET U
        PROVE  Once(step[T], LAMBDA next : IF next = T THEN T ELSE f[next])
               = IF step[T] = T THEN T ELSE f[step[T]]
    BY DEF Once
  <2> QED
    BY <2>1, Zenon
<1> QED
  BY <1>1, Zenon DEF Limit, Runs, Follows

\* Some function satisfies the recursion: the one to the fixed stage.
LEMMA RunsExists ==
    ASSUME NEW U, NEW step \in [SUBSET U -> SUBSET U]
    PROVE  Follows(U, step, Runs(U, step))
<1> DEFINE e == [S \in SUBSET U |-> CHOOSE T : T \in Ends(U, step, S)]
<1>1. ASSUME NEW S \in SUBSET U PROVE e[S] = IF step[S] = S THEN S ELSE e[step[S]]
  <2>1. step[S] \in SUBSET U
    BY Zenon
  <2>2. CASE step[S] = S
    <3>1. Stage(U, step, S, S)
      BY Zenon DEF Stage
    <3>2. ASSUME NEW T \in Ends(U, step, S) PROVE T = S
      <4>1. Stage(U, step, S, T)
        BY Zenon DEF Ends
      <4>2. {S} \in SUBSET SUBSET U
        BY Zenon
      <4>3. T \in {S}
        BY Zenon, <2>2, <4>1, <4>2 DEF Stage
      <4> QED
        BY Zenon, <4>3
    <3>3. Ends(U, step, S) = {S}
      BY Zenon, <2>2, <3>1, <3>2 DEF Ends
    <3> QED
      BY Zenon, <2>2, <3>3
  <2>3. CASE step[S] # S
    <3>1. ASSUME NEW T \in Ends(U, step, S) PROVE T \in Ends(U, step, step[S])
      <4>1. SUFFICES ASSUME NEW F \in SUBSET SUBSET U, step[S] \in F,
                            \A X \in F : step[X] \in F
                     PROVE  T \in F
        BY Zenon DEF Ends, Stage
      <4>2. F \cup {S} \in SUBSET SUBSET U
        BY Zenon
      <4>3. \A X \in F \cup {S} : step[X] \in F \cup {S}
        BY Zenon, <4>1
      <4>4. T \in F \cup {S}
        BY Zenon, <4>2, <4>3 DEF Ends, Stage
      <4>5. T # S
        BY Zenon, <2>3 DEF Ends
      <4> QED
        BY Zenon, <4>4, <4>5
    <3>2. ASSUME NEW T \in Ends(U, step, step[S]) PROVE T \in Ends(U, step, S)
      <4>1. SUFFICES ASSUME NEW F \in SUBSET SUBSET U, S \in F, \A X \in F : step[X] \in F
                     PROVE  T \in F
        BY Zenon DEF Ends, Stage
      <4>2. step[S] \in F
        BY Zenon, <4>1
      <4> QED
        BY Zenon, <4>1, <4>2 DEF Ends, Stage
    <3>3. Ends(U, step, S) = Ends(U, step, step[S])
      BY Zenon, <3>1, <3>2
    <3> QED
      BY <2>1, <2>3, <3>3
  <2> QED
    BY Zenon, <2>2, <2>3
<1>2. Follows(U, step, e)
  <2> HIDE DEF e
  <2>1. [S \in SUBSET U |-> e[S]] = e
    BY Zenon DEF e
  <2>2. [S \in SUBSET U |-> e[S]] = [S \in SUBSET U |-> IF step[S] = S THEN S ELSE e[step[S]]]
    BY Zenon, <1>1
  <2> QED
    BY Zenon, <2>1, <2>2 DEF Follows
<1> QED
  BY Zenon, <1>2 DEF Runs

\* The limit is a stage of the run that the step leaves as it is.
LEMMA LimitReached ==
    ASSUME NEW U, IsFiniteSet(U), NEW step \in [SUBSET U -> SUBSET U],
           \A T \in SUBSET U : T \subseteq step[T], NEW S \in SUBSET U
    PROVE  Limit(U, step, S) \in Ends(U, step, S)
<1> DEFINE run == Runs(U, step)
           left(T) == Cardinality(U \ T)
           Bad == {T \in SUBSET U : run[T] \notin Ends(U, step, T)}
           Sizes == {left(T) : T \in Bad}
<1>1. \A T \in SUBSET U : run[T] = IF step[T] = T THEN T ELSE run[step[T]]
  <2> HIDE DEF run
  <2>1. Follows(U, step, run)
    BY Zenon, RunsExists DEF run
  <2> QED
    BY Zenon, <2>1 DEF Follows
<1>2. \A T \in SUBSET U : left(T) \in Nat
  BY Zenon, FS_Subset, FS_CardinalityType
<1>3. SUFFICES ASSUME Bad # {} PROVE FALSE
  BY Zenon, LimitRuns
<1>4. PICK m \in Sizes : \A n \in Sizes : m <= n
  <2>1. Sizes \in SUBSET Nat
    BY Zenon, <1>2
  <2>2. Sizes # {}
    <3>1. PICK T : T \in Bad
      BY Zenon, <1>3
    <3>2. left(T) \in Sizes
      BY Zenon, <3>1
    <3> QED
      BY Zenon, <3>2
  <2> HIDE DEF Sizes
  <2> QED
    BY Zenon, <2>1, <2>2, LeastNat
<1>5. PICK T \in Bad : m = left(T)
  BY Zenon
<1> HIDE DEF run
<1>6. ASSUME step[T] = T PROVE FALSE
  <2>1. Stage(U, step, T, T)
    BY Zenon DEF Stage
  <2> QED
    BY Zenon, <1>1, <1>6, <2>1 DEF Ends
<1>7. ASSUME step[T] # T PROVE FALSE
  <2>1. step[T] \in SUBSET U /\ T \subseteq step[T]
    BY Zenon
  <2>2. left(step[T]) < left(T)
    <3>1. U \ step[T] \in SUBSET (U \ T) /\ U \ step[T] # U \ T
      BY Zenon, <2>1, <1>7
    <3>2. IsFiniteSet(U \ T)
      BY Zenon, FS_Subset
    <3>3. left(step[T]) <= left(T) /\ left(step[T]) # left(T)
      BY Zenon, <3>1, <3>2, FS_Subset
    <3>4. left(step[T]) \in Nat /\ left(T) \in Nat
      BY Zenon, <1>2, <2>1
    <3> HIDE DEF left
    <3> QED
      BY <3>3, <3>4
  <2>3. step[T] \notin Bad
    <3>1. SUFFICES ASSUME step[T] \in Bad PROVE FALSE
      BY Zenon
    <3>2. left(step[T]) \in Sizes
      BY Zenon, <3>1
    <3>3. left(step[T]) \in Nat /\ left(T) \in Nat
      BY Zenon, <1>2, <2>1
    <3>4. left(T) <= left(step[T])
      BY Zenon, <1>4, <1>5, <3>2
    <3> HIDE DEF left
    <3> QED
      BY <2>2, <3>3, <3>4
  <2>4. run[T] \in Ends(U, step, step[T])
    BY Zenon, <1>1, <1>7, <2>1, <2>3
  <2>5. ASSUME NEW X \in Ends(U, step, step[T]) PROVE X \in Ends(U, step, T)
    <3>1. SUFFICES ASSUME NEW F \in SUBSET SUBSET U, T \in F, \A Y \in F : step[Y] \in F
                   PROVE  X \in F
      BY Zenon DEF Ends, Stage
    <3>2. step[T] \in F
      BY Zenon, <3>1
    <3> QED
      BY Zenon, <3>1, <3>2 DEF Ends, Stage
  <2> QED
    BY Zenon, <2>4, <2>5
<1> QED
  BY Zenon, <1>6, <1>7


----------------------------------------------------------------------------
(* Finite sets.                                                            *)

\* The image of a finite set is finite.
LEMMA ImageFinite ==
    ASSUME NEW S, IsFiniteSet(S), NEW f, DOMAIN f = S
    PROVE  IsFiniteSet({f[x] : x \in S})
<1> DEFINE T == {f[x] : x \in S}
           g == [x \in S |-> f[x]]
<1>1. g \in [S -> T] /\ \A t \in T : \E x \in S : g[x] = t
  BY Zenon
<1>2. g \in Surjection(S, T)
  BY <1>1, Zenon DEF Surjection
<1> QED
  BY <1>2, FS_Surjection, Zenon

\* The relation has what its pairs compose to.
Composes(T) == \A x, y \in T : x[2] = y[1] => <<x[1], y[2]>> \in T

\* Finitely many pairs compose within finitely many.
LEMMA PairsFinite ==
    ASSUME NEW R, IsFiniteSet(R)
    PROVE  IsFiniteSet({x[1] : x \in R} \X {x[2] : x \in R})
<1> DEFINE firsts == [x \in R |-> x[1]]
           seconds == [x \in R |-> x[2]]
           A == {x[1] : x \in R}
           B == {x[2] : x \in R}
<1>1. DOMAIN firsts = R /\ DOMAIN seconds = R
  BY Zenon
<1>2. A = {firsts[x] : x \in R} /\ B = {seconds[x] : x \in R}
  BY Zenon
<1> HIDE DEF firsts, seconds
<1>3. IsFiniteSet({firsts[x] : x \in R})
  BY <1>1, ImageFinite, Zenon
<1>4. IsFiniteSet({seconds[x] : x \in R})
  BY <1>1, ImageFinite, Zenon
<1> HIDE DEF A, B
<1>5. IsFiniteSet(A) /\ IsFiniteSet(B)
  BY <1>2, <1>3, <1>4, Zenon
<1>6. IsFiniteSet(A \X B)
  BY <1>5, FS_Product, Zenon
<1> QED
  BY <1>6, Zenon DEF A, B

\* The closure of finitely many pairs is the least relation that has them and
\* what they compose to.
LEMMA ClosureIsLeast ==
    ASSUME NEW R, IsFiniteSet(R), \A x \in R : x = <<x[1], x[2]>>
    PROVE  /\ R \subseteq Closure(R) /\ Composes(Closure(R))
           /\ \A T : R \subseteq T /\ Composes(T) => Closure(R) \subseteq T
<1> DEFINE A == {x[1] : x \in R}
           B == {x[2] : x \in R}
           U == A \X B
           step == [S \in SUBSET U |-> S \cup Composed(S)]
           C == Closure(R)
<1>1. IsFiniteSet(U)
  BY PairsFinite, Zenon
<1>2. R \in SUBSET U
  OBVIOUS
<1>3. \A S \in SUBSET U : \A z : z \in Composed(S) <=> \E x, y \in S : x[2] = y[1] /\ z = <<x[1], y[2]>>
  <2> SUFFICES ASSUME NEW S \in SUBSET U, NEW z
               PROVE  z \in Composed(S) <=> \E x, y \in S : x[2] = y[1] /\ z = <<x[1], y[2]>>
    BY Zenon
  <2>1. ASSUME NEW x \in S, NEW y \in S, x[2] = y[1], z = <<x[1], y[2]>> PROVE z \in Composed(S)
    <3> DEFINE w == <<x, y>>
    <3>1. w \in S \X S /\ w[1] = x /\ w[2] = y
      BY ZenonT(60)
    <3> QED
      BY <2>1, <3>1, Zenon DEF Composed
  <2>2. ASSUME z \in Composed(S) PROVE \E x, y \in S : x[2] = y[1] /\ z = <<x[1], y[2]>>
    <3>1. PICK w \in S \X S : w[1][2] = w[2][1] /\ z = <<w[1][1], w[2][2]>>
      BY <2>2, Zenon DEF Composed
    <3>2. w[1] \in S /\ w[2] \in S
      BY ZenonT(60)
    <3> QED
      BY <3>1, <3>2, Zenon
  <2> QED
    BY <2>1, <2>2, Zenon
<1>4. \A u \in U : u[1] \in A /\ u[2] \in B
  BY Zenon DEF U
<1>5. \A a \in A, b \in B : <<a, b>> \in U
  BY Zenon DEF U
<1>6. C = Limit(U, step, R)
  BY Zenon DEF Closure
<1> HIDE DEF A, B, U
<1>7. \A S \in SUBSET U : Composed(S) \in SUBSET U
  BY <1>3, <1>4, <1>5
<1>8. /\ step \in [SUBSET U -> SUBSET U]
      /\ \A S \in SUBSET U : step[S] = S \cup Composed(S)
      /\ \A S \in SUBSET U : S \subseteq step[S]
  BY Zenon, <1>7
<1> HIDE DEF step, C
<1>9. C \in SUBSET U /\ Stage(U, step, R, C) /\ step[C] = C
  BY Zenon, <1>1, <1>2, <1>6, <1>8, LimitReached DEF Ends
<1>10. R \subseteq C
  <2> DEFINE F == {X \in SUBSET U : R \subseteq X}
  <2>1. F \in SUBSET SUBSET U /\ R \in F
    BY ZenonT(60), <1>2
  <2>2. \A X \in F : step[X] \in F
    BY Zenon, <1>8
  <2>3. C \in F
    <3> HIDE DEF F
    <3> QED
      BY <1>9, <2>1, <2>2, Zenon DEF Stage
  <2> QED
    BY Zenon, <2>3
<1>11. Composes(C)
  <2>1. Composed(C) \subseteq C
    BY ZenonT(60), <1>8, <1>9
  <2> QED
    BY ZenonT(60), <1>3, <1>9, <2>1 DEF Composes
<1>12. ASSUME NEW T, R \subseteq T, Composes(T) PROVE C \subseteq T
  <2> DEFINE F == {X \in SUBSET U : X \subseteq T}
  <2>1. F \in SUBSET SUBSET U /\ R \in F
    BY ZenonT(60), <1>2, <1>12
  <2>2. ASSUME NEW X \in F PROVE step[X] \in F
    <3>1. Composed(X) \subseteq T
      BY <1>3, <1>12 DEF Composes
    <3> QED
      BY ZenonT(60), <1>8, <3>1
  <2>3. C \in F
    <3> HIDE DEF F
    <3> QED
      BY <1>9, <2>1, <2>2, Zenon DEF Stage
  <2> QED
    BY Zenon, <2>3
<1> QED
  BY <1>10, <1>11, <1>12, Zenon DEF C

\* A domain can derive only finitely many rows from finitely many.
LEMMA DerivedRowsFinite ==
    ASSUME NEW d, NEW edb, IsFiniteSet(edb)
    PROVE  IsFiniteSet(DerivedRows(d, edb))
<1> DEFINE A == Sources(d, edb) \cup Steps(d, edb, {})
           B == Sources(d, edb)
           ss == [r \in A |-> Subj(r)]
           os == [r \in B |-> Obj(r)]
           es == [r \in edb |-> Ep(r)]
           SS == {ss[r] : r \in A}
           OS == {os[r] : r \in B}
           ES == {es[r] : r \in edb}
           P == (SS \X OS) \X ES
           row == [x \in P |-> <<d.derived, x[1][1], x[1][2], x[2], <<>>>>]
<1>1. A \in SUBSET edb /\ B \in SUBSET edb
  BY Zenon DEF Sources, Steps, Rows
<1>2. IsFiniteSet(A) /\ IsFiniteSet(B)
  <2> HIDE DEF A, B
  <2> QED
    BY Zenon, <1>1, FS_Subset
<1>3. IsFiniteSet(SS)
  <2> HIDE DEF A
  <2> QED
    BY <1>2, ImageFinite, Zenon
<1>4. IsFiniteSet(OS)
  <2> HIDE DEF B
  <2> QED
    BY <1>2, ImageFinite, Zenon
<1>5. IsFiniteSet(ES)
  BY ImageFinite, Zenon
<1>6. SS = {Subj(r) : r \in A} /\ OS = {Obj(r) : r \in B} /\ ES = {Ep(r) : r \in edb}
  BY Zenon
<1>7. IsFiniteSet(P)
  <2> HIDE DEF SS, OS, ES
  <2> QED
    BY <1>3, <1>4, <1>5, FS_Product, Zenon
<1>8. IsFiniteSet({row[x] : x \in P})
  <2> HIDE DEF P
  <2> QED
    BY <1>7, ImageFinite, Zenon
<1>9. DerivedRows(d, edb) = {d.derived} \X SS \X OS \X ES \X {<<>>}
  BY <1>6, Zenon DEF DerivedRows
<1>10. DerivedRows(d, edb) \in SUBSET {row[x] : x \in P}
  <2> HIDE DEF SS, OS, ES
  <2> SUFFICES ASSUME NEW a \in SS, NEW b \in OS, NEW e \in ES
               PROVE  <<d.derived, a, b, e, <<>>>> \in {row[x] : x \in P}
    BY <1>9
  <2>1. <<<<a, b>>, e>> \in P
    BY Zenon
  <2>2. row[<<<<a, b>>, e>>] = <<d.derived, a, b, e, <<>>>>
    BY Zenon, <2>1
  <2> QED
    BY <2>1, <2>2, Zenon
<1> QED
  BY Zenon, <1>8, <1>10, FS_Subset

----------------------------------------------------------------------------
(* The rules, without the bookkeeping of derivations.                      *)

Join(d, x, y) == <<d.derived, Subj(x), Obj(y), Weaken(Ep(x), Ep(y)), <<>>>>

\* T has the base rows and what the rules make of its rows and the support.
ClosedUnder(d, edb, T) ==
    /\ \A b \in edb : Rel(b) \in d.base => Renamed(b, d.derived) \in T
    /\ \A x \in Steps(d, edb, T) : \A y \in T \cup Rows(edb, d.support) :
         Obj(x) = Subj(y) => Join(d, x, y) \in T

\* A joined row goes from its first input to its second, in the weaker state.
LEMMA JoinFields ==
    ASSUME NEW d, NEW x, NEW y
    PROVE  /\ Rel(Join(d, x, y)) = d.derived
           /\ Subj(Join(d, x, y)) = Subj(x) /\ Obj(Join(d, x, y)) = Obj(y)
           /\ Ep(Join(d, x, y)) = Weaken(Ep(x), Ep(y))
           /\ Ep(Join(d, x, y)) \in {Ep(x), Ep(y)}
BY Zenon DEF Join, Rel, Subj, Obj, Ep, Weaken

\* A renamed row keeps its ends and its state.
LEMMA RenamedFields ==
    ASSUME NEW r, NEW name
    PROVE  /\ Rel(Renamed(r, name)) = name /\ Subj(Renamed(r, name)) = Subj(r)
           /\ Obj(Renamed(r, name)) = Obj(r) /\ Ep(Renamed(r, name)) = Ep(r)
BY Zenon DEF Renamed, Rel, Subj, Obj, Ep

\* The results of the base rule.
LEMMA BaseResults ==
    ASSUME NEW d, NEW edb
    PROVE  Results(BaseDerivations(d, edb)) =
             {Renamed(b, d.derived) : b \in {x \in edb : Rel(x) \in d.base}}
<1> DEFINE B == {x \in edb : Rel(x) \in d.base}
           D(b) == [result |-> Renamed(b, d.derived), rule |-> "base", inputs |-> <<b>>]
<1>1. BaseDerivations(d, edb) = {D(b) : b \in B}
  BY Zenon DEF BaseDerivations
<1>2. \A b \in B : D(b).result = Renamed(b, d.derived)
  BY Zenon
<1> HIDE DEF D, B
<1>3. Results({D(b) : b \in B}) = {Renamed(b, d.derived) : b \in B}
  BY <1>2, Zenon DEF Results
<1> QED
  BY Zenon, <1>1, <1>3 DEF B

\* The results of the rules with two inputs.
LEMMA CompositionResults ==
    ASSUME NEW d, NEW rule, NEW S, NEW T
    PROVE  Results(Compositions(d, rule, S, T)) =
             {Join(d, y[1], y[2]) : y \in {z \in S \X T : Obj(z[1]) = Subj(z[2])}}
<1> DEFINE P == {z \in S \X T : Obj(z[1]) = Subj(z[2])}
           D(z) == [result |-> <<d.derived, Subj(z[1]), Obj(z[2]), Weaken(Ep(z[1]), Ep(z[2])), <<>>>>,
                    rule |-> rule, inputs |-> z]
<1>1. Compositions(d, rule, S, T) = {D(z) : z \in P}
  BY Zenon DEF Compositions
<1>2. \A z \in P : D(z).result = Join(d, z[1], z[2])
  BY Zenon DEF Join
<1> HIDE DEF D, P
<1>3. Results({D(z) : z \in P}) = {Join(d, z[1], z[2]) : z \in P}
  BY <1>2, Zenon DEF Results
<1> QED
  BY <1>1, <1>3, Zenon DEF P

\* A row is a result of such a rule when two rows that meet are joined to it.
LEMMA CompositionHas ==
    ASSUME NEW d, NEW rule, NEW S, NEW T, NEW r
    PROVE  r \in Results(Compositions(d, rule, S, T))
             <=> \E x \in S, y \in T : Obj(x) = Subj(y) /\ r = Join(d, x, y)
<1> DEFINE P == {z \in S \X T : Obj(z[1]) = Subj(z[2])}
<1>0. Results(Compositions(d, rule, S, T)) = {Join(d, z[1], z[2]) : z \in P}
  BY CompositionResults
<1>1. ASSUME NEW x \in S, NEW y \in T, Obj(x) = Subj(y)
      PROVE  Join(d, x, y) \in Results(Compositions(d, rule, S, T))
  <2>1. <<x, y>> \in {z \in S \X T : Obj(z[1]) = Subj(z[2])}
    BY Zenon, <1>1
  <2>2. Join(d, <<x, y>>[1], <<x, y>>[2]) = Join(d, x, y)
    BY Zenon
  <2> QED
    BY Zenon, <1>0, <2>1, <2>2 DEF P
<1>2. ASSUME r \in Results(Compositions(d, rule, S, T))
      PROVE  \E x \in S, y \in T : Obj(x) = Subj(y) /\ r = Join(d, x, y)
  <2>1. PICK z \in S \X T : Obj(z[1]) = Subj(z[2]) /\ r = Join(d, z[1], z[2])
    BY Zenon, <1>0, <1>2 DEF P
  <2>2. z[1] \in S /\ z[2] \in T
    BY Zenon
  <2> QED
    BY <2>1, <2>2, Zenon
<1> QED
  BY <1>1, <1>2, Zenon

\* Being closed is having the results of the three rules.
LEMMA ClosedIs ==
    ASSUME NEW d, NEW edb, NEW T
    PROVE  ClosedUnder(d, edb, T) <=> /\ Results(BaseDerivations(d, edb)) \subseteq T
                                 /\ Results(Transitive(d, edb, T)) \subseteq T
                                 /\ Results(Support(d, edb, T)) \subseteq T
<1> DEFINE S == Steps(d, edb, T)
           Q == Rows(edb, d.support)
<1>1. Results(BaseDerivations(d, edb)) \subseteq T
        <=> \A b \in edb : Rel(b) \in d.base => Renamed(b, d.derived) \in T
  BY BaseResults
<1>2. \A r : r \in Results(Transitive(d, edb, T))
               <=> \E x \in S, y \in T : Obj(x) = Subj(y) /\ r = Join(d, x, y)
  BY CompositionHas DEF Transitive
<1>3. \A r : r \in Results(Support(d, edb, T))
               <=> \E x \in S, y \in Q : Obj(x) = Subj(y) /\ r = Join(d, x, y)
  BY CompositionHas DEF Support
<1>4. Results(Transitive(d, edb, T)) \subseteq T
        <=> \A x \in S : \A y \in T : Obj(x) = Subj(y) => Join(d, x, y) \in T
  BY <1>2
<1>5. Results(Support(d, edb, T)) \subseteq T
        <=> \A x \in S : \A y \in Q : Obj(x) = Subj(y) => Join(d, x, y) \in T
  BY <1>3
<1>6. (\A x \in S : \A y \in T \cup Q : Obj(x) = Subj(y) => Join(d, x, y) \in T)
        <=> /\ \A x \in S : \A y \in T : Obj(x) = Subj(y) => Join(d, x, y) \in T
            /\ \A x \in S : \A y \in Q : Obj(x) = Subj(y) => Join(d, x, y) \in T
  BY Zenon
<1> QED
  BY <1>1, <1>4, <1>5, <1>6, Zenon DEF ClosedUnder

----------------------------------------------------------------------------
(* The least model.                                                        *)

\* More rows give more steps.
LEMMA StepsGrow ==
    ASSUME NEW d, NEW edb, NEW S, NEW T, S \subseteq T
    PROVE  Steps(d, edb, S) \subseteq Steps(d, edb, T)
BY Zenon DEF Steps

\* More rows give more results.
LEMMA ResultsGrow ==
    ASSUME NEW d, NEW edb, NEW S, NEW T, S \subseteq T
    PROVE  /\ Results(Transitive(d, edb, S)) \subseteq Results(Transitive(d, edb, T))
           /\ Results(Support(d, edb, S)) \subseteq Results(Support(d, edb, T))
<1>1. Steps(d, edb, S) \subseteq Steps(d, edb, T)
  BY Zenon, StepsGrow
<1>2. ASSUME NEW r, r \in Results(Transitive(d, edb, S)) PROVE r \in Results(Transitive(d, edb, T))
  <2>1. PICK x \in Steps(d, edb, S), y \in S : Obj(x) = Subj(y) /\ r = Join(d, x, y)
    BY <1>2, CompositionHas DEF Transitive
  <2>2. x \in Steps(d, edb, T) /\ y \in T
    BY Zenon, <1>1
  <2> QED
    BY Zenon, <2>1, <2>2, CompositionHas DEF Transitive
<1>3. ASSUME NEW r, r \in Results(Support(d, edb, S)) PROVE r \in Results(Support(d, edb, T))
  <2>1. PICK x \in Steps(d, edb, S), y \in Rows(edb, d.support) :
               Obj(x) = Subj(y) /\ r = Join(d, x, y)
    BY <1>3, CompositionHas DEF Support
  <2>2. x \in Steps(d, edb, T)
    BY Zenon, <1>1
  <2> QED
    BY Zenon, <2>1, <2>2, CompositionHas DEF Support
<1> QED
  BY Zenon, <1>2, <1>3

\* What the rules make of derived rows is a row the domain can derive.
LEMMA DerivedStay ==
    ASSUME NEW d, NEW edb, NEW M \in SUBSET DerivedRows(d, edb)
    PROVE  /\ Results(BaseDerivations(d, edb)) \subseteq DerivedRows(d, edb)
           /\ Results(Transitive(d, edb, M)) \subseteq DerivedRows(d, edb)
           /\ Results(Support(d, edb, M)) \subseteq DerivedRows(d, edb)
<1> DEFINE SS == {Subj(r) : r \in Sources(d, edb) \cup Steps(d, edb, {})}
           OS == {Obj(r) : r \in Sources(d, edb)}
           ES == {Ep(r) : r \in edb}
           R == DerivedRows(d, edb)
<1>1. \A a \in SS, b \in OS, e \in ES : <<d.derived, a, b, e, <<>>>> \in R
  BY Zenon DEF DerivedRows
<1>2. \A r \in R : Subj(r) \in SS /\ Obj(r) \in OS /\ Ep(r) \in ES
  BY Zenon DEF DerivedRows, Subj, Obj, Ep
<1>3. \A r \in Sources(d, edb) : Subj(r) \in SS /\ Obj(r) \in OS /\ Ep(r) \in ES
  BY Zenon DEF Sources
<1>4. ASSUME NEW x \in Steps(d, edb, M) PROVE Subj(x) \in SS /\ Ep(x) \in ES
  <2>1. CASE d.derived = "GlobalFlow"
    BY Zenon, <1>2, <2>1 DEF Steps
  <2>2. CASE d.derived # "GlobalFlow"
    <3>1. x \in Steps(d, edb, {}) /\ x \in edb
      BY Zenon, <2>2 DEF Steps, Rows
    <3> QED
      BY <3>1, Zenon
  <2> QED
    BY Zenon, <2>1, <2>2
<1> HIDE DEF SS, OS, ES, R
<1>5. ASSUME NEW b \in edb, Rel(b) \in d.base PROVE Renamed(b, d.derived) \in R
  <2>1. b \in Sources(d, edb)
    BY Zenon, <1>5 DEF Sources
  <2> QED
    BY Zenon, <1>1, <1>3, <2>1 DEF Renamed
<1>6. ASSUME NEW x \in Steps(d, edb, M), NEW y \in M \cup Rows(edb, d.support)
      PROVE  Join(d, x, y) \in R
  <2>1. Subj(x) \in SS /\ Ep(x) \in ES
    BY Zenon, <1>4
  <2>2. Obj(y) \in OS /\ Ep(y) \in ES
    <3>1. CASE y \in M
      BY Zenon, <1>2, <3>1 DEF R
    <3>2. CASE y \in Rows(edb, d.support)
      <4>1. y \in Sources(d, edb)
        BY Zenon, <3>2 DEF Sources, Rows
      <4> QED
        BY Zenon, <1>3, <4>1
    <3> QED
      BY Zenon, <3>1, <3>2
  <2>3. Weaken(Ep(x), Ep(y)) \in ES
    BY Zenon, <2>1, <2>2 DEF Weaken
  <2> QED
    BY Zenon, <1>1, <2>1, <2>2, <2>3 DEF Join
<1>7. Results(BaseDerivations(d, edb)) \subseteq R
  BY <1>5, BaseResults
<1>8. Results(Transitive(d, edb, M)) \subseteq R
  BY <1>6, CompositionHas DEF Transitive
<1>9. Results(Support(d, edb, M)) \subseteq R
  BY <1>6, CompositionHas DEF Support
<1> QED
  BY Zenon, <1>7, <1>8, <1>9 DEF R

\* The Souffle engine's model of a domain is the least set of rows that has the
\* base rows and is closed under the transitive and the support rule.
LEMMA LeastModelIsLeast ==
    ASSUME NEW d, NEW edb, IsFiniteSet(edb)
    PROVE  /\ LeastModel(d, edb) \subseteq DerivedRows(d, edb)
           /\ ClosedUnder(d, edb, LeastModel(d, edb))
           /\ \A T : ClosedUnder(d, edb, T) => LeastModel(d, edb) \subseteq T
<1> DEFINE R == DerivedRows(d, edb)
           step == [M \in SUBSET R |-> Consequences(d, edb, M)]
           B == Results(BaseDerivations(d, edb))
           M == LeastModel(d, edb)
<1>1. IsFiniteSet(R)
  BY Zenon, DerivedRowsFinite
<1>2. B \in SUBSET R
  BY Zenon, DerivedStay
<1>3. \A X \in SUBSET R : Consequences(d, edb, X) \in SUBSET R
  BY Zenon, DerivedStay DEF Consequences
<1>4. step \in [SUBSET R -> SUBSET R] /\ \A X \in SUBSET R : X \subseteq step[X]
  <2> HIDE DEF R
  <2> QED
    BY Zenon, <1>3 DEF Consequences
<1>5. M = Limit(R, step, B)
  BY Zenon DEF LeastModel, Once
<1>6. M \in Ends(R, step, B)
  <2> HIDE DEF R, step, B, M
  <2> QED
    BY Zenon, <1>1, <1>2, <1>4, <1>5, LimitReached
<1>7. M \in SUBSET R /\ Stage(R, step, B, M) /\ step[M] = M
  <2> HIDE DEF R, step, B, M
  <2> QED
    BY Zenon, <1>6 DEF Ends
<1>8. Results(Transitive(d, edb, M)) \subseteq M /\ Results(Support(d, edb, M)) \subseteq M
  <2> HIDE DEF M, R
  <2>1. step[M] = Consequences(d, edb, M)
    BY Zenon, <1>7
  <2> QED
    BY Zenon, <1>7, <2>1 DEF Consequences
<1>9. ASSUME NEW T, B \subseteq T,
             \A X \in SUBSET R : X \subseteq T => Consequences(d, edb, X) \subseteq T
      PROVE  M \subseteq T
  <2> HIDE DEF M, R, B
  <2>1. {X \in SUBSET R : X \subseteq T} \in SUBSET SUBSET R
    BY Zenon
  <2>2. B \in {X \in SUBSET R : X \subseteq T}
    BY Zenon, <1>2, <1>9
  <2>3. \A X \in {Y \in SUBSET R : Y \subseteq T} : step[X] \in {Y \in SUBSET R : Y \subseteq T}
    BY Zenon, <1>3, <1>9
  <2> HIDE DEF step
  <2>4. M \in {X \in SUBSET R : X \subseteq T}
    BY Zenon, <1>7, <2>1, <2>2, <2>3 DEF Stage
  <2> QED
    BY Zenon, <2>4
<1>10. B \subseteq M
  <2> HIDE DEF M, R, B
  <2>1. {X \in SUBSET R : B \subseteq X} \in SUBSET SUBSET R
    BY Zenon
  <2>2. B \in {X \in SUBSET R : B \subseteq X}
    BY Zenon, <1>2
  <2>3. \A X \in {Y \in SUBSET R : B \subseteq Y} : step[X] \in {Y \in SUBSET R : B \subseteq Y}
    BY Zenon, <1>4
  <2> HIDE DEF step
  <2>4. M \in {X \in SUBSET R : B \subseteq X}
    BY Zenon, <1>7, <2>1, <2>2, <2>3 DEF Stage
  <2> QED
    BY Zenon, <2>4
<1>11. ClosedUnder(d, edb, M)
  <2> HIDE DEF M
  <2> QED
    BY Zenon, <1>8, <1>10, ClosedIs
<1>12. ASSUME NEW T, ClosedUnder(d, edb, T) PROVE M \subseteq T
  <2> HIDE DEF M
  <2>1. /\ B \subseteq T /\ Results(Transitive(d, edb, T)) \subseteq T
        /\ Results(Support(d, edb, T)) \subseteq T
    BY Zenon, <1>12, ClosedIs
  <2>2. \A X \in SUBSET R : X \subseteq T => Consequences(d, edb, X) \subseteq T
    BY Zenon, <2>1, ResultsGrow DEF Consequences
  <2> HIDE DEF B, R
  <2> QED
    BY Zenon, <1>9, <2>1, <2>2
<1> QED
  BY Zenon, <1>7, <1>11, <1>12

\* A row is in a model when the base rule or a join of model rows gives it.
LEMMA SouffleDomainModel ==
    ASSUME NEW d, NEW edb, IsFiniteSet(edb)
    PROVE  Results(SouffleDomain(d, edb)) = LeastModel(d, edb)
<1> DEFINE M == LeastModel(d, edb)
           T == Results(SouffleDomain(d, edb))
           B == BaseDerivations(d, edb)
           X == Transitive(d, edb, M)
           Y == Support(d, edb, M)
<1>1. SouffleDomain(d, edb) = B \cup X \cup Y
  BY Zenon DEF SouffleDomain, Once
<1>2. T = Results(B) \cup Results(X) \cup Results(Y)
  <2> HIDE DEF B, X, Y
  <2> QED
    BY Zenon, <1>1 DEF Results
<1>3. ClosedUnder(d, edb, M) /\ \A Z : ClosedUnder(d, edb, Z) => M \subseteq Z
  BY Zenon, LeastModelIsLeast
<1> HIDE DEF M, T
<1>4. T \subseteq M
  BY Zenon, <1>2, <1>3, ClosedIs
<1>5. Results(Transitive(d, edb, T)) \subseteq T /\ Results(Support(d, edb, T)) \subseteq T
  <2>1. Results(Transitive(d, edb, T)) \subseteq Results(X) /\ Results(Support(d, edb, T)) \subseteq Results(Y)
    BY <1>4, ResultsGrow, Zenon
  <2> HIDE DEF X, Y
  <2> QED
    BY <1>2, <2>1, Zenon
<1>6. ClosedUnder(d, edb, T)
  BY Zenon, <1>2, <1>5, ClosedIs
<1> QED
  BY Zenon, <1>3, <1>4, <1>6 DEF M, T

----------------------------------------------------------------------------
(* The C++ engine's rounds reach the same model.                           *)

\* Keeping one proof for each new result loses no result.
LEMMA FirstProofsKeep ==
    ASSUME NEW D, NEW known
    PROVE  /\ FirstProofs(D, known) \subseteq D
           /\ Results(FirstProofs(D, known)) = Results(D) \ known
<1> DEFINE p(r) == CHOOSE x \in D : x.result = r
           N == Results(D) \ known
<1>1. ASSUME NEW r \in Results(D) PROVE p(r) \in D /\ p(r).result = r
  <2>1. \E x \in D : x.result = r
    BY Zenon DEF Results
  <2> QED
    BY <2>1, Zenon
<1>2. FirstProofs(D, known) = {p(r) : r \in N}
  BY Zenon DEF FirstProofs
<1> HIDE DEF p
<1>3. FirstProofs(D, known) \subseteq D
  BY Zenon, <1>1, <1>2
<1>4. Results({p(r) : r \in N}) = N
  BY <1>1, Zenon DEF Results
<1> QED
  BY Zenon, <1>2, <1>3, <1>4

\* What a round keeps: derivations of the round, at least one for each result.
LEMMA KeptResults ==
    ASSUME NEW d, NEW X, NEW Y, NEW derived
    PROVE  /\ Kept(d, X, Y, derived) \subseteq X \cup Y
           /\ Results(X) \cup Results(Y) \subseteq derived \cup Results(Kept(d, X, Y, derived))
<1>1. CASE d.all
  <2>1. Kept(d, X, Y, derived) = X \cup Y
    BY Zenon, <1>1 DEF Kept
  <2> QED
    BY Zenon, <2>1 DEF Results
<1>2. CASE ~d.all
  <2> DEFINE P == FirstProofs(X, derived)
             Q == FirstProofs(Y, derived \cup Results(X))
  <2>1. Kept(d, X, Y, derived) = P \cup Q
    BY Zenon, <1>2 DEF Kept
  <2>2. P \subseteq X /\ Q \subseteq Y
    BY Zenon, FirstProofsKeep
  <2>3. Results(P) = Results(X) \ derived /\ Results(Q) = Results(Y) \ (derived \cup Results(X))
    BY Zenon, FirstProofsKeep
  <2>4. Results(P \cup Q) = Results(P) \cup Results(Q)
    BY Zenon DEF Results
  <2> HIDE DEF P, Q
  <2> QED
    BY Zenon, <2>1, <2>2, <2>3, <2>4
<1> QED
  BY Zenon, <1>1, <1>2

\* Every derivation is of a row the domain can derive, from one or two rows.
LEMMA DerivationsStay ==
    ASSUME NEW d, NEW edb, NEW M \in SUBSET DerivedRows(d, edb)
    PROVE  /\ BaseDerivations(d, edb) \subseteq Derivations(d, edb)
           /\ Transitive(d, edb, M) \subseteq Derivations(d, edb)
           /\ Support(d, edb, M) \subseteq Derivations(d, edb)
<1> DEFINE U == Derivations(d, edb)
           R == DerivedRows(d, edb)
           rows == edb \cup R
           I == {<<r>> : r \in edb} \cup (rows \X rows)
<1>1. ASSUME NEW r \in R, NEW rule \in {"base", "transitive", "support"}, NEW in \in I
      PROVE  [result |-> r, rule |-> rule, inputs |-> in] \in U
  <2>1. U = [result : R, rule : {"base", "transitive", "support"}, inputs : I]
    BY Zenon DEF Derivations
  <2> HIDE DEF R, I, U
  <2> QED
    BY <2>1, Zenon
<1>2. BaseDerivations(d, edb) \subseteq U
  <2> DEFINE E == {x \in edb : Rel(x) \in d.base}
             D(b) == [result |-> Renamed(b, d.derived), rule |-> "base", inputs |-> <<b>>]
  <2>1. Results(BaseDerivations(d, edb)) \subseteq R
    BY Zenon, DerivedStay
  <2>2. \A b \in E : Renamed(b, d.derived) \in R
    BY <2>1, BaseResults
  <2>3. \A b \in E : <<b>> \in I
    BY Zenon
  <2> HIDE DEF R, I
  <2>4. \A b \in E : D(b) \in U
    BY <1>1, <2>2, <2>3, Zenon
  <2>5. BaseDerivations(d, edb) = {D(b) : b \in E}
    BY Zenon DEF BaseDerivations
  <2> HIDE DEF D, E
  <2> QED
    BY Zenon, <2>4, <2>5
<1>3. ASSUME NEW S \in SUBSET rows, NEW T \in SUBSET rows, NEW rule \in {"transitive", "support"},
             Results(Compositions(d, rule, S, T)) \subseteq R
      PROVE  Compositions(d, rule, S, T) \subseteq U
  <2> DEFINE P == {z \in S \X T : Obj(z[1]) = Subj(z[2])}
             row(z) == <<d.derived, Subj(z[1]), Obj(z[2]), Weaken(Ep(z[1]), Ep(z[2])), <<>>>>
             D(z) == [result |-> row(z), rule |-> rule, inputs |-> z]
  <2>1. \A z \in P : row(z) = Join(d, z[1], z[2])
    BY Zenon DEF Join
  <2>2. \A z \in P : Join(d, z[1], z[2]) \in R
    BY <1>3, CompositionResults
  <2>3. \A z \in P : z \in I
    BY Zenon
  <2>4. Compositions(d, rule, S, T) = {D(z) : z \in P}
    BY Zenon DEF Compositions
  <2> HIDE DEF R, I, row
  <2>5. \A z \in P : D(z) \in U
    BY Zenon, <1>1, <2>1, <2>2, <2>3
  <2> HIDE DEF D, P
  <2> QED
    BY Zenon, <2>4, <2>5
<1>4. Steps(d, edb, M) \in SUBSET rows /\ M \in SUBSET rows /\ Rows(edb, d.support) \in SUBSET rows
  BY Zenon DEF Steps, Rows
<1>5. Transitive(d, edb, M) \subseteq U
  BY Zenon, <1>3, <1>4, DerivedStay DEF Transitive
<1>6. Support(d, edb, M) \subseteq U
  BY Zenon, <1>3, <1>4, DerivedStay DEF Support
<1> QED
  BY Zenon, <1>2, <1>5, <1>6

\* The C++ engine can keep only finitely many derivations.
LEMMA DerivationsFinite ==
    ASSUME NEW d, NEW edb, IsFiniteSet(edb)
    PROVE  IsFiniteSet(Derivations(d, edb))
<1> DEFINE R == DerivedRows(d, edb)
           rows == edb \cup R
           one == [r \in edb |-> <<r>>]
           I == {one[r] : r \in edb} \cup (rows \X rows)
           K == {"base", "transitive", "support"}
           P == (R \X K) \X I
           D == [x \in P |-> [result |-> x[1][1], rule |-> x[1][2], inputs |-> x[2]]]
           U == [result : R, rule : K, inputs : I]
<1>1. IsFiniteSet(R) /\ IsFiniteSet(rows)
  <2>1. IsFiniteSet(R)
    BY Zenon, DerivedRowsFinite
  <2> HIDE DEF R
  <2> QED
    BY <2>1, FS_Union, Zenon
<1> HIDE DEF R, rows
<1>2. IsFiniteSet(rows \X rows)
  BY Zenon, <1>1, FS_Product
<1>3. IsFiniteSet({one[r] : r \in edb})
  BY ImageFinite, Zenon
<1>4. IsFiniteSet(I)
  <2> HIDE DEF one
  <2> QED
    BY <1>2, <1>3, FS_Union, Zenon
<1>5. IsFiniteSet(K)
  <2>1. IsFiniteSet({"base"}) /\ IsFiniteSet({"transitive"}) /\ IsFiniteSet({"support"})
    BY Zenon, FS_Singleton
  <2>2. K = ({"base"} \cup {"transitive"}) \cup {"support"}
    BY Zenon
  <2>3. IsFiniteSet({"base"} \cup {"transitive"})
    BY <2>1, FS_Union, Zenon
  <2>4. IsFiniteSet(({"base"} \cup {"transitive"}) \cup {"support"})
    BY <2>1, <2>3, FS_Union, Zenon
  <2> QED
    BY Zenon, <2>2, <2>4
<1> HIDE DEF I, K
<1>6. IsFiniteSet(R \X K)
  BY Zenon, <1>1, <1>5, FS_Product
<1>7. IsFiniteSet(P)
  BY Zenon, <1>4, <1>6, FS_Product
<1>8. IsFiniteSet({D[x] : x \in P})
  <2> HIDE DEF P
  <2> QED
    BY <1>7, ImageFinite, Zenon
<1>9. U \in SUBSET {D[x] : x \in P}
  <2> SUFFICES ASSUME NEW u \in U PROVE \E x \in P : u = D[x]
    BY Zenon
  <2>1. <<<<u.result, u.rule>>, u.inputs>> \in P
    BY Zenon
  <2>2. D[<<<<u.result, u.rule>>, u.inputs>>] = [result |-> u.result, rule |-> u.rule, inputs |-> u.inputs]
    BY Zenon, <2>1
  <2>3. u = [result |-> u.result, rule |-> u.rule, inputs |-> u.inputs]
    BY Zenon
  <2> QED
    BY <2>1, <2>2, <2>3, Zenon
<1>10. IsFiniteSet(U)
  <2> HIDE DEF U, D, P
  <2> QED
    BY Zenon, <1>8, <1>9, FS_Subset
<1>11. I = {<<r>> : r \in edb} \cup (rows \X rows)
  BY Zenon DEF I
<1> QED
  BY <1>10, <1>11, Zenon DEF Derivations, K, R, rows

\* The C++ engine derives the least model as well, with one proof for each
\* row or with all of them.
LEMMA CppDomainModel ==
    ASSUME NEW d, NEW edb, IsFiniteSet(edb)
    PROVE  Results(EvaluateDomain(d, edb)) = LeastModel(d, edb)
<1> DEFINE R == DerivedRows(d, edb)
           U == Derivations(d, edb)
           step == [P \in SUBSET U |-> Round(d, edb, P)]
           S == FirstProofs(BaseDerivations(d, edb), {})
           D == EvaluateDomain(d, edb)
           M == LeastModel(d, edb)
           X(P) == Transitive(d, edb, Results(P))
           Y(P) == Support(d, edb, Results(P))
           K(P) == Kept(d, X(P), Y(P), Results(P))
<1>1. IsFiniteSet(R) /\ IsFiniteSet(U)
  BY DerivedRowsFinite, DerivationsFinite, Zenon
<1>2. \A P : Round(d, edb, P) = P \cup K(P)
  BY Zenon DEF Round, Once
<1>3. D = Limit(U, step, S)
  BY Zenon DEF EvaluateDomain
<1>4. \A P \in SUBSET U : Results(P) \in SUBSET R
  BY ZenonT(60) DEF Results, Derivations
<1>5. ASSUME NEW T \in SUBSET R
      PROVE  /\ BaseDerivations(d, edb) \subseteq U
             /\ Transitive(d, edb, T) \subseteq U /\ Support(d, edb, T) \subseteq U
  BY DerivationsStay, Zenon
<1>6. S \in SUBSET U
  <2>1. BaseDerivations(d, edb) \subseteq U
    BY Zenon, <1>5
  <2> HIDE DEF U
  <2> QED
    BY Zenon, <2>1, FirstProofsKeep
<1>7. ClosedUnder(d, edb, M) /\ \A T : ClosedUnder(d, edb, T) => M \subseteq T
  BY Zenon, LeastModelIsLeast
<1> HIDE DEF U, R, M, D, S
<1>8. \A P \in SUBSET U : K(P) \subseteq X(P) \cup Y(P) /\ K(P) \in SUBSET U
  BY <1>4, <1>5, KeptResults
<1>9. step \in [SUBSET U -> SUBSET U] /\ \A P \in SUBSET U : P \subseteq step[P]
  <2> HIDE DEF K
  <2> QED
    BY ZenonT(60), <1>2, <1>8
<1>10. D \in Ends(U, step, S)
  <2> HIDE DEF step
  <2> QED
    BY Zenon, <1>1, <1>3, <1>6, <1>9, LimitReached
<1>11. D \in SUBSET U /\ Stage(U, step, S, D) /\ step[D] = D
  <2> HIDE DEF step
  <2> QED
    BY Zenon, <1>10 DEF Ends
<1>12. Results(D) \subseteq M
  <2> DEFINE F == {P \in SUBSET U : Results(P) \subseteq M}
  <2>1. F \in SUBSET SUBSET U
    BY Zenon
  <2>2. S \in F
    <3>1. Results(S) = Results(BaseDerivations(d, edb))
      BY FirstProofsKeep DEF S
    <3> QED
      BY Zenon, <1>6, <1>7, <3>1, ClosedIs
  <2>3. ASSUME NEW P \in F PROVE step[P] \in F
    <3>1. Results(X(P)) \subseteq M /\ Results(Y(P)) \subseteq M
      <4>1. Results(P) \subseteq M
        BY Zenon
      <4>2. Results(Transitive(d, edb, M)) \subseteq M /\ Results(Support(d, edb, M)) \subseteq M
        BY Zenon, <1>7, ClosedIs
      <4> QED
        BY Zenon, <4>1, <4>2, ResultsGrow
    <3>2. step[P] = P \cup K(P) /\ step[P] \in SUBSET U
      BY Zenon, <1>2, <1>9
    <3>3. K(P) \subseteq X(P) \cup Y(P)
      BY Zenon, <1>8
    <3> HIDE DEF K, X, Y, step
    <3>4. Results(P \cup K(P)) \subseteq Results(P) \cup Results(X(P)) \cup Results(Y(P))
      BY Zenon, <3>3 DEF Results
    <3> QED
      BY Zenon, <3>1, <3>2, <3>4
  <2> HIDE DEF F, step
  <2>4. D \in F
    BY Zenon, <1>11, <2>1, <2>2, <2>3 DEF Stage
  <2> QED
    BY Zenon, <2>4 DEF F
<1>13. S \subseteq D
  <2> DEFINE F == {P \in SUBSET U : S \subseteq P}
  <2>1. F \in SUBSET SUBSET U /\ S \in F
    BY Zenon, <1>6
  <2>2. \A P \in F : step[P] \in F
    <3> HIDE DEF step
    <3> QED
      BY Zenon, <1>9
  <2> HIDE DEF F, step
  <2>3. D \in F
    BY Zenon, <1>11, <2>1, <2>2 DEF Stage
  <2> QED
    BY Zenon, <2>3 DEF F
<1>14. ClosedUnder(d, edb, Results(D))
  <2>1. K(D) \subseteq D
    BY ZenonT(60), <1>2, <1>11
  <2>2. Results(X(D)) \cup Results(Y(D)) \subseteq Results(D) \cup Results(K(D))
    BY Zenon, KeptResults
  <2>3. Results(BaseDerivations(d, edb)) = Results(S)
    BY FirstProofsKeep DEF S
  <2> HIDE DEF K
  <2>4. Results(K(D)) \subseteq Results(D) /\ Results(S) \subseteq Results(D)
    BY Zenon, <1>13, <2>1 DEF Results
  <2>5. Results(X(D)) \subseteq Results(D) /\ Results(Y(D)) \subseteq Results(D)
    BY Zenon, <2>2, <2>4
  <2> QED
    BY Zenon, <2>3, <2>4, <2>5, ClosedIs
<1> QED
  BY Zenon, <1>7, <1>12, <1>14 DEF D, M

----------------------------------------------------------------------------
(* A component: its domains, with the coverage of unknown effects.         *)

\* What a component derives: the models of its domains, and for every unknown
\* effect the row that marks its function incomplete.
Models(comp, edb) == UNION {LeastModel(d, edb) : d \in ComponentDomains(comp)}
Marks(M) == {<<"SoundnessCoverage", Subj(r), "incomplete", "MUST", <<>>>> : r \in Rows(M, "UnknownEffect")}

\* Coverage adds the marks.
LEMMA CoverageMarks ==
    ASSUME NEW D
    PROVE  Results(WithCoverage(D)) = Results(D) \cup Marks(Results(D))
<1> DEFINE R == Rows(Results(D), "UnknownEffect")
           m(r) == <<"SoundnessCoverage", Subj(r), "incomplete", "MUST", <<>>>>
           c(r) == [result |-> m(r), rule |-> "coverage", inputs |-> <<r>>]
<1>1. WithCoverage(D) = D \cup {c(r) : r \in R}
  BY Zenon DEF WithCoverage, Coverage, Once
<1>2. \A r \in R : c(r).result = m(r)
  BY Zenon
<1>3. Marks(Results(D)) = {m(r) : r \in R}
  BY Zenon DEF Marks
<1> HIDE DEF R, m, c
<1>4. Results(D \cup {c(r) : r \in R}) = Results(D) \cup {m(r) : r \in R}
  BY Zenon, <1>2 DEF Results
<1> QED
  BY Zenon, <1>1, <1>3, <1>4

\* The Souffle engine derives the models and the marks.
LEMMA SouffleDerives ==
    ASSUME NEW comp, NEW edb, IsFiniteSet(edb)
    PROVE  Results(SouffleEvaluate(comp, edb)) = Models(comp, edb) \cup Marks(Models(comp, edb))
<1> DEFINE D == UNION {SouffleDomain(d, edb) : d \in ComponentDomains(comp)}
<1>1. SouffleEvaluate(comp, edb) = WithCoverage(D)
  BY Zenon DEF SouffleEvaluate
<1>2. \A d \in ComponentDomains(comp) : Results(SouffleDomain(d, edb)) = LeastModel(d, edb)
  BY SouffleDomainModel, Zenon
<1>3. Results(D) = UNION {Results(SouffleDomain(d, edb)) : d \in ComponentDomains(comp)}
  BY DEF Results
<1>4. Results(D) = Models(comp, edb)
  BY <1>2, <1>3, Zenon DEF Models
<1> QED
  BY <1>1, <1>4, CoverageMarks, Zenon

\* The C++ engine derives the same rows as the Souffle engine, whatever the
\* component and whatever rows it is given.
THEOREM EnginesDeriveTheSame ==
    ASSUME NEW comp, NEW edb, IsFiniteSet(edb)
    PROVE  Results(CppEvaluate(comp, edb)) = Results(SouffleEvaluate(comp, edb))
<1> DEFINE D == UNION {EvaluateDomain(d, edb) : d \in ComponentDomains(comp)}
<1>1. CppEvaluate(comp, edb) = WithCoverage(D)
  BY Zenon DEF CppEvaluate
<1>2. \A d \in ComponentDomains(comp) : Results(EvaluateDomain(d, edb)) = LeastModel(d, edb)
  BY CppDomainModel, Zenon
<1>3. Results(D) = UNION {Results(EvaluateDomain(d, edb)) : d \in ComponentDomains(comp)}
  BY DEF Results
<1>4. Results(D) = Models(comp, edb)
  BY <1>2, <1>3, Zenon DEF Models
<1>5. Results(CppEvaluate(comp, edb)) = Models(comp, edb) \cup Marks(Models(comp, edb))
  <2> HIDE DEF D
  <2> QED
    BY Zenon, <1>1, <1>4, CoverageMarks
<1> QED
  BY <1>5, SouffleDerives, Zenon

Kinds == {"reachability", "memory-effects", "flow", "effects"}

\* The relations of a domain are told apart by their names.
LEMMA DomainNames ==
    ASSUME NEW comp \in Kinds, NEW d \in ComponentDomains(comp)
    PROVE  /\ d.derived \notin d.base \cup {d.support, "DirectCall"}
           /\ d.support \notin d.base \cup {"DirectCall"}
           /\ d.derived = "GlobalFlow" <=> comp = "flow"
           /\ d.derived = "UnknownEffect" <=> comp = "effects"
           /\ d.derived # "SoundnessCoverage"
BY DEF Kinds, ComponentDomains

\* Two domains of a component have different relations.
LEMMA DomainsApart ==
    ASSUME NEW comp \in Kinds, NEW c \in ComponentDomains(comp), NEW d \in ComponentDomains(comp),
           c # d
    PROVE  /\ c.derived # d.derived /\ c.support # d.support
           /\ c.support \notin d.base
<1>1. comp = "memory-effects"
  <2>1. CASE comp = "reachability"
    BY Zenon, <2>1 DEF ComponentDomains
  <2>2. CASE comp = "flow"
    BY Zenon, <2>2 DEF ComponentDomains
  <2>3. CASE comp = "effects"
    BY Zenon, <2>3 DEF ComponentDomains
  <2> QED
    BY Zenon, <2>1, <2>2, <2>3 DEF Kinds
<1> DEFINE w == [base |-> {"DirectWrite"}, support |-> "SupportMayWrite",
                 derived |-> "MayWrite", all |-> FALSE]
           r == [base |-> {"DirectRead"}, support |-> "SupportMayRead",
                 derived |-> "MayRead", all |-> FALSE]
<1>2. c \in {w, r} /\ d \in {w, r}
  BY <1>1, Zenon DEF ComponentDomains
<1>3. /\ w.derived = "MayWrite" /\ w.support = "SupportMayWrite" /\ w.base = {"DirectWrite"}
      /\ r.derived = "MayRead" /\ r.support = "SupportMayRead" /\ r.base = {"DirectRead"}
  BY Zenon
<1> HIDE DEF w, r
<1> QED
  BY <1>2, <1>3

\* A model has the rows of its relation only.
LEMMA ModelRel ==
    ASSUME NEW d, NEW edb, IsFiniteSet(edb), NEW r \in LeastModel(d, edb)
    PROVE  Rel(r) = d.derived
<1>1. r \in DerivedRows(d, edb)
  BY Zenon, LeastModelIsLeast
<1> QED
  BY Zenon, <1>1 DEF DerivedRows, Rel

\* Only the rows of the base relations, the calls and the support count.
LEMMA ModelNeeds ==
    ASSUME NEW d, NEW E, NEW F, IsFiniteSet(E), IsFiniteSet(F),
           \A r : Rel(r) \in d.base \cup {d.support} => (r \in E <=> r \in F),
           d.derived # "GlobalFlow" => \A r : Rel(r) = "DirectCall" => (r \in E <=> r \in F)
    PROVE  LeastModel(d, E) = LeastModel(d, F)
<1>1. ASSUME NEW X, NEW Y, IsFiniteSet(X), IsFiniteSet(Y),
             \A r : Rel(r) \in d.base \cup {d.support} => (r \in X <=> r \in Y),
             d.derived # "GlobalFlow" => \A r : Rel(r) = "DirectCall" => (r \in X <=> r \in Y)
      PROVE  LeastModel(d, X) \subseteq LeastModel(d, Y)
  <2> DEFINE M == LeastModel(d, Y)
  <2>1. ClosedUnder(d, Y, M)
    BY Zenon, <1>1, LeastModelIsLeast
  <2> HIDE DEF M
  <2>2. Rows(X, d.support) = Rows(Y, d.support) /\ Steps(d, X, M) = Steps(d, Y, M)
    BY Zenon, <1>1 DEF Rows, Steps
  <2>3. ClosedUnder(d, X, M)
    BY Zenon, <1>1, <2>1, <2>2 DEF ClosedUnder
  <2> QED
    BY Zenon, <1>1, <2>3, LeastModelIsLeast DEF M
<1>2. LeastModel(d, E) \subseteq LeastModel(d, F)
  BY Zenon, <1>1
<1>3. LeastModel(d, F) \subseteq LeastModel(d, E)
  BY Zenon, <1>1
<1> QED
  BY Zenon, <1>2, <1>3

\* A row of a component is a row of one of its domains or a mark.
LEMMA DerivedRel ==
    ASSUME NEW comp \in Kinds, NEW edb, IsFiniteSet(edb),
           NEW r \in Models(comp, edb) \cup Marks(Models(comp, edb))
    PROVE  Rel(r) \in Derived(comp)
<1>1. ASSUME NEW x \in Models(comp, edb)
      PROVE  \E d \in ComponentDomains(comp) : Rel(x) = d.derived
  <2>1. PICK d \in ComponentDomains(comp) : x \in LeastModel(d, edb)
    BY Zenon DEF Models
  <2> QED
    BY <2>1, ModelRel, Zenon
<1>2. CASE r \in Models(comp, edb)
  BY Zenon, <1>1, <1>2 DEF Derived
<1>3. CASE r \in Marks(Models(comp, edb))
  <2>1. PICK x \in Models(comp, edb) :
              Rel(x) = "UnknownEffect" /\ r = <<"SoundnessCoverage", Subj(x), "incomplete", "MUST", <<>>>>
    BY <1>3, Zenon DEF Marks, Rows
  <2>2. comp = "effects"
    BY ZenonT(60), <1>1, <2>1, DomainNames
  <2> QED
    BY Zenon, <2>1, <2>2 DEF Derived, Rel
<1> QED
  BY Zenon, <1>2, <1>3

\* Leaving out the relations a program has not registered, and reading back only
\* the relations the component owns, changes nothing that is derived.
LEMMA ExecuteDerives ==
    ASSUME NEW comp \in Kinds, NEW edb, IsFiniteSet(edb)
    PROVE  Execute(comp, edb).results = Results(SouffleEvaluate(comp, edb))
<1> DEFINE E == InsertEdb(comp, edb)
           D == SouffleEvaluate(comp, E)
<1>1. IsFiniteSet(E)
  <2>1. E \in SUBSET edb
    BY Zenon DEF InsertEdb
  <2> HIDE DEF E
  <2> QED
    BY Zenon, <2>1, FS_Subset
<1>2. Execute(comp, edb).results = {r \in Results(D) : Rel(r) \in Derived(comp)}
  <2>1. Execute(comp, edb) = ScanOutput(comp, D)
    BY Zenon DEF Execute, Once
  <2>2. ScanOutput(comp, D) =
          [ok |-> (\A r \in Results(D) : ResultRowFromCells(r)) /\ (\A x \in D : CollectWitnessRow(x)),
           results |-> {r \in Results(D) : Rel(r) \in Derived(comp)},
           derivations |-> D]
    BY Zenon DEF ScanOutput, Once
  <2> HIDE DEF D
  <2> QED
    BY <2>1, <2>2
<1>3. ASSUME NEW d \in ComponentDomains(comp) PROVE LeastModel(d, E) = LeastModel(d, edb)
  <2>1. \A r : r \in E <=> r \in edb /\ Rel(r) \in Registered(comp)
    BY Zenon DEF InsertEdb
  <2>2. d.base \cup {d.support} \subseteq Registered(comp)
    BY Zenon DEF Registered
  <2>3. ASSUME d.derived # "GlobalFlow" PROVE "DirectCall" \in Registered(comp)
    <3>1. comp # "flow"
      BY Zenon, <2>3, DomainNames
    <3> QED
      BY Zenon, <3>1 DEF Registered
  <2> HIDE DEF E
  <2>4. \A r : Rel(r) \in d.base \cup {d.support} => (r \in E <=> r \in edb)
    BY Zenon, <2>1, <2>2
  <2>5. d.derived # "GlobalFlow" => \A r : Rel(r) = "DirectCall" => (r \in E <=> r \in edb)
    BY Zenon, <2>1, <2>3
  <2> QED
    BY <1>1, <2>4, <2>5, ModelNeeds, Zenon
<1>4. Models(comp, E) = Models(comp, edb)
  BY <1>3, Zenon DEF Models
<1>5. Results(D) = Models(comp, edb) \cup Marks(Models(comp, edb))
  BY Zenon, <1>1, <1>4, SouffleDerives
<1>6. Results(SouffleEvaluate(comp, edb)) = Models(comp, edb) \cup Marks(Models(comp, edb))
  BY Zenon, SouffleDerives
<1>7. \A r \in Models(comp, edb) \cup Marks(Models(comp, edb)) : Rel(r) \in Derived(comp)
  BY Zenon, DerivedRel
<1> HIDE DEF D
<1> QED
  BY Zenon, <1>2, <1>5, <1>6, <1>7

----------------------------------------------------------------------------
(* One component of the call graph at a time.                              *)

\* part has the rows of c, and as support the facts of succ, where c calls.
PartOf(d, all, part, c, succ) ==
    /\ Rows(all, d.support) = {}
    /\ \A r \in part : Rel(r) \in d.base \cup {"DirectCall"} => r \in all /\ Subj(r) \in c
    /\ \A r \in all : Rel(r) \in d.base \cup {"DirectCall"} /\ Subj(r) \in c => r \in part
    /\ \A r \in Rows(all, "DirectCall") : Subj(r) \in c => Obj(r) \in c \cup succ
    /\ \A r \in Rows(part, d.support) : \E x \in LeastModel(d, all) : r = Renamed(x, d.support)
    /\ \A x \in LeastModel(d, all) : Subj(x) \in succ => Renamed(x, d.support) \in part

\* The rows of a set of functions and, as support, what holds of the functions
\* they call outside of it, have the model that all rows have, cut down to the
\* functions of the set.
LEMMA ModelIsModular ==
    ASSUME NEW d, d.derived # "GlobalFlow", d.support \notin d.base \cup {"DirectCall"},
           NEW all, IsFiniteSet(all), NEW part, IsFiniteSet(part), NEW c, NEW succ,
           PartOf(d, all, part, c, succ)
    PROVE  LeastModel(d, part) = {r \in LeastModel(d, all) : Subj(r) \in c}
<1> DEFINE G == LeastModel(d, all)
           P == LeastModel(d, part)
           C == {r \in G : Subj(r) \in c}
           T == P \cup {r \in G : Subj(r) \notin c}
<1> USE DEF PartOf
<1>1. ClosedUnder(d, all, G) /\ \A X : ClosedUnder(d, all, X) => G \subseteq X
  BY Zenon, LeastModelIsLeast
<1>2. ClosedUnder(d, part, P) /\ \A X : ClosedUnder(d, part, X) => P \subseteq X
  BY Zenon, LeastModelIsLeast
<1>3. \A X : Steps(d, all, X) = Rows(all, "DirectCall") /\ Steps(d, part, X) = Rows(part, "DirectCall")
  BY Zenon DEF Steps
<1>4. ClosedUnder(d, part, C)
  <2>1. ASSUME NEW b \in part, Rel(b) \in d.base PROVE Renamed(b, d.derived) \in C
    <3>1. b \in all /\ Subj(b) \in c
      BY Zenon, <2>1
    <3>2. Renamed(b, d.derived) \in G
      BY Zenon, <1>1, <2>1, <3>1 DEF ClosedUnder
    <3> QED
      BY Zenon, <3>1, <3>2, RenamedFields
  <2>2. ASSUME NEW x \in Rows(part, "DirectCall"), NEW y \in C \cup Rows(part, d.support), Obj(x) = Subj(y)
        PROVE  Join(d, x, y) \in C
    <3>1. x \in Rows(all, "DirectCall") /\ Subj(x) \in c
      BY Zenon DEF Rows
    <3>2. PICK z \in G : Subj(z) = Subj(y) /\ Obj(z) = Obj(y) /\ Ep(z) = Ep(y)
      <4>1. CASE y \in C
        BY Zenon, <4>1
      <4>2. CASE y \in Rows(part, d.support)
        <5>1. PICK z \in G : y = Renamed(z, d.support)
          BY Zenon, <4>2
        <5> QED
          BY Zenon, <5>1, RenamedFields
      <4> QED
        BY Zenon, <4>1, <4>2
    <3>3. Join(d, x, z) = Join(d, x, y)
      BY Zenon, <3>2 DEF Join
    <3>4. Join(d, x, z) \in G
      BY SMTT(30), <1>1, <1>3, <2>2, <3>1, <3>2 DEF ClosedUnder
    <3> QED
      BY Zenon, <3>1, <3>3, <3>4, JoinFields
  <2> HIDE DEF C
  <2> QED
    BY Zenon, <1>3, <2>1, <2>2 DEF ClosedUnder
<1>5. P \subseteq C
  BY Zenon, <1>2, <1>4
<1>6. ClosedUnder(d, all, T)
  <2>1. ASSUME NEW b \in all, Rel(b) \in d.base PROVE Renamed(b, d.derived) \in T
    <3>1. CASE Subj(b) \in c
      BY Zenon, <1>2, <2>1, <3>1 DEF ClosedUnder
    <3>2. CASE Subj(b) \notin c
      <4>1. Renamed(b, d.derived) \in G
        BY Zenon, <1>1, <2>1 DEF ClosedUnder
      <4> QED
        BY Zenon, <3>2, <4>1, RenamedFields
    <3> QED
      BY Zenon, <3>1, <3>2
  <2>2. ASSUME NEW x \in Rows(all, "DirectCall"), NEW y \in T, Obj(x) = Subj(y)
        PROVE  Join(d, x, y) \in T
    <3>1. y \in G
      BY Zenon, <1>5
    <3>2. CASE Subj(x) \notin c
      <4>1. Join(d, x, y) \in G
        BY SMTT(30), <1>1, <1>3, <2>2, <3>1 DEF ClosedUnder
      <4> QED
        BY Zenon, <3>2, <4>1, JoinFields
    <3>3. CASE Subj(x) \in c
      <4>1. x \in Rows(part, "DirectCall")
        BY Zenon, <3>3 DEF Rows
      <4>2. CASE y \in P
        BY SMTT(30), <1>2, <1>3, <2>2, <4>1, <4>2 DEF ClosedUnder
      <4>3. CASE y \notin P
        <5>1. Subj(y) \in succ
          BY Zenon, <2>2, <3>3, <4>3
        <5>2. Renamed(y, d.support) \in Rows(part, d.support)
          BY Zenon, <3>1, <5>1, RenamedFields DEF Rows
        <5>3. Subj(Renamed(y, d.support)) = Subj(y) /\ Obj(Renamed(y, d.support)) = Obj(y)
              /\ Ep(Renamed(y, d.support)) = Ep(y)
          BY Zenon, RenamedFields
        <5>4. Join(d, x, Renamed(y, d.support)) = Join(d, x, y)
          BY Zenon, <5>3 DEF Join
        <5>5. Join(d, x, Renamed(y, d.support)) \in P
          BY ZenonT(60), <1>2, <1>3, <2>2, <4>1, <5>2, <5>3 DEF ClosedUnder
        <5> QED
          BY Zenon, <5>4, <5>5
      <4> QED
        BY Zenon, <4>2, <4>3
    <3> QED
      BY Zenon, <3>2, <3>3
  <2> HIDE DEF T
  <2> QED
    BY Zenon, <1>3, <2>1, <2>2 DEF ClosedUnder
<1>7. G \subseteq T
  BY Zenon, <1>1, <1>6
<1> HIDE DEF G, P
<1> QED
  BY Zenon, <1>5, <1>7 DEF G, P

\* What a component derives of the functions in c, given all rows there are.
Exact(comp, all, c) ==
    {r \in Models(comp, all) \cup Marks(Models(comp, all)) : Subj(r) \in c}

\* A component has a handful of domains.
LEMMA DomainsFinite ==
    ASSUME NEW comp \in Kinds
    PROVE  IsFiniteSet(ComponentDomains(comp))
<1>1. \E a, b : ComponentDomains(comp) = {a} \cup {b}
  <2>1. CASE comp = "reachability"
    <3>1. \E a : ComponentDomains(comp) = {a}
      BY <2>1, Zenon DEF ComponentDomains
    <3> QED
      BY ZenonT(60), <3>1
  <2>2. CASE comp = "memory-effects"
    <3>1. \E a, b : ComponentDomains(comp) = {a, b}
      BY <2>2, Zenon DEF ComponentDomains
    <3> QED
      BY <3>1
  <2>3. CASE comp = "flow"
    <3>1. \E a : ComponentDomains(comp) = {a}
      BY <2>3, Zenon DEF ComponentDomains
    <3> QED
      BY Zenon, <3>1
  <2>4. CASE comp = "effects"
    <3>1. \E a : ComponentDomains(comp) = {a}
      BY <2>4, Zenon DEF ComponentDomains
    <3> QED
      BY Zenon, <3>1
  <2> QED
    BY Zenon, <2>1, <2>2, <2>3, <2>4 DEF Kinds
<1>2. PICK a, b : ComponentDomains(comp) = {a} \cup {b}
  BY Zenon, <1>1
<1>3. IsFiniteSet({a}) /\ IsFiniteSet({b})
  BY FS_Singleton, Zenon
<1>4. IsFiniteSet({a} \cup {b})
  BY <1>3, FS_Union, Zenon
<1> QED
  BY Zenon, <1>2, <1>4

\* A component derives finitely many rows from finitely many.
LEMMA ModelsFinite ==
    ASSUME NEW comp \in Kinds, NEW edb, IsFiniteSet(edb)
    PROVE  IsFiniteSet(Models(comp, edb)) /\ IsFiniteSet(Marks(Models(comp, edb)))
<1> DEFINE M == Models(comp, edb)
           DD == ComponentDomains(comp)
           f == [d \in DD |-> LeastModel(d, edb)]
           R == Rows(M, "UnknownEffect")
           m == [r \in R |-> <<"SoundnessCoverage", Subj(r), "incomplete", "MUST", <<>>>>]
<1>1. \A d \in DD : IsFiniteSet(LeastModel(d, edb))
  <2> SUFFICES ASSUME NEW d \in DD PROVE IsFiniteSet(LeastModel(d, edb))
    BY Zenon
  <2>1. LeastModel(d, edb) \in SUBSET DerivedRows(d, edb)
    BY Zenon, LeastModelIsLeast
  <2> QED
    BY Zenon, <2>1, DerivedRowsFinite, FS_Subset
<1>2. IsFiniteSet({f[d] : d \in DD})
  <2>1. IsFiniteSet(DD)
    BY Zenon, DomainsFinite
  <2> HIDE DEF DD
  <2> QED
    BY <2>1, ImageFinite, Zenon
<1>3. M = UNION {f[d] : d \in DD}
  BY Zenon DEF Models
<1>4. IsFiniteSet(M)
  <2>1. \A X \in {f[d] : d \in DD} : IsFiniteSet(X)
    BY <1>1, Zenon
  <2> HIDE DEF M, f
  <2> QED
    BY Zenon, <1>2, <1>3, <2>1, FS_UNION
<1>5. IsFiniteSet(R)
  <2>1. R \in SUBSET M
    BY Zenon DEF Rows
  <2> HIDE DEF M, R
  <2> QED
    BY Zenon, <1>4, <2>1, FS_Subset
<1>6. IsFiniteSet({m[r] : r \in R})
  <2> HIDE DEF R
  <2> QED
    BY <1>5, ImageFinite, Zenon
<1>7. Marks(M) = {m[r] : r \in R}
  BY Zenon DEF Marks
<1> QED
  BY Zenon, <1>4, <1>6, <1>7

\* The support rows of finitely many facts are finitely many.
LEMMA SupportFinite ==
    ASSUME NEW comp \in Kinds, NEW facts, IsFiniteSet(facts)
    PROVE  IsFiniteSet(SupportRows(comp, facts))
<1> DEFINE DD == ComponentDomains(comp)
           P == facts \X DD
           g == [x \in P |-> Renamed(x[1], x[2].support)]
           S == {g[x] : x \in P}
<1>1. IsFiniteSet(P)
  BY DomainsFinite, FS_Product, Zenon
<1>2. IsFiniteSet(S)
  <2> HIDE DEF P
  <2> QED
    BY <1>1, ImageFinite, Zenon
<1>3. SupportRows(comp, facts) \in SUBSET S
  <2> SUFFICES ASSUME NEW d \in DD, NEW r \in facts PROVE Renamed(r, d.support) \in S
    BY DEF SupportRows, Rows
  <2>1. <<r, d>> \in P
    BY Zenon
  <2>2. g[<<r, d>>] = Renamed(r, d.support)
    BY Zenon, <2>1
  <2> QED
    BY <2>1, <2>2, Zenon
<1> QED
  BY Zenon, <1>2, <1>3, FS_Subset

\* The support rows of a domain are the derived rows of the facts, renamed.
LEMMA SupportOfDomain ==
    ASSUME NEW comp \in Kinds, NEW facts, NEW d \in ComponentDomains(comp), NEW s
    PROVE  s \in Rows(SupportRows(comp, facts), d.support)
             <=> \E x \in Rows(facts, d.derived) : s = Renamed(x, d.support)
<1>1. ASSUME NEW x \in Rows(facts, d.derived)
      PROVE  Renamed(x, d.support) \in Rows(SupportRows(comp, facts), d.support)
  <2>1. Renamed(x, d.support) \in SupportRows(comp, facts)
    BY DEF SupportRows
  <2> QED
    BY Zenon, <2>1, RenamedFields DEF Rows
<1>2. ASSUME s \in Rows(SupportRows(comp, facts), d.support)
      PROVE  \E x \in Rows(facts, d.derived) : s = Renamed(x, d.support)
  <2>1. s \in SupportRows(comp, facts) /\ Rel(s) = d.support
    BY Zenon, <1>2 DEF Rows
  <2>2. PICK c \in ComponentDomains(comp) : s \in {Renamed(r, c.support) : r \in Rows(facts, c.derived)}
    BY <2>1, Zenon DEF SupportRows
  <2>3. PICK x \in Rows(facts, c.derived) : s = Renamed(x, c.support)
    BY Zenon, <2>2
  <2>4. c.support = d.support
    BY Zenon, <2>1, <2>3, RenamedFields
  <2>5. c = d
    BY Zenon, <2>4, DomainsApart
  <2> QED
    BY Zenon, <2>3, <2>5
<1> QED
  BY Zenon, <1>1, <1>2

\* The support rows are of the support relations.
LEMMA SupportRel ==
    ASSUME NEW comp \in Kinds, NEW facts, NEW s \in SupportRows(comp, facts)
    PROVE  \E d \in ComponentDomains(comp) : Rel(s) = d.support
<1>1. PICK d \in ComponentDomains(comp) : s \in {Renamed(r, d.support) : r \in Rows(facts, d.derived)}
  BY Zenon DEF SupportRows
<1>2. PICK x \in Rows(facts, d.derived) : s = Renamed(x, d.support)
  BY Zenon, <1>1
<1> QED
  BY Zenon, <1>2, RenamedFields

\* No support relation of a component is a base relation of it or the calls.
LEMMA SupportApart ==
    ASSUME NEW comp \in Kinds, NEW c \in ComponentDomains(comp), NEW d \in ComponentDomains(comp)
    PROVE  c.support \notin d.base \cup {"DirectCall"}
<1>1. CASE c = d
  BY Zenon, <1>1, DomainNames
<1>2. CASE c # d
  BY Zenon, <1>2, DomainsApart, DomainNames
<1> QED
  BY Zenon, <1>1, <1>2

\* The facts of a domain among the facts of its component.
LEMMA ExactOfDomain ==
    ASSUME NEW comp \in Kinds, NEW all, IsFiniteSet(all), NEW c, NEW d \in ComponentDomains(comp)
    PROVE  Rows(Exact(comp, all, c), d.derived) = {r \in LeastModel(d, all) : Subj(r) \in c}
<1>1. ASSUME NEW r \in LeastModel(d, all), Subj(r) \in c
      PROVE  r \in Rows(Exact(comp, all, c), d.derived)
  <2>1. Rel(r) = d.derived
    BY Zenon, ModelRel
  <2>2. r \in Models(comp, all)
    BY Zenon DEF Models
  <2> QED
    BY Zenon, <1>1, <2>1, <2>2 DEF Exact, Rows
<1>2. ASSUME NEW r \in Rows(Exact(comp, all, c), d.derived)
      PROVE  r \in LeastModel(d, all) /\ Subj(r) \in c
  <2>1. Rel(r) = d.derived /\ Subj(r) \in c /\ r \in Models(comp, all) \cup Marks(Models(comp, all))
    BY Zenon DEF Exact, Rows
  <2>2. r \notin Marks(Models(comp, all))
    <3>1. \A x \in Marks(Models(comp, all)) : Rel(x) = "SoundnessCoverage"
      BY DEF Marks, Rel
    <3> QED
      BY Zenon, <2>1, <3>1, DomainNames
  <2>3. PICK e \in ComponentDomains(comp) : r \in LeastModel(e, all)
    BY <2>1, <2>2, Zenon DEF Models
  <2>4. e.derived = d.derived
    BY Zenon, <2>1, <2>3, ModelRel
  <2>5. e = d
    BY Zenon, <2>4, DomainsApart
  <2> QED
    BY Zenon, <2>1, <2>3, <2>5
<1> QED
  BY Zenon, <1>1, <1>2

\* A component of the call graph, evaluated with the facts of the components it
\* calls as support, derives what one evaluation of all rows derives of its
\* functions.
LEMMA ComponentIsModular ==
    ASSUME NEW comp \in Kinds, comp # "flow",
           NEW all, IsFiniteSet(all), NEW c, NEW succ, NEW local,
           \A r : r \in local <=> r \in all /\ Subj(r) \in c,
           \A d \in ComponentDomains(comp) : Rows(all, d.support) = {},
           \A r \in Rows(all, "DirectCall") : Subj(r) \in c => Obj(r) \in c \cup succ
    PROVE  LET part == local \cup SupportRows(comp, Exact(comp, all, succ))
           IN  /\ IsFiniteSet(part)
               /\ Models(comp, part) \cup Marks(Models(comp, part)) = Exact(comp, all, c)
<1> DEFINE F == Exact(comp, all, succ)
           S == SupportRows(comp, F)
           part == local \cup S
           M == Models(comp, all)
<1>1. IsFiniteSet(part)
  <2>1. IsFiniteSet(M \cup Marks(M))
    BY ModelsFinite, FS_Union, Zenon
  <2>2. F \in SUBSET (M \cup Marks(M))
    BY Zenon DEF Exact
  <2> HIDE DEF M, F
  <2>3. IsFiniteSet(F)
    BY Zenon, <2>1, <2>2, FS_Subset
  <2>4. IsFiniteSet(S)
    BY Zenon, <2>3, SupportFinite
  <2>5. local \in SUBSET all
    BY Zenon
  <2>6. IsFiniteSet(local)
    BY Zenon, <2>5, FS_Subset
  <2> HIDE DEF S
  <2> QED
    BY <2>4, <2>6, FS_Union, Zenon
<1>2. ASSUME NEW d \in ComponentDomains(comp)
      PROVE  LeastModel(d, part) = {r \in LeastModel(d, all) : Subj(r) \in c}
  <2>1. d.derived # "GlobalFlow" /\ d.support \notin d.base \cup {"DirectCall"}
    BY Zenon, DomainNames
  <2>2. \A s \in S : Rel(s) \notin d.base \cup {"DirectCall"}
    BY SupportRel, SupportApart
  <2>3. \A r \in local : Rel(r) # d.support
    BY Zenon DEF Rows
  <2>4. Rows(F, d.derived) = {r \in LeastModel(d, all) : Subj(r) \in succ}
    BY ExactOfDomain
  <2>5. \A s : s \in Rows(S, d.support) <=> \E x \in Rows(F, d.derived) : s = Renamed(x, d.support)
    BY SupportOfDomain
  <2>6. \A r \in part : Rel(r) \in d.base \cup {"DirectCall"} => r \in all /\ Subj(r) \in c
    BY Zenon, <2>2
  <2>7. \A r \in all : Rel(r) \in d.base \cup {"DirectCall"} /\ Subj(r) \in c => r \in part
    BY Zenon
  <2>8. \A r \in Rows(part, d.support) : \E x \in LeastModel(d, all) : r = Renamed(x, d.support)
    BY Zenon, <2>3, <2>4, <2>5 DEF Rows
  <2>9. \A x \in LeastModel(d, all) : Subj(x) \in succ => Renamed(x, d.support) \in part
    BY Zenon, <2>4, <2>5 DEF Rows
  <2>10. Rows(all, d.support) = {}
    BY Zenon
  <2> HIDE DEF part
  <2> QED
    <3>1. PartOf(d, all, part, c, succ)
      BY <2>6, <2>7, <2>8, <2>9, <2>10, Zenon DEF PartOf
    <3> QED
      BY SMTT(30), <1>1, <2>1, <3>1, ModelIsModular
<1>3. Models(comp, part) = {r \in M : Subj(r) \in c}
  <2> HIDE DEF part
  <2> QED
    BY <1>2 DEF Models
<1>4. Marks({r \in M : Subj(r) \in c}) = {r \in Marks(M) : Subj(r) \in c}
  <2> HIDE DEF M
  <2> QED
    BY DEF Marks, Rows, Subj
<1> HIDE DEF part, M
<1>5. Models(comp, part) \cup Marks(Models(comp, part)) = {r \in M \cup Marks(M) : Subj(r) \in c}
  BY Zenon, <1>3, <1>4
<1> QED
  BY Zenon, <1>1, <1>5 DEF part, M, Exact

=============================================================================
