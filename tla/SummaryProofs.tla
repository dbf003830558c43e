--------------------------- MODULE SummaryProofs ---------------------------
(***************************************************************************)
(* What the passes over a program leave in the summaries, for every        *)
(* program: finitely many facts, every call accounted for, and rows that   *)
(* belong to the function they were made for; and what either engine       *)
(* derives from them.                                                      *)
(***************************************************************************)
EXTENDS AnalysisPipeline, RulesProofs

----------------------------------------------------------------------------
(* Finite sets.                                                            *)

\* A union over a finite set is finite when each part is.
LEMMA UnionFinite ==
    ASSUME NEW S, IsFiniteSet(S), NEW f, DOMAIN f = S, \A x \in S : IsFiniteSet(f[x])
    PROVE  IsFiniteSet(UNION {f[x] : x \in S})
<1>1. IsFiniteSet({f[x] : x \in S})
  BY ImageFinite, Zenon
<1>2. \A T \in {f[x] : x \in S} : IsFiniteSet(T)
  BY Zenon
<1> QED
  BY <1>1, <1>2, FS_UNION, Zenon

\* The instructions of a program are finitely many.
LEMMA AtFinite ==
    ASSUME NEW p, IsProgram(p), NEW ops
    PROVE  IsFiniteSet(At(p, ops))
<1> DEFINE J(f) == {j \in DOMAIN p[f] : p[f][j].op \in ops}
           A(f) == {<<f, i>> : i \in J(f)}
           h == [f \in Function |-> A(f)]
<1>1. ASSUME NEW f \in Function PROVE IsFiniteSet(A(f))
  <2>1. Len(p[f]) \in Nat /\ DOMAIN p[f] = 1 .. Len(p[f])
    BY Zenon DEF IsProgram
  <2>2. IsFiniteSet(DOMAIN p[f])
    BY <2>1, FS_Interval
  <2>3. J(f) \in SUBSET DOMAIN p[f]
    BY Zenon
  <2> DEFINE JJ == J(f)
             g == [i \in JJ |-> <<f, i>>]
  <2>4. A(f) = {g[i] : i \in JJ}
    BY Zenon
  <2> HIDE DEF JJ
  <2>5. IsFiniteSet(JJ)
    BY Zenon, <2>2, <2>3, FS_Subset DEF JJ
  <2>6. IsFiniteSet({g[i] : i \in JJ})
    BY <2>5, ImageFinite, Zenon
  <2> QED
    BY <2>4, <2>6, Zenon
<1>2. At(p, ops) = UNION {h[f] : f \in Function}
  BY Zenon DEF At
<1>3. \A f \in Function : IsFiniteSet(h[f])
  BY <1>1, Zenon
<1>4. IsFiniteSet(Function)
  BY LocalAssumption, Zenon
<1> HIDE DEF h
<1>5. DOMAIN h = Function
  BY Zenon DEF h
<1> QED
  BY SMTT(30), <1>2, <1>3, <1>4, <1>5, UnionFinite

----------------------------------------------------------------------------
(* The mapper keeps its accumulator finite.                                *)

Fields == {"budget", "truncated", "unmapped", "effects", "aliases", "calls", "unknowns"}

Bounded(a) ==
    /\ DOMAIN a = Fields
    /\ IsFiniteSet(a.effects) /\ IsFiniteSet(a.calls) /\ IsFiniteSet(a.unknowns)

\* A fact more, or a budget spent, keeps it so.
LEMMA EmitBounded ==
    ASSUME NEW a, Bounded(a), NEW E, IsFiniteSet(E), NEW A, NEW C, IsFiniteSet(C)
    PROVE  Bounded(Emit(a, E, A, C))
<1> DEFINE X(b) == [a EXCEPT !.budget = b, !.effects = @ \cup E, !.aliases = @ \cup A, !.calls = @ \cup C]
           Y(b) == [a EXCEPT !.budget = b, !.truncated = TRUE]
           F(b) == IF WithinBudget(b) THEN X(b) ELSE Y(b)
           b == TryEmit(a.budget)
           x == X(b)
           y == Y(b)
<1>1. Emit(a, E, A, C) = IF WithinBudget(b) THEN x ELSE y
  <2>1. Emit(a, E, A, C) = Once(b, F)
    BY Zenon DEF Emit
  <2> HIDE DEF X, Y, b
  <2> QED
    BY <2>1, Zenon DEF Once
<1> HIDE DEF b
<1>2. DOMAIN x = Fields /\ x.effects = a.effects \cup E /\ x.calls = a.calls \cup C /\ x.unknowns = a.unknowns
  BY Zenon DEF Bounded, Fields
<1>3. DOMAIN y = Fields /\ y.effects = a.effects /\ y.calls = a.calls /\ y.unknowns = a.unknowns
  BY Zenon DEF Bounded, Fields
<1>4. IsFiniteSet(a.effects \cup E) /\ IsFiniteSet(a.calls \cup C)
  BY FS_Union, Zenon DEF Bounded
<1> HIDE DEF x, y
<1>5. Bounded(x) /\ Bounded(y)
  BY Zenon, <1>2, <1>3, <1>4 DEF Bounded
<1> QED
  BY <1>1, <1>5, Zenon

\* So does the note of what cannot be named.
LEMMA UnmappedBounded ==
    ASSUME NEW a, Bounded(a), NEW why
    PROVE  Bounded(Unmapped(a, why))
<1> DEFINE x == Unmapped(a, why)
           u == [kind |-> "svf", reason |-> why]
           U == a.unknowns \cup {u}
<1>1. DOMAIN x = Fields /\ x.effects = a.effects /\ x.calls = a.calls /\ x.unknowns = U
  BY Zenon DEF Bounded, Fields, Unmapped
<1>2. IsFiniteSet(U)
  <2> HIDE DEF u
  <2> QED
    BY FS_AddElement, Zenon DEF Bounded
<1> HIDE DEF x, U
<1>3. Bounded(x)
  BY Zenon, <1>1, <1>2 DEF Bounded
<1> QED
  BY Zenon, <1>3 DEF x

\* One visit of a loop keeps it so.
LEMMA VisitBounded ==
    ASSUME NEW a, Bounded(a), NEW p, NEW ticks, NEW pass \in {"nodes", "aliases", "calls"}, NEW v
    PROVE  Bounded(MapItem(a, p, ticks, pass, v))
<1>0. IsFiniteSet({}) /\ \A z : IsFiniteSet({z})
  BY FS_EmptySet, FS_Singleton, Zenon
<1>1. ASSUME pass = "nodes" PROVE Bounded(MapNode(a, p, v))
  <2> DEFINE c == Code(p, v)
             effect == [kind |-> IF c.op = "load" THEN "READ" ELSE "WRITE",
                        loc |-> LocationFor(c, v, FALSE), ep |-> "MAY", prov |-> "svf"]
             m == CASE c.op \in CallOps -> a
                    [] Opaque \in c.pts -> Unmapped(a, "unmapped_pointer")
                    [] OTHER -> Emit(a, {effect}, {}, {})
             n == Cardinality(c.uses)
  <2>1. MapNode(a, p, v) = EmitFlows(m, n)
    BY Zenon DEF MapNode, Once
  <2>2. Bounded(m)
    <3> HIDE DEF c, effect
    <3>1. Bounded(Emit(a, {effect}, {}, {})) /\ Bounded(Unmapped(a, "unmapped_pointer"))
      BY <1>0, EmitBounded, UnmappedBounded, Zenon
    <3> QED
      BY Zenon, <3>1
  <2> HIDE DEF m, n
  <2> DEFINE x == [m EXCEPT !.budget.emitted = @ + n]
             z == IF WithinBudget(m.budget)
                  THEN [m.budget EXCEPT !.emitted = MaxFacts, !.reason = "fact_limit"] ELSE m.budget
             y == [m EXCEPT !.truncated = TRUE, !.budget = z]
  <2>3. EmitFlows(m, n) \in {m, x, y}
    BY Zenon DEF EmitFlows
  <2> HIDE DEF z
  <2>4. DOMAIN x = Fields /\ x.effects = m.effects /\ x.calls = m.calls /\ x.unknowns = m.unknowns
    BY Zenon, <2>2 DEF Bounded, Fields
  <2>5. DOMAIN y = Fields /\ y.effects = m.effects /\ y.calls = m.calls /\ y.unknowns = m.unknowns
    BY Zenon, <2>2 DEF Bounded, Fields
  <2> HIDE DEF x, y
  <2>6. Bounded(x) /\ Bounded(y)
    BY Zenon, <2>2, <2>4, <2>5 DEF Bounded
  <2> QED
    BY Zenon, <2>1, <2>2, <2>3, <2>6
<1>2. ASSUME pass = "aliases" PROVE Bounded(MapPair(a, p, ticks, v[1], v[2]))
  <2> DEFINE f == AliasFact(p, v[1], v[2])
             X(b) == [a EXCEPT !.budget = b]
             Y(b) == [a EXCEPT !.budget = b, !.truncated = TRUE]
             F(b) == IF WithinBudget(b) THEN Emit(X(b), {}, {f}, {}) ELSE Y(b)
             b == TryAliasQuery(a.budget, ticks)
             x == X(b)
             y == Y(b)
  <2>1. MapPair(a, p, ticks, v[1], v[2]) = IF WithinBudget(b) THEN Emit(x, {}, {f}, {}) ELSE y
    <3>1. MapPair(a, p, ticks, v[1], v[2]) = Once(b, F)
      BY Zenon DEF MapPair
    <3> HIDE DEF X, Y, b, f
    <3> QED
      BY <3>1, Zenon DEF Once
  <2> HIDE DEF b, f
  <2>2. DOMAIN x = Fields /\ x.effects = a.effects /\ x.calls = a.calls /\ x.unknowns = a.unknowns
    BY Zenon DEF Bounded, Fields
  <2>3. DOMAIN y = Fields /\ y.effects = a.effects /\ y.calls = a.calls /\ y.unknowns = a.unknowns
    BY Zenon DEF Bounded, Fields
  <2> HIDE DEF x, y
  <2>4. Bounded(x) /\ Bounded(y)
    BY Zenon, <2>2, <2>3 DEF Bounded
  <2>5. Bounded(Emit(x, {}, {f}, {}))
    BY <1>0, <2>4, EmitBounded, Zenon
  <2> QED
    BY <2>1, <2>4, <2>5, Zenon
<1>3. ASSUME pass = "calls" PROVE Bounded(MapCall(a, v))
  BY <1>0, EmitBounded, Zenon DEF MapCall
<1> QED
  BY Zenon, <1>1, <1>2, <1>3 DEF MapItem

\* The loop's function of the number of visits made, from accumulator a.
Visits(a, p, ticks, pass, seq, f) ==
    f = [n \in 0 .. Len(seq) |->
            IF n = 0 THEN a ELSE MapItem(f[n - 1], p, ticks, pass, seq[n])]

\* A pass follows that function to the end of what it visits.
LEMMA PassRuns ==
    ASSUME NEW a, NEW p, NEW ticks, NEW pass, NEW seq
    PROVE  Pass(a, p, ticks, pass, seq) = (CHOOSE f : Visits(a, p, ticks, pass, seq, f))[Len(seq)]
<1> DEFINE V(b, x) == MapItem(b, p, ticks, pass, x)
           T(f, n) == IF n = 0 THEN a
                      ELSE Once(f[n - 1], LAMBDA b : Once(seq[n], LAMBDA x : V(b, x)))
           G(q) == LET upTo[n \in 0 .. Len(q)] ==
                           IF n = 0 THEN a
                           ELSE Once(upTo[n - 1], LAMBDA b : Once(q[n], LAMBDA x : V(b, x)))
                   IN  upTo[Len(q)]
<1>1. Pass(a, p, ticks, pass, seq) = Once(seq, G)
  BY Zenon DEF Pass, FoldOnce
<1>2. Once(seq, G) = G(seq)
  <2> HIDE DEF G
  <2> QED
    BY Zenon DEF Once
<1>3. G(seq) = (CHOOSE f : f = [n \in 0 .. Len(seq) |-> T(f, n)])[Len(seq)]
  BY Zenon
<1>4. ASSUME NEW f, NEW n
      PROVE  T(f, n) = IF n = 0 THEN a ELSE MapItem(f[n - 1], p, ticks, pass, seq[n])
  <2>1. Once(f[n - 1], LAMBDA b : Once(seq[n], LAMBDA x : V(b, x))) = V(f[n - 1], seq[n])
    <3> HIDE DEF V
    <3> QED
      BY Zenon DEF Once
  <2> QED
    BY <2>1, Zenon
<1> HIDE DEF T
<1>5. ASSUME NEW f
      PROVE  [n \in 0 .. Len(seq) |-> T(f, n)]
             = [n \in 0 .. Len(seq) |-> IF n = 0 THEN a ELSE MapItem(f[n - 1], p, ticks, pass, seq[n])]
  BY <1>4, Zenon
<1> QED
  BY <1>1, <1>2, <1>3, <1>5, Zenon DEF Visits

\* There is such a function, however long the loop is.
LEMMA VisitsExist ==
    ASSUME NEW a, NEW p, NEW ticks, NEW pass, NEW seq, Len(seq) \in Nat
    PROVE  \E f : Visits(a, p, ticks, pass, seq, f)
<1> DEFINE V(b, n) == MapItem(b, p, ticks, pass, seq[n])
           Up(N, f) == f = [n \in 0 .. N |-> IF n = 0 THEN a ELSE V(f[n - 1], n)]
           B == {N \in Nat : ~\E f : Up(N, f)}
<1>1. \A N \in Nat : \E f : Up(N, f)
  <2> HIDE DEF V
  <2> SUFFICES ASSUME B # {} PROVE FALSE
    BY Zenon
  <2>1. PICK N \in B : \A m \in B : N <= m
    BY LeastNat, Zenon
  <2>2. N \in Nat /\ ~\E f : Up(N, f)
    BY Zenon
  <2>3. N # 0
    <3> DEFINE g == [n \in 0 .. 0 |-> a]
    <3>1. Up(0, g)
      OBVIOUS
    <3> HIDE DEF g, Up
    <3> QED
      BY Zenon, <2>2, <3>1
  <2>4. N - 1 \in Nat /\ N - 1 \notin B
    <3>1. N \in Nat
      BY <2>2, Zenon
    <3>2. N - 1 \in Nat /\ ~(N <= N - 1)
      BY <2>3, <3>1
    <3> QED
      BY <2>1, <3>2, Zenon
  <2>5. PICK f : Up(N - 1, f)
    BY <2>4, Zenon
  <2> DEFINE g == [n \in 0 .. N |-> IF n = N THEN V(f[N - 1], N) ELSE f[n]]
  <2>6. \A n \in 0 .. N : g[n] = IF n = 0 THEN a ELSE V(g[n - 1], n)
    <3> SUFFICES ASSUME NEW n \in 0 .. N PROVE g[n] = IF n = 0 THEN a ELSE V(g[n - 1], n)
      BY Zenon
    <3>1. CASE n = N
      <4>1. n # 0 /\ n - 1 \in 0 .. N /\ n - 1 # N
        BY SMTT(30), <2>2, <2>3, <3>1
      <4> QED
        BY <3>1, <4>1, Zenon
    <3>2. CASE n # N
      <4>1. n \in 0 .. (N - 1)
        BY SMTT(30), <2>2, <3>2
      <4>2. f[n] = IF n = 0 THEN a ELSE V(f[n - 1], n)
        BY <2>5, <4>1, Zenon
      <4>3. n # 0 => n - 1 \in 0 .. N /\ n - 1 # N
        BY <2>2
      <4> QED
        BY <3>2, <4>2, <4>3, Zenon
    <3> QED
      BY Zenon, <3>1, <3>2
  <2>7. Up(N, g)
    <3> DEFINE h == [n \in 0 .. N |-> IF n = 0 THEN a ELSE V(g[n - 1], n)]
    <3>1. DOMAIN g = 0 .. N /\ g = [n \in 0 .. N |-> g[n]]
      BY Zenon
    <3> HIDE DEF g
    <3> QED
      BY <2>6, <3>1, Zenon
  <2> HIDE DEF g, Up
  <2> QED
    BY Zenon, <2>2, <2>7
<1> QED
  BY <1>1, Zenon DEF Visits

\* A pass keeps the accumulator finite.
LEMMA PassBounded ==
    ASSUME NEW a, Bounded(a), NEW p, NEW ticks, NEW pass \in {"nodes", "aliases", "calls"},
           NEW seq, Len(seq) \in Nat
    PROVE  Bounded(Pass(a, p, ticks, pass, seq))
<1> DEFINE f == CHOOSE g : Visits(a, p, ticks, pass, seq, g)
           N == Len(seq)
           B == {n \in 0 .. N : ~Bounded(f[n])}
<1>1. Visits(a, p, ticks, pass, seq, f)
  BY VisitsExist, Zenon
<1> HIDE DEF f, N
<1>2. f = [n \in 0 .. N |-> IF n = 0 THEN a ELSE MapItem(f[n - 1], p, ticks, pass, seq[n])]
  BY <1>1, Zenon DEF Visits, N
<1>3. N \in Nat
  BY Zenon DEF N
<1>4. f[0] = a
  BY <1>2, <1>3
<1>5. ASSUME NEW n \in 0 .. N, n # 0 PROVE f[n] = MapItem(f[n - 1], p, ticks, pass, seq[n])
  BY <1>2, <1>5, Zenon
<1>6. B = {}
  <2> SUFFICES ASSUME B # {} PROVE FALSE
    BY Zenon
  <2>1. PICK n \in B : \A m \in B : n <= m
    <3>1. B \in SUBSET Nat
      BY <1>3
    <3> QED
      BY <3>1, LeastNat, Zenon
  <2>2. n # 0
    BY Zenon, <1>4, <2>1
  <2>3. n - 1 \in 0 .. N /\ n - 1 \notin B
    BY SMTT(30), <1>3, <2>1, <2>2
  <2>4. Bounded(f[n - 1])
    BY Zenon, <2>3
  <2>5. Bounded(f[n])
    BY <1>5, <2>2, <2>4, VisitBounded, Zenon
  <2> QED
    BY Zenon, <2>5
<1>7. Bounded(f[N])
  BY SMTT(30), <1>3, <1>6
<1> QED
  BY <1>7, PassRuns, Zenon DEF f, N

\* A function on 1 .. n has length n.
LEMMA LengthOf ==
    ASSUME NEW n \in Nat, NEW S, NEW f \in [1 .. n -> S]
    PROVE  Len(f) = n
<1>1. f \in Seq(S)
  OBVIOUS
<1> QED
  BY <1>1

\* The three lists the mapper goes through are finite.
LEMMA ListsFinite ==
    ASSUME NEW p, IsProgram(p)
    PROVE  Len(Nodes(p)) \in Nat /\ Len(AliasPairs(p)) \in Nat /\ Len(ResolvedCalls(p)) \in Nat
<1>1. Len(Nodes(p)) \in Nat
  <2> DEFINE T == At(p, CallOps \cup {"load", "store"})
             e(i) == CHOOSE x \in T : Cardinality({y \in T : Before(y, x)}) = i - 1
  <2>1. Nodes(p) = [i \in 1 .. Cardinality(T) |-> e(i)]
    BY Zenon DEF Nodes, Ascending, Once
  <2>2. Cardinality(T) \in Nat
    BY AtFinite, FS_CardinalityType, Zenon
  <2> HIDE DEF T, e
  <2>3. Nodes(p) \in [1 .. Cardinality(T) -> {e(i) : i \in 1 .. Cardinality(T)}]
    BY <2>1, Zenon
  <2> QED
    BY Zenon, <2>2, <2>3, LengthOf
<1>2. Len(AliasPairs(p)) \in Nat
  <2> DEFINE S == AliasPointers(p)
             T == {x \in S \X S : Before(x[1], x[2])}
             L(x, y) == Before(x[1], y[1]) \/ (x[1] = y[1] /\ Before(x[2], y[2]))
             e(i) == CHOOSE x \in T : Cardinality({y \in T : L(y, x)}) = i - 1
  <2>1. AliasPairs(p) = [i \in 1 .. Cardinality(T) |-> e(i)]
    <3>1. AliasPairs(p) = Ascending(T, L)
      BY Zenon DEF AliasPairs, Once
    <3> HIDE DEF T, L
    <3> QED
      BY <3>1, Zenon DEF Ascending, Once
  <2>2. IsFiniteSet(T)
    <3>1. S \in SUBSET At(p, {"load", "store"})
      BY Zenon DEF AliasPointers
    <3>2. IsFiniteSet(S)
      <4> HIDE DEF S
      <4> QED
        BY Zenon, <3>1, AtFinite, FS_Subset
    <3> HIDE DEF S
    <3>3. IsFiniteSet(S \X S)
      BY <3>2, FS_Product, Zenon
    <3>4. T \in SUBSET (S \X S)
      BY Zenon
    <3> HIDE DEF T
    <3> QED
      BY Zenon, <3>3, <3>4, FS_Subset
  <2>3. Cardinality(T) \in Nat
    BY <2>2, FS_CardinalityType, Zenon
  <2> HIDE DEF T, e
  <2>4. AliasPairs(p) \in [1 .. Cardinality(T) -> {e(i) : i \in 1 .. Cardinality(T)}]
    BY <2>1, Zenon
  <2> QED
    BY Zenon, <2>3, <2>4, LengthOf
<1>3. Len(ResolvedCalls(p)) \in Nat
  <2> DEFINE S == At(p, {"icall"})
             K(s) == {<<s[1], s[2], g>> : g \in Code(p, s).to}
             k == [s \in S |-> K(s)]
             T == UNION {K(s) : s \in S}
             L(x, y) == Before(x, y) \/ (x[1] = y[1] /\ x[2] = y[2] /\ x[3] < y[3])
             e(i) == CHOOSE x \in T : Cardinality({y \in T : L(y, x)}) = i - 1
  <2>1. ResolvedCalls(p) = [i \in 1 .. Cardinality(T) |-> e(i)]
    <3>1. ResolvedCalls(p) = Ascending(T, L)
      BY Zenon DEF ResolvedCalls
    <3> HIDE DEF T, L
    <3> QED
      BY <3>1, Zenon DEF Ascending, Once
  <2>2. IsFiniteSet(T)
    <3>1. ASSUME NEW s \in S PROVE IsFiniteSet(K(s))
      <4>1. s[1] \in Function /\ s[2] \in DOMAIN p[s[1]]
        BY DEF At
      <4>2. IsFiniteSet(Code(p, s).to)
        BY <4>1, Zenon DEF IsProgram, Code
      <4> DEFINE Z == Code(p, s).to
                 h == [g \in Z |-> <<s[1], s[2], g>>]
      <4>3. K(s) = {h[g] : g \in Z}
        BY Zenon
      <4>4. IsFiniteSet(Z)
        BY Zenon, <4>2
      <4> HIDE DEF Z
      <4>5. IsFiniteSet({h[g] : g \in Z})
        BY <4>4, ImageFinite, Zenon
      <4> QED
        BY <4>3, <4>5, Zenon
    <3>2. IsFiniteSet(S)
      BY AtFinite, Zenon
    <3>3. T = UNION {k[s] : s \in S}
      BY Zenon
    <3>4. \A s \in S : IsFiniteSet(k[s])
      BY <3>1, Zenon
    <3> HIDE DEF S, k
    <3>5. DOMAIN k = S
      BY Zenon DEF k
    <3> HIDE DEF T
    <3> QED
      BY SMTT(30), <3>2, <3>3, <3>4, <3>5, UnionFinite
  <2>3. Cardinality(T) \in Nat
    BY <2>2, FS_CardinalityType, Zenon
  <2> HIDE DEF T, e
  <2>4. ResolvedCalls(p) \in [1 .. Cardinality(T) -> {e(i) : i \in 1 .. Cardinality(T)}]
    BY <2>1, Zenon
  <2> QED
    BY Zenon, <2>3, <2>4, LengthOf
<1> QED
  BY Zenon, <1>1, <1>2, <1>3

\* The SVF pass gives finitely many facts.
LEMMA SvfBounded ==
    ASSUME NEW p, IsProgram(p), NEW ticks
    PROVE  Bounded(MapSvfFacts(p, ticks))
<1> DEFINE A == Pass(NoFacts, p, ticks, "nodes", Nodes(p))
           B == Pass(A, p, ticks, "aliases", AliasPairs(p))
           C == NoTargets(B, p)
           D == Pass(C, p, ticks, "calls", ResolvedCalls(p))
<1>1. MapSvfFacts(p, ticks) = Noted(D)
  BY Zenon DEF MapSvfFacts, Once
<1>2. Bounded(NoFacts)
  BY Zenon, FS_EmptySet DEF Bounded, NoFacts, Fields
<1>3. Bounded(A)
  BY Zenon, <1>2, ListsFinite, PassBounded
<1> HIDE DEF A
<1>4. Bounded(B)
  BY Zenon, <1>3, ListsFinite, PassBounded
<1> HIDE DEF B
<1>5. Bounded(C)
  BY Zenon, <1>4, UnmappedBounded DEF NoTargets
<1> HIDE DEF C
<1>6. Bounded(D)
  BY Zenon, <1>5, ListsFinite, PassBounded
<1> HIDE DEF D
<1>7. Bounded(Noted(D))
  <2> DEFINE u == [kind |-> "svf", reason |-> D.budget.reason]
             U == D.unknowns \cup {u}
             x == [D EXCEPT !.unknowns = @ \cup {u}]
  <2>1. Noted(D) \in {D, x}
    BY Zenon DEF Noted
  <2> HIDE DEF u
  <2>2. DOMAIN x = Fields /\ x.effects = D.effects /\ x.calls = D.calls /\ x.unknowns = U
    BY Zenon, <1>6 DEF Bounded, Fields
  <2>3. IsFiniteSet(U)
    BY <1>6, FS_AddElement, Zenon DEF Bounded
  <2> HIDE DEF x, U
  <2>4. Bounded(x)
    BY Zenon, <1>6, <2>2, <2>3 DEF Bounded
  <2> QED
    BY Zenon, <1>6, <2>1, <2>4
<1> QED
  BY <1>1, <1>7, Zenon

----------------------------------------------------------------------------
(* The summaries.                                                          *)

Summaries(p, ticks) == MergeSvfFactsV2(RunLocalAnalysis(p), MapSvfFacts(p, ticks))

\* What the merge leaves in a summary: the local facts, and what it adds.
SummaryOf(p, facts, f, s) ==
    /\ s.calls = ExtractCallsV2(p, f) \cup MergedCalls(facts, f)
    /\ s.effects = ExtractMemoryEffectsV2(p, f) \cup MergedEffects(facts, RunLocalAnalysis(p)[f], f)
    /\ s.flows = ExtractValueFlowsV2(p, f)
    /\ s.params = ExtractParameterFlowsV2(p, f)
    /\ s.returns = ExtractReturnFlowsV2(p, f)
    /\ s.unknowns = ExtractUnknownsV2(p, f) \cup UnresolvedCalls(p, f) \cup facts.unknowns

\* The merge keeps every fact of the local pass.
LEMMA SummaryIs ==
    ASSUME NEW p, NEW ticks, NEW f \in Function
    PROVE  SummaryOf(p, MapSvfFacts(p, ticks), f, Summaries(p, ticks)[f])
<1> DEFINE facts == MapSvfFacts(p, ticks)
           D == RunLocalAnalysis(p)
           C == ExtractCallsV2(p, f)
           E == ExtractMemoryEffectsV2(p, f)
           F == ExtractValueFlowsV2(p, f)
           P == ExtractParameterFlowsV2(p, f)
           R == ExtractReturnFlowsV2(p, f)
           U == ExtractUnknownsV2(p, f) \cup UnresolvedCalls(p, f)
           x == [calls |-> C, effects |-> E, flows |-> F, params |-> P, returns |-> R,
                 aliases |-> {}, unknowns |-> U]
           K == ComputeComponentDigests(x)
           d == [calls |-> C, effects |-> E, flows |-> F, params |-> P, returns |-> R,
                 aliases |-> {}, unknowns |-> U, digests |-> K]
           MC == MergedCalls(facts, f)
           ME == MergedEffects(facts, D[f], f)
           MA == MergedAliases(facts, f)
           m == [D[f] EXCEPT !.calls = @ \cup MC, !.effects = @ \cup ME,
                             !.aliases = @ \cup MA, !.unknowns = @ \cup facts.unknowns]
           s == [m EXCEPT !.digests = ComputeComponentDigests(m)]
<1>1. Summaries(p, ticks)[f] = s
  BY Zenon DEF Summaries, MergeSvfFactsV2, Once
<1>2. D[f] = d
  <2>1. D[f] = BuildLocalSummaryV2(ExtractV2(p, f))
    BY Zenon DEF RunLocalAnalysis
  <2>2. ExtractV2(p, f) = x
    BY Zenon DEF ExtractV2
  <2> HIDE DEF C, E, F, P, R, U
  <2>3. BuildLocalSummaryV2(x) = d
    BY Zenon DEF BuildLocalSummaryV2
  <2> QED
    BY <2>1, <2>2, <2>3, Zenon
<1> HIDE DEF C, E, F, P, R, U, K, MC, ME, MA, D, facts
<1>3. /\ m.calls = C \cup MC /\ m.effects = E \cup ME /\ m.flows = F /\ m.params = P
      /\ m.returns = R /\ m.unknowns = U \cup facts.unknowns
      /\ DOMAIN m = {"calls", "effects", "flows", "params", "returns", "aliases", "unknowns", "digests"}
  BY <1>2
<1> HIDE DEF m
<1>4. /\ s.calls = m.calls /\ s.effects = m.effects /\ s.flows = m.flows /\ s.params = m.params
      /\ s.returns = m.returns /\ s.unknowns = m.unknowns
  BY Zenon, <1>3
<1> HIDE DEF s
<1> QED
  BY <1>1, <1>3, <1>4, Zenon DEF SummaryOf, C, E, F, P, R, U, MC, ME, D, facts

\* A function has finitely many instructions.
LEMMA BodyFinite ==
    ASSUME NEW p, IsProgram(p), NEW f \in Function, NEW J \in SUBSET DOMAIN p[f]
    PROVE  IsFiniteSet(J)
<1>1. Len(p[f]) \in Nat /\ DOMAIN p[f] = 1 .. Len(p[f])
  BY Zenon DEF IsProgram
<1>2. IsFiniteSet(DOMAIN p[f])
  BY SMTT(30), <1>1, FS_Interval
<1> QED
  BY Zenon, <1>2, FS_Subset

\* The local pass finds finitely many facts.
LEMMA LocalFinite ==
    ASSUME NEW p, IsProgram(p), NEW f \in Function
    PROVE  /\ IsFiniteSet(ExtractCallsV2(p, f)) /\ IsFiniteSet(ExtractMemoryEffectsV2(p, f))
           /\ IsFiniteSet(ExtractValueFlowsV2(p, f)) /\ IsFiniteSet(ExtractParameterFlowsV2(p, f))
           /\ IsFiniteSet(ExtractReturnFlowsV2(p, f)) /\ IsFiniteSet(ExtractUnknownsV2(p, f))
           /\ IsFiniteSet(UnresolvedCalls(p, f))
<1> DEFINE I == DOMAIN p[f]
<1>0. \A i \in I : IsFiniteSet(p[f][i].uses)
  BY Zenon DEF IsProgram
<1>1. IsFiniteSet(ExtractCallsV2(p, f))
  <2> DEFINE J == {j \in I : p[f][j].op \in CallOps}
             r(i) == [site   |-> CallSiteIdFor(f, i),
                      sym    |-> IF Direct(p[f][i]) THEN Target(p[f][i]) ELSE NoId,
                      callee |-> IF Direct(p[f][i]) THEN GetSymbolId(Target(p[f][i])) ELSE NoId,
                      disp   |-> IF Direct(p[f][i]) THEN "direct" ELSE "indirect",
                      ep     |-> IF Direct(p[f][i]) THEN "MUST" ELSE "UNKNOWN",
                      prov   |-> "none"]
             e == [i \in J |-> r(i)]
  <2>1. IsFiniteSet(J)
    BY BodyFinite, Zenon
  <2>2. ExtractCallsV2(p, f) = {r(i) : i \in J}
    BY Zenon DEF ExtractCallsV2
  <2> HIDE DEF J, r
  <2>3. {r(i) : i \in J} = {e[i] : i \in J}
    BY Zenon
  <2>4. IsFiniteSet({e[i] : i \in J})
    BY <2>1, ImageFinite, Zenon
  <2> QED
    BY <2>2, <2>3, <2>4, Zenon
<1>2. IsFiniteSet(ExtractMemoryEffectsV2(p, f))
  <2> DEFINE J == {j \in I : p[f][j].op # "value"}
             r(i) == [kind |-> CASE p[f][i].op = "load" -> "READ"
                                 [] p[f][i].op = "store" -> "WRITE"
                                 [] OTHER -> "UNKNOWN",
                      loc  |-> LocationFor(p[f][i], <<f, i>>, TRUE),
                      ep   |-> "MUST",
                      prov |-> "none"]
             e == [i \in J |-> r(i)]
  <2>1. IsFiniteSet(J)
    BY BodyFinite, Zenon
  <2>2. ExtractMemoryEffectsV2(p, f) = {r(i) : i \in J}
    BY Zenon DEF ExtractMemoryEffectsV2
  <2> HIDE DEF J, r
  <2>3. {r(i) : i \in J} = {e[i] : i \in J}
    BY Zenon
  <2>4. IsFiniteSet({e[i] : i \in J})
    BY <2>1, ImageFinite, Zenon
  <2> QED
    BY <2>2, <2>3, <2>4, Zenon
<1>3. IsFiniteSet(ExtractValueFlowsV2(p, f))
  <2> DEFINE r(i, u) == [src |-> IdFor(f, u), dst |-> IdFor(f, i), ep |-> "MUST"]
             k(i) == {r(i, u) : u \in p[f][i].uses}
             h == [i \in I |-> k(i)]
  <2>1. ASSUME NEW i \in I PROVE IsFiniteSet(k(i))
    <3> DEFINE Z == p[f][i].uses
               e == [u \in Z |-> r(i, u)]
    <3>1. IsFiniteSet(Z)
      BY Zenon, <1>0
    <3>2. k(i) = {e[u] : u \in Z}
      BY Zenon
    <3> HIDE DEF Z, r
    <3>3. IsFiniteSet({e[u] : u \in Z})
      BY <3>1, ImageFinite, Zenon
    <3> QED
      BY <3>2, <3>3, Zenon
  <2>2. ExtractValueFlowsV2(p, f) = UNION {k(i) : i \in I}
    BY Zenon DEF ExtractValueFlowsV2
  <2>3. IsFiniteSet(I)
    BY BodyFinite, Zenon
  <2> HIDE DEF I, k
  <2>4. UNION {k(i) : i \in I} = UNION {h[i] : i \in I}
    BY Zenon
  <2>5. DOMAIN h = I /\ \A i \in I : IsFiniteSet(h[i])
    BY <2>1, Zenon
  <2> HIDE DEF h
  <2>6. IsFiniteSet(UNION {h[i] : i \in I})
    BY SMTT(30), <2>3, <2>5, UnionFinite
  <2> QED
    BY <2>2, <2>4, <2>6, Zenon
<1>4. IsFiniteSet(ExtractParameterFlowsV2(p, f))
  <2> DEFINE J == {j \in I : Direct(p[f][j])}
             r(i, u) == [site |-> CallSiteIdFor(f, i), src |-> IdFor(f, u),
                         dst |-> FormalParamId(Target(p[f][i])), ep |-> "MUST"]
             k(i) == {r(i, u) : u \in p[f][i].uses}
             h == [i \in J |-> k(i)]
  <2>1. ASSUME NEW i \in J PROVE IsFiniteSet(k(i))
    <3> DEFINE Z == p[f][i].uses
               e == [u \in Z |-> r(i, u)]
    <3>1. IsFiniteSet(Z)
      BY Zenon, <1>0
    <3>2. k(i) = {e[u] : u \in Z}
      BY Zenon
    <3> HIDE DEF Z, r
    <3>3. IsFiniteSet({e[u] : u \in Z})
      BY <3>1, ImageFinite, Zenon
    <3> QED
      BY <3>2, <3>3, Zenon
  <2>2. ExtractParameterFlowsV2(p, f) = UNION {k(i) : i \in J}
    BY Zenon DEF ExtractParameterFlowsV2
  <2>3. IsFiniteSet(J)
    BY BodyFinite, Zenon
  <2> HIDE DEF J, k
  <2>4. UNION {k(i) : i \in J} = UNION {h[i] : i \in J}
    BY Zenon
  <2>5. DOMAIN h = J /\ \A i \in J : IsFiniteSet(h[i])
    BY <2>1, Zenon
  <2> HIDE DEF h
  <2>6. IsFiniteSet(UNION {h[i] : i \in J})
    BY <2>3, <2>5, UnionFinite
  <2> QED
    BY <2>2, <2>4, <2>6, Zenon
<1>5. IsFiniteSet(ExtractReturnFlowsV2(p, f))
  <2> DEFINE J == {j \in I : Direct(p[f][j])}
             r(i) == [site |-> CallSiteIdFor(f, i), src |-> ReturnValueId(Target(p[f][i])),
                      dst |-> IdFor(f, i), ep |-> "MUST"]
             e == [i \in J |-> r(i)]
  <2>1. IsFiniteSet(J)
    BY BodyFinite, Zenon
  <2>2. ExtractReturnFlowsV2(p, f) = {r(i) : i \in J}
    BY Zenon DEF ExtractReturnFlowsV2
  <2> HIDE DEF J, r
  <2>3. {r(i) : i \in J} = {e[i] : i \in J}
    BY Zenon
  <2>4. IsFiniteSet({e[i] : i \in J})
    BY <2>1, ImageFinite, Zenon
  <2> QED
    BY <2>2, <2>3, <2>4, Zenon
<1>6. IsFiniteSet(ExtractUnknownsV2(p, f))
  <2> DEFINE J == {j \in I : p[f][j].op = "asm"}
             r(i) == [kind |-> "unsupported_construct", reason |-> p[f][i].op]
             e == [i \in J |-> r(i)]
  <2>1. IsFiniteSet(J)
    BY BodyFinite, Zenon
  <2>2. ExtractUnknownsV2(p, f) = {r(i) : i \in J}
    BY Zenon DEF ExtractUnknownsV2
  <2> HIDE DEF J, r
  <2>3. {r(i) : i \in J} = {e[i] : i \in J}
    BY Zenon
  <2>4. IsFiniteSet({e[i] : i \in J})
    BY <2>1, ImageFinite, Zenon
  <2> QED
    BY <2>2, <2>3, <2>4, Zenon
<1>7. IsFiniteSet(UnresolvedCalls(p, f))
  <2> DEFINE J == {d \in ExtractCallsV2(p, f) : d.ep = "UNKNOWN"}
             r(c) == [kind |-> "unresolved_call", reason |-> c.disp]
             e == [c \in J |-> r(c)]
  <2>1. J \in SUBSET ExtractCallsV2(p, f)
    BY Zenon
  <2>2. UnresolvedCalls(p, f) = {r(c) : c \in J}
    BY Zenon DEF UnresolvedCalls
  <2> HIDE DEF J, r
  <2>3. IsFiniteSet(J)
    BY Zenon, <1>1, <2>1, FS_Subset
  <2>4. {r(c) : c \in J} = {e[c] : c \in J}
    BY Zenon
  <2>5. IsFiniteSet({e[c] : c \in J})
    BY <2>3, ImageFinite, Zenon
  <2> QED
    BY <2>2, <2>4, <2>5, Zenon
<1> QED
  BY Zenon, <1>1, <1>2, <1>3, <1>4, <1>5, <1>6, <1>7

\* A summary holds finitely many facts.
LEMMA SummaryFinite ==
    ASSUME NEW p, IsProgram(p), NEW ticks, NEW f \in Function
    PROVE  LET s == Summaries(p, ticks)[f]
           IN  /\ IsFiniteSet(s.calls) /\ IsFiniteSet(s.effects) /\ IsFiniteSet(s.flows)
               /\ IsFiniteSet(s.params) /\ IsFiniteSet(s.returns) /\ IsFiniteSet(s.unknowns)
<1> DEFINE s == Summaries(p, ticks)[f]
           facts == MapSvfFacts(p, ticks)
           D == RunLocalAnalysis(p)[f]
<1>1. IsFiniteSet(facts.effects) /\ IsFiniteSet(facts.calls) /\ IsFiniteSet(facts.unknowns)
  BY SvfBounded, Zenon DEF Bounded
<1> HIDE DEF facts
<1>2. IsFiniteSet(MergedCalls(facts, f))
  <2> DEFINE J == {d \in facts.calls : d.caller = f}
             r(c) == [site |-> c.site, sym |-> c.callee, callee |-> GetSymbolId(c.callee),
                      disp |-> "indirect", ep |-> "MAY", prov |-> "svf"]
             e == [c \in J |-> r(c)]
  <2>1. J \in SUBSET facts.calls
    BY Zenon
  <2>2. MergedCalls(facts, f) = {r(c) : c \in J}
    BY Zenon DEF MergedCalls
  <2> HIDE DEF J, r
  <2>3. IsFiniteSet(J)
    BY Zenon, <1>1, <2>1, FS_Subset
  <2>4. {r(c) : c \in J} = {e[c] : c \in J}
    BY Zenon
  <2>5. IsFiniteSet({e[c] : c \in J})
    BY <2>3, ImageFinite, Zenon
  <2> QED
    BY <2>2, <2>4, <2>5, Zenon
<1>3. IsFiniteSet(MergedEffects(facts, D, f))
  <2>1. MergedEffects(facts, D, f) \in SUBSET facts.effects
    BY Zenon DEF MergedEffects
  <2> HIDE DEF D
  <2> QED
    BY Zenon, <1>1, <2>1, FS_Subset
<1>4. /\ s.calls = ExtractCallsV2(p, f) \cup MergedCalls(facts, f)
      /\ s.effects = ExtractMemoryEffectsV2(p, f) \cup MergedEffects(facts, D, f)
      /\ s.flows = ExtractValueFlowsV2(p, f) /\ s.params = ExtractParameterFlowsV2(p, f)
      /\ s.returns = ExtractReturnFlowsV2(p, f)
      /\ s.unknowns = ExtractUnknownsV2(p, f) \cup UnresolvedCalls(p, f) \cup facts.unknowns
  <2>1. SummaryOf(p, facts, f, s)
    BY Zenon, SummaryIs DEF facts
  <2> HIDE DEF s
  <2> QED
    BY <2>1, Zenon DEF SummaryOf
<1> HIDE DEF s, D
<1>5. IsFiniteSet(s.calls)
  <2>1. IsFiniteSet(ExtractCallsV2(p, f))
    BY LocalFinite, Zenon
  <2>2. IsFiniteSet(ExtractCallsV2(p, f) \cup MergedCalls(facts, f))
    BY <1>2, <2>1, FS_Union, Zenon
  <2> QED
    BY <1>4, <2>2, Zenon
<1>6. IsFiniteSet(s.effects)
  <2>1. IsFiniteSet(ExtractMemoryEffectsV2(p, f))
    BY LocalFinite, Zenon
  <2>2. IsFiniteSet(ExtractMemoryEffectsV2(p, f) \cup MergedEffects(facts, D, f))
    BY <1>3, <2>1, FS_Union, Zenon
  <2> QED
    BY <1>4, <2>2, Zenon
<1>7. IsFiniteSet(s.flows) /\ IsFiniteSet(s.params) /\ IsFiniteSet(s.returns)
  BY <1>4, LocalFinite, Zenon
<1>8. IsFiniteSet(s.unknowns)
  <2>1. IsFiniteSet(ExtractUnknownsV2(p, f) \cup UnresolvedCalls(p, f))
    BY LocalFinite, FS_Union, Zenon
  <2>2. IsFiniteSet((ExtractUnknownsV2(p, f) \cup UnresolvedCalls(p, f)) \cup facts.unknowns)
    BY <1>1, <2>1, FS_Union, Zenon
  <2> QED
    BY <1>4, <2>2, Zenon
<1> QED
  BY <1>5, <1>6, <1>7, <1>8, Zenon DEF s

\* A call of a summary names a definition or nothing.
LEMMA CalleeKnown ==
    ASSUME NEW p, NEW ticks, NEW f \in Function, NEW c \in Summaries(p, ticks)[f].calls
    PROVE  c.callee \in Function \cup {NoId}
<1> DEFINE facts == MapSvfFacts(p, ticks)
<1>1. c \in ExtractCallsV2(p, f) \cup MergedCalls(facts, f)
  <2> DEFINE s == Summaries(p, ticks)[f]
  <2>1. SummaryOf(p, facts, f, s)
    BY Zenon, SummaryIs
  <2>2. c \in s.calls
    BY Zenon
  <2> HIDE DEF s, facts
  <2> QED
    BY <2>1, <2>2, Zenon DEF SummaryOf
<1> HIDE DEF facts
<1>2. \A g : GetSymbolId(g) \in Function \cup {NoId}
  BY Zenon DEF GetSymbolId
<1>3. CASE c \in ExtractCallsV2(p, f)
  BY SMTT(30), <1>2, <1>3 DEF ExtractCallsV2
<1>4. CASE c \in MergedCalls(facts, f)
  BY SMTT(30), <1>2, <1>4 DEF MergedCalls
<1> QED
  BY Zenon, <1>1, <1>3, <1>4

----------------------------------------------------------------------------
(* The rows of the summaries.                                              *)

\* A finite summary has finitely many rows.
LEMMA LocalRowsFinite ==
    ASSUME NEW s, IsFiniteSet(s.calls), IsFiniteSet(s.effects), IsFiniteSet(s.flows),
           IsFiniteSet(s.params), IsFiniteSet(s.returns), IsFiniteSet(s.unknowns),
           NEW f, NEW comp \in Kinds
    PROVE  IsFiniteSet(LocalRows(s, f, comp))
<1> DEFINE C == {CallRow(f, c) : c \in s.calls}
           M == {MemoryRow(f, e) : e \in MemoryEffectsOf(s)}
           F == FlowRows(f, s)
           U == {FeatureRow(f, u) : u \in s.unknowns}
<1>1. IsFiniteSet(C)
  <2> DEFINE Z == s.calls
             e == [c \in Z |-> CallRow(f, c)]
  <2>1. C = {e[c] : c \in Z}
    BY Zenon
  <2>2. IsFiniteSet(Z)
    BY Zenon
  <2> HIDE DEF Z
  <2>3. IsFiniteSet({e[c] : c \in Z})
    BY <2>2, ImageFinite, Zenon
  <2> QED
    BY <2>1, <2>3, Zenon
<1>2. IsFiniteSet(M)
  <2> DEFINE Z == MemoryEffectsOf(s)
             e == [c \in Z |-> MemoryRow(f, c)]
  <2>1. M = {e[c] : c \in Z}
    BY Zenon
  <2>2. Z \in SUBSET s.effects
    BY Zenon DEF MemoryEffectsOf
  <2> HIDE DEF Z
  <2>3. IsFiniteSet(Z)
    BY ZenonT(60), <2>2, FS_Subset
  <2>4. IsFiniteSet({e[c] : c \in Z})
    BY <2>3, ImageFinite, Zenon
  <2> QED
    BY <2>1, <2>4, Zenon
<1>3. IsFiniteSet(F)
  <2> DEFINE X == s.flows
             Y == s.params
             Z == s.returns
             x == [a \in X |-> <<"LocalFlow", a.src, a.dst, a.ep, <<f>>>>]
             y == [a \in Y |-> <<"ParameterFlow", a.src, a.dst, a.ep, <<a.site>>>>]
             z == [a \in Z |-> <<"ReturnFlow", a.src, a.dst, a.ep, <<a.site>>>>]
  <2>1. F = {x[a] : a \in X} \cup {y[a] : a \in Y} \cup {z[a] : a \in Z}
    BY Zenon DEF FlowRows
  <2>2. IsFiniteSet(X) /\ IsFiniteSet(Y) /\ IsFiniteSet(Z)
    BY Zenon
  <2> HIDE DEF X, Y, Z, F
  <2>3. IsFiniteSet({x[a] : a \in X})
    BY <2>2, ImageFinite, Zenon
  <2>4. IsFiniteSet({y[a] : a \in Y})
    BY <2>2, ImageFinite, Zenon
  <2>5. IsFiniteSet({z[a] : a \in Z})
    BY <2>2, ImageFinite, Zenon
  <2> HIDE DEF x, y, z
  <2>6. IsFiniteSet({x[a] : a \in X} \cup {y[a] : a \in Y})
    BY <2>3, <2>4, FS_Union, Zenon
  <2>7. IsFiniteSet(({x[a] : a \in X} \cup {y[a] : a \in Y}) \cup {z[a] : a \in Z})
    BY <2>5, <2>6, FS_Union, Zenon
  <2> QED
    BY <2>1, <2>7, Zenon
<1>4. IsFiniteSet(U)
  <2> DEFINE Z == s.unknowns
             e == [c \in Z |-> FeatureRow(f, c)]
  <2>1. U = {e[c] : c \in Z}
    BY Zenon
  <2>2. IsFiniteSet(Z)
    BY Zenon
  <2> HIDE DEF Z
  <2>3. IsFiniteSet({e[c] : c \in Z})
    BY <2>2, ImageFinite, Zenon
  <2> QED
    BY <2>1, <2>3, Zenon
<1>5. \E X : IsFiniteSet(X) /\ LocalRows(s, f, comp) = C \cup X
  <2>1. LocalRows(s, f, comp) =
          C \cup (CASE comp = "memory-effects" -> M [] comp = "flow" -> F [] comp = "effects" -> U
                    [] OTHER -> {})
    BY Zenon DEF LocalRows
  <2> HIDE DEF C, M, F, U
  <2> QED
    BY ZenonT(60), <1>2, <1>3, <1>4, <2>1, FS_EmptySet
<1> HIDE DEF C
<1> QED
  BY <1>1, <1>5, FS_Union, Zenon

\* A row of a component other than the flows belongs to its function, and a
\* call row to a call that is an edge.
LEMMA LocalRowsOf ==
    ASSUME NEW s, NEW f, NEW comp \in Kinds, comp # "flow", NEW r \in LocalRows(s, f, comp)
    PROVE  /\ Subj(r) = f
           /\ Rel(r) \in {"DirectCall", "UnknownCall", "DirectWrite", "DirectRead", "UnsupportedFeature"}
           /\ Rel(r) = "DirectCall" =>
                \E c \in s.calls : IsEdgeAdmissible(c.ep) /\ c.callee # NoId /\ Obj(r) = c.callee
<1>1. CASE r \in {CallRow(f, c) : c \in s.calls}
  BY SMTT(30), <1>1 DEF CallRow, Rel, Subj, Obj, IsEdgeAdmissible
<1>2. CASE r \in {MemoryRow(f, e) : e \in MemoryEffectsOf(s)}
  BY SMTT(30), <1>2 DEF MemoryRow, Rel, Subj
<1>3. CASE r \in {FeatureRow(f, u) : u \in s.unknowns}
  BY <1>3 DEF FeatureRow, Rel, Subj
<1> QED
  BY Zenon, <1>1, <1>2, <1>3 DEF LocalRows, Kinds

Whole(sm, comp) == Materialize(sm, Function, comp, {})

\* A component of the run gets finitely many rows from finitely many facts.
LEMMA RowsFinite ==
    ASSUME NEW p, IsProgram(p), NEW ticks, NEW comp \in Kinds, NEW c \in SUBSET Function,
           NEW facts, IsFiniteSet(facts)
    PROVE  IsFiniteSet(Materialize(Summaries(p, ticks), c, comp, facts))
<1> DEFINE S == Summaries(p, ticks)
           h == [f \in c |-> LocalRows(S[f], f, comp)]
           L == UNION {LocalRows(S[f], f, comp) : f \in c}
<1>1. \A f \in c : IsFiniteSet(LocalRows(S[f], f, comp))
  <2> SUFFICES ASSUME NEW f \in c PROVE IsFiniteSet(LocalRows(S[f], f, comp))
    BY Zenon
  <2>0. f \in Function
    BY Zenon
  <2> DEFINE s == S[f]
  <2>1. /\ IsFiniteSet(s.calls) /\ IsFiniteSet(s.effects) /\ IsFiniteSet(s.flows)
        /\ IsFiniteSet(s.params) /\ IsFiniteSet(s.returns) /\ IsFiniteSet(s.unknowns)
    BY <2>0, SummaryFinite, Zenon
  <2> HIDE DEF s
  <2>2. IsFiniteSet(LocalRows(s, f, comp))
    BY <2>1, LocalRowsFinite, Zenon
  <2> QED
    BY Zenon, <2>2 DEF s
<1>2. IsFiniteSet(c)
  <2>1. IsFiniteSet(Function)
    BY LocalAssumption, Zenon
  <2> QED
    BY Zenon, <2>1, FS_Subset
<1>3. DOMAIN h = c /\ \A f \in c : IsFiniteSet(h[f])
  BY <1>1, Zenon
<1>4. L = UNION {h[f] : f \in c}
  BY Zenon
<1> HIDE DEF h, L
<1>5. IsFiniteSet(L)
  BY SMTT(30), <1>2, <1>3, <1>4, UnionFinite
<1>6. IsFiniteSet(L \cup SupportRows(comp, facts))
  BY <1>5, SupportFinite, FS_Union, Zenon
<1> QED
  BY <1>6, Zenon DEF Materialize, L

\* The rows of the whole program are those of its functions, without support.
LEMMA WholeIs ==
    ASSUME NEW sm, NEW comp \in Kinds
    PROVE  \A r : r \in Whole(sm, comp) <=> \E f \in Function : r \in LocalRows(sm[f], f, comp)
<1>1. SupportRows(comp, {}) = {}
  BY Zenon DEF SupportRows, Rows
<1> QED
  BY Zenon, <1>1 DEF Whole, Materialize

\* The rows of all that are about the functions of c.
IsPart(local, all, c) == \A r : r \in local <=> r \in all /\ Subj(r) \in c


\* The rows of some functions are the rows of the whole program about them.
LEMMA PartIs ==
    ASSUME NEW sm, NEW comp \in Kinds, comp # "flow", NEW c \in SUBSET Function
    PROVE  IsPart(UNION {LocalRows(sm[f], f, comp) : f \in c}, Whole(sm, comp), c)
<1>1. SUFFICES ASSUME NEW r
               PROVE  r \in UNION {LocalRows(sm[f], f, comp) : f \in c}
                        <=> r \in Whole(sm, comp) /\ Subj(r) \in c
  BY Zenon DEF IsPart
<1>2. \A f \in Function : r \in LocalRows(sm[f], f, comp) => Subj(r) = f
  BY LocalRowsOf, Zenon
<1>3. r \in Whole(sm, comp) <=> \E f \in Function : r \in LocalRows(sm[f], f, comp)
  BY WholeIs, Zenon
<1> QED
  BY Zenon, <1>2, <1>3

\* No function has support rows of its own.
LEMMA NoSupport ==
    ASSUME NEW sm, NEW comp \in Kinds, comp # "flow", NEW d \in ComponentDomains(comp)
    PROVE  Rows(Whole(sm, comp), d.support) = {}
<1> DEFINE N == {"DirectCall", "UnknownCall", "DirectWrite", "DirectRead", "UnsupportedFeature"}
<1>1. \A r \in Whole(sm, comp) : Rel(r) \in N
  <2> SUFFICES ASSUME NEW r \in Whole(sm, comp) PROVE Rel(r) \in N
    BY Zenon
  <2>1. PICK f \in Function : r \in LocalRows(sm[f], f, comp)
    BY WholeIs, Zenon
  <2> QED
    BY <2>1, LocalRowsOf, Zenon
<1>2. d.support \notin N
  BY DEF ComponentDomains, Kinds
<1> QED
  BY Zenon, <1>1, <1>2 DEF Rows

\* The graph has the functions, and its edges join functions.
LEMMA GraphIs ==
    ASSUME NEW p, NEW ticks
    PROVE  LET g == FromSummaries(Summaries(p, ticks))
           IN  g.functions = Function /\ \A e \in g.edges : e.caller \in Function /\ e.callee \in Function
<1> DEFINE S == Summaries(p, ticks)
           g == FromSummaries(S)
           E == UNION {{CallEdge(f, c) : c \in {x \in NormalizeCalls(S[f]) : Resolved(Function, x)}} : f \in Function}
<1>1. DOMAIN S = Function
  BY Zenon DEF Summaries, MergeSvfFactsV2, Once
<1> HIDE DEF S
<1>2. g.functions = Function /\ g.edges = E
  BY SMTT(30), <1>1 DEF FromSummaries
<1>3. \A e \in E : e.caller \in Function /\ e.callee \in Function
  BY DEF CallEdge, Resolved
<1> QED
  BY Zenon, <1>2, <1>3 DEF S

\* A call row is an edge of the graph.
LEMMA CallRowIsEdge ==
    ASSUME NEW p, NEW ticks, NEW comp \in Kinds, comp # "flow",
           NEW r \in Rows(Whole(Summaries(p, ticks), comp), "DirectCall")
    PROVE  \E e \in FromSummaries(Summaries(p, ticks)).edges : e.caller = Subj(r) /\ e.callee = Obj(r)
<1> DEFINE S == Summaries(p, ticks)
           g == FromSummaries(S)
           E == UNION {{CallEdge(f, c) : c \in {x \in NormalizeCalls(S[f]) : Resolved(Function, x)}} : f \in Function}
<1>1. DOMAIN S = Function
  BY Zenon DEF Summaries, MergeSvfFactsV2, Once
<1>2. \A f \in Function : \A c \in S[f].calls : c.callee \in Function \cup {NoId}
  BY CalleeKnown, Zenon
<1> HIDE DEF S
<1>3. g.edges = E
  BY SMTT(30), <1>1 DEF FromSummaries
<1>4. r \in Whole(S, comp) /\ Rel(r) = "DirectCall"
  BY Zenon DEF Rows, S
<1>5. PICK f \in Function : r \in LocalRows(S[f], f, comp)
  BY <1>4, WholeIs, Zenon
<1>6. Subj(r) = f /\ \E c \in S[f].calls : IsEdgeAdmissible(c.ep) /\ c.callee # NoId /\ Obj(r) = c.callee
  BY <1>4, <1>5, LocalRowsOf, Zenon
<1>7. PICK c \in S[f].calls : IsEdgeAdmissible(c.ep) /\ c.callee # NoId /\ Obj(r) = c.callee
  BY Zenon, <1>6
<1>8. CallEdge(f, c) \in E
  BY SMTT(30), <1>2, <1>7 DEF Resolved, NormalizeCalls
<1>9. CallEdge(f, c).caller = f /\ CallEdge(f, c).callee = c.callee
  BY Zenon DEF CallEdge
<1> QED
  BY Zenon, <1>3, <1>6, <1>7, <1>8, <1>9 DEF S

----------------------------------------------------------------------------
(* What the program does and the rows state.                               *)

\* No function has the id that stands for none.
LEMMA NoIdIsNone == NoId \notin Function
<1> DEFINE n == Cardinality(Function)
<1>1. n \in Nat /\ Function = 1 .. n
  BY LocalAssumption, FS_CardinalityType, Zenon
<1> HIDE DEF n
<1>2. 0 \notin 1 .. n
  BY <1>1
<1> QED
  BY <1>1, <1>2, Zenon DEF NoId

\* The local pass states every call, and the merge drops none: a direct call
\* of a definition is a call row of each component, any other call an unknown
\* call of its function.
LEMMA CallsStated ==
    ASSUME NEW p, IsProgram(p), NEW ticks, NEW s \in At(p, {"call", "icall"}), NEW g \in Code(p, s).to
    PROVE  \/ /\ g \in Function
              /\ \A comp \in Kinds : \E r \in Rows(Whole(Summaries(p, ticks), comp), "DirectCall") :
                   Subj(r) = s[1] /\ Obj(r) = g
           \/ \E r \in Rows(Whole(Summaries(p, ticks), "effects"), "UnknownCall") : Subj(r) = s[1]
<1> DEFINE S == Summaries(p, ticks)
           f == s[1]
           i == s[2]
           c == [site   |-> CallSiteIdFor(f, i),
                 sym    |-> IF Direct(p[f][i]) THEN Target(p[f][i]) ELSE NoId,
                 callee |-> IF Direct(p[f][i]) THEN GetSymbolId(Target(p[f][i])) ELSE NoId,
                 disp   |-> IF Direct(p[f][i]) THEN "direct" ELSE "indirect",
                 ep     |-> IF Direct(p[f][i]) THEN "MUST" ELSE "UNKNOWN",
                 prov   |-> "none"]
<1>1. f \in Function /\ i \in DOMAIN p[f] /\ p[f][i].op \in {"call", "icall"}
  BY DEF At
<1>2. c \in ExtractCallsV2(p, f)
  <2>1. i \in {j \in DOMAIN p[f] : p[f][j].op \in CallOps}
    BY Zenon, <1>1 DEF CallOps
  <2> HIDE DEF i, f
  <2> QED
    BY <2>1, Zenon DEF ExtractCallsV2
<1>3. c \in S[f].calls
  <2> DEFINE z == S[f]
             facts == MapSvfFacts(p, ticks)
  <2>1. SummaryOf(p, facts, f, z)
    BY Zenon, <1>1, SummaryIs
  <2> HIDE DEF z, facts, c
  <2>2. c \in z.calls
    BY <1>2, <2>1, Zenon DEF SummaryOf
  <2> QED
    BY Zenon, <2>2 DEF z
<1>4. \A comp \in Kinds : CallRow(f, c) \in Whole(S, comp)
  <2> SUFFICES ASSUME NEW comp \in Kinds PROVE CallRow(f, c) \in Whole(S, comp)
    BY Zenon
  <2> HIDE DEF c, S, f
  <2>1. CallRow(f, c) \in LocalRows(S[f], f, comp)
    BY <1>3, Zenon DEF LocalRows
  <2> QED
    BY <1>1, <2>1, WholeIs, Zenon
<1>5. CASE p[f][i].op = "call" /\ g \in Function
  <2>1. Direct(p[f][i]) /\ Target(p[f][i]) = g
    <3>1. \E x \in p[f][i].to : p[f][i].to = {x}
      BY <1>1, <1>5, Zenon DEF IsProgram
    <3>2. g \in p[f][i].to
      BY Zenon DEF Code
    <3> QED
      BY Zenon, <1>5, <3>1, <3>2 DEF Direct, Target
  <2>2. c.ep = "MUST" /\ c.callee = g
    BY Zenon, <1>5, <2>1 DEF GetSymbolId
  <2>3. g # NoId
    BY <1>5, NoIdIsNone, Zenon
  <2> HIDE DEF c, f
  <2>4. Rel(CallRow(f, c)) = "DirectCall" /\ Subj(CallRow(f, c)) = f /\ Obj(CallRow(f, c)) = g
    BY Zenon, <2>2, <2>3 DEF CallRow, Rel, Subj, Obj
  <2> QED
    BY Zenon, <1>4, <1>5, <2>4 DEF Rows, f
<1>6. CASE ~(p[f][i].op = "call" /\ g \in Function)
  <2>1. c.ep = "UNKNOWN" \/ c.callee = NoId
    <3>1. CASE p[f][i].op = "icall"
      BY Zenon, <3>1 DEF Direct
    <3>2. CASE p[f][i].op = "call"
      <4>1. \E x \in p[f][i].to : p[f][i].to = {x}
        BY <1>1, <3>2, Zenon DEF IsProgram
      <4>2. g \in p[f][i].to
        BY Zenon DEF Code
      <4>3. Direct(p[f][i]) /\ Target(p[f][i]) = g
        BY Zenon, <3>2, <4>1, <4>2 DEF Direct, Target
      <4> QED
        BY ZenonT(60), <1>6, <3>2, <4>3 DEF GetSymbolId
    <3> QED
      BY Zenon, <1>1, <3>1, <3>2
  <2> HIDE DEF c, f
  <2>2. Rel(CallRow(f, c)) = "UnknownCall" /\ Subj(CallRow(f, c)) = f
    BY Zenon, <2>1 DEF CallRow, Rel, Subj
  <2>3. CallRow(f, c) \in Whole(S, "effects")
    BY Zenon, <1>4 DEF Kinds
  <2> QED
    BY Zenon, <2>2, <2>3 DEF Rows, f
<1> QED
  BY Zenon, <1>5, <1>6

\* The local pass states every store.
LEMMA StoresStated ==
    ASSUME NEW p, NEW ticks, NEW s \in At(p, {"store"})
    PROVE  \E r \in Rows(Whole(Summaries(p, ticks), "memory-effects"), "DirectWrite") :
              Subj(r) = s[1] /\ Obj(r) = LocationId(LocationFor(Code(p, s), s, TRUE))
<1> DEFINE S == Summaries(p, ticks)
           f == s[1]
           i == s[2]
           e == [kind |-> CASE p[f][i].op = "load" -> "READ"
                            [] p[f][i].op = "store" -> "WRITE"
                            [] OTHER -> "UNKNOWN",
                 loc  |-> LocationFor(p[f][i], <<f, i>>, TRUE),
                 ep   |-> "MUST",
                 prov |-> "none"]
<1>1. f \in Function /\ i \in DOMAIN p[f] /\ p[f][i].op = "store" /\ s = <<f, i>>
  BY DEF At
<1>2. e \in ExtractMemoryEffectsV2(p, f)
  <2>1. i \in {j \in DOMAIN p[f] : p[f][j].op # "value"}
    BY Zenon, <1>1
  <2> HIDE DEF i, f
  <2> QED
    BY <2>1, Zenon DEF ExtractMemoryEffectsV2
<1>3. e.kind = "WRITE" /\ e.loc = LocationFor(Code(p, s), s, TRUE)
  BY <1>1, Zenon DEF Code
<1>4. e \in S[f].effects
  <2> DEFINE z == S[f]
             facts == MapSvfFacts(p, ticks)
  <2>1. SummaryOf(p, facts, f, z)
    BY Zenon, <1>1, SummaryIs
  <2> HIDE DEF z, facts, e
  <2>2. e \in z.effects
    BY <1>2, <2>1, Zenon DEF SummaryOf
  <2> QED
    BY Zenon, <2>2 DEF z
<1> HIDE DEF e, S, f
<1>5. MemoryRow(f, e) \in LocalRows(S[f], f, "memory-effects")
  <2>1. e \in MemoryEffectsOf(S[f])
    BY Zenon, <1>3, <1>4 DEF MemoryEffectsOf
  <2> QED
    BY Zenon, <2>1 DEF LocalRows
<1>6. MemoryRow(f, e) \in Whole(S, "memory-effects")
  <2>1. "memory-effects" \in Kinds
    BY Zenon DEF Kinds
  <2> QED
    BY <1>1, <1>5, <2>1, WholeIs, Zenon
<1>7. /\ Rel(MemoryRow(f, e)) = "DirectWrite" /\ Subj(MemoryRow(f, e)) = f
      /\ Obj(MemoryRow(f, e)) = LocationId(e.loc)
  BY Zenon, <1>3 DEF MemoryRow, Rel, Subj, Obj
<1> QED
  BY <1>3, <1>6, <1>7, Zenon DEF Rows, S, f

----------------------------------------------------------------------------
(* What one evaluation of the whole program derives.                       *)

\* The facts of a component about the whole program.
WholeFacts(sm, comp) == Models(comp, Whole(sm, comp)) \cup Marks(Models(comp, Whole(sm, comp)))

ReachFact(sm, f, g) == \E r \in WholeFacts(sm, "reachability") : Subj(r) = f /\ Obj(r) = g
WriteFact(sm, f, l) ==
    \E r \in WholeFacts(sm, "memory-effects") : Rel(r) = "MayWrite" /\ Subj(r) = f /\ Obj(r) = l
UnknownFact(sm, f) == \E r \in WholeFacts(sm, "effects") : Rel(r) = "UnknownEffect" /\ Subj(r) = f

\* The facts of a relation are the least model of its domain.
LEMMA WholeModel ==
    ASSUME NEW p, IsProgram(p), NEW ticks, NEW comp \in Kinds, NEW d \in ComponentDomains(comp)
    PROVE  /\ IsFiniteSet(Whole(Summaries(p, ticks), comp))
           /\ \A r : r \in LeastModel(d, Whole(Summaries(p, ticks), comp)) <=>
                     r \in WholeFacts(Summaries(p, ticks), comp) /\ Rel(r) = d.derived
<1> DEFINE W == Whole(Summaries(p, ticks), comp)
<1>1. IsFiniteSet(W)
  BY FS_EmptySet, RowsFinite, Zenon DEF Whole
<1> HIDE DEF W
<1> DEFINE U == {Subj(r) : r \in Models(comp, W) \cup Marks(Models(comp, W))}
<1>2. Exact(comp, W, U) = Models(comp, W) \cup Marks(Models(comp, W))
  BY Zenon DEF Exact
<1>3. Rows(Exact(comp, W, U), d.derived) = {r \in LeastModel(d, W) : Subj(r) \in U}
  BY SMTT(30), <1>1, ExactOfDomain
<1>4. \A r \in LeastModel(d, W) : r \in Models(comp, W)
  BY Zenon DEF Models
<1>5. \A r \in LeastModel(d, W) : Subj(r) \in U
  BY <1>4, Zenon
<1> HIDE DEF U
<1>6. \A r : r \in LeastModel(d, W) <=> r \in Models(comp, W) \cup Marks(Models(comp, W)) /\ Rel(r) = d.derived
  BY Zenon, <1>2, <1>3, <1>5 DEF Rows
<1> QED
  BY <1>1, <1>6, Zenon DEF W, WholeFacts

\* The three domains, and the relations of each.
dReach == [base |-> {"DirectCall"}, support |-> "SupportReachableCall",
           derived |-> "ReachableCall", all |-> FALSE]
dWrite == [base |-> {"DirectWrite"}, support |-> "SupportMayWrite",
           derived |-> "MayWrite", all |-> FALSE]
dUnknown == [base |-> {"UnknownCall", "UnsupportedFeature"},
             support |-> "SupportUnknownEffect", derived |-> "UnknownEffect", all |-> TRUE]

\* They are the domains of their components.
LEMMA DomainsAre ==
    /\ {"reachability", "memory-effects", "effects"} \subseteq Kinds
    /\ ComponentDomains("reachability") = {dReach}
    /\ dWrite \in ComponentDomains("memory-effects")
    /\ dUnknown \in ComponentDomains("effects")
<1>1. {"reachability", "memory-effects", "effects"} \subseteq Kinds
  BY Zenon DEF Kinds
<1>2. ComponentDomains("reachability") = {dReach}
  BY Zenon DEF ComponentDomains, dReach
<1>3. dWrite \in ComponentDomains("memory-effects")
  BY Zenon DEF ComponentDomains, dWrite
<1>4. dUnknown \in ComponentDomains("effects")
  BY Zenon DEF ComponentDomains, dUnknown
<1> QED
  BY Zenon, <1>1, <1>2, <1>3, <1>4

\* What the rules of a domain give: the base rows, and along every call what
\* holds of the callee.
LEMMA WholeClosed ==
    ASSUME NEW p, IsProgram(p), NEW ticks, NEW comp \in Kinds, comp # "flow",
           NEW d \in ComponentDomains(comp)
    PROVE  LET W == Whole(Summaries(p, ticks), comp)
               M == LeastModel(d, W)
           IN  /\ \A b \in W : Rel(b) \in d.base => Renamed(b, d.derived) \in M
               /\ \A x \in Rows(W, "DirectCall") : \A y \in M : Obj(x) = Subj(y) => Join(d, x, y) \in M
               /\ \A T \in SUBSET M :
                    /\ \A b \in W : Rel(b) \in d.base => Renamed(b, d.derived) \in T
                    /\ \A x \in Rows(W, "DirectCall") : \A y \in T : Obj(x) = Subj(y) => Join(d, x, y) \in T
                    => T = M
<1> DEFINE W == Whole(Summaries(p, ticks), comp)
           M == LeastModel(d, W)
<1>1. IsFiniteSet(W)
  BY WholeModel, Zenon
<1>2. Rows(W, d.support) = {} /\ d.derived # "GlobalFlow"
  BY Zenon, NoSupport, DomainNames
<1> HIDE DEF W
<1>3. ClosedUnder(d, W, M) /\ \A T : ClosedUnder(d, W, T) => M \subseteq T
  BY Zenon, <1>1, LeastModelIsLeast
<1> HIDE DEF M
<1>4. \A T : ClosedUnder(d, W, T) <=>
        /\ \A b \in W : Rel(b) \in d.base => Renamed(b, d.derived) \in T
        /\ \A x \in Rows(W, "DirectCall") : \A y \in T : Obj(x) = Subj(y) => Join(d, x, y) \in T
  BY Zenon, <1>2 DEF ClosedUnder, Steps
<1>5. \A T \in SUBSET M : ClosedUnder(d, W, T) => T = M
  BY Zenon, <1>3
<1> QED
  BY <1>3, <1>4, <1>5, Zenon DEF W, M

\* Unknown effects: a function with an unknown call has one, and so has every
\* function that calls one that has.
LEMMA UnknownSpreads ==
    ASSUME NEW p, IsProgram(p), NEW ticks
    PROVE  LET S == Summaries(p, ticks)
           IN  /\ \A r \in Rows(Whole(S, "effects"), "UnknownCall") : UnknownFact(S, Subj(r))
               /\ \A x \in Rows(Whole(S, "effects"), "DirectCall") :
                    UnknownFact(S, Obj(x)) => UnknownFact(S, Subj(x))
<1> DEFINE S == Summaries(p, ticks)
           W == Whole(S, "effects")
           M == LeastModel(dUnknown, W)
<1>1. dUnknown.derived = "UnknownEffect" /\ "UnknownCall" \in dUnknown.base
  BY Zenon DEF dUnknown
<1>2. "effects" \in Kinds /\ "effects" # "flow" /\ dUnknown \in ComponentDomains("effects")
  BY ZenonT(60), DomainsAre
<1>3. /\ \A b \in W : Rel(b) \in dUnknown.base => Renamed(b, "UnknownEffect") \in M
      /\ \A x \in Rows(W, "DirectCall") : \A y \in M : Obj(x) = Subj(y) => Join(dUnknown, x, y) \in M
  BY Zenon, <1>1, <1>2, WholeClosed
<1>4. \A r : r \in M <=> r \in WholeFacts(S, "effects") /\ Rel(r) = "UnknownEffect"
  BY SMTT(30), <1>1, <1>2, WholeModel
<1> HIDE DEF W, M, S
<1>5. \A f : UnknownFact(S, f) <=> \E r \in M : Subj(r) = f
  BY <1>4, Zenon DEF UnknownFact
<1>6. \A r \in Rows(W, "UnknownCall") : UnknownFact(S, Subj(r))
  <2> SUFFICES ASSUME NEW r \in W, Rel(r) = "UnknownCall" PROVE UnknownFact(S, Subj(r))
    BY Zenon DEF Rows
  <2>1. Renamed(r, "UnknownEffect") \in M
    BY Zenon, <1>1, <1>3
  <2> QED
    BY <1>5, <2>1, RenamedFields, Zenon
<1>7. \A x \in Rows(W, "DirectCall") : UnknownFact(S, Obj(x)) => UnknownFact(S, Subj(x))
  <2> SUFFICES ASSUME NEW x \in Rows(W, "DirectCall"), NEW y \in M, Subj(y) = Obj(x)
               PROVE  UnknownFact(S, Subj(x))
    BY <1>5, Zenon
  <2>1. Join(dUnknown, x, y) \in M
    BY Zenon, <1>3
  <2>2. Subj(Join(dUnknown, x, y)) = Subj(x)
    BY SMTT(30), JoinFields
  <2> QED
    BY <1>5, <2>1, <2>2, Zenon
<1> QED
  BY <1>6, <1>7, Zenon DEF W, S

\* What the reachability component derives is the one relation.
LEMMA WholeReach ==
    ASSUME NEW p, IsProgram(p), NEW ticks
    PROVE  WholeFacts(Summaries(p, ticks), "reachability")
             = LeastModel(dReach, Whole(Summaries(p, ticks), "reachability"))
<1> DEFINE S == Summaries(p, ticks)
           W == Whole(S, "reachability")
           M == LeastModel(dReach, W)
<1>1. dReach.derived = "ReachableCall"
  BY Zenon DEF dReach
<1>2. "reachability" \in Kinds /\ dReach \in ComponentDomains("reachability")
  BY Zenon, DomainsAre
<1>3. \A r : r \in M <=> r \in WholeFacts(S, "reachability") /\ Rel(r) = "ReachableCall"
  BY SMTT(30), <1>1, <1>2, WholeModel
<1>4. Models("reachability", W) = M
  BY Zenon, DomainsAre DEF Models
<1>5. \A r \in M : Rel(r) # "UnknownEffect"
  BY Zenon, <1>3
<1> HIDE DEF M
<1>6. Marks(M) = {}
  BY Zenon, <1>5 DEF Marks, Rows
<1> QED
  BY Zenon, <1>4, <1>6 DEF WholeFacts, M

\* Reachability: a call is a fact, and the facts are transitive.
LEMMA ReachIsTransitive ==
    ASSUME NEW p, IsProgram(p), NEW ticks
    PROVE  LET S == Summaries(p, ticks)
           IN  /\ \A x \in Rows(Whole(S, "reachability"), "DirectCall") : ReachFact(S, Subj(x), Obj(x))
               /\ \A f, g, h : ReachFact(S, f, g) /\ ReachFact(S, g, h) => ReachFact(S, f, h)
<1> DEFINE S == Summaries(p, ticks)
           W == Whole(S, "reachability")
           M == LeastModel(dReach, W)
<1>1. dReach.derived = "ReachableCall" /\ dReach.base = {"DirectCall"}
  BY Zenon DEF dReach
<1>2. "reachability" \in Kinds /\ "reachability" # "flow" /\ dReach \in ComponentDomains("reachability")
  BY Zenon, DomainsAre
<1>3. /\ \A b \in W : Rel(b) \in dReach.base => Renamed(b, dReach.derived) \in M
      /\ \A x \in Rows(W, "DirectCall") : \A y \in M : Obj(x) = Subj(y) => Join(dReach, x, y) \in M
      /\ \A T \in SUBSET M :
           /\ \A b \in W : Rel(b) \in dReach.base => Renamed(b, dReach.derived) \in T
           /\ \A x \in Rows(W, "DirectCall") : \A y \in T : Obj(x) = Subj(y) => Join(dReach, x, y) \in T
           => T = M
  BY <1>2, WholeClosed, Zenon
<1>4. WholeFacts(S, "reachability") = M
  BY WholeReach, Zenon
<1> HIDE DEF W, M, S
<1>5. \A f, g : ReachFact(S, f, g) <=> \E r \in M : Subj(r) = f /\ Obj(r) = g
  BY <1>4, Zenon DEF ReachFact
<1>6. \A x \in Rows(W, "DirectCall") : ReachFact(S, Subj(x), Obj(x))
  <2> SUFFICES ASSUME NEW x \in W, Rel(x) = "DirectCall" PROVE ReachFact(S, Subj(x), Obj(x))
    BY Zenon DEF Rows
  <2>1. Renamed(x, dReach.derived) \in M
    BY Zenon, <1>1, <1>3
  <2> QED
    BY <1>5, <2>1, RenamedFields, Zenon
<1>7. ASSUME NEW x \in Rows(W, "DirectCall"), NEW g, ReachFact(S, Obj(x), g)
      PROVE  ReachFact(S, Subj(x), g)
  <2>1. PICK y \in M : Subj(y) = Obj(x) /\ Obj(y) = g
    BY <1>5, <1>7, Zenon
  <2>2. Join(dReach, x, y) \in M
    BY Zenon, <1>3, <2>1
  <2>3. Subj(Join(dReach, x, y)) = Subj(x) /\ Obj(Join(dReach, x, y)) = Obj(y)
    BY ZenonT(60), JoinFields
  <2> QED
    BY <1>5, <2>1, <2>2, <2>3, Zenon
<1> DEFINE T == {r \in M : \A g : ReachFact(S, Obj(r), g) => ReachFact(S, Subj(r), g)}
<1>8. \A b \in W : Rel(b) \in dReach.base => Renamed(b, dReach.derived) \in T
  <2> SUFFICES ASSUME NEW b \in W, Rel(b) = "DirectCall" PROVE Renamed(b, dReach.derived) \in T
    BY Zenon, <1>1
  <2>1. b \in Rows(W, "DirectCall")
    BY Zenon DEF Rows
  <2>2. Renamed(b, dReach.derived) \in M
    BY Zenon, <1>1, <1>3
  <2> QED
    BY <1>7, <2>1, <2>2, RenamedFields, Zenon
<1>9. \A x \in Rows(W, "DirectCall") : \A y \in T : Obj(x) = Subj(y) => Join(dReach, x, y) \in T
  <2> SUFFICES ASSUME NEW x \in Rows(W, "DirectCall"), NEW y \in T, Obj(x) = Subj(y)
               PROVE  Join(dReach, x, y) \in T
    BY Zenon
  <2>1. Join(dReach, x, y) \in M
    BY Zenon, <1>3
  <2>2. ASSUME NEW g, ReachFact(S, Obj(y), g) PROVE ReachFact(S, Subj(x), g)
    <3>1. ReachFact(S, Obj(x), g)
      BY Zenon, <2>2
    <3> QED
      BY <1>7, <3>1, Zenon
  <2>3. Subj(Join(dReach, x, y)) = Subj(x) /\ Obj(Join(dReach, x, y)) = Obj(y)
    BY SMTT(30), JoinFields
  <2> QED
    BY <2>1, <2>2, <2>3, Zenon
<1>10. T = M
  <2>1. T \in SUBSET M
    BY Zenon
  <2> HIDE DEF T
  <2> QED
    BY <1>3, <1>8, <1>9, <2>1, Zenon
<1>11. \A f, g, h : ReachFact(S, f, g) /\ ReachFact(S, g, h) => ReachFact(S, f, h)
  BY SMTT(30), <1>5, <1>10
<1> QED
  BY <1>6, <1>11, Zenon DEF W, S

\* Every component gets the same call rows.
LEMMA CallRowsAlike ==
    ASSUME NEW sm, NEW a \in Kinds, a # "flow", NEW b \in Kinds, NEW r \in Rows(Whole(sm, a), "DirectCall")
    PROVE  r \in Rows(Whole(sm, b), "DirectCall")
<1>1. r \in Whole(sm, a) /\ Rel(r) = "DirectCall"
  BY Zenon DEF Rows
<1>2. PICK f \in Function : r \in LocalRows(sm[f], f, a)
  BY <1>1, WholeIs, Zenon
<1>3. r \in {CallRow(f, c) : c \in sm[f].calls}
  <2>1. \A e : Rel(MemoryRow(f, e)) # "DirectCall"
    BY Zenon DEF MemoryRow, Rel
  <2>2. \A u : Rel(FeatureRow(f, u)) # "DirectCall"
    BY Zenon DEF FeatureRow, Rel
  <2> QED
    BY Zenon, <1>1, <1>2, <2>1, <2>2 DEF LocalRows, Kinds
<1>4. r \in LocalRows(sm[f], f, b)
  BY <1>3, Zenon DEF LocalRows
<1>5. r \in Whole(sm, b)
  BY <1>4, WholeIs, Zenon
<1> QED
  BY Zenon, <1>1, <1>5 DEF Rows

\* Writes: a stated write is a fact, and along what a function reaches the
\* facts about writes hold of the function too.
LEMMA WritesSpread ==
    ASSUME NEW p, IsProgram(p), NEW ticks
    PROVE  LET S == Summaries(p, ticks)
           IN  /\ \A r \in Rows(Whole(S, "memory-effects"), "DirectWrite") : WriteFact(S, Subj(r), Obj(r))
               /\ \A f, g, l : ReachFact(S, f, g) /\ WriteFact(S, g, l) => WriteFact(S, f, l)
<1> DEFINE S == Summaries(p, ticks)
           W == Whole(S, "memory-effects")
           M == LeastModel(dWrite, W)
           V == Whole(S, "reachability")
           N == LeastModel(dReach, V)
<1>1. /\ dWrite.derived = "MayWrite" /\ dWrite.base = {"DirectWrite"}
      /\ dReach.derived = "ReachableCall" /\ dReach.base = {"DirectCall"}
  BY Zenon DEF dWrite, dReach
<1>2. /\ "memory-effects" \in Kinds /\ "memory-effects" # "flow" /\ dWrite \in ComponentDomains("memory-effects")
      /\ "reachability" \in Kinds /\ "reachability" # "flow" /\ dReach \in ComponentDomains("reachability")
  BY Zenon, DomainsAre
<1>3. /\ \A b \in W : Rel(b) \in dWrite.base => Renamed(b, dWrite.derived) \in M
      /\ \A x \in Rows(W, "DirectCall") : \A y \in M : Obj(x) = Subj(y) => Join(dWrite, x, y) \in M
  BY Zenon, <1>2, WholeClosed
<1>4. \A T \in SUBSET N :
        /\ \A b \in V : Rel(b) \in dReach.base => Renamed(b, dReach.derived) \in T
        /\ \A x \in Rows(V, "DirectCall") : \A y \in T : Obj(x) = Subj(y) => Join(dReach, x, y) \in T
        => T = N
  BY <1>2, WholeClosed, Zenon
<1>5. /\ \A b \in V : Rel(b) \in dReach.base => Renamed(b, dReach.derived) \in N
      /\ \A x \in Rows(V, "DirectCall") : \A y \in N : Obj(x) = Subj(y) => Join(dReach, x, y) \in N
  BY Zenon, <1>2, WholeClosed
<1>6. \A r : r \in M <=> r \in WholeFacts(S, "memory-effects") /\ Rel(r) = "MayWrite"
  BY SMTT(30), <1>1, <1>2, WholeModel
<1>7. WholeFacts(S, "reachability") = N
  BY WholeReach, Zenon
<1>8. \A x \in Rows(V, "DirectCall") : x \in Rows(W, "DirectCall")
  BY <1>2, CallRowsAlike, Zenon
<1> HIDE DEF W, M, V, N, S
<1>9. \A f, l : WriteFact(S, f, l) <=> \E r \in M : Subj(r) = f /\ Obj(r) = l
  BY Zenon, <1>6 DEF WriteFact
<1>10. \A f, g : ReachFact(S, f, g) <=> \E r \in N : Subj(r) = f /\ Obj(r) = g
  BY <1>7, Zenon DEF ReachFact
<1>11. \A r \in Rows(W, "DirectWrite") : WriteFact(S, Subj(r), Obj(r))
  <2> SUFFICES ASSUME NEW r \in W, Rel(r) = "DirectWrite" PROVE WriteFact(S, Subj(r), Obj(r))
    BY Zenon DEF Rows
  <2>1. Renamed(r, dWrite.derived) \in M
    BY Zenon, <1>1, <1>3
  <2> QED
    BY <1>9, <2>1, RenamedFields, Zenon
<1>12. ASSUME NEW x \in Rows(V, "DirectCall"), NEW l, WriteFact(S, Obj(x), l)
       PROVE  WriteFact(S, Subj(x), l)
  <2>1. PICK y \in M : Subj(y) = Obj(x) /\ Obj(y) = l
    BY <1>9, <1>12, Zenon
  <2>2. Join(dWrite, x, y) \in M
    BY Zenon, <1>3, <1>8, <2>1
  <2>3. Subj(Join(dWrite, x, y)) = Subj(x) /\ Obj(Join(dWrite, x, y)) = Obj(y)
    BY Zenon, JoinFields
  <2> QED
    BY <1>9, <2>1, <2>2, <2>3, Zenon
<1> DEFINE T == {r \in N : \A l : WriteFact(S, Obj(r), l) => WriteFact(S, Subj(r), l)}
<1>13. \A b \in V : Rel(b) \in dReach.base => Renamed(b, dReach.derived) \in T
  <2> SUFFICES ASSUME NEW b \in V, Rel(b) = "DirectCall" PROVE Renamed(b, dReach.derived) \in T
    BY Zenon, <1>1
  <2>1. b \in Rows(V, "DirectCall")
    BY Zenon DEF Rows
  <2>2. Renamed(b, dReach.derived) \in N
    BY Zenon, <1>1, <1>5
  <2> QED
    BY <1>12, <2>1, <2>2, RenamedFields, Zenon
<1>14. \A x \in Rows(V, "DirectCall") : \A y \in T : Obj(x) = Subj(y) => Join(dReach, x, y) \in T
  <2> SUFFICES ASSUME NEW x \in Rows(V, "DirectCall"), NEW y \in T, Obj(x) = Subj(y)
               PROVE  Join(dReach, x, y) \in T
    BY Zenon
  <2>1. Join(dReach, x, y) \in N
    BY ZenonT(60), <1>5
  <2>2. ASSUME NEW l, WriteFact(S, Obj(y), l) PROVE WriteFact(S, Subj(x), l)
    <3>1. WriteFact(S, Obj(x), l)
      BY Zenon, <2>2
    <3> QED
      BY <1>12, <3>1, Zenon
  <2>3. Subj(Join(dReach, x, y)) = Subj(x) /\ Obj(Join(dReach, x, y)) = Obj(y)
    BY JoinFields
  <2> QED
    BY <2>1, <2>2, <2>3, Zenon
<1>15. T = N
  <2>1. T \in SUBSET N
    BY Zenon
  <2> HIDE DEF T
  <2> QED
    BY <1>4, <1>13, <1>14, <2>1, Zenon
<1>16. \A f, g, l : ReachFact(S, f, g) /\ WriteFact(S, g, l) => WriteFact(S, f, l)
  BY SMTT(30), <1>10, <1>15
<1> QED
  BY <1>11, <1>16, Zenon DEF W, S

\* A function without an unknown effect calls definitions only, none of them
\* with an unknown effect, and the facts state that it reaches them.
LEMMA KnownCalls ==
    ASSUME NEW p, IsProgram(p), NEW ticks, NEW s \in At(p, {"call", "icall"}), NEW g \in Code(p, s).to,
           ~UnknownFact(Summaries(p, ticks), s[1])
    PROVE  ~UnknownFact(Summaries(p, ticks), g) /\ ReachFact(Summaries(p, ticks), s[1], g)
<1> DEFINE S == Summaries(p, ticks)
<1>1. \A r \in Rows(Whole(S, "effects"), "UnknownCall") : Subj(r) # s[1]
  BY UnknownSpreads, Zenon
<1>2. \A comp \in Kinds : \E r \in Rows(Whole(S, comp), "DirectCall") : Subj(r) = s[1] /\ Obj(r) = g
  BY <1>1, CallsStated, Zenon
<1>3. PICK x \in Rows(Whole(S, "effects"), "DirectCall") : Subj(x) = s[1] /\ Obj(x) = g
  BY Zenon, <1>2 DEF Kinds
<1>4. ~UnknownFact(S, g)
  BY <1>3, UnknownSpreads, Zenon
<1>5. PICK y \in Rows(Whole(S, "reachability"), "DirectCall") : Subj(y) = s[1] /\ Obj(y) = g
  BY Zenon, <1>2 DEF Kinds
<1>6. ReachFact(S, s[1], g)
  BY <1>5, ReachIsTransitive, Zenon
<1> QED
  BY Zenon, <1>4, <1>6

\* A fact is about a function.
LEMMA FactsOfFunctions ==
    ASSUME NEW p, IsProgram(p), NEW ticks, NEW comp \in Kinds, comp # "flow",
           NEW r \in WholeFacts(Summaries(p, ticks), comp)
    PROVE  Subj(r) \in Function
<1> DEFINE S == Summaries(p, ticks)
           W == Whole(S, comp)
           M == Models(comp, W)
<1>1. \A b \in W : Subj(b) \in Function
  <2> HIDE DEF S
  <2>1. \A f \in Function : \A b \in LocalRows(S[f], f, comp) : Subj(b) = f
    BY LocalRowsOf, Zenon
  <2>2. \A b \in W : \E f \in Function : b \in LocalRows(S[f], f, comp)
    BY WholeIs, Zenon
  <2> QED
    BY <2>1, <2>2, Zenon
<1>2. IsFiniteSet(W)
  BY FS_EmptySet, RowsFinite, Zenon DEF Whole
<1> HIDE DEF S, W
<1>3. ASSUME NEW x \in M PROVE Subj(x) \in Function
  <2>1. PICK d \in ComponentDomains(comp) : x \in LeastModel(d, W)
    BY Zenon DEF Models
  <2>2. x \in DerivedRows(d, W)
    BY <1>2, <2>1, LeastModelIsLeast, Zenon
  <2>3. Sources(d, W) \cup Steps(d, W, {}) \subseteq W
    BY Zenon DEF Sources, Steps, Rows
  <2>4. Subj(x) \in {Subj(b) : b \in Sources(d, W) \cup Steps(d, W, {})}
    BY Zenon, <2>2 DEF DerivedRows, Subj
  <2> QED
    BY Zenon, <1>1, <2>3, <2>4
<1>4. ASSUME NEW x \in Marks(M) PROVE Subj(x) \in Function
  <2>1. PICK y \in M : x = <<"SoundnessCoverage", Subj(y), "incomplete", "MUST", <<>>>>
    <3> HIDE DEF M
    <3> QED
      BY Zenon DEF Marks, Rows
  <2>2. Subj(x) = Subj(y)
    BY Zenon, <2>1 DEF Subj
  <2> QED
    BY <1>3, <2>2, Zenon
<1>5. r \in M \cup Marks(M)
  BY Zenon DEF WholeFacts, W, S
<1> QED
  BY <1>3, <1>4, <1>5, Zenon

----------------------------------------------------------------------------
(* What the engines derive.                                                *)

\* Either engine derives the facts that the Souffle rules derive, and the
\* canonicalizer publishes them as they are.
LEMMA CanonicalFacts ==
    ASSUME NEW roots, NEW raw
    PROVE  Canonicalize(roots, raw).facts = raw.results
<1> DEFINE D == raw.derivations
           F(cost) == [ok     |-> WellFormed(roots, raw.results, D) /\ raw.results \subseteq Proven(cost),
                       facts  |-> raw.results,
                       proofs |-> {SelectProof(cost, D, r) : r \in raw.results \cap Proven(cost)}]
           t == RelaxCosts(roots, D)
<1>1. Canonicalize(roots, raw) = Once(t, F)
  BY Zenon DEF Canonicalize
<1>2. \A cost : F(cost).facts = raw.results
  BY Zenon
<1> HIDE DEF F, t
<1>3. Once(t, F) = F(t)
  BY Zenon DEF Once
<1> QED
  BY <1>1, <1>2, <1>3, Zenon

LEMMA CppDerives ==
    ASSUME NEW kind \in Kinds, NEW rows, IsFiniteSet(rows)
    PROVE  CppExecute(kind, rows).results = Results(SouffleEvaluate(kind, rows))
<1> DEFINE F(D) == [ok |-> TRUE, results |-> Results(D), derivations |-> D]
           t == CppEvaluate(kind, rows)
<1>1. CppExecute(kind, rows) = Once(t, F)
  BY Zenon DEF CppExecute
<1>2. \A D : F(D).results = Results(D)
  BY Zenon
<1> HIDE DEF F
<1>3. Once(t, F) = F(t)
  <2> HIDE DEF t
  <2> QED
    BY Zenon DEF Once
<1>4. Results(t) = Results(SouffleEvaluate(kind, rows))
  BY EnginesDeriveTheSame, Zenon
<1> QED
  BY <1>1, <1>2, <1>3, <1>4, Zenon

LEMMA EvaluateDerives ==
    ASSUME NEW kind \in Kinds, NEW rows, IsFiniteSet(rows)
    PROVE  Evaluate(kind, rows).results = Results(SouffleEvaluate(kind, rows))
<1>1. Execute(kind, rows).results = Results(SouffleEvaluate(kind, rows))
  BY ExecuteDerives, Zenon
<1>2. CppExecute(kind, rows).results = Results(SouffleEvaluate(kind, rows))
  BY CppDerives, Zenon
<1>3. Evaluate(kind, rows) = CppExecute(kind, rows) \/ Evaluate(kind, rows) = Execute(kind, rows)
  BY Zenon DEF Evaluate
<1> QED
  BY <1>1, <1>2, <1>3, Zenon

----------------------------------------------------------------------------
(* What the program may come to run.                                       *)

\* What the calls of a program transfer control to, as pairs.
LEMMA TransfersAre ==
    ASSUME IsProgram(program)
    PROVE  /\ IsFiniteSet(Transfers)
           /\ \A x : x \in Transfers <=> \E s \in At(program, {"call", "icall"}) :
                       \E g \in Code(program, s).to : x = <<s[1], g>>
<1> DEFINE sites == At(program, {"call", "icall"})
           pairs(s) == {<<s[1], g>> : g \in Code(program, s).to}
           h == [s \in sites |-> pairs(s)]
<1>1. IsFiniteSet(sites)
  BY AtFinite, Zenon
<1>2. ASSUME NEW s \in sites PROVE IsFiniteSet(Code(program, s).to)
  <2>1. s[1] \in Function /\ s[2] \in DOMAIN program[s[1]]
    BY DEF At
  <2> QED
    BY <2>1, Zenon DEF IsProgram, Code
<1> HIDE DEF sites
<1>3. ASSUME NEW s \in sites PROVE IsFiniteSet(h[s])
  <2> DEFINE G == Code(program, s).to
             e == [g \in G |-> <<s[1], g>>]
  <2>1. IsFiniteSet(G) /\ DOMAIN e = G
    BY <1>2, Zenon
  <2>2. {e[g] : g \in G} = h[s]
    BY Zenon
  <2> HIDE DEF e, G
  <2>3. IsFiniteSet({e[g] : g \in G})
    BY <2>1, ImageFinite, Zenon
  <2> QED
    BY <2>2, <2>3, Zenon
<1>4. Transfers = UNION {h[s] : s \in sites}
  <2>1. {pairs(s) : s \in sites} = {h[s] : s \in sites}
    BY Zenon
  <2> QED
    BY <2>1, Zenon DEF Transfers, sites
<1>5. DOMAIN h = sites
  BY Zenon
<1>6. IsFiniteSet(UNION {h[s] : s \in sites})
  <2> HIDE DEF h
  <2> QED
    BY <1>1, <1>3, <1>5, UnionFinite, SMTT(30)
<1>7. \A x : x \in Transfers <=> \E s \in sites : \E g \in Code(program, s).to : x = <<s[1], g>>
  BY DEF Transfers, sites
<1> QED
  BY <1>4, <1>6, <1>7, Zenon DEF sites

\* Whatever a function without an unknown effect may come to run is a function
\* without one, and the facts state that it is reached.
LEMMA KnownReach ==
    ASSUME IsProgram(program), NEW x \in Closure(Transfers),
           ~UnknownFact(Summaries(program, clock), x[1])
    PROVE  ReachFact(Summaries(program, clock), x[1], x[2])
<1> DEFINE S == Summaries(program, clock)
           R == Transfers
           C == Closure(R)
           T == {y \in C : ~UnknownFact(S, y[1]) => ~UnknownFact(S, y[2]) /\ ReachFact(S, y[1], y[2])}
<1>1. IsFiniteSet(R) /\ \A y \in R : y = <<y[1], y[2]>>
  BY SMTT(30), TransfersAre
<1>2. /\ R \subseteq C /\ Composes(C)
      /\ \A V : R \subseteq V /\ Composes(V) => C \subseteq V
  BY <1>1, ClosureIsLeast, Zenon
<1>3. ASSUME NEW y \in R PROVE y \in T
  <2>1. PICK s \in At(program, {"call", "icall"}) : \E g \in Code(program, s).to : y = <<s[1], g>>
    BY TransfersAre, Zenon
  <2>2. PICK g \in Code(program, s).to : y[1] = s[1] /\ y[2] = g
    BY <2>1, SMTT(30)
  <2>3. ~UnknownFact(S, s[1]) => ~UnknownFact(S, g) /\ ReachFact(S, s[1], g)
    BY KnownCalls, Zenon
  <2> HIDE DEF S, R, C
  <2> QED
    BY <1>2, <2>2, <2>3, Zenon
<1> HIDE DEF R, C
<1>4. \A f, g, k : ReachFact(S, f, g) /\ ReachFact(S, g, k) => ReachFact(S, f, k)
  BY ReachIsTransitive, Zenon
<1> HIDE DEF S
<1>5. Composes(T)
  <2> SUFFICES ASSUME NEW y \in T, NEW z \in T, y[2] = z[1] PROVE <<y[1], z[2]>> \in T
    BY Zenon DEF Composes
  <2> DEFINE w == <<y[1], z[2]>>
  <2>1. w \in C
    BY <1>2, Zenon DEF Composes
  <2>2. w[1] = y[1] /\ w[2] = z[2]
    BY Zenon
  <2> HIDE DEF w
  <2>3. ~UnknownFact(S, w[1]) => ~UnknownFact(S, w[2]) /\ ReachFact(S, w[1], w[2])
    BY <1>4, <2>2, Zenon
  <2> QED
    BY <2>1, <2>3, Zenon DEF w
<1>6. x \in T
  <2> HIDE DEF T
  <2>1. R \subseteq T
    BY Zenon, <1>3
  <2>2. C \subseteq T
    BY <1>2, <1>5, <2>1, Zenon
  <2> QED
    BY <2>2, Zenon DEF C, R
<1> QED
  BY <1>6, Zenon DEF S

=============================================================================
