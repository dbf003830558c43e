----------------------- MODULE AnalysisPipelineProofs -----------------------
(***************************************************************************)
(* The analysis of one program, for every program, engine and budget: the  *)
(* components it completes derive what one evaluation of the whole program *)
(* derives, and a published run never claims less than the program does.   *)
(***************************************************************************)
EXTENDS SummaryProofs, SccGraphProofs

----------------------------------------------------------------------------
(* The completed components.                                               *)

\* The key of the k-th component: four kinds for each place of the order.
KeyAt(k) == <<order[((k - 1) \div 4) + 1], Component4[((k - 1) % 4) + 1]>>

\* A completed component has finitely many rows and the facts that the rules
\* derive from them; but for the flows these are the facts about its functions
\* that an evaluation of the whole program derives.
ResultOK(x) ==
    /\ x.key[2] \in Kinds /\ IsFiniteSet(x.roots)
    /\ x.facts = Results(SouffleEvaluate(x.key[2], x.roots))
    /\ x.key[2] # "flow" => x.facts = Exact(x.key[2], Whole(sums, x.key[2]), x.key[1])

DoneOK ==
    /\ \E S : done \in Seq(S)
    /\ Len(done) <= 4 * Len(order)
    /\ \A k \in 1 .. Len(done) : done[k].key = KeyAt(k) /\ ResultOK(done[k])

\* The summaries and the graph of the program.
Summarised ==
    /\ IsProgram(program)
    /\ sums = Summaries(program, clock)
    /\ graph = FromSummaries(sums)

\* The place of a component in the order, and that of its kind.
LEMMA Places ==
    ASSUME NEW n \in Nat, NEW m \in Nat, n < 4 * m
    PROVE  /\ (n \div 4) + 1 \in 1 .. m
           /\ (n % 4) + 1 \in 1 .. 4
           /\ \A a \in 1 .. (n \div 4) :
                /\ 4 * (a - 1) + ((n % 4) + 1) \in 1 .. n
                /\ (((4 * (a - 1) + ((n % 4) + 1)) - 1) \div 4) + 1 = a
                /\ ((4 * (a - 1) + ((n % 4) + 1)) - 1) % 4 = n % 4
OBVIOUS

\* And every pair of a place and a kind has its turn.
LEMMA AllPlaces ==
    ASSUME NEW m \in Nat, NEW a \in 1 .. m, NEW b \in 1 .. 4
    PROVE  /\ 4 * (a - 1) + b \in 1 .. (4 * m)
           /\ (((4 * (a - 1) + b) - 1) \div 4) + 1 = a
           /\ (((4 * (a - 1) + b) - 1) % 4) + 1 = b
BY SMTT(30)

\* The four kinds.
LEMMA KindsAre ==
    /\ \A b \in 1 .. 4 : Component4[b] \in Kinds
    /\ \A kind \in Kinds : \E b \in 1 .. 4 : Component4[b] = kind
BY DEF Component4, Kinds

\* What a completed component publishes is finite.
LEMMA FactsFinite ==
    ASSUME NEW x, ResultOK(x)
    PROVE  IsFiniteSet(x.facts)
<1> DEFINE kind == x.key[2]
           M == Models(kind, x.roots)
<1>1. kind \in Kinds /\ IsFiniteSet(x.roots) /\ x.facts = Results(SouffleEvaluate(kind, x.roots))
  BY Zenon DEF ResultOK
<1> HIDE DEF kind
<1>2. x.facts = M \cup Marks(M)
  BY <1>1, SouffleDerives, Zenon
<1>3. IsFiniteSet(M) /\ IsFiniteSet(Marks(M))
  BY <1>1, ModelsFinite, Zenon
<1> HIDE DEF M
<1> QED
  BY <1>2, <1>3, FS_Union, Zenon

\* The support of a component is finite.
LEMMA SupportIsFinite ==
    ASSUME DoneOK, NEW c, NEW kind
    PROVE  IsFiniteSet(SuccessorSupport(c, kind))
<1> DEFINE I == {k \in 1 .. Len(done) : done[k].key[1] \in Successors(c) /\ done[k].key[2] = kind}
           h == [k \in I |-> done[k].facts]
<1>1. Len(done) \in Nat /\ DOMAIN done = 1 .. Len(done)
  BY DEF DoneOK
<1>2. IsFiniteSet(I)
  <2>1. I \in SUBSET (1 .. Len(done))
    BY Zenon
  <2> HIDE DEF I
  <2> QED
    <3>1. IsFiniteSet(1 .. Len(done))
      BY <1>1, FS_Interval, SMTT(30)
    <3> QED
      BY <2>1, <3>1, FS_Subset, Zenon
<1>3. \A k \in I : IsFiniteSet(h[k])
  BY FactsFinite, Zenon DEF DoneOK
<1>4. SuccessorSupport(c, kind) = UNION {h[k] : k \in I}
  <2>1. Range(done) = {done[k] : k \in 1 .. Len(done)}
    BY <1>1, Zenon DEF Range
  <2>2. SuccessorSupport(c, kind) = UNION {done[k].facts : k \in I}
    BY SMTT(30), <2>1 DEF SuccessorSupport
  <2>3. {done[k].facts : k \in I} = {h[k] : k \in I}
    BY Zenon
  <2> QED
    BY <2>2, <2>3, Zenon
<1>5. DOMAIN h = I
  BY Zenon
<1> HIDE DEF h, I
<1> QED
  <2>1. IsFiniteSet(UNION {h[k] : k \in I})
    BY <1>2, <1>3, <1>5, UnionFinite, SMTT(30)
  <2> QED
    BY <1>4, <2>1, Zenon

\* The facts of the successors, all of them, are the support of a component.
LEMMA SupportIsExact ==
    ASSUME Layers, DoneOK, Len(done) < 4 * Len(order), NextKey[2] # "flow"
    PROVE  SuccessorSupport(NextKey[1], NextKey[2])
             = Exact(NextKey[2], Whole(sums, NextKey[2]), UNION Successors(NextKey[1]))
<1> DEFINE n == Len(done)
           i == (n \div 4) + 1
           j == (n % 4) + 1
           c == order[i]
           kind == Component4[j]
           W == Whole(sums, kind)
<1>1. n \in Nat /\ DOMAIN done = 1 .. n /\ Len(order) \in Nat /\ n < 4 * Len(order)
  BY DEF DoneOK, Layers
<1>2. NextKey[1] = c /\ NextKey[2] = kind
  BY Zenon DEF NextKey
<1>3. /\ i \in 1 .. Len(order) /\ j \in 1 .. 4
      /\ \A a \in 1 .. (n \div 4) :
           /\ 4 * (a - 1) + j \in 1 .. n
           /\ (((4 * (a - 1) + j) - 1) \div 4) + 1 = a
           /\ (((4 * (a - 1) + j) - 1) % 4) + 1 = j
  <2>1. \A a \in 1 .. (n \div 4) :
          /\ 4 * (a - 1) + j \in 1 .. n
          /\ (((4 * (a - 1) + j) - 1) \div 4) + 1 = a
          /\ ((4 * (a - 1) + j) - 1) % 4 = n % 4
    BY <1>1, Places, Zenon
  <2>2. i \in 1 .. Len(order) /\ j \in 1 .. 4
    BY <1>1, Places, Zenon
  <2> QED
    BY <2>1, <2>2, Zenon
<1>4. \A d \in Successors(c) : \E m \in 1 .. (n \div 4) : d = order[m]
  <2>1. \A d \in Successors(c) : \E m \in 1 .. (i - 1) : d = order[m]
    BY <1>3, SuccessorsBefore, Zenon
  <2>2. i - 1 = n \div 4
    BY SMTT(30), <1>1
  <2> QED
    BY <2>1, <2>2, Zenon
<1>5. Range(done) = {done[k] : k \in 1 .. n}
  BY <1>1, Zenon DEF Range
<1> HIDE DEF n, i, j
<1>6. ASSUME NEW k \in 1 .. n, done[k].key[2] = kind, kind # "flow"
      PROVE  done[k].facts = Exact(kind, W, done[k].key[1])
  BY <1>6, Zenon DEF DoneOK, ResultOK, n
<1>7. ASSUME NEW d \in Successors(c)
      PROVE  \E k \in 1 .. n : done[k].key[1] = d /\ done[k].key[2] = kind
  <2>1. PICK m \in 1 .. (n \div 4) : d = order[m]
    BY ZenonT(60), <1>4
  <2> DEFINE k == 4 * (m - 1) + j
  <2>2. k \in 1 .. n /\ ((k - 1) \div 4) + 1 = m /\ ((k - 1) % 4) + 1 = j
    BY <1>3, Zenon
  <2> HIDE DEF k
  <2>3. done[k].key = <<order[m], Component4[j]>>
    BY <2>2, Zenon DEF DoneOK, KeyAt, n
  <2>4. done[k].key[1] = order[m] /\ done[k].key[2] = Component4[j]
    BY <2>3, SMTT(30)
  <2> QED
    BY <2>1, <2>2, <2>4, Zenon
<1>8. kind # "flow"
  BY Zenon, <1>2
<1> HIDE DEF c, kind, W
<1> DEFINE X == SuccessorSupport(c, kind)
           Y == Exact(kind, W, UNION Successors(c))
<1>9. ASSUME NEW r PROVE r \in X <=> \E k \in 1 .. n : /\ done[k].key[1] \in Successors(c) /\ done[k].key[2] = kind
                                                      /\ r \in done[k].facts
  BY ZenonT(60), <1>5 DEF SuccessorSupport
<1>10. \A d, r : r \in Exact(kind, W, d) <=> r \in Models(kind, W) \cup Marks(Models(kind, W)) /\ Subj(r) \in d
  BY Zenon DEF Exact
<1>11. ASSUME NEW r \in X PROVE r \in Y
  <2>1. PICK k \in 1 .. n : /\ done[k].key[1] \in Successors(c) /\ done[k].key[2] = kind
                            /\ r \in done[k].facts
    BY <1>9, Zenon
  <2>2. r \in Exact(kind, W, done[k].key[1])
    BY <1>6, <1>8, <2>1, Zenon
  <2>3. r \in Models(kind, W) \cup Marks(Models(kind, W)) /\ Subj(r) \in done[k].key[1]
    BY <1>10, <2>2, Zenon
  <2>4. Subj(r) \in UNION Successors(c)
    BY <2>1, <2>3, Zenon
  <2> QED
    BY <1>10, <2>3, <2>4, Zenon
<1>12. ASSUME NEW r \in Y PROVE r \in X
  <2>1. PICK d \in Successors(c) : Subj(r) \in d
    BY <1>10, <1>12, Zenon
  <2>2. PICK k \in 1 .. n : done[k].key[1] = d /\ done[k].key[2] = kind
    BY <1>7, Zenon
  <2>3. r \in Exact(kind, W, d)
    BY <1>10, <1>12, <2>1, Zenon
  <2> QED
    BY <1>6, <1>8, <1>9, <2>2, <2>3, Zenon
<1>13. X = Y
  <2> HIDE DEF X, Y
  <2> QED
    BY <1>11, <1>12, Zenon
<1> QED
  BY <1>2, <1>13, Zenon DEF W

\* The rows of the next component: finitely many, with the facts that the
\* whole program gives about its functions.
LEMMA NextRows ==
    ASSUME Summarised, Layers, DoneOK, Len(done) < 4 * Len(order)
    PROVE  LET roots == Materialize(sums, NextKey[1], NextKey[2], SuccessorSupport(NextKey[1], NextKey[2]))
           IN  /\ NextKey[2] \in Kinds /\ IsFiniteSet(roots)
               /\ NextKey[2] # "flow" => Results(SouffleEvaluate(NextKey[2], roots))
                                         = Exact(NextKey[2], Whole(sums, NextKey[2]), NextKey[1])
<1> DEFINE n == Len(done)
           i == (n \div 4) + 1
           j == (n % 4) + 1
           c == NextKey[1]
           kind == NextKey[2]
           W == Whole(sums, kind)
           local == UNION {LocalRows(sums[f], f, kind) : f \in c}
           support == SuccessorSupport(c, kind)
           succ == UNION Successors(c)
           roots == local \cup SupportRows(kind, support)
           part == local \cup SupportRows(kind, Exact(kind, W, succ))
<1>1. n \in Nat /\ Len(order) \in Nat /\ n < 4 * Len(order)
  BY DEF DoneOK, Layers
<1>2. i \in 1 .. Len(order) /\ j \in 1 .. 4
  BY <1>1, Places, Zenon
<1>3. c = order[i] /\ kind = Component4[j]
  BY Zenon DEF NextKey
<1> HIDE DEF n, i, j
<1>4. kind \in Kinds
  BY <1>2, <1>3, KindsAre, Zenon
<1>5. graph.functions = Function
  BY GraphIs, Zenon DEF Summarised
<1>6. c \in SUBSET Function
  BY <1>2, <1>3, <1>5, Zenon DEF Layers
<1>7. roots = Materialize(sums, c, kind, support)
  BY Zenon DEF Materialize
<1>8. IsFiniteSet(support)
  BY SupportIsFinite, Zenon
<1> HIDE DEF c, kind, support
<1>9. IsFiniteSet(Materialize(sums, c, kind, support))
  BY <1>4, <1>6, <1>8, RowsFinite, Zenon DEF Summarised
<1>10. ASSUME kind # "flow"
       PROVE  Results(SouffleEvaluate(kind, roots)) = Exact(kind, W, c)
  <2>1. IsFiniteSet(W)
    BY <1>4, RowsFinite, FS_EmptySet, Zenon DEF Summarised, Whole
  <2>2. \A r : r \in local <=> r \in W /\ Subj(r) \in c
    <3>1. IsPart(local, W, c)
      BY <1>4, <1>6, <1>10, PartIs, Zenon
    <3> QED
      BY <3>1, Zenon DEF IsPart
  <2>3. \A d \in ComponentDomains(kind) : Rows(W, d.support) = {}
    BY <1>4, <1>10, NoSupport, Zenon
  <2>4. \A r \in Rows(W, "DirectCall") : Subj(r) \in c => Obj(r) \in c \cup succ
    <3> SUFFICES ASSUME NEW r \in Rows(W, "DirectCall"), Subj(r) \in c PROVE Obj(r) \in c \cup succ
      BY ZenonT(60)
    <3>1. PICK e \in graph.edges : e.caller = Subj(r) /\ e.callee = Obj(r)
      BY <1>4, <1>10, CallRowIsEdge, Zenon DEF Summarised
    <3>2. Obj(r) \in Callees(Subj(r))
      BY Zenon, <3>1 DEF Callees
    <3>3. \A f \in c : Callees(f) \subseteq c \cup succ
      BY <1>2, <1>3, SuccessorsBefore, Zenon
    <3> QED
      BY <3>2, <3>3, Zenon
  <2>5. support = Exact(kind, W, succ)
    BY <1>10, SupportIsExact, Zenon DEF support, c, kind
  <2>6. roots = part
    BY <2>5, Zenon
  <2> HIDE DEF W, local, succ
  <2>7. IsFiniteSet(part) /\ Models(kind, part) \cup Marks(Models(kind, part)) = Exact(kind, W, c)
    BY <1>4, <1>10, <2>1, <2>2, <2>3, <2>4, ComponentIsModular, Zenon
  <2> HIDE DEF part, roots
  <2>8. Results(SouffleEvaluate(kind, part)) = Models(kind, part) \cup Marks(Models(kind, part))
    BY <2>7, SouffleDerives, Zenon
  <2> QED
    BY <2>6, <2>7, <2>8, Zenon
<1> HIDE DEF roots
<1> QED
  BY <1>4, <1>7, <1>9, <1>10, Zenon DEF c, kind, support, W

\* The conformance run finds the facts of a completed component again.
LEMMA ConformanceFacts ==
    ASSUME NEW x, ResultOK(x)
    PROVE  Conformance(x).facts = x.facts
<1> DEFINE F(raw) == Canonicalize(x.roots, raw)
           t == CppExecute(x.key[2], x.roots)
<1>1. Conformance(x) = Once(t, F)
  BY Zenon DEF Conformance
<1>2. F(t).facts = t.results
  BY CanonicalFacts, Zenon
<1>3. t.results = x.facts
  BY CppDerives, Zenon DEF ResultOK
<1> HIDE DEF F, t
<1>4. Once(t, F) = F(t)
  BY Zenon DEF Once
<1> QED
  BY <1>1, <1>2, <1>3, <1>4, Zenon

----------------------------------------------------------------------------
(* The run.                                                                *)

Phases == {"local", "svf", "graph", "scc", "published", "refused", "incomplete"}

\* The summaries and the graph are those of the program from the phase on
\* that makes them; the search is sound throughout; components complete only
\* when all of them are in order; a published run has completed them all.
RunInv ==
    /\ program \in Program /\ phase \in Phases
    /\ phase = "svf" => sums = RunLocalAnalysis(program)
    /\ phase \notin {"local", "svf"} => sums = Summaries(program, clock)
    /\ phase \in {"local", "svf", "graph"} => graph = NoGraph /\ SearchInit /\ done = <<>>
    /\ phase \notin {"local", "svf", "graph"} => graph = FromSummaries(sums)
    /\ SearchInv /\ DoneOK
    /\ done # <<>> => Ordered
    /\ Complete => Ordered /\ Len(done) = 4 * Len(order)

\* No component has completed.
LEMMA EmptyDone == SearchInv /\ done = <<>> => DoneOK
<1> SUFFICES ASSUME SearchInv, done = <<>> PROVE DoneOK
  BY Zenon
<1>1. order \in Seq(sccs)
  BY Zenon DEF SearchInv, OrderOK
<1>2. done \in Seq({}) /\ Len(done) = 0 /\ Len(order) \in Nat /\ 1 .. Len(done) = {}
  BY SMTT(30), <1>1
<1>3. Len(done) <= 4 * Len(order)
  BY SMTT(30), <1>2
<1> QED
  BY <1>2, <1>3, Zenon DEF DoneOK

LEMMA EmptyDoneNext == SearchInv' /\ (done = <<>>)' => DoneOK'
BY EmptyDone, PTL

\* What the loop has done stays done.
LEMMA DoneKept ==
    ASSUME RunInv, UNCHANGED <<done, sums, sccVars>>
    PROVE  SearchInv' /\ DoneOK' /\ Ordered' = Ordered /\ SearchInit' = SearchInit
<1>1. SearchInv'
  BY SearchStep, Zenon DEF RunInv
<1>2. DoneOK'
  BY Zenon DEF RunInv, DoneOK, KeyAt, ResultOK, sccVars, searchVars
<1> QED
  BY <1>1, <1>2, Zenon DEF Ordered, Explored, SearchInit, sccVars, searchVars

\* The initial state.
LEMMA InitOK == Init => RunInv
<1> SUFFICES ASSUME Init PROVE RunInv
  BY Zenon
<1>1. IsGraph(NoGraph)
  BY Zenon, FS_EmptySet DEF IsGraph, NoGraph
<1>2. SearchInv
  BY <1>1, SearchStarts, Zenon DEF Init
<1>3. DoneOK
  BY <1>2, EmptyDone, Zenon DEF Init
<1>4. phase = "local" /\ "local" \in Phases /\ "local" # "svf" /\ "local" # "published"
  BY Zenon DEF Init, Phases
<1> QED
  BY <1>2, <1>3, <1>4, Zenon DEF Init, RunInv, Complete

\* The two passes over the program.
LEMMA LocalPassOK == ASSUME RunInv, LocalPass PROVE RunInv'
<1>1. phase = "local" /\ phase' = "svf" /\ sums' = RunLocalAnalysis(program)
      /\ UNCHANGED <<program, done, sccVars>>
  BY Zenon DEF LocalPass
<1>2. graph = NoGraph /\ SearchInit /\ done = <<>>
  BY <1>1, Zenon DEF RunInv
<1>3. SearchInv'
  BY <1>1, SearchStep, Zenon DEF RunInv
<1>4. graph' = NoGraph /\ SearchInit' /\ done' = <<>>
  BY <1>1, <1>2, Zenon DEF SearchInit, sccVars, searchVars
<1>5. DoneOK'
  BY <1>3, <1>4, EmptyDoneNext, Zenon
<1>6. "svf" \in Phases /\ "svf" # "published" /\ program' \in Program
  BY Zenon, <1>1 DEF Phases, RunInv
<1> QED
  BY <1>1, <1>3, <1>4, <1>5, <1>6, Zenon DEF RunInv, Complete

LEMMA SvfPassOK == ASSUME RunInv, SvfPass PROVE RunInv'
<1>1. phase = "svf" /\ phase' = "graph" /\ UNCHANGED <<program, clock, done, sccVars>>
      /\ sums' = MergeSvfFactsV2(sums, MapSvfFacts(program, clock))
  BY Zenon DEF SvfPass
<1>2. graph = NoGraph /\ SearchInit /\ done = <<>> /\ sums = RunLocalAnalysis(program)
  BY <1>1, Zenon DEF RunInv
<1>3. sums' = Summaries(program', clock')
  BY <1>1, <1>2, Zenon DEF Summaries
<1>4. SearchInv'
  BY <1>1, SearchStep, Zenon DEF RunInv
<1>5. graph' = NoGraph /\ SearchInit' /\ done' = <<>>
  BY <1>1, <1>2, Zenon DEF SearchInit, sccVars, searchVars
<1>6. DoneOK'
  BY <1>4, <1>5, EmptyDoneNext, Zenon
<1>7. "graph" \in Phases /\ "graph" # "published" /\ "graph" # "svf" /\ program' \in Program
  BY Zenon, <1>1 DEF Phases, RunInv
<1> QED
  BY <1>1, <1>3, <1>4, <1>5, <1>6, <1>7, Zenon DEF RunInv, Complete

\* The graph of the summaries is a graph of the functions.
LEMMA GraphOK ==
    ASSUME NEW p, NEW k
    PROVE  IsGraph(FromSummaries(Summaries(p, k)))
<1>1. IsFiniteSet(Function)
  BY LocalAssumption, Zenon
<1> QED
  BY <1>1, GraphIs, Zenon DEF IsGraph

LEMMA BuildGraphOK == ASSUME RunInv, BuildGraph PROVE RunInv'
<1>1. phase = "graph" /\ graph' = FromSummaries(sums) /\ phase' \in {"scc", "incomplete"}
      /\ UNCHANGED <<program, clock, sums, done, searchVars>>
  BY Zenon DEF BuildGraph
<1>2. SearchInit /\ done = <<>> /\ sums = Summaries(program, clock)
  BY ZenonT(60), <1>1 DEF RunInv
<1>3. IsGraph(graph')
  BY <1>1, <1>2, GraphOK, Zenon
<1>4. SearchInit' /\ done' = <<>>
  BY <1>1, <1>2, Zenon DEF SearchInit, searchVars
<1>5. SearchInv'
  BY <1>3, <1>4, SearchStartsNext, Zenon
<1>6. DoneOK'
  BY <1>4, <1>5, EmptyDoneNext, Zenon
<1>7. /\ phase' \in Phases \ {"local", "svf", "graph", "published"}
      /\ program' \in Program /\ sums' = Summaries(program', clock') /\ graph' = FromSummaries(sums')
  BY ZenonT(60), <1>1, <1>2 DEF Phases, RunInv
<1> QED
  BY ZenonT(60), <1>4, <1>5, <1>6, <1>7 DEF RunInv, Complete

\* A step of the search: no component has completed.
LEMMA SccStepOK == ASSUME RunInv, SccStep PROVE RunInv'
<1>1. phase = "scc" /\ SccNext /\ UNCHANGED <<program, clock, phase, sums, done>>
  BY Zenon DEF SccStep, runVars
<1>2. done = <<>>
  BY <1>1, OrderedStops, Zenon DEF RunInv
<1>3. SearchInv'
  BY <1>1, SearchStep, Zenon DEF RunInv
<1>4. DoneOK'
  BY <1>1, <1>2, <1>3, EmptyDoneNext, Zenon
<1>5. graph' = graph
  BY <1>1, Zenon DEF SccNext, Discover, VisitCallee, Retreat, EmitScc
<1>6. /\ phase' \in Phases \ {"local", "svf", "graph", "published"} /\ done' = <<>>
      /\ program' \in Program /\ sums' = Summaries(program', clock') /\ graph' = FromSummaries(sums')
  BY ZenonT(60), <1>1, <1>2, <1>5 DEF Phases, RunInv
<1> QED
  BY ZenonT(60), <1>3, <1>4, <1>6 DEF RunInv, Complete

\* What the loop over the components finds.
LEMMA LoopStands ==
    ASSUME RunInv, phase \notin {"local", "svf", "graph"}, Ordered
    PROVE  Summarised /\ Layers
<1>1. Layers
  BY OrderedLayers, Zenon DEF RunInv
<1>2. IsProgram(program)
  BY ProgramAssumption, Zenon DEF RunInv
<1>3. sums = Summaries(program, clock) /\ graph = FromSummaries(sums)
  BY Zenon DEF RunInv
<1> QED
  BY <1>1, <1>2, <1>3, Zenon DEF Summarised

\* A component that completes has the facts it should.
LEMMA ComponentOK ==
    ASSUME Summarised, Layers, DoneOK, Len(done) < 4 * Len(order),
           NEW roots, NEW raw, NEW result, NEW x,
           roots = Materialize(sums, NextKey[1], NextKey[2], SuccessorSupport(NextKey[1], NextKey[2])),
           raw = Evaluate(NextKey[2], roots), result = Canonicalize(roots, raw),
           x = [key |-> NextKey, roots |-> roots, facts |-> result.facts, proofs |-> result.proofs]
    PROVE  x.key = NextKey /\ ResultOK(x)
<1>1. x.key = NextKey /\ x.roots = roots /\ x.facts = result.facts
  BY Zenon
<1>2. /\ NextKey[2] \in Kinds /\ IsFiniteSet(roots)
      /\ NextKey[2] # "flow" => Results(SouffleEvaluate(NextKey[2], roots))
                                = Exact(NextKey[2], Whole(sums, NextKey[2]), NextKey[1])
  BY NextRows, Zenon
<1>3. raw.results = Results(SouffleEvaluate(NextKey[2], roots))
  BY <1>2, EvaluateDerives, Zenon
<1>4. result.facts = raw.results
  BY CanonicalFacts, Zenon
<1> QED
  BY <1>1, <1>2, <1>3, <1>4, Zenon DEF ResultOK

LEMMA RunComponentOK == ASSUME RunInv, RunComponent PROVE RunInv'
<1>1. /\ phase = "scc" /\ Ordered /\ Len(done) < 4 * Len(order)
      /\ UNCHANGED <<program, clock, sums, sccVars>>
  BY Zenon DEF RunComponent
<1>2. \/ done' = done /\ phase' = "incomplete"
      \/ /\ phase' = phase
         /\ \E x : done' = Append(done, x) /\ x.key = NextKey /\ ResultOK(x)
  <2>1. PICK roots \in {Materialize(sums, NextKey[1], NextKey[2], SuccessorSupport(NextKey[1], NextKey[2]))} :
        \E raw \in {Evaluate(NextKey[2], roots)} : \E result \in {Canonicalize(roots, raw)} :
           IF raw.ok /\ result.ok
           THEN /\ done' = Append(done, [key |-> NextKey, roots |-> roots,
                                         facts |-> result.facts, proofs |-> result.proofs])
                /\ UNCHANGED phase
           ELSE phase' = "incomplete" /\ UNCHANGED done
    BY Zenon DEF RunComponent
  <2>2. PICK raw \in {Evaluate(NextKey[2], roots)} : \E result \in {Canonicalize(roots, raw)} :
           IF raw.ok /\ result.ok
           THEN /\ done' = Append(done, [key |-> NextKey, roots |-> roots,
                                         facts |-> result.facts, proofs |-> result.proofs])
                /\ UNCHANGED phase
           ELSE phase' = "incomplete" /\ UNCHANGED done
    BY <2>1, Zenon
  <2>3. PICK result \in {Canonicalize(roots, raw)} :
           \/ /\ done' = Append(done, [key |-> NextKey, roots |-> roots,
                                       facts |-> result.facts, proofs |-> result.proofs])
              /\ phase' = phase
           \/ phase' = "incomplete" /\ done' = done
    BY <2>2, Zenon
  <2> DEFINE x == [key |-> NextKey, roots |-> roots, facts |-> result.facts, proofs |-> result.proofs]
  <2>4. /\ roots = Materialize(sums, NextKey[1], NextKey[2], SuccessorSupport(NextKey[1], NextKey[2]))
        /\ raw = Evaluate(NextKey[2], roots) /\ result = Canonicalize(roots, raw)
    BY Zenon
  <2>5. Summarised /\ Layers /\ DoneOK
    BY Zenon, <1>1, LoopStands DEF RunInv
  <2>6. x.key = NextKey /\ ResultOK(x)
    BY <1>1, <2>4, <2>5, ComponentOK, Zenon
  <2> HIDE DEF x
  <2> QED
    BY <2>3, <2>6, Zenon DEF x
<1>3. CASE done' = done /\ phase' = "incomplete"
  <2>1. SearchInv' /\ DoneOK' /\ Ordered'
    BY <1>1, <1>3, DoneKept, Zenon
  <2>2. /\ phase' \in Phases \ {"local", "svf", "graph", "published"}
        /\ program' \in Program /\ sums' = Summaries(program', clock') /\ graph' = FromSummaries(sums')
    BY Zenon, <1>1, <1>3 DEF Phases, RunInv, sccVars
  <2> QED
    BY ZenonT(60), <2>1, <2>2 DEF RunInv, Complete
<1>4. ASSUME phase' = phase, NEW x, done' = Append(done, x), x.key = NextKey, ResultOK(x)
      PROVE  RunInv'
  <2>1. Ordered'
    BY <1>1, Zenon DEF Ordered, Explored, sccVars, searchVars
  <2>2. SearchInv'
    BY <1>1, SearchStep, Zenon DEF RunInv
  <2>3. order' = order /\ sums' = sums
    BY <1>1, Zenon DEF sccVars, searchVars
  <2>4. PICK S : done \in Seq(S)
    BY Zenon DEF RunInv, DoneOK
  <2>5. /\ done' \in Seq(S \cup {x}) /\ Len(done') = Len(done) + 1 /\ Len(done) \in Nat
        /\ \A k \in 1 .. Len(done) : done'[k] = done[k]
        /\ done'[Len(done) + 1] = x
    BY <1>4, <2>4, SMTT(30)
  <2>6. Len(order) \in Nat /\ DoneOK
    BY SMTT(30) DEF RunInv, SearchInv, OrderOK
  <2>7. Len(done') <= 4 * Len(order')
    BY <1>1, <2>3, <2>5, <2>6, SMTT(30)
  <2>8. ASSUME NEW k \in 1 .. Len(done') PROVE (done[k].key = KeyAt(k) /\ ResultOK(done[k]))'
    <3>1. KeyAt(k)' = KeyAt(k)
      BY <2>3, Zenon DEF KeyAt
    <3>2. ASSUME NEW y, done'[k] = y, ResultOK(y) PROVE ResultOK(done[k])'
      BY <2>3, <3>2, Zenon DEF ResultOK
    <3>3. CASE k \in 1 .. Len(done)
      BY <2>5, <2>6, <3>1, <3>2, <3>3, Zenon DEF DoneOK
    <3>4. CASE k = Len(done) + 1
      <4>1. KeyAt(k) = NextKey
        BY <2>5, <3>4, SMTT(30) DEF KeyAt, NextKey
      <4> QED
        BY <1>4, <2>5, <3>1, <3>2, <3>4, <4>1, Zenon
    <3> QED
      BY <2>5, <3>3, <3>4, SMTT(30)
  <2>9. DoneOK'
    BY <2>5, <2>7, <2>8, Zenon DEF DoneOK
  <2>10. /\ phase' \in Phases \ {"local", "svf", "graph", "published"}
         /\ program' \in Program /\ sums' = Summaries(program', clock') /\ graph' = FromSummaries(sums')
    BY ZenonT(60), <1>1, <1>4 DEF Phases, RunInv, sccVars
  <2> QED
    BY ZenonT(60), <2>1, <2>2, <2>9, <2>10 DEF RunInv, Complete
<1> QED
  BY <1>2, <1>3, <1>4, Zenon

\* The batch.
LEMMA AssembleOK == ASSUME RunInv, Assemble PROVE RunInv'
<1>1. /\ phase = "scc" /\ Ordered /\ Len(done) = 4 * Len(order)
      /\ UNCHANGED <<program, clock, sums, done, sccVars>>
  BY Zenon DEF Assemble
<1>2. phase' \in {"published", "refused", "incomplete"}
  <2>1. CASE phase' = "incomplete"
    BY ZenonT(60), <2>1
  <2>2. CASE phase' # "incomplete"
    BY <2>2, Zenon DEF Assemble
  <2> QED
    BY Zenon, <2>1, <2>2
<1>3. SearchInv' /\ DoneOK' /\ Ordered'
  BY <1>1, DoneKept, Zenon
<1>4. order' = order
  BY <1>1, Zenon DEF sccVars, searchVars
<1>5. /\ phase' \in Phases \ {"local", "svf", "graph"}
      /\ program' \in Program /\ sums' = Summaries(program', clock') /\ graph' = FromSummaries(sums')
  BY ZenonT(60), <1>1, <1>2 DEF Phases, RunInv, sccVars
<1> QED
  BY ZenonT(60), <1>1, <1>3, <1>4, <1>5 DEF RunInv, Complete

\* Every step.
LEMMA StepOK == RunInv /\ [Next]_vars => RunInv'
<1> SUFFICES ASSUME RunInv, [Next]_vars PROVE RunInv'
  BY Zenon
<1>1. CASE UNCHANGED vars
  <2>1. SearchInv' /\ DoneOK' /\ Ordered' = Ordered /\ SearchInit' = SearchInit
    BY <1>1, DoneKept, Zenon DEF vars, runVars
  <2>2. UNCHANGED <<program, clock, phase, sums, done, graph, order>>
    BY <1>1, Zenon DEF vars, runVars, sccVars, searchVars
  <2> QED
    BY <2>1, <2>2, Zenon DEF RunInv, Complete
<1>2. CASE Finished
  BY <1>1, <1>2, Zenon DEF Finished
<1> QED
  BY <1>1, <1>2, LocalPassOK, SvfPassOK, BuildGraphOK, SccStepOK, RunComponentOK, AssembleOK, Zenon DEF Next

LEMMA RunInvHolds == Spec => []RunInv
BY InitOK, StepOK, PTL DEF Spec

\* In the run the call graph is divided as SccGraph::Build promises: exactly
\* into the classes of functions that reach each other, bottom up, with no
\* cycle reported.
THEOREM RunDividesExactly == Spec => []SccGraphExact
<1>1. RunInv => SccGraphExact
  BY SearchGives, Zenon DEF RunInv
<1> QED
  BY <1>1, RunInvHolds, PTL

----------------------------------------------------------------------------
(* What a published run states.                                            *)

\* The facts of a kind are the facts of the whole program.
LEMMA FactsAreWhole ==
    ASSUME RunInv, Complete, NEW kind \in Kinds, kind # "flow"
    PROVE  Facts(kind) = WholeFacts(sums, kind)
<1> DEFINE W == Whole(sums, kind)
           n == Len(order)
<1>1. /\ Ordered /\ Len(done) = 4 * n /\ phase \notin {"local", "svf", "graph"} /\ DoneOK
  BY ZenonT(60) DEF RunInv, Complete
<1>2. Summarised /\ Layers
  BY <1>1, LoopStands, Zenon
<1>3. n \in Nat /\ DOMAIN done = 1 .. (4 * n)
  BY SMTT(30), <1>1, <1>2 DEF Layers, DoneOK
<1>4. Range(done) = {done[k] : k \in 1 .. (4 * n)}
  BY <1>3, Zenon DEF Range
<1>5. graph.functions = Function
  BY <1>2, GraphIs, Zenon DEF Summarised
<1> HIDE DEF n, W
<1>6. \A r : r \in WholeFacts(sums, kind) <=> r \in Models(kind, W) \cup Marks(Models(kind, W))
  BY Zenon DEF WholeFacts, W
<1>7. \A d, r : r \in Exact(kind, W, d) <=> r \in WholeFacts(sums, kind) /\ Subj(r) \in d
  BY <1>6, Zenon DEF Exact
<1>8. ASSUME NEW k \in 1 .. (4 * n), done[k].key[2] = kind
      PROVE  done[k].facts = Exact(kind, W, done[k].key[1])
  BY <1>1, <1>8, Zenon DEF DoneOK, ResultOK, W
<1>9. ASSUME NEW r \in Facts(kind) PROVE r \in WholeFacts(sums, kind)
  <2>1. PICK k \in 1 .. (4 * n) : done[k].key[2] = kind /\ r \in done[k].facts
    BY ZenonT(60), <1>4 DEF Facts
  <2>2. r \in Exact(kind, W, done[k].key[1])
    BY <1>8, <2>1, Zenon
  <2> QED
    BY <1>7, <2>2, Zenon
<1>10. ASSUME NEW r \in WholeFacts(sums, kind) PROVE r \in Facts(kind)
  <2>1. Subj(r) \in Function
    BY <1>2, FactsOfFunctions, Zenon DEF Summarised
  <2>2. PICK a \in 1 .. n : Subj(r) \in order[a]
    <3>1. UNION {order[i] : i \in 1 .. n} = Function
      BY <1>2, <1>5, Zenon DEF Layers, n
    <3> QED
      BY Zenon, <2>1, <3>1
  <2>3. PICK b \in 1 .. 4 : Component4[b] = kind
    BY KindsAre, Zenon
  <2> DEFINE k == 4 * (a - 1) + b
  <2>4. k \in 1 .. (4 * n) /\ ((k - 1) \div 4) + 1 = a /\ ((k - 1) % 4) + 1 = b
    BY <1>3, AllPlaces, SMTT(30)
  <2> HIDE DEF k
  <2>5. done[k].key = <<order[a], kind>>
    BY <1>1, <2>3, <2>4, Zenon DEF DoneOK, KeyAt
  <2>6. done[k].key[1] = order[a] /\ done[k].key[2] = kind
    BY SMTT(30), <2>5
  <2>7. r \in done[k].facts
    <3>1. r \in Exact(kind, W, order[a])
      BY <1>7, <2>2, Zenon
    <3> QED
      BY <1>8, <2>4, <2>6, <3>1, Zenon
  <2>8. done[k] \in Range(done)
    BY <1>4, <2>4, Zenon
  <2> QED
    BY <2>6, <2>7, <2>8, Zenon DEF Facts
<1> QED
  BY <1>9, <1>10, Zenon

\* Evaluating component by component is evaluating the whole program: for
\* every program, budget and engine, the reachability, memory and effect facts
\* of a published run are what the rules derive from all the rows at once.
THEOREM ModularAlways == Spec => []ModularIsGlobal
<1>1. RunInv => ModularIsGlobal
  <2> SUFFICES ASSUME RunInv, Complete, NEW kind \in {"reachability", "memory-effects", "effects"}
               PROVE  Facts(kind) = Results(Once(Materialize(sums, Function, kind, {}),
                                                 LAMBDA rows : SouffleEvaluate(kind, rows)))
    BY Zenon DEF ModularIsGlobal
  <2> DEFINE F(rows) == SouffleEvaluate(kind, rows)
             W == Whole(sums, kind)
  <2>1. kind \in Kinds /\ kind # "flow"
    BY ZenonT(60), DomainsAre
  <2>2. Summarised
    <3>1. phase \notin {"local", "svf", "graph"} /\ Ordered
      BY Zenon DEF Complete, RunInv
    <3> QED
      BY <3>1, LoopStands, Zenon
  <2>3. Once(Materialize(sums, Function, kind, {}), LAMBDA rows : SouffleEvaluate(kind, rows)) = Once(W, F)
    BY Zenon DEF Whole
  <2>4. IsFiniteSet(W)
    BY <2>1, <2>2, RowsFinite, FS_EmptySet, Zenon DEF Summarised, Whole
  <2>5. Facts(kind) = Models(kind, W) \cup Marks(Models(kind, W))
    BY <2>1, FactsAreWhole, Zenon DEF WholeFacts
  <2>6. Results(F(W)) = Models(kind, W) \cup Marks(Models(kind, W))
    BY <2>4, SouffleDerives, Zenon
  <2> HIDE DEF F, W
  <2>7. Once(W, F) = F(W)
    BY Zenon DEF Once
  <2> QED
    BY <2>3, <2>5, <2>6, <2>7, Zenon
<1> QED
  BY <1>1, RunInvHolds, PTL

\* The conformance run of the C++ engine finds the facts of every completed
\* component again.  (Which proof it selects for a fact may differ.)
EnginesAgreeOnFacts == \A x \in Range(done) : Conformance(x).facts = x.facts

THEOREM FactsAgreeAlways == Spec => []EnginesAgreeOnFacts
<1>1. RunInv => EnginesAgreeOnFacts
  <2> SUFFICES ASSUME RunInv, NEW x \in Range(done) PROVE Conformance(x).facts = x.facts
    BY Zenon DEF EnginesAgreeOnFacts
  <2>1. DoneOK
    BY Zenon DEF RunInv
  <2>2. DOMAIN done = 1 .. Len(done)
    BY SMTT(30), <2>1 DEF DoneOK
  <2>3. PICK k \in 1 .. Len(done) : x = done[k]
    BY <2>2, Zenon DEF Range
  <2>4. ResultOK(x)
    BY <2>1, <2>3, Zenon DEF DoneOK
  <2> QED
    BY <2>4, ConformanceFacts, Zenon
<1> QED
  BY <1>1, RunInvHolds, PTL

----------------------------------------------------------------------------
(* What the program does and a published run states.                       *)

\* A published run never claims less than the program does, for every program,
\* budget and engine: whatever a function's calls may come to run, and whatever
\* is stored there, is a fact of the function, or the function is marked as
\* having an unknown effect.
THEOREM SoundAlways == Spec => []SoundOrUnknown
<1>1. RunInv => SoundOrUnknown
  <2> SUFFICES ASSUME RunInv, Complete PROVE SoundOrUnknown
    BY Zenon DEF SoundOrUnknown
  <2> DEFINE S == Summaries(program, clock)
             C == Closure(Transfers)
  <2>1. Summarised
    <3>1. phase \notin {"local", "svf", "graph"} /\ Ordered
      BY Zenon DEF Complete, RunInv
    <3> QED
      BY <3>1, LoopStands, Zenon
  <2>2. IsProgram(program) /\ sums = S
    BY <2>1, Zenon DEF Summarised
  <2>3. {"reachability", "memory-effects", "effects"} \subseteq Kinds
        /\ "reachability" # "flow" /\ "memory-effects" # "flow" /\ "effects" # "flow"
    BY ZenonT(60), DomainsAre
  <2>4. /\ Facts("reachability") = WholeFacts(S, "reachability")
        /\ Facts("memory-effects") = WholeFacts(S, "memory-effects")
        /\ Facts("effects") = WholeFacts(S, "effects")
    BY ZenonT(60), <2>2, <2>3, FactsAreWhole
  <2>5. Once(Transfers, Closure) = C
    BY Zenon DEF Once
  <2>6. \A f : Unknown(f) <=> UnknownFact(S, f)
    BY <2>4, Zenon DEF Unknown, UnknownFact
  <2>7. \A x \in C : ~UnknownFact(S, x[1]) => ReachFact(S, x[1], x[2])
    BY <2>2, KnownReach, Zenon
  <2>8. \A s \in At(program, {"store"}) : WriteFact(S, s[1], LocationId(LocationFor(Code(program, s), s, TRUE)))
    BY <2>2, StoresStated, WritesSpread, Zenon
  <2>9. \A f, g, l : ReachFact(S, f, g) /\ WriteFact(S, g, l) => WriteFact(S, f, l)
    BY <2>2, WritesSpread, Zenon
  <2> HIDE DEF S, C
  <2>10. SUFFICES ASSUME NEW f \in Function, ~UnknownFact(S, f)
                  PROVE  /\ \A x \in C : x[1] = f =>
                              \E r \in Facts("reachability") : Subj(r) = f /\ Obj(r) = x[2]
                         /\ \A s \in At(program, {"store"}) : (s[1] = f \/ <<f, s[1]>> \in C) =>
                              \E r \in Facts("memory-effects") :
                                 /\ Rel(r) = "MayWrite" /\ Subj(r) = f
                                 /\ Obj(r) = LocationId(LocationFor(Code(program, s), s, TRUE))
    BY <2>5, <2>6, Zenon DEF SoundOrUnknown
  <2>11. ASSUME NEW x \in C, x[1] = f
         PROVE  \E r \in Facts("reachability") : Subj(r) = f /\ Obj(r) = x[2]
    BY <2>4, <2>7, <2>10, <2>11, Zenon DEF ReachFact
  <2>12. ASSUME NEW s \in At(program, {"store"}), s[1] = f \/ <<f, s[1]>> \in C
         PROVE  WriteFact(S, f, LocationId(LocationFor(Code(program, s), s, TRUE)))
    <3>1. CASE s[1] = f
      BY <2>8, <3>1, Zenon
    <3>2. CASE <<f, s[1]>> \in C
      <4>1. ReachFact(S, f, s[1])
        <5> DEFINE x == <<f, s[1]>>
        <5>1. x[1] = f /\ x[2] = s[1]
          BY Zenon
        <5> QED
          BY <2>7, <2>10, <3>2, <5>1, Zenon
      <4> QED
        BY <2>8, <2>9, <4>1, Zenon
    <3> QED
      BY <2>12, <3>1, <3>2, Zenon
  <2> QED
    BY <2>4, <2>11, <2>12, Zenon DEF WriteFact
<1> QED
  BY <1>1, RunInvHolds, PTL

=============================================================================
