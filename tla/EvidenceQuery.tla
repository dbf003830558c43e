--------------------------- MODULE EvidenceQuery ---------------------------
(***************************************************************************)
(* The handoff of one claim: the bounded flow and fact queries over the    *)
(* graph and the bound facts of the run, a completion certificate for each,*)
(* the bounded explanation of every selected fact, and the handoff's check.*)
(*                                                                         *)
(* A budget is a record: depth, nodes, paths, facts, prov.  The order of   *)
(* digests is arbitrary; a canonical prefix takes them as TLC orders them. *)
(* A check of a sink is a row of a relation of its own here.               *)
(***************************************************************************)
EXTENDS ProjectStore, FiniteSetsExt

CONSTANTS
    MaxWork,    \* FactSelection::kMaxWork, index rows a slot may examine
    MaxBytes,   \* the bytes a slot may return, in rows
    MaxProbes   \* the selectors a slot may try

ASSUME EvidenceAssumption == MaxWork \in Nat /\ MaxBytes \in Nat /\ MaxProbes \in Nat

RECURSIVE Prefix(_, _)
Prefix(S, n) ==
    IF n = 0 \/ S = {} THEN {}
    ELSE Once(CHOOSE y \in S : TRUE, LAMBDA x : {x} \cup Once(S \ {x}, LAMBDA T : Prefix(T, n - 1)))

----------------------------------------------------------------------------
(* Fact queries.                                                           *)

\* The reference a column of a row holds.
Cell(r, column) ==
    LET x == IF column = 0 THEN Subj(r) ELSE Obj(r)
    IN  CASE Rel(r) \in {"GlobalFlow", "SupportGlobalFlow", "DominatingCheck"} -> Val(x)
          [] Rel(r) = "Alias" -> Mem(x)
          [] column = 0 -> Fn(x)
          [] OTHER -> Mem(x)

ByCell(store, relation, column, ref) ==
    {r \in Rows(store.facts, relation) : Cell(r, column) = ref}

\* A value is no memory: a slot over memory has no selector for it.
SlotSelectors(kind, ref) ==
    CASE kind = "range" /\ ref[1] = "mem" -> <<<<"DirectRead", 1>>>>
      [] kind = "capacity" /\ ref[1] = "mem" -> <<<<"DirectWrite", 1>>>>
      [] kind = "alias" /\ ref[1] = "mem" -> <<<<"Alias", 0>>, <<"Alias", 1>>>>
      [] kind = "unknown" /\ ref[1] = "fn" -> <<<<"UnknownEffect", 0>>, <<"SupportUnknownEffect", 0>>>>
      [] kind = "dominating_check" -> <<<<"DominatingCheck", 0>>>>
      [] OTHER -> <<>>

FactSelection == [facts |-> {}, reasons |-> {}, work |-> MaxWork, bytes |-> MaxBytes,
                  probes |-> MaxProbes]

\* Mutant: a page that ends at its limit is not marked as cut.
ReadFactsUncut(match, limit, work, bytes) ==
    Once(Min({Cardinality(match), limit, work, bytes}), LAMBDA n :
        [facts |-> Prefix(match, n), examined |-> n,
         stop |-> CASE n = work -> {"max_fact_work"}
                    [] n \in {Cardinality(match), limit} -> {}
                    [] OTHER -> {"max_fact_bytes"}])

\* One page: a row costs a unit of work and, if it is returned, of bytes.
ReadFacts(match, limit, work, bytes) ==
    Once(Min({Cardinality(match), limit, work, bytes}), LAMBDA n :
        [facts |-> Prefix(match, n), examined |-> n,
         stop |-> CASE n = work -> {"max_fact_work"}
                    [] n = Cardinality(match) -> {}
                    [] n = limit -> {"max_facts"}
                    [] OTHER -> {"max_fact_bytes"}])

CanRead(s) == s.work # 0 /\ s.bytes # 0 /\ s.probes # 0

\* include: the rows among the matching ones that are kept.  What the cut leaves
\* out is always recorded as a reason.
Add(selection, limit, match, include) == Once(selection, LAMBDA s :
    IF s.work = 0 \/ s.probes = 0 THEN [s EXCEPT !.reasons = @ \cup {"max_fact_work"}]
    ELSE IF s.bytes = 0 THEN [s EXCEPT !.reasons = @ \cup {"max_fact_bytes"}]
    ELSE Once(ReadFacts(match, limit, s.work, s.bytes), LAMBDA page :
         Once(s.facts \cup (page.facts \cap include), LAMBDA all :
             [facts   |-> Prefix(all, limit),
              reasons |-> s.reasons \cup page.stop \cup
                          (IF Cardinality(all) > limit THEN {"max_facts"} ELSE {}),
              work    |-> s.work - page.examined,
              bytes   |-> s.bytes - Cardinality(page.facts),
              probes  |-> s.probes - 1])))

Certificate(kind, scope, result, members) ==
    [kind |-> kind, scope |-> scope, reasons |-> result.reasons, examined |-> result.examined,
     members |-> members]

Finish(s) == [facts |-> s.facts, reasons |-> s.reasons, examined |-> MaxWork - s.work]

\* scope: the reference a query is about, as a set; empty when there is none.
RunFactQuery(store, kind, scope, budget) ==
    LET Select(s, ref) ==
            FoldOnce(LAMBDA t, x : Add(t, budget.facts, ByCell(store, x[1], x[2], ref), store.facts),
                     s, SlotSelectors(kind, ref))
        Certified(result) == result @@ [cert |-> Certificate(kind, scope, result, result.facts)]
    IN  Once(Once(FoldSetOnce(LAMBDA ref, s : Select(s, ref), FactSelection, scope), Finish), Certified)

----------------------------------------------------------------------------
(* The value-flow query.                                                   *)

FlowEdges(g) == {e \in g.edges : e.kind = "flows_to"}

\* Simple paths with at most depth edges; a node is on a path once.
RECURSIVE Extend(_, _, _, _)
Extend(g, dst, path, depth) ==
    IF Last(path) = dst THEN {path}
    ELSE IF depth = 0 THEN {}
    ELSE UNION {Extend(g, dst, Append(path, e.dst), depth - 1) :
                e \in {x \in FlowEdges(g) : x.src = Last(path) /\ x.dst \notin Range(path)}}

EnumeratePaths(g, src, dst, depth) == IF src = dst THEN {} ELSE Extend(g, dst, <<src>>, depth)

RECURSIVE Forwards(_, _)
Forwards(g, S) ==
    Once(S \cup {e.dst : e \in {x \in FlowEdges(g) : x.src \in S}}, LAMBDA T :
        IF T = S THEN S ELSE Forwards(g, T))

Reachable(g, src, dst) == dst \in Forwards(g, {src})

\* Path after path in order, until one is too many or brings too many nodes.
RECURSIVE TakePaths(_, _, _)
TakePaths(paths, budget, acc) ==
    IF paths = {} THEN [acc EXCEPT !.examined = Cardinality(acc.paths)]
    ELSE Once(CHOOSE q \in paths : TRUE, LAMBDA p :
             CASE Cardinality(acc.paths) = budget.paths ->
                    [acc EXCEPT !.reasons = {"max_paths"}, !.examined = budget.paths + 1]
               [] Cardinality(acc.nodes \cup Range(p)) > budget.nodes ->
                    [acc EXCEPT !.reasons = {"max_nodes"}, !.examined = Cardinality(acc.paths) + 1]
               [] OTHER -> Once([acc EXCEPT !.paths = @ \cup {p}, !.nodes = @ \cup Range(p)],
                                LAMBDA more : TakePaths(paths \ {p}, budget, more)))

\* A flow that is reachable yet without a path is beyond the depth.
FlowPaths(g, src, dst, budget) ==
    LET none == [paths |-> {}, nodes |-> {}, reasons |-> {}, examined |-> 0]
    IN  Once(EnumeratePaths(g, src, dst, budget.depth), LAMBDA found :
            IF found # {} THEN TakePaths(found, budget, none)
            ELSE [none EXCEPT !.reasons = IF Reachable(g, src, dst) THEN {"max_depth"} ELSE {}])

PathEdges(g, paths) ==
    {e \in FlowEdges(g) : \E p \in paths : \E i \in 1 .. Len(p) - 1 : <<p[i], p[i + 1]>> = <<e.src, e.dst>>}

\* The facts of the two ends, and those between two nodes of any found path.
FlowFacts(g, store, src, dst, budget) ==
    LET Between(rows, onPath) == {r \in rows : Cell(r, 1) \in onPath}
        Ends(s, rel) == Add(Add(s, budget.facts, ByCell(store, rel, 0, src), store.facts),
                            budget.facts, ByCell(store, rel, 1, dst), store.facts)
        Inner(s, rel, onPath) ==
            FoldSetOnce(LAMBDA n, t : Once(ByCell(store, rel, 0, n), LAMBDA rows :
                                          Add(t, budget.facts, rows, Between(rows, onPath))),
                        s, onPath \ {src})
        Select(onPath) == FoldOnce(LAMBDA s, rel : Inner(Ends(s, rel), rel, onPath), FactSelection,
                                   <<"GlobalFlow", "SupportGlobalFlow">>)
    IN  Once(Once(UNION {Range(p) : p \in EnumeratePaths(g, src, dst, budget.depth)}, Select), Finish)

FlowMembers(nodes, edges) == nodes \cup {EdgeKey(e) : e \in edges}

RunValueFlow(g, store, src, dst, budget) ==
    LET Slice(walk, chosen, edges) ==
                 [nodes |-> walk.nodes, edges |-> edges,
                  reasons |-> walk.reasons \cup chosen.reasons,
                  examined |-> walk.examined + chosen.examined,
                  contradicting |-> {r \in chosen.facts : Ep(r) = "MUST_NOT"},
                  unknowns |-> {r \in chosen.facts : Ep(r) = "UNKNOWN"},
                  supporting |-> {r \in chosen.facts : Ep(r) \notin {"MUST_NOT", "UNKNOWN"}}]
        Certified(s) == s @@ [cert |-> Certificate("value_flow", {src, dst}, s, FlowMembers(s.nodes, s.edges))]
    IN  Once(FlowPaths(g, src, dst, budget), LAMBDA walk :
        Once(FlowFacts(g, store, src, dst, budget), LAMBDA chosen :
        Once(Slice(walk, chosen, PathEdges(g, walk.paths)), Certified)))

----------------------------------------------------------------------------
(* Explanations: breadth first from a fact through its selected proofs.    *)

\* The first of a fact's selected proofs must be the one its binding names.
Proof(store, f) == CHOOSE x \in store.proofs : x.result = f
StaleProof(store, f) == Witness(Proof(store, f)) \notin store.bound

InputKind(store, i) == IF i \in store.facts THEN "derived" ELSE "rooted"
WitnessEdges(store, x) ==
    [i \in DOMAIN x.inputs |-> <<x.result, i, x.inputs[i], InputKind(store, x.inputs[i])>>]

Facts1(queue) == {t[1] : t \in Range(queue)}
Halt(g, reason, frontier) == [g EXCEPT !.reason = {reason}, !.frontier = frontier]

RECURSIVE Walk(_, _, _, _)
Walk(store, budget, g, queue) ==
    IF queue = <<>> THEN g
    ELSE LET fact  == Head(queue)[1]
             next  == Head(queue)[2] + 1
             all   == WitnessEdges(store, Proof(store, fact))
             taken == SubSeq(all, 1, Min({Len(all), budget.nodes - Cardinality(g.edges)}))
             fresh == SelectSeq(taken, LAMBDA e : e[4] = "derived" /\ e[3] \notin g.seen)
             rest  == Tail(queue) \o [i \in DOMAIN fresh |-> <<fresh[i][3], next>>]
             grown == [g EXCEPT !.nodes = @ \cup {fact}, !.edges = @ \cup Range(taken),
                                !.seen = @ \cup {e[3] : e \in Range(fresh)}]
         IN  IF Head(queue)[2] > budget.prov THEN Halt(g, "max_depth", Facts1(queue))
             ELSE IF StaleProof(store, fact) THEN [g EXCEPT !.stale = TRUE]
             ELSE IF Cardinality(g.nodes) >= budget.nodes THEN Halt(g, "max_nodes", Facts1(queue))
             ELSE IF Len(taken) < Len(all) THEN Halt(grown, "max_edges", {fact} \cup Facts1(rest))
             ELSE Once(grown, LAMBDA h : Once(rest, LAMBDA q : Walk(store, budget, h, q)))

Explain(store, fact, budget) ==
    Walk(store, budget, [nodes |-> {}, edges |-> {}, seen |-> {fact}, reason |-> {}, frontier |-> {}, stale |-> FALSE],
         <<<<fact, 0>>>>)

\* One closure for the whole case holds at most budget.nodes members.
Admit(S, new, have, budget) ==
    LET room == budget.nodes - have IN (new \cap S) \cup Prefix(new \ S, IF room > 0 THEN room ELSE 0)

Size(a) == Cardinality(a.nodes) + Cardinality(a.edges)

\* acc with as much of the explanation g of fact as there is room for.
Joined(acc, fact, g, nodes, edges) ==
    LET cut   == (g.nodes \ nodes) \cup {e[1] : e \in g.edges \ edges}
        open == g.frontier \cup cut \cup ({fact} \ nodes)
                 \cup {e[3] : e \in {x \in edges : x[4] = "derived" /\ x[3] \notin nodes}}
        why  == g.reason \cup (IF cut = {} THEN {} ELSE {"max_provenance_members"})
                 \cup (IF fact \in nodes \/ g.reason # {} THEN {} ELSE {"missing_selected_witness"})
    IN  [nodes |-> acc.nodes \cup nodes, edges |-> acc.edges \cup edges, stale |-> acc.stale \/ g.stale,
         explanations |-> acc.explanations \cup
             {[fact |-> fact, reasons |-> why,
               frontier |-> IF why # {} /\ open = {} THEN {fact} ELSE open]}]

AddExplanation(store, budget, acc, fact) ==
    LET Owned(g, nodes) == {e \in g.edges : e[1] \in nodes}
        Some(nodes) == Size([acc EXCEPT !.nodes = @ \cup nodes])
    IN  Once(Explain(store, fact, budget), LAMBDA g :
        Once(Admit(acc.nodes, g.nodes, Size(acc), budget), LAMBDA nodes :
        Once(Admit(acc.edges, Owned(g, nodes), Some(nodes), budget), LAMBDA edges :
            Joined(acc, fact, g, nodes, edges))))

----------------------------------------------------------------------------
(* The handoff.                                                            *)

FindContainingFunction(g, id) == {n \in Owner(g, id) : n[1] = "fn"}

Slots == {"range", "capacity", "alias", "unknown", "dominating_check"}
QueryKinds == Slots \cup {"value_flow"}

Results6(h) == [k \in QueryKinds |-> IF k = "value_flow" THEN h.flow ELSE h.slots[k]]
FlowFactsOf(h) == h.flow.supporting \cup h.flow.contradicting \cup h.flow.unknowns
Selected(h) == FlowFactsOf(h) \cup UNION {h.slots[k].facts : k \in Slots}

\* No native producer closes a world or supports the memory predicates.
NativeCoverage(kind, scope, frontier) ==
    [supported |-> kind \in {"value_flow", "unknown"}, closed |-> FALSE,
     resolved |-> scope # {}, frontier |-> frontier]

\* What the case must not go without: the handoffs are none where a proof or
\* a summary it cites is stale, one otherwise.
HandoffContent(g, store, seed, budget) ==
    LET function == {Fn(seed.owner)}
        Scope(k) == CASE k = "range" -> {seed.source} [] k \in {"capacity", "alias"} -> {seed.subject}
                      [] k = "unknown" -> function [] k = "dominating_check" -> {seed.sink}
        Query(k) == RunFactQuery(store, k, Scope(k), budget)
        Explained(bare) == FoldSetOnce(LAMBDA f, acc : AddExplanation(store, budget, acc, f),
                                       [nodes |-> {}, edges |-> {}, explanations |-> {}, stale |-> FALSE], Selected(bare))
        Open1(bare) == bare.flow.unknowns \cup bare.slots["unknown"].facts
        Cited(prov) == UNION {Proof(store, n).summary : n \in prov.nodes}
        Refs(bare, prov) == function \cup UNION {FindContainingFunction(g, n) : n \in bare.flow.nodes}
                            \cup Cited(prov)
        Content(bare, prov, artifacts) == bare @@ prov @@
            [certs |-> {bare.flow.cert} \cup {bare.slots[k].cert : k \in Slots},
             coverage |-> [k \in QueryKinds |->
                 NativeCoverage(k, IF k = "value_flow" THEN bare.flow.cert.scope ELSE Scope(k), Open1(bare))],
             truncated |-> \E x \in prov.explanations : x.reasons # {},
             summaries |-> {a[2] : a \in artifacts}, selections |-> artifacts, cited |-> Cited(prov)]
        Handoffs(bare, prov) == IF prov.stale THEN {}
                                ELSE {Content(bare, prov, artifacts) : artifacts \in ReadSummaries(store, Refs(bare, prov))}
    IN  Once([seed |-> seed, flow |-> RunValueFlow(g, store, seed.source, seed.sink, budget),
              slots |-> [range |-> Query("range"), capacity |-> Query("capacity"), alias |-> Query("alias"),
                         unknown |-> Query("unknown"), dominating_check |-> Query("dominating_check")]],
             LAMBDA bare : Once(Explained(bare), LAMBDA prov : Handoffs(bare, prov)))

\* A claim that is not the one its call site raises is refused.
BuildEvidenceInput(g, store, seed, budget) ==
    UNION {HandoffContent(g, store, s, budget) : s \in {t \in ResolveOverflowClaimSeed(g, seed.site) : t = seed}}

----------------------------------------------------------------------------
(* The handoff's own check.                                                *)

Described(kind, result, cert) ==
    /\ cert.kind = kind /\ cert.reasons = result.reasons /\ cert.examined = result.examined
    /\ cert.members = IF kind = "value_flow" THEN FlowMembers(result.nodes, result.edges) ELSE result.facts

ValidExplanation(h, x) ==
    /\ x.fact \in Selected(h)
    /\ x.reasons = {} => x.fact \in h.nodes /\ x.frontier = {}
    /\ x.reasons # {} => h.truncated /\ x.frontier # {}

RECURSIVE Kahn(_, _)
Kahn(edges, left) ==
    Once({n \in left : ~\E e \in edges : e[2] = n /\ e[1] \in left}, LAMBDA ready :
        IF ready = {} THEN left = {} ELSE Once(left \ ready, LAMBDA rest : Kahn(edges, rest)))
Acyclic(relation) ==
    Once(relation, LAMBDA edges :
        Once({e[1] : e \in edges} \cup {e[2] : e \in edges}, LAMBDA all : Kahn(edges, all)))

\* A selected summary advertises the digests its content has.
ValidSelections(h) ==
    /\ \A a, b \in h.selections : a[2] = b[2] => a = b
    /\ \A a \in h.selections : a[3].digests = ComputeComponentDigests(a[3])

CitedSummaries(h) == h.summaries # {} => h.cited \subseteq h.selections

ExplainsSelection(h) ==
    /\ {x.fact : x \in h.explanations} = Selected(h)
    /\ \A x \in h.explanations : ValidExplanation(h, x)
    /\ \A e \in h.edges : e[1] \in h.nodes
    /\ Acyclic({<<e[1], e[3]>> : e \in {x \in h.edges : x[4] = "derived"}})

CoverageBindsResults(h) ==
    \A k \in QueryKinds : \E c \in h.certs :
       Described(k, Results6(h)[k], c) /\ (h.coverage[k].resolved <=> c.scope # {})

ValidateEvidenceHandoffCoverage(h) ==
    ValidSelections(h) /\ CitedSummaries(h) /\ Cardinality(h.certs) = 6 /\ ExplainsSelection(h) /\ CoverageBindsResults(h)

=============================================================================
