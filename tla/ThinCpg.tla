------------------------------ MODULE ThinCpg ------------------------------
(***************************************************************************)
(* The code property graph of an analysed program: what the compiler says  *)
(* about its call sites and the owners of its entities, what the summaries *)
(* say about calls, memory, flows and aliases, the rows it is stored as,   *)
(* and the traversals and the claim that are read from it.                 *)
(*                                                                         *)
(* A node is <<kind, id>>; its label matters only where two nodes could    *)
(* have one id.  An edge id hashes the edge, so a graph's edges are a set. *)
(***************************************************************************)
EXTENDS SvfAnalysis, SequencesExt

CONSTANT Memcpy   \* the declared function that is the memcpy of the C ABI

ASSUME MemcpyAssumption == Memcpy \in Declared

Fn(f) == <<"fn", f>>
Site(s) == <<"site", s>>
Val(v) == <<"val", v>>
Mem(l) == <<"mem", l>>
Sum(f) == <<"sum", f>>
UnknownSymbol(sym) == <<"unknown", 0, sym>>
UnknownScope(f, u) == <<"unknown", IF u.kind = "svf" THEN -1 ELSE f, u.reason>>

Node(id, label) == [id |-> id, label |-> label]
Ids(nodes) == {n.id : n \in nodes}
EdgeId(kind, src, dst, alias, support) ==
    [kind |-> kind, src |-> src, dst |-> dst, alias |-> alias, support |-> support,
     expandable |-> kind = "summarized"]
AddSemanticEdge(kind, src, dst, support) == EdgeId(kind, src, dst, "none", support)

----------------------------------------------------------------------------
(* What the compiler knows: call sites with their operands, and owners.    *)

Called(c) == IF Direct(c) THEN Target(c) ELSE NoId
CalleeNode(c) == IF Called(c) \in Function THEN Fn(Called(c)) ELSE UnknownSymbol(Called(c))

\* A pointer the memory builder cannot place leaves its argument without a
\* memory reference, and the call without its normalized operation.
IsMemcpyAbi(c) == Called(c) = Memcpy
NormalizedOperation(c) == IF IsMemcpyAbi(c) /\ c.obj # Opaque THEN "memcpy.v1" ELSE ""

Binding(p, s) ==
    LET c == Code(p, s)
    IN  [site |-> s, owner |-> s[1], callee |-> CalleeNode(c), op |-> NormalizedOperation(c),
         args |-> {IdFor(s[1], u) : u \in c.uses}, result |-> IdFor(s[1], s[2]),
         memory |-> IF IsMemcpyAbi(c) /\ c.obj # Opaque
                    THEN {LocationId([obj |-> c.obj, path |-> c.path])} ELSE {}]

CallSites(p) == At(p, CallOps)

AddCompilerCallSites(p) ==
    Once({Binding(p, s) : s \in CallSites(p)}, LAMBDA calls :
        [calls |-> calls,
         nodes |-> UNION {{Node(Site(b.site), "symbol"), Node(b.callee, "symbol"),
                           Node(Val(b.result), "id")}
                          \cup {Node(Val(v), "id") : v \in b.args}
                          \cup {Node(Mem(l), "object") : l \in b.memory} : b \in calls},
         edges |-> {AddSemanticEdge(IF Called(Code(p, b.site)) = NoId THEN "may_call" ELSE "calls",
                                    Site(b.site), b.callee, {}) : b \in calls}])

\* A stack slot belongs to the function that allocates it, a global to none.
OwnedMemory(p, f) ==
    {LocationId(LocationFor(Code(p, s), s, FALSE)) :
        s \in {t \in At(p, {"load", "store"}) : t[1] = f /\ Code(p, t).obj[1] = f}}

CollectEntityOwners(p) ==
    UNION {{<<Val(IdFor(f, k)), f>> : k \in 0 .. Len(p[f])}
           \cup {<<Site(s), f>> : s \in {t \in CallSites(p) : t[1] = f}}
           \cup {<<Mem(l), f>> : l \in OwnedMemory(p, f)} : f \in Function}

OneOwner(owners) == \A x, y \in owners : x[1] = y[1] => x[2] = y[2]

CaptureCompilerProjection(p) ==
    [AddCompilerCallSites(p) EXCEPT !.nodes = @ \cup {Node(Fn(f), "symbol") : f \in Function}]

----------------------------------------------------------------------------
(* What the summaries say.                                                 *)

SummaryCall(f, c) ==
    LET known == c.callee \in Function
        dst == IF known THEN Fn(c.callee) ELSE UnknownSymbol(c.sym)
    IN  [nodes |-> {Node(dst, "symbol")},
         edges |-> {AddSemanticEdge(IF known /\ c.ep = "MUST" THEN "calls" ELSE "may_call",
                                    Fn(f), dst, {<<f, c.prov>>})}]

SummaryEffect(f, e) ==
    [nodes |-> {Node(Mem(LocationId(e.loc)), "object")},
     edges |-> {AddSemanticEdge(IF e.kind = "WRITE" THEN "writes" ELSE "reads",
                                Fn(f), Mem(LocationId(e.loc)), {<<f, e.prov>>})}]

SummaryFlow(f, x) ==
    [nodes |-> {Node(Val(x.src), "id"), Node(Val(x.dst), "id")},
     edges |-> {AddSemanticEdge("flows_to", Val(x.src), Val(x.dst), {<<f, "none">>})}]

\* The kind of an alias is stated as it is, never derived from its state.
SummaryAlias(f, a) ==
    [nodes |-> {Node(Mem(LocationId(a.left)), "object"), Node(Mem(LocationId(a.right)), "object")},
     edges |-> {EdgeId("aliases", Mem(LocationId(a.left)), Mem(LocationId(a.right)), a.kind,
                       {<<f, a.prov>>})}]

SummaryUnknown(f, u) ==
    [nodes |-> {Node(UnknownScope(f, u), u.kind)},
     edges |-> {AddSemanticEdge("unknown_at", Fn(f), UnknownScope(f, u), {<<f, "none">>})}]

OfSummary(f, s) ==
    {[nodes |-> {Node(Sum(f), "symbol")},
      edges |-> {AddSemanticEdge("summarized", Fn(f), Sum(f), {<<f, "none">>})}]}
    \cup {SummaryCall(f, c) : c \in s.calls} \cup {SummaryEffect(f, e) : e \in s.effects}
    \cup {SummaryFlow(f, x) : x \in s.flows} \cup {SummaryAlias(f, a) : a \in s.aliases}
    \cup {SummaryUnknown(f, u) : u \in s.unknowns}

\* A node the summaries declared keeps their label.
BuildThinCpg(p, sums) ==
    LET Stated(parts) == {Node(Fn(f), "symbol") : f \in Function} \cup UNION {x.nodes : x \in parts}
        All(stated, ids, compiler) == stated \cup {n \in compiler.nodes : n.id \notin ids}
        Owned(ids) == {o \in CollectEntityOwners(p) : o[1] \in ids}
        Graph(compiler, parts, nodes) ==
            [nodes |-> nodes, calls |-> compiler.calls,
             edges |-> UNION {x.edges : x \in parts} \cup compiler.edges
                       \cup {AddSemanticEdge("contains", Fn(o[2]), o[1], {}) : o \in Once(Ids(nodes), Owned)}]
    IN  Once(CaptureCompilerProjection(p), LAMBDA compiler :
        Once(UNION {OfSummary(f, sums[f]) : f \in Function}, LAMBDA parts :
        Once(Stated(parts), LAMBDA stated :
        Once(Once(Ids(stated), LAMBDA ids : All(stated, ids, compiler)), LAMBDA nodes :
            Graph(compiler, parts, nodes)))))

----------------------------------------------------------------------------
(* The graph's own checks.                                                 *)

AddNode(nodes) == \A m, n \in nodes : m.id = n.id => m.label = n.label
AddEdge(edges) == \A e \in edges : (e.kind = "aliases") <=> (e.alias # "none")
AddCallSiteBinding(calls) ==
    /\ \A b, c \in calls : b.site = c.site => b = c
    /\ \A b \in calls : b.op # "" => b.memory # {}

Owner(g, id) == {e.src : e \in {x \in g.edges : x.kind = "contains" /\ x.dst = id}}

ValidBinding(g, b) ==
    /\ Owner(g, Site(b.site)) = {Fn(b.owner)}
    /\ {Site(b.site), b.callee, Val(b.result)} \subseteq Ids(g.nodes)
    /\ \A v \in b.args : Val(v) \in Ids(g.nodes) /\ Owner(g, Val(v)) \subseteq {Fn(b.owner)}
    /\ {Mem(l) : l \in b.memory} \subseteq Ids(g.nodes)
    /\ \E e \in g.edges : e.kind \in {"calls", "may_call"} /\ e.src = Site(b.site) /\ e.dst = b.callee

ValidGraph(g) ==
    /\ AddNode(g.nodes) /\ AddEdge(g.edges) /\ AddCallSiteBinding(g.calls)
    /\ \A e \in g.edges : {e.src, e.dst} \subseteq Ids(g.nodes)
    /\ \A n \in g.nodes : n.id[1] = "site" => \E b \in g.calls : Site(b.site) = n.id
    /\ \A e \in g.edges : e.kind = "contains" => e.src[1] = "fn" /\ Owner(g, e.dst) = {e.src}
    /\ \A b \in g.calls : ValidBinding(g, b)

----------------------------------------------------------------------------
(* The stored projection: flat rows, keyed by the projection's id.         *)

AliasCode(a) == CASE a = "none" -> -1 [] a = "MustAlias" -> 0 [] a = "MayAlias" -> 1
                  [] a = "NoAlias" -> 2

EdgeKey(e) == <<e.kind, e.src, e.dst, e.alias, e.support>>

\* Mutant: the edges are stored without the summaries they rest on.
StageUnsupported(g) ==
    [nodes     |-> {<<n.id, n.label>> : n \in g.nodes},
     edges     |-> {<<EdgeKey(e), e.kind, e.src, e.dst, AliasCode(e.alias), e.expandable>> :
                    e \in g.edges},
     support   |-> {},
     bindings  |-> {<<b.site, b.owner, b.callee, b.op, b.result>> : b \in g.calls},
     arguments |-> UNION {{<<b.site, v>> : v \in b.args} : b \in g.calls},
     memories  |-> UNION {{<<b.site, l>> : l \in b.memory} : b \in g.calls}]

StageProjection(g) ==
    [nodes     |-> {<<n.id, n.label>> : n \in g.nodes},
     edges     |-> {<<EdgeKey(e), e.kind, e.src, e.dst, AliasCode(e.alias), e.expandable>> :
                    e \in g.edges},
     support   |-> UNION {{<<EdgeKey(e), s>> : s \in e.support} : e \in g.edges},
     bindings  |-> {<<b.site, b.owner, b.callee, b.op, b.result>> : b \in g.calls},
     arguments |-> UNION {{<<b.site, v>> : v \in b.args} : b \in g.calls},
     memories  |-> UNION {{<<b.site, l>> : l \in b.memory} : b \in g.calls}]

AliasState(code) ==
    CHOOSE a \in {"none", "MustAlias", "MayAlias", "NoAlias"} : AliasCode(a) = code

\* The second columns of the rows whose key is k.
Of(rows, k) == {r[2] : r \in {x \in rows : x[1] = k}}

\* The loaded graph must validate and hash to the id it was asked for.
LoadProjection(rows, id) ==
    Once([nodes |-> {Node(r[1], r[2]) : r \in rows.nodes},
              edges |-> {[kind |-> r[2], src |-> r[3], dst |-> r[4], alias |-> AliasState(r[5]),
                          support |-> Of(rows.support, r[1]), expandable |-> r[6]] :
                         r \in rows.edges},
              calls |-> {[site |-> r[1], owner |-> r[2], callee |-> r[3], op |-> r[4],
                          args |-> Of(rows.arguments, r[1]), result |-> r[5],
                          memory |-> Of(rows.memories, r[1])] : r \in rows.bindings}],
         LAMBDA g : IF ValidGraph(g) /\ g = id THEN g ELSE [nodes |-> {}, edges |-> {}, calls |-> {}])

----------------------------------------------------------------------------
(* Traversals: depth first, no node entered twice, every cut recorded.     *)

EdgesFrom(g, kinds, n) == {e \in g.edges : e.kind \in kinds /\ e.src = n}

RECURSIVE Dfs(_, _, _, _, _, _, _)
Dfs(g, kinds, budget, dst, acc, path, depth) ==
    LET node == Last(path)
        here == [acc EXCEPT !.explored = @ \cup {node}]
        Visit(a, e) ==
            CASE depth + 1 > budget.depth -> [a EXCEPT !.reasons = @ \cup {"max_depth"}]
              [] e.dst \in a.explored -> a
              [] Cardinality(a.explored) >= budget.nodes -> [a EXCEPT !.reasons = @ \cup {"max_nodes"}]
              [] OTHER -> Dfs(g, kinds, budget, dst, a, Append(path, e.dst), depth + 1)
    IN  IF node # dst THEN FoldOnce(Visit, here, SetToSeq(EdgesFrom(g, kinds, node)))
        ELSE IF Cardinality(here.items) >= budget.paths
             THEN [here EXCEPT !.reasons = @ \cup {"max_paths"}]
             ELSE [here EXCEPT !.items = @ \cup {path}]

Traverse(g, kinds, src, dst, budget) ==
    Dfs(g, kinds, budget, dst, [explored |-> {}, items |-> {}, reasons |-> {}], <<src>>, 0)

GetValueFlow(g, src, dst, budget) == Traverse(g, {"flows_to"}, src, dst, budget)
GetCallPaths(g, src, dst, budget) == Traverse(g, {"calls", "may_call"}, src, dst, budget)

----------------------------------------------------------------------------
(* The claim a memcpy call site raises.                                    *)

LocalValues(g, f) == {e.dst : e \in EdgesFrom(g, {"contains"}, Fn(f))}

Parents(g, local, S) ==
    {e.src : e \in {x \in g.edges : x.kind = "flows_to" /\ x.dst \in S /\ {x.src, x.dst} \subseteq local}}

RECURSIVE Backwards(_, _, _)
Backwards(g, local, S) ==
    Once(S \cup Parents(g, local, S), LAMBDA T : IF T = S THEN S ELSE Backwards(g, local, T))

\* The extent's unique root among the caller's own values, or the extent.
ClaimSource(g, f, extent) ==
    LET Rooted(local) == {v \in Backwards(g, local, {extent}) : Parents(g, local, {v}) = {}}
    IN  Once(Once(LocalValues(g, f), Rooted), LAMBDA roots :
            IF Cardinality(roots) = 1 THEN CHOOSE v \in roots : TRUE ELSE extent)

Sinks(g, site) == {b \in g.calls : b.op = "memcpy.v1" /\ (site # <<>> => b.site = site)}

\* No site or, without a selection, several sites resolve to no claim.
ResolveOverflowClaimSeed(g, site) ==
    {LET extent == Val(CHOOSE v \in b.args : TRUE)
     IN  [site |-> b.site, owner |-> b.owner, subject |-> Mem(CHOOSE l \in b.memory : TRUE),
          source |-> ClaimSource(g, b.owner, extent), sink |-> extent] :
        b \in {c \in Sinks(g, site) : ValidGraph(g) /\ Cardinality(Sinks(g, site)) = 1}}

=============================================================================
