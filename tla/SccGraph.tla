------------------------------ MODULE SccGraph ------------------------------
(***************************************************************************)
(* SccGraph::Build: the strongly connected components of a call graph and  *)
(* their bottom-up order, in which the whole-program run takes them.       *)
(*                                                                         *)
(* The component search is the code's iterative depth-first search, one    *)
(* step at a time.  Component ids are digests, so the order in which the   *)
(* ready components leave the priority queue is any order.  Function ids   *)
(* are numbers: the code sorts functions and callees by id.                *)
(***************************************************************************)
EXTENDS Integers, Sequences, FiniteSets, Functions

VARIABLES
    graph,     \* the call graph: its functions and edges
    index,     \* discovery numbers of the functions seen so far
    lowlink,
    stack,     \* Tarjan's stack
    dfs,       \* the frames: a vertex and the callees still to look at
    sccs,      \* the components found
    order      \* the components in reverse topological order

searchVars == <<index, lowlink, stack, dfs, sccs, order>>
sccVars == <<graph, searchVars>>

Callees(f) == {e.callee : e \in {x \in graph.edges : x.caller = f}}

SearchInit ==
    /\ index = <<>> /\ lowlink = <<>>
    /\ stack = <<>> /\ dfs = <<>>
    /\ sccs = {} /\ order = <<>>

OnStack(v) == v \in Range(stack)

Assign(m, v, n) == [w \in DOMAIN m \cup {v} |-> IF w = v THEN n ELSE m[w]]

PushVertex(v, frames) ==
    /\ index' = Assign(index, v, Cardinality(DOMAIN index))
    /\ lowlink' = Assign(lowlink, v, Cardinality(DOMAIN index))
    /\ stack' = Append(stack, v)
    /\ dfs' = Append(frames, [vertex |-> v, callees |-> Callees(v)])

\* The outer loop: the least function that has no number yet.
Discover ==
    /\ dfs = <<>>
    /\ \E v \in graph.functions :
         /\ v \notin DOMAIN index
         /\ \A w \in graph.functions : w < v => w \in DOMAIN index
         /\ PushVertex(v, dfs)
    /\ UNCHANGED <<graph, sccs, order>>

Top == Len(dfs)

\* Mutant: a callee of a finished component lowers the link too.
VisitCalleeAnywhere ==
    /\ dfs # <<>>
    /\ \E callee \in dfs[Top].callees :
         /\ \A w \in dfs[Top].callees : callee <= w
         /\ LET vertex == dfs[Top].vertex
                frames == [dfs EXCEPT ![Top].callees = @ \ {callee}]
            IN  IF callee \notin DOMAIN index
                THEN PushVertex(callee, frames)
                ELSE /\ dfs' = frames
                     /\ lowlink' = IF index[callee] < lowlink[vertex]
                                   THEN [lowlink EXCEPT ![vertex] = index[callee]]
                                   ELSE lowlink
                     /\ UNCHANGED <<index, stack>>
    /\ UNCHANGED <<graph, sccs, order>>

\* The least callee left of the top frame: descend, or lower the link, or skip it.
VisitCallee ==
    /\ dfs # <<>>
    /\ \E callee \in dfs[Top].callees :
         /\ \A w \in dfs[Top].callees : callee <= w
         /\ LET vertex == dfs[Top].vertex
                frames == [dfs EXCEPT ![Top].callees = @ \ {callee}]
            IN  IF callee \notin DOMAIN index
                THEN PushVertex(callee, frames)
                ELSE /\ dfs' = frames
                     /\ lowlink' = IF OnStack(callee) /\ index[callee] < lowlink[vertex]
                                   THEN [lowlink EXCEPT ![vertex] = index[callee]]
                                   ELSE lowlink
                     /\ UNCHANGED <<index, stack>>
    /\ UNCHANGED <<graph, sccs, order>>

\* A finished frame: pop its component if it is a root, then lower the parent.
Retreat ==
    /\ dfs # <<>> /\ dfs[Top].callees = {}
    /\ LET v    == dfs[Top].vertex
           from == CHOOSE i \in DOMAIN stack : stack[i] = v
           root == lowlink[v] = index[v]
       IN  /\ stack' = IF root THEN SubSeq(stack, 1, from - 1) ELSE stack
           /\ sccs' = IF root
                      THEN sccs \cup {{stack[i] : i \in from .. Len(stack)}}
                      ELSE sccs
           /\ dfs' = SubSeq(dfs, 1, Top - 1)
           /\ lowlink' = IF Top > 1 /\ lowlink[v] < lowlink[dfs[Top - 1].vertex]
                         THEN [lowlink EXCEPT ![dfs[Top - 1].vertex] = lowlink[v]]
                         ELSE lowlink
    /\ UNCHANGED <<graph, index, order>>

Explored == dfs = <<>> /\ DOMAIN index = graph.functions

SccForFunction(f) == CHOOSE c \in sccs : f \in c
Successors(c) == {SccForFunction(g) : g \in UNION {Callees(f) : f \in c}} \ {c}

\* A component is ready when all its successors are out.
EmitScc ==
    /\ Explored
    /\ \E c \in sccs \ Range(order) :
         /\ Successors(c) \subseteq Range(order)
         /\ order' = Append(order, c)
    /\ UNCHANGED <<graph, index, lowlink, stack, dfs, sccs>>

Ordered == Explored /\ Range(order) = sccs

SccNext == Discover \/ VisitCallee \/ Retreat \/ EmitScc

----------------------------------------------------------------------------

\* The search by itself, over any finite graph.
IsGraph(g) ==
    /\ IsFiniteSet(g.functions)
    /\ \A e \in g.edges : e.caller \in g.functions /\ e.callee \in g.functions

Search == IsGraph(graph) /\ SearchInit /\ [][SccNext]_sccVars

\* g is in every set that has f and the callees of its members.
Reaches(f, g) ==
    \A S \in SUBSET graph.functions :
        f \in S /\ (\A h \in S : Callees(h) \subseteq S) => g \in S

SccOf(f) == {g \in graph.functions : Reaches(f, g) /\ Reaches(g, f)}

\* SccGraph::Build, whichever way the calls go between the functions: the
\* search ends with exactly the classes of functions that reach each other; a
\* component leaves the queue after everything its members call; and until all
\* are out one is ready, so that Build never returns "SCC condensation graph
\* contains a cycle".
SccGraphExact ==
    /\ IsGraph(graph)
    /\ Explored => sccs = {SccOf(f) : f \in graph.functions}
    /\ \A i \in DOMAIN order : \A f \in order[i] :
         Callees(f) \subseteq UNION {order[j] : j \in 1 .. i}
    /\ Explored /\ ~Ordered =>
         \E c \in sccs \ Range(order) : Successors(c) \subseteq Range(order)

=============================================================================
