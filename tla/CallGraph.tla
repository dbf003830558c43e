----------------------------- MODULE CallGraph -----------------------------
(***************************************************************************)
(* The call graph a whole-program run builds from the function summaries.  *)
(*                                                                         *)
(* A graph is a record: the functions, the edges, the unknown-call         *)
(* effects, and ok, which is FALSE when a call is refused; the build then  *)
(* fails.                                                                  *)
(***************************************************************************)
EXTENDS SvfAnalysis

NoGraph == [functions |-> {}, edges |-> {}, unknowns |-> {}, ok |-> TRUE]

IsEdgeAdmissible(ep) == ep \in {"MUST", "MAY", "INFERRED", "ASSUMED"}

NormalizeCalls(s) == s.calls

\* AddCall takes e beside the edges of its site: one target unless none is
\* definite, and the same target twice only as the same fact.
AddCall(edges, e) ==
    \A x \in edges \ {e} : x.site = e.site => x.callee # e.callee /\ "MUST" \notin {x.ep, e.ep}

\* An unknown effect may stand beside edges of its site, and only once.
AddUnknownCall(unknowns, u) == \A x \in unknowns \ {u} : x.site # u.site

Resolved(functions, c) == IsEdgeAdmissible(c.ep) /\ c.callee \in functions

CallEdge(f, c) ==
    [caller |-> f, callee |-> c.callee, site |-> c.site, ep |-> c.ep, prov |-> c.prov]
UnknownCallEffect(f, c) == [caller |-> f, site |-> c.site, sym |-> c.sym, prov |-> c.prov]

\* All functions are in before the first call.  Whether a call is refused
\* depends on the others of its site, whichever of them comes first.
FromSummaries(sums) ==
    LET functions == DOMAIN sums
        edges == UNION {{CallEdge(f, c) : c \in {x \in NormalizeCalls(sums[f]) : Resolved(functions, x)}} :
                        f \in functions}
        unknowns == UNION {{UnknownCallEffect(f, c) :
                               c \in {x \in NormalizeCalls(sums[f]) : ~Resolved(functions, x)}} :
                           f \in functions}
    IN  [functions |-> functions, edges |-> edges, unknowns |-> unknowns,
         ok |-> /\ \A e \in edges : AddCall(edges, e)
                /\ \A u \in unknowns : AddUnknownCall(unknowns, u)]

=============================================================================
