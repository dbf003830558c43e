---------------------------- MODULE RuleEngine -----------------------------
(***************************************************************************)
(* One component of a whole-program run: the rows the materializer gives   *)
(* it, from the summaries of its functions and from the results of the     *)
(* components it calls.                                                    *)
(***************************************************************************)
EXTENDS SvfAnalysis, Rules

Component4 == <<"reachability", "memory-effects", "flow", "effects">>

----------------------------------------------------------------------------
(* The materializer.                                                       *)

\* Mutant: the state of the call is kept.
EpistemicAsStated(ep) == ep

\* A definite call does not make an unresolved target definite.
UnresolvedEpistemic(ep) ==
    CASE ep = "MUST" -> "MAY" [] ep \in {"INFERRED", "ASSUMED"} -> "UNKNOWN" [] OTHER -> ep

\* Mutant: a call in an admissible state is an edge, resolved or not.
AdmittedRow(f, c) ==
    IF c.ep \in {"MUST", "MAY", "INFERRED", "ASSUMED"}
    THEN <<"DirectCall", f, c.callee, c.ep, <<c.site, c.disp>>>>
    ELSE <<"UnknownCall", f, <<"site", c.site, c.sym>>, UnresolvedEpistemic(c.ep), <<c.site>>>>

CallRow(f, c) ==
    IF c.ep \in {"MUST", "MAY", "INFERRED", "ASSUMED"} /\ c.callee # NoId
    THEN <<"DirectCall", f, c.callee, c.ep, <<c.site, c.disp>>>>
    ELSE <<"UnknownCall", f, <<"site", c.site, c.sym>>, UnresolvedEpistemic(c.ep), <<c.site>>>>

MemoryEffectsOf(s) == {e \in s.effects : e.kind \in {"READ", "WRITE"}}

MemoryRow(f, e) ==
    <<IF e.kind = "WRITE" THEN "DirectWrite" ELSE "DirectRead",
      f, LocationId(e.loc), e.ep, <<e.loc.known>>>>

FlowRows(f, s) ==
    {<<"LocalFlow", x.src, x.dst, x.ep, <<f>>>> : x \in s.flows} \cup
    {<<"ParameterFlow", x.src, x.dst, x.ep, <<x.site>>>> : x \in s.params} \cup
    {<<"ReturnFlow", x.src, x.dst, x.ep, <<x.site>>>> : x \in s.returns}

FeatureRow(f, u) == <<"UnsupportedFeature", f, <<"feature", u.kind>>, "UNKNOWN", <<>>>>

LocalRows(s, f, comp) ==
    {CallRow(f, c) : c \in s.calls} \cup
    (CASE comp = "memory-effects" -> {MemoryRow(f, e) : e \in MemoryEffectsOf(s)}
       [] comp = "flow" -> FlowRows(f, s)
       [] comp = "effects" -> {FeatureRow(f, u) : u \in s.unknowns}
       [] OTHER -> {})

Materialize(sums, scc, comp, successorFacts) ==
    (UNION {LocalRows(sums[f], f, comp) : f \in scc}) \cup SupportRows(comp, successorFacts)

=============================================================================
