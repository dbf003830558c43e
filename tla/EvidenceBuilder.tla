-------------------------- MODULE EvidenceBuilder --------------------------
(***************************************************************************)
(* An evidence case from a handoff: every selected fact, open question and *)
(* flow of the handoff becomes a member of the case under a local handle,  *)
(* and whatever a level leaves out is named by an omission.                *)
(*                                                                         *)
(* A handle is a tuple whose first element is its prefix.  An expression   *)
(* is <<kind, text, operands>>.  Wording, source anchors and the text of   *)
(* reasons are left out; what an omission names is kept.                   *)
(***************************************************************************)
EXTENDS EvidenceQuery

Level == {"L0", "L1", "L2"}

E(ref) == <<"E", ref>>
Claim == <<"C1">>
PathId == <<"P_value_flow">>

----------------------------------------------------------------------------
(* Expressions.                                                            *)

Reference(id) == <<"ref", id, <<>>>>
StringLiteral(s) == <<"string", s, <<>>>>
Integer(n) == <<"integer", n, <<>>>>
BoolTrue == <<"bool", TRUE, <<>>>>
CallExpr(f, args) == <<"call", f, args>>
Compare(op, l, r) == <<"compare", op, <<l, r>>>>
And(args) == <<"and", 0, args>>
Or(args) == <<"or", 0, args>>
Quantified(kind, var, domain, body) == <<kind, var, <<domain, body>>>>

ValueOf(id) == CallExpr("value", <<Reference(id)>>)
CapacityOf(id) == CallExpr("capacity", <<Reference(id)>>)
WithinCapacity(v, m) == Compare("<=", ValueOf(v), CapacityOf(m))

RECURSIVE CollectReferences(_)
CollectReferences(x) ==
    (IF x[1] = "ref" THEN {x[2]} ELSE {}) \cup UNION {CollectReferences(y) : y \in Range(x[3])}
Mentions(x, id) == id \in CollectReferences(x)

----------------------------------------------------------------------------
(* Entities and facts.                                                     *)

\* A summary or an unknown is no entity.
EntityKindFor(ref) ==
    CASE ref[1] = "fn" -> "function" [] ref[1] = "val" -> "value" [] ref[1] = "mem" -> "memory_object"
      [] ref[1] = "site" -> "call_site" [] OTHER -> "none"

NoteFactRefs(r) ==
    IF Rel(r) \in {"UnknownEffect", "DominatingCheck"} THEN {Cell(r, 0)} ELSE {Cell(r, 0), Cell(r, 1)}

AssignEntities(h) ==
    {[id |-> E(ref), kind |-> EntityKindFor(ref)] :
        ref \in h.flow.nodes \cup {h.seed.subject, h.seed.source, h.seed.sink}
                \cup UNION {NoteFactRefs(r) : r \in Selected(h)} \cup {Fn(f) : f \in h.summaries}}

\* The window of an access the analysis did not bound has no spelling.
ReadByteWindow(r) == r[5][1]

PredicateName(r) ==
    CASE Rel(r) = "DirectRead" -> "range" [] Rel(r) = "DirectWrite" -> "capacity"
      [] Rel(r) \in {"ReachableCall", "GlobalFlow"} -> "reachable" [] Rel(r) = "Alias" -> "alias"
      [] Rel(r) = "MayRead" -> "reads" [] Rel(r) = "MayWrite" -> "writes" [] OTHER -> ""

Mappable(r) == PredicateName(r) # "" /\ (Rel(r) \in {"DirectRead", "DirectWrite"} => ReadByteWindow(r))

\* One byte at offset zero stands for a known window.
MapFact(r) ==
    LET at(column) == Reference(E(Cell(r, column)))
        args == CASE Rel(r) = "DirectRead" -> <<at(1), Integer(0), Integer(1)>>
                  [] Rel(r) = "DirectWrite" -> <<at(1), Integer(1)>>
                  [] OTHER -> <<at(0), at(1)>>
    IN  CallExpr(PredicateName(r), args)

ConfidenceForState(ep) ==
    CASE ep \in {"MUST", "MUST_NOT"} -> "exact" [] ep = "MAY" -> "medium"
      [] ep \in {"INFERRED", "ASSUMED"} -> "low" [] OTHER -> "unknown"

\* Copied, never promoted; what is weaker than MUST owes its provenance.
Assemble1(id, predicate, ep, provenance) ==
    [id |-> id, predicate |-> predicate, ep |-> ep, confidence |-> ConfidenceForState(ep),
     derived |-> ep # "MUST", prov |-> provenance]

Omit(kind, what, subject, expandable) ==
    [id |-> <<"OM", kind, what>>, subject |-> subject, expandable |-> expandable]

----------------------------------------------------------------------------
(* Provenance: one record for a certificate, a witness, or a bare binding. *)

ProvenanceForFact(h, f) == IF f \in h.nodes THEN <<"PR_fact", f>> ELSE <<"PR_binding", f>>

Routed(h) == {r \in Selected(h) : Rel(r) \notin {"UnknownEffect", "DominatingCheck"}}
FactId(r) == <<"F", r>>

EdgesInto(h, f) == {e \in h.edges : e[1] = f}
LinkProvenance(h, f) == {FactId(i) : i \in {e[3] : e \in EdgesInto(h, f)} \cap Routed(h)}

BuildProvenance(h) ==
    {[id |-> <<"PR", c.kind>>, rule |-> "query_completion", inputs |-> {}] : c \in h.certs} \cup
    {[id |-> ProvenanceForFact(h, f), rule |-> IF f \in h.nodes THEN "witness" ELSE "",
      inputs |-> LinkProvenance(h, f)] : f \in h.nodes \cup {x.fact : x \in h.explanations}}

ProvenanceOmissions(h) == Once(Routed(h), LAMBDA routed :
    {Omit("provenance_frontier", x.fact, Claim, TRUE) :
        x \in {y \in h.explanations : y.reasons # {}}} \cup
    {Omit("provenance_premise", e, ProvenanceForFact(h, e[1]), TRUE) :
        e \in {x \in h.edges : x[3] \notin routed}})

Dependencies(h) ==
    {<<"DEP_provenance", f>> : f \in {x.fact : x \in h.explanations}
                                     \cup UNION {{e[1], e[3]} : e \in h.edges}}
    \cup {<<"DEP", "fact">>, <<"DEP", "type_layout">>, <<"DEP", "configuration">>}

----------------------------------------------------------------------------
(* Open questions.                                                         *)

AddUnknown(r) == [id |-> <<"U", r>>, code |-> "UNRESOLVED_CALL",
                  property |-> CallExpr("effect_of", <<Reference(E(Cell(r, 0)))>>)]
EffectRows(h) == {r \in Selected(h) : Rel(r) = "UnknownEffect"}

Gaps(h, kind) ==
    LET c == h.coverage[kind]
    IN  (IF c.resolved THEN {} ELSE {"unresolved_scope"})
        \cup (IF c.supported THEN {} ELSE {"unsupported_predicate"})
        \cup (IF c.resolved /\ ~c.closed THEN {"open_frontier"} ELSE {})
        \cup (IF Results6(h)[kind].reasons = {} THEN {} ELSE {"truncated_query"})
AllGaps(h) == UNION {{<<k, g>> : g \in Gaps(h, k)} : k \in QueryKinds}

CoverageUnknown(x) == [id |-> <<"U_coverage", x>>, code |-> "MISSING_SPECIFICATION",
                       property |-> CallExpr("query_coverage", <<StringLiteral(x[1])>>)]

UnknownOmissions(h) ==
    {Omit("analyzer_expansion", r, <<"U", r>>, FALSE) : r \in EffectRows(h)}
    \cup {Omit("coverage", x, Claim, FALSE) : x \in AllGaps(h)}

----------------------------------------------------------------------------
(* The flow graph and its representative path.                             *)

ProjectEdge(e) ==
    CASE e.kind = "calls" -> <<"calls", "MUST">> [] e.kind = "may_call" -> <<"calls", "MAY">>
      [] e.kind = "reads" -> <<"reads", "MUST">> [] e.kind = "writes" -> <<"writes", "MUST">>
      [] e.kind = "flows_to" -> <<"flows_to", "MUST">>
      [] e.kind = "aliases" /\ e.alias = "MustAlias" -> <<"may_alias", "MUST">>
      [] e.kind = "aliases" /\ e.alias = "MayAlias" -> <<"may_alias", "MAY">>
      [] e.kind = "aliases" /\ e.alias = "NoAlias" -> <<"may_alias", "MUST_NOT">>
      [] OTHER -> <<"none", "UNKNOWN">>

BuildEdges(h) ==
    {[id |-> <<"ED", EdgeKey(e)>>, from |-> E(e.src), to |-> E(e.dst), kind |-> ProjectEdge(e)[1],
      ep |-> ProjectEdge(e)[2], prov |-> <<"PR", "value_flow">>] : e \in h.flow.edges}

Hops(edges) == {<<e.from, e.to>> : e \in {x \in edges : x.kind = "flows_to"}}
Roots(hops) == {x[1] : x \in hops} \ {x[2] : x \in hops}
NextHops(hops, n) == {x[2] : x \in {y \in hops : y[1] = n}}

RECURSIVE Chain(_, _)
Chain(hops, n) ==
    <<n>> \o IF NextHops(hops, n) = {} THEN <<>> ELSE Chain(hops, CHOOSE m \in NextHops(hops, n) : TRUE)

\* An alias that is not certain is a condition of the path.
BuildPaths(h, hops) ==
    IF hops = {} THEN {}
    ELSE {[id |-> PathId, entities |-> Chain(hops, CHOOSE n \in Roots(hops) : TRUE),
           feasibility |-> "UNKNOWN", prov |-> <<"PR", "value_flow">>,
           conditions |-> {MapFact(r) : r \in {x \in Routed(h) : Rel(x) = "Alias" /\ Ep(x) # "MUST"}}]}

MixedPaths(hops) ==
    IF Cardinality(Roots(hops)) > 1 \/ \E x, y \in hops : x[1] = y[1] /\ x # y
    THEN {Omit("mixed_paths", 0, PathId, TRUE)} ELSE {}

----------------------------------------------------------------------------
(* The dominating check: presence is counterevidence, and only a complete, *)
(* empty and closed query is an absence.                                   *)

CheckPredicate(h) ==
    CallExpr("dominates_bounds_check", <<Reference(E(h.seed.sink)), Reference(E(h.seed.sink))>>)

Checks(h) == h.slots["dominating_check"]

AbsenceCertified(h) ==
    LET c == h.coverage["dominating_check"]
    IN  c.supported /\ c.closed /\ c.resolved /\ Checks(h).reasons = {}

FoundChecks(h) ==
    {Assemble1(<<"F_check", r>>, CheckPredicate(h), Ep(r), <<"PR", "dominating_check">>) :
        r \in Checks(h).facts}

Absence(h) ==
    {Assemble1(<<"F_query_completion">>,
               CallExpr("query_completion", <<StringLiteral("dominating_check"), StringLiteral("complete")>>),
               "MUST", <<"PR", "dominating_check">>),
     Assemble1(<<"F_absence">>, CheckPredicate(h), "MUST_NOT", <<"PR_closed_world_absence">>)}

AbsenceProvenance == [id |-> <<"PR_closed_world_absence">>, rule |-> "closed_world_absence",
                      inputs |-> {<<"F_query_completion">>}]

HasAbsence(h) == Checks(h).facts = {} /\ AbsenceCertified(h)

BuildDominatingCheck(h) == IF HasAbsence(h) THEN Absence(h) ELSE FoundChecks(h)

----------------------------------------------------------------------------
(* The claim, its obligation, and the summaries.                           *)

ClaimOf(h) == [id |-> Claim, subject |-> E(h.seed.subject),
               predicate |-> Compare(">", ValueOf(E(h.seed.source)), CapacityOf(E(h.seed.subject)))]

ConstraintOf(h) == [id |-> <<"K_path_safety">>, ep |-> "MAY", prov |-> <<"PR", "value_flow">>,
                    expression |-> WithinCapacity(E(h.seed.source), E(h.seed.subject))]

\* Over every feasible path, of a domain that is complete and not vacuous.
ObligationOf(h, paths) ==
    LET first  == IF paths = {} THEN E(h.seed.source) ELSE (CHOOSE p \in paths : TRUE).entities[1]
        ends   == <<Reference(first), Reference(E(h.seed.sink))>>
        domain == CallExpr("feasible_paths", ends)
    IN  [id |-> <<"O1">>, status |-> "PENDING", result |-> {},
         predicate |-> And(<<CallExpr("execution_domain_complete", ends),
                             Or(<<Quantified("exists", "path", domain, BoolTrue),
                                  CallExpr("entry_infeasible", ends)>>),
                             Quantified("forall", "path", domain,
                                 WithinCapacity(E(h.seed.source), E(h.seed.subject)))>>)]

Expanded(h, level, e) == level = "L2" /\ e.id[2][2] \in h.summaries
Functions(entities) == {e \in entities : e.kind = "function"}

BuildSummaryExpansions(h, level, entities) ==
    {[id |-> <<"S", e.id[2][2]>>, function |-> e.id] :
        e \in {x \in Functions(entities) : Expanded(h, level, x)}}

SummaryOmissions(h, level, entities) ==
    {Omit("summary_expansion", e.id, e.id, TRUE) :
        e \in {x \in Functions(entities) : ~Expanded(h, level, x)}}

----------------------------------------------------------------------------
(* The whole case, and what level zero keeps of it.                        *)

AssembleCase(h, level, entities, edges, hops, paths) ==
        [evidence_id |-> {}, level |-> level, claim |-> ClaimOf(h), entities |-> entities, edges |-> edges, paths |-> paths,
         facts |-> {Assemble1(FactId(r), MapFact(r), Ep(r), ProvenanceForFact(h, r)) : r \in Routed(h)}
                   \cup BuildDominatingCheck(h),
         unknowns |-> {AddUnknown(r) : r \in EffectRows(h)} \cup {CoverageUnknown(x) : x \in AllGaps(h)},
         constraints |-> {ConstraintOf(h)}, obligations |-> {ObligationOf(h, paths)}, hypotheses |-> {},
         provenance |-> BuildProvenance(h) \cup (IF HasAbsence(h) THEN {AbsenceProvenance} ELSE {}),
         dependencies |-> Dependencies(h),
         summaries |-> BuildSummaryExpansions(h, level, entities),
         omissions |-> ProvenanceOmissions(h) \cup UnknownOmissions(h) \cup MixedPaths(hops)
                       \cup SummaryOmissions(h, level, entities)]

WholeCase(h, level) ==
    Once(AssignEntities(h), LAMBDA entities : Once(BuildEdges(h), LAMBDA edges :
    Once(Hops(edges), LAMBDA hops : Once(BuildPaths(h, hops), LAMBDA paths :
        AssembleCase(h, level, entities, edges, hops, paths)))))

IdsOf(S) == {m.id : m \in S}
Keep(S, ids) == {m \in S : m.id \in ids}

\* One analyzer's question is kept, and every gap in the coverage.
KeptUnknowns(c) ==
    LET effects == {u \in c.unknowns : u.id[1] = "U"}
    IN  (c.unknowns \ effects) \cup (IF effects = {} THEN {} ELSE {CHOOSE u \in effects : TRUE})

ChainHops(paths) == UNION {{<<p.entities[i], p.entities[i + 1]>> : i \in 1 .. Len(p.entities) - 1} : p \in paths}

Members(c) ==
    {c.claim.id} \cup IdsOf(c.entities) \cup IdsOf(c.edges) \cup IdsOf(c.paths) \cup IdsOf(c.facts)
    \cup IdsOf(c.unknowns) \cup IdsOf(c.constraints) \cup IdsOf(c.provenance)

\* The bounds the claim reads, one path, and whatever these still name.
Retained(c, source, sink) ==
    LET bounds == {f \in c.facts : Mentions(f.predicate, c.claim.subject) \/ Mentions(f.predicate, source)}
        Named(facts, unknowns) == {c.claim.subject, source, sink} \cup IdsOf(Functions(c.entities))
                    \cup UNION {Range(p.entities) : p \in c.paths}
                    \cup UNION {CollectReferences(u.property) : u \in unknowns}
                    \cup UNION {CollectReferences(f.predicate) : f \in facts}
    IN  Once(bounds, LAMBDA facts : Once(KeptUnknowns(c), LAMBDA unknowns :
        Once(Named(facts, unknowns), LAMBDA named :
        [c EXCEPT !.entities = Keep(@, named), !.facts = facts, !.unknowns = unknowns, !.constraints = {},
                  !.edges = {e \in @ : <<e.from, e.to>> \in ChainHops(c.paths)}])))

\* Mutant: the omissions a withheld member took with it are forgotten.
WithheldMembers(c, omissions, omitted, members) == Members(c) \ members

\* What the small case does not have: members, and omissions about these.
Withheld(c, omissions, omitted, members) ==
    (Members(c) \ members) \cup (IdsOf(omissions) \ IdsOf(omitted))

\* Mutant: the inputs that were withheld stay named.
Untrimmed(records, facts) == records

\* A record keeps the inputs that are still facts of the case.
Trimmed(records, facts) == {[r EXCEPT !.inputs = @ \cap IdsOf(facts)] : r \in records}

Project(c, source, sink) ==
    IF c.level # "L0" THEN c ELSE
    LET Records(kept) == Keep(c.provenance, {m.prov : m \in kept.facts \cup kept.paths \cup kept.edges})
        Premises(kept) == UNION {{Omit("premise_l0", <<r.id, i>>, r.id, TRUE) : i \in r.inputs \ IdsOf(kept.facts)} :
                                 r \in Records(kept)}
        Small(kept) == [kept EXCEPT !.provenance = Trimmed(Records(kept), kept.facts)]
        Named(small, omissions, members) ==
            Once({o \in omissions : o.subject \in members}, LAMBDA omitted :
                [small EXCEPT !.omissions = omitted \cup
                    {Omit("level_projection", m, Claim, TRUE) : m \in Withheld(c, omissions, omitted, members)}])
    IN  Once(Retained(c, source, sink), LAMBDA kept : Once(Small(kept), LAMBDA small :
        Once(c.omissions \cup Premises(kept), LAMBDA omissions : Once(Members(small), LAMBDA members :
            Named(small, omissions, members)))))

\* An unknown blocks the claim and every derived fact that is still there.
RetargetBlocking(c) ==
    Once({c.claim.id} \cup {f.id : f \in {x \in c.facts : x.derived}}, LAMBDA blocking :
        [c EXCEPT !.unknowns = {u @@ [blocking |-> blocking] : u \in @}])

Buildable(h) ==
    /\ ValidateEvidenceHandoffCoverage(h)
    /\ \A n \in h.flow.nodes : EntityKindFor(n) # "none"
    /\ \A r \in Routed(h) : Mappable(r)
    /\ \A e \in h.flow.edges : ProjectEdge(e)[1] # "none" /\ ~e.expandable
    /\ Acyclic(Hops(BuildEdges(h)))

\* A case, or none when the handoff cannot be represented.
Build(h, level) ==
    IF Buildable(h)
    THEN {Once(Once(WholeCase(h, level), LAMBDA c : Project(c, E(h.seed.source), E(h.seed.sink))), RetargetBlocking)}
    ELSE {}

=============================================================================
