---------------------------- MODULE SvfAnalysis ----------------------------
(***************************************************************************)
(* The SVF pass over a whole program, the budget that may cut it short,    *)
(* and the merge of its facts into the local summaries.  The pointer       *)
(* analysis itself is external: an instruction carries what it resolves.   *)
(***************************************************************************)
EXTENDS LocalAnalysis

----------------------------------------------------------------------------
(* SvfBudget.  The first limit that is hit is kept and refuses the rest.   *)

NewBudget == [emitted |-> 0, pairs |-> 0, reason |-> "none"]
WithinBudget(b) == b.reason = "none"

TryEmit(b) ==
    IF ~WithinBudget(b) THEN b
    ELSE IF b.emitted >= MaxFacts THEN [b EXCEPT !.reason = "fact_limit"]
    ELSE [b EXCEPT !.emitted = @ + 1]

\* clock: how many queries are answered before the soft time budget is over.
TryAliasQuery(b, clock) ==
    IF ~WithinBudget(b) THEN b
    ELSE IF b.pairs >= clock THEN [b EXCEPT !.reason = "time_limit"]
    ELSE IF b.pairs >= MaxPairs THEN [b EXCEPT !.reason = "alias_pair_limit"]
    ELSE [b EXCEPT !.pairs = @ + 1]

----------------------------------------------------------------------------
(* The mapper: four passes over one accumulator.                           *)

NoFacts == [budget |-> NewBudget, truncated |-> FALSE, unmapped |-> FALSE,
            effects |-> {}, aliases |-> {}, calls |-> {}, unknowns |-> {}]

Unmapped(a, why) ==
    [a EXCEPT !.unmapped = TRUE, !.unknowns = @ \cup {[kind |-> "svf", reason |-> why]}]

\* A fact is kept while the budget lasts; past it the run is truncated.
Emit(a, effects, aliases, calls) ==
    Once(TryEmit(a.budget), LAMBDA b :
        IF WithinBudget(b)
        THEN [a EXCEPT !.budget = b, !.effects = @ \cup effects,
                       !.aliases = @ \cup aliases, !.calls = @ \cup calls]
        ELSE [a EXCEPT !.budget = b, !.truncated = TRUE])

Before(s, t) == s[1] < t[1] \/ (s[1] = t[1] /\ s[2] < t[2])
Nodes(p) == Ascending(At(p, CallOps \cup {"load", "store"}), Before)

\* Pass 1: a load or store becomes a MAY effect, then every operand of the
\* node is a value flow.  The flows are not merged and only use the budget.
EmitFlows(a, n) ==
    IF n = 0 THEN a
    ELSE IF WithinBudget(a.budget) /\ a.budget.emitted + n <= MaxFacts
    THEN [a EXCEPT !.budget.emitted = @ + n]
    ELSE [a EXCEPT !.truncated = TRUE,
                   !.budget = IF WithinBudget(@)
                              THEN [@ EXCEPT !.emitted = MaxFacts, !.reason = "fact_limit"] ELSE @]

MapNode(a, p, s) ==
    LET c == Code(p, s)
        effect == [kind |-> IF c.op = "load" THEN "READ" ELSE "WRITE",
                   loc |-> LocationFor(c, s, FALSE), ep |-> "MAY", prov |-> "svf"]
        mapped == CASE c.op \in CallOps -> a
                    [] Opaque \in c.pts -> Unmapped(a, "unmapped_pointer")
                    [] OTHER -> Emit(a, {effect}, {}, {})
    IN  Once(mapped, LAMBDA b : EmitFlows(b, Cardinality(c.uses)))

\* Pass 2: every pair of the addresses that pass 1 admitted, an address that
\* several instructions use counted once.
SameAddress(p, s, t) ==
    s[1] = t[1] /\ Code(p, s).obj = Code(p, t).obj /\ Code(p, s).path = Code(p, t).path

AliasPointers(p) ==
    {s \in At(p, {"load", "store"}) :
        /\ Opaque \notin Code(p, s).pts
        /\ ~\E t \in At(p, {"load", "store"}) : t[2] < s[2] /\ SameAddress(p, s, t)}

AliasObservation(x, y) ==
    CASE BlackHole \notin x.pts \cup y.pts /\ x.pts \cap y.pts = {} -> <<"NoAlias", "MUST">>
      [] Cardinality(x.pts) = 1 /\ x.pts = y.pts /\ BlackHole \notin x.pts -> <<"MustAlias", "MUST">>
      [] OTHER -> <<"MayAlias", "MAY">>

AliasFact(p, s, t) ==
    LET seen == AliasObservation(Code(p, s), Code(p, t))
    IN  [left |-> LocationFor(Code(p, s), s, FALSE),
         right |-> LocationFor(Code(p, t), t, FALSE),
         kind |-> seen[1], ep |-> seen[2], prov |-> "svf"]

MapPair(a, p, clock, s, t) ==
    Once(TryAliasQuery(a.budget, clock), LAMBDA b :
        IF WithinBudget(b)
        THEN Emit([a EXCEPT !.budget = b], {}, {AliasFact(p, s, t)}, {})
        ELSE [a EXCEPT !.budget = b, !.truncated = TRUE])

AliasPairs(p) ==
    Once(AliasPointers(p), LAMBDA S :
        Ascending({x \in S \X S : Before(x[1], x[2])},
                  LAMBDA x, y : Before(x[1], y[1]) \/ (x[1] = y[1] /\ Before(x[2], y[2]))))

\* Pass 3: the targets of the indirect calls in the order of site and callee.
NoTargets(a, p) ==
    IF \E s \in At(p, {"icall"}) : Code(p, s).to = {}
    THEN Unmapped(a, "no_resolved_targets") ELSE a

ResolvedCalls(p) ==
    Ascending(UNION {{<<s[1], s[2], g>> : g \in Code(p, s).to} : s \in At(p, {"icall"})},
              LAMBDA x, y : Before(x, y) \/ (x[1] = y[1] /\ x[2] = y[2] /\ x[3] < y[3]))

MapCall(a, x) ==
    Emit(a, {}, {}, {[site |-> <<x[1], x[2]>>, caller |-> x[1], callee |-> x[3]]})

\* One loop of the mapper; what it visits is a node, a pair or a target.
MapItem(a, p, clock, pass, x) ==
    CASE pass = "nodes" -> MapNode(a, p, x)
      [] pass = "aliases" -> MapPair(a, p, clock, x[1], x[2])
      [] pass = "calls" -> MapCall(a, x)

Pass(a, p, clock, pass, seq) ==
    FoldOnce(LAMBDA b, x : MapItem(b, p, clock, pass, x), a, seq)

\* The run's last word: which limit was hit, if one was.
Noted(a) ==
    IF ~a.truncated THEN a
    ELSE [a EXCEPT !.unknowns = @ \cup {[kind |-> "svf", reason |-> a.budget.reason]}]

MapSvfFacts(p, clock) ==
    Once(Pass(NoFacts, p, clock, "nodes", Nodes(p)), LAMBDA a :
    Once(Pass(a, p, clock, "aliases", AliasPairs(p)), LAMBDA b :
    Once(NoTargets(b, p), LAMBDA c :
    Once(Pass(c, p, clock, "calls", ResolvedCalls(p)), Noted))))

----------------------------------------------------------------------------
(* The merge: each draft takes the facts its function owns.                *)

StrengthRank(ep) == CASE ep = "MUST" -> 0 [] ep = "MAY" -> 1 [] OTHER -> 2

\* A target that is no draft stays unresolved; its value id is its symbol.
MergedCalls(facts, f) ==
    {[site |-> c.site, sym |-> c.callee, callee |-> GetSymbolId(c.callee),
      disp |-> "indirect", ep |-> "MAY", prov |-> "svf"] :
        c \in {d \in facts.calls : d.caller = f}}

\* What the local pass states at least as strongly is not stated again.
StatedLocally(draft, e) ==
    \E x \in draft.effects : /\ x.kind = e.kind
                             /\ LocationId(x.loc) = LocationId(e.loc)
                             /\ StrengthRank(x.ep) <= StrengthRank(e.ep)

MergedEffects(facts, draft, f) ==
    {e \in facts.effects : e.loc.obj[1] = f /\ ~StatedLocally(draft, e)}

\* An alias between two functions is nobody's.
MergedAliases(facts, f) ==
    {a \in facts.aliases : a.left.obj[1] = f /\ a.right.obj[1] = f}

MergeSvfFactsV2(drafts, svf) == Once(svf, LAMBDA facts :
    [f \in Function |->
        LET merged == [drafts[f] EXCEPT
                         !.calls = @ \cup MergedCalls(facts, f),
                         !.effects = @ \cup MergedEffects(facts, drafts[f], f),
                         !.aliases = @ \cup MergedAliases(facts, f),
                         !.unknowns = @ \cup facts.unknowns]
        IN  [merged EXCEPT !.digests = ComputeComponentDigests(merged)]])

=============================================================================
