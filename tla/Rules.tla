------------------------------- MODULE Rules -------------------------------
(***************************************************************************)
(* The rules of the whole-program analysis and the two engines that        *)
(* evaluate them: which derivations a set of rows has, the C++ engine's    *)
(* rounds, and the least model that Souffle computes.                      *)
(*                                                                         *)
(* A row is <<relation, subject, object, epistemic, at>>; at is what else  *)
(* tells two rows of a base relation apart (the call site, whether the     *)
(* byte range is known) and <<>> for a derived row.  The dense numbers a   *)
(* run gives to ids are a renaming and are left out.                       *)
(***************************************************************************)
EXTENDS Eager

Rel(r) == r[1]
Subj(r) == r[2]
Obj(r) == r[3]
Ep(r) == r[4]
Rows(R, name) == {r \in R : Rel(r) = name}
Renamed(r, name) == <<name, Subj(r), Obj(r), Ep(r), <<>>>>

\* The relations of a component: what seeds a derived relation, what stands
\* for a successor's result, and whether the C++ engine keeps every proof.
ComponentDomains(comp) ==
    CASE comp = "reachability" ->
           {[base |-> {"DirectCall"}, support |-> "SupportReachableCall",
             derived |-> "ReachableCall", all |-> FALSE]}
      [] comp = "memory-effects" ->
           {[base |-> {"DirectWrite"}, support |-> "SupportMayWrite",
             derived |-> "MayWrite", all |-> FALSE],
            [base |-> {"DirectRead"}, support |-> "SupportMayRead",
             derived |-> "MayRead", all |-> FALSE]}
      [] comp = "flow" ->
           {[base |-> {"LocalFlow", "ParameterFlow", "ReturnFlow"},
             support |-> "SupportGlobalFlow", derived |-> "GlobalFlow", all |-> TRUE]}
      [] comp = "effects" ->
           {[base |-> {"UnknownCall", "UnsupportedFeature"},
             support |-> "SupportUnknownEffect", derived |-> "UnknownEffect", all |-> TRUE]}

\* A successor's facts enter under the support relation of their domain.
SupportRows(comp, facts) ==
    UNION {{Renamed(r, d.support) : r \in Rows(facts, d.derived)} :
           d \in ComponentDomains(comp)}

----------------------------------------------------------------------------
(* The rules.  A derivation is a result, the rule and its inputs in order. *)

WeaknessRank(ep) ==
    CASE ep = "MUST" -> 0 [] ep = "MAY" -> 1 [] ep = "INFERRED" -> 2
      [] ep = "ASSUMED" -> 3 [] ep = "UNKNOWN" -> 4

Weaken(x, y) == IF WeaknessRank(x) >= WeaknessRank(y) THEN x ELSE y

BaseDerivations(d, edb) ==
    {[result |-> Renamed(r, d.derived), rule |-> "base", inputs |-> <<r>>] :
        r \in {x \in edb : Rel(x) \in d.base}}

\* A flow extends a derived flow; every other domain extends a call.
Steps(d, edb, derived) ==
    IF d.derived = "GlobalFlow" THEN derived ELSE Rows(edb, "DirectCall")

Compositions(d, rule, steps, tuples) ==
    {[result |-> <<d.derived, Subj(x[1]), Obj(x[2]), Weaken(Ep(x[1]), Ep(x[2])), <<>>>>,
      rule |-> rule, inputs |-> x] :
        x \in {y \in steps \X tuples : Obj(y[1]) = Subj(y[2])}}

Transitive(d, edb, derived) ==
    Compositions(d, "transitive", Steps(d, edb, derived), derived)

Support(d, edb, derived) ==
    Compositions(d, "support", Steps(d, edb, derived), Rows(edb, d.support))

Results(D) == {x.result : x \in D}

\* The rows a domain can derive at all: rules join rows, they make no ids.
Sources(d, edb) == {r \in edb : Rel(r) \in d.base \cup {d.support}}
DerivedRows(d, edb) ==
    {d.derived} \X {Subj(r) : r \in Sources(d, edb) \cup Steps(d, edb, {})}
        \X {Obj(r) : r \in Sources(d, edb)} \X {Ep(r) : r \in edb} \X {<<>>}

\* And all the derivations there can be of them.
Derivations(d, edb) ==
    LET rows == edb \cup DerivedRows(d, edb)
    IN  [result : DerivedRows(d, edb), rule : {"base", "transitive", "support"},
         inputs : {<<r>> : r \in edb} \cup (rows \X rows)]

\* A function with an unknown effect is marked incomplete.
Coverage(R) ==
    {[result |-> <<"SoundnessCoverage", Subj(r), "incomplete", "MUST", <<>>>>,
      rule |-> "coverage", inputs |-> <<r>>] : r \in Rows(R, "UnknownEffect")}

WithCoverage(derived) == Once(derived, LAMBDA D : D \cup Coverage(Results(D)))

----------------------------------------------------------------------------
(* The C++ engine: rounds over a snapshot, the transitive step first.      *)

\* One proof for each tuple that is new; which of several is first depends
\* on the order of digests.
FirstProofs(D, known) ==
    {CHOOSE x \in D : x.result = r : r \in Results(D) \ known}

\* What a round keeps of the derivations over the rows derived so far.
Kept(d, trans, supp, derived) ==
    IF d.all THEN trans \cup supp
    ELSE FirstProofs(trans, derived) \cup FirstProofs(supp, derived \cup Results(trans))

Round(d, edb, proofs) ==
    Once(Results(proofs), LAMBDA derived :
    Once(Transitive(d, edb, derived), LAMBDA trans :
    Once(Support(d, edb, derived), LAMBDA supp : proofs \cup Kept(d, trans, supp, derived))))

EvaluateDomain(d, edb) ==
    Limit(Derivations(d, edb),
          [proofs \in SUBSET Derivations(d, edb) |-> Round(d, edb, proofs)],
          FirstProofs(BaseDerivations(d, edb), {}))

CppEvaluate(comp, edb) ==
    WithCoverage(UNION {EvaluateDomain(d, edb) : d \in ComponentDomains(comp)})

----------------------------------------------------------------------------
(* The Souffle engine: the least model and every derivation within it.     *)

Consequences(d, edb, derived) ==
    derived \cup Results(Transitive(d, edb, derived)) \cup Results(Support(d, edb, derived))

LeastModel(d, edb) ==
    Once(DerivedRows(d, edb), LAMBDA rows :
        Limit(rows, [derived \in SUBSET rows |-> Consequences(d, edb, derived)],
              Results(BaseDerivations(d, edb))))

SouffleDomain(d, edb) ==
    Once(LeastModel(d, edb), LAMBDA model :
        BaseDerivations(d, edb) \cup Transitive(d, edb, model) \cup Support(d, edb, model))

SouffleEvaluate(comp, edb) ==
    WithCoverage(UNION {SouffleDomain(d, edb) : d \in ComponentDomains(comp)})

=============================================================================
