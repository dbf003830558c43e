--------------------------- MODULE Canonicalizer ---------------------------
(***************************************************************************)
(* The canonical result of a component: from all the derivations an engine *)
(* reports, one finite proof for each published row.                       *)
(***************************************************************************)
EXTENDS Integers, SouffleExecutor

Priority(rule) == CASE rule \in {"base", "coverage"} -> 10 [] rule = "support" -> 20
                    [] rule = "transitive" -> 30

\* The relations a rule may derive and the number of its inputs.
Arity(rule) == IF rule \in {"base", "coverage"} THEN 1 ELSE 2

WellFormed(roots, results, D) ==
    /\ \A r \in roots \cup results : ValidateSemanticRow(r)
    /\ \A x \in D : /\ x.result \in results
                    /\ Range(x.inputs) \subseteq roots \cup results
                    /\ Len(x.inputs) = Arity(x.rule)

\* kUnproven: the cost of a row that has no finite proof so far.
Unproven == -1
Proven(cost) == {r \in DOMAIN cost : cost[r] # Unproven}
Provable(cost, x) == Range(x.inputs) \subseteq Proven(cost)
CostOf(cost, x) == MapThenSumSet(LAMBDA k : 1 + cost[x.inputs[k]], DOMAIN x.inputs)

\* One visit of the worklist to every derivation; a cost only ever falls.
Cheapest(cost, D, r) ==
    Once({CostOf(cost, x) : x \in {y \in D : y.result = r /\ Provable(cost, y)}}
             \cup ({cost[r]} \ {Unproven}),
         LAMBDA costs : IF costs = {} THEN Unproven ELSE Min(costs))

RelaxCosts(roots, D) ==
    LET rows == roots \cup {x.result : x \in D} \cup UNION {Range(x.inputs) : x \in D}
        relaxed[cost \in [rows -> Int]] ==
            Once([r \in rows |-> Cheapest(cost, D, r)], LAMBDA next :
                IF next = cost THEN cost ELSE relaxed[next])
    IN  relaxed[[r \in rows |-> IF r \in roots THEN 0 ELSE Unproven]]

\* Fewest edges, then the rule's priority, then the order of the keys.
SelectProof(cost, D, r) ==
    LET proofs == {x \in D : x.result = r /\ Provable(cost, x)}
        Less(x, y) == \/ CostOf(cost, x) < CostOf(cost, y)
                      \/ /\ CostOf(cost, x) = CostOf(cost, y)
                         /\ Priority(x.rule) <= Priority(y.rule)
    IN  CHOOSE x \in proofs : \A y \in proofs : Less(x, y)

\* Two engines that agree on the facts have one ExternalHash; one
\* FixpointHash needs the same proofs as well.
Canonicalize(roots, raw) ==
    LET D == raw.derivations
    IN  Once(RelaxCosts(roots, D), LAMBDA cost :
        [ok     |-> WellFormed(roots, raw.results, D) /\ raw.results \subseteq Proven(cost),
         facts  |-> raw.results,
         proofs |-> {SelectProof(cost, D, r) : r \in raw.results \cap Proven(cost)}])

=============================================================================
