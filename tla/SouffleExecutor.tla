-------------------------- MODULE SouffleExecutor --------------------------
(***************************************************************************)
(* One component in the Souffle engine: the rows go in relation by         *)
(* relation, the component's program runs, and the relations the component *)
(* owns are read back with their witnesses.                                *)
(***************************************************************************)
EXTENDS Rules, RelationSchema

\* The program of a component has only the relations its rules mention; the
\* rows of every other one are skipped.
Registered(comp) ==
    (UNION {d.base \cup {d.support} : d \in ComponentDomains(comp)})
    \cup (IF comp = "flow" THEN {} ELSE {"DirectCall"})
InsertEdb(comp, edb) == {r \in edb : Rel(r) \in Registered(comp)}

\* What a cell read back can be turned into; no other domain is guessed.
ResultDomains == {"string", "function", "memory", "value", "uint", "epistemic"}

ResultRowFromCells(r) ==
    /\ Rel(r) \in DOMAIN Schema
    /\ \A k \in DOMAIN Schema[Rel(r)].columns : Schema[Rel(r)].columns[k] \in ResultDomains
    /\ ValidateSemanticRow(r)

Derived(comp) ==
    {d.derived : d \in ComponentDomains(comp)} \cup (IF comp = "effects" THEN {"SoundnessCoverage"} ELSE {})

\* The witness rows carry both rows as keys, which are decoded and validated.
CollectWitnessRow(x) == ValidateSemanticRow(x.result) /\ \A k \in DOMAIN x.inputs : ValidateSemanticRow(x.inputs[k])

ScanOutput(comp, derivations) == Once(derivations, LAMBDA D :
    [ok          |-> (\A r \in Results(D) : ResultRowFromCells(r)) /\ (\A x \in D : CollectWitnessRow(x)),
     results     |-> {r \in Results(D) : Rel(r) \in Derived(comp)},
     derivations |-> D])

\* An evaluation as the canonicalizer takes it.
Execute(comp, edb) == ScanOutput(comp, Once(InsertEdb(comp, edb), LAMBDA rows : SouffleEvaluate(comp, rows)))

=============================================================================
