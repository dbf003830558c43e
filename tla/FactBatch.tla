----------------------------- MODULE FactBatch -----------------------------
(***************************************************************************)
(* The batch a completed run hands to the fact bus, and the bus's check.   *)
(*                                                                         *)
(* A completion is a record: key, facts, and proofs, one record per fact   *)
(* with its result and the sequence of its inputs.  Completions are given  *)
(* in the order of their keys.                                             *)
(***************************************************************************)
EXTENDS Naturals, Sequences, TLC, Eager

EmptyBatch == [facts |-> {}, proofs |-> {}]

\* The first component that proves a fact owns it; a later one adds neither
\* the fact nor its proof.
AddCompletion(batch, c) ==
    [facts  |-> batch.facts \cup c.facts,
     proofs |-> batch.proofs \cup {x \in c.proofs : x.result \notin batch.facts}]

MakeAnalysisFactBatch(completions, roots) ==
    FoldOnce(AddCompletion, EmptyBatch, completions) @@
    [completed |-> {completions[i].key : i \in DOMAIN completions}, roots |-> roots]

Witnessed(batch) == \A f \in batch.facts : \E x \in batch.proofs : x.result = f

ClosedWitnesses(batch) ==
    \A x \in batch.proofs : /\ x.result \in batch.facts
                            /\ Range(x.inputs) \subseteq batch.facts \cup batch.roots

InputsOf(batch, f) ==
    UNION {Range(x.inputs) : x \in {y \in batch.proofs : y.result = f}}

\* Round by round, the facts all of whose inputs were processed before.
Processed(batch) ==
    Limit(batch.facts,
          [done \in SUBSET batch.facts |->
              done \cup {f \in batch.facts : InputsOf(batch, f) \cap batch.facts \subseteq done}],
          {})

WitnessesAcyclic(batch) == Processed(batch) = batch.facts

Validate(batch, expected) ==
    /\ batch.completed = expected
    /\ Witnessed(batch)
    /\ ClosedWitnesses(batch)
    /\ WitnessesAcyclic(batch)

=============================================================================
