----------------------- MODULE EvidenceCanonicalizer -----------------------
(***************************************************************************)
(* The identity of an evidence case: the address of its canonical value.   *)
(*                                                                         *)
(* The collections of a case are sets here, as the canonical order of each *)
(* makes them.  A digest is the value it is taken of, so two identities    *)
(* are equal exactly when the canonical values are.                        *)
(***************************************************************************)
EXTENDS EvidenceValidator

\* Sorted with duplicates kept: how often each value occurs.
SortValuesByEncoding(values) ==
    [v \in Range(values) |-> Cardinality({k \in DOMAIN values : values[k] = v})]

\* Conjunction and disjunction commute; every other operand keeps its place.
RECURSIVE EncodeExpression(_)
EncodeExpression(x) ==
    Once(Mapped(EncodeExpression, x[3]), LAMBDA operands :
        <<x[1], x[2], IF x[1] \in {"and", "or"} THEN SortValuesByEncoding(operands) ELSE operands>>)

EncodeClaim(c) == [c EXCEPT !.predicate = EncodeExpression(@)]
EncodeFact(f) == [f EXCEPT !.predicate = EncodeExpression(@)]
EncodeHypothesis(h) == [h EXCEPT !.predicate = EncodeExpression(@)]
EncodeUnknown(u) == [u EXCEPT !.property = EncodeExpression(@)]
EncodeConstraint(k) == [k EXCEPT !.expression = EncodeExpression(@)]
EncodeProofObligation(o) == [o EXCEPT !.predicate = EncodeExpression(@)]

\* The conditions hold together, like the operands of a conjunction; the
\* sequence of the segments is the path.
EncodePath(p) == [p EXCEPT !.conditions = {EncodeExpression(x) : x \in @}]

EncodeStatements(c) ==
    [c EXCEPT !.paths = {EncodePath(x) : x \in @}, !.facts = {EncodeFact(x) : x \in @},
              !.hypotheses = {EncodeHypothesis(x) : x \in @}, !.unknowns = {EncodeUnknown(x) : x \in @}]
EncodeSupport(c) ==
    [c EXCEPT !.constraints = {EncodeConstraint(x) : x \in @},
              !.obligations = {EncodeProofObligation(x) : x \in @}]

\* All of the case but the identity it carries.
CanonicalEvidenceValue(c) ==
    [EncodeSupport(EncodeStatements(c)) EXCEPT !.claim = EncodeClaim(@), !.evidence_id = {}]

ComputeEvidenceId(c) == <<"evidence", CanonicalEvidenceValue(c)>>

\* A case that is not valid keeps whatever identity it carried.
FinalizeEvidenceIdentity(c) ==
    IF ValidateEvidenceCase(c) # {} THEN {} ELSE {[c EXCEPT !.evidence_id = {ComputeEvidenceId(c)}]}

=============================================================================
