--------------------------- MODULE EvidenceCodecs ---------------------------
(***************************************************************************)
(* The other two representations of an evidence case: the wire message and *)
(* the JSON document.  Each has tables and a field list of its own, kept   *)
(* in step with the model by hand.                                         *)
(*                                                                         *)
(* A message is a record in which an enumerator is its number, zero being  *)
(* no value, and a field with presence is a set.  The encoder of a member  *)
(* and every decoder yield {} where the code refuses.  What a case does    *)
(* not carry in this model (a budget, an assumption, the program) is left  *)
(* out, and the records without an enumerator or a formula are carried     *)
(* field by field.                                                         *)
(***************************************************************************)
EXTENDS EirText

----------------------------------------------------------------------------
(* Enumerators: the k-th of a table has number k on the wire.              *)

kEvidenceLevels == <<"L0", "L1", "L2">>
kEntityKinds == <<"function", "call_site", "value", "memory_object", "basic_block">>
kRelationKinds == <<"calls", "flows_to", "reads", "writes", "dominates", "may_alias">>
kEpistemicStates == <<"MUST", "MAY", "MUST_NOT", "INFERRED", "ASSUMED", "UNKNOWN">>
kConfidences == <<"exact", "high", "medium", "low", "unknown">>
kProofStatuses == <<"PENDING", "PROVED", "REFUTED", "UNKNOWN", "TIMEOUT", "UNSUPPORTED">>
kFeasibilities == <<"PROVED_FEASIBLE", "SAT", "MAYBE", "UNTESTED", "UNSAT", "PROVED_INFEASIBLE", "UNKNOWN">>
kUnknownReasonCodes == <<"UNRESOLVED_CALL", "UNKNOWN_ALIAS", "EXTERNAL_FUNCTION", "MISSING_SPECIFICATION",
                         "ANALYSIS_TIMEOUT", "STATE_EXPLOSION", "UNSUPPORTED_LANGUAGE_FEATURE",
                         "INLINE_ASSEMBLY", "DYNAMIC_LOADING", "UNKNOWN_BUILD_CONFIGURATION">>
kDependencyKinds == <<"summary", "fact", "type_layout", "configuration", "specification">>
kExpressionKinds == <<"bool", "integer", "string", "symbol", "ref", "call", "not", "compare",
                      "and", "or", "implies", "forall", "exists">>

EncodeEnum(w, table) == {k \in DOMAIN table : table[k] = w}
DecodeEnum(n, table) == IF n \in DOMAIN table THEN {table[n]} ELSE {}

----------------------------------------------------------------------------
(* Expressions.                                                            *)

\* An expression without a kind is written with number zero, and is refused
\* where it is read.
RECURSIVE ExpressionToProto(_)
ExpressionToProto(x) ==
    Once(Mapped(ExpressionToProto, x[3]), LAMBDA operands :
        [kind |-> Max({0} \cup EncodeEnum(x[1], kExpressionKinds)), payload |-> x[2], operands |-> operands])

RECURSIVE DecodeExpression(_)
DecodeExpression(m) ==
    Once(Mapped(DecodeExpression, m.operands), LAMBDA operands :
        IF {} \in Range(operands) THEN {}
        ELSE {<<k, m.payload, [i \in DOMAIN operands |-> CHOOSE x \in operands[i] : TRUE]>> :
                k \in DecodeEnum(m.kind, kExpressionKinds)})

----------------------------------------------------------------------------
(* Members.                                                                *)

EntityToProto(e) == {[id |-> e.id, kind |-> k] : k \in EncodeEnum(e.kind, kEntityKinds)}
DecodeEntity(m) == {[id |-> m.id, kind |-> w] : w \in DecodeEnum(m.kind, kEntityKinds)}

EdgeToProto(e) == {[e EXCEPT !.kind = k, !.ep = n] :
    k \in EncodeEnum(e.kind, kRelationKinds), n \in EncodeEnum(e.ep, kEpistemicStates)}
DecodeEdge(m) == {[m EXCEPT !.kind = w, !.ep = v] :
    w \in DecodeEnum(m.kind, kRelationKinds), v \in DecodeEnum(m.ep, kEpistemicStates)}

PathToProto(p) == {[p EXCEPT !.feasibility = k, !.conditions = {ExpressionToProto(x) : x \in @}] :
    k \in EncodeEnum(p.feasibility, kFeasibilities)}
DecodePath(m) ==
    IF \E x \in m.conditions : DecodeExpression(x) = {} THEN {}
    ELSE {[m EXCEPT !.feasibility = w, !.conditions = UNION {DecodeExpression(x) : x \in @}] :
            w \in DecodeEnum(m.feasibility, kFeasibilities)}

ClaimToProto(c) == [c EXCEPT !.predicate = ExpressionToProto(@)]
DecodeClaim(m) == {[m EXCEPT !.predicate = x] : x \in DecodeExpression(m.predicate)}

FactToProto(f) == {[f EXCEPT !.ep = k, !.confidence = n, !.predicate = ExpressionToProto(@)] :
    k \in EncodeEnum(f.ep, kEpistemicStates), n \in EncodeEnum(f.confidence, kConfidences)}
DecodeFact(m) == {[m EXCEPT !.ep = w, !.confidence = v, !.predicate = x] :
    w \in DecodeEnum(m.ep, kEpistemicStates), v \in DecodeEnum(m.confidence, kConfidences),
    x \in DecodeExpression(m.predicate)}

\* The one enumerator that may be absent.
HypothesisToProto(h) ==
    LET confidence == EncodeEnum(h.confidence, kConfidences)
    IN  IF h.confidence # "unspecified" /\ confidence = {} THEN {}
        ELSE {[h EXCEPT !.confidence = confidence, !.predicate = ExpressionToProto(@)]}
DecodeHypothesis(m) == {[m EXCEPT !.confidence = w, !.predicate = x] :
    w \in IF m.confidence = {} THEN {"unspecified"} ELSE UNION {DecodeEnum(n, kConfidences) : n \in m.confidence},
    x \in DecodeExpression(m.predicate)}

UnknownToProto(u) == {[u EXCEPT !.code = k, !.property = ExpressionToProto(@)] :
    k \in EncodeEnum(u.code, kUnknownReasonCodes)}
DecodeUnknown(m) == {[m EXCEPT !.code = w, !.property = x] :
    w \in DecodeEnum(m.code, kUnknownReasonCodes), x \in DecodeExpression(m.property)}

ConstraintToProto(c) == {[c EXCEPT !.ep = k, !.expression = ExpressionToProto(@)] :
    k \in EncodeEnum(c.ep, kEpistemicStates)}
DecodeConstraint(m) == {[m EXCEPT !.ep = w, !.expression = x] :
    w \in DecodeEnum(m.ep, kEpistemicStates), x \in DecodeExpression(m.expression)}

ProofObligationToProto(o) == {[o EXCEPT !.status = k, !.predicate = ExpressionToProto(@)] :
    k \in EncodeEnum(o.status, kProofStatuses)}
DecodeProofObligation(m) == {[m EXCEPT !.status = w, !.predicate = x] :
    w \in DecodeEnum(m.status, kProofStatuses), x \in DecodeExpression(m.predicate)}

\* The handle of a dependency says what it depends on.
DependencyKind(id) == IF id[1] = "DEP" THEN id[2] ELSE "fact"
DependencyToProto(id) == {[id |-> id, kind |-> k] : k \in EncodeEnum(DependencyKind(id), kDependencyKinds)}
DecodeDependency(m) == {m.id : w \in DecodeEnum(m.kind, kDependencyKinds)}

----------------------------------------------------------------------------
(* The case.                                                               *)

\* One member that is refused refuses the case.
EachOf(S, Convert(_)) ==
    Once({Convert(x) : x \in S}, LAMBDA converted : IF {} \in converted THEN {} ELSE {UNION converted})

EncodeCase(c) ==
    {[c EXCEPT !.level = level, !.claim = ClaimToProto(@), !.entities = entities, !.edges = edges, !.paths = paths,
               !.facts = facts, !.hypotheses = hypotheses, !.unknowns = unknowns, !.constraints = constraints,
               !.obligations = obligations, !.dependencies = dependencies] :
        level \in EncodeEnum(c.level, kEvidenceLevels), entities \in EachOf(c.entities, EntityToProto),
        edges \in EachOf(c.edges, EdgeToProto), paths \in EachOf(c.paths, PathToProto),
        facts \in EachOf(c.facts, FactToProto), hypotheses \in EachOf(c.hypotheses, HypothesisToProto),
        unknowns \in EachOf(c.unknowns, UnknownToProto), constraints \in EachOf(c.constraints, ConstraintToProto),
        obligations \in EachOf(c.obligations, ProofObligationToProto),
        dependencies \in EachOf(c.dependencies, DependencyToProto)}

DecodeCase(m) ==
    {[m EXCEPT !.level = level, !.claim = claim, !.entities = entities, !.edges = edges, !.paths = paths,
               !.facts = facts, !.hypotheses = hypotheses, !.unknowns = unknowns, !.constraints = constraints,
               !.obligations = obligations, !.dependencies = dependencies] :
        level \in DecodeEnum(m.level, kEvidenceLevels), claim \in DecodeClaim(m.claim),
        entities \in EachOf(m.entities, DecodeEntity), edges \in EachOf(m.edges, DecodeEdge),
        paths \in EachOf(m.paths, DecodePath), facts \in EachOf(m.facts, DecodeFact),
        hypotheses \in EachOf(m.hypotheses, DecodeHypothesis), unknowns \in EachOf(m.unknowns, DecodeUnknown),
        constraints \in EachOf(m.constraints, DecodeConstraint),
        obligations \in EachOf(m.obligations, DecodeProofObligation),
        dependencies \in EachOf(m.dependencies, DecodeDependency)}

\* An identity that is carried must be that of the content; none need be.
IdentityAgrees(c) == c.evidence_id \subseteq {ComputeEvidenceId(c)}

ToEvidenceProto(c) == IF ValidateEvidenceCase(c) = {} /\ IdentityAgrees(c) THEN EncodeCase(c) ELSE {}

FromEvidenceProto(m) ==
    {[c EXCEPT !.evidence_id = {ComputeEvidenceId(c)}] :
        c \in {d \in DecodeCase(m) : ValidateEvidenceCase(d) = {} /\ IdentityAgrees(d)}}

----------------------------------------------------------------------------
(* The JSON document: written, never read.                                 *)

IsCommutative(kind) == kind \in {"and", "or"}

\* Sorted by their own text: how often each occurs.
EmitCommutativeOperands(emitted) == SortValuesByEncoding(emitted)

RECURSIVE EmitExpression(_)
EmitExpression(x) ==
    Once(Mapped(EmitExpression, x[3]), LAMBDA operands :
        [kind |-> x[1], payload |-> x[2],
         operands |-> IF IsCommutative(x[1]) THEN EmitCommutativeOperands(operands) ELSE operands])

EmitClaim(c) == [c EXCEPT !.predicate = EmitExpression(@)]
EmitPath(p) == [p EXCEPT !.conditions = {EmitExpression(x) : x \in @}]
EmitFact(f) == [f EXCEPT !.predicate = EmitExpression(@)]
EmitHypothesis(h) == [h EXCEPT !.predicate = EmitExpression(@)]
EmitUnknown(u) == [u EXCEPT !.property = EmitExpression(@)]
EmitConstraint(k) == [k EXCEPT !.expression = EmitExpression(@)]
EmitProofObligation(o) == [o EXCEPT !.predicate = EmitExpression(@)]

\* Each collection in the order of its keys, which no two members share.
EmitCase(c) ==
    [c EXCEPT !.claim = EmitClaim(@), !.paths = {EmitPath(x) : x \in @}, !.facts = {EmitFact(x) : x \in @},
              !.hypotheses = {EmitHypothesis(x) : x \in @}, !.unknowns = {EmitUnknown(x) : x \in @},
              !.constraints = {EmitConstraint(x) : x \in @}, !.obligations = {EmitProofObligation(x) : x \in @}]

\* Unlike the wire, a case without an identity has no document.
ToEvidenceJson(c) ==
    IF c.evidence_id = {ComputeEvidenceId(c)} /\ ValidateEvidenceCase(c) = {} THEN {EmitCase(c)} ELSE {}

=============================================================================
