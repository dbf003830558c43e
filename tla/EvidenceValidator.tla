------------------------- MODULE EvidenceValidator -------------------------
(***************************************************************************)
(* The check every consumer of an evidence case applies: the issues found, *)
(* each a code and the member it is about.                                 *)
(***************************************************************************)
EXTENDS EvidenceBuilder

CONSTANT MaxExpressionDepth   \* kMaxExpressionDepth

ASSUME ValidatorAssumption == MaxExpressionDepth \in Nat

Epistemic == {"MUST", "MAY", "MUST_NOT", "INFERRED", "ASSUMED", "UNKNOWN"}

DependencyIds(c) == c.dependencies
IndexMembers(c) == Members(c) \cup IdsOf(c.obligations) \cup IdsOf(c.summaries)
                   \cup DependencyIds(c) \cup IdsOf(c.omissions) \cup IdsOf(c.hypotheses)

Issue(code, S) == {<<code, x>> : x \in S}

CheckHeader(c) == Issue("schema_version", {c.level} \ Level)

\* A handle declared by two members of one kind or of several.
Declarations(c) ==
    1 + FoldSet(LAMBDA k, n : n + Cardinality(c[k]), 0,
                {"entities", "edges", "paths", "facts", "unknowns", "constraints", "provenance",
                 "obligations", "summaries", "dependencies", "omissions", "hypotheses"})
CheckDuplicateLocalIds(c) ==
    Issue("duplicate_local_id", IF Cardinality(IndexMembers(c)) = Declarations(c) THEN {} ELSE {Claim})

CheckRequiredStates(c) ==
    Issue("missing_epistemic",
          IdsOf({e \in c.entities : e.kind = "none"})
          \cup IdsOf({e \in c.edges : e.kind = "none" \/ e.ep \notin Epistemic})
          \cup IdsOf({f \in c.facts \cup c.constraints : f.ep \notin Epistemic})
          \cup IdsOf({f \in c.facts : f.confidence = "unspecified"})
          \cup IdsOf({p \in c.paths : p.feasibility = "unspecified"})
          \cup IdsOf({u \in c.unknowns : u.code = "unspecified"})
          \cup IdsOf({o \in c.obligations : o.status = "unspecified"}))

\* A derivation is never hidden.
CheckProvenance(c) ==
    Issue("missing_provenance", IdsOf({f \in c.facts : f.derived /\ f.prov \notin IdsOf(c.provenance)}))

\* A result no verifier produced.
CheckProofAuthority(c) ==
    Issue("verification_producer", IdsOf({o \in c.obligations : o.status = "PENDING" /\ o.result # {}}))

----------------------------------------------------------------------------
(* References: each must name a member of the case, of the right kind.     *)

Dangling(S, declared) == Issue("dangling_reference", S \ declared)

ResolveEntity(c) ==
    Dangling({c.claim.subject} \cup UNION {{e.from, e.to} : e \in c.edges}
             \cup UNION {Range(p.entities) : p \in c.paths} \cup {s.function : s \in c.summaries},
             IdsOf(c.entities))

ResolveProvenance(c) ==
    Dangling({m.prov : m \in c.edges \cup c.paths \cup c.facts \cup c.constraints}, IdsOf(c.provenance))

Expressions(c) ==
    {c.claim.predicate} \cup {f.predicate : f \in c.facts \cup c.hypotheses} \cup {u.property : u \in c.unknowns}
    \cup {k.expression : k \in c.constraints} \cup {o.predicate : o \in c.obligations}
    \cup UNION {p.conditions : p \in c.paths}

ResolveExpression(c) == Dangling(UNION {CollectReferences(x) : x \in Expressions(c)}, IndexMembers(c))

ResolveMember(c) ==
    Dangling(UNION {u.blocking : u \in c.unknowns} \cup UNION {r.inputs : r \in c.provenance}
             \cup {o.subject : o \in c.omissions}, IndexMembers(c))

CheckReferences(c) ==
    ResolveEntity(c) \cup ResolveProvenance(c) \cup ResolveExpression(c) \cup ResolveMember(c)

----------------------------------------------------------------------------
(* Expressions: arity, and formulas and values in their places.            *)

IsFormulaKind(k) == k \in {"bool", "not", "compare", "and", "or", "implies", "forall", "exists"}
IsLiteralKind(k) == k \in {"integer", "string"}
IsComparisonOperator(op) == op \in {"<", "<=", ">", ">=", "==", "!="}

CheckArity(x) ==
    CASE x[1] \in {"bool", "integer", "string", "symbol", "ref"} -> Len(x[3]) = 0
      [] x[1] = "not" -> Len(x[3]) = 1
      [] x[1] \in {"compare", "implies", "forall", "exists"} -> Len(x[3]) = 2
      [] x[1] \in {"and", "or"} -> Len(x[3]) >= 2
      [] OTHER -> TRUE

\* A connective is flat: none is an operand of its own kind.
CheckOperand(x, y) ==
    CASE x[1] = "compare" -> ~IsFormulaKind(y[1])
      [] x[1] \in {"and", "or"} -> ~IsLiteralKind(y[1]) /\ y[1] # x[1]
      [] x[1] \in {"not", "implies"} -> ~IsLiteralKind(y[1])
      [] OTHER -> TRUE

RECURSIVE CheckExpression(_, _)
CheckExpression(x, depth) ==
    /\ depth <= MaxExpressionDepth
    /\ CheckArity(x)
    /\ x[1] = "compare" => IsComparisonOperator(x[2])
    /\ \A y \in Range(x[3]) : CheckOperand(x, y) /\ CheckExpression(y, depth + 1)

CheckExpressions(c) == Issue("expression_type", {x \in Expressions(c) : ~CheckExpression(x, 0)})

----------------------------------------------------------------------------
(* Paths and the report.                                                   *)

HasSegment(c, from, to) == \E e \in c.edges : e.from = from /\ e.to = to /\ e.kind = "flows_to"

CheckPaths(c) ==
    Issue("path_disconnected",
          IdsOf({p \in c.paths : \/ Len(p.entities) < 2
                                 \/ \E i \in 1 .. Len(p.entities) - 1 :
                                      ~HasSegment(c, p.entities[i], p.entities[i + 1])}))

\* A hypothesis supports no derivation and blocks no question.
CheckHypothesisIsolation(c) ==
    Issue("hypothesis_authority",
          IdsOf({r \in c.provenance : r.inputs \cap IdsOf(c.hypotheses) # {}})
          \cup IdsOf({u \in c.unknowns : u.blocking \cap IdsOf(c.hypotheses) # {}}))

\* A withheld summary can be recovered.
CheckOmissionVisibility(c) ==
    Issue("hidden_omission", IdsOf({o \in c.omissions : o.subject \in IdsOf(c.summaries) /\ ~o.expandable}))

ValidateEvidenceCase(c) ==
    CheckHeader(c) \cup CheckDuplicateLocalIds(c) \cup CheckRequiredStates(c) \cup CheckProvenance(c)
    \cup CheckProofAuthority(c) \cup CheckReferences(c) \cup CheckExpressions(c) \cup CheckPaths(c)
    \cup CheckHypothesisIsolation(c) \cup CheckOmissionVisibility(c)

=============================================================================
