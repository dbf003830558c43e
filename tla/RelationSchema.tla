--------------------------- MODULE RelationSchema ---------------------------
(***************************************************************************)
(* The relations of the fact stream: the domains of their columns and the  *)
(* epistemic states a row of each may carry.  The relations that map dense *)
(* numbers to ids are left out, and so are the relations of the effect     *)
(* models and of query certificates.                                       *)
(***************************************************************************)
EXTENDS Sequences

WithoutMustNot == {"MUST", "MAY", "INFERRED", "ASSUMED", "UNKNOWN"}
AnyState == WithoutMustNot \cup {"MUST_NOT"}
UnresolvedCallStates == {"MAY", "UNKNOWN"}
CoverageStates == {"MUST", "UNKNOWN"}

Relation(columns, states) == [columns |-> columns, states |-> states]
Access == Relation(<<"function", "memory", "range", "int", "uint", "epistemic">>, AnyState)
SiteFlow == Relation(<<"site", "value", "value", "epistemic">>, WithoutMustNot)
Calls == Relation(<<"function", "function", "epistemic">>, WithoutMustNot)
Effect == Relation(<<"function", "memory", "epistemic">>, WithoutMustNot)
Flow == Relation(<<"value", "value", "epistemic">>, WithoutMustNot)
Unresolved == Relation(<<"function", "string", "string", "epistemic">>, UnresolvedCallStates)

\* A support relation has the columns and the states of the relation it mirrors.
Schema ==
    [DirectCall |-> Relation(<<"site", "function", "function", "dispatch", "epistemic">>, AnyState),
     UnknownCall |-> Relation(<<"site", "function", "string", "epistemic">>, UnresolvedCallStates),
     DirectRead |-> Access, DirectWrite |-> Access,
     Alias |-> Relation(<<"memory", "memory", "alias", "epistemic">>, AnyState),
     LocalFlow |-> Relation(<<"function", "value", "value", "string", "epistemic">>, WithoutMustNot),
     ParameterFlow |-> SiteFlow, ReturnFlow |-> SiteFlow,
     UnsupportedFeature |-> Relation(<<"string", "string", "string">>, {}),
     ReachableCall |-> Calls, SupportReachableCall |-> Calls,
     MayWrite |-> Effect, SupportMayWrite |-> Effect, MayRead |-> Effect, SupportMayRead |-> Effect,
     GlobalFlow |-> Flow, SupportGlobalFlow |-> Flow,
     UnknownEffect |-> Unresolved, SupportUnknownEffect |-> Unresolved,
     SoundnessCoverage |-> Relation(<<"string", "string", "uint", "epistemic">>, CoverageStates)]

HasDomain(relation, domain) == \E k \in DOMAIN Schema[relation].columns : Schema[relation].columns[k] = domain

\* The first element of a row is its relation, the fourth its epistemic state;
\* the domains of the other cells are fixed by how rows are built here.
ValidateEpistemicAdmission(r) == HasDomain(r[1], "epistemic") => r[4] \in Schema[r[1]].states
ValidateSemanticRow(r) == r[1] \in DOMAIN Schema /\ ValidateEpistemicAdmission(r)

=============================================================================
