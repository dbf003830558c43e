------------------------------ MODULE EirText ------------------------------
(***************************************************************************)
(* The textual form of an evidence case: the writer, and the parser that   *)
(* must give back the case it was written from.                            *)
(*                                                                         *)
(* A formula is a sequence of tokens.  A declaration is <<keyword, handle, *)
(* lines>>, a line <<attribute, value>> and a value <<form, content>>;     *)
(* braces, '=' and ';' are this nesting.  Free text, stable ids, producers *)
(* and the context block are left out; a required attribute that the case  *)
(* does not carry here is a fixed word.                                    *)
(***************************************************************************)
EXTENDS EvidenceCanonicalizer

----------------------------------------------------------------------------
(* Formulas, written.                                                      *)

Word(w) == <<"word", w>>
Open == <<"(">>
Close == <<")">>
Comma == <<",">>
End == <<"end">>
Sigil(id) == <<<<"@">>, <<"name", id>>>>

IsBooleanSpelling(w) == w \in {"true", "false"}
IsReservedCalleeName(w) == w \in {"not", "forall", "exists"}
IsReservedPredicateName(w) ==
    IsBooleanSpelling(w) \/ IsReservedCalleeName(w) \/ w \in {"and", "or", "implies"}

\* Mutant: an implication binds as tightly as a disjunction.
FlatPower(kind) ==
    CASE kind \in {"forall", "exists"} -> 0 [] kind \in {"implies", "or"} -> 20
      [] kind = "and" -> 30 [] kind = "compare" -> 40 [] kind = "not" -> 50 [] OTHER -> 60

BindingPower(kind) ==
    CASE kind \in {"forall", "exists"} -> 0 [] kind = "implies" -> 10 [] kind = "or" -> 20
      [] kind = "and" -> 30 [] kind = "compare" -> 40 [] kind = "not" -> 50 [] OTHER -> 60

Separated(seqs, separator) ==
    FoldOnce(LAMBDA text, s : IF text = <<>> THEN s ELSE text \o separator \o s, <<>>, seqs)

RECURSIVE Value(_)
Value(x) ==
    CASE x[1] \in {"string", "integer"} -> <<<<x[1], x[2]>>>>
      [] x[1] = "bool" -> <<Word(IF x[2] THEN "true" ELSE "false")>>
      [] x[1] = "ref" -> Sigil(x[2])
      [] x[1] = "symbol" -> <<Word(x[2])>>
      [] x[1] = "call" -> <<Word(x[2]), Open>>
                          \o Separated(Mapped(Value, x[3]), <<Comma>>) \o <<Close>>

\* Parenthesised exactly where the reader of this place would bind tighter.
RECURSIVE Predicate(_, _)
Predicate(x, min) ==
    LET At1(k, bp) == Predicate(x[3][k], bp)
        Each(bp) == Mapped(LAMBDA y : Predicate(y, bp), x[3])
        body ==
          CASE x[1] = "call" ->
                 <<Word(x[2]), Open>> \o Separated(Each(0), <<Comma>>) \o <<Close>>
            [] x[1] = "not" -> <<Word("not")>> \o At1(1, 50)
            [] x[1] = "compare" -> At1(1, 50) \o <<<<"op", x[2]>>>> \o At1(2, 50)
            [] x[1] = "and" -> Separated(Each(40), <<Word("and")>>)
            [] x[1] = "or" -> Separated(Each(30), <<Word("or")>>)
            [] x[1] = "implies" -> At1(1, 20) \o <<Word("implies")>> \o At1(2, 10)
            [] x[1] \in {"forall", "exists"} ->
                 <<Word(x[1]), Word(x[2]), Word("in")>> \o Value(x[3][1]) \o <<<<":">>>> \o At1(2, 0)
            [] OTHER -> Value(x)
    IN  IF BindingPower(x[1]) < min THEN <<Open>> \o body \o <<Close>> ELSE body

RECURSIVE SpellableValue(_)
SpellableValue(x) ==
    /\ x[1] \in {"string", "integer", "bool", "ref", "symbol", "call"}
    /\ x[1] = "symbol" => ~IsBooleanSpelling(x[2])
    /\ \A y \in Range(x[3]) : SpellableValue(y)

\* What the writer refuses: a name the grammar claims, a compound value.
RECURSIVE Spellable(_)
Spellable(x) ==
    /\ x[1] = "symbol" => ~IsReservedPredicateName(x[2])
    /\ x[1] = "call" => ~IsReservedCalleeName(x[2])
    /\ IF x[1] \in {"forall", "exists"}
       THEN x[3][1][1] \in {"ref", "call"} /\ SpellableValue(x[3][1]) /\ Spellable(x[3][2])
       ELSE \A y \in Range(x[3]) : Spellable(y)

----------------------------------------------------------------------------
(* Formulas, read: each reader takes the tokens and a place, and gives the *)
(* expression with the place after it, or nothing.                         *)

Read(x, i) == {[x |-> x, i |-> i]}
Expect(t, S, token) == {[r EXCEPT !.i = @ + 1] : r \in {q \in S : t[q.i] = token}}
ComparisonText(token) == token[1] = "op"

MakeConnective(kind, operands) ==
    <<kind, 0, FlattenSeq([k \in DOMAIN operands |->
                  IF operands[k][1] = kind THEN operands[k][3] ELSE <<operands[k]>>])>>

RECURSIVE ParsePropertyValue(_, _), ParsePropertyValueList(_, _, _)
ParsePropertyValue(t, i) ==
    CASE t[i][1] \in {"string", "integer"} -> Read(<<t[i][1], t[i][2], <<>>>>, i + 1)
      [] t[i] = <<"@">> -> IF t[i + 1][1] = "name" THEN Read(Reference(t[i + 1][2]), i + 2) ELSE {}
      [] t[i][1] = "word" /\ t[i + 1] = Open ->
           UNION {Read(CallExpr(t[i][2], r.x), r.i) : r \in Expect(t, ParsePropertyValueList(t, i + 2, <<>>), Close)}
      [] t[i][1] = "word" /\ t[i + 1] # Open ->
           Read(IF IsBooleanSpelling(t[i][2]) THEN <<"bool", t[i][2] = "true", <<>>>>
                ELSE <<"symbol", t[i][2], <<>>>>, i + 1)
      [] OTHER -> {}
ParsePropertyValueList(t, i, read) ==
    IF read = <<>> /\ t[i] = Close THEN Read(read, i)
    ELSE UNION {IF t[r.i] = Comma THEN ParsePropertyValueList(t, r.i + 1, Append(read, r.x))
                ELSE Read(Append(read, r.x), r.i) : r \in ParsePropertyValue(t, i)}

RECURSIVE ParsePredicate(_, _), ParseImplication(_, _), ParseOr(_, _, _), ParseAnd(_, _, _),
          ParseComparison(_, _), ParseUnary(_, _), ParsePrimary(_, _), ParsePredicateArgumentList(_, _, _)

\* A quantifier is the loosest level and owns everything after its colon.
ParseQuantified(t, i) ==
    UNION {UNION {Read(Quantified(t[i][2], t[i + 1][2], d.x, b.x), b.i) : b \in ParsePredicate(t, d.i)} :
             d \in IF t[i + 1][1] = "word" /\ t[i + 2] = Word("in") /\ (t[i + 3] = <<"@">> \/ t[i + 4] = Open)
                   THEN Expect(t, ParsePropertyValue(t, i + 3), <<":">>) ELSE {}}

ParsePredicate(tokens, i) == Once(tokens, LAMBDA t :
    IF t[i] \in {Word("forall"), Word("exists")} THEN ParseQuantified(t, i) ELSE ParseImplication(t, i))

\* Right associative.
ParseImplication(t, i) ==
    UNION {IF t[l.i] = Word("implies")
           THEN UNION {Read(<<"implies", 0, <<l.x, r.x>>>>, r.i) : r \in ParseImplication(t, l.i + 1)}
           ELSE {l} : l \in ParseOr(t, i, <<>>)}

Chained(kind, read, r) == IF read = <<>> THEN {r} ELSE Read(MakeConnective(kind, Append(read, r.x)), r.i)
ParseOr(t, i, read) ==
    UNION {IF t[r.i] = Word("or") THEN ParseOr(t, r.i + 1, Append(read, r.x)) ELSE Chained("or", read, r) :
             r \in ParseAnd(t, i, <<>>)}
ParseAnd(t, i, read) ==
    UNION {IF t[r.i] = Word("and") THEN ParseAnd(t, r.i + 1, Append(read, r.x)) ELSE Chained("and", read, r) :
             r \in ParseComparison(t, i)}

\* Not associative: a chain of comparisons is refused.
ParseComparison(t, i) ==
    UNION {IF ~ComparisonText(t[l.i]) THEN {l}
           ELSE UNION {IF ComparisonText(t[r.i]) THEN {} ELSE Read(Compare(t[l.i][2], l.x, r.x), r.i) :
                         r \in ParseUnary(t, l.i + 1)} : l \in ParseUnary(t, i)}

ParseUnary(t, i) ==
    IF t[i] = Word("not") THEN UNION {Read(<<"not", 0, <<r.x>>>>, r.i) : r \in ParseUnary(t, i + 1)}
    ELSE ParsePrimary(t, i)

ParsePrimary(t, i) ==
    CASE t[i] = Open -> Expect(t, ParsePredicate(t, i + 1), Close)
      [] t[i][1] = "word" /\ t[i + 1] = Open ->
           UNION {Read(CallExpr(t[i][2], r.x), r.i) :
                    r \in Expect(t, ParsePredicateArgumentList(t, i + 2, <<>>), Close)}
      [] OTHER -> ParsePropertyValue(t, i)
ParsePredicateArgumentList(t, i, read) ==
    IF read = <<>> /\ t[i] = Close THEN Read(read, i)
    ELSE UNION {IF t[r.i] = Comma THEN ParsePredicateArgumentList(t, r.i + 1, Append(read, r.x))
                ELSE Read(Append(read, r.x), r.i) : r \in ParsePredicate(t, i)}

\* A formula ends where its attribute does.
Formula(value) ==
    LET t == value[2]
    IN  {r.x : r \in {q \in ParsePredicate(t, 1) : t[q.i] = End}}

----------------------------------------------------------------------------
(* Members, written: required attributes always, optional ones when set.   *)

Ref(id) == <<"ref", id>>
Tokens(x) == <<"predicate", Append(Predicate(x, 0), End)>>
Line(attribute, value) == <<<<attribute, value>>>>
Optional(set, attribute, value) == IF set THEN Line(attribute, value) ELSE <<>>
Specified(attribute, w) == Optional(w # "unspecified", attribute, Word(w))

WriteEntity(e) == <<"entity", e.id, Line("kind", Word(e.kind))>>

WriteClaim(c) ==
    <<"claim", c.id, Line("kind", Word("memory_safety")) \o Line("subject", Ref(c.subject))
                     \o Line("predicate", Tokens(c.predicate)) \o Line("severity", Word("high"))>>

WriteFact(f) ==
    <<"fact", f.id, Line("predicate", Tokens(f.predicate)) \o Line("epistemic", Word(f.ep))
                    \o Specified("confidence", f.confidence) \o Line("provenance", Ref(f.prov))
                    \o Optional(f.derived, "derived", <<"bool", TRUE>>)>>

WriteHypothesis(h) ==
    <<"hypothesis", h.id, Line("predicate", Tokens(h.predicate)) \o Line("producer", Word("reviewer"))
                          \o Specified("confidence", h.confidence)>>

WriteUnknown(u) ==
    <<"unknown", u.id, Line("property", Tokens(u.property)) \o Line("reason", Word(u.code))
                       \o Optional(u.blocking # {}, "blocking", <<"refs", u.blocking>>)>>

WriteEdge(e) ==
    <<"edge", e.id, Line("from", Ref(e.from)) \o Line("to", Ref(e.to)) \o Line("kind", Word(e.kind))
                    \o Specified("epistemic", e.ep) \o Line("provenance", Ref(e.prov))>>

\* The segments are an ordered sequence, the conditions a block.
WritePath(p) ==
    <<"path", p.id, Line("segments", <<"segments", p.entities>>)
                    \o Optional(p.conditions # {}, "conditions", <<"block", {Tokens(x) : x \in p.conditions}>>)
                    \o Specified("feasible", p.feasibility) \o Line("provenance", Ref(p.prov))>>

WriteConstraint(k) ==
    <<"constraint", k.id, Line("expr", Tokens(k.expression)) \o Specified("epistemic", k.ep)
                          \o Line("provenance", Ref(k.prov))>>

WriteProvenance(r) ==
    <<"provenance", r.id, Line("producer", Word("analysis")) \o Optional(r.rule # "", "rule", <<"string", r.rule>>)
                          \o Optional(r.inputs # {}, "inputs", <<"facts", r.inputs>>)
                          \o Line("analysis_run", <<"string", "run">>)>>

WriteVerification(o) ==
    <<"verify", o.id, Line("prove", Tokens(o.predicate)) \o Specified("status", o.status)
                      \o Optional(o.result # {}, "result", Ref(o.result))>>

WriteSummary(s) == <<"summary", s.id, Line("function", Ref(s.function)) \o Line("summary_id", <<"string", s.id>>)>>
WriteDependency(id) == <<"dependency", id, Line("kind", Word("fact")) \o Line("stable_id", <<"string", id>>)>>

WriteOmission(o) ==
    <<"omission", o.id, Line("kind", Word(o.id[2])) \o Line("subject", Ref(o.subject))
                        \o Line("reason", <<"string", "withheld">>) \o Line("expandable", <<"bool", o.expandable>>)>>

WriteStatements(c) ==
    {WriteEntity(x) : x \in c.entities} \cup {WriteClaim(c.claim)} \cup {WriteFact(x) : x \in c.facts}
    \cup {WriteHypothesis(x) : x \in c.hypotheses} \cup {WriteUnknown(x) : x \in c.unknowns}
    \cup {WriteEdge(x) : x \in c.edges} \cup {WritePath(x) : x \in c.paths}
WriteSupport(c) ==
    {WriteConstraint(x) : x \in c.constraints} \cup {WriteProvenance(x) : x \in c.provenance}
    \cup {WriteVerification(x) : x \in c.obligations} \cup {WriteSummary(x) : x \in c.summaries}
    \cup {WriteDependency(x) : x \in c.dependencies} \cup {WriteOmission(x) : x \in c.omissions}

\* A text, or none for a case whose identity is not that of its content, that
\* is not valid, or that has no spelling.
WriteEirText(c) ==
    IF \/ c.evidence_id # {ComputeEvidenceId(c)}
       \/ ValidateEvidenceCase(c) # {}
       \/ \E x \in Expressions(c) : ~Spellable(x)
    THEN {}
    ELSE {[level |-> c.level, members |-> WriteStatements(c) \cup WriteSupport(c)]}

----------------------------------------------------------------------------
(* Members, read.                                                          *)

\* No attribute twice, none unknown, every required one, each in its form.
AttributeReader(d, form, required) ==
    LET names == [k \in DOMAIN d[3] |-> d[3][k][1]]
    IN  /\ IsInjective(names)
        /\ required \subseteq Range(names) /\ Range(names) \subseteq DOMAIN form
        /\ \A k \in DOMAIN d[3] : d[3][k][2][1] = form[d[3][k][1]]

\* The value of an attribute, or what the member holds without it.
Bound1(d, attribute, default) ==
    LET S == {k \in DOMAIN d[3] : d[3][k][1] = attribute}
    IN  IF S = {} THEN default ELSE d[3][CHOOSE k \in S : TRUE][2][2]
FormulaOf(d, attribute) == Formula(<<"predicate", Bound1(d, attribute, <<End>>)>>)

ParseEntity(d) ==
    IF AttributeReader(d, [kind |-> "word"], {"kind"}) THEN {[id |-> d[2], kind |-> Bound1(d, "kind", "none")]} ELSE {}

ParseClaim(d) ==
    IF AttributeReader(d, [kind |-> "word", subject |-> "ref", predicate |-> "predicate", severity |-> "word",
                           description |-> "string"], {"kind", "subject", "predicate", "severity"})
    THEN {[id |-> d[2], subject |-> Bound1(d, "subject", ""), predicate |-> x] : x \in FormulaOf(d, "predicate")}
    ELSE {}

ParseFact(d) ==
    IF AttributeReader(d, [predicate |-> "predicate", epistemic |-> "word", confidence |-> "word", source |-> "word",
                           provenance |-> "ref", stable_id |-> "string", derived |-> "bool"],
                       {"predicate", "epistemic"})
    THEN {[id |-> d[2], predicate |-> x, ep |-> Bound1(d, "epistemic", ""),
           confidence |-> Bound1(d, "confidence", "unspecified"), derived |-> Bound1(d, "derived", FALSE),
           prov |-> Bound1(d, "provenance", "")] : x \in FormulaOf(d, "predicate")}
    ELSE {}

ParseHypothesis(d) ==
    IF AttributeReader(d, [predicate |-> "predicate", producer |-> "word", reason |-> "string", confidence |-> "word"],
                       {"predicate", "producer"})
    THEN {[id |-> d[2], predicate |-> x, confidence |-> Bound1(d, "confidence", "unspecified")] :
            x \in FormulaOf(d, "predicate")}
    ELSE {}

ParseUnknown(d) ==
    IF AttributeReader(d, [property |-> "predicate", reason |-> "word", detail |-> "string", blocking |-> "refs",
                           suggested_resolution |-> "call"], {"property", "reason"})
    THEN {[id |-> d[2], code |-> Bound1(d, "reason", ""), property |-> x, blocking |-> Bound1(d, "blocking", {})] :
            x \in FormulaOf(d, "property")}
    ELSE {}

\* "condition", "transfer" and "summary" are refused, not dropped.
ParseEdge(d) ==
    IF AttributeReader(d, [from |-> "ref", to |-> "ref", kind |-> "word", epistemic |-> "word", provenance |-> "ref",
                           summarized_by |-> "ref", expandable |-> "bool"], {"from", "to", "kind"})
    THEN {[id |-> d[2], from |-> Bound1(d, "from", ""), to |-> Bound1(d, "to", ""), kind |-> Bound1(d, "kind", ""),
           ep |-> Bound1(d, "epistemic", "unspecified"), prov |-> Bound1(d, "provenance", "")]}
    ELSE {}

ParsePath(d) ==
    LET block == Bound1(d, "conditions", {})
    IN  IF /\ AttributeReader(d, [segments |-> "segments", conditions |-> "block", feasible |-> "word",
                                  provenance |-> "ref"], {"segments"})
           /\ \A x \in block : Formula(x) # {}
        THEN {[id |-> d[2], entities |-> Bound1(d, "segments", <<>>),
               feasibility |-> Bound1(d, "feasible", "unspecified"), prov |-> Bound1(d, "provenance", ""),
               conditions |-> UNION {Formula(x) : x \in block}]}
        ELSE {}

ParseConstraint(d) ==
    IF AttributeReader(d, [expr |-> "predicate", scope |-> "scope", epistemic |-> "word", provenance |-> "ref"],
                       {"expr"})
    THEN {[id |-> d[2], ep |-> Bound1(d, "epistemic", "unspecified"), prov |-> Bound1(d, "provenance", ""),
           expression |-> x] : x \in FormulaOf(d, "expr")}
    ELSE {}

\* "location" is refused, not dropped.
ParseProvenance(d) ==
    IF AttributeReader(d, [producer |-> "word", rule |-> "string", inputs |-> "facts", source_anchor |-> "string",
                           analysis_run |-> "string", version |-> "string", configuration |-> "string"], {"producer"})
    THEN {[id |-> d[2], rule |-> Bound1(d, "rule", ""), inputs |-> Bound1(d, "inputs", {})]}
    ELSE {}

\* The name of the goal's attribute is the kind of the goal.
ParseVerification(d) ==
    IF AttributeReader(d, [prove |-> "predicate", using |-> "words", budget |-> "budget", status |-> "word",
                           result |-> "ref", producer |-> "word"], {"prove"})
    THEN {[id |-> d[2], status |-> Bound1(d, "status", "unspecified"), result |-> Bound1(d, "result", {}),
           predicate |-> x] : x \in FormulaOf(d, "prove")}
    ELSE {}

ParseSummary(d) ==
    IF AttributeReader(d, [function |-> "ref", summary_id |-> "string", components |-> "words"],
                       {"function", "summary_id"})
    THEN {[id |-> d[2], function |-> Bound1(d, "function", "")]} ELSE {}

ParseDependency(d) ==
    IF AttributeReader(d, [kind |-> "word", stable_id |-> "string"], {"kind", "stable_id"}) THEN {d[2]} ELSE {}

ParseOmission(d) ==
    IF AttributeReader(d, [kind |-> "word", subject |-> "ref", reason |-> "string", expandable |-> "bool"],
                       {"kind", "subject", "reason", "expandable"})
    THEN {[id |-> d[2], subject |-> Bound1(d, "subject", ""), expandable |-> Bound1(d, "expandable", FALSE)]} ELSE {}

ParseEvidenceMember(d) ==
    CASE d[1] = "claim" -> ParseClaim(d) [] d[1] = "entity" -> ParseEntity(d) [] d[1] = "fact" -> ParseFact(d)
      [] d[1] = "hypothesis" -> ParseHypothesis(d) [] d[1] = "unknown" -> ParseUnknown(d)
      [] d[1] = "edge" -> ParseEdge(d) [] d[1] = "path" -> ParsePath(d) [] d[1] = "constraint" -> ParseConstraint(d)
      [] d[1] = "provenance" -> ParseProvenance(d) [] d[1] = "verify" -> ParseVerification(d)
      [] d[1] = "summary" -> ParseSummary(d) [] d[1] = "dependency" -> ParseDependency(d)
      [] d[1] = "omission" -> ParseOmission(d) [] OTHER -> {}

\* One claim; any member that cannot be read refuses the text, and the
\* identity of a case that is read is computed, never read.
ParseEirText(text) ==
    LET Of1(keyword) == {d \in text.members : d[1] = keyword}
        All(keyword) == UNION {ParseEvidenceMember(d) : d \in Of1(keyword)}
        read == {[evidence_id |-> {}, level |-> text.level, claim |-> c, entities |-> All("entity"), edges |-> All("edge"),
                  paths |-> All("path"), facts |-> All("fact"), hypotheses |-> All("hypothesis"),
                  unknowns |-> All("unknown"), constraints |-> All("constraint"), obligations |-> All("verify"),
                  provenance |-> All("provenance"), dependencies |-> All("dependency"), summaries |-> All("summary"),
                  omissions |-> All("omission")] : c \in All("claim")}
    IN  IF (\E d \in text.members : ParseEvidenceMember(d) = {}) \/ Cardinality(Of1("claim")) > 1 THEN {}
        ELSE UNION {FinalizeEvidenceIdentity(c) : c \in read}
=============================================================================
