-------------------------- MODULE AnalysisPipeline --------------------------
(***************************************************************************)
(* One analysis of one program, from the local pass to the validated fact  *)
(* batch: the summaries, the call graph, its components bottom up, four    *)
(* rule components for each, and the batch.                                *)
(***************************************************************************)
EXTENDS CallGraph, SccGraph, RuleEngine, Canonicalizer, FactBatch

CONSTANTS
    Program,   \* the programs considered
    Engine,    \* the engine modes considered: "souffle", "oracle", "emergency"
    Clock      \* soft time budgets of the SVF pass, in alias queries

ASSUME ProgramAssumption == \A p \in Program : IsProgram(p)

VARIABLES
    program, engine, clock,
    phase,     \* how far the analysis has come
    sums,      \* the summary of every function
    done,      \* the completed components, in the order they ran
    batch      \* the assembled batch

runVars == <<program, engine, clock, phase, sums, done, batch>>
vars == <<runVars, sccVars>>

Init ==
    /\ program \in Program /\ engine \in Engine /\ clock \in Clock
    /\ phase = "local" /\ sums = <<>> /\ done = <<>> /\ batch = EmptyBatch
    /\ graph = NoGraph /\ SearchInit

LocalPass ==
    /\ phase = "local"
    /\ sums' = RunLocalAnalysis(program)
    /\ phase' = "svf"
    /\ UNCHANGED <<program, engine, clock, done, batch, sccVars>>

SvfPass ==
    /\ phase = "svf"
    /\ sums' = MergeSvfFactsV2(sums, MapSvfFacts(program, clock))
    /\ phase' = "graph"
    /\ UNCHANGED <<program, engine, clock, done, batch, sccVars>>

\* A refused call graph leaves the run incomplete.
BuildGraph ==
    /\ phase = "graph"
    /\ graph' = FromSummaries(sums)
    /\ phase' = IF graph'.ok THEN "scc" ELSE "incomplete"
    /\ UNCHANGED <<program, engine, clock, sums, done, batch, searchVars>>

SccStep ==
    /\ phase = "scc"
    /\ SccNext
    /\ UNCHANGED runVars

Expected == {<<c, k>> : c \in sccs, k \in Range(Component4)}

\* Component after component of the order, and within it kind after kind.
NextKey == <<order[(Len(done) \div 4) + 1], Component4[(Len(done) % 4) + 1]>>

\* Mutant: only the successor that completed last supports.
LastSupport(c, kind) ==
    LET from == SelectSeq(done, LAMBDA y : y.key[1] \in Successors(c) /\ y.key[2] = kind)
    IN  IF from = <<>> THEN {} ELSE from[Len(from)].facts

SuccessorSupport(c, kind) ==
    UNION {x.facts : x \in {y \in Range(done) : y.key[1] \in Successors(c) /\ y.key[2] = kind}}

\* What the C++ engine derives is checked by the canonicalizer alone.
CppExecute(kind, rows) ==
    Once(CppEvaluate(kind, rows), LAMBDA D :
        [ok |-> TRUE, results |-> Results(D), derivations |-> D])

Evaluate(kind, rows) == IF engine = "emergency" THEN CppExecute(kind, rows) ELSE Execute(kind, rows)

RunComponent ==
    /\ phase = "scc" /\ Ordered /\ Len(done) < 4 * Len(order)
    /\ \E roots \in {Materialize(sums, NextKey[1], NextKey[2], SuccessorSupport(NextKey[1], NextKey[2]))} :
       \E raw \in {Evaluate(NextKey[2], roots)} :
       \E result \in {Canonicalize(roots, raw)} :
           IF raw.ok /\ result.ok
           THEN /\ done' = Append(done, [key |-> NextKey, roots |-> roots,
                                         facts |-> result.facts, proofs |-> result.proofs])
                /\ UNCHANGED phase
           ELSE phase' = "incomplete" /\ UNCHANGED done
    /\ UNCHANGED <<program, engine, clock, sums, batch, sccVars>>

\* The conformance run executes the C++ engine on the same inputs.
Conformance(x) ==
    Once(CppExecute(x.key[2], x.roots), LAMBDA raw : Canonicalize(x.roots, raw))

CompareCanonicalResults ==
    \A x \in Range(done) : /\ Conformance(x).facts = x.facts
                           /\ Conformance(x).proofs = x.proofs

\* The keys are digests: the components are assembled in any order of theirs.
Assemble ==
    /\ phase = "scc" /\ Ordered /\ Len(done) = 4 * Len(order)
    /\ IF engine = "oracle" /\ ~CompareCanonicalResults
       THEN phase' = "incomplete" /\ UNCHANGED batch
       ELSE \E s \in Injection(1 .. Cardinality(sccs), sccs) :
              \E sorted \in {FoldOnce(LAMBDA q, c : q \o SelectSeq(done, LAMBDA x : x.key[1] = c), <<>>, s)} :
                  /\ batch' = MakeAnalysisFactBatch(sorted, UNION {x.roots : x \in Range(done)})
                  /\ phase' = IF Validate(batch', Expected) THEN "published" ELSE "refused"
    /\ UNCHANGED <<program, engine, clock, sums, done, sccVars>>

Finished == phase \in {"published", "refused", "incomplete"} /\ UNCHANGED vars

Next == LocalPass \/ SvfPass \/ BuildGraph \/ SccStep \/ RunComponent \/ Assemble \/ Finished

Spec == Init /\ [][Next]_vars

----------------------------------------------------------------------------
(* Properties.                                                             *)

Facts(kind) == UNION {x.facts : x \in {y \in Range(done) : y.key[2] = kind}}
Complete == phase = "published"

\* What a call may transfer control to, and what that reaches.
Transfers == UNION {{<<s[1], g>> : g \in Code(program, s).to} : s \in At(program, {"call", "icall"})}

Unknown(f) == \E r \in Facts("effects") : Rel(r) = "UnknownEffect" /\ Subj(r) = f

\* A completed run never claims less than the program does: whatever a
\* function's calls may reach, and whatever is stored there, is a fact of the
\* function, or the function is marked as having an unknown effect.  It holds
\* when the budget cuts the SVF pass short as well.
SoundOrUnknown ==
    Complete =>
      \A reach \in {Once(Transfers, Closure)} : \A f \in Function : Unknown(f) \/
        /\ \A x \in reach : x[1] = f =>
             \E r \in Facts("reachability") : Subj(r) = f /\ Obj(r) = x[2]
        /\ \A s \in At(program, {"store"}) : (s[1] = f \/ <<f, s[1]>> \in reach) =>
             \E r \in Facts("memory-effects") :
                /\ Rel(r) = "MayWrite" /\ Subj(r) = f
                /\ Obj(r) = LocationId(LocationFor(Code(program, s), s, TRUE))

\* Evaluating component by component, bottom up, with the successors' results
\* as support, gives what one evaluation of the whole program gives.
ModularIsGlobal ==
    Complete =>
      \A kind \in {"reachability", "memory-effects", "effects"} :
        Facts(kind) = Results(Once(Materialize(sums, Function, kind, {}), LAMBDA rows : SouffleEvaluate(kind, rows)))

\* Every run publishes.  Each component's rows are rows the schema admits with
\* a finite proof, whatever states its calls weaken to; the assembled batch
\* passes the bus, with one closed proof for each fact and no fact resting on
\* itself, whatever order the digests give.  The one exception is an indirect
\* call that may reach a declared function: two unknown targets at one site,
\* which the call graph refuses.
RunPublishes ==
    /\ phase # "refused"
    /\ phase = "incomplete" => \E s \in At(program, {"icall"}) : Code(program, s).to \cap Declared # {}

\* The two engines select proofs by the same rules for the same results, so
\* the conformance run accepts what the Souffle engine derived.
EnginesAgree ==
    \A x \in Range(done) :
      /\ Conformance(x).facts = x.facts
      /\ {<<y.result, y.rule>> : y \in Conformance(x).proofs} = {<<y.result, y.rule>> : y \in x.proofs}

=============================================================================
