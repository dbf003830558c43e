-------------------------- MODULE EvidencePipeline --------------------------
(***************************************************************************)
(* The analysis of a program continued to an evidence case: the summaries  *)
(* and the graph are stored before the whole-program run, its facts after  *)
(* it.  The process may stop at any time, and the revision may be analysed *)
(* again, with another share of the time budget, over what is stored.  A   *)
(* request for a claim is answered by a handoff over the stored graph and  *)
(* facts, the handoff is built into a case at one of three levels, and the *)
(* case, to which a reviewer may have added a hypothesis, is written as    *)
(* text and read back.                                                     *)
(***************************************************************************)
EXTENDS AnalysisPipeline, EvidenceCodecs

CONSTANTS
    History,  \* programs, each with the time budgets of its first and later analyses
    Budget,   \* the budgets a request may carry
    Extra     \* what others add: rows they bound to the run, whether a producer
              \* of checks has seen all of them, and a reviewer's hypotheses
              \* with the confidence these have

VARIABLES
    store,    \* what the output root holds
    saved,    \* how much of this analysis it holds: "none", "objects", "graph"
    later,    \* the time budgets of the analyses still to come
    request,  \* {} or the claim asked for, its budget, level and producer
    handoff,  \* {} or the handoff
    ecase,    \* {} or the case
    text,     \* {} or the case's text
    copy      \* {} or the case read from it

textVars == <<text, copy>>
storeVars == <<store, saved, later>>
queryVars == <<request, handoff, ecase, textVars>>
analysisVars == <<program, engine, clock, sums, done, batch, sccVars>>
allVars == <<vars, storeVars, queryVars>>

EvidenceInit ==
    /\ Init
    /\ \E h \in History : program = h[1] /\ clock = Head(h[2]) /\ later = Tail(h[2])
    /\ store = EmptyStore /\ saved = "none"
    /\ request = {} /\ handoff = {} /\ ecase = {} /\ text = {} /\ copy = {}

----------------------------------------------------------------------------
(* The analysis and what it leaves behind.                                 *)

\* The objects go in first, and only for a graph that is valid.
PutSummaries ==
    /\ phase = "graph" /\ saved = "none"
    /\ \E valid \in {Once(BuildThinCpg(program, sums), ValidGraph)} :
         /\ store' = IF valid THEN PutImmutableSummaryArtifacts(store, sums) ELSE store
         /\ saved' = IF valid THEN "objects" ELSE saved
         /\ phase' = IF valid THEN phase ELSE "invalid"
    /\ UNCHANGED <<analysisVars, later, queryVars>>

\* One transaction binds the summaries and makes their projection current.
PublishProjection ==
    /\ phase = "graph" /\ saved = "objects"
    /\ store' = Once(BuildThinCpg(program, sums), LAMBDA g : CommitPublication(store, sums, g))
    /\ saved' = "graph"
    /\ UNCHANGED <<analysisVars, phase, later, queryVars>>

\* A run that completes publishes its facts.
Analyse ==
    /\ phase = "graph" => saved = "graph"
    /\ LocalPass \/ SvfPass \/ BuildGraph \/ SccStep \/ RunComponent \/ Assemble
    /\ store' = IF phase = "scc" /\ phase' = "published" THEN Publish(store, batch', sums) ELSE store
    /\ UNCHANGED <<saved, later, queryVars>>

Forget == /\ sums' = <<>> /\ done' = <<>> /\ batch' = EmptyBatch /\ saved' = "none"
          /\ graph' = NoGraph /\ index' = <<>> /\ lowlink' = <<>>
          /\ stack' = <<>> /\ dfs' = <<>> /\ sccs' = {} /\ order' = <<>>

Crash ==
    /\ phase \in {"local", "svf", "graph", "scc"}
    /\ phase' = "stopped" /\ Forget
    /\ UNCHANGED <<program, engine, clock, store, later, queryVars>>

Ended == phase \in {"stopped", "published", "incomplete", "refused"}

Repeat ==
    /\ Ended /\ later # <<>>
    /\ clock' = Head(later) /\ later' = Tail(later)
    /\ phase' = "local" /\ Forget
    /\ UNCHANGED <<program, engine, store, queryVars>>

----------------------------------------------------------------------------
(* The request, the case and its text.                                     *)

Stored == CHOOSE x \in store.projection : TRUE
Graph1 == LoadProjection(Stored.rows, Stored.id)

\* An external row is its own proof, without inputs.
Bound(extra) ==
    Once({[result |-> r, rule |-> "external", inputs |-> <<>>, summary |-> {}] : r \in extra}, LAMBDA proofs :
        [store EXCEPT !.facts = @ \cup extra, !.proofs = @ \cup proofs, !.bound = @ \cup {Witness(x) : x \in proofs}])

\* There is a projection, and it has exactly one memcpy call site.
Claims == IF store.projection = {} THEN {} ELSE Once(Graph1, LAMBDA g : ResolveOverflowClaimSeed(g, <<>>))

\* There is no run to ask before one has published.
RequestEvidence ==
    /\ Ended /\ store.facts # {}
    /\ \E seed \in Claims, b \in Budget, l \in Level, x \in Extra :
         request' = {[seed |-> seed, budget |-> b, level |-> l, extra |-> x]}
    /\ phase' = "requested"
    /\ UNCHANGED <<analysisVars, storeVars, handoff, ecase, textVars>>

Asked == CHOOSE x \in request : TRUE

\* A producer that looks for checks itself, and has seen all of them.
Closed(h) == [h EXCEPT !.coverage["dominating_check"] = [@ EXCEPT !.supported = TRUE, !.closed = TRUE]]

AnswerRequest ==
    /\ phase = "requested"
    /\ \E g \in {Graph1}, s \in {Bound(Asked.extra.rows)} :
         handoff' = {IF Asked.extra.closed THEN Closed(h) ELSE h :
                       h \in BuildEvidenceInput(g, s, Asked.seed, Asked.budget)}
    /\ phase' = IF handoff' = {} THEN "unanswered" ELSE "answered"
    /\ UNCHANGED <<analysisVars, storeVars, request, ecase, textVars>>

Handoff == CHOOSE h \in handoff : TRUE

BuildCase ==
    /\ phase = "answered"
    /\ ecase' = UNION {FinalizeEvidenceIdentity(c) : c \in Build(Handoff, Asked.level)}
    /\ phase' = IF ecase' = {} THEN "unbuildable" ELSE "built"
    /\ UNCHANGED <<analysisVars, storeVars, request, handoff, textVars>>

Case == CHOOSE c \in ecase : TRUE

Hypothesised(c, formulas, confidence) ==
    [c EXCEPT !.hypotheses = {[id |-> <<"H", x>>, predicate |-> x, confidence |-> confidence] : x \in formulas}]

\* A case with the reviewer's hypotheses has another identity; one that is not
\* valid keeps the old one, which the writer refuses.
WriteText ==
    /\ phase = "built"
    /\ \E c \in {Hypothesised(Case, Asked.extra.formulas, Asked.extra.confidence)} : \E final \in {FinalizeEvidenceIdentity(c)} :
         ecase' = IF final = {} THEN {c} ELSE final
    /\ text' = WriteEirText(CHOOSE c \in ecase' : TRUE)
    /\ phase' = IF text' = {} THEN "unspellable" ELSE "written"
    /\ UNCHANGED <<analysisVars, storeVars, request, handoff, copy>>

ReadText ==
    /\ phase = "written"
    /\ copy' = ParseEirText(CHOOSE x \in text : TRUE)
    /\ phase' = "read"
    /\ UNCHANGED <<analysisVars, storeVars, request, handoff, ecase, text>>

EvidenceFinished ==
    /\ \/ Ended /\ (Claims = {} \/ store.facts = {})
       \/ phase \in {"invalid", "unanswered", "unbuildable", "unspellable", "read"}
    /\ UNCHANGED allVars

EvidenceNext ==
    Analyse \/ PutSummaries \/ PublishProjection \/ Crash \/ Repeat
    \/ RequestEvidence \/ AnswerRequest \/ BuildCase \/ WriteText \/ ReadText \/ EvidenceFinished

EvidenceSpec == EvidenceInit /\ [][EvidenceNext]_allVars

----------------------------------------------------------------------------
(* Properties.                                                             *)

Whole == WholeCase(Handoff, Asked.level)

\* What the fact store says of an analysis the current one has replaced.
Replaced(x) == ~(x.summary \subseteq {b[2] : b \in store.bindings}) \/ Witness(x) \notin store.bound

\* The service never hands over what the builder's own check refuses, and what
\* the builder makes of it passes the consumers' check at every level.  It
\* refuses a claim only over a proof of an earlier analysis with other results.
\* A case is refused only when the slice has a cycle or an access no byte window.
CaseValidates ==
    /\ phase # "invalid"
    /\ phase = "unanswered" => \E x \in store.proofs : Replaced(x)
    /\ phase = "answered" => ValidateEvidenceHandoffCoverage(Handoff)
    /\ phase = "built" => ValidateEvidenceCase(Case) = {}
    /\ phase = "unbuildable" =>
         \/ ~Acyclic({<<e.src, e.dst>> : e \in Handoff.flow.edges})
         \/ \E r \in Routed(Handoff) : Rel(r) \in {"DirectRead", "DirectWrite"} /\ ~ReadByteWindow(r)

RECURSIVE Mirrored(_, _)
Mirrored(x, kinds) ==
    Once(Mapped(LAMBDA y : Mirrored(y, kinds), x[3]), LAMBDA operands :
        <<x[1], x[2], IF x[1] \in kinds THEN Reverse(operands) ELSE operands>>)
MirroredCase(c, kinds) == [c EXCEPT !.hypotheses = {[h EXCEPT !.predicate = Mirrored(@, kinds)] : h \in @}]

\* The three forms of a case agree.  A text is read as the case it was written
\* from, under the same identity; so is a message, and every valid case has one.
\* The identity, and the document, is that of every order of the operands of a
\* conjunction or a disjunction; the identity is that of no exchange of the sides
\* of anything else.  A case the builder made has a text: only a hypothesis can
\* be without one, where it has no type or uses a name the grammar has claimed.
TextRoundTrip ==
    /\ phase = "read" =>
         /\ copy = ecase
         /\ \A other \in {MirroredCase(Case, {"and", "or"})} :
                ComputeEvidenceId(other) \in Case.evidence_id /\ ToEvidenceJson(other) = ToEvidenceJson(Case)
         /\ \A other \in {MirroredCase(Case, {"compare", "implies", "call"})} :
                ComputeEvidenceId(other) \in Case.evidence_id => other = Case
    /\ phase \in {"read", "unspellable"} =>
         \A wire \in {ToEvidenceProto(Case)} :
           UNION {FromEvidenceProto(m) : m \in wire} =
             IF phase = "unspellable" /\ ValidateEvidenceCase(Case) # {} THEN {} ELSE ecase
    /\ phase = "unspellable" => \E x \in Case.hypotheses : ~Spellable(x.predicate) \/ ~CheckExpression(x.predicate, 0)

\* Whatever a level leaves out of the whole case is named by an omission.
NothingWithheldSilently ==
    phase = "built" =>
      \A whole \in {Whole} : \A m \in (Members(whole) \cup IdsOf(whole.omissions)) \ (Members(Case) \cup IdsOf(Case.omissions)) :
        \E o \in Case.omissions : o.id = <<"OM", "level_projection", m>>

Holds(kind, r) ==
    LET s == Asked.seed
    IN  CASE kind = "alias" -> Rel(r) = "Alias" /\ s.subject \in {Cell(r, 0), Cell(r, 1)}
          [] kind = "capacity" -> Rel(r) = "DirectWrite" /\ Cell(r, 1) = s.subject
          [] kind = "dominating_check" -> Rel(r) = "DominatingCheck" /\ Cell(r, 0) = s.sink
          [] kind = "unknown" -> Rel(r) = "UnknownEffect" /\ Cell(r, 0) = Fn(s.owner)
          [] OTHER -> FALSE

RECURSIVE Premises(_, _)
Premises(proofs, S) ==
    Once(S \cup UNION {Range(x.inputs) : x \in {y \in proofs : y.result \in S}}, LAMBDA T :
        IF T = S THEN S ELSE Premises(proofs, T))

\* A case never says less is open than is: a question it does not mark as cut
\* short holds every bound row; a check it declares absent is nowhere bound; no
\* path and no cut mean there is no flow; an explanation without a reason has
\* the whole proof in the provenance.
CaseHonest ==
    phase = "built" =>
      LET Cut(k) == <<"U_coverage", <<k, "truncated_query">>>> \in IdsOf(Case.unknowns)
      IN  \A s \in {Bound(Asked.extra.rows)} :
          /\ \A k \in Slots : ~Cut(k) =>
               {r \in s.facts : Holds(k, r)} \subseteq Handoff.slots[k].facts
          /\ <<"F_absence">> \in IdsOf(Whole.facts) =>
               ~\E r \in s.facts : Holds("dominating_check", r)
          /\ Case.paths = {} /\ ~Cut("value_flow") => ~Reachable(Stored.id, Asked.seed.source, Asked.seed.sink)
          /\ \A x \in Handoff.explanations : x.reasons = {} =>
               Premises(s.proofs, {x.fact}) \cap s.facts \subseteq Handoff.nodes

\* Wherever an analysis ended or was stopped, the bound summaries have their
\* objects, the current projection is that of exactly these summaries and is
\* read back as it was built, and a traversal of it that reports neither a path
\* nor a cut has nothing to find.
GraphFaithful ==
    Ended =>
      /\ {b[2] : b \in store.bindings} \subseteq store.listed /\ store.listed \subseteq store.objects
      /\ store.bindings = {} <=> store.projection = {}
      /\ store.projection # {} =>
           \A g \in {Graph1} :
             /\ g = BuildThinCpg(program, [f \in Function |-> (CHOOSE b \in store.bindings : b[1] = f)[2][3]])
             /\ \A seed \in ResolveOverflowClaimSeed(g, <<>>), b \in Budget :
                \A t \in {GetValueFlow(g, seed.source, seed.sink, b)} :
                  t.items = {} /\ t.reasons = {} => ~Reachable(g, seed.source, seed.sink)

=============================================================================
