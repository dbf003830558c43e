--------------------------- MODULE ProjectStore ----------------------------
(***************************************************************************)
(* What an output root keeps between processes: the summary objects, the   *)
(* rows that bind them, the current projection, and the facts of the run   *)
(* with their proofs.  A run's id hashes the revision and the              *)
(* configuration, not the summaries: an analysis repeated on the same      *)
(* revision publishes to the same run.                                     *)
(*                                                                         *)
(* A store is a record of tables: objects, listed, digests, bindings (a    *)
(* function with its summary), projection, facts, proofs, bound (the proof *)
(* selected for each fact) and receipts.                                   *)
(***************************************************************************)
EXTENDS RuleEngine, ThinCpg

EmptyStore == [objects |-> {}, listed |-> {}, digests |-> {}, bindings |-> {}, projection |-> {},
               facts |-> {}, proofs |-> {}, bound |-> {}, receipts |-> {}]

----------------------------------------------------------------------------
(* Summaries: objects are put before the transaction that lists and binds  *)
(* them, with the projection.                                              *)

ComputeFunctionSummaryId(f, s) == <<"summary", f, s>>
SummaryIds(sums) == {ComputeFunctionSummaryId(f, sums[f]) : f \in Function}

PutImmutableSummaryArtifacts(store, sums) ==
    [store EXCEPT !.objects = @ \cup SummaryIds(sums)]

StageObjectMetadata(store, sums) ==
    [store EXCEPT !.listed = @ \cup SummaryIds(sums),
                  !.digests = {d \in @ : d[1] \notin SummaryIds(sums)} \cup {<<id, id[3].digests>> : id \in SummaryIds(sums)}]

StageBinding(store, sums) ==
    [store EXCEPT !.bindings = {b \in @ : b[1] \notin Function} \cup {<<id[2], id>> : id \in SummaryIds(sums)}]

StageCurrentArtifactBindings(store, sums) ==
    Once(StageObjectMetadata(store, sums), LAMBDA listed : StageBinding(listed, sums))

CommitPublication(store, sums, g) ==
    Once(StageCurrentArtifactBindings(store, sums), LAMBDA staged :
        [staged EXCEPT !.projection = {[rows |-> StageProjection(g), id |-> g]}])

GetSummaryArtifact(store, id) == {x \in store.objects : x = id}

\* The summaries the references stand for, as a singleton.  One named by its
\* id must be bound now; a function without a summary is passed over.
ReadSummaries(store, refs) ==
    LET Named(ref) == {b \in store.bindings : IF ref[1] = "fn" THEN Fn(b[1]) = ref ELSE b[2] = ref}
        ids == {b[2] : b \in UNION {Named(ref) : ref \in refs}}
    IN  IF \/ \E ref \in refs : ref[1] # "fn" /\ Named(ref) = {}
           \/ \E id \in ids : GetSummaryArtifact(store, id) = {}
        THEN {} ELSE {UNION {GetSummaryArtifact(store, id) : id \in ids}}

----------------------------------------------------------------------------
(* Facts: a publication adds facts and selects its proofs for them.  It    *)
(* removes no fact, and a proof that is there keeps the summary it cites.  *)

Witness(x) == <<x.result, x.rule, x.inputs>>

\* The function whose summary states a row; a row of support is nobody's.
SupportRelations == {"SupportReachableCall", "SupportMayWrite", "SupportMayRead",
                     "SupportGlobalFlow", "SupportUnknownEffect"}
OwnerOf(r) == CASE Rel(r) = "LocalFlow" -> r[5][1]
                [] Rel(r) \in {"ParameterFlow", "ReturnFlow"} -> r[5][1][1]
                [] OTHER -> Subj(r)

\* A proof cites the summary of its first rooted input, if that one is local.
SummaryId(x, facts, sums) ==
    LET rooted == SelectSeq(x.inputs, LAMBDA i : i \notin facts)
    IN  IF rooted = <<>> \/ Rel(rooted[1]) \in SupportRelations THEN {}
        ELSE {ComputeFunctionSummaryId(OwnerOf(rooted[1]), sums[OwnerOf(rooted[1])])}

BatchId(batch) == <<batch.facts, batch.proofs>>

Publish(store, batch, sums) ==
    LET Known(x) == \E y \in store.proofs : Witness(y) = Witness(x)
    IN  IF BatchId(batch) \in store.receipts THEN store
        ELSE [store EXCEPT
                !.facts = @ \cup batch.facts,
                !.proofs = @ \cup {x @@ [summary |-> SummaryId(x, batch.facts, sums)] :
                                     x \in {y \in batch.proofs : ~Known(y)}},
                !.bound = {b \in @ : b[1] \notin batch.facts} \cup {Witness(x) : x \in batch.proofs},
                !.receipts = @ \cup {BatchId(batch)}]

=============================================================================
