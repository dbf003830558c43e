------------------------------- MODULE WpaRun -------------------------------
(***************************************************************************)
(* One whole-program-analysis run and the stores it leaves behind.         *)
(*                                                                         *)
(* RunWpa (ProjectAnalyzer.cpp) opens one WpaRunRepository and one         *)
(* SccStateRepository over the same metadata database and object store,    *)
(* lets WpaOrchestrator::Run execute the expected components in order,     *)
(* optionally repeats the run on the C++ conformance engine, and publishes *)
(* the fact batch.  Every action below makes at most one durable write, so *)
(* a Crash between two actions is a crash between two durable writes.      *)
(*                                                                         *)
(* A run identifier is a hash of the revision and of the configuration, so *)
(* analysing the same revision again reuses the identifier and its rows.   *)
(***************************************************************************)
EXTENDS Naturals, FiniteSets, Sequences

CONSTANTS
  N,             \* number of expected components
  Succ,          \* Succ[k]: components of k's kind in k's successor SCCs
  BatchSize,     \* kComponentCacheBatchSize
  StateBatchSize,\* kStateBatchSize
  Run,           \* run identifiers
  Production,    \* the runs RunWpa starts; the others are conformance runs
  Oracle,        \* Oracle[r]: {} or the conformance run configured beside r
  Toolchain,     \* Toolchain[r]: engine, toolchain, versions, configuration
  Context,       \* Context[r]: the revision and build variant r analyses
  Local,         \* Local[r][k]: what the summaries contribute to component k
  Locals,        \* the values of Local
  FactSet,       \* the published fact sets a component can have
  Derive(_,_,_), \* facts an engine derives for a component from its input
  Prove(_,_,_),  \* the proofs it selects for them
  Ref            \* Ref[r][k]: the facts of k when r's equations are solved

Key == 1..N

-----------------------------------------------------------------------------
(* The immutable data: inputs, descriptors, results.                       *)

\* MakeResultCacheDescriptor: everything that decides a component's result.
Descriptor(r, k, support) ==
  [toolchain |-> Toolchain[r], key |-> k,
   input |-> [local |-> Local[r][k], support |-> support]]

IsDescriptor(d) ==
  /\ d.toolchain \in {Toolchain[r] : r \in Run}
  /\ d.key \in Key
  /\ d.input.local \in Locals
  /\ d.input.support \in [Succ[d.key] -> FactSet]

\* Execute then Canonicalize: deterministic in the descriptor.
Result(d) ==
  [facts |-> Derive(d.toolchain, d.key, d.input),
   proof |-> Prove(d.toolchain, d.key, d.input)]

\* What a run computes when every component sees all of its successors.
RefDescriptor(r, k) == Descriptor(r, k, [s \in Succ[k] |-> Ref[r][s]])
RefResult(r, k) == Result(RefDescriptor(r, k))
RefBatch(r) == [k \in Key |-> RefResult(r, k)]

\* The components are numbered in execution order: SCCs in reverse topological
\* order, so a successor's component comes first (SccGraph::Build).
ASSUME OrderAssumption ==
  /\ N \in Nat \ {0}
  /\ BatchSize \in Nat \ {0}
  /\ StateBatchSize \in Nat \ {0}
  /\ Succ \in [Key -> SUBSET Key]
  /\ \A k \in Key : \A s \in Succ[k] : s < k

ASSUME RunAssumption ==
  /\ Production \subseteq Run
  /\ Oracle \in [Production -> SUBSET (Run \ Production)]
  /\ \A r \in Production : \A o, p \in Oracle[r] : o = p
  /\ \A r \in Production : \A o \in Oracle[r] : Context[o] = Context[r]

\* The engine derives fact sets, and Ref solves the equations of each run.
ASSUME DataAssumption ==
  /\ Local \in [Run -> [Key -> Locals]]
  /\ Ref \in [Run -> [Key -> FactSet]]
  /\ \A r \in Run, k \in Key : RefResult(r, k).facts = Ref[r][k]

-----------------------------------------------------------------------------
VARIABLES
  \* durable: SQLite rows and stored objects
  runRow,     \* wpa_analysis_runs.status
  stateRow,   \* wpa_component_states_v2
  cacheRow,   \* wpa_component_result_cache_v2
  object,     \* the wpa-component-results object store
  topology,   \* contexts whose SCC graph is published
  sccRow,     \* wpa_scc_component_states: {} or the external hash
  factBatch,  \* the fact batch published for a run: {} or the batch
  \* lost with the process
  pc,         \* what RunWpa does next
  primary,    \* the production run of this invocation
  run,        \* the run WpaOrchestrator::Run is executing
  done,       \* completed_components
  scheduled,  \* scheduled_predecessors
  res,        \* {} or the result of the component in hand
  kept,       \* the primary's completed components while the oracle runs
  pending,    \* pending_cache_rows_ and pending_state_rows_
  pendingScc, \* SccStateRepository::pending_state_rows_
  fresh       \* descriptors put into the object store by this process

durable == <<runRow, stateRow, cacheRow, object, topology, sccRow, factBatch>>
orchestrator == <<primary, run, done, scheduled, res, kept>>
queues == <<pending, pendingScc>>
vars == <<durable, pc, orchestrator, queues, fresh>>

Pair(d, v) == [desc |-> d, result |-> v]
NoState == [status |-> "none", object |-> {}]
FailedState == [status |-> "failed", object |-> {}]
SucceededState(d) == [status |-> "succeeded", object |-> {d}]

\* The loop variable of the component loop.
key == Len(done) + 1

\* SuccessorSupport takes only the successors that have completed and says
\* nothing about the others.
SuccessorSupport ==
  [s \in {t \in Succ[key] : t \in DOMAIN done} |-> done[s].facts]

desc == Descriptor(run, key, SuccessorSupport)

HasRow(d) == \E c \in cacheRow : c.desc = d
HasObject(d) == \E o \in object : o.desc = d

Init ==
  /\ runRow = [r \in Run |-> "absent"]
  /\ stateRow = [r \in Run |-> [k \in Key |-> NoState]]
  /\ cacheRow = {}
  /\ object = {}
  /\ topology = {}
  /\ sccRow = [c \in {Context[r] : r \in Run} |-> [k \in Key |-> {}]]
  /\ factBatch = [r \in Run |-> {}]
  /\ pc = "idle"
  /\ primary \in Production
  /\ run = primary
  /\ done = << >>
  /\ scheduled = {}
  /\ res = {}
  /\ kept = << >>
  /\ pending = {}
  /\ pendingScc = {}
  /\ fresh = << >>

-----------------------------------------------------------------------------
(* RunWpa opens the repositories; WpaOrchestrator::Run begins.             *)

StartRun(r) ==
  /\ pc = "idle"
  /\ pc' = "begin"
  /\ primary' = r
  /\ run' = r
  /\ UNCHANGED <<durable, done, scheduled, res, kept, queues, fresh>>

\* Mutant: a plain INSERT, which fails on the row of an earlier attempt.
BeginRunInsert ==
  /\ pc = "begin"
  /\ pc' = IF runRow[run] = "absent" THEN "graph" ELSE "failed"
  /\ runRow' = [runRow EXCEPT ![run] = IF @ = "absent" THEN "in_progress" ELSE @]
  /\ UNCHANGED <<stateRow, cacheRow, object, topology, sccRow, factBatch,
                 orchestrator, queues, fresh>>

\* INSERT OR IGNORE: an existing row of the same run keeps its status.
BeginRun ==
  /\ pc = "begin"
  /\ pc' = "graph"
  /\ runRow' = [runRow EXCEPT ![run] = IF @ = "absent" THEN "in_progress" ELSE @]
  /\ UNCHANGED <<stateRow, cacheRow, object, topology, sccRow, factBatch,
                 orchestrator, queues, fresh>>

\* The graph of a revision is a function of the revision, so publishing it
\* again removes no component state.
PublishGraph ==
  /\ pc = "graph"
  /\ pc' = "load"
  /\ topology' = topology \cup {Context[run]}
  /\ UNCHANGED <<runRow, stateRow, cacheRow, object, sccRow, factBatch,
                 orchestrator, queues, fresh>>

-----------------------------------------------------------------------------
(* The component loop.                                                     *)

\* Mutant: the logical input is left out of the cache key.
LoadIgnoringInput ==
  /\ pc = "load"
  /\ \E c \in cacheRow : c.desc.key = key /\ c.desc.toolchain = Toolchain[run]
                         /\ res' = {c.result}
  /\ pc' = "put"
  /\ UNCHANGED <<durable, primary, run, done, scheduled, kept, queues, fresh>>

\* Materialize, then LoadReusableComponent: a row whose object is missing is a
\* hard error (FailComponent), never a miss.
LoadHit ==
  /\ pc = "load"
  /\ HasRow(desc)
  /\ \E o \in object : o.desc = desc /\ res' = {o.result}
  /\ pc' = "put"
  /\ UNCHANGED <<durable, primary, run, done, scheduled, kept, queues, fresh>>

LoadMiss ==
  /\ pc = "load"
  /\ ~ HasRow(desc)
  /\ pc' = "execute"
  /\ UNCHANGED <<durable, orchestrator, queues, fresh>>

\* Execute and Canonicalize on the run's engine.
Execute ==
  /\ pc = "execute"
  /\ res' = {Result(desc)}
  /\ pc' = "put"
  /\ UNCHANGED <<durable, primary, run, done, scheduled, kept, queues, fresh>>

\* Mutant: the row is queued without its object.
PutSkipped ==
  /\ pc = "put"
  /\ pc' = "queue"
  /\ UNCHANGED <<durable, orchestrator, queues, fresh>>

\* StoreSuccessfulComponent, first half: the object goes in at once.
PutIfAbsent ==
  /\ pc = "put"
  /\ object' = IF HasObject(desc) THEN object
               ELSE object \cup {Pair(desc, v) : v \in res}
  /\ fresh' = IF HasObject(desc) THEN fresh ELSE Append(fresh, desc)
  /\ pc' = "queue"
  /\ UNCHANGED <<runRow, stateRow, cacheRow, topology, sccRow, factBatch,
                 orchestrator, queues>>

\* Mutant: the state rows are committed and the cache rows are not.
CommitStateRowsOnly(rows) ==
  /\ cacheRow' = cacheRow
  /\ stateRow' = [r \in Run |-> [k \in Key |->
                   IF \E p \in rows : p.run = r /\ p.key = k
                   THEN [status |-> "succeeded",
                         object |-> {p.desc : p \in {q \in rows : q.run = r /\ q.key = k}}]
                   ELSE stateRow[r][k]]]

\* FlushComponentCache: cache rows INSERT OR IGNORE, state rows INSERT OR
\* REPLACE, in one transaction.
CommitComponentRows(rows) ==
  /\ cacheRow' = cacheRow \cup {Pair(p.desc, p.result) :
                                  p \in {q \in rows : ~ HasRow(q.desc)}}
  /\ stateRow' = [r \in Run |-> [k \in Key |->
                   IF \E p \in rows : p.run = r /\ p.key = k
                   THEN [status |-> "succeeded",
                         object |-> {p.desc : p \in {q \in rows : q.run = r /\ q.key = k}}]
                   ELSE stateRow[r][k]]]

\* Mutant: the batch is committed one row too late.
QueueOneTooMany ==
  /\ pc = "queue"
  /\ LET rows == pending \cup {[run |-> run, key |-> key, desc |-> desc, result |-> v] :
                                 v \in res}
     IN  IF Cardinality(rows) > BatchSize
         THEN CommitComponentRows(rows) /\ pending' = {}
         ELSE pending' = rows /\ UNCHANGED <<cacheRow, stateRow>>
  /\ pc' = "storeState"
  /\ UNCHANGED <<runRow, object, topology, sccRow, factBatch, orchestrator,
                 pendingScc, fresh>>

\* StoreSuccessfulComponent, second half: queue both rows and commit the batch
\* once it is full.
QueueComponentRows ==
  /\ pc = "queue"
  /\ LET rows == pending \cup {[run |-> run, key |-> key, desc |-> desc, result |-> v] :
                                 v \in res}
     IN  IF Cardinality(rows) >= BatchSize
         THEN CommitComponentRows(rows) /\ pending' = {}
         ELSE pending' = rows /\ UNCHANGED <<cacheRow, stateRow>>
  /\ pc' = "storeState"
  /\ UNCHANGED <<runRow, object, topology, sccRow, factBatch, orchestrator,
                 pendingScc, fresh>>

\* Mutant: the rows of a batch are not told apart by component.
CommitSccRowsMixed(rows) ==
  sccRow' = [c \in DOMAIN sccRow |-> [k \in Key |->
              IF \E p \in rows : p.context = c /\ p.key = k
              THEN {p.external : p \in {q \in rows : q.context = c}}
              ELSE sccRow[c][k]]]

\* FlushStateCache of the convergence rows: one upsert per queued row, in one
\* transaction.
CommitSccRows(rows) ==
  sccRow' = [c \in DOMAIN sccRow |-> [k \in Key |->
              IF \E p \in rows : p.context = c /\ p.key = k
              THEN {p.external : p \in {q \in rows : q.context = c /\ q.key = k}}
              ELSE sccRow[c][k]]]

\* The external hash differs from the committed row, or there is none.
ExternalChanged(v) == sccRow[Context[run]][key] # {v.facts}

\* EnqueuePredecessorsIfChanged and the drained scheduler.
Predecessors(k) == {p \in Key : k \in Succ[p]}

\* SccStateRepository::StoreState classifies against the committed row, queues
\* the new one and commits a full batch; a change extends scheduled_predecessors;
\* the component is complete.
StoreState ==
  /\ pc = "storeState"
  /\ Context[run] \in topology
  /\ \E v \in res :
       LET rows == pendingScc \cup
                     {[context |-> Context[run], key |-> key, external |-> v.facts]}
       IN  /\ IF Cardinality(rows) >= StateBatchSize
              THEN CommitSccRows(rows) /\ pendingScc' = {}
              ELSE pendingScc' = rows /\ UNCHANGED sccRow
           /\ scheduled' = IF ExternalChanged(v) THEN scheduled \cup Predecessors(key)
                           ELSE scheduled
           /\ done' = Append(done, v)
  /\ res' = {}
  /\ pc' = IF key = N THEN "flushState" ELSE "load"
  /\ UNCHANGED <<runRow, stateRow, cacheRow, object, topology, factBatch,
                 primary, run, kept, pending, fresh>>

-----------------------------------------------------------------------------
(* The end of WpaOrchestrator::Run.                                        *)

\* Mutant: the tail of the convergence rows is dropped.
DropStateTail ==
  /\ pc = "flushState"
  /\ pendingScc' = {}
  /\ pc' = "flushComponents"
  /\ UNCHANGED <<durable, orchestrator, pending, fresh>>

\* FlushStateCache: the tail of the convergence rows.
FlushStateCache ==
  /\ pc = "flushState"
  /\ CommitSccRows(pendingScc)
  /\ pendingScc' = {}
  /\ pc' = "flushComponents"
  /\ UNCHANGED <<runRow, stateRow, cacheRow, object, topology, factBatch,
                 orchestrator, pending, fresh>>

\* Mutant: the tail of the component rows is dropped.
DropComponentTail ==
  /\ pc = "flushComponents"
  /\ pending' = {}
  /\ pc' = "complete"
  /\ UNCHANGED <<durable, orchestrator, pendingScc, fresh>>

\* CompleteRun flushes the tail of the component rows ...
FlushComponentCache ==
  /\ pc = "flushComponents"
  /\ CommitComponentRows(pending)
  /\ pending' = {}
  /\ pc' = "complete"
  /\ UNCHANGED <<runRow, object, topology, sccRow, factBatch, orchestrator,
                 pendingScc, fresh>>

\* ... and then marks the run complete.
CompleteRun ==
  /\ pc = "complete"
  /\ runRow' = [runRow EXCEPT ![run] = "complete"]
  /\ pc' = "returned"
  /\ UNCHANGED <<stateRow, cacheRow, object, topology, sccRow, factBatch,
                 orchestrator, queues, fresh>>

-----------------------------------------------------------------------------
(* Failure paths.  The statuses of RecordComponentFailure and of           *)
(* MarkIncomplete are ignored, so each may also leave its row unwritten.   *)

\* Materialize, LoadReusableComponent, Execute or Canonicalize fails.
FailComponent ==
  /\ pc \in {"load", "execute"}
  /\ pc' = "recordFailure"
  /\ UNCHANGED <<durable, orchestrator, queues, fresh>>

RecordComponentFailure ==
  /\ pc = "recordFailure"
  /\ stateRow' \in {stateRow, [stateRow EXCEPT ![run][key] = FailedState]}
  /\ pc' = "mark"
  /\ UNCHANGED <<runRow, cacheRow, object, topology, sccRow, factBatch,
                 orchestrator, queues, fresh>>

\* Any other step of Run fails: the graph, the object put, the queries of
\* StoreState, the status update ...
FailStep ==
  /\ pc \in {"graph", "put", "storeState", "complete"}
  /\ pc' = "mark"
  /\ UNCHANGED <<durable, orchestrator, queues, fresh>>

\* ... or a flush, which rolls its transaction back and abandons its batch.
FailComponentFlush ==
  /\ \/ pc = "queue" /\ Cardinality(pending) + 1 >= BatchSize
     \/ pc = "flushComponents" /\ pending # {}
  /\ pending' = {}
  /\ pc' = "mark"
  /\ UNCHANGED <<durable, orchestrator, pendingScc, fresh>>

FailSccFlush ==
  /\ \/ pc = "storeState" /\ Cardinality(pendingScc) + 1 >= StateBatchSize
     \/ pc = "flushState" /\ pendingScc # {}
  /\ pendingScc' = {}
  /\ pc' = "mark"
  /\ UNCHANGED <<durable, orchestrator, pending, fresh>>

\* MarkIncomplete discards what is queued and updates the run row.
Mark(r) ==
  /\ runRow' \in {runRow, [runRow EXCEPT ![r] = "incomplete"]}
  /\ pending' = {}
  /\ UNCHANGED <<stateRow, cacheRow, object, topology, sccRow, factBatch>>

MarkIncomplete ==
  /\ pc = "mark"
  /\ Mark(run)
  /\ pc' = "failed"
  /\ UNCHANGED <<orchestrator, pendingScc, fresh>>

\* BeginRun fails before there is a row to mark.
FailBegin ==
  /\ pc = "begin"
  /\ pc' = "failed"
  /\ UNCHANGED <<durable, orchestrator, queues, fresh>>

\* RunWpa returns and the repositories are destroyed.
Close ==
  /\ pc' = "idle"
  /\ run' = primary
  /\ done' = << >>
  /\ scheduled' = {}
  /\ res' = {}
  /\ kept' = << >>
  /\ pending' = {}
  /\ pendingScc' = {}
  /\ fresh' = << >>
  /\ UNCHANGED primary

ReturnError ==
  /\ pc = "failed"
  /\ run = primary
  /\ Close
  /\ UNCHANGED durable

Crash ==
  /\ pc # "idle"
  /\ Close
  /\ UNCHANGED durable

-----------------------------------------------------------------------------
(* RunWpa after a Run has returned: the optional conformance oracle and    *)
(* the publication of the fact batch.                                      *)

StartOracle(o) ==
  /\ pc = "returned"
  /\ run = primary
  /\ run' = o
  /\ kept' = done
  /\ done' = << >>
  /\ scheduled' = {}
  /\ pc' = "begin"
  /\ UNCHANGED <<durable, primary, res, queues, fresh>>

\* The oracle's Run failed: the primary run is marked incomplete too.
OracleFailed ==
  /\ pc = "failed"
  /\ run # primary
  /\ runRow' \in {runRow, [runRow EXCEPT ![primary] = "incomplete"]}
  /\ Close
  /\ UNCHANGED <<stateRow, cacheRow, object, topology, sccRow, factBatch>>

\* Mutant: the facts are compared and the hashes are not.
ConformsOnFacts ==
  /\ DOMAIN kept = DOMAIN done
  /\ \A k \in DOMAIN done : kept[k].facts = done[k].facts

\* CompareCanonicalResults: facts and both hashes of every component.
Conforms == kept = done

OracleDisagrees ==
  /\ pc = "returned"
  /\ run # primary
  /\ ~ Conforms
  /\ Mark(primary)
  /\ pc' = "mismatch"
  /\ UNCHANGED <<orchestrator, pendingScc, fresh>>

\* Both runs are marked; RunWpa returns without publishing.
MarkOracle ==
  /\ pc = "mismatch"
  /\ runRow' \in {runRow, [runRow EXCEPT ![run] = "incomplete"]}
  /\ Close
  /\ UNCHANGED <<stateRow, cacheRow, object, topology, sccRow, factBatch>>

\* MakeAnalysisFactBatch and AnalysisFactBus::Publish.  The sink is one
\* transaction and ignores a batch it already holds.
Publish ==
  /\ pc = "returned"
  /\ IF run = primary THEN Oracle[primary] = {} ELSE Conforms
  /\ factBatch' = [factBatch EXCEPT ![primary] =
                     @ \cup {IF run = primary THEN done ELSE kept}]
  /\ Close
  /\ UNCHANGED <<runRow, stateRow, cacheRow, object, topology, sccRow>>

\* The oracle cannot be set up, or the batch cannot be published: RunWpa
\* returns the error and leaves the complete run as it is.
FailAfterRun ==
  /\ pc = "returned"
  /\ run = primary \/ Conforms
  /\ Close
  /\ UNCHANGED durable

-----------------------------------------------------------------------------
\* What RunWpa does when every step succeeds.
Work ==
  \/ BeginRun \/ PublishGraph
  \/ LoadHit \/ LoadMiss \/ Execute \/ PutIfAbsent \/ QueueComponentRows \/ StoreState
  \/ FlushStateCache \/ FlushComponentCache \/ CompleteRun
  \/ \E o \in Oracle[primary] : StartOracle(o)
  \/ OracleDisagrees \/ MarkOracle \/ Publish

\* What it does once a step has failed.
Cleanup ==
  RecordComponentFailure \/ MarkIncomplete \/ ReturnError \/ OracleFailed

\* Steps that fail, and the death of the process.
Fault ==
  \/ FailBegin \/ FailComponent \/ FailStep \/ FailComponentFlush \/ FailSccFlush
  \/ FailAfterRun
  \/ Crash

Start == \E r \in Production : StartRun(r)

Next == Start \/ Work \/ Cleanup \/ Fault

Spec == Init /\ [][Next]_vars

\* The objects go through RocksDB with default write options, which do not wait
\* for the disk, while an SQLite commit does: a machine that stops may lose the
\* last objects this process put and keep the rows that name them.
MachineCrash ==
  /\ pc # "idle"
  /\ \E n \in 0..Len(fresh) :
       object' = {o \in object : \A i \in (n+1)..Len(fresh) : o.desc # fresh[i]}
  /\ Close
  /\ UNCHANGED <<runRow, stateRow, cacheRow, topology, sccRow, factBatch>>

PowerSpec == Init /\ [][Next \/ MachineCrash]_vars

-----------------------------------------------------------------------------
(* Properties.                                                             *)

TypeOK ==
  /\ runRow \in [Run -> {"absent", "in_progress", "complete", "incomplete"}]
  /\ stateRow \in [Run -> [Key -> [status : {"none", "failed", "succeeded"},
                                   object : SUBSET {RefDescriptor(r, k) : r \in Run, k \in Key}]]]
  /\ \A o \in object : IsDescriptor(o.desc) /\ o.result.facts \in FactSet
  /\ topology \subseteq {Context[r] : r \in Run}
  /\ sccRow \in [{Context[r] : r \in Run} -> [Key -> SUBSET FactSet]]
  /\ primary \in Production
  /\ run \in {primary} \cup Oracle[primary]
  /\ scheduled \subseteq Key
  /\ Len(done) \in 0..N

\* A committed cache row names an object the store holds, with the content the
\* row was computed from, although the object and the row are written by
\* different stores at different times and any step may fail or be the last
\* ("a committed cache row therefore always references an object the store
\* already holds").
CacheRowsBacked == cacheRow \subseteq object

\* However many reruns, failures and crashes came between, what the analyzer
\* publishes for a run is what the run computes from scratch: no component was
\* evaluated without one of its successors, no result of another revision,
\* configuration or engine was reused in its place, and where an oracle is
\* configured it agreed.
PublishedIsReference ==
  \A r \in Run : factBatch[r] # {} =>
    /\ factBatch[r] = {RefBatch(r)}
    /\ r \in Production
    /\ \A o \in Oracle[r] : RefBatch(o) = RefBatch(r)

\* A run that is complete can be loaded back whole: every one of its components
\* has its cache row, also after later reruns of the same identifier failed.
CompletedRunReloadable ==
  \A r \in Run : runRow[r] = "complete" =>
    \A k \in Key : Pair(RefDescriptor(r, k), RefResult(r, k)) \in cacheRow

\* Running a complete run again executes no engine: each component is loaded.
CompletedRunNeverExecutes == pc = "execute" => runRow[run] # "complete"

\* A component row that claims success names a stored result that loads.
SucceededRowsLoad ==
  \A r \in Run, k \in Key : stateRow[r][k].status = "succeeded" =>
    /\ stateRow[r][k].object = {RefDescriptor(r, k)}
    /\ Pair(RefDescriptor(r, k), RefResult(r, k)) \in cacheRow

\* Where all runs of a revision derive the same facts, running a complete run
\* again finds no external hash moved and schedules no predecessor, whatever
\* batches earlier attempts lost (test RepeatedRunSchedulesNoPredecessors).
RepeatSchedulesNothing ==
  /\ runRow[run] = "complete"
  /\ pc \notin {"idle", "returned", "mismatch"}
  /\ \A r \in Run : Context[r] = Context[run] => Ref[r] = Ref[run]
  => scheduled = {}

\* A crash costs at most one batch of rows from each queue.
LossWindow ==
  /\ Cardinality(pending) < BatchSize
  /\ Cardinality(pendingScc) < StateBatchSize

\* A run becomes complete only when every expected component has its succeeded
\* row and the convergence rows of the whole run are committed: no batch of
\* either queue is still open.
CompletionIsPersisted ==
  [][\A r \in Run : runRow[r] # "complete" /\ runRow'[r] = "complete" =>
       \A k \in Key : /\ stateRow[r][k] = SucceededState(RefDescriptor(r, k))
                      /\ sccRow[Context[r]][k] = {Ref[r][k]}]_vars

\* A component failure that left its diagnostic row also left its run marked:
\* no run is complete with a failed component ("any validation failure records a
\* durable diagnostic and an incomplete run").
FailedComponentMarksRun ==
  pc = "idle" => \A r \in Run, k \in Key :
    stateRow[r][k].status = "failed" => runRow[r] # "complete"

-----------------------------------------------------------------------------
\* The run repository implements its ledger: rows reach the database in whole
\* batches of one run, a run is completed over loadable results only, and only
\* a complete run is published.
Ledger == INSTANCE RunLedger WITH
  Need <- [r \in Run |-> {RefDescriptor(r, k) : k \in Key}],
  status <- runRow,
  loadable <- {c.desc : c \in cacheRow},
  published <- {r \in Run : factBatch[r] # {}}

ImplementsLedger == Ledger!Spec
====
