---------------------------- MODULE WpaRunProofs ----------------------------
(***************************************************************************)
(* Proofs about WpaRun, for any number of components, runs and batch size. *)
(***************************************************************************)
EXTENDS WpaRun, FiniteSetTheorems, TLAPS

(* The inductive invariant.                                                *)

Loop == {"load", "execute", "put", "queue", "storeState", "recordFailure"}
Finish == {"flushState", "flushComponents", "complete", "returned", "mismatch"}
Opening == {"idle", "begin", "graph"}

Results == {RefResult(r, k) : r \in Run, k \in Key}
RefPair(r, k) == Pair(RefDescriptor(r, k), RefResult(r, k))

\* Where in the run the process is, and how many components that implies.
ControlOK ==
  /\ pc \in Loop \cup Finish \cup Opening \cup {"mark", "failed"}
  /\ primary \in Production
  /\ run \in {primary} \cup Oracle[primary]
  /\ done \in Seq(Results)
  /\ Len(done) <= N
  /\ pc \in Opening => done = << >>
  /\ pc \in Loop => Len(done) < N
  /\ pc \in Finish => Len(done) = N
  /\ pc = "idle" => run = primary

\* Everything computed so far is what the run computes from scratch.
ComputedOK ==
  /\ \A k \in 1..Len(done) : done[k] = RefResult(run, k)
  /\ pc \in {"put", "queue", "storeState"} => res = {RefResult(run, key)}
  /\ run # primary => kept = RefBatch(primary)

\* Every stored object is a reference result, every cache row is backed, and an
\* object is there before its row is queued.
StoreOK ==
  /\ object \subseteq {RefPair(r, k) : r \in Run, k \in Key}
  /\ cacheRow \subseteq object
  /\ pc = "queue" => RefPair(run, key) \in object

\* A queued row is a row of the current run about a stored object, and the
\* queue is empty whenever a run has ended or not begun.
IsQueued(p) ==
  /\ p.run = run
  /\ p.key \in Key
  /\ p.desc = RefDescriptor(run, p.key)
  /\ p.result = RefResult(run, p.key)
  /\ RefPair(run, p.key) \in object

PendingOK ==
  /\ \A p \in pending : IsQueued(p)
  /\ pc \in Opening \cup {"complete", "returned", "mismatch", "failed"} => pending = {}

\* The component rows have their shape, and those that claim success load.
StateRow ==
  [status : {"none", "failed", "succeeded"},
   object : SUBSET {RefDescriptor(r, k) : r \in Run, k \in Key}]
StateRows == [Run -> [Key -> StateRow]]

RowsOK == stateRow \in StateRows /\ SucceededRowsLoad

\* Until it is complete or fails, each component a run has stored is committed
\* or queued.
Committed(r, k) ==
  /\ stateRow[r][k] = SucceededState(RefDescriptor(r, k))
  /\ RefPair(r, k) \in cacheRow

Storing == (Loop \ {"recordFailure"}) \cup {"flushState", "flushComponents", "complete"}

PersistOK ==
  pc \in Storing => \A k \in Key :
    k <= Len(done) \/ (pc = "storeState" /\ k = key) =>
      Committed(run, k) \/ \E p \in pending : p.key = k

\* The run rows: complete runs load, and the primary run stays complete while
\* its oracle runs.
StatusOK ==
  /\ runRow \in [Run -> {"absent", "in_progress", "complete", "incomplete"}]
  /\ CompletedRunReloadable
  /\ CompletedRunNeverExecutes
  /\ pc = "returned" \/ (run # primary /\ pc # "mismatch") => runRow[primary] = "complete"
  /\ pc \notin {"idle", "begin", "failed"} => runRow[run] # "absent"

PublishedOK ==
  /\ DOMAIN factBatch = Run
  /\ PublishedIsReference

\* The convergence rows: what the run has stored is committed or queued, and a
\* complete run whose facts no other run of the revision disputes finds them.
Contexts == {Context[r] : r \in Run}
Hashes == SUBSET FactSet
SccRows == [Contexts -> [Key -> Hashes]]

Undisputed(r) == \A q \in Run : Context[q] = Context[r] => Ref[q] = Ref[r]

IsSccQueued(p) ==
  /\ p.context = Context[run]
  /\ p.key \in Key
  /\ p.external = Ref[run][p.key]

ConvergenceOK ==
  /\ sccRow \in SccRows
  /\ \A p \in pendingScc : IsSccQueued(p)
  /\ pc \in Opening \cup {"flushComponents", "complete", "returned", "mismatch"} =>
       pendingScc = {}
  /\ pc \in Storing => \A k \in Key : k <= Len(done) =>
       sccRow[Context[run]][k] = {Ref[run][k]} \/ \E p \in pendingScc : p.key = k
  /\ \A r \in Run : runRow[r] = "complete" /\ Undisputed(r) =>
       \A k \in Key : sccRow[Context[r]][k] = {Ref[r][k]}

\* What is scheduled, and the size of the queues.
ScheduleOK ==
  /\ topology \subseteq Contexts
  /\ scheduled \subseteq Key
  /\ pc = "idle" => scheduled = {}
  /\ RepeatSchedulesNothing

QueuesOK ==
  /\ IsFiniteSet(pending)
  /\ IsFiniteSet(pendingScc)
  /\ LossWindow

IInv ==
  /\ ControlOK /\ ComputedOK /\ StoreOK /\ PendingOK /\ RowsOK /\ PersistOK
  /\ StatusOK /\ PublishedOK /\ ConvergenceOK /\ ScheduleOK /\ QueuesOK

-----------------------------------------------------------------------------
(* Facts about the operators.                                              *)

\* Runs and oracles are run identifiers.
LEMMA RunIsRun == ASSUME ControlOK PROVE run \in Run /\ primary \in Run
BY ZenonT(60), RunAssumption DEF ControlOK

\* A reference result is a result.
LEMMA RefFacts ==
  ASSUME NEW r \in Run, NEW k \in Key
  PROVE  RefResult(r, k).facts = Ref[r][k] /\ Ref[r][k] \in FactSet
BY Zenon, DataAssumption

\* Because successors come first, SuccessorSupport drops nothing: the descriptor
\* of the component in hand is the reference descriptor.
LEMMA DescIsReference ==
  ASSUME ControlOK, ComputedOK, Len(done) < N
  PROVE  key \in Key /\ desc = RefDescriptor(run, key)
<1>1. Len(done) \in Nat /\ DOMAIN done = 1..Len(done)
  BY DEF ControlOK
<1>2. key \in Key
  BY <1>1, OrderAssumption DEF key, Key
<1>3. {t \in Succ[key] : t \in DOMAIN done} = Succ[key]
  BY <1>1, <1>2, OrderAssumption DEF key, Key
<1>4. \A s \in Succ[key] : done[s].facts = Ref[run][s]
  <2>1. TAKE s \in Succ[key]
  <2>2. s \in Key /\ s \in 1..Len(done)
    BY <1>1, <1>2, OrderAssumption DEF key, Key
  <2> QED
    BY Zenon, <2>2, RunIsRun, RefFacts DEF ComputedOK
<1>5. SuccessorSupport = [s \in Succ[key] |-> Ref[run][s]]
  BY Zenon, <1>3, <1>4 DEF SuccessorSupport
<1> QED
  BY Zenon, <1>2, <1>5 DEF desc, RefDescriptor

\* The steps by which RunWpa returns or dies.
LEMMA ClosingSteps ==
  ASSUME \/ MarkOracle \/ Publish \/ ReturnError \/ OracleFailed \/ FailAfterRun \/ Crash
  PROVE  Close /\ UNCHANGED <<stateRow, cacheRow, object, topology, sccRow>>
BY Zenon DEF MarkOracle, Publish, ReturnError, OracleFailed, FailAfterRun, Crash, durable

-----------------------------------------------------------------------------
(* Preservation.                                                           *)


\* The control state stays coherent: the run in hand, its completed components
\* and the batch kept for the oracle fit the program counter.
LEMMA ControlStep ==
  ASSUME ControlOK, ComputedOK, [Next]_vars
  PROVE  ControlOK'
<1>. USE OrderAssumption, RunAssumption DEF ControlOK, Loop, Finish, Opening, orchestrator
<1>1. CASE Start
  BY SMTT(60), <1>1 DEF Start, StartRun
<1>2. CASE BeginRun \/ PublishGraph
  BY SMTT(60), <1>2 DEF BeginRun, PublishGraph
<1>3. CASE LoadHit \/ LoadMiss \/ Execute
  BY SMTT(60), <1>3 DEF LoadHit, LoadMiss, Execute
<1>4. CASE PutIfAbsent \/ QueueComponentRows
  BY <1>4 DEF PutIfAbsent, QueueComponentRows
<1>5. CASE StoreState
  <2>1. Len(done) < N /\ res = {RefResult(run, key)}
    BY Zenon, <1>5 DEF StoreState, ComputedOK
  <2>2. done' = Append(done, RefResult(run, key)) /\ run' = run /\ primary' = primary
    BY Zenon, <1>5, <2>1 DEF StoreState
  <2>3. RefResult(run, key) \in Results
    BY <2>1, DescIsReference, RunIsRun DEF Results
  <2>4. done' \in Seq(Results) /\ Len(done') = Len(done) + 1
    BY SMTT(60), <2>2, <2>3
  <2>5. pc' = IF key = N THEN "flushState" ELSE "load"
    BY Zenon, <1>5 DEF StoreState
  <2> QED
    BY SMTT(60), <2>1, <2>2, <2>4, <2>5 DEF key
<1>6. CASE FlushStateCache \/ FlushComponentCache \/ CompleteRun \/ OracleDisagrees
  BY <1>6 DEF FlushStateCache, FlushComponentCache, CompleteRun, OracleDisagrees
<1>7. CASE \E o \in Oracle[primary] : StartOracle(o)
  BY SMTT(60), <1>7 DEF StartOracle
<1>8. CASE Close
  BY SMTT(60), <1>8 DEF Close
<1>9. CASE RecordComponentFailure \/ MarkIncomplete
  BY SMTT(60), <1>9 DEF RecordComponentFailure, MarkIncomplete
<1>10. CASE FailBegin \/ FailComponent \/ FailStep \/ FailComponentFlush \/ FailSccFlush
  BY SMTT(60), <1>10 DEF FailBegin, FailComponent, FailStep, FailComponentFlush, FailSccFlush
<1>11. CASE UNCHANGED vars
  BY Zenon, <1>11 DEF vars
<1> QED
  BY ZenonT(60), <1>1, <1>2, <1>3, <1>4, <1>5, <1>6, <1>7, <1>8, <1>9, <1>10, <1>11, ClosingSteps
     DEF Next, Work, Cleanup, Fault

\* What is kept of the primary run when the oracle starts is its reference batch.
LEMMA DoneIsBatch ==
  ASSUME ControlOK, ComputedOK, Len(done) = N
  PROVE  done = RefBatch(run)
BY SMTT(60), OrderAssumption DEF ControlOK, ComputedOK, RefBatch, Key

\* A stored object with a reference descriptor holds the reference result.
LEMMA ObjectByDescriptor ==
  ASSUME StoreOK, NEW r \in Run, NEW k \in Key,
         NEW o \in object, o.desc = RefDescriptor(r, k)
  PROVE  o = RefPair(r, k) /\ o.result = RefResult(r, k)
BY SMTT(60) DEF StoreOK, RefPair, Pair, RefResult

\* Every completed component, and the result in hand, is the reference one.
LEMMA ComputedStep ==
  ASSUME ControlOK, ComputedOK, StoreOK, [Next]_vars
  PROVE  ComputedOK'
<1>. USE DEF ComputedOK, orchestrator, key
<1>1. CASE Start
  BY SMTT(60), <1>1 DEF Start, StartRun, ControlOK, Opening
<1>2. CASE BeginRun \/ PublishGraph \/ LoadMiss
  BY Zenon, <1>2 DEF BeginRun, PublishGraph, LoadMiss
<1>3. CASE LoadHit
  <2>1. key \in Key /\ desc = RefDescriptor(run, key)
    BY Zenon, <1>3, DescIsReference DEF LoadHit, ControlOK, Loop
  <2>2. res' = {RefResult(run, key)}
    BY Zenon, <1>3, <2>1, RunIsRun, ObjectByDescriptor DEF LoadHit
  <2> QED
    BY ZenonT(60), <1>3, <2>2 DEF LoadHit
<1>4. CASE Execute
  <2>1. desc = RefDescriptor(run, key)
    BY Zenon, <1>4, DescIsReference DEF Execute, ControlOK, Loop
  <2> QED
    BY Zenon, <1>4, <2>1 DEF Execute, RefResult
<1>5. CASE PutIfAbsent \/ QueueComponentRows
  BY Zenon, <1>5 DEF PutIfAbsent, QueueComponentRows
<1>6. CASE StoreState
  <2>1. Len(done) < N /\ res = {RefResult(run, key)}
    BY Zenon, <1>6 DEF StoreState, ControlOK, Loop
  <2>2. /\ done' = Append(done, RefResult(run, key))
        /\ UNCHANGED <<run, primary, kept>>
        /\ pc' \notin {"put", "queue", "storeState"}
    BY Zenon, <1>6, <2>1 DEF StoreState
  <2>3. RefResult(run, key) \in Results
    BY SMTT(60), <2>1, DescIsReference, RunIsRun DEF Results
  <2>4. \A k \in 1..Len(done') : done'[k] = RefResult(run, k)
    BY SMTT(60), <2>2, <2>3 DEF ControlOK
  <2> QED
    BY Zenon, <2>2, <2>4
<1>7. CASE FlushStateCache \/ FlushComponentCache \/ CompleteRun \/ OracleDisagrees
  BY Zenon, <1>7 DEF FlushStateCache, FlushComponentCache, CompleteRun, OracleDisagrees
<1>8. CASE \E o \in Oracle[primary] : StartOracle(o)
  BY SMTT(60), <1>8, DoneIsBatch DEF StartOracle, ControlOK, Finish
<1>9. CASE Close
  BY SMTT(60), <1>9 DEF Close
<1>10. CASE RecordComponentFailure \/ MarkIncomplete
  BY Zenon, <1>10 DEF RecordComponentFailure, MarkIncomplete
<1>11. CASE FailBegin \/ FailComponent \/ FailStep \/ FailComponentFlush \/ FailSccFlush
  BY Zenon, <1>11 DEF FailBegin, FailComponent, FailStep, FailComponentFlush, FailSccFlush
<1>12. CASE UNCHANGED vars
  BY Zenon, <1>12 DEF vars
<1> QED
  BY ZenonT(60), <1>1, <1>2, <1>3, <1>4, <1>5, <1>6, <1>7, <1>8, <1>9, <1>10, <1>11, <1>12, ClosingSteps
     DEF Next, Work, Cleanup, Fault

\* The only steps that write objects or cache rows.
LEMMA StoreFrame ==
  ASSUME [Next]_vars
  PROVE  \/ PutIfAbsent
         \/ QueueComponentRows
         \/ FlushComponentCache
         \/ UNCHANGED <<object, cacheRow>> /\ pc' # "queue"
         \/ UNCHANGED vars
BY ZenonT(60), ClosingSteps DEF Next, Start, StartRun, Work, Cleanup, Fault, BeginRun, PublishGraph,
   LoadHit, LoadMiss, Execute, StoreState, FlushStateCache, CompleteRun, StartOracle,
   OracleDisagrees, RecordComponentFailure, MarkIncomplete, Mark, FailBegin, FailComponent,
   FailStep, FailComponentFlush, FailSccFlush, Close, durable

\* A commit of queued rows makes each of them a loadable success, keeps every
\* cache row and touches no other state row.
LEMMA CommitRows ==
  ASSUME StoreOK, RowsOK, run \in Run, NEW rows, \A p \in rows : IsQueued(p),
         CommitComponentRows(rows)
  PROVE  /\ cacheRow \subseteq cacheRow'
         /\ cacheRow' \subseteq object
         /\ \A p \in rows : RefPair(run, p.key) \in cacheRow'
         /\ stateRow' \in StateRows
         /\ \A r \in Run, k \in Key :
              stateRow'[r][k] = IF r = run /\ \E p \in rows : p.key = k
                                THEN SucceededState(RefDescriptor(run, k))
                                ELSE stateRow[r][k]
<1>1. \A p \in rows : Pair(p.desc, p.result) = RefPair(run, p.key)
  BY Zenon DEF IsQueued, RefPair
<1>2. cacheRow \subseteq cacheRow' /\ cacheRow' \subseteq object
  BY <1>1 DEF CommitComponentRows, StoreOK, IsQueued
<1>3. ASSUME NEW p \in rows PROVE RefPair(run, p.key) \in cacheRow'
  <2>1. CASE HasRow(p.desc)
    <3>1. PICK c \in cacheRow : c.desc = p.desc
      BY Zenon, <2>1 DEF HasRow
    <3>2. c = RefPair(run, p.key)
      BY SMTT(60), <3>1, ObjectByDescriptor DEF StoreOK, IsQueued
    <3> QED
      BY Zenon, <1>2, <3>2
  <2>2. CASE ~ HasRow(p.desc)
    BY Zenon, <1>1, <2>2 DEF CommitComponentRows
  <2> QED
    BY Zenon, <2>1, <2>2
<1>4. ASSUME NEW r \in Run, NEW k \in Key
      PROVE  stateRow'[r][k] = IF r = run /\ \E p \in rows : p.key = k
                               THEN SucceededState(RefDescriptor(run, k))
                               ELSE stateRow[r][k]
  <2>1. stateRow'[r][k] =
          IF \E p \in rows : p.run = r /\ p.key = k
          THEN [status |-> "succeeded",
                object |-> {p.desc : p \in {q \in rows : q.run = r /\ q.key = k}}]
          ELSE stateRow[r][k]
    BY Zenon DEF CommitComponentRows
  <2>2. CASE r = run /\ \E p \in rows : p.key = k
    <3>1. {p.desc : p \in {q \in rows : q.run = r /\ q.key = k}} = {RefDescriptor(run, k)}
      BY Zenon, <2>2 DEF IsQueued
    <3> QED
      BY ZenonT(60), <2>1, <2>2, <3>1 DEF IsQueued, SucceededState
  <2>3. CASE ~ (r = run /\ \E p \in rows : p.key = k)
    BY Zenon, <2>1, <2>3 DEF IsQueued
  <2> QED
    BY Zenon, <2>2, <2>3
<1>5. stateRow' \in StateRows
  <2>1. \A k \in Key : SucceededState(RefDescriptor(run, k)) \in StateRow
    BY SMTT(60) DEF SucceededState, StateRow
  <2>2. \A r \in Run, k \in Key : stateRow'[r][k] \in StateRow
    BY SMTT(60), <1>4, <2>1 DEF RowsOK, StateRows
  <2>3. stateRow' = [r \in Run |-> [k \in Key |-> stateRow'[r][k]]]
    BY Zenon DEF CommitComponentRows
  <2> QED
    BY Zenon, <2>2, <2>3 DEF StateRows
<1> QED
  BY Zenon, <1>2, <1>3, <1>4, <1>5

\* The rows QueueComponentRows commits or keeps.
LEMMA QueuedRows ==
  ASSUME ControlOK, ComputedOK, StoreOK, PendingOK, QueueComponentRows
  PROVE  \E row : /\ row.key = key
                  /\ \A p \in pending \cup {row} : IsQueued(p)
                  /\ IF Cardinality(pending \cup {row}) >= BatchSize
                     THEN CommitComponentRows(pending \cup {row}) /\ pending' = {}
                     ELSE pending' = pending \cup {row} /\ UNCHANGED <<cacheRow, stateRow>>
<1>. DEFINE row == [run |-> run, key |-> key, desc |-> desc, result |-> RefResult(run, key)]
<1>1. key \in Key /\ desc = RefDescriptor(run, key)
  BY Zenon, DescIsReference DEF QueueComponentRows, ControlOK, Loop
<1>2. {[run |-> run, key |-> key, desc |-> desc, result |-> v] : v \in res} = {row}
  BY ZenonT(60) DEF QueueComponentRows, ComputedOK
<1>3. IsQueued(row)
  BY <1>1 DEF IsQueued, StoreOK, QueueComponentRows
<1>. HIDE DEF row
<1> QED
  <2>1. row.key = key
    BY Zenon DEF row
  <2> WITNESS row
  <2> QED
    BY Zenon, <1>2, <1>3, <2>1 DEF QueueComponentRows, PendingOK

\* Objects and cache rows hold reference results, and rows have their objects.
LEMMA StoreStep ==
  ASSUME ControlOK, ComputedOK, StoreOK, PendingOK, RowsOK, [Next]_vars
  PROVE  StoreOK'
<1>1. CASE PutIfAbsent
  <2>1. key \in Key /\ desc = RefDescriptor(run, key) /\ run \in Run
    BY Zenon, <1>1, DescIsReference, RunIsRun DEF PutIfAbsent, ControlOK, Loop
  <2>2. {Pair(desc, v) : v \in res} = {RefPair(run, key)}
    BY Zenon, <1>1, <2>1 DEF PutIfAbsent, ComputedOK, RefPair
  <2>3. UNCHANGED <<run, done, cacheRow>>
    BY Zenon, <1>1 DEF PutIfAbsent, orchestrator
  <2>4. CASE HasObject(desc)
    BY SMTT(60), <1>1, <2>1, <2>3, <2>4, ObjectByDescriptor DEF PutIfAbsent, HasObject, StoreOK, key
  <2>5. CASE ~ HasObject(desc)
    BY SMTT(60), <1>1, <2>1, <2>2, <2>3, <2>5 DEF PutIfAbsent, StoreOK, key
  <2> QED
    BY Zenon, <2>4, <2>5
<1>2. CASE QueueComponentRows
  <2>1. cacheRow \subseteq object
    BY DEF StoreOK
  <2>2. cacheRow' \subseteq object
    BY ZenonT(60), <1>2, <2>1, QueuedRows, CommitRows, RunIsRun
  <2> QED
    BY <1>2, <2>2 DEF QueueComponentRows, StoreOK
<1>3. CASE FlushComponentCache
  <2>1. cacheRow' \subseteq object
    BY Zenon, <1>3, CommitRows, RunIsRun DEF FlushComponentCache, PendingOK
  <2> QED
    BY SMTT(60), <1>3, <2>1 DEF FlushComponentCache, StoreOK
<1>4. CASE UNCHANGED <<object, cacheRow>> /\ pc' # "queue"
  BY SMTT(60), <1>4 DEF StoreOK
<1>5. CASE UNCHANGED vars
  BY SMTT(60), <1>5 DEF StoreOK, vars, durable, orchestrator, key
<1> QED
  BY Zenon, <1>1, <1>2, <1>3, <1>4, <1>5, StoreFrame

\* No step of the analyzer removes an object (a process crash loses none).
LEMMA ObjectsGrow == ASSUME [Next]_vars PROVE object \subseteq object'
BY Zenon, StoreFrame DEF PutIfAbsent, QueueComponentRows, FlushComponentCache, vars, durable

\* The queued component rows are rows of the run in hand, with stored objects.
LEMMA PendingStep ==
  ASSUME ControlOK, ComputedOK, StoreOK, PendingOK, [Next]_vars
  PROVE  PendingOK'
<1>. USE DEF Opening, orchestrator, queues
<1>1. CASE QueueComponentRows
  <2>1. pc' = "storeState" /\ UNCHANGED <<run, object>>
    BY ZenonT(60), <1>1 DEF QueueComponentRows
  <2>2. \A p \in pending' : IsQueued(p)
    BY ZenonT(60), <1>1, QueuedRows
  <2> QED
    BY Zenon, <2>1, <2>2 DEF PendingOK, IsQueued
<1>2. CASE pending' = {}
  BY Zenon, <1>2 DEF PendingOK
<1>3. CASE /\ UNCHANGED <<pending, run>>
           /\ \/ pc' \notin Opening \cup {"complete", "returned", "mismatch", "failed"}
              \/ pc \in Opening \cup {"complete", "returned", "mismatch", "failed"}
  BY Zenon, <1>3, ObjectsGrow DEF PendingOK, IsQueued
<1>4. CASE pc \in {"idle", "returned"} /\ UNCHANGED pending
  BY Zenon, <1>4 DEF PendingOK
<1>5. CASE Start \/ \E o \in Oracle[primary] : StartOracle(o)
  BY Zenon, <1>4, <1>5 DEF Start, StartRun, StartOracle
<1>6. CASE BeginRun \/ PublishGraph \/ LoadHit \/ LoadMiss \/ Execute \/ PutIfAbsent
  BY ZenonT(60), <1>3, <1>6 DEF BeginRun, PublishGraph, LoadHit, LoadMiss, Execute, PutIfAbsent
<1>7. CASE StoreState \/ FlushStateCache \/ FlushComponentCache \/ CompleteRun
  BY ZenonT(60), <1>2, <1>3, <1>7 DEF StoreState, FlushStateCache, FlushComponentCache, CompleteRun
<1>8. CASE OracleDisagrees \/ RecordComponentFailure \/ MarkIncomplete \/ Close
  BY Zenon, <1>2, <1>3, <1>8 DEF OracleDisagrees, RecordComponentFailure, MarkIncomplete, Mark, Close
<1>9. CASE FailBegin \/ FailComponent \/ FailStep \/ FailComponentFlush \/ FailSccFlush
  BY Zenon, <1>2, <1>3, <1>9
     DEF FailBegin, FailComponent, FailStep, FailComponentFlush, FailSccFlush
<1>10. CASE UNCHANGED vars
  BY Zenon, <1>3, <1>10 DEF vars
<1> QED
  BY Zenon, <1>1, <1>5, <1>6, <1>7, <1>8, <1>9, <1>10, ClosingSteps DEF Next, Work, Cleanup, Fault

\* Only a commit and a recorded failure change component rows.
LEMMA RowsFrame ==
  ASSUME [Next]_vars
  PROVE  \/ QueueComponentRows
         \/ FlushComponentCache
         \/ RecordComponentFailure
         \/ UNCHANGED <<stateRow, cacheRow>>
BY ZenonT(60), ClosingSteps DEF Next, Start, StartRun, Work, Cleanup, Fault, BeginRun, PublishGraph,
   LoadHit, LoadMiss, Execute, PutIfAbsent, StoreState, FlushStateCache, CompleteRun,
   StartOracle, OracleDisagrees, MarkIncomplete, Mark, FailBegin, FailComponent,
   FailStep, FailComponentFlush, FailSccFlush, durable, vars

\* Cache rows are never removed.
LEMMA CacheGrows ==
  ASSUME ControlOK, ComputedOK, StoreOK, PendingOK, RowsOK, [Next]_vars
  PROVE  cacheRow \subseteq cacheRow'
BY ZenonT(60), RowsFrame, QueuedRows, CommitRows, RunIsRun
   DEF FlushComponentCache, RecordComponentFailure, PendingOK

\* A component row that claims success has its cache row.
LEMMA RowsStep ==
  ASSUME ControlOK, ComputedOK, StoreOK, PendingOK, RowsOK, [Next]_vars
  PROVE  RowsOK'
<1>1. ASSUME NEW rows, \A p \in rows : IsQueued(p), CommitComponentRows(rows)
      PROVE  RowsOK'
  <2>1. stateRow' \in StateRows /\ cacheRow \subseteq cacheRow'
    BY Zenon, <1>1, CommitRows, RunIsRun
  <2>2. ASSUME NEW r \in Run, NEW k \in Key, stateRow'[r][k].status = "succeeded"
        PROVE  /\ stateRow'[r][k].object = {RefDescriptor(r, k)}
               /\ RefPair(r, k) \in cacheRow'
    <3>1. CASE r = run /\ \E p \in rows : p.key = k
      <4>1. stateRow'[r][k] = SucceededState(RefDescriptor(r, k)) /\ RefPair(r, k) \in cacheRow'
        BY SMTT(60), <1>1, <3>1, CommitRows, RunIsRun
      <4> QED
        BY SMTT(60), <4>1 DEF SucceededState
    <3>2. CASE ~ (r = run /\ \E p \in rows : p.key = k)
      <4>1. stateRow'[r][k] = stateRow[r][k]
        BY SMTT(60), <1>1, <3>2, CommitRows, RunIsRun
      <4> QED
        BY Zenon, <2>1, <2>2, <4>1 DEF RowsOK, SucceededRowsLoad, RefPair
    <3> QED
      BY Zenon, <3>1, <3>2
  <2> QED
    BY Zenon, <2>1, <2>2 DEF RowsOK, SucceededRowsLoad, RefPair
<1>2. CASE UNCHANGED <<stateRow, cacheRow>>
  BY Zenon, <1>2 DEF RowsOK, SucceededRowsLoad
<1>3. CASE QueueComponentRows
  BY ZenonT(60), <1>1, <1>2, <1>3, QueuedRows
<1>4. CASE FlushComponentCache
  BY Zenon, <1>1, <1>4 DEF FlushComponentCache, PendingOK
<1>5. CASE RecordComponentFailure
  <2>1. CASE stateRow' = stateRow
    BY Zenon, <1>2, <1>5, <2>1 DEF RecordComponentFailure
  <2>2. CASE stateRow' = [stateRow EXCEPT ![run][key] = FailedState]
    <3>1. FailedState \in StateRow /\ FailedState.status # "succeeded"
      BY DEF FailedState, StateRow
    <3>2. stateRow' \in StateRows
      BY ZenonT(60), <2>2, <3>1 DEF StateRows, RowsOK
    <3>3. \A r \in Run, k \in Key : stateRow'[r][k] \in {stateRow[r][k], FailedState}
      BY Zenon, <2>2 DEF StateRows, RowsOK
    <3> QED
      BY ZenonT(60), <1>5, <3>1, <3>2, <3>3 DEF RecordComponentFailure, RowsOK, SucceededRowsLoad
  <2> QED
    BY Zenon, <1>5, <2>1, <2>2 DEF RecordComponentFailure
<1> QED
  BY Zenon, <1>2, <1>3, <1>4, <1>5, RowsFrame

\* Each completed component of the run in hand is committed or still queued.
LEMMA PersistStep ==
  ASSUME ControlOK, ComputedOK, StoreOK, PendingOK, RowsOK, PersistOK, [Next]_vars
  PROVE  PersistOK'
<1>. USE DEF Storing, Loop, orchestrator, queues
<1>1. ASSUME NEW rows, \A p \in rows : IsQueued(p), CommitComponentRows(rows),
             NEW k \in Key, Committed(run, k) \/ \E p \in rows : p.key = k, run' = run
      PROVE  Committed(run, k)'
  <2>1. RefPair(run, k) \in cacheRow'
    BY Zenon, <1>1, CommitRows, RunIsRun DEF Committed
  <2>2. stateRow'[run][k] = SucceededState(RefDescriptor(run, k))
    BY SMTT(60), <1>1, CommitRows, RunIsRun DEF Committed
  <2> QED
    BY Zenon, <1>1, <2>1, <2>2 DEF Committed
<1>2. CASE QueueComponentRows
  <2>1. PICK row : /\ row.key = key
                   /\ \A p \in pending \cup {row} : IsQueued(p)
                   /\ IF Cardinality(pending \cup {row}) >= BatchSize
                      THEN CommitComponentRows(pending \cup {row}) /\ pending' = {}
                      ELSE pending' = pending \cup {row} /\ UNCHANGED <<cacheRow, stateRow>>
    BY Zenon, <1>2, QueuedRows
  <2>2. pc = "queue" /\ pc' = "storeState" /\ UNCHANGED <<run, done>>
    BY Zenon, <1>2 DEF QueueComponentRows
  <2>3. \A k \in Key : k <= Len(done) \/ k = key =>
          Committed(run, k) \/ \E p \in pending \cup {row} : p.key = k
    BY Zenon, <2>1, <2>2 DEF PersistOK
  <2>4. CASE CommitComponentRows(pending \cup {row})
    BY Zenon, <1>1, <2>1, <2>2, <2>3, <2>4 DEF PersistOK, key
  <2>5. CASE pending' = pending \cup {row} /\ UNCHANGED <<cacheRow, stateRow>>
    BY Zenon, <2>2, <2>3, <2>5 DEF PersistOK, Committed, key
  <2> QED
    BY Zenon, <2>1, <2>4, <2>5
<1>3. CASE FlushComponentCache
  <2>1. pc = "flushComponents" /\ pc' = "complete" /\ UNCHANGED <<run, done>>
    BY Zenon, <1>3 DEF FlushComponentCache
  <2>2. \A k \in Key : k <= Len(done) =>
          Committed(run, k) \/ \E p \in pending : p.key = k
    BY Zenon, <2>1 DEF PersistOK
  <2> QED
    BY Zenon, <1>1, <1>3, <2>1, <2>2 DEF FlushComponentCache, PersistOK, PendingOK
<1>4. CASE StoreState
  <2>1. UNCHANGED <<run, stateRow, cacheRow, pending>> /\ pc = "storeState" /\ pc' # "storeState"
    BY Zenon, <1>4 DEF StoreState
  <2>2. done \in Seq(Results) /\ res = {RefResult(run, key)}
    BY Zenon, <2>1 DEF ControlOK, ComputedOK
  <2>3. Len(done') = key
    BY <1>4, <2>2 DEF StoreState, key
  <2>4. \A k \in Key : k <= Len(done') => k <= Len(done) \/ k = key
    BY SMTT(60), <2>2, <2>3 DEF key, Key
  <2> QED
    BY Zenon, <2>1, <2>4 DEF PersistOK, Committed
<1>5. CASE pc' \notin Storing
  BY Zenon, <1>5 DEF PersistOK
<1>6. CASE PublishGraph
  BY <1>6, OrderAssumption DEF PublishGraph, PersistOK, ControlOK, Opening, Key
<1>7. CASE LoadHit \/ LoadMiss \/ Execute \/ PutIfAbsent \/ FlushStateCache
  BY ZenonT(60), <1>7 DEF LoadHit, LoadMiss, Execute, PutIfAbsent, FlushStateCache, durable, PersistOK,
     Committed
<1>8. CASE Start \/ BeginRun \/ CompleteRun \/ OracleDisagrees
          \/ \E o \in Oracle[primary] : StartOracle(o)
  BY ZenonT(60), <1>5, <1>8 DEF Start, StartRun, BeginRun, CompleteRun, OracleDisagrees, StartOracle
<1>9. CASE RecordComponentFailure \/ MarkIncomplete \/ Close
  BY Zenon, <1>5, <1>9 DEF RecordComponentFailure, MarkIncomplete, Close
<1>10. CASE FailBegin \/ FailComponent \/ FailStep \/ FailComponentFlush \/ FailSccFlush
  BY Zenon, <1>5, <1>10 DEF FailBegin, FailComponent, FailStep, FailComponentFlush, FailSccFlush
<1>11. CASE UNCHANGED vars
  BY ZenonT(60), <1>11 DEF vars, durable, PersistOK, Committed, key
<1> QED
  BY Zenon, <1>2, <1>3, <1>4, <1>6, <1>7, <1>8, <1>9, <1>10, <1>11, ClosingSteps
     DEF Next, Work, Cleanup, Fault

\* When Run is about to complete, all of it is committed.
LEMMA AllCommitted ==
  ASSUME ControlOK, PendingOK, PersistOK, pc = "complete"
  PROVE  \A k \in Key : Committed(run, k)
<1>1. Len(done) = N /\ pending = {}
  BY Zenon DEF ControlOK, PendingOK, Finish
<1>2. \A k \in Key : k <= N
  BY SMTT(60), OrderAssumption DEF Key
<1>3. \A k \in Key : k <= Len(done) => Committed(run, k) \/ \E p \in pending : p.key = k
  BY Zenon DEF PersistOK, Storing
<1> QED
  BY Zenon, <1>1, <1>2, <1>3

\* A run marked complete has all of its cache rows.
LEMMA StatusStep ==
  ASSUME ControlOK, ComputedOK, StoreOK, PendingOK, RowsOK, PersistOK, StatusOK, [Next]_vars
  PROVE  StatusOK'
<1>. USE RunIsRun DEF orchestrator, durable
<1>1. \A r \in Run, k \in Key :
        Pair(RefDescriptor(r, k), RefResult(r, k)) \in cacheRow =>
        Pair(RefDescriptor(r, k), RefResult(r, k)) \in cacheRow'
  BY Zenon, CacheGrows
<1>2. ASSUME runRow' \in [Run -> {"absent", "in_progress", "complete", "incomplete"}],
             \A r \in Run : runRow'[r] = "complete" => runRow[r] = "complete"
      PROVE  CompletedRunReloadable'
  BY Zenon, <1>1, <1>2 DEF StatusOK, CompletedRunReloadable
<1>3. CASE UNCHANGED runRow /\ pc' # "execute"
           /\ \/ pc' = "idle" /\ run' = primary'
              \/ /\ UNCHANGED <<run, primary>>
                 /\ pc' \in {"returned", "mismatch"} => pc' = pc
                 /\ pc = "mismatch" => pc' = "mismatch"
                 /\ pc \in {"idle", "begin", "failed"} => pc' \in {"idle", "begin", "failed"}
  BY Zenon, <1>2, <1>3 DEF StatusOK, CompletedRunNeverExecutes
<1>4. CASE Start
  BY Zenon, <1>2, <1>4 DEF Start, StartRun, StatusOK, CompletedRunNeverExecutes
<1>5. CASE BeginRun
  <2>1. /\ runRow' \in [Run -> {"absent", "in_progress", "complete", "incomplete"}]
        /\ \A r \in Run : runRow'[r] = "complete" <=> runRow[r] = "complete"
        /\ runRow'[run] # "absent"
    BY Zenon, <1>5 DEF BeginRun, StatusOK
  <2> QED
    BY Zenon, <1>2, <1>5, <2>1 DEF BeginRun, StatusOK, CompletedRunNeverExecutes
<1>6. CASE PublishGraph \/ LoadHit \/ Execute \/ PutIfAbsent \/ QueueComponentRows
           \/ StoreState \/ FlushStateCache \/ FlushComponentCache
  BY ZenonT(60), <1>3, <1>6 DEF PublishGraph, LoadHit, Execute, PutIfAbsent, QueueComponentRows,
     StoreState, FlushStateCache, FlushComponentCache
<1>7. CASE LoadMiss
  <2>1. key \in Key /\ desc = RefDescriptor(run, key)
    BY ZenonT(60), <1>7, DescIsReference DEF LoadMiss, ControlOK, Loop
  <2>2. runRow[run] # "complete"
    BY ZenonT(60), <1>7, <2>1 DEF LoadMiss, StatusOK, CompletedRunReloadable, HasRow, Pair
  <2> QED
    BY ZenonT(60), <1>2, <1>7, <2>2 DEF LoadMiss, StatusOK, CompletedRunNeverExecutes
<1>8. CASE CompleteRun
  <2>1. \A k \in Key : Pair(RefDescriptor(run, k), RefResult(run, k)) \in cacheRow
    BY Zenon, <1>8, AllCommitted DEF CompleteRun, Committed, RefPair
  <2>2. /\ runRow' \in [Run -> {"absent", "in_progress", "complete", "incomplete"}]
        /\ runRow'[run] = "complete"
        /\ \A r \in Run : r # run => runRow'[r] = runRow[r]
    BY Zenon, <1>8 DEF CompleteRun, StatusOK
  <2>3. CompletedRunReloadable'
    BY Zenon, <1>1, <2>1, <2>2 DEF StatusOK, CompletedRunReloadable
  <2> QED
    BY Zenon, <1>8, <2>2, <2>3 DEF CompleteRun, StatusOK, CompletedRunNeverExecutes
<1>9. CASE \E o \in Oracle[primary] : StartOracle(o)
  BY Zenon, <1>2, <1>9 DEF StartOracle, StatusOK, CompletedRunNeverExecutes
<1>10. ASSUME NEW r \in Run, runRow' \in {runRow, [runRow EXCEPT ![r] = "incomplete"]}
       PROVE  /\ runRow' \in [Run -> {"absent", "in_progress", "complete", "incomplete"}]
              /\ CompletedRunReloadable'
              /\ \A q \in Run : q # r => runRow'[q] = runRow[q]
              /\ runRow[r] # "absent" => runRow'[r] # "absent"
  BY Zenon, <1>2, <1>10 DEF StatusOK
<1>11. CASE MarkIncomplete
  BY Zenon, <1>10, <1>11 DEF MarkIncomplete, Mark, StatusOK, CompletedRunNeverExecutes
<1>12. CASE OracleDisagrees
  BY Zenon, <1>10, <1>12 DEF OracleDisagrees, Mark, StatusOK, CompletedRunNeverExecutes
<1>13. CASE OracleFailed \/ MarkOracle
  BY Zenon, <1>10, <1>13 DEF OracleFailed, MarkOracle, Close, StatusOK, CompletedRunNeverExecutes
<1>14. CASE RecordComponentFailure \/ ReturnError \/ Publish
  BY Zenon, <1>3, <1>14 DEF RecordComponentFailure, ReturnError, Publish, Close
<1>15. CASE Fault
  BY ZenonT(60), <1>3, <1>15 DEF Fault, FailBegin, FailComponent, FailStep, FailComponentFlush,
     FailSccFlush, FailAfterRun, Crash, Close
<1>16. CASE UNCHANGED vars
  BY Zenon, <1>16 DEF vars, StatusOK, CompletedRunReloadable, CompletedRunNeverExecutes
<1> QED
  BY ZenonT(60), <1>4, <1>5, <1>6, <1>7, <1>8, <1>9, <1>11, <1>12, <1>13, <1>14, <1>15, <1>16
     DEF Next, Work, Cleanup

\* Published batches are reference batches, confirmed by the oracle.
LEMMA PublishedStep ==
  ASSUME ControlOK, ComputedOK, PublishedOK, [Next]_vars
  PROVE  PublishedOK'
<1>1. CASE Publish
  <2>1. done = RefBatch(run)
    BY Zenon, <1>1, DoneIsBatch DEF Publish, ControlOK, Finish
  <2>2. (IF run = primary THEN done ELSE kept) = RefBatch(primary)
    BY Zenon, <2>1 DEF ComputedOK
  <2>3. \A o \in Oracle[primary] : RefBatch(o) = RefBatch(primary)
    <3>1. CASE run = primary
      BY Zenon, <1>1, <3>1 DEF Publish
    <3>2. CASE run # primary
      BY Zenon, <1>1, <2>1, <3>2, RunAssumption DEF Publish, Conforms, ControlOK, ComputedOK
    <3> QED
      BY Zenon, <3>1, <3>2
  <2>4. factBatch[primary] \subseteq {RefBatch(primary)}
    BY Zenon, RunIsRun DEF PublishedOK, PublishedIsReference
  <2>5. factBatch' = [factBatch EXCEPT ![primary] = {RefBatch(primary)}]
    BY ZenonT(60), <1>1, <2>2, <2>4 DEF Publish
  <2> QED
    BY Zenon, <2>3, <2>5, RunIsRun DEF PublishedOK, PublishedIsReference, ControlOK
<1>2. CASE UNCHANGED factBatch
  BY ZenonT(60), <1>2 DEF PublishedOK, PublishedIsReference
<1>3. Publish \/ UNCHANGED factBatch
  BY ZenonT(60) DEF Next, Start, StartRun, Work, Cleanup, Fault, BeginRun, PublishGraph,
     LoadHit, LoadMiss, Execute, PutIfAbsent, QueueComponentRows, StoreState,
     FlushStateCache, FlushComponentCache, CompleteRun, StartOracle, OracleDisagrees,
     MarkOracle, RecordComponentFailure, MarkIncomplete, ReturnError, OracleFailed, Mark,
     FailBegin, FailComponent, FailStep, FailComponentFlush, FailSccFlush, FailAfterRun,
     Crash, durable, vars
<1> QED
  BY Zenon, <1>1, <1>2, <1>3

\* The rows of the current run that are queued in rows become its results.
SccCommitted(rows) ==
  /\ sccRow' \in SccRows
  /\ \A c \in Contexts, k \in Key :
       sccRow'[c][k] = IF c = Context[run] /\ \E p \in rows : p.key = k
                       THEN {Ref[run][k]} ELSE sccRow[c][k]

\* A commit of queued convergence rows.
LEMMA CommitScc ==
  ASSUME ControlOK, sccRow \in SccRows,
         NEW rows, \A p \in rows : IsSccQueued(p), CommitSccRows(rows)
  PROVE  SccCommitted(rows)
<1>1. ASSUME NEW c \in Contexts, NEW k \in Key
      PROVE  sccRow'[c][k] = IF c = Context[run] /\ \E p \in rows : p.key = k
                             THEN {Ref[run][k]} ELSE sccRow[c][k]
  <2>1. sccRow'[c][k] =
          IF \E p \in rows : p.context = c /\ p.key = k
          THEN {p.external : p \in {q \in rows : q.context = c /\ q.key = k}}
          ELSE sccRow[c][k]
    BY Zenon DEF CommitSccRows, SccRows
  <2>2. CASE c = Context[run] /\ \E p \in rows : p.key = k
    <3>1. {p.external : p \in {q \in rows : q.context = c /\ q.key = k}} = {Ref[run][k]}
      BY Zenon, <2>2 DEF IsSccQueued
    <3> QED
      BY Zenon, <2>1, <2>2, <3>1 DEF IsSccQueued
  <2>3. CASE ~ (c = Context[run] /\ \E p \in rows : p.key = k)
    BY Zenon, <2>1, <2>3 DEF IsSccQueued
  <2> QED
    BY Zenon, <2>2, <2>3
<1>2. ASSUME NEW c \in Contexts, NEW k \in Key PROVE sccRow'[c][k] \in Hashes
  <2>1. {Ref[run][k]} \in Hashes
    BY Zenon, RunIsRun, RefFacts DEF Hashes
  <2>2. sccRow[c][k] \in Hashes
    BY Zenon DEF SccRows
  <2> QED
    BY Zenon, <1>1, <2>1, <2>2
<1>3. sccRow' = [c \in Contexts |-> [k \in Key |-> sccRow'[c][k]]]
  BY ZenonT(60) DEF CommitSccRows, SccRows
<1>4. sccRow' \in SccRows
  BY Zenon, <1>2, <1>3 DEF SccRows
<1> QED
  BY ZenonT(60), <1>1, <1>4 DEF SccCommitted

\* What StoreState commits or keeps, and what it schedules.
LEMMA StoredState ==
  ASSUME ControlOK, ComputedOK, ConvergenceOK, StoreState
  PROVE  \E row : /\ row.key = key
                  /\ \A p \in pendingScc \cup {row} : IsSccQueued(p)
                  /\ IF Cardinality(pendingScc \cup {row}) >= StateBatchSize
                     THEN CommitSccRows(pendingScc \cup {row}) /\ pendingScc' = {}
                     ELSE pendingScc' = pendingScc \cup {row} /\ UNCHANGED sccRow
                  /\ scheduled' = IF sccRow[Context[run]][key] = {Ref[run][key]} THEN scheduled
                                  ELSE scheduled \cup Predecessors(key)
                  /\ Len(done') = key
<1>. DEFINE row == [context |-> Context[run], key |-> key, external |-> Ref[run][key]]
<1>1. key \in Key /\ run \in Run
  BY ZenonT(60), DescIsReference, RunIsRun DEF StoreState, ControlOK, Loop
<1>2. res = {RefResult(run, key)} /\ RefResult(run, key).facts = Ref[run][key]
  BY ZenonT(60), <1>1, RefFacts DEF StoreState, ComputedOK
<1>3. IsSccQueued(row) /\ row.key = key
  BY Zenon, <1>1 DEF IsSccQueued
<1>4. \A p \in pendingScc \cup {row} : IsSccQueued(p)
  BY Zenon, <1>3 DEF ConvergenceOK
<1>5. Len(done') = key
  <2>1. done \in Seq(Results) /\ RefResult(run, key) \in Results
    BY SMTT(60), <1>1 DEF ControlOK, Results
  <2>2. done' = Append(done, RefResult(run, key))
    BY ZenonT(60), <1>2 DEF StoreState
  <2> HIDE DEF Results
  <2> QED
    BY SMTT(60), <2>1, <2>2 DEF key
<1> QED
  <2>1. /\ IF Cardinality(pendingScc \cup {row}) >= StateBatchSize
           THEN CommitSccRows(pendingScc \cup {row}) /\ pendingScc' = {}
           ELSE pendingScc' = pendingScc \cup {row} /\ UNCHANGED sccRow
        /\ scheduled' = IF sccRow[Context[run]][key] = {Ref[run][key]} THEN scheduled
                        ELSE scheduled \cup Predecessors(key)
    BY ZenonT(60), <1>2 DEF StoreState, ExternalChanged
  <2> HIDE DEF row
  <2> QED
    BY Zenon, <1>3, <1>4, <1>5, <2>1

\* Only CompleteRun makes a run complete.
LEMMA CompleteFrame ==
  ASSUME ControlOK, StatusOK, [Next]_vars, NEW r \in Run, runRow'[r] = "complete"
  PROVE  runRow[r] = "complete" \/ (CompleteRun /\ r = run)
<1>. USE RunIsRun DEF StatusOK, durable
<1>1. CASE CompleteRun
  BY Zenon, <1>1 DEF CompleteRun
<1>2. CASE BeginRun
  BY Zenon, <1>2 DEF BeginRun
<1>3. CASE MarkIncomplete \/ OracleDisagrees \/ OracleFailed \/ MarkOracle
  BY Zenon, <1>3 DEF MarkIncomplete, OracleDisagrees, OracleFailed, MarkOracle, Mark
<1>4. CASE UNCHANGED runRow
  BY Zenon, <1>4
<1>5. \/ CompleteRun \/ BeginRun
      \/ MarkIncomplete \/ OracleDisagrees \/ OracleFailed \/ MarkOracle
      \/ UNCHANGED runRow
  BY ZenonT(60) DEF Next, Start, StartRun, Work, Cleanup, Fault, PublishGraph, LoadHit, LoadMiss,
     Execute, PutIfAbsent, QueueComponentRows, StoreState, FlushStateCache,
     FlushComponentCache, StartOracle, Publish, RecordComponentFailure, ReturnError,
     FailBegin, FailComponent, FailStep, FailComponentFlush, FailSccFlush, FailAfterRun,
     Crash, vars
<1> QED
  BY Zenon, <1>1, <1>2, <1>3, <1>4, <1>5

\* When Run is about to complete, its convergence rows are committed.
LEMMA AllConverged ==
  ASSUME ControlOK, ConvergenceOK, pc = "complete"
  PROVE  \A k \in Key : sccRow[Context[run]][k] = {Ref[run][k]}
<1>1. pc \in Storing /\ pendingScc = {}
  BY ZenonT(60) DEF ConvergenceOK, Storing
<1>2. \A k \in Key : k <= Len(done)
  BY SMTT(60), OrderAssumption DEF ControlOK, Finish, Key
<1> QED
  BY ZenonT(60), <1>1, <1>2 DEF ConvergenceOK

\* A commit keeps the rows of a complete run where no run disputes them, and
\* turns queued rows of the current run into committed ones.
LEMMA CommitKeeps ==
  ASSUME ControlOK, ConvergenceOK, NEW rows, \A p \in rows : IsSccQueued(p), CommitSccRows(rows)
  PROVE  /\ sccRow' \in SccRows
         /\ \A k \in Key :
              sccRow[Context[run]][k] = {Ref[run][k]} \/ (\E p \in rows : p.key = k) =>
              sccRow'[Context[run]][k] = {Ref[run][k]}
         /\ \A r \in Run : runRow[r] = "complete" /\ Undisputed(r) =>
              \A k \in Key : sccRow'[Context[r]][k] = {Ref[r][k]}
<1>1. /\ sccRow \in SccRows
      /\ \A r \in Run : Context[r] \in Contexts
      /\ run \in Run
  BY ZenonT(60), RunIsRun DEF ConvergenceOK, Contexts
<1>2. /\ sccRow' \in SccRows
      /\ \A c \in Contexts, k \in Key :
           sccRow'[c][k] = IF c = Context[run] /\ \E p \in rows : p.key = k
                           THEN {Ref[run][k]} ELSE sccRow[c][k]
  <2>1. SccCommitted(rows)
    BY ZenonT(60), <1>1, CommitScc
  <2> QED
    BY ZenonT(60), <2>1 DEF SccCommitted
<1>3. ASSUME NEW r \in Run, runRow[r] = "complete", Undisputed(r), NEW k \in Key
      PROVE  sccRow'[Context[r]][k] = {Ref[r][k]}
  <2>1. sccRow[Context[r]][k] = {Ref[r][k]}
    <3>1. \A q \in Run : runRow[q] = "complete" /\ Undisputed(q) =>
            \A j \in Key : sccRow[Context[q]][j] = {Ref[q][j]}
      BY ZenonT(60) DEF ConvergenceOK
    <3> QED
      BY Zenon, <1>3, <3>1
  <2>2. Context[r] = Context[run] => Ref[r] = Ref[run]
    BY Zenon, <1>1, <1>3 DEF Undisputed
  <2>3. CASE Context[r] = Context[run] /\ \E p \in rows : p.key = k
    <3>1. sccRow'[Context[run]][k] = {Ref[run][k]}
      BY ZenonT(60), <1>1, <1>2, <2>3
    <3> QED
      BY Zenon, <2>2, <2>3, <3>1
  <2>4. CASE ~ (Context[r] = Context[run] /\ \E p \in rows : p.key = k)
    BY ZenonT(60), <1>1, <1>2, <2>1, <2>4
  <2> QED
    BY Zenon, <2>3, <2>4
<1> QED
  BY ZenonT(60), <1>1, <1>2, <1>3

\* The convergence rows of a complete run hold its reference facts.
LEMMA ConvergenceStep ==
  ASSUME ControlOK, ComputedOK, StatusOK, ConvergenceOK, [Next]_vars
  PROVE  ConvergenceOK'
<1>. USE DEF Opening, Storing, Loop, orchestrator, queues, durable
<1>1. CASE StoreState
  <2>1. PICK row :
          /\ row.key = key
          /\ \A p \in pendingScc \cup {row} : IsSccQueued(p)
          /\ IF Cardinality(pendingScc \cup {row}) >= StateBatchSize
             THEN CommitSccRows(pendingScc \cup {row}) /\ pendingScc' = {}
             ELSE pendingScc' = pendingScc \cup {row} /\ UNCHANGED sccRow
          /\ Len(done') = key
    BY Zenon, <1>1, StoredState
  <2>2. /\ UNCHANGED <<run, runRow>>
        /\ pc = "storeState" /\ pc' \in {"load", "flushState"}
    BY ZenonT(60), <1>1 DEF StoreState
  <2>3. \A k \in Key : k <= Len(done') =>
          sccRow[Context[run]][k] = {Ref[run][k]} \/ \E p \in pendingScc \cup {row} : p.key = k
    <3>1. \A k \in Key : k <= Len(done') => k <= Len(done) \/ k = key
      <4>1. Len(done) \in Nat /\ key = Len(done) + 1
        BY SMTT(60) DEF ControlOK, key
      <4>2. Len(done') = Len(done) + 1
        BY Zenon, <2>1, <4>1
      <4>3. \A k \in Key : k \in Nat
        BY OrderAssumption DEF Key
      <4> QED
        BY SMTT(60), <4>1, <4>2, <4>3
    <3> QED
      BY ZenonT(60), <2>1, <2>2, <3>1 DEF ConvergenceOK
  <2>4. CASE CommitSccRows(pendingScc \cup {row}) /\ pendingScc' = {}
    <3>1. /\ sccRow' \in SccRows
          /\ \A k \in Key :
               sccRow[Context[run]][k] = {Ref[run][k]} \/ (\E p \in pendingScc \cup {row} : p.key = k) =>
               sccRow'[Context[run]][k] = {Ref[run][k]}
          /\ \A r \in Run : runRow[r] = "complete" /\ Undisputed(r) =>
               \A k \in Key : sccRow'[Context[r]][k] = {Ref[r][k]}
      BY ZenonT(60), <2>1, <2>4, CommitKeeps
    <3> QED
      BY ZenonT(60), <2>2, <2>3, <2>4, <3>1 DEF ConvergenceOK
  <2>5. CASE pendingScc' = pendingScc \cup {row} /\ UNCHANGED sccRow
    BY ZenonT(60), <2>1, <2>2, <2>3, <2>5 DEF ConvergenceOK, IsSccQueued
  <2> QED
    BY Zenon, <2>1, <2>4, <2>5
<1>2. CASE FlushStateCache
  <2>1. /\ UNCHANGED <<run, runRow, done>> /\ pendingScc' = {}
        /\ pc = "flushState" /\ pc' = "flushComponents"
        /\ CommitSccRows(pendingScc)
    BY Zenon, <1>2 DEF FlushStateCache
  <2>2. \A p \in pendingScc : IsSccQueued(p)
    BY ZenonT(60) DEF ConvergenceOK
  <2>3. /\ sccRow' \in SccRows
        /\ \A k \in Key :
             sccRow[Context[run]][k] = {Ref[run][k]} \/ (\E p \in pendingScc : p.key = k) =>
             sccRow'[Context[run]][k] = {Ref[run][k]}
        /\ \A r \in Run : runRow[r] = "complete" /\ Undisputed(r) =>
             \A k \in Key : sccRow'[Context[r]][k] = {Ref[r][k]}
    BY ZenonT(60), <2>1, <2>2, CommitKeeps
  <2> QED
    BY Zenon, <2>1, <2>3 DEF ConvergenceOK
<1>3. CASE CompleteRun
  <2>1. /\ UNCHANGED <<run, done, sccRow, pendingScc>>
        /\ pc = "complete" /\ pc' = "returned"
    BY Zenon, <1>3 DEF CompleteRun
  <2>2. \A r \in Run : runRow'[r] = "complete" => runRow[r] = "complete" \/ r = run
    BY Zenon, CompleteFrame
  <2> QED
    BY ZenonT(60), <2>1, <2>2, AllConverged DEF ConvergenceOK, IsSccQueued
<1>4. \A r \in Run : runRow'[r] = "complete" /\ ~ CompleteRun => runRow[r] = "complete"
  BY Zenon, CompleteFrame
<1>5. CASE /\ ~ CompleteRun
           /\ UNCHANGED sccRow
           /\ \/ pendingScc' = {}
              \/ UNCHANGED <<pendingScc, run>> /\ pc' \notin Opening \cup {"flushComponents", "complete", "returned", "mismatch"}
              \/ pc \in Opening \cup {"flushComponents", "complete", "returned", "mismatch"}
                 /\ UNCHANGED pendingScc
           /\ pc' \notin Storing
  <2>1. \A p \in pendingScc' : IsSccQueued(p)'
    BY ZenonT(60), <1>5 DEF ConvergenceOK, IsSccQueued
  <2> QED
    BY ZenonT(60), <1>4, <1>5, <2>1 DEF ConvergenceOK
<1>6. CASE /\ ~ CompleteRun
           /\ UNCHANGED <<sccRow, pendingScc, run, done>>
           /\ pc \in Storing \/ done = << >>
           /\ pc \in Opening \cup {"flushComponents", "complete", "returned", "mismatch"}
              \/ pc' \notin Opening \cup {"flushComponents", "complete", "returned", "mismatch"}
  <2>1. \A p \in pendingScc' : IsSccQueued(p)'
    BY ZenonT(60), <1>6 DEF ConvergenceOK, IsSccQueued
  <2>2. done = << >> => \A k \in Key : ~ (k <= Len(done))
    BY SMTT(60) DEF Key
  <2> QED
    BY ZenonT(60), <1>4, <1>6, <2>1, <2>2 DEF ConvergenceOK
<1>7. CASE Start \/ BeginRun \/ OracleDisagrees \/ \E o \in Oracle[primary] : StartOracle(o)
  BY ZenonT(60), <1>5, <1>7
     DEF Start, StartRun, BeginRun, OracleDisagrees, Mark, StartOracle, CompleteRun
<1>8. CASE PublishGraph \/ LoadHit \/ LoadMiss \/ Execute \/ PutIfAbsent \/ QueueComponentRows
           \/ FlushComponentCache
  BY ZenonT(60), <1>6, <1>8 DEF PublishGraph, LoadHit, LoadMiss, Execute, PutIfAbsent,
     QueueComponentRows, FlushComponentCache, CompleteRun, ControlOK
<1>9. CASE RecordComponentFailure \/ MarkIncomplete
  BY Zenon, <1>5, <1>9 DEF RecordComponentFailure, MarkIncomplete, Mark, CompleteRun
<1>10. CASE Close /\ UNCHANGED sccRow
  BY Zenon, <1>5, <1>10 DEF Close, CompleteRun
<1>11. CASE FailBegin \/ FailComponent \/ FailStep \/ FailComponentFlush \/ FailSccFlush
  BY Zenon, <1>5, <1>11 DEF FailBegin, FailComponent, FailStep, FailComponentFlush, FailSccFlush,
     CompleteRun
<1>12. CASE UNCHANGED vars
  BY ZenonT(60), <1>12 DEF vars, ConvergenceOK, IsSccQueued
<1> QED
  BY Zenon, <1>1, <1>2, <1>3, <1>7, <1>8, <1>9, <1>10, <1>11, <1>12, ClosingSteps
     DEF Next, Work, Cleanup, Fault

\* A repeated complete run has scheduled nothing so far.
LEMMA ScheduleStep ==
  ASSUME ControlOK, ComputedOK, StatusOK, ConvergenceOK, ScheduleOK, [Next]_vars
  PROVE  ScheduleOK'
<1>. USE DEF orchestrator, durable
<1>1. CASE StoreState
  <2>1. /\ UNCHANGED <<run, runRow, topology>>
        /\ pc = "storeState" /\ pc' \in {"load", "flushState"}
    BY ZenonT(60), <1>1 DEF StoreState
  <2>2. scheduled' = IF sccRow[Context[run]][key] = {Ref[run][key]} THEN scheduled
                     ELSE scheduled \cup Predecessors(key)
    BY ZenonT(60), <1>1, StoredState
  <2>3. key \in Key /\ run \in Run
    BY ZenonT(60), <2>1, DescIsReference, RunIsRun DEF ControlOK, Loop
  <2>4. ASSUME runRow[run] = "complete", Undisputed(run) PROVE scheduled' = {}
    BY ZenonT(60), <2>1, <2>2, <2>3, <2>4 DEF ConvergenceOK, ScheduleOK, RepeatSchedulesNothing, Undisputed
  <2> QED
    BY ZenonT(60), <2>1, <2>2, <2>4 DEF ScheduleOK, RepeatSchedulesNothing, Undisputed, Predecessors
<1>2. CASE PublishGraph
  BY ZenonT(60), <1>2, RunIsRun DEF PublishGraph, ScheduleOK, RepeatSchedulesNothing, Contexts
<1>3. CASE CompleteRun \/ OracleDisagrees
  BY ZenonT(60), <1>3 DEF CompleteRun, OracleDisagrees, Mark, ScheduleOK, RepeatSchedulesNothing
<1>4. CASE Start \/ \E o \in Oracle[primary] : StartOracle(o)
  BY ZenonT(60), <1>4 DEF Start, StartRun, StartOracle, ScheduleOK, RepeatSchedulesNothing
<1>5. CASE Close /\ UNCHANGED topology
  BY ZenonT(60), <1>5 DEF Close, ScheduleOK, RepeatSchedulesNothing
<1>6. CASE /\ UNCHANGED <<topology, scheduled, run>>
           /\ ~ CompleteRun
           /\ pc \notin {"idle", "returned", "mismatch"} /\ pc' # "idle"
  <2>1. runRow'[run] = "complete" => runRow[run] = "complete"
    BY Zenon, <1>6, CompleteFrame, RunIsRun
  <2> QED
    BY Zenon, <1>6, <2>1 DEF ScheduleOK, RepeatSchedulesNothing
<1>7. CASE BeginRun \/ LoadHit \/ LoadMiss \/ Execute \/ PutIfAbsent \/ QueueComponentRows
           \/ FlushStateCache \/ FlushComponentCache
  BY ZenonT(60), <1>6, <1>7 DEF BeginRun, LoadHit, LoadMiss, Execute, PutIfAbsent, QueueComponentRows,
     FlushStateCache, FlushComponentCache, CompleteRun
<1>8. CASE RecordComponentFailure \/ MarkIncomplete
  BY Zenon, <1>6, <1>8 DEF RecordComponentFailure, MarkIncomplete, Mark, CompleteRun
<1>9. CASE FailBegin \/ FailComponent \/ FailStep \/ FailComponentFlush \/ FailSccFlush
  BY Zenon, <1>6, <1>9 DEF FailBegin, FailComponent, FailStep, FailComponentFlush, FailSccFlush,
     CompleteRun
<1>10. CASE UNCHANGED vars
  BY ZenonT(60), <1>10 DEF vars, ScheduleOK, RepeatSchedulesNothing
<1> QED
  BY ZenonT(60), <1>1, <1>2, <1>3, <1>4, <1>5, <1>7, <1>8, <1>9, <1>10, ClosingSteps
     DEF Next, Work, Cleanup, Fault

\* The queues are finite and below their batch sizes.
LEMMA QueuesStep ==
  ASSUME ControlOK, ComputedOK, StoreOK, PendingOK, ConvergenceOK, QueuesOK, [Next]_vars
  PROVE  QueuesOK'
<1>. USE DEF QueuesOK, LossWindow
<1>1. \A S, e : IsFiniteSet(S) => IsFiniteSet(S \cup {e}) /\ Cardinality(S \cup {e}) \in Nat
  BY Zenon, FS_AddElement, FS_CardinalityType
<1>2. IsFiniteSet({}) /\ Cardinality({}) = 0
  BY Zenon, FS_EmptySet
<1>3. pending' = {} \/ UNCHANGED pending \/ QueueComponentRows
  BY ZenonT(60), ClosingSteps DEF Next, Start, StartRun, Work, Cleanup, Fault, BeginRun, PublishGraph,
     LoadHit, LoadMiss, Execute, PutIfAbsent, StoreState, FlushStateCache,
     FlushComponentCache, CompleteRun, StartOracle, OracleDisagrees, RecordComponentFailure,
     MarkIncomplete, Mark, FailBegin, FailComponent, FailStep, FailComponentFlush,
     FailSccFlush, Close, queues, vars
<1>4. pendingScc' = {} \/ UNCHANGED pendingScc \/ StoreState
  BY ZenonT(60), ClosingSteps DEF Next, Start, StartRun, Work, Cleanup, Fault, BeginRun, PublishGraph,
     LoadHit, LoadMiss, Execute, PutIfAbsent, QueueComponentRows, FlushStateCache,
     FlushComponentCache, CompleteRun, StartOracle, OracleDisagrees, RecordComponentFailure,
     MarkIncomplete, FailBegin, FailComponent, FailStep, FailComponentFlush,
     FailSccFlush, Close, queues, vars
<1>5. IsFiniteSet(pending') /\ Cardinality(pending') < BatchSize
  <2>1. CASE QueueComponentRows
    <3>1. PICK e : pending' = {} \/ (pending' = pending \cup {e} /\ ~ (Cardinality(pending \cup {e}) >= BatchSize))
      BY ZenonT(60), <2>1, QueuedRows
    <3>2. IsFiniteSet(pending \cup {e}) /\ Cardinality(pending \cup {e}) \in Nat
      BY ZenonT(60), <1>1
    <3>3. CASE pending' = {}
      BY SMTT(60), <1>2, <3>3, OrderAssumption
    <3>4. CASE pending' = pending \cup {e} /\ ~ (Cardinality(pending \cup {e}) >= BatchSize)
      BY SMTT(60), <3>2, <3>4, OrderAssumption
    <3> QED
      BY Zenon, <3>1, <3>3, <3>4
  <2> QED
    BY SMTT(60), <1>2, <1>3, <2>1, OrderAssumption
<1>6. IsFiniteSet(pendingScc') /\ Cardinality(pendingScc') < StateBatchSize
  <2>1. CASE StoreState
    <3>1. PICK e : pendingScc' = {} \/ (pendingScc' = pendingScc \cup {e} /\ ~ (Cardinality(pendingScc \cup {e}) >= StateBatchSize))
      BY ZenonT(60), <2>1, StoredState
    <3>2. IsFiniteSet(pendingScc \cup {e}) /\ Cardinality(pendingScc \cup {e}) \in Nat
      BY ZenonT(60), <1>1
    <3>3. CASE pendingScc' = {}
      BY SMTT(60), <1>2, <3>3, OrderAssumption
    <3>4. CASE pendingScc' = pendingScc \cup {e} /\ ~ (Cardinality(pendingScc \cup {e}) >= StateBatchSize)
      BY SMTT(30), <3>2, <3>4, OrderAssumption
    <3> QED
      BY Zenon, <3>1, <3>3, <3>4
  <2> QED
    BY SMTT(60), <1>2, <1>4, <2>1, OrderAssumption
<1> QED
  BY Zenon, <1>5, <1>6

-----------------------------------------------------------------------------
(* The theorems.                                                           *)

\* The empty stores satisfy the inductive invariant.
LEMMA InitIInv == Init => IInv
<1>. SUFFICES ASSUME Init PROVE IInv
  BY Zenon
<1>. USE DEF Init
<1>1. ControlOK
  <2>1. N \in Nat /\ done \in Seq(Results) /\ Len(done) = 0
    BY SMTT(60), OrderAssumption
  <2> QED
    BY SMTT(60), <2>1 DEF ControlOK, Opening, Loop, Finish
<1>2. ComputedOK /\ StoreOK /\ PendingOK /\ PersistOK
  BY DEF ComputedOK, StoreOK, PendingOK, PersistOK, Storing, Loop
<1>3. RowsOK
  <2>1. NoState \in StateRow /\ NoState.status # "succeeded"
    BY DEF NoState, StateRow
  <2> QED
    BY ZenonT(60), <2>1 DEF RowsOK, StateRows, SucceededRowsLoad
<1>4. StatusOK /\ PublishedOK
  BY ZenonT(60) DEF StatusOK, PublishedOK, CompletedRunReloadable, CompletedRunNeverExecutes,
     PublishedIsReference
<1>5. ConvergenceOK
  <2>1. {} \in Hashes
    BY ZenonT(60) DEF Hashes
  <2> QED
    BY ZenonT(60), <2>1 DEF ConvergenceOK, SccRows, Contexts, Storing, Loop
<1>6. ScheduleOK
  BY ZenonT(60) DEF ScheduleOK, RepeatSchedulesNothing
<1>7. QueuesOK
  <2>1. IsFiniteSet({}) /\ Cardinality({}) = 0
    BY Zenon, FS_EmptySet
  <2>2. 0 < BatchSize /\ 0 < StateBatchSize
    BY SMTT(60), OrderAssumption
  <2> QED
    BY ZenonT(60), <2>1, <2>2 DEF QueuesOK, LossWindow
<1> QED
  BY ZenonT(60), <1>1, <1>2, <1>3, <1>4, <1>5, <1>6, <1>7 DEF IInv

\* Every step of the analyzer preserves the inductive invariant.
LEMMA NextIInv == IInv /\ [Next]_vars => IInv'
BY Zenon, ControlStep, ComputedStep, StoreStep, PendingStep, RowsStep, PersistStep, StatusStep,
   PublishedStep, ConvergenceStep, ScheduleStep, QueuesStep DEF IInv

\* IInv is an inductive invariant of the analyzer's runs: it holds whatever
\* interleaving of failures, crashes and reruns the stores have been through.
THEOREM Invariance == Spec => []IInv
BY InitIInv, NextIInv, PTL DEF Spec

\* Every variable keeps its type; in particular every stored object has the
\* descriptor of a component with all of its successors' facts.
THEOREM TypeCorrect == Spec => []TypeOK
<1>1. IInv => TypeOK
  <2>. SUFFICES ASSUME IInv PROVE TypeOK
    BY Zenon
  <2>1. \A o \in object : IsDescriptor(o.desc) /\ o.result.facts \in FactSet
    <3>. TAKE o \in object
    <3>1. PICK r \in Run, k \in Key : o = RefPair(r, k)
      BY SMTT(60) DEF IInv, StoreOK
    <3>2. o.desc = RefDescriptor(r, k) /\ o.result = RefResult(r, k)
      BY Zenon, <3>1 DEF RefPair, Pair
    <3>3. IsDescriptor(RefDescriptor(r, k))
      <4>1. Local[r][k] \in Locals
        BY Zenon, DataAssumption
      <4>2. [t \in Succ[k] |-> Ref[r][t]] \in [Succ[k] -> FactSet]
        BY Zenon, RefFacts, OrderAssumption
      <4> QED
        BY ZenonT(60), <4>1, <4>2 DEF IsDescriptor, RefDescriptor, Descriptor
    <3> QED
      BY ZenonT(60), <3>2, <3>3, RefFacts
  <2>2. Len(done) \in 0..N
    BY SMTT(60), OrderAssumption DEF IInv, ControlOK
  <2>3. stateRow \in [Run -> [Key -> [status : {"none", "failed", "succeeded"},
                        object : SUBSET {RefDescriptor(r, k) : r \in Run, k \in Key}]]]
    BY SMTT(60) DEF IInv, RowsOK, StateRows, StateRow
  <2>4. sccRow \in [{Context[r] : r \in Run} -> [Key -> SUBSET FactSet]]
    BY Zenon DEF IInv, ConvergenceOK, SccRows, Contexts, Hashes
  <2>5. /\ runRow \in [Run -> {"absent", "in_progress", "complete", "incomplete"}]
        /\ primary \in Production
        /\ run \in {primary} \cup Oracle[primary]
    BY ZenonT(60) DEF IInv, StatusOK, ControlOK
  <2>6. topology \subseteq {Context[r] : r \in Run} /\ scheduled \subseteq Key
    BY ZenonT(60) DEF IInv, ScheduleOK, Contexts
  <2> QED
    BY SMTT(30), <2>1, <2>2, <2>3, <2>4, <2>5, <2>6 DEF TypeOK
<1> QED
  BY <1>1, Invariance, PTL

\* The object store and the database agree: a committed cache row always names
\* an object the store holds.
THEOREM CacheRowsAreBacked == Spec => []CacheRowsBacked
<1>1. IInv => CacheRowsBacked
  BY SMTT(60) DEF IInv, StoreOK, CacheRowsBacked
<1> QED
  BY <1>1, Invariance, PTL

\* What is published for a run is what the run computes from scratch, and every
\* configured oracle agreed with it.
THEOREM PublicationCorrect == Spec => []PublishedIsReference
<1>1. IInv => PublishedIsReference
  BY Zenon DEF IInv, PublishedOK
<1> QED
  BY <1>1, Invariance, PTL

\* A complete run loads back whole: every component it reports is in the store.
THEOREM CompleteRunsReload == Spec => []CompletedRunReloadable
<1>1. IInv => CompletedRunReloadable
  BY Zenon DEF IInv, StatusOK
<1> QED
  BY <1>1, Invariance, PTL

\* No engine runs while the run's row says it is complete.
THEOREM CompleteRunsExecuteNothing == Spec => []CompletedRunNeverExecutes
<1>1. IInv => CompletedRunNeverExecutes
  BY Zenon DEF IInv, StatusOK
<1> QED
  BY <1>1, Invariance, PTL

\* A component row that claims success names a result that loads.
THEOREM SuccessLoads == Spec => []SucceededRowsLoad
<1>1. IInv => SucceededRowsLoad
  BY Zenon DEF IInv, RowsOK
<1> QED
  BY <1>1, Invariance, PTL

\* A repeated complete run schedules no predecessor.
THEOREM RepeatIsQuiet == Spec => []RepeatSchedulesNothing
<1>1. IInv => RepeatSchedulesNothing
  BY Zenon DEF IInv, ScheduleOK
<1> QED
  BY <1>1, Invariance, PTL

\* A crash costs less than one batch of each queue.
THEOREM LossBounded == Spec => []LossWindow
<1>1. IInv => LossWindow
  BY Zenon DEF IInv, QueuesOK
<1> QED
  BY <1>1, Invariance, PTL

\* A run becomes complete only with all of its rows of both kinds committed.
THEOREM CompletionPersists == Spec => CompletionIsPersisted
<1>1. IInv /\ [Next]_vars =>
        [\A r \in Run : runRow[r] # "complete" /\ runRow'[r] = "complete" =>
           \A k \in Key : /\ stateRow[r][k] = SucceededState(RefDescriptor(r, k))
                          /\ sccRow[Context[r]][k] = {Ref[r][k]}]_vars
  <2>. SUFFICES ASSUME IInv, [Next]_vars, NEW r \in Run,
                       runRow[r] # "complete", runRow'[r] = "complete", NEW k \in Key
                PROVE  /\ stateRow[r][k] = SucceededState(RefDescriptor(r, k))
                       /\ sccRow[Context[r]][k] = {Ref[r][k]}
    BY Zenon
  <2>1. r = run /\ pc = "complete"
    BY Zenon, CompleteFrame DEF IInv, CompleteRun
  <2>2. Committed(run, k) /\ sccRow[Context[run]][k] = {Ref[run][k]}
    BY ZenonT(60), <2>1, AllCommitted, AllConverged DEF IInv
  <2> QED
    BY Zenon, <2>1, <2>2 DEF Committed
<1> QED
  BY <1>1, Invariance, PTL DEF Spec, CompletionIsPersisted

-----------------------------------------------------------------------------
(* Refinement of the ledger.                                               *)

Loadable == {c.desc : c \in cacheRow}
Published == {r \in Run : factBatch[r] # {}}

\* A commit of queued rows persists results of the current run.
LEMMA CommitPersists ==
  ASSUME IInv, NEW rows, \A p \in rows : IsQueued(p), CommitComponentRows(rows),
         runRow[run] # "absent", UNCHANGED <<runRow, factBatch>>
  PROVE  Ledger!Persist(run)
<1>. DEFINE D == {p.desc : p \in rows}
<1>1. D \subseteq {RefDescriptor(run, k) : k \in Key}
  BY ZenonT(60) DEF IsQueued
<1>2. Loadable' = Loadable \cup D
  <2>. DEFINE New == {Pair(p.desc, p.result) : p \in {q \in rows : ~ HasRow(q.desc)}}
  <2>1. cacheRow' = cacheRow \cup New
    BY ZenonT(60) DEF CommitComponentRows
  <2>2. \A p : Pair(p.desc, p.result).desc = p.desc
    BY Zenon DEF Pair
  <2>3. ASSUME NEW c \in New PROVE c.desc \in D
    BY Zenon, <2>2
  <2>4. ASSUME NEW p \in rows PROVE \E c \in cacheRow \cup New : c.desc = p.desc
    <3>1. CASE HasRow(p.desc)
      BY ZenonT(60), <3>1 DEF HasRow
    <3>2. CASE ~ HasRow(p.desc)
      <4>1. Pair(p.desc, p.result) \in New
        BY Zenon, <3>2
      <4> QED
        BY ZenonT(60), <2>2, <4>1
    <3> QED
      BY ZenonT(60), <3>1, <3>2
  <2>5. Loadable' = {c.desc : c \in cacheRow \cup New}
    BY ZenonT(60), <2>1 DEF Loadable
  <2>6. \A d \in Loadable' : d \in Loadable \cup D
    BY ZenonT(60), <2>3, <2>5 DEF Loadable
  <2>7. \A d \in D : d \in Loadable'
    BY ZenonT(60), <2>4, <2>5
  <2>8. \A d \in Loadable : d \in Loadable'
    BY ZenonT(60), <2>5 DEF Loadable
  <2>. HIDE DEF D
  <2> QED
    BY ZenonT(60), <2>6, <2>7, <2>8
<1>3. run \in Run
  BY Zenon, RunIsRun DEF IInv
<1> QED
  BY ZenonT(60), <1>1, <1>2, <1>3 DEF Ledger!Persist, Loadable

\* Marking a run is giving it up, or nothing when the update is lost.
LEMMA MarkGivesUp ==
  ASSUME NEW r \in Run, runRow[r] # "absent",
         runRow' \in {runRow, [runRow EXCEPT ![r] = "incomplete"]},
         UNCHANGED <<cacheRow, factBatch>>
  PROVE  Ledger!GiveUp(r) \/ UNCHANGED Ledger!vars
BY Zenon DEF Ledger!GiveUp, Ledger!vars

\* Every step of the analyzer is a step of the ledger or leaves it alone.
LEMMA LedgerStep ==
  ASSUME IInv, [Next]_vars
  PROVE  [Ledger!Next]_(Ledger!vars)
<1>. USE DEF durable
<1>1. run \in Run /\ primary \in Run
  BY Zenon, RunIsRun DEF IInv
<1>2. CASE BeginRun
  <2>1. CASE runRow[run] = "absent"
    BY ZenonT(60), <1>1, <1>2, <2>1 DEF BeginRun, Ledger!Next, Ledger!Begin
  <2>2. CASE runRow[run] # "absent"
    BY ZenonT(60), <1>2, <2>2 DEF BeginRun, Ledger!vars, IInv, StatusOK
  <2> QED
    BY Zenon, <2>1, <2>2
<1>3. CASE QueueComponentRows
  <2>1. runRow[run] # "absent" /\ UNCHANGED <<runRow, factBatch>>
    BY ZenonT(60), <1>3 DEF QueueComponentRows, IInv, StatusOK
  <2>2. \/ UNCHANGED cacheRow
        \/ \E rows : (\A p \in rows : IsQueued(p)) /\ CommitComponentRows(rows)
    BY ZenonT(60), <1>3, QueuedRows DEF IInv
  <2>3. CASE UNCHANGED cacheRow
    BY Zenon, <2>1, <2>3 DEF Ledger!vars
  <2>4. CASE \E rows : (\A p \in rows : IsQueued(p)) /\ CommitComponentRows(rows)
    <3>1. Ledger!Persist(run)
      BY Zenon, <2>1, <2>4, CommitPersists
    <3> QED
      BY ZenonT(60), <1>1, <3>1 DEF Ledger!Next, Ledger!Persist
  <2> QED
    BY Zenon, <2>2, <2>3, <2>4
<1>4. CASE FlushComponentCache
  <2>1. /\ runRow[run] # "absent" /\ UNCHANGED <<runRow, factBatch>>
        /\ CommitComponentRows(pending) /\ \A p \in pending : IsQueued(p)
    BY Zenon, <1>4 DEF FlushComponentCache, IInv, StatusOK, PendingOK
  <2>2. Ledger!Persist(run)
    BY Zenon, <2>1, CommitPersists
  <2> QED
    BY ZenonT(60), <1>1, <2>2 DEF Ledger!Next, Ledger!Persist
<1>5. CASE CompleteRun
  <2>1. \A k \in Key : RefPair(run, k) \in cacheRow
    BY Zenon, <1>5, AllCommitted DEF CompleteRun, IInv, Committed
  <2>2. {RefDescriptor(run, k) : k \in Key} \subseteq {c.desc : c \in cacheRow}
    <3>1. \A k \in Key : RefPair(run, k).desc = RefDescriptor(run, k)
      BY Zenon DEF RefPair, Pair
    <3> QED
      BY Zenon, <2>1, <3>1
  <2>3. runRow[run] # "absent"
    BY Zenon, <1>5 DEF CompleteRun, IInv, StatusOK
  <2> QED
    BY ZenonT(60), <1>1, <1>5, <2>2, <2>3 DEF CompleteRun, Ledger!Next, Ledger!Complete
<1>6. CASE MarkIncomplete \/ MarkOracle
  <2>1. runRow[run] # "absent"
    BY Zenon, <1>6 DEF MarkIncomplete, MarkOracle, IInv, StatusOK
  <2> QED
    BY Zenon, <1>1, <1>6, <2>1, MarkGivesUp DEF MarkIncomplete, MarkOracle, Mark, Ledger!Next
<1>7. CASE OracleDisagrees \/ OracleFailed
  <2>1. runRow[primary] # "absent"
    BY Zenon, <1>7 DEF OracleDisagrees, OracleFailed, IInv, StatusOK
  <2> QED
    BY Zenon, <1>1, <1>7, <2>1, MarkGivesUp DEF OracleDisagrees, OracleFailed, Mark, Ledger!Next
<1>8. CASE Publish
  <2>1. runRow[primary] = "complete" /\ DOMAIN factBatch = Run
    BY Zenon, <1>8 DEF Publish, IInv, StatusOK, PublishedOK
  <2>2. Published' = Published \cup {primary}
    BY Zenon, <1>1, <1>8, <2>1 DEF Publish, Published
  <2> QED
    BY ZenonT(60), <1>1, <1>8, <2>1, <2>2 DEF Publish, Ledger!Next, Ledger!Publish, Published
<1>9. CASE UNCHANGED <<runRow, cacheRow, factBatch>>
  BY Zenon, <1>9 DEF Ledger!vars
<1>10. \/ BeginRun \/ QueueComponentRows \/ FlushComponentCache \/ CompleteRun
       \/ MarkIncomplete \/ MarkOracle \/ OracleDisagrees \/ OracleFailed \/ Publish
       \/ UNCHANGED <<runRow, cacheRow, factBatch>>
  BY ZenonT(60) DEF Next, Start, StartRun, Work, Cleanup, Fault, PublishGraph, LoadHit, LoadMiss,
     Execute, PutIfAbsent, StoreState, FlushStateCache, StartOracle, RecordComponentFailure,
     ReturnError, FailBegin, FailComponent, FailStep, FailComponentFlush, FailSccFlush,
     FailAfterRun, Crash, vars
<1> QED
  BY Zenon, <1>2, <1>3, <1>4, <1>5, <1>6, <1>7, <1>8, <1>9, <1>10

\* The batched, crash-prone repository implements the ledger its callers see.
THEOREM RefinesLedger == Spec => ImplementsLedger
<1>1. Init => Ledger!Init
  BY ZenonT(60) DEF Init, Ledger!Init
<1> QED
  BY <1>1, LedgerStep, Invariance, PTL DEF Spec, ImplementsLedger, Ledger!Spec
=============================================================================
