---------------------------- MODULE MCWpaRunRetry ----------------------------
(***************************************************************************)
(* WpaRun under retries: the analyzer is invoked again for every revision, *)
(* and after a bounded number of faults no further step fails.             *)
(***************************************************************************)
EXTENDS MCWpaRun

CONSTANT MaxFaults  \* faults before the environment is healthy for good

VARIABLE faults

RetryInit == Init /\ faults = 0

RetryNext ==
  \/ (Start \/ Work \/ Cleanup) /\ UNCHANGED faults
  \/ faults < MaxFaults /\ Fault /\ faults' = faults + 1

\* A started invocation keeps running, and no revision is passed over for ever.
RetryFairness ==
  /\ WF_<<vars, faults>>((Work \/ Cleanup) /\ UNCHANGED faults)
  /\ \A r \in Production : SF_<<vars, faults>>(StartRun(r) /\ UNCHANGED faults)

RetrySpec == RetryInit /\ [][RetryNext]_<<vars, faults>> /\ RetryFairness

\* No failure or crash, wherever it hits, leaves rows behind that a retry cannot
\* get past: the run is completed and published in the end, every diagnostic row
\* is replaced, and nothing undoes that ("the loss costs recomputation on the
\* next run and nothing else").
RetriesRecover ==
  \A r \in Production :
    <>[](/\ runRow[r] = "complete"
         /\ factBatch[r] # {}
         /\ \A k \in Key : stateRow[r][k].status = "succeeded")
=============================================================================
