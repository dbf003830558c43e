----------------------------- MODULE RunLedger ------------------------------
(***************************************************************************)
(* What the run repository promises its callers, with the batches, the     *)
(* queues and the two stores left out: a ledger of run statuses, a cache   *)
(* of results that only grows, and publication of complete runs only.      *)
(***************************************************************************)
CONSTANTS
  Run,      \* run identifiers
  Need      \* Need[r]: the results run r consists of

VARIABLES
  status,   \* the status row of each run
  loadable, \* the results a later run can load
  published \* the runs whose fact batch is visible

vars == <<status, loadable, published>>

Init ==
  /\ status = [r \in Run |-> "absent"]
  /\ loadable = {}
  /\ published = {}

Begin(r) ==
  /\ status[r] = "absent"
  /\ status' = [status EXCEPT ![r] = "in_progress"]
  /\ UNCHANGED <<loadable, published>>

\* A batch of results of one run becomes loadable, all at once.
Persist(r) ==
  /\ status[r] # "absent"
  /\ \E D \in SUBSET Need[r] : loadable' = loadable \cup D
  /\ UNCHANGED <<status, published>>

\* A run completes only when all of it can be loaded.
Complete(r) ==
  /\ status[r] # "absent"
  /\ Need[r] \subseteq loadable
  /\ status' = [status EXCEPT ![r] = "complete"]
  /\ UNCHANGED <<loadable, published>>

GiveUp(r) ==
  /\ status[r] # "absent"
  /\ status' = [status EXCEPT ![r] = "incomplete"]
  /\ UNCHANGED <<loadable, published>>

Publish(r) ==
  /\ status[r] = "complete"
  /\ published' = published \cup {r}
  /\ UNCHANGED <<status, loadable>>

Next == \E r \in Run : Begin(r) \/ Persist(r) \/ Complete(r) \/ GiveUp(r) \/ Publish(r)

Spec == Init /\ [][Next]_vars
=============================================================================
