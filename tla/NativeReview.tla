---------------------------- MODULE NativeReview ----------------------------
(* The native side of a review from end to end: a snapshot is captured       *)
(* beside a writer, indexed by the compiler worker, and one verification     *)
(* request is replayed against the pinned snapshot and index                 *)
(* (src/review/ReviewBackend.cpp, capture and verify).  A published snapshot *)
(* is immutable, so the live tree is dropped when the index is built.        *)
EXTENDS SnapshotCapture, AsanReplay

CONSTANT Calls     \* copy callsites as the compiler may find them

\* The extent of a constant array is unsigned.
ASSUME CallsAssumption == \A c \in Calls : c.size \in Nat

VARIABLES session, \* {} or {[index, ast, commands, clean]}: the pinned session
          covered  \* history: the replayed index covered every command

vars == <<capture, session, covered, replay, process>>

\* What the compiler may do with a captured unit.
Fates == {"clean", "error", "truncated"}

\* BuildStructuralIndex over the published snapshot; without an index (the worker
\* died or ran over its limits) the capture is answered with an error.
Pinned(c, fate, ast) ==
  LET cmds == CompilerCommands(c) IN
  [index |-> BuildIndex(cmds, Files(c), ScopeFrontier(c), fate, ast), ast |-> ast,
   commands |-> cmds, clean |-> {p \in cmds : fate[p] = "clean"}]

Index ==
  /\ cap.at = "published" /\ session = {}
  /\ \/ cap' = [NoCapture EXCEPT !.at = "refused"] /\ UNCHANGED session
     \/ \E fate \in [CompilerCommands(cap) -> Fates],
           ast \in [UNION {SitesIn[p] : p \in CompilerCommands(cap)} -> Calls] :
          /\ session' = {Pinned(cap, fate, ast)}
          /\ cap' = [NoCapture EXCEPT !.at = "pinned"]
  /\ tree' = Initial /\ between' = Initial /\ stamps' = MaxWrites /\ index' = 0
  /\ UNCHANGED <<covered, replay, process>>

\* The verify operation; what happens to the session afterwards plays no part in
\* the replay, so it is dropped.
VerifyCall ==
  /\ \E s \in session, q \in Requests :
       /\ Verify(s.index, q)
       /\ covered' = (s.commands \subseteq s.clean)
  /\ session' = {}
  /\ UNCHANGED capture

Init ==
  /\ CaptureInit /\ session = {} /\ covered = FALSE
  /\ replay = NoReplay /\ proc = NoProc /\ kids = NoKids

Capturing == cap.at \notin {"refused", "pinned"}

Next ==
  \/ Capturing /\ CaptureNext /\ UNCHANGED <<session, covered, replay, process>>
  \/ Index \/ VerifyCall
  \/ (ReplayStep \/ ReplayEnv) /\ UNCHANGED <<capture, session, covered>>
  \/ ProcessNext /\ UNCHANGED <<capture, session, covered, replay>>

\* The supervisor and the replay run on, and time passes.
Spec ==
  /\ Init /\ [][Next]_vars
  /\ WF_vars(ReplayStep /\ UNCHANGED <<capture, session, covered>>)
  /\ WF_vars(Supervise /\ UNCHANGED <<capture, session, covered, replay>>)
  /\ WF_vars(Tick /\ UNCHANGED <<capture, session, covered, replay>>)

\* Coverage that is supported and complete means that the compiler parsed every
\* selected command without an error, and that there was one.
IndexHonest ==
  \A s \in session :
    s.index.coverage.supported /\ s.index.coverage.complete =>
      s.commands # {} /\ s.commands \subseteq s.clean

\* A guard recorded as dominating bounds the copy: whatever the function does, the
\* copy is reached only with lengths within the extent.
DominatingGuardBounds ==
  \A s \in session : \A x \in DOMAIN s.index.copies :
    LET r == s.index.copies[x] IN
    (\E g \in r.guards : g.dominates) =>
      \A n \in LengthsAt(s.ast[x], 0 .. (r.extent + 2)) : n <= r.extent

\* Every composed result passes ValidateVerificationResult under a policy that
\* admits the replay producer and its artifacts.
ResultValidates ==
  \A r \in replay.result : "body" \in DOMAIN r =>
    \A q \in replay.q : ValidResult(q, r)

\* A refutation rests on the whole chain: fully covered index, complete evidence
\* with the extent the compiler established, denied canaries, and the image that
\* was linked, not one the target could replace.
RefutedIsWarranted ==
  \A r \in replay.result : r.status = "REFUTED" =>
    /\ r.executable = "linked"
    /\ {Programs[i] : i \in 1..Len(Programs)} \ {"run"} \subseteq replay.passed
    /\ \A e \in replay.evidence : e.supported /\ e.complete
    /\ \A q \in replay.q : q.requested > replay.extent /\ replay.extent > 0
    /\ covered

\* A replay that was started returns, whatever its programs do: neither a program
\* that never exits nor a descendant that holds a pipe open can keep it.
ReplayReturns == ~Idle ~> Idle
=============================================================================
