----------------------------- MODULE AsanReplay -----------------------------
(* RunAsanReplay (src/review/AsanReplay.cpp) and the validation of its       *)
(* result (src/review/Verification.cpp).  Every program the replay starts is *)
(* a BoundedProcess.  How a program ends is abstracted to what the replay    *)
(* tells apart: "ok" (status 0), "leak" (status 0, the canary got through),  *)
(* "reject" (status 2), "report" (sanitizer abort naming the callsite line), *)
(* "stray" (sanitizer abort elsewhere), "forged" (sanitizer text without the *)
(* abort), "fail" (anything else).                                           *)
EXTENDS BoundedProcess, StructuralIndex, Sequences

CONSTANTS Requests,      \* [site, capacity, requested, readable, examined]
          PayloadBytes,  \* size of the registered payload
          Total,         \* total budget in ticks
          InspectWall,   \* wall limit of one inspection program
          Exits,         \* ways a program may end
          Forking        \* bound: programs whose descendants are explored

\* Both sizes of a request are unsigned.
ASSUME RequestsAssumption == \A q \in Requests : q.capacity \in Nat /\ q.requested \in Nat

VARIABLE replay

\* Programs in the order they are started: compiler inspection, the isolation
\* probe and its canaries, the build, the instrumented target.
Inspections == <<"version", "target", "resource", "runtime">>
Canaries == <<"write", "read", "list", "net">>
Builds == <<"tu", "harness", "link">>
Programs == Inspections \o <<"probe">> \o Canaries \o Builds \o <<"run">>
Among(seq, x) == \E i \in 1..Len(seq) : seq[i] = x

NoReplay == [at |-> 0, q |-> {}, evidence |-> {}, extent |-> 0, left |-> Total, work |-> "none",
             image |-> "none", passed |-> {}, result |-> {}]
Idle == replay.at = 0
Program == Programs[replay.at]

\* A status instead of a result; the disposable directory is gone either way.
Refuse(status) == replay' = [replay EXCEPT !.at = 0, !.work = "none", !.image = "none",
                                           !.result = {[status |-> status]}]

(***************************************************************************)
(* Admission                                                               *)
(***************************************************************************)

\* ValidateVerificationRequest, and the operands that must agree with the local
\* evidence of the callsite: "ok" or the status returned.
Admission(i, q) ==
  IF q.requested > q.readable \/ q.site \notin DOMAIN i.copies THEN "invalid"
  ELSE LET e == InvestigateLocal(i, q.site, {"EXTENT", "OPERANDS"}, q.examined) IN
  IF q.examined = 0 \/ e.seen # {"EXTENT", "OPERANDS"} \/ ~e.supported \/ ~e.complete
  THEN "unsupported"
  ELSE IF q.capacity # i.copies[q.site].extent THEN "invalid"
  ELSE IF PayloadBytes < q.readable THEN "unsupported"
  ELSE "ok"

Verify(i, q) ==
  /\ Idle /\ replay.result = {}
  /\ LET s == Admission(i, q) IN
     IF s # "ok" THEN replay' = [NoReplay EXCEPT !.q = {q}, !.result = {[status |-> s]}]
     ELSE replay' = [NoReplay EXCEPT
                       !.q = {q}, !.at = 1, !.extent = i.copies[q.site].extent,
                       !.evidence = {InvestigateLocal(i, q.site, {"EXTENT", "OPERANDS"}, q.examined)}]
  /\ UNCHANGED process

(***************************************************************************)
(* The programs                                                            *)
(***************************************************************************)

\* step_limits: a program gets what is left of the total budget.
Wall == IF Among(Inspections, Program) /\ InspectWall < replay.left
        THEN InspectWall ELSE replay.left

\* The linked image is preserved, read-only, before it is executed.
Preserve(r) == IF Program = "run" THEN [r EXCEPT !.image = r.work] ELSE r

Launch ==
  /\ ~Idle /\ proc.at = "none"
  /\ IF replay.left = 0 THEN Refuse("deadline") /\ UNCHANGED process
     ELSE /\ Spawn(Wall)
          /\ replay' = Preserve(replay)

\* Time passes between programs too.
Elapse ==
  /\ ~Idle /\ proc.at = "none" /\ replay.left > 0
  /\ replay' = [replay EXCEPT !.left = @ - 1]
  /\ UNCHANGED process

\* The target may write its work tree while it runs.
Overwrite ==
  /\ ~Idle /\ Program = "run" /\ Supervised /\ Lives(0) /\ replay.work # "other"
  /\ replay' = [replay EXCEPT !.work = "other"]
  /\ UNCHANGED process

(***************************************************************************)
(* The result                                                              *)
(***************************************************************************)

Request == CHOOSE q \in replay.q : TRUE

\* Mutant: the size of the write alone decides.
DecidesBySize(q, size) == size = q.requested

\* A finding at the callsite decides only for a write of the requested size beyond
\* the established capacity.
Decides(q, size) == size = q.requested /\ q.requested > q.capacity

\* status, operational outcome, coverage and counterexample of a completed replay.
Outcome(status, op, decided, whole, refs) ==
  [status |-> status, outcome |-> op, supported |-> decided, complete |-> whole,
   frontier |-> refs, witness |-> IF decided THEN {"witness"} ELSE {}]

Classify(built, exit, size) ==
  IF ~built THEN Outcome("ERROR", "ERROR", FALSE, FALSE, {})
  ELSE IF proc.timed THEN Outcome("UNKNOWN", "TIMEOUT", FALSE, FALSE, {"replay-timeout"})
  ELSE IF exit = "report" /\ Decides(Request, size)
  THEN Outcome("REFUTED", "COMPLETED", TRUE, TRUE, {})
  ELSE IF exit \in {"ok", "leak", "reject"}
  THEN Outcome("UNKNOWN", "COMPLETED", FALSE, TRUE, {})
  ELSE Outcome("ERROR", "COMPLETED", FALSE, TRUE, {})

\* Artifacts: evidence and input always, the rest with an executable.
Dependencies(built, c) ==
  {"evidence", "input"} \cup c.witness
    \cup (IF built THEN {"executable", "compiler", "runtime"} ELSE {})

\* Mutant: the executable is taken from the work tree after the run.
ExecutedInWork == replay.work

\* The executable a result names is the preserved image.
Executed == replay.image

Compose(built, exit, size) ==
  LET c == Classify(built, exit, size) IN
  replay' = [replay EXCEPT
    !.at = 0, !.left = @ - proc.t, !.work = "none", !.image = "none",
    !.passed = IF built THEN @ \cup {"run"} ELSE @,
    !.result = {[status |-> c.status, body |-> c, deps |-> Dependencies(built, c),
                 executable |-> IF built THEN Executed ELSE "none"]}]

\* A status only counts when no deadline or limit was hit (otherwise -1).
Statuses == IF proc.timed \/ proc.limit THEN {"none"} ELSE Exits

\* What the replay makes of a program that returned.  A canary must run to
\* status 0 and be denied; a failed build step ends the build, not the replay.
Passes(exit) ==
  IF Among(Canaries, Program) THEN exit = "ok"
  ELSE IF Program = "resource" THEN TRUE
  ELSE exit \in {"ok", "leak"}
Deadline == proc.timed /\ (Among(Inspections, Program) \/ Among(Builds, Program))

Collect ==
  /\ ~Idle /\ proc.at = "returned"
  /\ proc' = NoProc /\ kids' = NoKids
  /\ \E exit \in Statuses :
       IF Deadline THEN Refuse("deadline")
       ELSE IF Program = "run"
       THEN \E size \in {q.requested : q \in Requests} : Compose(TRUE, exit, size)
       ELSE IF Passes(exit)
       THEN replay' = [replay EXCEPT !.at = @ + 1, !.left = @ - proc.t,
                         !.passed = @ \cup {Program},
                         !.work = IF Program = "link" THEN "linked" ELSE @]
       ELSE IF Among(Builds, Program) THEN Compose(FALSE, exit, 0)
       ELSE Refuse("unsupported")

ProcessNext == Supervise \/ Leader \/ (~Idle /\ Program \in Forking /\ Child)
ReplayStep == Launch \/ Collect
ReplayEnv == Elapse \/ Overwrite

(***************************************************************************)
(* The validation of a result (ValidateVerificationResult)                 *)
(***************************************************************************)

ValidResult(q, r) ==
  /\ "evidence" \in r.deps /\ r.body.witness \subseteq r.deps
  /\ r.status \in {"PROVED", "REFUTED"} =>
       /\ r.body.outcome = "COMPLETED" /\ r.body.supported /\ r.body.complete
       /\ r.body.frontier = {}
       /\ r.body.witness # {} /\ "evidence" \notin r.body.witness
       /\ (r.status = "PROVED") <=> (q.requested <= q.capacity)
=============================================================================
