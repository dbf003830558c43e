-------------------------- MODULE ReviewController --------------------------
(* The review plugin (plugins/veritas-evidence-review/scripts): a host       *)
(* drives start_review, advance_review and recover_review; every call holds  *)
(* the attempt lock, journals its state in the audit store, and reaches the  *)
(* native session through the bounded transport.  The process may die        *)
(* between any two steps; only the audit store survives.  The store is its   *)
(* latest journalled state (wal), the place of the checkpoint (ckpt) and the *)
(* number of events; wall time, bytes and work are one counter, wall.        *)
EXTENDS ReviewBackend, Sequences

CONSTANTS Request,        \* host request identifiers
          Response,       \* model responses the host may submit
          FirstCtx,       \* context_refs[0]
          Kind,           \* Kind[c]: "SOURCE" or another kind of context
          MaxTurns, MaxCandidates, InputTokens, ContextBytes,  \* ReviewPolicy
          PromptSizes,    \* sizes the next prompt may have
          WallBudget,     \* policy.backend_wall_ms
          CallWall,       \* what one call reserves
          Overshoot,      \* how far a call may run past its deadline
          AuditEvents,    \* events the audit allowance holds, terminal slot aside
          MaxCrashes

\* Costs are unsigned, and a decoded response carries a list of requests.
ASSUME CostsAssumption ==
  CallWall \in Nat /\ Overshoot \in Nat /\ WallBudget \in Nat /\ AuditEvents \in Nat
ASSUME ResponseAssumption ==
  \A r \in Response : r.requests \in Seq({r.requests[i] : i \in DOMAIN r.requests})

VARIABLES wal, ckpt, events,      \* audit directory: survives a crash
          mem, pc, todo, call,    \* the call in progress
          last,                   \* the answer of the last dispatch
          cl, srv,                \* transport, native session
          crashes,
          spent,                  \* history: backend work really done
          taken,                  \* history: how often a request was acted on
          answers,                \* history: turns returned for a request
          tokens                  \* capabilities the host holds

durable == <<wal, ckpt, events>>
control == <<mem, pc, todo, call, last>>
session == <<cl, srv>>
history == <<crashes, spent, taken, answers, tokens>>
vars == <<durable, control, session, history>>

Statuses == {"NONE", "CREATED", "SNAPSHOT_PINNED", "DISCOVERING",
             "INVESTIGATING", "REPORT_READY", "CLOSED", "ABORTED"}
Open == {"DISCOVERING", "INVESTIGATING"}
NoData == [status |-> "NONE", binding |-> 0, contexts |-> {}, candidates |-> {},
           evidence |-> {}, assessments |-> {}, wall |-> 0, turns |-> 0,
           tokens |-> 0, prompt |-> 0, pendingOp |-> "none", pendingTurn |-> {},
           nonce |-> 0, grants |-> {}, replays |-> [q \in Request |-> {}],
           rejected |-> [q \in Request |-> {}]]
NoCall == [kind |-> "none", req |-> {}, resp |-> {}, cap |-> 0, closing |-> FALSE]
NoAnswer == [out |-> "refused", ans |-> Refused]

\* Backend.__init__: nothing is spawned, only handshake is admitted.
NewTransport == [closed |-> FALSE, caps |-> {"handshake"}, binding |-> 0]
Closed == [NewTransport EXCEPT !.closed = TRUE, !.caps = {}]

Init ==
  /\ wal = NoData /\ ckpt = "none" /\ events = 0
  /\ mem = NoData /\ pc = "idle" /\ todo = <<>> /\ call = NoCall
  /\ last = NoAnswer
  /\ cl = NewTransport /\ srv = NewSession
  /\ crashes = 0 /\ spent = 0 /\ tokens = {}
  /\ taken = [q \in Request |-> 0] /\ answers = [q \in Request |-> {}]

(***************************************************************************)
(* The audit store                                                         *)
(***************************************************************************)

\* The process ends; its transport and the native child end with it.
Idle(c, s) ==
  /\ mem' = NoData /\ pc' = "idle" /\ todo' = <<>> /\ call' = NoCall
  /\ last' = NoAnswer /\ cl' = c /\ srv' = s
Die ==
  /\ Idle(NewTransport, NewSession)
  /\ crashes < MaxCrashes /\ crashes' = crashes + 1
  /\ UNCHANGED <<answers, tokens>>

\* AuditStore.load: the chain is read only together with a checkpoint.
Loadable == wal.status # "NONE" /\ ckpt # "none"

\* Mutant: an abort gives the reservation of the interrupted call back.
AbortedRefunded(d, w) ==
  [d EXCEPT !.status = "ABORTED", !.grants = {},
            !.wall = IF d.pendingOp = "none" THEN @ ELSE @ - CallWall]

\* _abort_state: terminal, with the larger of the durable and the known costs.
Aborted(d, w) ==
  [d EXCEPT !.status = "ABORTED", !.grants = {}, !.wall = IF w > @ THEN w ELSE @]

\* The event is synced before the checkpoint is replaced; the process may die
\* in between, and the older checkpoint, if any, stays.
Journal(d, n, survives) ==
  /\ wal' = d /\ events' = n
  /\ \/ ckpt' = "current" /\ survives /\ UNCHANGED crashes
     \/ ckpt' = (IF ckpt = "none" THEN "none" ELSE "behind") /\ Die

\* AuditStore.save: an event past the allowance aborts in the terminal slot, if
\* there is a checkpoint, and raises.
Save(d, survives, raises) ==
  \/ events < AuditEvents /\ Journal(d, events + 1, survives)
  \/ events >= AuditEvents /\ IF Loadable /\ wal.status # "ABORTED"
                              THEN Journal(Aborted(wal, d.wall), events, raises)
                              ELSE UNCHANGED <<durable, crashes>> /\ raises

(***************************************************************************)
(* Turns                                                                   *)
(***************************************************************************)

\* _grants: contexts not yet seen, within the context allowance, and one
\* local-evidence request per candidate whose callsite has no evidence.
Grants(d) ==
  IF d.status \notin Open THEN {}
  ELSE {[op |-> "context", arg |-> c] :
          c \in IF Cardinality(d.contexts) < ContextBytes
                THEN Ctx \ d.contexts ELSE {}}
       \cup {[op |-> "local-evidence", arg |-> s] : s \in d.candidates \ d.evidence}

\* _payload: what a turn shows the model.
Payload(d) == [status |-> d.status, contexts |-> d.contexts,
               candidates |-> d.candidates, evidence |-> d.evidence,
               grants |-> d.grants]

\* _prepare: the next prompt must fit what is left of the input tokens.
Prepare(d, n) ==
  LET e == [d EXCEPT !.grants = Grants(d), !.prompt = n]
  IN IF d.status \in Open /\ d.tokens + n > InputTokens
     THEN [e EXCEPT !.status = "REPORT_READY", !.grants = {}]
     ELSE e

\* _turn: an open review comes with the capability of its nonce.
Turn(p, nonce) == [payload |-> p, token |-> IF p.status \in Open THEN nonce ELSE 0]

Hands(q, t) ==
  /\ answers' = [r \in Request |-> IF r \in q THEN answers[r] \cup {t} ELSE answers[r]]
  /\ tokens' = IF t.token = 0 THEN tokens ELSE tokens \cup {t.token}

\* admit_candidates: an anchor must lie in a recorded context; new candidates
\* stop at the limit, in candidate order.
Admissible(d, sites) == {s \in sites : CtxOf[s] \in d.contexts}
Admit(d, sites) ==
  LET new == Admissible(d, sites) \ d.candidates
      room == IF MaxCandidates > Cardinality(d.candidates)
              THEN MaxCandidates - Cardinality(d.candidates) ELSE 0
  IN {[d EXCEPT !.candidates = @ \cup a] :
        a \in {x \in SUBSET new :
                 Cardinality(x) = IF Cardinality(new) <= room
                                  THEN Cardinality(new) ELSE room}}

(***************************************************************************)
(* Steps of a call                                                         *)
(***************************************************************************)

Continue(p, t, d, k) ==
  /\ mem' = d /\ pc' = p /\ todo' = t /\ call' = k
  /\ UNCHANGED <<last, session, answers, tokens>>
Return(q, t, c, s) == Idle(c, s) /\ Hands(q, t)
Raised(c, s) == Idle(c, s) /\ UNCHANGED <<answers, tokens>>
Fails == Raised(Closed, NewSession)
NextPc(t) == IF t = <<>> THEN "finish" ELSE "reserve"
Op(op, ctx, site) == [Request0(op) EXCEPT !.ctx = ctx, !.site = site,
                                          !.limit = MaxCandidates]
Sources(cs) == {c \in cs : Kind[c] = "SOURCE"}

\* start_review, to the journalled "created" state.
StartReview ==
  /\ pc = "idle" /\ wal.status = "NONE"
  /\ LET d == [NoData EXCEPT !.status = "CREATED", !.nonce = 1]
     IN Save(d, Continue("reserve", <<Op("handshake", {}, {})>>, d,
                         [NoCall EXCEPT !.kind = "start"]),
             Raised(cl, srv))
  /\ UNCHANGED <<spent, taken>>

\* _call, to the journalled reservation.
Reserve ==
  /\ pc = "reserve"
  /\ IF mem.wall + CallWall > WallBudget
     THEN Continue("raise", todo, mem, call) /\ UNCHANGED <<durable, crashes>>
     ELSE LET d == [mem EXCEPT !.wall = @ + CallWall, !.pendingOp = Head(todo).op]
          IN Save(d, Continue("dispatch", todo, d, call), Fails)
  /\ UNCHANGED <<spent, taken>>

\* What the transport remembers of a successful answer.
Learn(c, op, a) ==
  CASE op = "handshake" -> [c EXCEPT !.caps = {"handshake", "capture"}]
    [] op = "capture" -> [c EXCEPT !.caps = Operations, !.binding = a.binding]
    [] op = "release" -> [c EXCEPT !.caps = {"handshake", "capture"}, !.binding = 0]
    [] OTHER -> c

\* Backend.call: what it refuses to send raises; a sent request is answered,
\* refused by the session, or lost, which kills the session's process group.
\* Work that is not reconciled is counted at its most.
Dispatch ==
  LET q == [Head(todo) EXCEPT !.binding = mem.binding]
      free == q.op \in {"handshake", "capture"}
      sent == ~cl.closed /\ q.op \in cl.caps /\ (free \/ q.binding = cl.binding)
  IN /\ pc = "dispatch" /\ pc' = "complete"
     /\ \/ /\ ~sent
           /\ last' = [out |-> "raise", ans |-> Refused]
           /\ UNCHANGED <<session, mem, spent>>
        \/ \E r \in Replies(srv, q), w \in 0 .. (CallWall + Overshoot) :
             /\ sent /\ r[1].ok
             /\ \E out \in {"ok", "raise"} : last' = [out |-> out, ans |-> r[1]]
             /\ cl' = Learn(cl, q.op, r[1]) /\ srv' = r[2]
             /\ mem' = [mem EXCEPT !.wall = (@ - CallWall) + w]
             /\ spent' = spent + w
        \/ \E r \in Replies(srv, q) :
             /\ sent /\ ~r[1].ok
             /\ last' = [out |-> "refused", ans |-> Refused]
             /\ srv' = r[2] /\ spent' = spent + CallWall
             /\ UNCHANGED <<cl, mem>>
        \/ /\ sent
           /\ last' = [out |-> "raise", ans |-> Refused]
           /\ cl' = Closed /\ srv' = NewSession
           /\ spent' = spent + CallWall + Overshoot
           /\ UNCHANGED mem
     /\ UNCHANGED <<durable, todo, call, crashes, taken, answers, tokens>>

\* What the caller does with an answer that it accepts.
Applied(d, q, a) ==
  LET rest == Tail(todo) IN
  CASE q.op = "handshake" ->
         Continue("reserve", <<Op("capture", {}, {})>>, d, call)
    [] q.op = "capture" ->
         Continue("pinned", <<>>,
                  [d EXCEPT !.binding = a.binding, !.status = "SNAPSHOT_PINNED"], call)
    [] q.op = "context" ->
         LET e == [d EXCEPT !.contexts = @ \cup a.ctx]
             seeds == IF call.kind = "start" THEN Sources(e.contexts)
                      ELSE Sources(a.ctx)
         IN IF Cardinality(e.contexts) > ContextBytes
            THEN Continue("raise", todo, d, call)
            ELSE IF call.kind = "start" \/ seeds # {}
                 THEN Continue("reserve", <<Op("seed-candidates", seeds, {})>> \o rest, e, call)
                 ELSE Continue(NextPc(rest), rest, e, call)
    [] q.op = "seed-candidates" ->
         \E e \in Admit(d, a.site) : Continue(NextPc(rest), rest, e, call)
    [] q.op = "local-evidence" ->
         Continue(NextPc(rest), rest, [d EXCEPT !.evidence = @ \cup a.site], call)
    [] q.op = "release" -> Continue(NextPc(rest), rest, d, call)

\* A refusal ends the start of a review; later it is only recorded.
Skipped(d, q) ==
  IF q.op \in {"handshake", "capture"} THEN Continue("raise", todo, d, call)
  ELSE IF q.op = "context" /\ call.kind = "start"
       THEN Continue("reserve", <<Op("seed-candidates", Sources(d.contexts), {})>>, d, call)
       ELSE Continue(NextPc(Tail(todo)), Tail(todo), d, call)

\* _call's finally clause, then the caller's use of the answer.
Complete ==
  /\ pc = "complete"
  /\ LET d == [mem EXCEPT !.pendingOp = "none"]
         q == Head(todo)
     IN Save(d, CASE last.out = "raise" \/ mem.wall > WallBudget ->
                       Continue("raise", todo, d, call)
                  [] last.out = "refused" /\ mem.wall <= WallBudget -> Skipped(d, q)
                  [] last.out = "ok" /\ mem.wall <= WallBudget -> Applied(d, q, last.ans),
             Fails)
  /\ UNCHANGED <<spent, taken>>

\* The snapshot is journalled before its first use.
Pinned ==
  /\ pc = "pinned"
  /\ Save(mem, Continue("reserve", <<Op("context", {FirstCtx}, {})>>, mem, call), Fails)
  /\ UNCHANGED <<spent, taken>>

\* start_review's last step: the first turn.
Discover ==
  /\ pc = "finish" /\ call.kind = "start"
  /\ \E n \in PromptSizes :
       LET d == Prepare([mem EXCEPT !.status = "DISCOVERING"], n)
       IN Save(d, Return({}, Turn(Payload(d), d.nonce), cl, srv), Fails)
  /\ UNCHANGED <<spent, taken>>

\* A finishing response is journalled as report-ready before the release.
ReportReady ==
  /\ pc = "finish" /\ call.kind = "advance" /\ call.resp.finish /\ ~call.closing
  /\ LET d == [mem EXCEPT !.status = "REPORT_READY"]
     IN Save(d, Continue("reserve", <<Op("release", {}, {})>>, d,
                         [call EXCEPT !.closing = TRUE]), Fails)
  /\ UNCHANGED <<spent, taken>>

\* The end of a turn: status, a fresh capability, grants, and the replay record.
Seal ==
  LET done == call.closing \/ mem.turns >= MaxTurns
      d == [mem EXCEPT !.status = IF call.closing THEN "CLOSED"
                                  ELSE IF done THEN "REPORT_READY" ELSE @,
                       !.nonce = @ + 1, !.pendingTurn = {}]
  IN /\ pc = "finish" /\ call.kind = "advance" /\ (call.resp.finish => call.closing)
     /\ \E n \in PromptSizes, q \in call.req :
          LET e == Prepare(d, n)
              f == [e EXCEPT !.replays[q] = {[resp |-> call.resp, cap |-> call.cap,
                                              payload |-> Payload(e), nonce |-> e.nonce]}]
          IN Save(f, Return(call.req, Turn(Payload(e), e.nonce),
                            IF done THEN Closed ELSE cl,
                            IF done THEN NewSession ELSE srv), Fails)
     /\ UNCHANGED <<spent, taken>>

\* The except clauses: abort from what is durable, close the backend.
Abort ==
  /\ pc = "raise"
  /\ IF wal.status = "ABORTED" THEN UNCHANGED <<durable, crashes>> /\ Fails
     ELSE Journal(Aborted(wal, 0), events, Fails)
  /\ UNCHANGED <<spent, taken>>

(***************************************************************************)
(* The host                                                                *)
(***************************************************************************)

\* The checks of advance_review on a response, after its usage is charged.
Valid(d, r) ==
  LET asked == {r.requests[i] : i \in DOMAIN r.requests}
      admitted == IF MaxCandidates > Cardinality(d.candidates)
                  THEN Admissible(d, r.proposals) ELSE {}
  IN /\ r.decodes
     /\ asked \subseteq d.grants
     /\ d.wall + CallWall * Len(r.requests) <= WallBudget
     /\ Cardinality({g \in asked : g.op = "context"}) <= 1
     /\ r.assessed \subseteq d.candidates \cup admitted
     /\ r.assessed # {} => d.contexts \cup d.evidence # {}

Dispatches(r) ==
  [i \in DOMAIN r.requests |->
     LET g == r.requests[i]
     IN IF g.op = "context" THEN Op("context", {g.arg}, {})
        ELSE Op("local-evidence", {}, {g.arg})]

\* Mutant: a retry is answered with the state of the day.
ReplayCurrent(q, r, k) ==
  /\ pc = "idle" /\ Loadable /\ k \in tokens
  /\ \E e \in wal.replays[q] :
       e.resp = r /\ e.cap = k /\ Hands({q}, Turn(Payload(wal), wal.nonce))
  /\ UNCHANGED <<durable, control, session, crashes, spent, taken>>

\* A request seen before is answered from its record.
Replay(q, r, k) ==
  /\ pc = "idle" /\ Loadable /\ k \in tokens
  /\ \E e \in wal.replays[q] :
       e.resp = r /\ e.cap = k /\ Hands({q}, Turn(e.payload, e.nonce))
  /\ UNCHANGED <<durable, control, session, crashes, spent, taken>>

\* Mutant: a rejected request is forgotten.
FreshAgain(q, r, k) ==
  /\ pc = "idle" /\ Loadable /\ k \in tokens
  /\ wal.replays[q] = {}
  /\ wal.status \in Open /\ wal.pendingTurn = {}
  /\ k = wal.nonce

\* Mutant: the capability alone admits a request, whatever the state.
FreshInAnyState(q, r, k) ==
  /\ pc = "idle" /\ Loadable /\ k \in tokens
  /\ wal.replays[q] = {} /\ wal.rejected[q] = {}
  /\ k = wal.nonce

\* A new request on the current capability.
Fresh(q, r, k) ==
  /\ pc = "idle" /\ Loadable /\ k \in tokens
  /\ wal.replays[q] = {} /\ wal.rejected[q] = {}
  /\ wal.status \in Open /\ wal.pendingTurn = {}
  /\ k = wal.nonce

Spent(r) == ~r.usage \/ wal.turns >= MaxTurns \/ wal.tokens + wal.prompt > InputTokens
Charged(d) == [d EXCEPT !.turns = @ + 1, !.tokens = @ + d.prompt]
Acts(q) == taken' = IF events < AuditEvents THEN [taken EXCEPT ![q] = @ + 1] ELSE taken

\* The model's usage leaves nothing for another turn.
BudgetStop(q, r, k) ==
  /\ Fresh(q, r, k) /\ Spent(r)
  /\ LET d == [wal EXCEPT !.status = "REPORT_READY", !.grants = {}]
     IN Save(d, Return({q}, Turn(Payload(d), d.nonce), Closed, NewSession), Raised(cl, srv))
  /\ Acts(q) /\ UNCHANGED spent

\* An invalid response is charged and recorded, once.
Reject(q, r, k) ==
  /\ Fresh(q, r, k) /\ ~Spent(r) /\ ~Valid(Charged(wal), r)
  /\ LET c == Charged(wal)
         done == c.turns >= MaxTurns
         d == [c EXCEPT !.rejected[q] = {[resp |-> r, cap |-> k]},
                        !.status = IF done THEN "REPORT_READY" ELSE @,
                        !.grants = IF done THEN {} ELSE @]
         b == IF done THEN Closed ELSE cl
         s == IF done THEN NewSession ELSE srv
     IN Save(d, Raised(b, s), Raised(b, s))
  /\ Acts(q) /\ UNCHANGED spent

\* A valid response is journalled as the pending turn before any dispatch.
Accept(q, r, k) ==
  /\ Fresh(q, r, k) /\ ~Spent(r) /\ Valid(Charged(wal), r)
  /\ \E c \in Admit(Charged(wal), r.proposals) :
       LET d == [c EXCEPT !.pendingTurn = {q}, !.status = "INVESTIGATING",
                          !.assessments = @ \cup r.assessed]
       IN Save(d, Continue(NextPc(Dispatches(r)), Dispatches(r), d,
                           [kind |-> "advance", req |-> {q}, resp |-> r, cap |-> k,
                            closing |-> FALSE]),
               Raised(cl, srv))
  /\ Acts(q) /\ UNCHANGED spent

\* Mutant: recovery looks for an interrupted turn only.
PendingTurnOnly(d) == d.pendingTurn # {}

\* What recovery looks for.
Pending(d) == d.pendingOp # "none" \/ d.pendingTurn # {}

\* recover_review: what was in flight is aborted, never dispatched again.
Recover ==
  /\ pc = "idle" /\ Loadable
  /\ wal.status # "ABORTED" /\ Pending(wal)
  /\ Journal(Aborted(wal, 0), events, Raised(cl, srv))
  /\ UNCHANGED <<spent, taken>>

Crash == Die /\ UNCHANGED <<durable, spent, taken>>

Step == Reserve \/ Dispatch \/ Complete \/ Pinned \/ Discover \/ ReportReady
        \/ Seal \/ Abort
Advance(q, r, k) == Replay(q, r, k) \/ BudgetStop(q, r, k) \/ Reject(q, r, k)
                    \/ Accept(q, r, k)
Next ==
  \/ StartReview \/ Step \/ Recover \/ Crash
  \/ \E q \in Request, r \in Response, k \in 1 .. (MaxTurns + 1) : Advance(q, r, k)

Spec == Init /\ [][Next]_vars /\ WF_vars(Step) /\ WF_vars(Recover)

(***************************************************************************)
(* Properties                                                              *)
(***************************************************************************)

\* A host request is charged and acted on at most once, and a capability is
\* consumed by at most one turn, through crashes, recoveries and retries
\* (advance_review's replay, rejection and pending-turn checks).
ActedOnce ==
  /\ \A q \in Request : taken[q] <= 1
  /\ \A p, q \in Request : \A e \in wal.replays[p], f \in wal.replays[q] :
       p # q => e.cap # f.cap

\* The journalled cost covers the work the backend has really done, but for the
\* overshoot of the call in flight, and never passes the budget by more than
\* that (_call's reservation, reconciliation and the retained reservation).
SpentIsCovered ==
  /\ spent <= wal.wall + Overshoot
  /\ wal.wall <= WallBudget + Overshoot

\* Every answer to one request is the same turn with the same capability,
\* whenever and however often the host retries (the replay record).
AnswersStable == \A q \in Request : \A a, b \in answers[q] : a = b

\* Between calls the transport and the native session agree on the pinned
\* snapshot (capture publishes and release drops it only with a success).
SessionAgrees == pc # "dispatch" /\ ~cl.closed => cl.binding = srv.pinned

\* A journalled end is final: an aborted or closed review never changes again.
EndIsFinal == [][wal.status \in {"ABORTED", "CLOSED"} => wal' = wal]_vars

InDoubt ==
  wal.status # "ABORTED" /\ ckpt # "none" /\ (wal.pendingOp # "none" \/ wal.pendingTurn # {})

\* A journalled dispatch or turn does not stay in doubt: it completes, or the
\* review is aborted (the except clauses and recover_review).
InterruptedIsSettled == InDoubt ~> ~InDoubt

=============================================================================
