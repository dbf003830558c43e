----------------------- MODULE ReviewControllerProofs -----------------------
(* Proofs about ReviewController, for any host requests and responses, any   *)
(* budgets, any number of crashes and any answers of the native session.     *)
EXTENDS ReviewController, TLAPS

(***************************************************************************)
(* The inductive invariant                                                 *)
(***************************************************************************)

Early == {"CREATED", "SNAPSHOT_PINNED"}
Ended == {"REPORT_READY", "CLOSED", "ABORTED"}

DataFields == DOMAIN NoData
IsData(d) == d = [f \in DataFields |-> d[f]]
Typed(d) ==
  /\ IsData(d)
  /\ DOMAIN d.replays = Request /\ DOMAIN d.rejected = Request
  /\ d.wall \in Nat /\ d.nonce \in Nat /\ d.status \in Statuses

\* No new call will be dispatched on a journalled state that is locked.
Locked(d) == d.status \notin Open \cup {"NONE"} \/ d.pendingTurn # {}

\* The journalled cost covers the real one, to the overshoot, and exactly where
\* further calls may follow.
CostOK(d, sp) ==
  /\ sp <= d.wall + Overshoot /\ d.wall <= WallBudget + Overshoot
  /\ ~Locked(d) => sp <= d.wall /\ d.wall <= WallBudget

\* Whatever was acted on is on record, in flight, or the review has ended.
TakenOK(d, tk) ==
  \A r \in Request : tk[r] # 0 =>
    d.replays[r] # {} \/ d.rejected[r] # {} \/ r \in d.pendingTurn \/ d.status \in Ended

\* A request has one record; recorded capabilities are used up, each by one request.
CapsOK(d) ==
  /\ \A p \in Request : \A e, f \in d.replays[p] : e = f
  /\ \A p \in Request : \A e \in d.replays[p] : e.cap \in Nat /\ e.cap < d.nonce
  /\ \A p, q \in Request : \A e \in d.replays[p], f \in d.replays[q] :
       p # q => e.cap # f.cap

\* An answer is the one on record, or the last one of a review that has ended.
AnswersOK(d, an) ==
  \A q \in Request : an[q] # {} =>
    \/ \E e \in d.replays[q] : d.replays[q] = {e} /\ an[q] = {Turn(e.payload, e.nonce)}
    \/ /\ d.replays[q] = {} /\ d.status \in Ended /\ q \notin d.pendingTurn
       /\ \E t \in an[q] : an[q] = {t}

\* What the status says about the rest.
StageOK(d) ==
  /\ d.status = "NONE" => d = NoData
  /\ d.status \in Early => /\ d.pendingTurn = {}
                           /\ \A q \in Request : d.replays[q] = {} /\ d.rejected[q] = {}
  /\ d.status = "CLOSED" => d.pendingTurn = {}
  /\ d.status \in Open \cup {"CLOSED"} /\ d.pendingTurn = {} => d.pendingOp = "none"

\* A state that may be left in the audit store at any moment.
Safe(d, sp, tk, an) ==
  /\ Typed(d) /\ CostOK(d, sp) /\ TakenOK(d, tk) /\ CapsOK(d)
  /\ AnswersOK(d, an) /\ StageOK(d)

\* A queue of operations to dispatch.
IsQueue(t, ops) ==
  /\ t \in Seq({t[i] : i \in DOMAIN t})
  /\ \A i \in DOMAIN t : t[i].op \in ops
Later == Operations \ {"handshake", "capture"}

\* Memory d and store w agree on everything but costs and discoveries.
Agrees(d, w) ==
  /\ Typed(d)
  /\ d.replays = w.replays /\ d.rejected = w.rejected
  /\ d.pendingTurn = w.pendingTurn /\ d.nonce = w.nonce

\* The two kinds of call, with the operations they still have to dispatch.
StartOK(d, w, k, t) ==
  /\ k.kind = "start" /\ d.status \in Early /\ w.status \in Early
  /\ IsQueue(t, Operations)
AdvanceOK(d, w, k, t) ==
  /\ k.kind = "advance" /\ k.cap = d.nonce
  /\ d.status = w.status /\ d.status \in {"INVESTIGATING", "REPORT_READY"}
  /\ \E q \in Request : k.req = {q} /\ d.pendingTurn = {q} /\ d.replays[q] = {}
  /\ IsQueue(t, Later)

\* What is known of the costs at each step of a call.
Between == {"reserve", "pinned", "finish"}
StepCostOK(p, d, w) ==
  /\ p \in Between => /\ d.pendingOp = "none" /\ spent <= d.wall
                      /\ d.wall = w.wall /\ d.wall <= WallBudget
  /\ p = "dispatch" => /\ spent + CallWall <= d.wall
                       /\ d.wall = w.wall /\ d.wall <= WallBudget
  /\ p = "complete" => /\ d.wall <= WallBudget + Overshoot /\ spent <= d.wall + Overshoot
                       /\ last.out \in {"ok", "refused", "raise"}
                       /\ last.out # "raise" => spent <= d.wall

CallFields == DOMAIN NoCall
IsCall(k) == k = [f \in CallFields |-> k[f]]

\* A call at step p with operations t to dispatch, memory d and store w.
Active(p, t, d, k, w) ==
  /\ p \in Between \cup {"dispatch", "complete", "raise"}
  /\ IsCall(k) /\ Agrees(d, w)
  /\ StartOK(d, w, k, t) \/ AdvanceOK(d, w, k, t)
  /\ p \in {"reserve", "dispatch", "complete"} => t # <<>>
  /\ StepCostOK(p, d, w)

LedgerOK ==
  /\ Safe(wal, spent, taken, answers)
  /\ events \in Nat /\ spent \in Nat
  /\ taken \in [Request -> {0, 1}]
  /\ pc = "idle" \/ (ckpt # "none" /\ Active(pc, todo, mem, call, wal))

\* The transport and the session: an open transport names the pinned snapshot.
TransportFields == DOMAIN NewTransport
IsTransport(c) == c = [f \in TransportFields |-> c[f]]
SessionFields == DOMAIN NewSession
IsSession(s) == s = [f \in SessionFields |-> s[f]]
SessionOK ==
  /\ IsTransport(cl) /\ IsSession(srv) /\ cl.caps \subseteq Operations
  /\ ~cl.closed => cl.binding = srv.pinned

(***************************************************************************)
(* Records                                                                 *)
(***************************************************************************)

\* The fields of a review's durable record.
LEMMA DataFieldsAre ==
  DataFields = {"status", "binding", "contexts", "candidates", "evidence", "assessments",
                "wall", "turns", "tokens", "prompt", "pendingOp", "pendingTurn", "nonce",
                "grants", "replays", "rejected"}
BY Zenon DEF DataFields, NoData

\* The fields of a call.
LEMMA CallFieldsAre == CallFields = {"kind", "req", "resp", "cap", "closing"}
BY Zenon DEF CallFields, NoCall

\* The record of no review is typed.
LEMMA NoDataTyped == Typed(NoData)
<1>1. IsData(NoData)
  BY DataFieldsAre, Zenon DEF IsData, NoData
<1> QED
  BY Zenon, <1>1 DEF Typed, NoData, Statuses

\* What the record operations leave alone.
LEMMA AbortedFrame ==
  ASSUME NEW d, Typed(d), NEW w \in Nat, NEW e, e = Aborted(d, w)
  PROVE  /\ Typed(e) /\ e.status = "ABORTED"
         /\ e.replays = d.replays /\ e.rejected = d.rejected
         /\ e.pendingTurn = d.pendingTurn /\ e.nonce = d.nonce
         /\ d.wall <= e.wall /\ (e.wall = d.wall \/ e.wall = w)
<1>1. IsData(e)
  BY Zenon DEF Typed, IsData, Aborted
<1>2. /\ e.status = "ABORTED" /\ e.replays = d.replays /\ e.rejected = d.rejected
      /\ e.pendingTurn = d.pendingTurn /\ e.nonce = d.nonce
      /\ e.wall = IF w > d.wall THEN w ELSE d.wall
  BY Zenon, DataFieldsAre DEF Typed, IsData, Aborted
<1> QED
  BY <1>1, <1>2 DEF Typed, Statuses

\* Preparing a turn writes its prompt and grants, and at most makes an open
\* review ready to report.
LEMMA PrepareFrame ==
  ASSUME NEW d, Typed(d), NEW n, NEW e, e = Prepare(d, n)
  PROVE  /\ Typed(e)
         /\ e.status = d.status \/ (d.status \in Open /\ e.status = "REPORT_READY")
         /\ e.replays = d.replays /\ e.rejected = d.rejected
         /\ e.pendingTurn = d.pendingTurn /\ e.nonce = d.nonce
         /\ e.wall = d.wall /\ e.pendingOp = d.pendingOp
<1> DEFINE x == [d EXCEPT !.grants = Grants(d), !.prompt = n]
<1>1. IsData(x)
  BY Zenon DEF Typed, IsData
<1>2. /\ x.status = d.status /\ x.replays = d.replays /\ x.rejected = d.rejected
      /\ x.pendingTurn = d.pendingTurn /\ x.nonce = d.nonce
      /\ x.wall = d.wall /\ x.pendingOp = d.pendingOp
  BY Zenon, DataFieldsAre DEF Typed, IsData
<1>3. \/ e = x
      \/ d.status \in Open /\ e = [x EXCEPT !.status = "REPORT_READY", !.grants = {}]
  BY Zenon DEF Prepare
<1> HIDE DEF x
<1>4. CASE e = x
  BY Zenon, <1>1, <1>2, <1>4 DEF Typed
<1>5. CASE d.status \in Open /\ e = [x EXCEPT !.status = "REPORT_READY", !.grants = {}]
  <2>1. IsData(e)
    BY <1>1, <1>5, Zenon DEF IsData
  <2>2. /\ e.status = "REPORT_READY" /\ e.replays = x.replays /\ e.rejected = x.rejected
        /\ e.pendingTurn = x.pendingTurn /\ e.nonce = x.nonce
        /\ e.wall = x.wall /\ e.pendingOp = x.pendingOp
    BY ZenonT(60), <1>1, <1>5, DataFieldsAre DEF IsData
  <2> QED
    BY <1>2, <1>5, <2>1, <2>2 DEF Typed, Statuses
<1> QED
  BY Zenon, <1>3, <1>4, <1>5

\* Nothing but one field that the invariant does not mention.
SameBooks(d, e) ==
  /\ e.status = d.status /\ e.replays = d.replays /\ e.rejected = d.rejected
  /\ e.pendingTurn = d.pendingTurn /\ e.nonce = d.nonce
  /\ e.wall = d.wall /\ e.pendingOp = d.pendingOp

\* Admitting candidates leaves the books of costs, records and answers alone.
LEMMA AdmitFrame ==
  ASSUME NEW d, Typed(d), NEW sites, NEW e \in Admit(d, sites)
  PROVE  Typed(e) /\ SameBooks(d, e)
<1>1. PICK a : e = [d EXCEPT !.candidates = @ \cup a]
  BY Zenon DEF Admit
<1>2. IsData(e)
  BY <1>1, Zenon DEF Typed, IsData
<1>3. SameBooks(d, e)
  BY Zenon, <1>1, DataFieldsAre DEF Typed, IsData, SameBooks
<1> QED
  BY Zenon, <1>2, <1>3 DEF Typed, SameBooks

\* Charging time leaves those books alone.
LEMMA ChargedFrame ==
  ASSUME NEW d, Typed(d), NEW e, e = Charged(d)
  PROVE  Typed(e) /\ SameBooks(d, e)
<1>1. IsData(e)
  BY Zenon DEF Typed, IsData, Charged
<1>2. SameBooks(d, e)
  BY Zenon, DataFieldsAre DEF Typed, IsData, Charged, SameBooks
<1> QED
  BY Zenon, <1>1, <1>2 DEF Typed, SameBooks

(***************************************************************************)
(* The audit store                                                         *)
(***************************************************************************)

\* The books stay in order when they are unchanged and an ended review does not
\* open again.
LEMMA SameBooksInOrder ==
  ASSUME NEW d, NEW e, NEW tk, NEW an,
         e.replays = d.replays, e.rejected = d.rejected,
         e.pendingTurn = d.pendingTurn, e.nonce = d.nonce,
         d.status \in Ended => e.status \in Ended
  PROVE  /\ CapsOK(d) => CapsOK(e)
         /\ TakenOK(d, tk) => TakenOK(e, tk)
         /\ AnswersOK(d, an) => AnswersOK(e, an)
<1>1. CapsOK(d) => CapsOK(e)
  BY DEF CapsOK
<1>2. TakenOK(d, tk) => TakenOK(e, tk)
  BY Zenon DEF TakenOK
<1>3. AnswersOK(d, an) => AnswersOK(e, an)
  BY Zenon DEF AnswersOK
<1> QED
  BY Zenon, <1>1, <1>2, <1>3

\* An abort leaves the store in order and loses no cost.
LEMMA AbortIsSafe ==
  ASSUME NEW d, NEW sp \in Nat, NEW tk, NEW an, Safe(d, sp, tk, an),
         NEW w \in Nat, w <= WallBudget + Overshoot
  PROVE  Safe(Aborted(d, w), sp, tk, an)
<1> DEFINE e == Aborted(d, w)
<1>1. /\ Typed(e) /\ e.status = "ABORTED"
      /\ e.replays = d.replays /\ e.rejected = d.rejected
      /\ e.pendingTurn = d.pendingTurn /\ e.nonce = d.nonce
      /\ d.wall <= e.wall /\ (e.wall = d.wall \/ e.wall = w)
  BY AbortedFrame DEF Safe
<1> HIDE DEF e
<1>2. CapsOK(e) /\ TakenOK(e, tk) /\ AnswersOK(e, an)
  BY Zenon, <1>1, SameBooksInOrder DEF Safe, Ended
<1>3. CostOK(e, sp)
  BY <1>1, CostsAssumption DEF Safe, Typed, CostOK, Locked, Open
<1>4. StageOK(e)
  BY Zenon, <1>1 DEF StageOK, Early, Open
<1> QED
  BY Zenon, <1>1, <1>2, <1>3, <1>4 DEF e, Safe

\* Whatever becomes of a journalled state, the store is in order: the state was
\* saved and the call goes on, or the process is gone, or the allowance was used
\* up and the review aborted.
LEMMA SaveKeeps ==
  ASSUME LedgerOK, NEW d, d.wall \in Nat, d.wall <= WallBudget + Overshoot, spent' = spent,
         events < AuditEvents =>
           Safe(d, spent, taken', answers) /\ taken' \in [Request -> {0, 1}],
         events >= AuditEvents => taken' = taken,
         NEW ACTION S, NEW ACTION R, Save(d, S, R),
         R => pc' = "idle" /\ answers' = answers,
         wal' = d /\ events' \in Nat /\ ckpt' = "current" /\ S => LedgerOK'
  PROVE  LedgerOK'
<1>1. events \in Nat /\ Safe(wal, spent, taken, answers) /\ spent \in Nat
  BY Zenon DEF LedgerOK
<1>2. ASSUME pc' = "idle", answers' = answers, events' \in Nat,
             Safe(wal', spent, taken', answers), taken' \in [Request -> {0, 1}]
      PROVE  LedgerOK'
  BY Zenon, <1>1, <1>2 DEF LedgerOK
<1>3. Die => pc' = "idle" /\ answers' = answers
  BY Zenon DEF Die, Idle
<1>4. CASE events < AuditEvents
  <2>1. Journal(d, events + 1, S)
    BY <1>1, <1>4, CostsAssumption DEF Save
  <2>2. wal' = d /\ events' \in Nat /\ ((ckpt' = "current" /\ S) \/ Die)
    BY <1>1, <2>1 DEF Journal
  <2> QED
    BY Zenon, <1>2, <1>3, <1>4, <2>2
<1>5. CASE events >= AuditEvents
  <2>1. taken' = taken /\ taken \in [Request -> {0, 1}]
    BY Zenon, <1>5 DEF LedgerOK
  <2>2. \/ Journal(Aborted(wal, d.wall), events, R)
        \/ UNCHANGED <<durable, crashes>> /\ R
    BY <1>1, <1>5, CostsAssumption DEF Save
  <2>3. CASE Journal(Aborted(wal, d.wall), events, R)
    <3>1. wal' = Aborted(wal, d.wall) /\ events' = events /\ (R \/ Die)
      BY Zenon, <2>3 DEF Journal
    <3>2. Safe(wal', spent, taken', answers)
      BY Zenon, <1>1, <2>1, <3>1, AbortIsSafe
    <3> QED
      BY Zenon, <1>1, <1>2, <1>3, <2>1, <3>1, <3>2
  <2>4. CASE UNCHANGED <<durable, crashes>> /\ R
    <3>1. wal' = wal /\ events' = events
      BY Zenon, <2>4 DEF durable
    <3> QED
      BY Zenon, <1>1, <1>2, <2>1, <2>4, <3>1
  <2> QED
    BY Zenon, <2>2, <2>3, <2>4
<1> QED
  BY <1>1, <1>4, <1>5, CostsAssumption

(***************************************************************************)
(* Steps of a call                                                         *)
(***************************************************************************)

\* An operation carries its name.
LEMMA OpNames == ASSUME NEW op, NEW c, NEW s PROVE Op(op, c, s).op = op
BY Zenon DEF Op, Request0

\* The empty list is a queue of any operations.
LEMMA QueueEmpty == ASSUME NEW ops PROVE IsQueue(<<>>, ops)
BY DEF IsQueue

\* A queue with an operation put before it is a queue.
LEMMA QueueCons ==
  ASSUME NEW ops, NEW x, x.op \in ops, NEW t, IsQueue(t, ops)
  PROVE  IsQueue(<<x>> \o t, ops) /\ <<x>> \o t # <<>>
<1> DEFINE u == <<x>> \o t
           S == {t[i] : i \in DOMAIN t} \cup {x}
<1>1. t \in Seq(S) /\ Len(t) \in Nat /\ DOMAIN t = 1 .. Len(t)
  BY DEF IsQueue
<1>2. /\ Len(u) = Len(t) + 1 /\ DOMAIN u = 1 .. Len(u) /\ u[1] = x
      /\ \A i \in 2 .. Len(u) : u[i] = t[i - 1] /\ i - 1 \in DOMAIN t
  BY <1>1
<1>3. u \in Seq(S)
  BY <1>1
<1> HIDE DEF u, S
<1>4. u \in Seq({u[i] : i \in DOMAIN u})
  BY <1>2, <1>3
<1>5. \A i \in DOMAIN u : u[i].op \in ops
  BY <1>1, <1>2 DEF IsQueue
<1>6. u # <<>>
  BY <1>1, <1>2
<1> QED
  BY Zenon, <1>4, <1>5, <1>6 DEF u, IsQueue

\* One operation alone is a queue.
LEMMA QueueOne ==
  ASSUME NEW ops, NEW x, x.op \in ops
  PROVE  IsQueue(<<x>>, ops) /\ <<x>> # <<>>
BY DEF IsQueue

\* The head of a queue is an operation and its tail a queue.
LEMMA QueueTail ==
  ASSUME NEW ops, NEW t, IsQueue(t, ops), t # <<>>
  PROVE  Head(t).op \in ops /\ IsQueue(Tail(t), ops)
<1> DEFINE u == Tail(t)
           S == {t[i] : i \in DOMAIN t}
<1>1. t \in Seq(S) /\ Len(t) \in Nat \ {0} /\ DOMAIN t = 1 .. Len(t) /\ Head(t) = t[1]
  BY DEF IsQueue
<1>2. /\ Len(u) = Len(t) - 1 /\ DOMAIN u = 1 .. Len(u)
      /\ \A i \in 1 .. Len(u) : u[i] = t[i + 1] /\ i + 1 \in DOMAIN t
  BY <1>1
<1>3. u \in Seq(S)
  BY <1>1
<1> HIDE DEF u, S
<1>4. u \in Seq({u[i] : i \in DOMAIN u})
  BY <1>2, <1>3
<1>5. \A i \in DOMAIN u : u[i].op \in ops
  BY Zenon, <1>1, <1>2 DEF IsQueue
<1> QED
  BY SMTT(30), <1>1, <1>4, <1>5 DEF u, IsQueue

\* While a call is active its store is locked, and what the call journals next may
\* be left behind.
LEMMA ActiveIsSafe ==
  ASSUME LedgerOK, NEW d, Agrees(d, wal),
         \/ d.status \in Early /\ wal.status \in Early
         \/ /\ d.status \in {"INVESTIGATING", "REPORT_READY"} /\ d.pendingTurn # {}
            /\ d.status = wal.status \/ d.status = "REPORT_READY",
         spent <= d.wall + Overshoot, d.wall <= WallBudget + Overshoot
  PROVE  Safe(d, spent, taken, answers)
<1>1. Safe(wal, spent, taken, answers)
  BY Zenon DEF LedgerOK
<1>2. wal.status \in Ended => d.status \in Ended
  BY Zenon DEF Ended, Early
<1>3. CapsOK(d) /\ TakenOK(d, taken) /\ AnswersOK(d, answers)
  BY Zenon, <1>1, <1>2, SameBooksInOrder DEF Safe, Agrees
<1>4. CostOK(d, spent)
  BY Zenon DEF CostOK, Locked, Early, Open
<1>5. StageOK(d)
  BY Zenon, <1>1 DEF Safe, StageOK, Agrees, Early, Open
<1> QED
  BY Zenon, <1>3, <1>4, <1>5 DEF Safe, Agrees

\* A call that journals d goes on with memory e.
LEMMA GoesOn ==
  ASSUME LedgerOK, NEW d, NEW e, NEW p \in Between \cup {"dispatch", "raise"}, NEW t, NEW k,
         wal' = d, ckpt' # "none", events' \in Nat, spent' = spent,
         taken' \in [Request -> {0, 1}], Safe(d, spent, taken', answers),
         Continue(p, t, e, k), Active(p, t, e, k, d)
  PROVE  LedgerOK'
<1>1. pc' = p /\ todo' = t /\ mem' = e /\ call' = k /\ last' = last /\ answers' = answers
  BY Zenon DEF Continue
<1>2. StepCostOK(p, e, d)'
  BY Zenon, <1>1 DEF Active, StepCostOK
<1>3. Active(pc, todo, mem, call, wal)'
  BY Zenon, <1>1, <1>2 DEF Active
<1> QED
  BY Zenon, <1>1, <1>3 DEF LedgerOK

\* A call that raises leaves the controller idle and answers nobody.
LEMMA FailsIsIdle ==
  ASSUME NEW c, NEW s, Raised(c, s)
  PROVE  pc' = "idle" /\ answers' = answers
BY Zenon DEF Raised, Idle

\* A call that journals d leaves the store in order, whatever happens.
LEMMA CallSaves ==
  ASSUME LedgerOK, NEW d, Agrees(d, wal),
         \/ d.status \in Early /\ wal.status \in Early
         \/ /\ d.status \in {"INVESTIGATING", "REPORT_READY"} /\ d.pendingTurn # {}
            /\ d.status = wal.status \/ d.status = "REPORT_READY",
         spent <= d.wall + Overshoot, d.wall <= WallBudget + Overshoot,
         UNCHANGED <<spent, taken>>, NEW ACTION S, Save(d, S, Fails),
         /\ Safe(d, spent, taken', answers) /\ taken' \in [Request -> {0, 1}]
         /\ wal' = d /\ events' \in Nat /\ ckpt' = "current" /\ S
         => LedgerOK'
  PROVE  LedgerOK'
<1>1. Safe(d, spent, taken, answers) /\ taken \in [Request -> {0, 1}]
  BY Zenon, ActiveIsSafe DEF LedgerOK
<1>2. d.wall \in Nat
  BY Zenon DEF Agrees, Typed
<1>3. Fails => pc' = "idle" /\ answers' = answers
  BY Zenon, FailsIsIdle DEF Fails
<1> QED
  BY Zenon, <1>1, <1>2, <1>3, SaveKeeps

\* An active call, by its kind.
LEMMA ActiveKinds ==
  ASSUME LedgerOK, pc # "idle"
  PROVE  /\ Active(pc, todo, mem, call, wal) /\ ckpt # "none" /\ Agrees(mem, wal)
         /\ \/ mem.status \in Early /\ wal.status \in Early
            \/ /\ mem.status \in {"INVESTIGATING", "REPORT_READY"} /\ mem.pendingTurn # {}
               /\ mem.status = wal.status
         /\ wal.wall \in Nat /\ mem.wall \in Nat /\ spent \in Nat
BY Zenon DEF LedgerOK, Active, StartOK, AdvanceOK, Agrees, Safe, Typed

\* A call that differs from the memory in costs and discoveries only.
LEMMA SameBooksSaves ==
  ASSUME LedgerOK, pc # "idle", NEW d, Typed(d), d.status = mem.status,
         d.replays = mem.replays, d.rejected = mem.rejected,
         d.pendingTurn = mem.pendingTurn, d.nonce = mem.nonce,
         spent <= d.wall + Overshoot, d.wall <= WallBudget + Overshoot,
         UNCHANGED <<spent, taken>>, NEW ACTION S, Save(d, S, Fails),
         /\ Safe(d, spent, taken', answers) /\ taken' \in [Request -> {0, 1}]
         /\ wal' = d /\ events' \in Nat /\ ckpt' = "current" /\ S
         => LedgerOK'
  PROVE  LedgerOK'
<1>1. Agrees(d, wal)
  BY Zenon, ActiveKinds DEF Agrees
<1>2. \/ d.status \in Early /\ wal.status \in Early
      \/ /\ d.status \in {"INVESTIGATING", "REPORT_READY"} /\ d.pendingTurn # {}
         /\ d.status = wal.status
  BY Zenon, ActiveKinds
<1> QED
  BY Zenon, <1>1, <1>2, CallSaves

\* The same call, whatever became of its books, at another step.
LEMMA SameCallGoesOn ==
  ASSUME LedgerOK, pc # "idle", NEW d, Typed(d), NEW e, Typed(e), NEW p, NEW t,
         p \in Between \cup {"dispatch", "raise"},
         d.status = mem.status, d.replays = mem.replays, d.rejected = mem.rejected,
         d.pendingTurn = mem.pendingTurn, d.nonce = mem.nonce,
         e.replays = mem.replays, e.rejected = mem.rejected,
         e.pendingTurn = mem.pendingTurn, e.nonce = mem.nonce,
         e.status = mem.status \/ (call.kind = "start" /\ e.status \in Early),
         call.kind = "start" => IsQueue(t, Operations),
         call.kind = "advance" => IsQueue(t, Later),
         p \in {"reserve", "dispatch", "complete"} => t # <<>>,
         StepCostOK(p, e, d)
  PROVE  Active(p, t, e, call, d)
<1>1. Active(pc, todo, mem, call, wal)
  BY Zenon, ActiveKinds
<1>2. Agrees(e, d)
  BY Zenon DEF Agrees
<1>3. CASE StartOK(mem, wal, call, todo)
  <2>1. StartOK(e, d, call, t)
    BY Zenon, <1>3 DEF StartOK
  <2> QED
    BY Zenon, <1>1, <1>2, <2>1 DEF Active
<1>4. CASE AdvanceOK(mem, wal, call, todo)
  <2>1. AdvanceOK(e, d, call, t)
    BY Zenon, <1>4 DEF AdvanceOK
  <2> QED
    BY Zenon, <1>1, <1>2, <2>1 DEF Active
<1> QED
  BY Zenon, <1>1, <1>3, <1>4 DEF Active

\* A controller that is not idle works on the queue of the call it serves.
LEMMA QueueOfCall ==
  ASSUME LedgerOK, pc # "idle"
  PROVE  /\ call.kind \in {"start", "advance"}
         /\ call.kind = "start" => IsQueue(todo, Operations)
         /\ call.kind = "advance" => IsQueue(todo, Later)
BY Zenon, ActiveKinds DEF Active, StartOK, AdvanceOK

\* Reserving the next operation keeps the ledger invariant.
LEMMA ReserveKeeps ==
  ASSUME LedgerOK, Reserve
  PROVE  LedgerOK'
<1>1. pc = "reserve" /\ UNCHANGED <<spent, taken>>
  BY Zenon DEF Reserve
<1>2. /\ Active(pc, todo, mem, call, wal) /\ ckpt # "none" /\ Typed(mem)
      /\ mem.wall \in Nat /\ spent \in Nat /\ todo # <<>>
      /\ mem.pendingOp = "none" /\ spent <= mem.wall /\ mem.wall = wal.wall
      /\ mem.wall <= WallBudget
  BY Zenon, <1>1, ActiveKinds DEF Active, Agrees, StepCostOK, Between
<1>3. CASE mem.wall + CallWall > WallBudget
  <2>1. Continue("raise", todo, mem, call) /\ UNCHANGED durable
    BY Zenon, <1>3 DEF Reserve
  <2>2. Active("raise", todo, mem, call, wal)
    BY Zenon, <1>2 DEF Active, StepCostOK, Between
  <2> QED
    BY Zenon, <1>1, <1>2, <2>1, <2>2, GoesOn DEF LedgerOK, durable
<1>4. CASE ~(mem.wall + CallWall > WallBudget)
  <2> DEFINE d == [mem EXCEPT !.wall = @ + CallWall, !.pendingOp = Head(todo).op]
  <2>1. Save(d, Continue("dispatch", todo, d, call), Fails)
    BY Zenon, <1>4 DEF Reserve
  <2>2. IsData(d)
    BY <1>2, Zenon DEF Typed, IsData
  <2>3. /\ d.status = mem.status /\ d.replays = mem.replays /\ d.rejected = mem.rejected
        /\ d.pendingTurn = mem.pendingTurn /\ d.nonce = mem.nonce
        /\ d.wall = mem.wall + CallWall
    BY Zenon, <1>2, DataFieldsAre DEF Typed, IsData
  <2> HIDE DEF d
  <2>4. Typed(d) /\ spent + CallWall <= d.wall /\ d.wall <= WallBudget
    BY <1>2, <1>4, <2>2, <2>3, CostsAssumption DEF Typed
  <2>5. StepCostOK("dispatch", d, d)
    BY Zenon, <2>4 DEF StepCostOK, Between
  <2>6. Active("dispatch", todo, d, call, d)
    BY Zenon, <1>1, <1>2, <2>3, <2>4, <2>5, SameCallGoesOn, QueueOfCall
  <2>7. spent <= d.wall + Overshoot /\ d.wall <= WallBudget + Overshoot
    BY <1>2, <2>4, CostsAssumption DEF Typed
  <2>8. /\ Safe(d, spent, taken', answers) /\ taken' \in [Request -> {0, 1}]
        /\ wal' = d /\ events' \in Nat /\ ckpt' = "current"
        /\ Continue("dispatch", todo, d, call)
        => LedgerOK'
    BY Zenon, <1>1, <2>6, GoesOn
  <2> QED
    BY Zenon, <1>1, <2>1, <2>3, <2>4, <2>7, <2>8, SameBooksSaves
<1> QED
  BY Zenon, <1>3, <1>4

\* The reservation covers what a call does; only its overshoot may be missing.
LEMMA DispatchKeeps ==
  ASSUME LedgerOK, Dispatch
  PROVE  LedgerOK'
<1>1. /\ pc = "dispatch" /\ pc' = "complete"
      /\ UNCHANGED <<durable, todo, call, crashes, taken, answers, tokens>>
  BY Zenon DEF Dispatch
<1>2. /\ Active(pc, todo, mem, call, wal) /\ ckpt # "none" /\ Typed(mem)
      /\ mem.wall \in Nat /\ spent \in Nat /\ wal.wall \in Nat /\ todo # <<>>
      /\ spent + CallWall <= mem.wall /\ mem.wall = wal.wall /\ mem.wall <= WallBudget
      /\ Safe(wal, spent, taken, answers)
  BY Zenon, <1>1, ActiveKinds DEF Active, Agrees, StepCostOK, LedgerOK
<1>3. \/ mem' = mem /\ spent' = spent /\ last'.out = "raise"
      \/ \E w \in 0 .. (CallWall + Overshoot) :
           /\ mem' = [mem EXCEPT !.wall = (@ - CallWall) + w] /\ spent' = spent + w
           /\ last'.out \in {"ok", "raise"}
      \/ mem' = mem /\ spent' = spent + CallWall /\ last'.out = "refused"
      \/ mem' = mem /\ spent' = spent + CallWall + Overshoot /\ last'.out = "raise"
  BY DEF Dispatch
<1> DEFINE Reconciled ==
             /\ Typed(mem') /\ mem'.status = mem.status /\ mem'.replays = mem.replays
             /\ mem'.rejected = mem.rejected /\ mem'.pendingTurn = mem.pendingTurn
             /\ mem'.nonce = mem.nonce
             /\ spent' \in Nat /\ spent' <= wal.wall + Overshoot
             /\ mem'.wall <= WallBudget + Overshoot /\ spent' <= mem'.wall + Overshoot
             /\ last'.out \in {"ok", "refused", "raise"}
             /\ last'.out # "raise" => spent' <= mem'.wall
<1>4. Reconciled
  <2>1. CASE /\ mem' = mem
             /\ \/ spent' = spent /\ last'.out = "raise"
                \/ spent' = spent + CallWall /\ last'.out = "refused"
                \/ spent' = spent + CallWall + Overshoot /\ last'.out = "raise"
    BY <1>2, <2>1, CostsAssumption
  <2>2. ASSUME NEW w \in 0 .. (CallWall + Overshoot),
               mem' = [mem EXCEPT !.wall = (@ - CallWall) + w], spent' = spent + w,
               last'.out \in {"ok", "raise"}
        PROVE  Reconciled
    <3>1. IsData(mem')
      BY <1>2, <2>2, Zenon DEF Typed, IsData
    <3>2. /\ mem'.status = mem.status /\ mem'.replays = mem.replays
          /\ mem'.rejected = mem.rejected /\ mem'.pendingTurn = mem.pendingTurn
          /\ mem'.nonce = mem.nonce /\ mem'.wall = (mem.wall - CallWall) + w
      BY Zenon, <1>2, <2>2, DataFieldsAre DEF Typed, IsData
    <3>3. mem'.wall \in Nat /\ mem'.wall <= WallBudget + Overshoot
      BY <1>2, <3>2, CostsAssumption
    <3>4. /\ spent' \in Nat /\ spent' <= wal.wall + Overshoot /\ spent' <= mem'.wall
          /\ spent' <= mem'.wall + Overshoot
      BY SMTT(30), <1>2, <2>2, <3>2, CostsAssumption
    <3> QED
      BY Zenon, <1>2, <2>2, <3>1, <3>2, <3>3, <3>4 DEF Typed
  <2> QED
    BY Zenon, <1>3, <2>1, <2>2
<1>5. Safe(wal, spent', taken, answers)
  <2>1. Locked(wal)
    BY Zenon, <1>1, ActiveKinds DEF Locked, Early, Open, Agrees
  <2>2. CostOK(wal, spent')
    BY Zenon, <1>2, <1>4, <2>1 DEF CostOK, Safe
  <2> QED
    BY Zenon, <1>2, <2>2 DEF Safe
<1>6. StepCostOK("complete", mem, wal)'
  BY Zenon, <1>1, <1>4 DEF StepCostOK, Between
<1>7. Agrees(mem', wal)
  BY Zenon, <1>1, <1>4, ActiveKinds DEF Agrees
<1>8. StartOK(mem', wal, call, todo) \/ AdvanceOK(mem', wal, call, todo)
  BY Zenon, <1>2, <1>4 DEF Active, StartOK, AdvanceOK
<1>9. wal' = wal /\ ckpt' = ckpt /\ events' = events /\ todo' = todo /\ call' = call
  BY Zenon, <1>1 DEF durable
<1>10. Active(pc, todo, mem, call, wal)'
  BY Zenon, <1>1, <1>2, <1>6, <1>7, <1>8, <1>9 DEF Active
<1> QED
  BY Zenon, <1>1, <1>2, <1>4, <1>5, <1>9, <1>10 DEF LedgerOK

\* After an answer within the budget the call goes on in several ways.
LEMMA CompletedGoesOn ==
  ASSUME LedgerOK, pc = "complete", NEW d, Typed(d), SameBooks([mem EXCEPT !.pendingOp = "none"], d),
         last.out # "raise", mem.wall <= WallBudget,
         NEW p \in Between \cup {"raise"}, NEW t, NEW e, Typed(e),
         e.replays = d.replays, e.rejected = d.rejected, e.pendingTurn = d.pendingTurn,
         e.nonce = d.nonce, e.wall = d.wall, e.pendingOp = d.pendingOp,
         e.status = d.status \/ (call.kind = "start" /\ e.status \in Early),
         call.kind = "start" => IsQueue(t, Operations),
         call.kind = "advance" => IsQueue(t, Later),
         p = "reserve" => t # <<>>
  PROVE  Active(p, t, e, call, d)
<1>1. /\ Typed(mem) /\ mem.wall \in Nat /\ spent <= mem.wall
  BY Zenon, ActiveKinds DEF Active, Agrees, StepCostOK
<1>2. /\ d.status = mem.status /\ d.replays = mem.replays /\ d.rejected = mem.rejected
      /\ d.pendingTurn = mem.pendingTurn /\ d.nonce = mem.nonce
      /\ d.wall = mem.wall /\ d.pendingOp = "none"
  BY Zenon, <1>1, DataFieldsAre DEF SameBooks, Typed, IsData
<1>3. StepCostOK(p, e, d)
  BY Zenon, <1>1, <1>2 DEF StepCostOK, Between
<1> QED
  BY ZenonT(60), <1>2, <1>3, SameCallGoesOn DEF Between

\* After an operation the controller reserves the next, or finishes.
LEMMA NextPcIs ==
  ASSUME NEW t
  PROVE  NextPc(t) \in {"finish", "reserve"} /\ (NextPc(t) = "reserve" => t # <<>>)
BY Zenon DEF NextPc

\* What is left once an operation completes is again a queue of the call.
LEMMA RestOfQueue ==
  ASSUME LedgerOK, pc = "complete"
  PROVE  /\ call.kind \in {"start", "advance"} /\ Head(todo).op \in Operations
         /\ call.kind = "start" => IsQueue(todo, Operations) /\ IsQueue(Tail(todo), Operations)
         /\ call.kind = "advance" =>
              /\ IsQueue(todo, Later) /\ IsQueue(Tail(todo), Later)
              /\ Head(todo).op \in Later
<1>1. todo # <<>>
  BY Zenon, ActiveKinds DEF Active
<1> QED
  BY Zenon, <1>1, QueueOfCall, QueueTail DEF Later

\* The caller's use of an accepted answer is one of a few continuations.
LEMMA AppliedGoesOn ==
  ASSUME LedgerOK, pc = "complete", last.out # "raise", mem.wall <= WallBudget,
         NEW d, d = [mem EXCEPT !.pendingOp = "none"], Typed(d), NEW a,
         Applied(d, Head(todo), a)
  PROVE  \E p \in Between \cup {"raise"} : \E t, e :
           Continue(p, t, e, call) /\ Active(p, t, e, call, d)
<1> DEFINE q == Head(todo)
           rest == Tail(todo)
<1>1. SameBooks([mem EXCEPT !.pendingOp = "none"], d)
  BY Zenon DEF SameBooks
<1>2. ASSUME NEW p \in Between \cup {"raise"}, NEW t, NEW e, Typed(e),
             e.replays = d.replays, e.rejected = d.rejected, e.pendingTurn = d.pendingTurn,
             e.nonce = d.nonce, e.wall = d.wall, e.pendingOp = d.pendingOp,
             e.status = d.status \/ (call.kind = "start" /\ e.status \in Early),
             call.kind = "start" => IsQueue(t, Operations),
             call.kind = "advance" => IsQueue(t, Later),
             p = "reserve" => t # <<>>,
             Continue(p, t, e, call)
      PROVE  \E x \in Between \cup {"raise"} : \E y, z :
               Continue(x, y, z, call) /\ Active(x, y, z, call, d)
  <2>1. Active(p, t, e, call, d)
    BY Zenon, <1>1, <1>2, CompletedGoesOn
  <2> QED
    BY Zenon, <1>2, <2>1
<1>3. /\ call.kind \in {"start", "advance"}
      /\ call.kind = "start" => IsQueue(todo, Operations) /\ IsQueue(rest, Operations)
      /\ call.kind = "advance" =>
           IsQueue(todo, Later) /\ IsQueue(rest, Later) /\ q.op \in Later
      /\ q.op \in Operations
  BY Zenon, RestOfQueue
<1>4. /\ {"capture", "context", "seed-candidates"} \subseteq Operations
      /\ {"context", "seed-candidates"} \subseteq Later
      /\ "handshake" \notin Later /\ "capture" \notin Later
  BY Zenon DEF Operations, Later
<1>5. NextPc(rest) \in Between /\ (NextPc(rest) = "reserve" => rest # <<>>)
  BY Zenon, NextPcIs DEF Between
<1> HIDE DEF q, rest
<1>6. CASE q.op = "handshake"
  <2> DEFINE t == <<Op("capture", {}, {})>>
  <2>1. Continue("reserve", t, d, call)
    BY Zenon, <1>6 DEF Applied, q
  <2>2. IsQueue(t, Operations) /\ t # <<>>
    BY ZenonT(60), <1>4, OpNames, QueueOne
  <2>3. call.kind = "start"
    BY Zenon, <1>3, <1>4, <1>6
  <2> HIDE DEF t
  <2> QED
    BY Zenon, <1>2, <2>1, <2>2, <2>3 DEF Between
<1>7. CASE q.op = "capture"
  <2> DEFINE e == [d EXCEPT !.binding = a.binding, !.status = "SNAPSHOT_PINNED"]
  <2>1. Continue("pinned", <<>>, e, call)
    BY Zenon, <1>7 DEF Applied, q
  <2>2. IsData(e)
    BY Zenon DEF Typed, IsData
  <2>3. /\ e.status = "SNAPSHOT_PINNED" /\ e.replays = d.replays /\ e.rejected = d.rejected
        /\ e.pendingTurn = d.pendingTurn /\ e.nonce = d.nonce /\ e.wall = d.wall
        /\ e.pendingOp = d.pendingOp
    BY Zenon, DataFieldsAre DEF Typed, IsData
  <2> HIDE DEF e
  <2>4. Typed(e) /\ e.status \in Early
    BY Zenon, <2>2, <2>3 DEF Typed, Early, Statuses
  <2>5. call.kind = "start" /\ IsQueue(<<>>, Operations)
    BY Zenon, <1>3, <1>4, <1>7, QueueEmpty
  <2> QED
    BY Zenon, <1>2, <2>1, <2>3, <2>4, <2>5 DEF Between
<1>8. CASE q.op = "context"
  <2> DEFINE e == [d EXCEPT !.contexts = @ \cup a.ctx]
  <2>1. PICK s :
          LET t == <<Op("seed-candidates", s, {})>> \o rest IN
          \/ Continue("raise", todo, d, call)
          \/ Continue("reserve", t, e, call)
          \/ Continue(NextPc(rest), rest, e, call)
    BY <1>8, Zenon DEF Applied, q, rest
  <2>2. IsData(e)
    BY Zenon DEF Typed, IsData
  <2>3. /\ e.status = d.status /\ e.replays = d.replays /\ e.rejected = d.rejected
        /\ e.pendingTurn = d.pendingTurn /\ e.nonce = d.nonce /\ e.wall = d.wall
        /\ e.pendingOp = d.pendingOp
    BY Zenon, DataFieldsAre DEF Typed, IsData
  <2> DEFINE t == <<Op("seed-candidates", s, {})>> \o rest
  <2> HIDE DEF e
  <2>4. Typed(e)
    BY Zenon, <2>2, <2>3 DEF Typed
  <2>5. /\ call.kind = "start" => IsQueue(t, Operations) /\ t # <<>>
        /\ call.kind = "advance" => IsQueue(t, Later) /\ t # <<>>
    BY <1>3, <1>4, OpNames, QueueCons
  <2>6. CASE Continue("raise", todo, d, call)
    BY Zenon, <1>2, <1>3, <2>6
  <2>7. CASE Continue("reserve", t, e, call)
    <3> HIDE DEF t
    <3> QED
      BY Zenon, <1>2, <1>3, <2>3, <2>4, <2>5, <2>7 DEF Between
  <2>8. CASE Continue(NextPc(rest), rest, e, call)
    BY Zenon, <1>2, <1>3, <1>5, <2>3, <2>4, <2>8
  <2> QED
    BY Zenon, <2>1, <2>6, <2>7, <2>8
<1>9. CASE q.op = "seed-candidates"
  <2>1. PICK e \in Admit(d, a.site) : Continue(NextPc(rest), rest, e, call)
    BY Zenon, <1>9 DEF Applied, q, rest
  <2>2. Typed(e) /\ SameBooks(d, e)
    BY Zenon, AdmitFrame
  <2> QED
    BY Zenon, <1>2, <1>3, <1>5, <2>1, <2>2 DEF SameBooks
<1>10. CASE q.op = "local-evidence"
  <2> DEFINE e == [d EXCEPT !.evidence = @ \cup a.site]
  <2>1. Continue(NextPc(rest), rest, e, call)
    BY Zenon, <1>10 DEF Applied, q, rest
  <2>2. IsData(e)
    BY Zenon DEF Typed, IsData
  <2>3. /\ e.status = d.status /\ e.replays = d.replays /\ e.rejected = d.rejected
        /\ e.pendingTurn = d.pendingTurn /\ e.nonce = d.nonce /\ e.wall = d.wall
        /\ e.pendingOp = d.pendingOp
    BY Zenon, DataFieldsAre DEF Typed, IsData
  <2> HIDE DEF e
  <2>4. Typed(e)
    BY Zenon, <2>2, <2>3 DEF Typed
  <2> QED
    BY Zenon, <1>2, <1>3, <1>5, <2>1, <2>3, <2>4
<1>11. CASE q.op = "release"
  <2>1. Continue(NextPc(rest), rest, d, call)
    BY Zenon, <1>11 DEF Applied, q, rest
  <2> QED
    BY Zenon, <1>2, <1>3, <1>5, <2>1
<1> QED
  BY Zenon, <1>3, <1>6, <1>7, <1>8, <1>9, <1>10, <1>11 DEF Operations

\* A refusal ends the start of a review or is skipped.
LEMMA SkippedGoesOn ==
  ASSUME LedgerOK, pc = "complete", last.out # "raise", mem.wall <= WallBudget,
         NEW d, d = [mem EXCEPT !.pendingOp = "none"], Typed(d),
         Skipped(d, Head(todo))
  PROVE  \E p \in Between \cup {"raise"} : \E t, e :
           Continue(p, t, e, call) /\ Active(p, t, e, call, d)
<1> DEFINE rest == Tail(todo)
<1>1. SameBooks([mem EXCEPT !.pendingOp = "none"], d)
  BY Zenon DEF SameBooks
<1>2. /\ call.kind \in {"start", "advance"}
      /\ call.kind = "start" => IsQueue(todo, Operations) /\ IsQueue(rest, Operations)
      /\ call.kind = "advance" => IsQueue(todo, Later) /\ IsQueue(rest, Later)
  BY Zenon, RestOfQueue
<1>3. NextPc(rest) \in Between /\ (NextPc(rest) = "reserve" => rest # <<>>)
  BY Zenon, NextPcIs DEF Between
<1>4. PICK s :
        LET t == <<Op("seed-candidates", s, {})>> IN
        \/ Continue("raise", todo, d, call)
        \/ call.kind = "start" /\ Continue("reserve", t, d, call)
        \/ Continue(NextPc(rest), rest, d, call)
  BY Zenon DEF Skipped
<1> DEFINE t == <<Op("seed-candidates", s, {})>>
<1>5. IsQueue(t, Operations) /\ t # <<>>
  BY OpNames, QueueOne DEF Operations
<1> HIDE DEF t, rest
<1>6. CASE Continue("raise", todo, d, call)
  BY ZenonT(60), <1>1, <1>2, <1>6, CompletedGoesOn
<1>7. CASE call.kind = "start" /\ Continue("reserve", t, d, call)
  <2>1. Active("reserve", t, d, call, d)
    BY Zenon, <1>1, <1>5, <1>7, CompletedGoesOn DEF Between
  <2> QED
    BY Zenon, <1>7, <2>1 DEF Between
<1>8. CASE Continue(NextPc(rest), rest, d, call)
  <2>1. Active(NextPc(rest), rest, d, call, d)
    BY Zenon, <1>1, <1>2, <1>3, CompletedGoesOn
  <2> QED
    BY Zenon, <1>3, <1>8, <2>1
<1> QED
  BY Zenon, <1>4, <1>6, <1>7, <1>8 DEF t

\* What becomes of the answer once the cost is journalled.
Completed(d) ==
  CASE last.out = "raise" \/ mem.wall > WallBudget ->
         Continue("raise", todo, d, call)
    [] last.out = "refused" /\ mem.wall <= WallBudget -> Skipped(d, Head(todo))
    [] last.out = "ok" /\ mem.wall <= WallBudget -> Applied(d, Head(todo), last.ans)

\* Memory without the reservation differs from memory in that alone.
LEMMA CompletedFrame ==
  ASSUME Typed(mem), NEW d, d = [mem EXCEPT !.pendingOp = "none"]
  PROVE  /\ Typed(d)
         /\ d.status = mem.status /\ d.replays = mem.replays /\ d.rejected = mem.rejected
         /\ d.pendingTurn = mem.pendingTurn /\ d.nonce = mem.nonce /\ d.wall = mem.wall
<1>1. IsData(d)
  BY Zenon DEF Typed, IsData
<1>2. /\ d.status = mem.status /\ d.replays = mem.replays /\ d.rejected = mem.rejected
      /\ d.pendingTurn = mem.pendingTurn /\ d.nonce = mem.nonce /\ d.wall = mem.wall
  BY Zenon, DataFieldsAre DEF Typed, IsData
<1> QED
  BY Zenon, <1>1, <1>2 DEF Typed

\* Whatever becomes of it, the call goes on or raises.
LEMMA CompletedContinues ==
  ASSUME LedgerOK, pc = "complete", NEW d, d = [mem EXCEPT !.pendingOp = "none"],
         Completed(d)
  PROVE  \E p \in Between \cup {"raise"} : \E t, e :
           Continue(p, t, e, call) /\ Active(p, t, e, call, d)
<1>1. /\ Typed(mem) /\ mem.wall \in Nat /\ last.out \in {"ok", "refused", "raise"}
  BY Zenon, ActiveKinds DEF Active, Agrees, StepCostOK
<1>2. /\ Typed(d)
      /\ d.status = mem.status /\ d.replays = mem.replays /\ d.rejected = mem.rejected
      /\ d.pendingTurn = mem.pendingTurn /\ d.nonce = mem.nonce /\ d.wall = mem.wall
  BY Zenon, <1>1, CompletedFrame
<1>3. CASE last.out = "raise" \/ mem.wall > WallBudget
  <2>1. Continue("raise", todo, d, call)
    <3>1. ~(mem.wall > WallBudget /\ mem.wall <= WallBudget)
      BY <1>1, CostsAssumption
    <3> QED
      BY Zenon, <1>3, <3>1 DEF Completed
  <2>2. StepCostOK("raise", d, d)
    BY Zenon DEF StepCostOK, Between
  <2>3. Active("raise", todo, d, call, d)
    BY Zenon, <1>2, <2>2, SameCallGoesOn, QueueOfCall
  <2> QED
    BY Zenon, <2>1, <2>3
<1>4. CASE ~(last.out = "raise" \/ mem.wall > WallBudget)
  <2>1. last.out \in {"ok", "refused"} /\ mem.wall <= WallBudget
    BY <1>1, <1>4, CostsAssumption
  <2>2. CASE last.out = "refused"
    <3>1. Skipped(d, Head(todo))
      BY Zenon, <1>4, <2>1, <2>2 DEF Completed
    <3> QED
      BY Zenon, <1>2, <2>1, <2>2, <3>1, SkippedGoesOn
  <2>3. CASE last.out = "ok"
    <3>1. Applied(d, Head(todo), last.ans)
      BY Zenon, <1>4, <2>1, <2>3 DEF Completed
    <3> QED
      BY Zenon, <1>2, <2>1, <2>3, <3>1, AppliedGoesOn
  <2> QED
    BY Zenon, <2>1, <2>2, <2>3
<1> QED
  BY Zenon, <1>3, <1>4

\* The journalled cost, then the caller's use of the answer.
LEMMA CompleteKeeps ==
  ASSUME LedgerOK, Complete
  PROVE  LedgerOK'
<1> DEFINE d == [mem EXCEPT !.pendingOp = "none"]
<1>1. pc = "complete" /\ UNCHANGED <<spent, taken>> /\ Save(d, Completed(d), Fails)
  BY Zenon DEF Complete, Completed
<1>2. /\ Active(pc, todo, mem, call, wal) /\ Typed(mem) /\ mem.wall \in Nat /\ todo # <<>>
      /\ mem.wall <= WallBudget + Overshoot /\ spent <= mem.wall + Overshoot
      /\ last.out \in {"ok", "refused", "raise"}
  BY Zenon, <1>1, ActiveKinds DEF Active, Agrees, StepCostOK
<1>3. d = [mem EXCEPT !.pendingOp = "none"]
  BY Zenon
<1> HIDE DEF d
<1>4. /\ Typed(d)
      /\ d.status = mem.status /\ d.replays = mem.replays /\ d.rejected = mem.rejected
      /\ d.pendingTurn = mem.pendingTurn /\ d.nonce = mem.nonce /\ d.wall = mem.wall
  BY Zenon, <1>2, <1>3, CompletedFrame
<1>5. Completed(d) => \E p \in Between \cup {"raise"} : \E t, e :
                        Continue(p, t, e, call) /\ Active(p, t, e, call, d)
  BY Zenon, <1>1, <1>3, CompletedContinues
<1>6. /\ Safe(d, spent, taken', answers) /\ taken' \in [Request -> {0, 1}]
      /\ wal' = d /\ events' \in Nat /\ ckpt' = "current" /\ Completed(d)
      => LedgerOK'
  BY Zenon, <1>1, <1>5, GoesOn
<1> QED
  BY Zenon, <1>1, <1>2, <1>4, <1>6, SameBooksSaves

\* Recording the pinned snapshot keeps the ledger invariant.
LEMMA PinnedKeeps ==
  ASSUME LedgerOK, Pinned
  PROVE  LedgerOK'
<1> DEFINE t == <<Op("context", {FirstCtx}, {})>>
<1>1. pc = "pinned" /\ UNCHANGED <<spent, taken>>
  BY Zenon DEF Pinned
<1>2. Save(mem, Continue("reserve", t, mem, call), Fails)
  BY Zenon DEF Pinned
<1>3. /\ Active(pc, todo, mem, call, wal) /\ Typed(mem) /\ mem.wall \in Nat /\ spent \in Nat
      /\ mem.wall <= WallBudget /\ spent <= mem.wall /\ mem.pendingOp = "none"
  BY Zenon, <1>1, ActiveKinds DEF Active, Agrees, StepCostOK, Between
<1>4. IsQueue(t, Operations) /\ IsQueue(t, Later) /\ t # <<>>
  BY OpNames, QueueOne DEF Operations, Later
<1> HIDE DEF t
<1>5. StepCostOK("reserve", mem, mem)
  BY Zenon, <1>3 DEF StepCostOK, Between
<1>6. Active("reserve", t, mem, call, mem)
  BY Zenon, <1>1, <1>3, <1>4, <1>5, SameCallGoesOn DEF Between
<1>7. spent <= mem.wall + Overshoot /\ mem.wall <= WallBudget + Overshoot
  BY <1>3, CostsAssumption
<1>8. /\ Safe(mem, spent, taken', answers) /\ taken' \in [Request -> {0, 1}]
      /\ wal' = mem /\ events' \in Nat /\ ckpt' = "current"
      /\ Continue("reserve", t, mem, call)
      => LedgerOK'
  BY Zenon, <1>1, <1>6, GoesOn DEF Between
<1> QED
  BY Zenon, <1>1, <1>2, <1>3, <1>7, <1>8, SameBooksSaves

\* Making the report ready keeps the ledger invariant.
LEMMA ReportReadyKeeps ==
  ASSUME LedgerOK, ReportReady
  PROVE  LedgerOK'
<1> DEFINE d == [mem EXCEPT !.status = "REPORT_READY"]
           t == <<Op("release", {}, {})>>
           k == [call EXCEPT !.closing = TRUE]
<1>1. pc = "finish" /\ call.kind = "advance" /\ UNCHANGED <<spent, taken>>
  BY Zenon DEF ReportReady
<1>2. Save(d, Continue("reserve", t, d, k), Fails)
  BY Zenon DEF ReportReady
<1>3. /\ AdvanceOK(mem, wal, call, todo) /\ Agrees(mem, wal) /\ Typed(mem)
      /\ mem.wall \in Nat /\ spent \in Nat
      /\ mem.wall <= WallBudget /\ spent <= mem.wall /\ mem.pendingOp = "none"
  BY Zenon, <1>1, ActiveKinds DEF Active, Agrees, StepCostOK, StartOK, Between
<1>4. IsQueue(t, Later) /\ t # <<>>
  BY OpNames, QueueOne DEF Operations, Later
<1>5. IsData(d)
  BY <1>3, Zenon DEF Typed, IsData
<1>6. /\ d.status = "REPORT_READY" /\ d.replays = mem.replays /\ d.rejected = mem.rejected
      /\ d.pendingTurn = mem.pendingTurn /\ d.nonce = mem.nonce /\ d.wall = mem.wall
      /\ d.pendingOp = "none"
  BY Zenon, <1>3, DataFieldsAre DEF Typed, IsData
<1>7. IsCall(k) /\ k.kind = call.kind /\ k.cap = call.cap /\ k.req = call.req
  <2>1. IsCall(call)
    BY Zenon, <1>1, ActiveKinds DEF Active
  <2>2. IsCall(k)
    BY <2>1, Zenon DEF IsCall
  <2> QED
    BY Zenon, <2>1, <2>2, CallFieldsAre DEF IsCall
<1> HIDE DEF d, t, k
<1>8. Typed(d)
  BY Zenon, <1>3, <1>5, <1>6 DEF Typed, Statuses
<1>9. Agrees(d, wal) /\ Agrees(d, d)
  BY Zenon, <1>3, <1>6, <1>8 DEF Agrees
<1>10. AdvanceOK(d, d, k, t)
  BY Zenon, <1>1, <1>3, <1>4, <1>6, <1>7 DEF AdvanceOK
<1>11. StepCostOK("reserve", d, d)
  BY Zenon, <1>3, <1>6 DEF StepCostOK, Between
<1>12. Active("reserve", t, d, k, d)
  BY Zenon, <1>4, <1>7, <1>9, <1>10, <1>11 DEF Active, Between
<1>13. spent <= d.wall + Overshoot /\ d.wall <= WallBudget + Overshoot
  BY <1>3, <1>6, CostsAssumption
<1>14. d.pendingTurn # {}
  BY Zenon, <1>3, <1>6 DEF AdvanceOK
<1>15. /\ Safe(d, spent, taken', answers) /\ taken' \in [Request -> {0, 1}]
       /\ wal' = d /\ events' \in Nat /\ ckpt' = "current"
       /\ Continue("reserve", t, d, k)
       => LedgerOK'
  BY Zenon, <1>1, <1>12, GoesOn DEF Between
<1> QED
  BY Zenon, <1>1, <1>2, <1>6, <1>9, <1>13, <1>14, <1>15, CallSaves

\* Before the first turn nothing has been acted on, recorded or answered.
LEMMA EarlyIsBlank ==
  ASSUME NEW d, NEW sp, NEW tk, NEW an, Safe(d, sp, tk, an), d.status \in Early \cup {"NONE"}
  PROVE  \A r \in Request : d.replays[r] = {} /\ d.rejected[r] = {} /\ tk[r] = 0 /\ an[r] = {}
<1>1. d.pendingTurn = {} /\ \A r \in Request : d.replays[r] = {} /\ d.rejected[r] = {}
  <2>1. CASE d.status \in Early
    BY Zenon, <2>1 DEF Safe, StageOK
  <2>2. CASE d.status = "NONE"
    <3>1. d = NoData
      BY Zenon, <2>2 DEF Safe, StageOK
    <3> QED
      BY Zenon, <3>1 DEF NoData
  <2> QED
    BY Zenon, <2>1, <2>2
<1>2. d.status \notin Ended
  BY Zenon DEF Early, Ended
<1> QED
  BY Zenon, <1>1, <1>2 DEF Safe, TakenOK, AnswersOK

\* A record nobody has asked anything of is safe.
LEMMA BlankIsSafe ==
  ASSUME NEW d, Typed(d), NEW sp, NEW tk, NEW an, CostOK(d, sp), StageOK(d),
         \A r \in Request : d.replays[r] = {} /\ tk[r] = 0 /\ an[r] = {}
  PROVE  Safe(d, sp, tk, an)
BY Zenon DEF Safe, CapsOK, TakenOK, AnswersOK

\* The first turn.
LEMMA DiscoverKeeps ==
  ASSUME LedgerOK, Discover
  PROVE  LedgerOK'
<1>1. pc = "finish" /\ call.kind = "start" /\ UNCHANGED <<spent, taken>>
  BY Zenon DEF Discover
<1> DEFINE x == [mem EXCEPT !.status = "DISCOVERING"]
<1>2. PICK n \in PromptSizes :
        LET d == Prepare(x, n)
        IN Save(d, Return({}, Turn(Payload(d), d.nonce), cl, srv), Fails)
  BY Zenon DEF Discover
<1> DEFINE d == Prepare(x, n)
           S == Return({}, Turn(Payload(d), d.nonce), cl, srv)
<1>3. Save(d, S, Fails)
  BY Zenon, <1>2
<1>4. /\ StartOK(mem, wal, call, todo) /\ Agrees(mem, wal) /\ Typed(mem)
      /\ mem.wall \in Nat /\ spent \in Nat
      /\ mem.wall <= WallBudget /\ spent <= mem.wall /\ mem.pendingOp = "none"
  BY Zenon, <1>1, ActiveKinds DEF Active, Agrees, StepCostOK, AdvanceOK, Between
<1>5. IsData(x)
  BY <1>4, Zenon DEF Typed, IsData
<1>6. /\ x.status = "DISCOVERING" /\ x.replays = mem.replays /\ x.rejected = mem.rejected
      /\ x.pendingTurn = mem.pendingTurn /\ x.nonce = mem.nonce /\ x.wall = mem.wall
      /\ x.pendingOp = "none"
  BY Zenon, <1>4, DataFieldsAre DEF Typed, IsData
<1> HIDE DEF x
<1>7. Typed(x)
  BY Zenon, <1>4, <1>5, <1>6 DEF Typed, Statuses
<1>8. /\ Typed(d) /\ d.status \in {"DISCOVERING", "REPORT_READY"}
      /\ d.replays = wal.replays /\ d.pendingOp = "none" /\ d.wall = mem.wall
  BY SMTT(30), <1>4, <1>6, <1>7, PrepareFrame DEF Agrees
<1> HIDE DEF d
<1>9. \A r \in Request : wal.replays[r] = {} /\ taken[r] = 0 /\ answers[r] = {}
  BY <1>4, EarlyIsBlank DEF LedgerOK, StartOK
<1>10. CostOK(d, spent) /\ StageOK(d) /\ d.wall \in Nat /\ d.wall <= WallBudget + Overshoot
  <2>1. CostOK(d, spent) /\ d.wall \in Nat /\ d.wall <= WallBudget + Overshoot
    BY <1>4, <1>8, CostsAssumption DEF CostOK
  <2>2. StageOK(d)
    BY Zenon, <1>8 DEF StageOK, Early
  <2> QED
    BY Zenon, <2>1, <2>2
<1>11. Safe(d, spent, taken, answers)
  BY Zenon, <1>8, <1>9, <1>10, BlankIsSafe
<1>12. S => pc' = "idle" /\ \A r \in Request : answers'[r] = {}
  BY Zenon, <1>9 DEF Return, Idle, Hands
<1>13. ASSUME wal' = d, events' \in Nat, S PROVE LedgerOK'
  <2>1. Safe(d, spent, taken, answers')
    BY Zenon, <1>8, <1>9, <1>10, <1>12, <1>13, BlankIsSafe
  <2>2. pc' = "idle" /\ events' \in Nat /\ wal' = d
    BY Zenon, <1>12, <1>13
  <2>3. spent' = spent /\ taken' = taken
    BY Zenon, <1>1
  <2>4. spent \in Nat /\ taken \in [Request -> {0, 1}]
    BY Zenon DEF LedgerOK
  <2> QED
    BY ZenonT(60), <2>1, <2>2, <2>3, <2>4 DEF LedgerOK
<1>14. Fails => pc' = "idle" /\ answers' = answers
  BY Zenon, FailsIsIdle DEF Fails
<1> HIDE DEF S
<1>15. taken \in [Request -> {0, 1}]
  BY Zenon DEF LedgerOK
<1> QED
  BY Zenon, <1>1, <1>3, <1>10, <1>11, <1>13, <1>14, <1>15, SaveKeeps

\* The end of a turn: its answer is recorded under its request and its capability
\* is used up.
LEMMA SealKeeps ==
  ASSUME LedgerOK, Seal
  PROVE  LedgerOK'
<1> DEFINE done == call.closing \/ mem.turns >= MaxTurns
           d == [mem EXCEPT !.status = IF call.closing THEN "CLOSED"
                                       ELSE IF done THEN "REPORT_READY" ELSE @,
                            !.nonce = @ + 1, !.pendingTurn = {}]
<1>1. pc = "finish" /\ call.kind = "advance" /\ UNCHANGED <<spent, taken>>
  BY Zenon DEF Seal
<1>2. /\ AdvanceOK(mem, wal, call, todo) /\ Agrees(mem, wal) /\ Typed(mem)
      /\ mem.wall \in Nat /\ spent \in Nat
      /\ mem.wall <= WallBudget /\ spent <= mem.wall /\ mem.pendingOp = "none"
  BY Zenon, <1>1, ActiveKinds DEF Active, Agrees, StepCostOK, StartOK, Between
<1>3. PICK n \in PromptSizes, q \in call.req :
        LET e == Prepare(d, n)
            f == [e EXCEPT !.replays[q] = {[resp |-> call.resp, cap |-> call.cap,
                                            payload |-> Payload(e), nonce |-> e.nonce]}]
        IN Save(f, Return(call.req, Turn(Payload(e), e.nonce),
                          IF done THEN Closed ELSE cl,
                          IF done THEN NewSession ELSE srv), Fails)
  BY Zenon DEF Seal
<1> DEFINE e == Prepare(d, n)
           row == [resp |-> call.resp, cap |-> call.cap, payload |-> Payload(e), nonce |-> e.nonce]
           f == [e EXCEPT !.replays[q] = {row}]
           turn == Turn(Payload(e), e.nonce)
           S == Return(call.req, turn, IF done THEN Closed ELSE cl,
                       IF done THEN NewSession ELSE srv)
<1>4. Save(f, S, Fails)
  BY Zenon, <1>3
<1>5. /\ q \in Request /\ call.req = {q} /\ wal.pendingTurn = {q} /\ wal.replays[q] = {}
      /\ call.cap = wal.nonce /\ mem.status = wal.status
      /\ mem.status \in {"INVESTIGATING", "REPORT_READY"}
  BY ZenonT(60), <1>2, <1>3 DEF AdvanceOK, Agrees
<1>6. Typed(d)
  <2>1. IsData(d)
    BY <1>2, Zenon DEF Typed, IsData
  <2>2. /\ d.status \in {"CLOSED", "REPORT_READY", mem.status}
        /\ d.replays = mem.replays /\ d.rejected = mem.rejected
        /\ d.nonce = mem.nonce + 1 /\ d.wall = mem.wall
    BY Zenon, <1>2, DataFieldsAre DEF Typed, IsData
  <2> HIDE DEF d
  <2> QED
    BY <1>2, <2>1, <2>2 DEF Typed, Statuses
<1>7. /\ d.status \in {"CLOSED", "REPORT_READY", mem.status}
      /\ d.replays = mem.replays /\ d.rejected = mem.rejected
      /\ d.nonce = mem.nonce + 1 /\ d.wall = mem.wall
      /\ d.pendingTurn = {} /\ d.pendingOp = "none"
  BY Zenon, <1>2, DataFieldsAre DEF Typed, IsData
<1> HIDE DEF d, done
<1>8. /\ Typed(e) /\ (e.status = d.status \/ e.status = "REPORT_READY")
      /\ e.replays = wal.replays /\ e.rejected = wal.rejected
      /\ e.pendingTurn = {} /\ e.nonce = wal.nonce + 1
      /\ e.wall = mem.wall /\ e.pendingOp = "none"
  BY SMTT(30), <1>2, <1>6, <1>7, PrepareFrame DEF Agrees
<1>9. row.cap = call.cap /\ turn = Turn(row.payload, row.nonce)
  BY Zenon
<1> HIDE DEF e, row, turn
<1>10. IsData(f)
  BY <1>8, Zenon DEF Typed, IsData
<1>11. /\ f.status = e.status /\ f.rejected = e.rejected /\ f.pendingTurn = {}
       /\ f.nonce = e.nonce /\ f.wall = e.wall /\ f.pendingOp = "none"
       /\ f.replays = [e.replays EXCEPT ![q] = {row}]
  BY Zenon, <1>8, DataFieldsAre DEF Typed, IsData
<1> HIDE DEF f
<1>12. /\ DOMAIN f.replays = Request /\ f.replays[q] = {row}
       /\ \A r \in Request \ {q} : f.replays[r] = wal.replays[r]
  BY ZenonT(60), <1>5, <1>8, <1>11 DEF Typed
<1>13. Typed(f)
  BY Zenon, <1>8, <1>10, <1>11, <1>12 DEF Typed
<1>14. Safe(wal, spent, taken, answers)
  BY Zenon DEF LedgerOK
<1>15. CostOK(f, spent) /\ f.wall \in Nat /\ f.wall <= WallBudget + Overshoot
  BY <1>2, <1>8, <1>11, CostsAssumption DEF CostOK
<1>16. CapsOK(f)
  <2>1. wal.nonce \in Nat /\ f.nonce = wal.nonce + 1 /\ row.cap = wal.nonce
    BY Zenon, <1>5, <1>8, <1>9, <1>11, <1>14 DEF Safe, Typed
  <2>2. \A p \in Request : \A x \in wal.replays[p] : x.cap \in Nat /\ x.cap < wal.nonce
    BY Zenon, <1>14 DEF Safe, CapsOK
  <2>3. ASSUME NEW p \in Request, NEW x \in f.replays[p]
        PROVE  x.cap \in Nat /\ x.cap < f.nonce /\ (p # q => x.cap < wal.nonce)
    BY SMTT(30), <1>12, <2>1, <2>2, <2>3
  <2>4. ASSUME NEW p \in Request, NEW r \in Request, NEW x \in f.replays[p],
               NEW y \in f.replays[r], p # r
        PROVE  x.cap # y.cap
    <3>1. CASE p = q
      BY <1>12, <2>1, <2>3, <2>4, <3>1
    <3>2. CASE r = q
      BY SMTT(30), <1>12, <2>1, <2>3, <2>4, <3>2
    <3>3. CASE p # q /\ r # q
      BY SMTT(30), <1>12, <1>14, <2>4, <3>3 DEF Safe, CapsOK
    <3> QED
      BY Zenon, <3>1, <3>2, <3>3
  <2>5. \A p \in Request : \A x, y \in f.replays[p] : x = y
    BY <1>12, <1>14 DEF Safe, CapsOK
  <2> QED
    BY Zenon, <2>3, <2>4, <2>5 DEF CapsOK
<1>17. f.status \in {"CLOSED", "REPORT_READY"} \/ f.status = wal.status
  BY ZenonT(60), <1>5, <1>7, <1>8, <1>11
<1>18. TakenOK(f, taken)
  BY SMTT(30), <1>5, <1>8, <1>11, <1>12, <1>14, <1>17 DEF Safe, TakenOK, Ended
<1>19. StageOK(f)
  BY Zenon, <1>5, <1>11, <1>17 DEF StageOK, Early
<1>20. answers[q] = {}
  BY ZenonT(60), <1>5, <1>14 DEF Safe, AnswersOK
<1>21. ASSUME NEW an, an[q] = {} \/ an[q] = {turn},
              \A r \in Request \ {q} : an[r] = answers[r]
       PROVE  Safe(f, spent, taken, an)
  <2>1. ASSUME NEW r \in Request, an[r] # {}, r # q
        PROVE  \/ \E x \in f.replays[r] :
                    f.replays[r] = {x} /\ an[r] = {Turn(x.payload, x.nonce)}
               \/ /\ f.replays[r] = {} /\ f.status \in Ended /\ r \notin f.pendingTurn
                  /\ \E t \in an[r] : an[r] = {t}
    <3>1. f.replays[r] = wal.replays[r] /\ an[r] = answers[r]
      BY Zenon, <1>12, <1>21, <2>1
    <3>2. wal.status \in Ended => f.status \in Ended
      BY Zenon, <1>17 DEF Ended
    <3> QED
      BY ZenonT(60), <1>11, <1>14, <2>1, <3>1, <3>2 DEF Safe, AnswersOK
  <2>2. AnswersOK(f, an)
    BY <1>9, <1>12, <1>21, <2>1, Zenon DEF AnswersOK
  <2> QED
    BY Zenon, <1>13, <1>15, <1>16, <1>18, <1>19, <2>2 DEF Safe
<1>22. S => /\ pc' = "idle" /\ answers'[q] = {turn}
            /\ \A r \in Request \ {q} : answers'[r] = answers[r]
  BY ZenonT(60), <1>5, <1>20 DEF Return, Idle, Hands
<1>23. ASSUME wal' = f, events' \in Nat, S PROVE LedgerOK'
  <2>1. Safe(f, spent, taken, answers')
    BY Zenon, <1>21, <1>22, <1>23
  <2>2. pc' = "idle" /\ events' \in Nat /\ wal' = f
    BY Zenon, <1>22, <1>23
  <2>3. spent' = spent /\ taken' = taken
    BY Zenon, <1>1
  <2>4. spent \in Nat /\ taken \in [Request -> {0, 1}]
    BY Zenon DEF LedgerOK
  <2> QED
    BY ZenonT(60), <2>1, <2>2, <2>3, <2>4 DEF LedgerOK
<1>24. Fails => pc' = "idle" /\ answers' = answers
  BY Zenon, FailsIsIdle DEF Fails
<1>25. Safe(f, spent, taken, answers) /\ taken \in [Request -> {0, 1}]
  BY Zenon, <1>20, <1>21 DEF LedgerOK
<1> HIDE DEF S
<1> QED
  BY Zenon, <1>1, <1>4, <1>15, <1>23, <1>24, <1>25, SaveKeeps

\* An abort outside a call's own save: by its except clause or by recovery.
LEMMA AbortedKeeps ==
  ASSUME LedgerOK, NEW ACTION R, Journal(Aborted(wal, 0), events, R),
         R => pc' = "idle" /\ answers' = answers, UNCHANGED <<spent, taken>>
  PROVE  LedgerOK'
<1>1. wal' = Aborted(wal, 0) /\ events' = events /\ (R \/ Die)
  BY Zenon DEF Journal
<1>2. pc' = "idle" /\ answers' = answers
  BY Zenon, <1>1 DEF Die, Idle
<1>3. Safe(wal', spent, taken, answers)
  BY <1>1, AbortIsSafe, CostsAssumption DEF LedgerOK
<1> QED
  BY Zenon, <1>1, <1>2, <1>3 DEF LedgerOK

\* An ending that journals nothing.
LEMMA EndedKeeps ==
  ASSUME LedgerOK, UNCHANGED <<wal, events, spent, taken, answers>>, pc' = "idle"
  PROVE  LedgerOK'
BY Zenon DEF LedgerOK

\* An abort keeps the ledger invariant.
LEMMA AbortKeeps ==
  ASSUME LedgerOK, Abort
  PROVE  LedgerOK'
<1>1. Fails => pc' = "idle" /\ answers' = answers
  BY Zenon, FailsIsIdle DEF Fails
<1>2. CASE wal.status = "ABORTED"
  BY Zenon, <1>1, <1>2, EndedKeeps DEF Abort, durable
<1>3. CASE wal.status # "ABORTED"
  BY Zenon, <1>1, <1>3, AbortedKeeps DEF Abort
<1> QED
  BY Zenon, <1>2, <1>3

\* Recovery after a restart keeps the ledger invariant.
LEMMA RecoverKeeps ==
  ASSUME LedgerOK, Recover
  PROVE  LedgerOK'
BY Zenon, AbortedKeeps, FailsIsIdle DEF Recover

\* A crash keeps the ledger invariant: it takes nothing that was saved.
LEMMA CrashKeeps ==
  ASSUME LedgerOK, Crash
  PROVE  LedgerOK'
BY Zenon, EndedKeeps DEF Crash, Die, Idle, durable

(***************************************************************************)
(* The start of a call                                                     *)
(***************************************************************************)

\* Starting a review keeps the ledger invariant.
LEMMA StartKeeps ==
  ASSUME LedgerOK, StartReview
  PROVE  LedgerOK'
<1> DEFINE d == [NoData EXCEPT !.status = "CREATED", !.nonce = 1]
           t == <<Op("handshake", {}, {})>>
           k == [NoCall EXCEPT !.kind = "start"]
           S == Continue("reserve", t, d, k)
<1>1. /\ pc = "idle" /\ wal.status = "NONE" /\ UNCHANGED <<spent, taken>>
      /\ Save(d, S, Raised(cl, srv))
  BY Zenon DEF StartReview
<1>2. Safe(wal, spent, taken, answers) /\ wal = NoData /\ spent \in Nat
  BY Zenon, <1>1 DEF LedgerOK, Safe, StageOK
<1>3. \A r \in Request : taken[r] = 0 /\ answers[r] = {}
  BY SMTT(30), <1>1, <1>2, EarlyIsBlank
<1>4. spent = 0
  BY <1>2 DEF Safe, CostOK, Locked, NoData
<1>5. IsData(d)
  BY NoDataTyped, Zenon DEF Typed, IsData
<1>6. /\ d.status = "CREATED" /\ d.nonce = 1 /\ d.wall = 0 /\ d.pendingTurn = {}
      /\ d.pendingOp = "none" /\ d.replays = NoData.replays /\ d.rejected = NoData.rejected
  BY Zenon DEF NoData
<1>7. IsCall(k) /\ k.kind = "start"
  <2>1. IsCall(NoCall)
    BY CallFieldsAre, Zenon DEF IsCall, NoCall
  <2>2. IsCall(k)
    BY <2>1, Zenon DEF IsCall
  <2> QED
    BY Zenon, <2>2 DEF NoCall
<1>8. IsQueue(t, Operations) /\ t # <<>>
  BY OpNames, QueueOne DEF Operations
<1> HIDE DEF d, t, k
<1>9. Typed(d) /\ \A r \in Request : d.replays[r] = {} /\ d.rejected[r] = {}
  <2>1. /\ DOMAIN NoData.replays = Request /\ DOMAIN NoData.rejected = Request
        /\ \A r \in Request : NoData.replays[r] = {} /\ NoData.rejected[r] = {}
    BY Zenon DEF NoData
  <2> QED
    BY SMTT(30), <1>5, <1>6, <2>1 DEF Typed, Statuses
<1>10. CostOK(d, spent) /\ StageOK(d)
  BY <1>4, <1>6, <1>9, CostsAssumption DEF CostOK, StageOK, Early, Open
<1>11. Safe(d, spent, taken, answers)
  BY ZenonT(60), <1>3, <1>9, <1>10, BlankIsSafe
<1>12. Active("reserve", t, d, k, d)
  <2>1. StepCostOK("reserve", d, d)
    BY SMTT(30), <1>4, <1>6, CostsAssumption DEF StepCostOK, Between
  <2> QED
    BY Zenon, <1>6, <1>7, <1>8, <1>9, <2>1 DEF Active, Agrees, StartOK, Between, Early
<1>13. ASSUME wal' = d, events' \in Nat, ckpt' = "current", S PROVE LedgerOK'
  BY Zenon, <1>1, <1>11, <1>12, <1>13, GoesOn DEF LedgerOK, Between
<1>14. Raised(cl, srv) => pc' = "idle" /\ answers' = answers
  BY Zenon, FailsIsIdle
<1>15. d.wall \in Nat /\ d.wall <= WallBudget + Overshoot /\ taken \in [Request -> {0, 1}]
  BY <1>6, CostsAssumption DEF LedgerOK
<1> HIDE DEF S
<1> QED
  BY ZenonT(60), <1>1, <1>11, <1>13, <1>14, <1>15, SaveKeeps

\* A retry is answered with the turn on record.
LEMMA ReplayKeeps ==
  ASSUME LedgerOK, NEW q \in Request, NEW r, NEW k, Replay(q, r, k)
  PROVE  LedgerOK'
<1>1. /\ pc = "idle" /\ pc' = pc /\ UNCHANGED <<wal, events, spent, taken>>
  BY ZenonT(60) DEF Replay, durable, control
<1>2. PICK e \in wal.replays[q] : Hands({q}, Turn(e.payload, e.nonce))
  BY Zenon DEF Replay
<1>3. /\ answers'[q] = answers[q] \cup {Turn(e.payload, e.nonce)}
      /\ \A p \in Request \ {q} : answers'[p] = answers[p]
  BY Zenon, <1>2 DEF Hands
<1>4. Safe(wal, spent, taken, answers)
  BY Zenon DEF LedgerOK
<1>5. wal.replays[q] = {e}
  BY <1>4 DEF Safe, CapsOK
<1>6. answers[q] = {} \/ answers[q] = {Turn(e.payload, e.nonce)}
  BY <1>4, <1>5, Zenon DEF Safe, AnswersOK
<1>7. answers'[q] = {Turn(e.payload, e.nonce)}
  BY Zenon, <1>3, <1>6
<1>8. AnswersOK(wal, answers')
  BY ZenonT(60), <1>3, <1>4, <1>5, <1>7 DEF Safe, AnswersOK
<1> QED
  BY ZenonT(60), <1>1, <1>4, <1>8 DEF LedgerOK, Safe

(***************************************************************************)
(* A new request                                                           *)
(***************************************************************************)

\* A request that is fresh has not been acted on or answered, and every cost is
\* on record.
LEMMA FreshIs ==
  ASSUME LedgerOK, NEW q \in Request, NEW r, NEW k, Fresh(q, r, k)
  PROVE  /\ Typed(wal) /\ wal.status \in Open /\ k = wal.nonce /\ ckpt # "none"
         /\ wal.pendingTurn = {} /\ wal.pendingOp = "none"
         /\ wal.replays[q] = {} /\ wal.rejected[q] = {}
         /\ taken[q] = 0 /\ answers[q] = {}
         /\ spent <= wal.wall /\ wal.wall <= WallBudget
<1>1. /\ wal.status \in Open /\ k = wal.nonce /\ ckpt # "none" /\ wal.pendingTurn = {}
      /\ wal.replays[q] = {} /\ wal.rejected[q] = {}
  BY Zenon DEF Fresh, Loadable
<1>2. /\ Typed(wal) /\ CostOK(wal, spent) /\ TakenOK(wal, taken)
      /\ AnswersOK(wal, answers) /\ StageOK(wal)
  BY Zenon DEF LedgerOK, Safe
<1>3. wal.status \notin Ended
  BY Zenon, <1>1 DEF Open, Ended
<1>4. wal.pendingOp = "none" /\ taken[q] = 0
  BY Zenon, <1>1, <1>2, <1>3 DEF StageOK, TakenOK
<1>5. answers[q] = {}
  BY Zenon, <1>1, <1>2, <1>3 DEF AnswersOK
<1>6. spent <= wal.wall /\ wal.wall <= WallBudget
  BY Zenon, <1>1, <1>2 DEF CostOK, Locked
<1> QED
  BY Zenon, <1>1, <1>2, <1>4, <1>5, <1>6

\* The request is counted where the state that knows of it is journalled.
LEMMA ActsOnce ==
  ASSUME LedgerOK, NEW q \in Request, taken[q] = 0, Acts(q)
  PROVE  /\ taken' \in [Request -> {0, 1}]
         /\ \A p \in Request \ {q} : taken'[p] = taken[p]
         /\ events >= AuditEvents => taken' = taken
<1>1. taken \in [Request -> {0, 1}] /\ events \in Nat
  BY Zenon DEF LedgerOK
<1>2. CASE events < AuditEvents
  BY <1>1, <1>2, CostsAssumption DEF Acts
<1>3. CASE events >= AuditEvents
  BY <1>1, <1>3, CostsAssumption DEF Acts
<1> QED
  BY <1>1, <1>2, <1>3, CostsAssumption

\* A state that records a fresh request as rejected, in flight or the last one is
\* in order.
LEMMA FreshIsSafe ==
  ASSUME LedgerOK, NEW q \in Request, NEW r, NEW k, Fresh(q, r, k), Acts(q),
         NEW d, Typed(d), d.status \in Open \cup {"REPORT_READY"},
         d.replays = wal.replays, d.nonce = wal.nonce, d.wall = wal.wall,
         d.pendingOp = "none",
         \A p \in Request \ {q} : d.rejected[p] = wal.rejected[p],
         d.rejected[q] # {} \/ q \in d.pendingTurn \/ d.status \in Ended
  PROVE  /\ Safe(d, spent, taken', answers) /\ taken' \in [Request -> {0, 1}]
         /\ events >= AuditEvents => taken' = taken
         /\ d.wall \in Nat /\ d.wall <= WallBudget + Overshoot
<1>1. /\ wal.status \in Open /\ wal.pendingTurn = {} /\ taken[q] = 0
      /\ spent <= wal.wall /\ wal.wall <= WallBudget /\ wal.wall \in Nat
  BY ZenonT(60), FreshIs DEF Typed
<1>2. /\ taken' \in [Request -> {0, 1}] /\ \A p \in Request \ {q} : taken'[p] = taken[p]
      /\ events >= AuditEvents => taken' = taken
  BY ZenonT(60), <1>1, ActsOnce
<1>3. wal.status \notin Ended /\ Safe(wal, spent, taken, answers) /\ spent \in Nat
  BY ZenonT(60), <1>1 DEF Open, Ended, LedgerOK
<1>4. CostOK(d, spent) /\ d.wall <= WallBudget + Overshoot
  BY <1>1, <1>3, CostsAssumption DEF CostOK
<1>5. TakenOK(d, taken')
  BY ZenonT(60), <1>1, <1>2, <1>3 DEF Safe, TakenOK
<1>6. CapsOK(d)
  <2>1. CapsOK(wal)
    BY Zenon, <1>3 DEF Safe
  <2> QED
    BY <2>1, SMTT(60) DEF CapsOK
<1>7. AnswersOK(d, answers)
  BY ZenonT(60), <1>3 DEF Safe, AnswersOK
<1>8. StageOK(d)
  BY Zenon DEF StageOK, Early, Open
<1> QED
  BY ZenonT(60), <1>1, <1>2, <1>4, <1>5, <1>6, <1>7, <1>8 DEF Safe
\* Stopping an exhausted review keeps the ledger invariant.
LEMMA BudgetStopKeeps ==
  ASSUME LedgerOK, NEW q \in Request, NEW r, NEW k, BudgetStop(q, r, k)
  PROVE  LedgerOK'
<1> DEFINE d == [wal EXCEPT !.status = "REPORT_READY", !.grants = {}]
           turn == Turn(Payload(d), d.nonce)
           S == Return({q}, turn, Closed, NewSession)
<1>1. Fresh(q, r, k) /\ Acts(q) /\ spent' = spent /\ Save(d, S, Raised(cl, srv))
  BY Zenon DEF BudgetStop
<1>2. /\ Typed(wal) /\ wal.pendingTurn = {} /\ wal.pendingOp = "none"
      /\ wal.replays[q] = {} /\ answers[q] = {}
  BY Zenon, <1>1, FreshIs
<1>3. IsData(d)
  BY <1>2, Zenon DEF Typed, IsData
<1>4. /\ d.status = "REPORT_READY" /\ d.replays = wal.replays /\ d.rejected = wal.rejected
      /\ d.pendingTurn = {} /\ d.nonce = wal.nonce /\ d.wall = wal.wall
      /\ d.pendingOp = "none"
  BY Zenon, <1>2, DataFieldsAre DEF Typed, IsData
<1> HIDE DEF d, turn
<1>5. Typed(d) /\ d.status \in Ended
  BY Zenon, <1>2, <1>3, <1>4 DEF Typed, Statuses, Ended
<1>6. /\ Safe(d, spent, taken', answers) /\ taken' \in [Request -> {0, 1}]
      /\ events >= AuditEvents => taken' = taken
      /\ d.wall \in Nat /\ d.wall <= WallBudget + Overshoot
  BY ZenonT(60), <1>1, <1>4, <1>5, FreshIsSafe
<1>7. S => /\ pc' = "idle" /\ answers'[q] = {turn}
           /\ \A p \in Request \ {q} : answers'[p] = answers[p]
  BY ZenonT(60), <1>2 DEF Return, Idle, Hands
<1>8. ASSUME wal' = d, events' \in Nat, S PROVE LedgerOK'
  <2>1. AnswersOK(d, answers')
    BY ZenonT(60), <1>2, <1>4, <1>5, <1>6, <1>7, <1>8 DEF Safe, AnswersOK
  <2>2. Safe(d, spent, taken', answers')
    BY Zenon, <1>6, <2>1 DEF Safe
  <2>3. spent \in Nat
    BY Zenon DEF LedgerOK
  <2> QED
    BY Zenon, <1>1, <1>6, <1>7, <1>8, <2>2, <2>3 DEF LedgerOK
<1>9. Raised(cl, srv) => pc' = "idle" /\ answers' = answers
  BY Zenon, FailsIsIdle
<1> HIDE DEF S
<1> QED
  BY Zenon, <1>1, <1>6, <1>8, <1>9, SaveKeeps

\* Rejecting a response keeps the ledger invariant.
LEMMA RejectKeeps ==
  ASSUME LedgerOK, NEW q \in Request, NEW r, NEW k, Reject(q, r, k)
  PROVE  LedgerOK'
<1> DEFINE c == Charged(wal)
           done == c.turns >= MaxTurns
           row == [resp |-> r, cap |-> k]
           d == [c EXCEPT !.rejected[q] = {row},
                          !.status = IF done THEN "REPORT_READY" ELSE @,
                          !.grants = IF done THEN {} ELSE @]
           b == IF done THEN Closed ELSE cl
           s == IF done THEN NewSession ELSE srv
<1>1. Fresh(q, r, k) /\ Acts(q) /\ spent' = spent /\ Save(d, Raised(b, s), Raised(b, s))
  BY Zenon DEF Reject
<1>2. /\ Typed(wal) /\ wal.status \in Open /\ wal.pendingTurn = {} /\ wal.pendingOp = "none"
  BY Zenon, <1>1, FreshIs
<1>3. Typed(c) /\ SameBooks(wal, c)
  BY Zenon, <1>2, ChargedFrame
<1> HIDE DEF c, done, row
<1>4. IsData(d)
  BY <1>3, Zenon DEF Typed, IsData
<1>5. /\ d.status \in {"REPORT_READY", c.status} /\ d.replays = c.replays
      /\ d.rejected = [c.rejected EXCEPT ![q] = {row}]
      /\ d.nonce = c.nonce /\ d.wall = c.wall /\ d.pendingOp = c.pendingOp
  BY Zenon, <1>3, DataFieldsAre DEF Typed, IsData
<1> HIDE DEF d, b, s
<1>6. /\ DOMAIN d.rejected = Request /\ d.rejected[q] # {}
      /\ \A p \in Request \ {q} : d.rejected[p] = wal.rejected[p]
  BY ZenonT(60), <1>3, <1>5 DEF Typed, SameBooks
<1>7. Typed(d) /\ d.status \in Open \cup {"REPORT_READY"}
  BY Zenon, <1>2, <1>3, <1>4, <1>5, <1>6 DEF Typed, SameBooks, Statuses
<1>8. /\ d.replays = wal.replays /\ d.nonce = wal.nonce /\ d.wall = wal.wall
      /\ d.pendingOp = "none"
  BY ZenonT(60), <1>2, <1>3, <1>5 DEF SameBooks
<1>9. /\ Safe(d, spent, taken', answers) /\ taken' \in [Request -> {0, 1}]
      /\ events >= AuditEvents => taken' = taken
      /\ d.wall \in Nat /\ d.wall <= WallBudget + Overshoot
  BY Zenon, <1>1, <1>6, <1>7, <1>8, FreshIsSafe
<1>10. Raised(b, s) => pc' = "idle" /\ answers' = answers
  BY Zenon, FailsIsIdle
<1>11. ASSUME wal' = d, events' \in Nat, Raised(b, s) PROVE LedgerOK'
  BY Zenon, <1>1, <1>9, <1>10, <1>11 DEF LedgerOK
<1> QED
  BY Zenon, <1>1, <1>9, <1>10, <1>11, SaveKeeps

\* The operations a response asks for never include a handshake or a capture.
LEMMA DispatchesQueue ==
  ASSUME NEW r \in Response
  PROVE  IsQueue(Dispatches(r), Later)
<1> DEFINE t == Dispatches(r)
           n == Len(r.requests)
<1>1. n \in Nat /\ DOMAIN r.requests = 1 .. n
  BY ResponseAssumption
<1>2. DOMAIN t = 1 .. n
  BY Zenon, <1>1 DEF Dispatches
<1>3. \A i \in 1 .. n : t[i].op \in Later
  <2> TAKE i \in 1 .. n
  <2>1. \/ t[i] = Op("context", {r.requests[i].arg}, {})
        \/ t[i] = Op("local-evidence", {}, {r.requests[i].arg})
    BY Zenon, <1>1 DEF Dispatches
  <2> QED
    BY <2>1, OpNames DEF Later, Operations
<1>4. t = [i \in 1 .. n |-> t[i]]
  BY Zenon, <1>1 DEF Dispatches
<1> HIDE DEF t, n
<1>5. t \in Seq({t[i] : i \in DOMAIN t})
  BY <1>1, <1>2, <1>4
<1> QED
  BY Zenon, <1>2, <1>3, <1>5 DEF t, IsQueue

\* Accepting a response keeps the ledger invariant.
LEMMA AcceptKeeps ==
  ASSUME LedgerOK, NEW q \in Request, NEW r \in Response, NEW k, Accept(q, r, k)
  PROVE  LedgerOK'
<1>1. Fresh(q, r, k) /\ Acts(q) /\ spent' = spent
  BY Zenon DEF Accept
<1> DEFINE t == Dispatches(r)
           j == [kind |-> "advance", req |-> {q}, resp |-> r, cap |-> k, closing |-> FALSE]
<1>2. PICK c \in Admit(Charged(wal), r.proposals) :
        LET d == [c EXCEPT !.pendingTurn = {q}, !.status = "INVESTIGATING",
                           !.assessments = @ \cup r.assessed]
        IN Save(d, Continue(NextPc(t), t, d, j), Raised(cl, srv))
  BY Zenon DEF Accept
<1> DEFINE d == [c EXCEPT !.pendingTurn = {q}, !.status = "INVESTIGATING",
                          !.assessments = @ \cup r.assessed]
           p == NextPc(t)
           S == Continue(p, t, d, j)
<1>3. Save(d, S, Raised(cl, srv))
  BY Zenon, <1>2
<1>4. /\ Typed(wal) /\ k = wal.nonce /\ ckpt # "none" /\ wal.pendingOp = "none"
      /\ wal.replays[q] = {} /\ spent <= wal.wall /\ wal.wall <= WallBudget
  BY ZenonT(60), <1>1, FreshIs
<1>5. Typed(Charged(wal)) /\ SameBooks(wal, Charged(wal))
  BY Zenon, <1>4, ChargedFrame
<1>6. Typed(c) /\ SameBooks(Charged(wal), c)
  BY Zenon, <1>2, <1>5, AdmitFrame
<1>7. IsData(d)
  BY <1>6, Zenon DEF Typed, IsData
<1>8. /\ d.status = "INVESTIGATING" /\ d.replays = c.replays /\ d.rejected = c.rejected
      /\ d.pendingTurn = {q} /\ d.nonce = c.nonce /\ d.wall = c.wall
      /\ d.pendingOp = c.pendingOp
  BY Zenon, <1>6, DataFieldsAre DEF Typed, IsData
<1>9. IsCall(j) /\ j.kind = "advance" /\ j.req = {q} /\ j.cap = k
  <2>1. IsCall(j)
    BY CallFieldsAre, Zenon DEF IsCall
  <2> QED
    BY Zenon, <2>1
<1>10. IsQueue(t, Later)
  BY Zenon, DispatchesQueue
<1>11. p \in {"finish", "reserve"} /\ (p = "reserve" => t # <<>>)
  BY Zenon DEF NextPc
<1> HIDE DEF d, j, t, p
<1>12. /\ d.replays = wal.replays /\ d.rejected = wal.rejected /\ d.nonce = wal.nonce
       /\ d.wall = wal.wall /\ d.pendingOp = "none"
  BY ZenonT(60), <1>4, <1>5, <1>6, <1>8 DEF SameBooks
<1>13. Typed(d)
  BY ZenonT(60), <1>4, <1>7, <1>8, <1>12 DEF Typed, Statuses
<1>14. /\ Safe(d, spent, taken', answers) /\ taken' \in [Request -> {0, 1}]
       /\ events >= AuditEvents => taken' = taken
       /\ d.wall \in Nat /\ d.wall <= WallBudget + Overshoot
  BY ZenonT(60), <1>1, <1>8, <1>12, <1>13, FreshIsSafe DEF Open
<1>15. Active(p, t, d, j, d)
  <2>1. AdvanceOK(d, d, j, t)
    BY Zenon, <1>4, <1>8, <1>9, <1>10, <1>12 DEF AdvanceOK
  <2>2. StepCostOK(p, d, d)
    BY ZenonT(60), <1>4, <1>11, <1>12 DEF StepCostOK, Between
  <2> QED
    BY ZenonT(60), <1>9, <1>11, <1>13, <2>1, <2>2 DEF Active, Agrees, Between
<1>16. ASSUME wal' = d, events' \in Nat, ckpt' = "current", S PROVE LedgerOK'
  BY Zenon, <1>1, <1>11, <1>14, <1>15, <1>16, GoesOn DEF Between
<1>17. Raised(cl, srv) => pc' = "idle" /\ answers' = answers
  BY Zenon, FailsIsIdle
<1> HIDE DEF S
<1> QED
  BY Zenon, <1>1, <1>3, <1>14, <1>16, <1>17, SaveKeeps
\* The ledger invariant holds before the first review.
LEMMA InitLedger ==
  ASSUME Init
  PROVE  LedgerOK
<1>1. Typed(wal) /\ wal.status = "NONE" /\ wal = NoData /\ spent = 0 /\ wal.wall = 0
  BY ZenonT(60), NoDataTyped DEF Init, NoData
<1>2. \A r \in Request : wal.replays[r] = {} /\ taken[r] = 0 /\ answers[r] = {}
  BY Zenon DEF Init, NoData
<1>3. CostOK(wal, spent) /\ StageOK(wal)
  BY SMTT(30), <1>1, CostsAssumption DEF CostOK, StageOK, Early, Open
<1>4. Safe(wal, spent, taken, answers)
  BY Zenon, <1>1, <1>2, <1>3, BlankIsSafe
<1> QED
  BY <1>1, <1>4 DEF Init, LedgerOK

\* A step that changes nothing.
LEMMA StutterKeeps ==
  ASSUME LedgerOK, UNCHANGED vars
  PROVE  LedgerOK'
<1>1. /\ wal' = wal /\ ckpt' = ckpt /\ events' = events /\ mem' = mem /\ pc' = pc
      /\ todo' = todo /\ call' = call /\ last' = last
      /\ spent' = spent /\ taken' = taken /\ answers' = answers
  BY Zenon DEF vars, durable, control, history
<1>2. Active(pc, todo, mem, call, wal) => Active(pc, todo, mem, call, wal)'
  <2>1. StepCostOK(pc, mem, wal) => StepCostOK(pc, mem, wal)'
    BY Zenon, <1>1 DEF StepCostOK
  <2> QED
    BY Zenon, <1>1, <2>1 DEF Active
<1> QED
  BY Zenon, <1>1, <1>2 DEF LedgerOK

\* No step of the controller breaks the ledger invariant.
LEMMA StepKeeps ==
  ASSUME LedgerOK, [Next]_vars
  PROVE  LedgerOK'
<1>1. CASE StartReview
  BY Zenon, <1>1, StartKeeps
<1>2. CASE Step
  BY Zenon, <1>2, ReserveKeeps, DispatchKeeps, CompleteKeeps, PinnedKeeps, DiscoverKeeps,
     ReportReadyKeeps, SealKeeps, AbortKeeps DEF Step
<1>3. CASE Recover \/ Crash
  BY Zenon, <1>3, RecoverKeeps, CrashKeeps
<1>4. ASSUME NEW q \in Request, NEW r \in Response, NEW k \in 1 .. (MaxTurns + 1),
             Advance(q, r, k)
      PROVE  LedgerOK'
  BY Zenon, <1>4, ReplayKeeps, BudgetStopKeeps, RejectKeeps, AcceptKeeps DEF Advance
<1>5. CASE UNCHANGED vars
  BY Zenon, <1>5, StutterKeeps
<1> QED
  BY Zenon, <1>1, <1>2, <1>3, <1>4, <1>5 DEF Next

(***************************************************************************)
(* The theorems                                                            *)
(***************************************************************************)

\* The store is in order and a call in progress agrees with it, whatever crashes,
\* retries and answers come.
THEOREM LedgerInvariant == Spec => []LedgerOK
<1>1. Init => LedgerOK
  BY Zenon, InitLedger
<1>2. LedgerOK /\ [Next]_vars => LedgerOK'
  BY Zenon, StepKeeps
<1> QED
  BY <1>1, <1>2, PTL DEF Spec

\* For any number of requests, turns and crashes: a host request is charged and acted
\* on at most once, and a capability is consumed by at most one turn.
THEOREM RequestsActOnce == Spec => []ActedOnce
<1>1. LedgerOK => ActedOnce
  <2>1. LedgerOK => \A q \in Request : taken[q] <= 1
    BY DEF LedgerOK
  <2> QED
    BY Zenon, <2>1 DEF LedgerOK, Safe, CapsOK, ActedOnce
<1> QED
  BY <1>1, LedgerInvariant, PTL

\* For any budget, reservation and overshoot: the journalled cost covers the work the
\* backend has done but for one overshoot, and passes the budget by no more.
THEOREM CostIsCovered == Spec => []SpentIsCovered
<1>1. LedgerOK => SpentIsCovered
  BY Zenon DEF LedgerOK, Safe, CostOK, SpentIsCovered
<1> QED
  BY <1>1, LedgerInvariant, PTL

\* Every answer to a request is the same turn with the same capability.
THEOREM AnswersAreStable == Spec => []AnswersStable
<1>1. ASSUME LedgerOK, NEW q \in Request PROVE \A a, b \in answers[q] : a = b
  <2>1. answers[q] = {} \/ \E t : answers[q] = {t}
    BY <1>1, Zenon DEF LedgerOK, Safe, AnswersOK
  <2> QED
    BY Zenon, <2>1
<1>2. LedgerOK => AnswersStable
  BY Zenon, <1>1 DEF AnswersStable
<1> QED
  BY <1>2, LedgerInvariant, PTL

\* No call is in progress on a review that has ended.
LEMMA EndedIsIdle ==
  ASSUME LedgerOK, wal.status \in {"ABORTED", "CLOSED"}
  PROVE  pc = "idle" /\ wal.status \notin Open \cup {"NONE"}
         /\ (wal.status = "CLOSED" => ~Pending(wal))
<1>1. pc = "idle"
  BY Zenon, ActiveKinds DEF Active, StartOK, AdvanceOK, Early
<1>2. wal.status = "CLOSED" => ~Pending(wal)
  BY Zenon DEF LedgerOK, Safe, StageOK, Pending
<1> QED
  BY Zenon, <1>1, <1>2 DEF Open

\* A journalled end is final: no step of the host, of a call, of recovery or of a
\* crash changes an aborted or closed review.
THEOREM EndingsAreFinal == Spec => EndIsFinal
<1>1. ASSUME LedgerOK, [Next]_vars, wal.status \in {"ABORTED", "CLOSED"}
      PROVE  wal' = wal
  <2>1. pc = "idle" /\ wal.status \notin Open \cup {"NONE"}
        /\ (wal.status = "CLOSED" => ~Pending(wal))
    BY Zenon, <1>1, EndedIsIdle
  <2>2. ~StartReview /\ ~Recover
    BY Zenon, <1>1, <2>1 DEF StartReview, Recover
  <2>3. ~Step
    BY Zenon, <2>1 DEF Step, Reserve, Dispatch, Complete, Pinned, Discover, ReportReady, Seal, Abort
  <2>4. Crash => wal' = wal
    BY Zenon DEF Crash, durable
  <2>5. ASSUME NEW q, NEW r, NEW k, Advance(q, r, k) PROVE wal' = wal
    <3>1. ~Fresh(q, r, k)
      BY Zenon, <2>1 DEF Fresh
    <3>2. Replay(q, r, k)
      BY Zenon, <2>5, <3>1 DEF Advance, BudgetStop, Reject, Accept
    <3> QED
      BY Zenon, <3>2 DEF Replay, durable
  <2>6. CASE UNCHANGED vars
    BY Zenon, <2>6 DEF vars, durable
  <2> QED
    BY Zenon, <1>1, <2>2, <2>3, <2>4, <2>5, <2>6 DEF Next
<1>2. LedgerOK /\ [Next]_vars => [wal.status \in {"ABORTED", "CLOSED"} => wal' = wal]_vars
  BY Zenon, <1>1
<1> QED
  BY <1>2, LedgerInvariant, PTL DEF Spec, EndIsFinal
(***************************************************************************)
(* The transport and the session                                           *)
(***************************************************************************)

\* The fields of the controller's end of the session.
LEMMA TransportFieldsAre == TransportFields = {"closed", "caps", "binding"}
BY Zenon DEF TransportFields, NewTransport

\* The fields of the engine's end of the session.
LEMMA SessionFieldsAre == SessionFields = {"negotiated", "pinned", "captures", "seen"}
BY Zenon DEF SessionFields, NewSession

\* A step that leaves both ends alone, or ends both.
KeepsSession ==
  \/ UNCHANGED session
  \/ cl' \in {NewTransport, Closed} /\ srv' = NewSession

\* Both ends start, and the transport closes, well formed and unpinned.
LEMMA NewEnds ==
  /\ IsTransport(NewTransport) /\ IsTransport(Closed) /\ IsSession(NewSession)
  /\ NewTransport.caps = {"handshake"} /\ NewTransport.binding = 0
  /\ Closed.caps = {} /\ Closed.closed /\ NewSession.pinned = 0
<1>1. IsTransport(NewTransport)
  BY TransportFieldsAre, Zenon DEF IsTransport, NewTransport
<1>2. IsTransport(Closed)
  BY <1>1, Zenon DEF IsTransport, Closed
<1>3. IsSession(NewSession)
  BY SessionFieldsAre, Zenon DEF IsSession, NewSession
<1>4. /\ NewTransport.caps = {"handshake"} /\ NewTransport.binding = 0
      /\ Closed.caps = {} /\ NewSession.pinned = 0
  BY Zenon DEF NewTransport, Closed, NewSession
<1>5. Closed.closed
  BY Zenon DEF NewTransport, Closed
<1> QED
  BY Zenon, <1>1, <1>2, <1>3, <1>4, <1>5

\* A step that touches neither end, or starts both anew, keeps the session
\* invariant.
LEMMA EndsKeep ==
  ASSUME SessionOK, KeepsSession
  PROVE  SessionOK'
<1>1. CASE UNCHANGED session
  BY Zenon, <1>1 DEF SessionOK, session
<1>2. CASE cl' = NewTransport /\ srv' = NewSession
  BY Zenon, <1>2, NewEnds DEF SessionOK, Operations
<1>3. CASE cl' = Closed /\ srv' = NewSession
  BY Zenon, <1>3, NewEnds DEF SessionOK
<1> QED
  BY Zenon, <1>1, <1>2, <1>3 DEF KeepsSession

\* Journalling does to the ends what its continuation does.
LEMMA JournalEnds ==
  ASSUME NEW d, NEW n, NEW ACTION S, Journal(d, n, S), S => KeepsSession
  PROVE  KeepsSession
<1>1. S \/ Die
  BY Zenon DEF Journal
<1> QED
  BY Zenon, <1>1 DEF Die, Idle, KeepsSession

\* Saving does to the ends what its two continuations do.
LEMMA SaveEnds ==
  ASSUME NEW d, NEW ACTION S, NEW ACTION R, Save(d, S, R),
         S => KeepsSession, R => KeepsSession
  PROVE  KeepsSession
<1>1. \/ Journal(d, events + 1, S) \/ Journal(Aborted(wal, d.wall), events, R) \/ R
  BY Zenon DEF Save
<1>2. CASE Journal(d, events + 1, S)
  BY <1>2, JournalEnds
<1>3. CASE Journal(Aborted(wal, d.wall), events, R)
  BY <1>3, JournalEnds
<1> QED
  BY Zenon, <1>1, <1>2, <1>3

\* How a call may leave both ends.
LEMMA CallEnds ==
  /\ \A p, t, d, k : Continue(p, t, d, k) => KeepsSession
  /\ \A q, t : Return(q, t, cl, srv) => KeepsSession
  /\ \A q, t : Return(q, t, Closed, NewSession) => KeepsSession
  /\ Raised(cl, srv) => KeepsSession
  /\ Fails => KeepsSession
BY Zenon DEF Continue, Return, Raised, Fails, Idle, KeepsSession, session
\* Every step but the dispatch itself leaves both ends alone or ends both.
LEMMA OtherSteps ==
  ASSUME LedgerOK, [Next]_vars
  PROVE  KeepsSession \/ Dispatch
<1>1. StartReview => KeepsSession
  BY CallEnds, SaveEnds DEF StartReview
<1>2. Reserve => KeepsSession
  BY CallEnds, SaveEnds DEF Reserve
<1>3. Complete => KeepsSession
  <2> SUFFICES ASSUME Complete PROVE KeepsSession
    BY Zenon
  <2> DEFINE d == [mem EXCEPT !.pendingOp = "none"]
  <2>1. pc = "complete" /\ Save(d, Completed(d), Fails)
    BY Zenon DEF Complete, Completed
  <2>2. d = [mem EXCEPT !.pendingOp = "none"]
    BY Zenon
  <2> HIDE DEF d
  <2>3. Completed(d) => KeepsSession
    BY Zenon, <2>1, <2>2, CompletedContinues, CallEnds
  <2> QED
    BY <2>1, <2>3, CallEnds, SaveEnds
<1>4. Pinned => KeepsSession
  BY CallEnds, SaveEnds DEF Pinned
<1>5. Discover => KeepsSession
  BY CallEnds, SaveEnds DEF Discover
<1>6. ReportReady => KeepsSession
  BY CallEnds, SaveEnds DEF ReportReady
<1>7. Seal => KeepsSession
  <2> SUFFICES ASSUME Seal PROVE KeepsSession
    BY Zenon
  <2> DEFINE done == call.closing \/ mem.turns >= MaxTurns
  <2>1. \E f, q, t : Save(f, Return(q, t, IF done THEN Closed ELSE cl,
                                    IF done THEN NewSession ELSE srv), Fails)
    BY ZenonT(60) DEF Seal
  <2>2. PICK f, q, t : Save(f, Return(q, t, IF done THEN Closed ELSE cl,
                                      IF done THEN NewSession ELSE srv), Fails)
    BY Zenon, <2>1
  <2>3. Return(q, t, IF done THEN Closed ELSE cl, IF done THEN NewSession ELSE srv)
        => KeepsSession
    BY Zenon, CallEnds
  <2> HIDE DEF done
  <2> QED
    BY <2>2, <2>3, CallEnds, SaveEnds
<1>8. Abort => KeepsSession
  BY CallEnds, JournalEnds DEF Abort
<1>9. Recover => KeepsSession
  BY CallEnds, JournalEnds DEF Recover
<1>10. Crash => KeepsSession
  BY Zenon DEF Crash, Die, Idle, KeepsSession
<1>11. ASSUME NEW q, NEW r, NEW k, Advance(q, r, k) PROVE KeepsSession
  <2>1. Replay(q, r, k) => KeepsSession
    BY Zenon DEF Replay, KeepsSession
  <2>2. BudgetStop(q, r, k) => KeepsSession
    BY CallEnds, SaveEnds DEF BudgetStop
  <2>3. Reject(q, r, k) => KeepsSession
    <3> SUFFICES ASSUME Reject(q, r, k) PROVE KeepsSession
      BY Zenon
    <3> DEFINE done == Charged(wal).turns >= MaxTurns
               b == IF done THEN Closed ELSE cl
               s == IF done THEN NewSession ELSE srv
    <3>1. \E d : Save(d, Raised(b, s), Raised(b, s))
      BY Zenon DEF Reject
    <3>2. PICK d : Save(d, Raised(b, s), Raised(b, s))
      BY Zenon, <3>1
    <3>3. Raised(b, s) => KeepsSession
      BY Zenon DEF Raised, Idle, KeepsSession, session
    <3> HIDE DEF b, s
    <3> QED
      BY <3>2, <3>3, SaveEnds
  <2>4. Accept(q, r, k) => KeepsSession
    <3> SUFFICES ASSUME Accept(q, r, k) PROVE KeepsSession
      BY Zenon
    <3>1. \E d, t, j : Save(d, Continue(NextPc(t), t, d, j), Raised(cl, srv))
      BY Zenon DEF Accept
    <3> QED
      BY <3>1, CallEnds, SaveEnds
  <2> QED
    BY Zenon, <1>11, <2>1, <2>2, <2>3, <2>4 DEF Advance
<1>12. UNCHANGED vars => KeepsSession
  BY Zenon DEF vars, KeepsSession
<1> QED
  BY ZenonT(60), <1>1, <1>2, <1>3, <1>4, <1>5, <1>6, <1>7, <1>8, <1>9, <1>10, <1>11, <1>12
  DEF Next, Step

\* The native session changes its pinned snapshot only together with a successful
\* answer: a capture's names the new one, a release leaves none.
LEMMA RepliesPin ==
  ASSUME NEW s, IsSession(s), NEW q, q.op \in Operations, NEW r \in Replies(s, q)
  PROVE  /\ IsSession(r[2])
         /\ ~r[1].ok => r[2].pinned = s.pinned
         /\ r[1].ok /\ q.op \notin {"capture", "release"} => r[2].pinned = s.pinned
         /\ r[1].ok /\ q.op = "capture" => r[2].pinned = r[1].binding
         /\ r[1].ok /\ q.op = "release" => r[2].pinned = 0
<1> DEFINE t == Counted(s)
<1>1. IsSession(t)
  BY Zenon DEF IsSession, Counted
<1>2. t.pinned = s.pinned
  BY Zenon, SessionFieldsAre DEF IsSession, Counted
<1>3. ASSUME NEW a, NEW b, NEW c, NEW x, a = Answer(TRUE, b, c, x)
      PROVE  a.ok /\ a.binding = b
  BY Zenon, <1>3 DEF Answer
<1>4. ~Refused.ok
  BY Zenon DEF Refused, Answer
<1>5. ASSUME NEW u, IsSession(u), u.pinned = s.pinned, r \in Refuse(u)
      PROVE  IsSession(r[2]) /\ r[2].pinned = s.pinned /\ ~r[1].ok
  BY <1>4, <1>5 DEF Refuse
<1> HIDE DEF t
<1>6. CASE s.seen >= MaxRequests
  BY Zenon, <1>5, <1>6 DEF Replies
<1>7. CASE ~(s.seen >= MaxRequests) /\ q.op # "handshake" /\ ~t.negotiated
  <2>1. r \in Refuse(t)
    BY <1>7, Zenon DEF Replies, t
  <2> QED
    BY Zenon, <1>1, <1>2, <1>5, <2>1
<1>8. CASE ~(s.seen >= MaxRequests) /\ q.op = "handshake"
  <2> DEFINE v == [t EXCEPT !.negotiated = TRUE]
  <2>1. r \in Handshake(t)
    BY <1>8, Zenon DEF Replies, t
  <2>2. r \in Refuse(t) \/ r = <<Answer(TRUE, 0, {}, {}), v>>
    BY ZenonT(60), <2>1 DEF Handshake
  <2>3. IsSession(v)
    BY <1>1, Zenon DEF IsSession
  <2>4. v.pinned = s.pinned
    BY Zenon, <1>1, <1>2, SessionFieldsAre DEF IsSession
  <2> HIDE DEF v
  <2>5. CASE r \in Refuse(t)
    BY ZenonT(60), <1>1, <1>2, <1>5, <2>5
  <2>6. CASE r = <<Answer(TRUE, 0, {}, {}), v>>
    <3>1. r[2] = v
      BY Zenon, <2>6
    <3> QED
      BY Zenon, <1>8, <2>3, <2>4, <3>1
  <2> QED
    BY Zenon, <2>2, <2>5, <2>6
<1>9. CASE ~(s.seen >= MaxRequests) /\ q.op = "capture" /\ t.negotiated
  <2> DEFINE b == t.captures + 1
             v == [t EXCEPT !.pinned = b, !.captures = b]
  <2>1. r \in Capture(t)
    BY <1>9, Zenon DEF Replies, t
  <2>2. r \in Refuse(t) \/ r = <<Answer(TRUE, b, Ctx, {}), v>>
    BY ZenonT(60), <2>1 DEF Capture
  <2>3. IsSession(v)
    BY <1>1, Zenon DEF IsSession
  <2>4. v.pinned = b
    BY Zenon, <1>1, SessionFieldsAre DEF IsSession
  <2> HIDE DEF v, b
  <2>5. CASE r \in Refuse(t)
    BY Zenon, <1>1, <1>2, <1>5, <2>5
  <2>6. CASE r = <<Answer(TRUE, b, Ctx, {}), v>>
    <3>1. r[2] = v /\ r[1] = Answer(TRUE, b, Ctx, {})
      BY Zenon, <2>6
    <3>2. r[1].ok /\ r[1].binding = b
      BY Zenon, <1>3, <3>1
    <3> QED
      BY ZenonT(60), <1>9, <2>3, <2>4, <3>1, <3>2
  <2> QED
    BY Zenon, <2>2, <2>5, <2>6
<1>10. CASE ~(s.seen >= MaxRequests) /\ q.op \notin {"handshake", "capture"} /\ t.negotiated
  <2>1. \/ r \in Refuse(t)
        \/ q.op = "release" /\ r \in Release(t)
        \/ q.op = "context" /\ r \in Context(t, q)
        \/ q.op = "seed-candidates" /\ r \in SeedCandidates(t, q)
        \/ q.op = "local-evidence" /\ r \in LocalEvidence(t, q)
    BY <1>10, Zenon DEF Replies, t, Operations
  <2>2. ASSUME NEW c, NEW y, r = <<Answer(TRUE, t.pinned, c, y), t>>, q.op # "release"
        PROVE  IsSession(r[2]) /\ r[2].pinned = s.pinned
    BY Zenon, <1>1, <1>2, <2>2
  <2>3. CASE q.op = "release" /\ r \in Release(t)
    <3> DEFINE v == [t EXCEPT !.pinned = 0]
    <3>1. r \in Refuse(t) \/ r = <<Answer(TRUE, t.pinned, {}, {}), v>>
      BY Zenon, <2>3 DEF Release
    <3>2. IsSession(v)
      BY <1>1, Zenon DEF IsSession
    <3>3. v.pinned = 0
      BY Zenon, <1>1, SessionFieldsAre DEF IsSession
    <3> HIDE DEF v
    <3>4. CASE r \in Refuse(t)
      BY Zenon, <1>1, <1>2, <1>5, <3>4
    <3>5. CASE r = <<Answer(TRUE, t.pinned, {}, {}), v>>
      <4>1. r[2] = v /\ r[1] = Answer(TRUE, t.pinned, {}, {})
        BY Zenon, <3>5
      <4>2. r[1].ok
        BY ZenonT(60), <1>3, <4>1
      <4> QED
        BY ZenonT(60), <2>3, <3>2, <3>3, <4>1, <4>2
    <3> QED
      BY Zenon, <3>1, <3>4, <3>5
  <2>4. CASE q.op = "context" /\ r \in Context(t, q)
    <3>1. r \in Refuse(t) \/ r = <<Answer(TRUE, t.pinned, q.ctx, {}), t>>
      BY Zenon, <2>4 DEF Context
    <3> QED
      BY ZenonT(60), <1>1, <1>2, <1>5, <2>2, <2>4, <3>1
  <2>5. CASE q.op = "seed-candidates" /\ r \in SeedCandidates(t, q)
    <3>1. r \in Refuse(t) \/ \E y : r = <<Answer(TRUE, t.pinned, {}, y), t>>
      BY <2>5, Zenon DEF SeedCandidates
    <3> QED
      BY Zenon, <1>1, <1>2, <1>5, <2>2, <2>5, <3>1
  <2>6. CASE q.op = "local-evidence" /\ r \in LocalEvidence(t, q)
    <3>1. r \in Refuse(t) \/ r = <<Answer(TRUE, t.pinned, {}, q.site), t>>
      BY Zenon, <2>6 DEF LocalEvidence
    <3> QED
      BY ZenonT(60), <1>1, <1>2, <1>5, <2>2, <2>6, <3>1
  <2> QED
    BY ZenonT(60), <1>1, <1>2, <1>5, <1>10, <2>1, <2>3, <2>4, <2>5, <2>6
<1> QED
  BY Zenon, <1>6, <1>7, <1>8, <1>9, <1>10
\* What the transport learns from the answers that concern the snapshot.
LEMMA LearnPins ==
  ASSUME NEW c, IsTransport(c), c.caps \subseteq Operations, NEW op, NEW a, NEW e,
         e = Learn(c, op, a)
  PROVE  /\ IsTransport(e) /\ e.caps \subseteq Operations
         /\ e.closed = c.closed
         /\ op \notin {"capture", "release"} => e.binding = c.binding
         /\ op = "capture" => e.binding = a.binding
         /\ op = "release" => e.binding = 0
<1>1. CASE op = "handshake"
  <2>1. e = [c EXCEPT !.caps = {"handshake", "capture"}]
    BY Zenon, <1>1 DEF Learn
  <2>2. IsTransport(e)
    BY <2>1, Zenon DEF IsTransport
  <2>3. e.caps = {"handshake", "capture"} /\ e.binding = c.binding /\ e.closed = c.closed
    BY Zenon, <2>1, TransportFieldsAre DEF IsTransport
  <2> QED
    BY Zenon, <1>1, <2>2, <2>3 DEF Operations
<1>2. CASE op = "capture"
  <2>1. e = [c EXCEPT !.caps = Operations, !.binding = a.binding]
    BY Zenon, <1>2 DEF Learn
  <2>2. IsTransport(e)
    BY <2>1, Zenon DEF IsTransport
  <2>3. e.caps = Operations /\ e.binding = a.binding /\ e.closed = c.closed
    BY ZenonT(60), <2>1, TransportFieldsAre DEF IsTransport
  <2> QED
    BY Zenon, <1>2, <2>2, <2>3
<1>3. CASE op = "release"
  <2>1. e = [c EXCEPT !.caps = {"handshake", "capture"}, !.binding = 0]
    BY Zenon, <1>3 DEF Learn
  <2>2. IsTransport(e)
    BY <2>1, Zenon DEF IsTransport
  <2>3. e.caps = {"handshake", "capture"} /\ e.binding = 0 /\ e.closed = c.closed
    BY Zenon, <2>1, TransportFieldsAre DEF IsTransport
  <2> QED
    BY Zenon, <1>3, <2>2, <2>3 DEF Operations
<1>4. CASE op \notin {"handshake", "capture", "release"}
  BY Zenon, <1>4 DEF Learn
<1> QED
  BY ZenonT(60), <1>1, <1>2, <1>3, <1>4

\* A dispatch leaves both ends in agreement, whatever the answer.
LEMMA DispatchAgrees ==
  ASSUME SessionOK, Dispatch
  PROVE  SessionOK'
<1> DEFINE q == [Head(todo) EXCEPT !.binding = mem.binding]
           sent == ~cl.closed /\ q.op \in cl.caps
<1>1. \/ UNCHANGED session
      \/ \E r \in Replies(srv, q) :
           sent /\ r[1].ok /\ cl' = Learn(cl, q.op, r[1]) /\ srv' = r[2]
      \/ \E r \in Replies(srv, q) : sent /\ ~r[1].ok /\ cl' = cl /\ srv' = r[2]
      \/ cl' = Closed /\ srv' = NewSession
  BY Zenon DEF Dispatch
<1> HIDE DEF q
<1>2. /\ IsTransport(cl) /\ IsSession(srv) /\ cl.caps \subseteq Operations
      /\ ~cl.closed => cl.binding = srv.pinned
  BY Zenon DEF SessionOK
<1>3. ASSUME NEW r \in Replies(srv, q), sent, r[1].ok,
             cl' = Learn(cl, q.op, r[1]), srv' = r[2]
      PROVE  SessionOK'
  <2>1. q.op \in Operations
    BY Zenon, <1>2, <1>3
  <2>2. /\ IsSession(srv')
        /\ q.op \notin {"capture", "release"} => srv'.pinned = srv.pinned
        /\ q.op = "capture" => srv'.pinned = r[1].binding
        /\ q.op = "release" => srv'.pinned = 0
    BY ZenonT(60), <1>2, <1>3, <2>1, RepliesPin
  <2>3. /\ IsTransport(cl') /\ cl'.caps \subseteq Operations
        /\ q.op \notin {"capture", "release"} => cl'.binding = cl.binding
        /\ q.op = "capture" => cl'.binding = r[1].binding
        /\ q.op = "release" => cl'.binding = 0
    <3>1. IsTransport(cl) /\ cl.caps \subseteq Operations /\ cl' = Learn(cl, q.op, r[1])
      BY Zenon, <1>2, <1>3
    <3> QED
      BY <3>1, LearnPins
  <2>4. cl'.binding = srv'.pinned
    <3>1. cl.binding = srv.pinned
      BY Zenon, <1>2, <1>3
    <3>2. CASE q.op = "capture"
      BY Zenon, <2>2, <2>3, <3>2
    <3>3. CASE q.op = "release"
      BY Zenon, <2>2, <2>3, <3>3
    <3>4. CASE q.op \notin {"capture", "release"}
      BY Zenon, <2>2, <2>3, <3>1, <3>4
    <3> QED
      BY Zenon, <3>2, <3>3, <3>4
  <2> QED
    BY ZenonT(60), <2>2, <2>3, <2>4 DEF SessionOK
<1>4. ASSUME NEW r \in Replies(srv, q), sent, ~r[1].ok, cl' = cl, srv' = r[2]
      PROVE  SessionOK'
  <2>1. q.op \in Operations
    BY Zenon, <1>2, <1>4
  <2>2. IsSession(srv') /\ srv'.pinned = srv.pinned
    BY Zenon, <1>2, <1>4, <2>1, RepliesPin
  <2> QED
    BY Zenon, <1>2, <1>4, <2>2 DEF SessionOK
<1>5. CASE UNCHANGED session \/ (cl' = Closed /\ srv' = NewSession)
  BY Zenon, <1>5, EndsKeep DEF KeepsSession
<1> QED
  BY Zenon, <1>1, <1>3, <1>4, <1>5

\* An open transport names the snapshot the native session has pinned.
THEOREM SessionInvariant == Spec => []SessionOK
<1>1. Init => SessionOK
  BY Zenon, NewEnds DEF Init, SessionOK, Operations
<1>2. LedgerOK /\ SessionOK /\ [Next]_vars => SessionOK'
  BY Zenon, OtherSteps, EndsKeep, DispatchAgrees
<1> QED
  BY <1>1, <1>2, LedgerInvariant, PTL DEF Spec

\* For any contexts, callsites and request limit: between calls the transport and the
\* native session agree on the pinned snapshot, and so they do during a dispatch.
THEOREM SessionsAgree == Spec => []SessionAgrees
<1>1. SessionOK => SessionAgrees
  BY Zenon DEF SessionOK, SessionAgrees
<1> QED
  BY <1>1, SessionInvariant, PTL
=============================================================================
