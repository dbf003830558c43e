--------------------------- MODULE ReviewBackend ---------------------------
(* The native review session (src/review/ReviewBackend.cpp): one resident   *)
(* process that answers requests in order.  A session is a record; for each *)
(* request the replies it may give, and the session each leaves behind, are *)
(* the set Replies.  Capture and the structural index are abstracted to the *)
(* binding they publish, deadlines and byte limits to a reply of "refused". *)
EXTENDS Naturals, FiniteSets

CONSTANTS Ctx,          \* contexts a capture advertises
          Site,         \* copy callsites in the structural index
          CtxOf,        \* the context whose indexed view holds a callsite
          SeedSites,    \* callsites in files that differ from the base
          MaxRequests   \* config_.max_requests

\* Requests.  A binding is the number of the capture that published it.
Operations == {"handshake", "capture", "context", "seed-candidates",
               "local-evidence", "release"}

Request0(op) == [op |-> op, binding |-> 0, ctx |-> {}, site |-> {}, limit |-> 0]

\* ReviewBackend's members: negotiated_, state_ (0 when no snapshot is pinned),
\* the captures it has published, and the request identifiers it has seen.
NewSession == [negotiated |-> FALSE, pinned |-> 0, captures |-> 0, seen |-> 0]

\* An answer: ok or refused, with the contexts, candidate sites and evidence it
\* carries and the binding it names.
Answer(ok, b, c, s) == [ok |-> ok, binding |-> b, ctx |-> c, site |-> s]
Refused == Answer(FALSE, 0, {}, {})

\* A request counts against the session whatever becomes of it.
Counted(s) == [s EXCEPT !.seen = @ + 1]
Refuse(s) == {<<Refused, s>>}

\* Negotiation succeeds only when its own response is within the limits.
Handshake(s) ==
  Refuse(s) \cup {<<Answer(TRUE, 0, {}, {}), [s EXCEPT !.negotiated = TRUE]>>}

\* Mutant: the snapshot is pinned even when the response is refused.
CaptureEarly(s) ==
  IF s.pinned # 0 THEN Refuse(s)
  ELSE LET b == s.captures + 1
           t == [s EXCEPT !.pinned = b, !.captures = b]
       IN Refuse(t) \cup {<<Answer(TRUE, b, Ctx, {}), t>>}

\* Capture needs no pinned snapshot.  The pending state becomes the session's
\* only together with a successful response.
Capture(s) ==
  IF s.pinned # 0 THEN Refuse(s)
  ELSE LET b == s.captures + 1
       IN Refuse(s) \cup
          {<<Answer(TRUE, b, Ctx, {}), [s EXCEPT !.pinned = b, !.captures = b]>>}

\* Every other operation names the pinned snapshot.
Bound(s, q) == s.pinned # 0 /\ q.binding = s.pinned

\* Release drops the snapshot only together with a successful response.
Release(s) ==
  Refuse(s) \cup {<<Answer(TRUE, s.pinned, {}, {}), [s EXCEPT !.pinned = 0]>>}

\* Advertised contexts only; an excerpt over the allowance refuses the request.
Context(s, q) ==
  Refuse(s) \cup
  (IF q.ctx \subseteq Ctx THEN {<<Answer(TRUE, s.pinned, q.ctx, {}), s>>} ELSE {})

\* Direct copies in the changed files of the named contexts, up to the limit.
SeedCandidates(s, q) ==
  LET sites == {x \in SeedSites : CtxOf[x] \in q.ctx}
  IN Refuse(s) \cup
     (IF q.ctx \subseteq Ctx
      THEN {<<Answer(TRUE, s.pinned, {}, y), s>> :
              y \in {z \in SUBSET sites :
                       Cardinality(z) = IF Cardinality(sites) <= q.limit
                                        THEN Cardinality(sites) ELSE q.limit}}
      ELSE {})

\* Evidence about one advertised callsite.
LocalEvidence(s, q) ==
  Refuse(s) \cup
  (IF q.site \subseteq Site THEN {<<Answer(TRUE, s.pinned, {}, q.site), s>>} ELSE {})

\* ReviewBackend::Call: the request count, negotiation, the binding, the handler.
Replies(s, q) ==
  IF s.seen >= MaxRequests THEN Refuse(s)
  ELSE LET t == Counted(s)
       IN CASE q.op = "handshake" -> Handshake(t)
            [] q.op # "handshake" /\ ~t.negotiated -> Refuse(t)
            [] q.op = "capture" /\ t.negotiated -> Capture(t)
            [] q.op \notin {"handshake", "capture"} /\ t.negotiated ->
                 IF ~Bound(t, q) THEN Refuse(t)
                 ELSE CASE q.op = "release" -> Release(t)
                        [] q.op = "context" -> Context(t, q)
                        [] q.op = "seed-candidates" -> SeedCandidates(t, q)
                        [] q.op = "local-evidence" -> LocalEvidence(t, q)
=============================================================================
