------------------------- MODULE MCReviewController -------------------------
(* Two source contexts with one copy callsite each, and two host             *)
(* requests over a few responses, so that retries, reuse of an identifier,   *)
(* rejections, an exhausted budget and both kinds of finish all happen.      *)
EXTENDS ReviewController, TLC

CONSTANTS c1, c2, s1, s2, q1, q2

MCCtx == {c1, c2}
MCSite == {s1, s2}
MCCtxOf == (s1 :> c1) @@ (s2 :> c2)
MCKind == (c1 :> "SOURCE") @@ (c2 :> "SOURCE")
MCRequest == {q1, q2}

Plain == [decodes |-> TRUE, usage |-> TRUE, requests |-> <<>>, proposals |-> {},
          assessed |-> {}, finish |-> FALSE]
AskContext == <<[op |-> "context", arg |-> c2]>>
AskEvidence == <<[op |-> "local-evidence", arg |-> s1]>>
MCResponse ==
  {[Plain EXCEPT !.requests = AskContext, !.proposals = {s1}],
   [Plain EXCEPT !.requests = AskEvidence \o AskContext, !.assessed = {s1}],
   [Plain EXCEPT !.requests = AskEvidence, !.finish = TRUE],
   [Plain EXCEPT !.decodes = FALSE],
   [Plain EXCEPT !.usage = FALSE]}
=============================================================================
