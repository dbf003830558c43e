-------------------------- MODULE StructuralIndex --------------------------
(* BuildStructuralIndex, its compiler worker and InvestigateLocal            *)
(* (src/review/StructuralIndex.cpp, LocalEvidence.cpp) as operators.  The    *)
(* compiler is what it did with each command: "clean", "error" or            *)
(* "truncated"; a parsed unit contributes the copy callsites it contains.    *)
(* The AST of a callsite is abstracted to what the collector looks at: the   *)
(* form of the call, its destination, its length operand, and the body of    *)
(* the function with the branches around the call.                           *)
EXTENDS Naturals, FiniteSets

CONSTANTS SitesIn,     \* SitesIn[p]: copy callsites of unit p
          MaxTus       \* budget.max_tus

(***************************************************************************)
(* Collector::VisitCallExpr: what is recorded about one copy callsite      *)
(***************************************************************************)

\* A direct call of memcpy with three operands, no macro, no cast, C linkage.
AdmittedForm(call) == call.form = "memcpy" /\ call.operands = 3

\* A direct local constant integer array has an extent; 0 stands for none.
ExtentOf(call) == IF AdmittedForm(call) /\ call.destination = "array" THEN call.size ELSE 0

\* Guards need a parameter of unsigned type that nothing writes or aliases, in a
\* body without loops and jumps.
Guardable(call) ==
  /\ ExtentOf(call) # 0 /\ call.length = "parameter"
  /\ ~call.mutated /\ ~call.jumps

\* A branch compares the length with exactly the extent.
SizeGuard(call, b) == b.op \in {"le", "gt"} /\ b.bound = ExtentOf(call)

\* Mutant: the arm of a "greater" comparison is not looked at.
DominatesAnyArm(b) == b.arm \in {"then", "else"}

\* The arm that holds the call is the one where the comparison bounds the length.
Dominates(b) == \/ b.op = "le" /\ b.arm = "then"
                \/ b.op = "gt" /\ b.arm = "else"

CopyRecord(call) ==
  [admitted |-> AdmittedForm(call), extent |-> ExtentOf(call),
   guards |-> IF Guardable(call)
              THEN {[guard |-> b, dominates |-> Dominates(b)] :
                      b \in {c \in call.branches : SizeGuard(call, c)}}
              ELSE {}]

\* What the function really does: the lengths its copy is reached with.  A
\* branch whose arm is "none" does not hold the call.
Takes(b, n) == CASE b.op = "le" -> n <= b.bound [] b.op = "gt" -> n > b.bound
                 [] b.op = "lt" -> n < b.bound
LengthsAt(call, Lengths) ==
  {n \in Lengths :
     call.mutated \/ call.jumps
       \/ \A b \in call.branches : b.arm # "none" => (Takes(b, n) <=> b.arm = "then")}

(***************************************************************************)
(* The index                                                               *)
(***************************************************************************)

\* Coverage: Gap makes it unsupported and incomplete.
Covered(frontier) == [supported |-> TRUE, complete |-> TRUE, frontier |-> frontier]
Gap(c, refs) ==
  IF refs = {} THEN c
  ELSE [c EXCEPT !.supported = FALSE, !.complete = FALSE, !.frontier = @ \cup refs]

\* The worker parses commands in order; a truncated unit ends the parse.
Parsed(cmds, fate) ==
  {p \in cmds : \A r \in cmds : fate[r] = "truncated" => p <= r}
WorkerFrontier(cmds, fate, files) ==
  {p \in Parsed(cmds, fate) : p \notin files \/ fate[p] # "clean"}
WorkerSites(cmds, fate, files) ==
  UNION {SitesIn[p] : p \in {r \in Parsed(cmds, fate) \cap files : fate[r] # "error"}}

\* The commands within the unit budget, in order.
Admitted(cmds) == {p \in cmds : Cardinality({r \in cmds : r < p}) < MaxTus}

\* Mutant: commands beyond the unit budget are dropped without a gap.
SilentlyDropped(cmds) == {}

\* The commands beyond it, each a gap of its own.
OverBudget(cmds) == cmds \ Admitted(cmds)

\* The index of a snapshot, given what the compiler did and found.
BuildIndex(cmds, files, frontier, fate, ast) ==
  LET adm == Admitted(cmds)
      c0 == Gap(Covered(frontier), IF cmds = {} THEN {0} ELSE {})
      c1 == Gap(c0, OverBudget(cmds))
  IN [copies |-> [s \in WorkerSites(adm, fate, files) |-> CopyRecord(ast[s])],
      coverage |-> Gap(c1, WorkerFrontier(adm, fate, files))]

(***************************************************************************)
(* Local evidence about one callsite                                       *)
(***************************************************************************)

Slots == <<"EXTENT", "GUARD", "OPERANDS">>

\* The state of the loop over the requested slots.
NoEvidence(i) == [examined |-> 0, seen |-> {}, supported |-> i.coverage.supported,
                  complete |-> i.coverage.complete]
Unsupported(e) == [e EXCEPT !.supported = FALSE]
Exhausted(e) == [e EXCEPT !.supported = FALSE, !.complete = FALSE]

\* Guards after the first are examined one by one within the budget.
Guards(e, n, max) ==
  LET more == IF n = 0 THEN 0 ELSE n - 1
      room == IF max > e.examined THEN max - e.examined ELSE 0
  IN IF n = 0 THEN Unsupported(e)
     ELSE IF more <= room
     THEN [e EXCEPT !.examined = @ + more, !.seen = @ \cup {"GUARD"}]
     ELSE Exhausted([e EXCEPT !.examined = @ + room, !.seen = @ \cup {"GUARD"}])

Slot(e, r, slot, max) ==
  IF e.examined >= max THEN Exhausted(e)
  ELSE LET x == [e EXCEPT !.examined = @ + 1] IN
       IF ~r.admitted THEN Unsupported(x)
       ELSE IF slot = "OPERANDS" THEN [x EXCEPT !.seen = @ \cup {slot}]
       ELSE IF slot = "EXTENT"
       THEN IF r.extent # 0 THEN [x EXCEPT !.seen = @ \cup {slot}] ELSE Unsupported(x)
       ELSE Guards(x, Cardinality(r.guards), max)

\* InvestigateLocal: the requested slots in order.
InvestigateLocal(i, s, wanted, max) ==
  LET r == i.copies[s]
      step(e, n) == IF Slots[n] \in wanted THEN Slot(e, r, Slots[n], max) ELSE e
  IN step(step(step(NoEvidence(i), 1), 2), 3)
=============================================================================
