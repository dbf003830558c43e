------------------------------ MODULE MCWpaRun ------------------------------
(***************************************************************************)
(* Small instances of WpaRun.  Three components in execution order: 1 is a *)
(* leaf, 2 calls into 1, 3 calls into both, so a lost successor changes    *)
(* what 3 derives, and with batches of two one batch commits in mid-run    *)
(* and one is left for the end of the run.                                 *)
(***************************************************************************)
EXTENDS WpaRun, TLC

CONSTANTS A, B, Souffle, Souffle2, Cpp

MCSucc == <<{}, {1}, {1, 2}>>

\* Revision B changes what component 2 contributes and not the facts it
\* publishes: component 2 runs again and component 3 is reused.
MCLocals == {"f", "g", "g2", "h"}
MCLocalA == <<"f", "g", "h">>
MCLocalB == <<"f", "g2", "h">>

MCAtoms == {"f", "g"}
MCFactSet == SUBSET MCAtoms

Atom(local) == CASE local = "f" -> {"f"} [] local \in {"g", "g2"} -> {"g"} [] OTHER -> {}

\* Facts flow from the successors; the proof names the local input and the rule
\* the engine selected.
MCDerive(t, k, input) ==
  Atom(input.local) \cup UNION {input.support[s] : s \in DOMAIN input.support}
MCProve(t, k, input) ==
  <<input.local, IF t = Souffle2 THEN "support" ELSE "transitive">>

\* The solution of a run's equations, component by component.
Solve(succ, t, local) ==
  LET f[k \in DOMAIN succ] ==
        MCDerive(t, k, [local |-> local[k], support |-> [s \in succ[k] |-> f[s]]])
  IN  f

-----------------------------------------------------------------------------
\* Two revisions on the production engine.
RevRun == {A, B}
RevOracle == [r \in RevRun |-> {}]
RevToolchain == [r \in RevRun |-> Souffle]
RevContext == [r \in RevRun |-> r]
RevLocal == A :> MCLocalA @@ B :> MCLocalB
RevRef == [r \in RevRun |-> Solve(MCSucc, Souffle, RevLocal[r])]

-----------------------------------------------------------------------------
\* Two components, one revision, two production toolchains with the same
\* conformance run.  The C++ engine selects the proofs of Souffle and not those
\* of Souffle2.
OraSucc == <<{}, {1}>>
OraRun == {"r1", "r2", "oracle"}
OraProduction == {"r1", "r2"}
OraOracle == [r \in OraProduction |-> {"oracle"}]
OraToolchain == "r1" :> Souffle @@ "r2" :> Souffle2 @@ "oracle" :> Cpp
OraContext == [r \in OraRun |-> A]
OraLocal == [r \in OraRun |-> <<"f", "g">>]
OraRef == [r \in OraRun |-> Solve(OraSucc, OraToolchain[r], OraLocal[r])]
=============================================================================
