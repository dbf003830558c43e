--------------------------- MODULE LocalAnalysis ---------------------------
(***************************************************************************)
(* What the analyzer learns about each function of a linked program: the   *)
(* local LLVM pass, the SVF pass under its budget, and the merge of the    *)
(* two into one summary per function.                                      *)
(*                                                                         *)
(* A program maps every defined function to its instructions in order.  An *)
(* instruction is a record                                                 *)
(*   op    "call" (direct), "icall" (indirect), "asm", "load", "store", or *)
(*         "value" for an instruction that does not touch memory           *)
(*   to    the functions it may transfer control to; for an indirect call  *)
(*         this is what the pointer analysis resolves                      *)
(*   obj   the object it accesses: <<owner, number>>, owner 0 for a global *)
(*   path  the access path of the address, -1 for a computed segment       *)
(*   pts   what the address may point to; Opaque in it when the address    *)
(*         has no LLVM value the mapper can name                           *)
(*   uses  the operands that are values: 0 is the parameter, k > 0 the     *)
(*         result of the k-th instruction, a negative number a global      *)
(* Stable ids are digests; here a function, a call site and a value are    *)
(* numbers and pairs of numbers, ordered as such.                          *)
(***************************************************************************)
EXTENDS Integers, Eager

CONSTANTS
    Function,   \* the defined functions: 1 .. n
    Declared,   \* numbers of functions that are only declared
    MaxFacts,   \* SvfConfig::max_emitted_facts
    MaxPairs    \* SvfConfig::max_alias_pairs

ASSUME LocalAssumption ==
    /\ IsFiniteSet(Function) /\ Function = 1 .. Cardinality(Function)
    /\ \A g \in Declared : g \in Nat /\ g > Cardinality(Function)
    /\ MaxFacts \in Nat /\ MaxPairs \in Nat

NoId == 0
BlackHole == <<-1, 0>>
Opaque == <<-1, 1>>
ReturnSlot == -1
CallOps == {"call", "icall", "asm"}

\* What a pass is given: finite bodies, and one target of a direct call.
IsProgram(p) ==
    \A f \in Function :
      /\ Len(p[f]) \in Nat /\ DOMAIN p[f] = 1 .. Len(p[f])
      /\ \A i \in DOMAIN p[f] :
           /\ IsFiniteSet(p[f][i].to) /\ IsFiniteSet(p[f][i].uses)
           /\ p[f][i].op = "call" => \E g \in p[f][i].to : p[f][i].to = {g}

At(p, ops) == UNION {{<<f, i>> : i \in {j \in DOMAIN p[f] : p[f][j].op \in ops}} :
                     f \in Function}
Code(p, s) == p[s[1]][s[2]]

----------------------------------------------------------------------------
(* Identities.  Only definitions are recorded in the origin map.           *)

GetSymbolId(g) == IF g \in Function THEN g ELSE NoId
CallSiteIdFor(f, i) == <<f, i>>
IdFor(f, k) == <<IF k < 0 THEN 0 ELSE f, k>>
FormalParamId(g) == <<g, 0>>
ReturnValueId(g) == <<g, ReturnSlot>>

\* A pointer's location: the object its address chain starts from and the
\* path of the chain.  A call has no pointer operand and is its own object.
LocationFor(c, s, sized) ==
    IF c.op \in CallOps
    THEN [obj |-> <<s[1], 100 + s[2]>>, path |-> <<>>, known |-> FALSE]
    ELSE [obj |-> c.obj, path |-> c.path,
          known |-> sized /\ -1 \notin Range(c.path)]

\* The byte range is carried by a location but is no part of its identity.
LocationId(l) == [obj |-> l.obj, path |-> l.path]

----------------------------------------------------------------------------
(* The local pass: one function at a time, every fact stated MUST.         *)

Direct(c) == c.op = "call"
Target(c) == CHOOSE g \in c.to : TRUE

ExtractCallsV2(p, f) ==
    {[site   |-> CallSiteIdFor(f, i),
      sym    |-> IF Direct(p[f][i]) THEN Target(p[f][i]) ELSE NoId,
      callee |-> IF Direct(p[f][i]) THEN GetSymbolId(Target(p[f][i])) ELSE NoId,
      disp   |-> IF Direct(p[f][i]) THEN "direct" ELSE "indirect",
      ep     |-> IF Direct(p[f][i]) THEN "MUST" ELSE "UNKNOWN",
      prov   |-> "none"] :
        i \in {j \in DOMAIN p[f] : p[f][j].op \in CallOps}}

ExtractMemoryEffectsV2(p, f) ==
    {[kind |-> CASE p[f][i].op = "load" -> "READ"
                 [] p[f][i].op = "store" -> "WRITE"
                 [] OTHER -> "UNKNOWN",
      loc  |-> LocationFor(p[f][i], <<f, i>>, TRUE),
      ep   |-> "MUST",
      prov |-> "none"] : i \in {j \in DOMAIN p[f] : p[f][j].op # "value"}}

ExtractValueFlowsV2(p, f) ==
    UNION {{[src |-> IdFor(f, u), dst |-> IdFor(f, i), ep |-> "MUST"] :
            u \in p[f][i].uses} : i \in DOMAIN p[f]}

\* Only a direct callee has formals to bind; a declared one has an id too.
ExtractParameterFlowsV2(p, f) ==
    UNION {{[site |-> CallSiteIdFor(f, i), src |-> IdFor(f, u),
             dst |-> FormalParamId(Target(p[f][i])), ep |-> "MUST"] :
            u \in p[f][i].uses} :
           i \in {j \in DOMAIN p[f] : Direct(p[f][j])}}

ExtractReturnFlowsV2(p, f) ==
    {[site |-> CallSiteIdFor(f, i), src |-> ReturnValueId(Target(p[f][i])),
      dst |-> IdFor(f, i), ep |-> "MUST"] :
        i \in {j \in DOMAIN p[f] : Direct(p[f][j])}}

ExtractUnknownsV2(p, f) ==
    {[kind |-> "unsupported_construct", reason |-> p[f][i].op] :
        i \in {j \in DOMAIN p[f] : p[f][j].op = "asm"}}

\* A call without a callee is also recorded as an unknown of its function.
UnresolvedCalls(p, f) ==
    {[kind |-> "unresolved_call", reason |-> c.disp] :
        c \in {d \in ExtractCallsV2(p, f) : d.ep = "UNKNOWN"}}

ExtractV2(p, f) ==
    [calls    |-> ExtractCallsV2(p, f),
     effects  |-> ExtractMemoryEffectsV2(p, f),
     flows    |-> ExtractValueFlowsV2(p, f),
     params   |-> ExtractParameterFlowsV2(p, f),
     returns  |-> ExtractReturnFlowsV2(p, f),
     aliases  |-> {},
     unknowns |-> ExtractUnknownsV2(p, f) \cup UnresolvedCalls(p, f)]

----------------------------------------------------------------------------
(* Summaries.  A component digest is a hash; here it is what is hashed.    *)

ComponentKind == {"calls", "memory_effects", "value_flow", "alias_facts",
                  "unknowns"}

Component(k, s) ==
    CASE k = "calls" -> s.calls
      [] k = "memory_effects" -> s.effects
      [] k = "value_flow" -> s.flows \cup s.params \cup s.returns
      [] k = "alias_facts" -> s.aliases
      [] k = "unknowns" -> s.unknowns

WithoutProvenance(r) ==
    [x \in DOMAIN r \ {"prov"} |-> r[x]]

SerializeComponentSemanticV2(k, s) ==
    {WithoutProvenance(r) : r \in Component(k, s)}

\* The evidence bytes are the semantic bytes followed by the provenance.
SerializeComponentEvidenceV2(k, s) == Component(k, s)

ComputeComponentDigests(s) ==
    [k \in ComponentKind |->
        [semantic |-> SerializeComponentSemanticV2(k, s),
         evidence |-> SerializeComponentEvidenceV2(k, s),
         items    |-> Cardinality(Component(k, s))]]

BuildLocalSummaryV2(facts) ==
    [calls |-> facts.calls, effects |-> facts.effects, flows |-> facts.flows,
     params |-> facts.params, returns |-> facts.returns, aliases |-> facts.aliases,
     unknowns |-> facts.unknowns, digests |-> ComputeComponentDigests(facts)]

RunLocalAnalysis(p) == [f \in Function |-> BuildLocalSummaryV2(ExtractV2(p, f))]

=============================================================================
