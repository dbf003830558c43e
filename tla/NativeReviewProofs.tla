------------------------- MODULE NativeReviewProofs -------------------------
(* Proofs about NativeReview: the snapshot capture beside a writer, the      *)
(* index of a published snapshot, supervised processes and the replay, for   *)
(* any tree, any number of writes, requests, descendants and any budgets.    *)
EXTENDS NativeReview, WellFoundedInduction, TLAPS

(***************************************************************************)
(* The index                                                               *)
(***************************************************************************)

\* Coverage records are built by Covered and changed by Gap only.
IsCoverage(c) == c \in [supported : BOOLEAN, complete : BOOLEAN, frontier : {c.frontier}]

\* Gap never makes coverage better: what is supported and complete afterwards was
\* so before, and nothing was added.
LEMMA GapIsFinal ==
  ASSUME NEW c, NEW refs, IsCoverage(c)
  PROVE  /\ IsCoverage(Gap(c, refs))
         /\ Gap(c, refs).supported /\ Gap(c, refs).complete =>
              c.supported /\ c.complete /\ refs = {}
<1>1. CASE refs = {}
  BY Zenon, <1>1 DEF Gap
<1>2. CASE refs # {}
  <2>1. /\ ~Gap(c, refs).supported
        /\ Gap(c, refs).frontier = c.frontier \cup refs
    BY <1>2, Zenon DEF Gap, IsCoverage
  <2>2. IsCoverage(Gap(c, refs))
    BY <1>2, <2>1, Zenon DEF Gap, IsCoverage
  <2> QED
    BY Zenon, <2>1, <2>2
<1> QED
  BY Zenon, <1>1, <1>2

\* Covered is a coverage record.
LEMMA CoveredIsCoverage ==
  ASSUME NEW f
  PROVE  IsCoverage(Covered(f))
BY Zenon DEF IsCoverage, Covered

\* When the worker has no gap every command is clean: otherwise the least
\* truncated command, which the worker reached, would be one.
LEMMA WorkerHasNoGap ==
  ASSUME NEW cmds \in SUBSET Nat, NEW fate \in [cmds -> Fates], NEW files,
         WorkerFrontier(cmds, fate, files) = {}
  PROVE  \A p \in cmds : fate[p] = "clean"
<1> DEFINE T == {p \in cmds : fate[p] = "truncated"}
<1>1. T = {}
  <2> SUFFICES ASSUME T # {} PROVE FALSE
    BY Zenon
  <2>1. PICK m \in T : \A y \in T : <<y, m>> \notin OpToRel(<, Nat)
    <3>1. T \subseteq Nat
      BY Zenon
    <3> HIDE DEF T
    <3> QED
      BY Zenon, <3>1, NatLessThanWellFounded, WFMin
  <2>2. ASSUME NEW y \in T PROVE m <= y
    <3>1. y \in Nat /\ m \in Nat
      BY Zenon
    <3>2. ~(y < m)
      BY <2>1, <3>1, Zenon DEF OpToRel
    <3> QED
      BY <3>1, <3>2
  <2>3. m \in Parsed(cmds, fate) /\ fate[m] # "clean"
    BY Zenon, <2>2 DEF Parsed
  <2> QED
    BY Zenon, <2>3 DEF WorkerFrontier
<1>2. Parsed(cmds, fate) = cmds
  BY Zenon, <1>1 DEF Parsed
<1> QED
  BY Zenon, <1>2 DEF WorkerFrontier

\* The index of a snapshot claims full coverage only for clean commands.
LEMMA BuildIndexHonest ==
  ASSUME NEW cmds \in SUBSET Nat, NEW fate \in [cmds -> Fates], NEW files,
         NEW frontier, NEW ast,
         BuildIndex(cmds, files, frontier, fate, ast).coverage.supported,
         BuildIndex(cmds, files, frontier, fate, ast).coverage.complete
  PROVE  cmds # {} /\ \A p \in cmds : fate[p] = "clean"
<1> DEFINE c0 == Gap(Covered(frontier), IF cmds = {} THEN {0} ELSE {})
           c1 == Gap(c0, OverBudget(cmds))
           c2 == Gap(c1, WorkerFrontier(Admitted(cmds), fate, files))
<1>1. IsCoverage(c0) /\ IsCoverage(c1)
  BY Zenon, CoveredIsCoverage, GapIsFinal
<1>2. c2.supported /\ c2.complete
  BY Zenon DEF BuildIndex
<1>3. c1.supported /\ c1.complete /\ WorkerFrontier(Admitted(cmds), fate, files) = {}
  <2> HIDE DEF c1
  <2> QED
    BY Zenon, <1>1, <1>2, GapIsFinal
<1>4. c0.supported /\ c0.complete /\ OverBudget(cmds) = {}
  <2> HIDE DEF c0
  <2> QED
    BY Zenon, <1>1, <1>3, GapIsFinal
<1>5. (IF cmds = {} THEN {0} ELSE {}) = {}
  BY Zenon, <1>4, CoveredIsCoverage, GapIsFinal
<1>6. Admitted(cmds) = cmds
  BY Zenon, <1>4 DEF OverBudget, Admitted
<1> QED
  BY Zenon, <1>3, <1>5, <1>6, WorkerHasNoGap

\* What is recorded of one callsite: the extent is a number, and a dominating
\* guard bounds the lengths the copy is reached with.
LEMMA GuardBounds ==
  ASSUME NEW call \in Calls, \E g \in CopyRecord(call).guards : g.dominates,
         NEW n \in LengthsAt(call, 0 .. (CopyRecord(call).extent + 2))
  PROVE  n <= CopyRecord(call).extent
<1>1. CopyRecord(call).extent = ExtentOf(call) /\ ExtentOf(call) \in Nat
  BY CallsAssumption, Zenon DEF CopyRecord, ExtentOf
<1>2. Guardable(call)
  BY Zenon DEF CopyRecord
<1>3. PICK b \in call.branches : SizeGuard(call, b) /\ Dominates(b)
  BY <1>2 DEF CopyRecord
<1>4. b.arm # "none" => (Takes(b, n) <=> b.arm = "then")
  BY <1>2, <1>3, Zenon DEF LengthsAt, Guardable
<1>5. n \in Nat /\ b.bound = ExtentOf(call)
  BY <1>1, <1>3 DEF LengthsAt, SizeGuard
<1>6. CASE b.op = "le"
  BY Zenon, <1>1, <1>3, <1>4, <1>5, <1>6 DEF Dominates, Takes
<1>7. CASE b.op = "gt"
  <2>1. ~Takes(b, n)
    BY Zenon, <1>3, <1>4, <1>7 DEF Dominates
  <2>2. ~(n > b.bound)
    BY Zenon, <1>7, <2>1 DEF Takes
  <2> QED
    BY <1>1, <1>5, <2>2
<1> QED
  BY Zenon, <1>3, <1>6, <1>7 DEF Dominates

(***************************************************************************)
(* The capture                                                             *)
(***************************************************************************)

CaptureFields == DOMAIN NoCapture
IsCapture(c) == c = [f \in CaptureFields |-> c[f]]

\* The states of a file after n writes.
FileStates(n) == SUBSET [bytes : Bytes, stamp : 0 .. n]

TreeOK ==
  /\ stamps \in Nat
  /\ tree \in [Path -> FileStates(stamps)]
  /\ between \in [Path -> FileStates(stamps)]

\* Whatever was read had been written before.
ReadOK ==
  /\ IsCapture(cap)
  /\ DOMAIN cap.got \subseteq Path
  /\ \A p \in DOMAIN cap.got : cap.got[p] \in FileStates(stamps)
  /\ \A o \in cap.open : /\ o.path \in Path /\ o.path \in cap.todo
                         /\ o.file \in FileStates(stamps)

\* In the second collection: a captured file that is in the tree now was there
\* between the collections, and so was one that has been compared.
SecondOK ==
  /\ cap.at = "second" => cap.todo \subseteq DOMAIN cap.got
  /\ cap.at \in {"second", "published"} =>
       \A p \in DOMAIN cap.got : cap.got[p] # {} =>
         /\ tree[p] = cap.got[p] => between[p] = cap.got[p]
         /\ p \notin cap.todo => between[p] = cap.got[p]
  /\ cap.at = "published" => cap.todo = {}

CaptureOK == Capturing => TreeOK /\ ReadOK /\ SecondOK

\* Further writes keep file states.
LEMMA FileStatesGrow ==
  ASSUME NEW n \in Nat
  PROVE  FileStates(n) \subseteq FileStates(n + 1)
BY DEF FileStates

\* The fields of a capture record.
LEMMA NoCaptureFields ==
  CaptureFields = {"at", "index", "members", "todo", "open", "got", "total",
                   "unselected", "excluded"}
BY Zenon DEF CaptureFields, NoCapture

\* The record of no capture is a capture record.
LEMMA NoCaptureIsCapture == IsCapture(NoCapture)
BY NoCaptureFields, Zenon DEF IsCapture, NoCapture

\* The first tree is one write old, and nothing is captured.
LEMMA CaptureStarts == CaptureInit => CaptureOK
<1> SUFFICES ASSUME CaptureInit PROVE TreeOK /\ ReadOK /\ SecondOK
  BY Zenon DEF CaptureOK
<1>1. TreeOK
  <2>1. Initial \in [Path -> FileStates(1)]
    BY InitialAssumption DEF FileStates
  <2> QED
    BY Zenon, <2>1 DEF CaptureInit, TreeOK
<1>2. cap.at = "idle" /\ cap.open = {} /\ DOMAIN cap.got = {} /\ IsCapture(cap)
  BY Zenon, NoCaptureIsCapture DEF CaptureInit, NoCapture
<1> QED
  BY Zenon, <1>1, <1>2 DEF ReadOK, SecondOK

\* A write changes the stamp, so it cannot restore a captured state.
LEMMA WriteKeepsCapture ==
  ASSUME CaptureOK, Capturing, NEW p \in Path, Write(p)
  PROVE  CaptureOK'
<1> USE DEF Write
<1>1. TreeOK /\ ReadOK /\ SecondOK
  BY Zenon DEF CaptureOK
<1>2. /\ stamps' = stamps + 1 /\ stamps \in Nat /\ stamps' \in Nat
      /\ cap' = cap /\ between' = between
  BY <1>1 DEF TreeOK
<1>3. FileStates(stamps) \subseteq FileStates(stamps')
  BY Zenon, <1>2, FileStatesGrow
<1>4. PICK f \in {{}} \cup {{[bytes |-> b, stamp |-> stamps']} : b \in Bytes} :
        tree' = [tree EXCEPT ![p] = f]
  BY Zenon
<1>5. f \in FileStates(stamps')
  BY <1>2 DEF FileStates
<1>6. TreeOK'
  BY Zenon, <1>1, <1>2, <1>3, <1>4, <1>5 DEF TreeOK
<1>7. ReadOK'
  BY Zenon, <1>1, <1>2, <1>3 DEF ReadOK
<1>8. f = {} \/ f \notin FileStates(stamps)
  BY <1>2 DEF FileStates
<1>9. \A q \in DOMAIN cap.got :
        tree'[q] = cap.got[q] /\ cap.got[q] # {} => tree[q] = cap.got[q]
  BY Zenon, <1>1, <1>4, <1>8 DEF TreeOK, ReadOK
<1>10. SecondOK'
  BY Zenon, <1>1, <1>2, <1>9 DEF SecondOK
<1> QED
  BY Zenon, <1>6, <1>7, <1>10 DEF CaptureOK

\* Staging leaves the tree and the capture alone.
LEMMA StageKeepsCapture ==
  ASSUME CaptureOK, Capturing, Stage
  PROVE  CaptureOK'
<1> USE DEF Stage
<1>1. TreeOK /\ ReadOK /\ SecondOK
  BY Zenon DEF CaptureOK
<1>2. /\ stamps' = stamps + 1 /\ stamps \in Nat /\ stamps' \in Nat
      /\ cap' = cap /\ between' = between /\ tree' = tree
  BY <1>1 DEF TreeOK
<1>3. FileStates(stamps) \subseteq FileStates(stamps')
  BY Zenon, <1>2, FileStatesGrow
<1>4. TreeOK' /\ ReadOK' /\ SecondOK'
  BY Zenon, <1>1, <1>2, <1>3 DEF TreeOK, ReadOK, SecondOK
<1> QED
  BY Zenon, <1>4 DEF CaptureOK

\* A refused capture is over.
LEMMA RefusedIsOver ==
  ASSUME cap' = [NoCapture EXCEPT !.at = "refused"]
  PROVE  CaptureOK'
<1>1. cap'.at = "refused"
  BY Zenon DEF NoCapture
<1> QED
  BY Zenon, <1>1 DEF CaptureOK, Capturing

\* Pinning the index starts an empty capture of its members.
LEMMA PinKeepsCapture ==
  ASSUME CaptureOK, Capturing, Pin
  PROVE  CaptureOK'
<1>1. TreeOK /\ ReadOK /\ SecondOK
  BY Zenon DEF CaptureOK
<1>2. TreeOK'
  BY Zenon, <1>1 DEF TreeOK, Pin
<1>3. IsCapture(cap')
  BY NoCaptureIsCapture, Zenon DEF Pin, IsCapture
<1>4. cap'.at = "first" /\ cap'.open = {} /\ DOMAIN cap'.got = {}
  BY Zenon DEF Pin, NoCapture
<1> QED
  BY Zenon, <1>2, <1>3, <1>4 DEF CaptureOK, ReadOK, SecondOK

\* Opening a path reads nothing yet; past the file limit it refuses.
LEMMA OpenKeepsCapture ==
  ASSUME CaptureOK, Capturing, NEW p \in Path, Open(p)
  PROVE  CaptureOK'
<1>1. TreeOK /\ ReadOK /\ SecondOK
  BY Zenon DEF CaptureOK
<1>2. CASE cap' = [NoCapture EXCEPT !.at = "refused"]
  BY Zenon, <1>2, RefusedIsOver
<1>3. CASE cap' = [cap EXCEPT !.open = {[path |-> p, file |-> tree[p]]}]
  <2>1. /\ cap'.at = cap.at /\ cap'.todo = cap.todo /\ cap'.got = cap.got
        /\ cap'.open = {[path |-> p, file |-> tree[p]]}
    BY Zenon, <1>1, <1>3, NoCaptureFields DEF ReadOK, IsCapture
  <2>2. IsCapture(cap')
    BY <1>1, <1>3, Zenon DEF ReadOK, IsCapture
  <2>3. /\ UNCHANGED <<tree, stamps, between>>
        /\ tree[p] \in FileStates(stamps) /\ p \in cap.todo
    BY Zenon, <1>1 DEF Open, TreeOK
  <2>4. TreeOK' /\ SecondOK'
    BY Zenon, <1>1, <2>1, <2>3 DEF TreeOK, SecondOK
  <2>5. ReadOK'
    BY <1>1, <2>1, <2>2, <2>3 DEF ReadOK
  <2> QED
    BY Zenon, <2>4, <2>5 DEF CaptureOK
<1> QED
  BY Zenon, <1>2, <1>3 DEF Open

\* A file is taken only if it is still what was opened: in the second collection
\* that state is the captured one, so it was there between the collections.
LEMMA FinishKeepsCapture ==
  ASSUME CaptureOK, Capturing, Finish
  PROVE  CaptureOK'
<1>1. TreeOK /\ ReadOK /\ SecondOK /\ UNCHANGED <<tree, stamps, between>>
  BY Zenon DEF CaptureOK, Finish
<1>2. TreeOK'
  BY Zenon, <1>1 DEF TreeOK
<1> DEFINE Taken(o) ==
             [cap EXCEPT !.open = {}, !.todo = cap.todo \ {o.path},
                         !.got = [p \in DOMAIN cap.got \cup {o.path} |->
                                    IF p = o.path THEN o.file ELSE cap.got[p]],
                         !.total = @ + Weight(o.file)]
           Compared(o) == [cap EXCEPT !.open = {}, !.todo = cap.todo \ {o.path}]
<1>3. PICK o \in cap.open :
        \/ cap' = [NoCapture EXCEPT !.at = "refused"]
        \/ cap.at = "first" /\ cap' = Taken(o)
        \/ /\ cap.at # "first" /\ cap' = Compared(o)
           /\ o.file = cap.got[o.path]
           /\ o.file # {} => tree[o.path] = o.file
  BY Zenon DEF Finish, SameState
<1>4. CASE cap' = [NoCapture EXCEPT !.at = "refused"]
  BY Zenon, <1>4, RefusedIsOver
<1>5. CASE cap.at = "first" /\ cap' = Taken(o)
  <2>1. /\ cap'.at = "first" /\ cap'.open = {}
        /\ cap'.got = [p \in DOMAIN cap.got \cup {o.path} |->
                         IF p = o.path THEN o.file ELSE cap.got[p]]
    BY Zenon, <1>1, <1>5, NoCaptureFields DEF ReadOK, IsCapture
  <2>2. IsCapture(cap')
    BY <1>1, <1>5, Zenon DEF ReadOK, IsCapture
  <2> HIDE DEF Taken
  <2>3. ReadOK'
    BY ZenonT(60), <1>1, <2>1, <2>2 DEF ReadOK
  <2>4. SecondOK'
    BY Zenon, <2>1 DEF SecondOK
  <2> QED
    BY Zenon, <1>2, <2>3, <2>4 DEF CaptureOK
<1>6. CASE /\ cap.at # "first" /\ cap' = Compared(o)
           /\ o.file = cap.got[o.path]
           /\ o.file # {} => tree[o.path] = o.file
  <2>1. /\ cap'.at = cap.at /\ cap'.open = {} /\ cap'.got = cap.got
        /\ cap'.todo = cap.todo \ {o.path}
    BY Zenon, <1>1, <1>6, NoCaptureFields DEF ReadOK, IsCapture
  <2>2. IsCapture(cap')
    BY <1>1, <1>6, Zenon DEF ReadOK, IsCapture
  <2> HIDE DEF Compared
  <2>3. ReadOK'
    BY Zenon, <1>1, <2>1, <2>2 DEF ReadOK
  <2>4. SecondOK'
    BY <1>1, <1>6, <2>1 DEF SecondOK
  <2> QED
    BY Zenon, <1>2, <2>3, <2>4 DEF CaptureOK
<1> QED
  BY Zenon, <1>3, <1>4, <1>5, <1>6

\* The second collection starts from the tree that is remembered.
LEMMA MembersKeepsCapture ==
  ASSUME CaptureOK, Capturing, Members
  PROVE  CaptureOK'
<1>1. TreeOK /\ ReadOK /\ SecondOK /\ UNCHANGED <<tree, stamps>> /\ between' = tree
  BY Zenon DEF CaptureOK, Members
<1>2. TreeOK'
  BY Zenon, <1>1 DEF TreeOK
<1>3. cap.at = "first" /\ cap.open = {} /\ cap.todo = {}
  BY Zenon DEF Members
<1>4. PICK more, outside :
        \/ cap' = [NoCapture EXCEPT !.at = "refused"]
        \/ cap' = [cap EXCEPT !.todo = more]
        \/ cap' = [cap EXCEPT !.at = "second", !.todo = DOMAIN cap.got,
                              !.unselected = outside]
  BY Zenon DEF Members
<1>5. CASE cap' = [NoCapture EXCEPT !.at = "refused"]
  BY Zenon, <1>5, RefusedIsOver
<1>6. CASE cap' = [cap EXCEPT !.todo = more]
  <2>1. cap'.at = "first" /\ cap'.open = {} /\ cap'.got = cap.got
    BY Zenon, <1>1, <1>3, <1>6, NoCaptureFields DEF ReadOK, IsCapture
  <2>2. IsCapture(cap')
    BY <1>1, <1>6, Zenon DEF ReadOK, IsCapture
  <2> QED
    BY Zenon, <1>1, <1>2, <2>1, <2>2 DEF CaptureOK, ReadOK, SecondOK
<1>7. CASE cap' = [cap EXCEPT !.at = "second", !.todo = DOMAIN cap.got,
                              !.unselected = outside]
  <2>1. /\ cap'.at = "second" /\ cap'.open = {} /\ cap'.got = cap.got
        /\ cap'.todo = DOMAIN cap.got
    BY Zenon, <1>1, <1>3, <1>7, NoCaptureFields DEF ReadOK, IsCapture
  <2>2. IsCapture(cap')
    BY <1>1, <1>7, Zenon DEF ReadOK, IsCapture
  <2> QED
    BY Zenon, <1>1, <1>2, <2>1, <2>2 DEF CaptureOK, ReadOK, SecondOK
<1> QED
  BY Zenon, <1>4, <1>5, <1>6, <1>7

\* Publishing changes only the stage, once the worklist is empty and the index
\* is the pinned one; anything else is refused.
LEMMA PublishKeepsCapture ==
  ASSUME CaptureOK, Capturing, Publish
  PROVE  CaptureOK'
<1>1. TreeOK /\ ReadOK /\ SecondOK /\ UNCHANGED <<tree, stamps, between>>
  BY Zenon DEF CaptureOK, Publish
<1>2. CASE cap' = [NoCapture EXCEPT !.at = "refused"]
  BY Zenon, <1>2, RefusedIsOver
<1>3. CASE cap' = [cap EXCEPT !.at = "published"]
  <2>1. /\ cap'.at = "published" /\ cap'.open = {} /\ cap'.got = cap.got
        /\ cap'.todo = {} /\ cap.todo = {} /\ cap.at = "second"
    BY Zenon, <1>1, <1>3, NoCaptureFields DEF ReadOK, IsCapture, Publish
  <2>2. IsCapture(cap')
    BY <1>1, <1>3, Zenon DEF ReadOK, IsCapture
  <2> QED
    BY Zenon, <1>1, <2>1, <2>2 DEF CaptureOK, TreeOK, ReadOK, SecondOK
<1> QED
  BY Zenon, <1>2, <1>3 DEF Publish

\* Every step of the capture keeps its invariant.
LEMMA CaptureStepKeepsCapture ==
  ASSUME CaptureOK, Capturing, CaptureNext
  PROVE  CaptureOK'
BY Zenon, WriteKeepsCapture, StageKeepsCapture, PinKeepsCapture, OpenKeepsCapture,
   FinishKeepsCapture, MembersKeepsCapture, PublishKeepsCapture DEF CaptureNext

\* Building the index ends the capture.
LEMMA IndexKeepsCapture ==
  ASSUME Index
  PROVE  CaptureOK'
<1>1. cap'.at \in {"refused", "pinned"}
  BY Zenon DEF Index, NoCapture
<1> QED
  BY Zenon, <1>1 DEF CaptureOK, Capturing

\* The capture invariant holds throughout a review.
LEMMA CaptureInvariant == Spec => []CaptureOK
<1>1. Init => CaptureOK
  BY Zenon, CaptureStarts DEF Init
<1>2. CaptureOK /\ [Next]_vars => CaptureOK'
  <2> SUFFICES ASSUME CaptureOK, [Next]_vars PROVE CaptureOK'
    BY Zenon
  <2>1. CASE UNCHANGED capture
    BY Zenon, <2>1 DEF capture, CaptureOK, Capturing, TreeOK, ReadOK, SecondOK
  <2>2. CASE Capturing /\ CaptureNext
    BY Zenon, <2>2, CaptureStepKeepsCapture
  <2>3. CASE Index
    BY Zenon, <2>3, IndexKeepsCapture
  <2> QED
    BY Zenon, <2>1, <2>2, <2>3 DEF Next, vars, VerifyCall
<1> QED
  BY <1>1, <1>2, PTL DEF Spec

\* What CaptureReviewSnapshot publishes coexisted: at the instant between its two
\* collections every captured file had exactly the captured bytes, whatever was
\* written, removed, restored or staged meanwhile.
THEOREM SnapshotsAreCoherent == Spec => []CoherentSnapshot
<1>1. CaptureOK => CoherentSnapshot
  <2> SUFFICES ASSUME CaptureOK, cap.at = "published", NEW p \in Files(cap)
               PROVE  Bytesof(between[p]) = Bytesof(cap.got[p])
    BY Zenon DEF CoherentSnapshot
  <2>1. SecondOK
    BY Zenon DEF CaptureOK, Capturing
  <2>2. between[p] = cap.got[p]
    BY Zenon, <2>1 DEF SecondOK, Files
  <2> QED
    BY Zenon, <2>2
<1> QED
  BY <1>1, CaptureInvariant, PTL

(***************************************************************************)
(* The pinned session                                                      *)
(***************************************************************************)

SessionOK ==
  /\ IndexHonest /\ DominatingGuardBounds
  /\ \A s \in session : \A x \in DOMAIN s.index.copies : s.index.copies[x].extent \in Nat

\* Commands are captured files.
LEMMA CommandsAreFiles == CompilerCommands(cap) \subseteq DOMAIN cap.got
BY Zenon DEF CompilerCommands, Scope, Files

\* The session the indexer makes has honest coverage and sound guards.
LEMMA IndexMakesSession ==
  ASSUME CaptureOK, Index, session' # {}
  PROVE  SessionOK'
<1> DEFINE cmds == CompilerCommands(cap)
<1>1. PICK fate \in [cmds -> Fates], ast \in [UNION {SitesIn[p] : p \in cmds} -> Calls] :
        session' = {Pinned(cap, fate, ast)}
  BY Zenon DEF Index
<1> DEFINE s == Pinned(cap, fate, ast)
           ix == BuildIndex(cmds, Files(cap), ScopeFrontier(cap), fate, ast)
           sites == WorkerSites(Admitted(cmds), fate, Files(cap))
<1>2. cmds \subseteq Nat
  <2>1. ReadOK
    BY Zenon DEF Index, CaptureOK, Capturing
  <2> QED
    BY ZenonT(60), <2>1, CommandsAreFiles, PathAssumption DEF ReadOK
<1>3. /\ s.index = ix /\ s.ast = ast /\ s.commands = cmds
      /\ s.clean = {p \in cmds : fate[p] = "clean"}
  BY Zenon DEF Pinned
<1>4. ix.copies = [x \in sites |-> CopyRecord(ast[x])]
  BY Zenon DEF BuildIndex
<1>5. \A x \in sites : ast[x] \in Calls
  BY ZenonT(60) DEF WorkerSites, Parsed, Admitted
<1>6. session' = {s}
  BY Zenon, <1>1
<1> HIDE DEF cmds
<1>7. IndexHonest'
  <2> SUFFICES ASSUME ix.coverage.supported, ix.coverage.complete
               PROVE  cmds # {} /\ \A p \in cmds : fate[p] = "clean"
    <3> HIDE DEF s, ix
    <3> QED
      BY Zenon, <1>3, <1>6 DEF IndexHonest
  <2> QED
    BY Zenon, <1>2, BuildIndexHonest
<1> HIDE DEF ix, sites
<1>8. DominatingGuardBounds'
  <2> SUFFICES ASSUME NEW x \in sites, \E g \in CopyRecord(ast[x]).guards : g.dominates,
                      NEW n \in LengthsAt(ast[x], 0 .. (CopyRecord(ast[x]).extent + 2))
               PROVE  n <= CopyRecord(ast[x]).extent
    <3> HIDE DEF s
    <3> QED
      BY SMTT(30), <1>3, <1>4, <1>6 DEF DominatingGuardBounds
  <2> QED
    BY Zenon, <1>5, GuardBounds
<1>9. \A x \in sites : CopyRecord(ast[x]).extent \in Nat
  <2> SUFFICES ASSUME NEW x \in sites PROVE CopyRecord(ast[x]).extent \in Nat
    BY Zenon
  <2>1. ast[x].size \in Nat
    BY Zenon, <1>5, CallsAssumption
  <2> QED
    BY <2>1, Zenon DEF CopyRecord, ExtentOf
<1>10. \A t \in session' : \A x \in DOMAIN t.index.copies : t.index.copies[x].extent \in Nat
  <2> HIDE DEF s
  <2> QED
    BY <1>3, <1>4, <1>9, <1>6
<1> QED
  BY Zenon, <1>7, <1>8, <1>10 DEF SessionOK

\* The coverage of a session is honest and its dominating guards are sound.
LEMMA SessionInvariant == Spec => []SessionOK
<1>1. Init => SessionOK
  BY Zenon DEF Init, SessionOK, IndexHonest, DominatingGuardBounds
<1>2. CaptureOK /\ SessionOK /\ [Next]_vars => SessionOK'
  <2> SUFFICES ASSUME CaptureOK, SessionOK, [Next]_vars PROVE SessionOK'
    BY Zenon
  <2>1. CASE UNCHANGED session
    BY Zenon, <2>1 DEF SessionOK, IndexHonest, DominatingGuardBounds
  <2>2. CASE session' = {}
    BY Zenon, <2>2 DEF SessionOK, IndexHonest, DominatingGuardBounds
  <2>3. CASE Index
    BY Zenon, <2>2, <2>3, IndexMakesSession
  <2> QED
    BY Zenon, <2>1, <2>2, <2>3 DEF Next, vars, VerifyCall
<1> QED
  BY <1>1, <1>2, CaptureInvariant, PTL DEF Spec

\* BuildStructuralIndex claims supported and complete coverage only when there is
\* a command and the compiler parsed every one of them without an error.
THEOREM CoverageIsHonest == Spec => []IndexHonest
BY SessionInvariant, PTL DEF SessionOK

\* A guard that Collector::VisitCallExpr records as dominating bounds the copy,
\* whatever branches the function has and whatever lengths it is called with.
THEOREM DominatingGuardsBound == Spec => []DominatingGuardBounds
BY SessionInvariant, PTL DEF SessionOK

(***************************************************************************)
(* Supervised processes                                                    *)
(***************************************************************************)

ProcFields == DOMAIN NoProc
IsProc(p) == p = [f \in ProcFields |-> p[f]]
ProcOK == IsProc(proc) /\ NoKnownSurvivor

\* The fields of a process record.
LEMMA NoProcFields ==
  ProcFields = {"at", "leader", "reaped", "open", "t", "wall", "drain", "timed", "limit"}
BY Zenon DEF ProcFields, NoProc

\* The record of no process is a process record.
LEMMA NoProcIsProc == IsProc(NoProc) /\ NoProc.at = "none"
<1>1. IsProc(NoProc)
  BY NoProcFields, Zenon DEF IsProc, NoProc
<1> QED
  BY Zenon, <1>1 DEF NoProc

\* A step of the supervisor, the leader or a descendant keeps the record, starts
\* nothing, and only End returns.
LEMMA ProcessSteps ==
  ASSUME IsProc(proc), Supervise \/ Leader \/ Child
  PROVE  /\ IsProc(proc') /\ proc.at # "none" /\ proc'.at # "none"
         /\ proc'.at = "returned" => End
<1>1. CASE Top
  <2>1. IsProc(proc')
    BY <1>1, Zenon DEF Top, IsProc
  <2>2. proc.at = "top" /\ proc'.at \in {"end", "sample"}
    BY ZenonT(60), <1>1, NoProcFields DEF Top, IsProc
  <2> QED
    BY Zenon, <2>1, <2>2
<1>2. CASE Sample
  <2>1. IsProc(proc')
    BY <1>2, Zenon DEF Sample, IsProc
  <2>2. proc.at = "sample" /\ proc'.at = "poll"
    BY Zenon, <1>2, NoProcFields DEF Sample, IsProc
  <2> QED
    BY Zenon, <2>1, <2>2
<1>3. CASE Poll
  <2>1. IsProc(proc')
    BY <1>3, Zenon DEF Poll, IsProc
  <2>2. proc.at = "poll" /\ proc'.at = "wait"
    BY ZenonT(60), <1>3, NoProcFields DEF Poll, IsProc
  <2> QED
    BY Zenon, <2>1, <2>2
<1>4. CASE Wait
  <2>1. IsProc(proc')
    BY <1>4, Zenon DEF Wait, IsProc
  <2>2. proc.at = "wait" /\ proc'.at \in {"end", "top"}
    BY Zenon, <1>4, NoProcFields DEF Wait, IsProc
  <2> QED
    BY Zenon, <2>1, <2>2
<1>5. CASE End
  <2>1. IsProc(proc')
    BY <1>5, Zenon DEF End, IsProc
  <2>2. proc.at = "end" /\ proc'.at = "returned"
    BY Zenon, <1>5, NoProcFields DEF End, IsProc
  <2> QED
    BY Zenon, <1>5, <2>1, <2>2
<1>6. CASE Leader
  <2>1. IsProc(proc')
    BY <1>6, Zenon DEF Leader, Tick, Exit, IsProc
  <2>2. Supervised /\ proc'.at = proc.at
    BY Zenon, <1>6, NoProcFields DEF Leader, Tick, Exit, IsProc
  <2> QED
    BY Zenon, <2>1, <2>2 DEF Supervised
<1>7. CASE Child
  BY Zenon, <1>7 DEF Child, Fork, Escape, Detach, Die, Supervised
<1> QED
  BY Zenon, <1>1, <1>2, <1>3, <1>4, <1>5, <1>6, <1>7 DEF Supervise

\* What End leaves running has left the group and was never sampled.
LEMMA EndLeavesStrangers ==
  ASSUME End, NEW k \in Kid, kids'[k].alive
  PROVE  ~kids'[k].group /\ ~kids'[k].seen
<1>1. kids'[k] = IF KillSeen(kids)[k].group THEN Gone ELSE KillSeen(kids)[k]
  BY Zenon DEF End, Reap, KillGroup
<1>2. ~Gone.alive /\ Gone.group /\ ~Gone.seen
  BY Zenon DEF Gone
<1>3. kids'[k] = KillSeen(kids)[k] /\ ~KillSeen(kids)[k].group
  BY Zenon, <1>1, <1>2
<1>4. KillSeen(kids)[k] = IF kids[k].seen THEN Gone ELSE kids[k]
  BY Zenon DEF KillSeen
<1> QED
  BY Zenon, <1>2, <1>3, <1>4

(***************************************************************************)
(* The replay                                                              *)
(***************************************************************************)

ReplayFields == DOMAIN NoReplay
IsReplay(r) == r = [f \in ReplayFields |-> r[f]]

\* A running replay has one request that agrees with the evidence, the evidence
\* is complete, and the index it comes from covers every command.
AdmittedOK ==
  \E q \in Requests :
    /\ replay.q = {q}
    /\ replay.extent = q.capacity /\ q.capacity # 0
    /\ \A e \in replay.evidence : e.supported /\ e.complete
    /\ covered

\* The programs before the current one have passed, and from its link step on the
\* image is the one that was linked.
ProgressOK ==
  /\ replay.at \in 0 .. 13
  /\ \A j \in 1 .. 13 : j < replay.at => Programs[j] \in replay.passed
  /\ replay.at = 13 =>
       IF proc.at = "none" THEN replay.work = "linked" ELSE replay.image = "linked"

ReplayOK ==
  /\ IsReplay(replay)
  /\ replay.result # {} => Idle
  /\ ~Idle => AdmittedOK /\ ProgressOK
  /\ ResultValidates /\ RefutedIsWarranted

\* The programs, one by one.
LEMMA ProgramsAre ==
  /\ Len(Programs) = 13
  /\ Programs[1] = "version" /\ Programs[2] = "target" /\ Programs[3] = "resource"
  /\ Programs[4] = "runtime" /\ Programs[5] = "probe" /\ Programs[6] = "write"
  /\ Programs[7] = "read" /\ Programs[8] = "list" /\ Programs[9] = "net"
  /\ Programs[10] = "tu" /\ Programs[11] = "harness" /\ Programs[12] = "link"
  /\ Programs[13] = "run"
BY DEF Programs, Inspections, Canaries, Builds

\* Which program a replay position runs.
LEMMA ProgramAt ==
  ASSUME replay.at \in 1 .. 13
  PROVE  /\ Program = "run" <=> replay.at = 13
         /\ Program = "link" <=> replay.at = 12
<1>1. replay.at \in {1, 2, 3, 4, 5, 6, 7, 8, 9, 10, 11, 12, 13}
  OBVIOUS
<1> QED
  BY ZenonT(60), <1>1, ProgramsAre DEF Program

\* The fields of a replay record.
LEMMA NoReplayFields ==
  ReplayFields = {"at", "q", "evidence", "extent", "left", "work", "image", "passed", "result"}
BY Zenon DEF ReplayFields, NoReplay

\* The record of no replay is a replay record.
LEMMA NoReplayIsReplay == IsReplay(NoReplay)
BY NoReplayFields, Zenon DEF IsReplay, NoReplay

(* Admission.                                                              *)

EvidenceFields == {"examined", "seen", "supported", "complete"}
IsEvidence(e) == e = [f \in EvidenceFields |-> e[f]]

\* A slot never makes evidence better, and EXTENT is seen only where there is one.
LEMMA SlotIsHonest ==
  ASSUME NEW e, IsEvidence(e), NEW r, NEW slot \in {"EXTENT", "OPERANDS"}, NEW max,
         NEW d, d = Slot(e, r, slot, max)
  PROVE  /\ IsEvidence(d)
         /\ d.supported => e.supported
         /\ d.complete => e.complete
         /\ "EXTENT" \in d.seen => "EXTENT" \in e.seen \/ r.extent # 0
<1> DEFINE x == [e EXCEPT !.examined = @ + 1]
<1>1. IsEvidence(x)
  BY Zenon DEF IsEvidence
<1>2. x.seen = e.seen /\ x.supported = e.supported /\ x.complete = e.complete
  BY Zenon DEF IsEvidence, EvidenceFields
<1>3. \/ d = Exhausted(e) \/ d = Unsupported(x)
      \/ d = [x EXCEPT !.seen = @ \cup {slot}] /\ (slot = "EXTENT" => r.extent # 0)
  BY Zenon DEF Slot
<1> HIDE DEF x
<1>4. CASE d = Exhausted(e)
  <2>1. IsEvidence(d)
    BY <1>4, Zenon DEF IsEvidence, Exhausted
  <2>2. ~d.supported /\ ~d.complete /\ d.seen = e.seen
    BY <1>4, Zenon DEF IsEvidence, Exhausted, EvidenceFields
  <2> QED
    BY Zenon, <2>1, <2>2
<1>5. CASE d = Unsupported(x)
  <2>1. IsEvidence(d)
    BY <1>1, <1>5, Zenon DEF IsEvidence, Unsupported
  <2>2. ~d.supported /\ d.complete = x.complete /\ d.seen = x.seen
    BY <1>1, <1>5, Zenon DEF IsEvidence, Unsupported, EvidenceFields
  <2> QED
    BY Zenon, <1>2, <2>1, <2>2
<1>6. CASE d = [x EXCEPT !.seen = @ \cup {slot}] /\ (slot = "EXTENT" => r.extent # 0)
  <2>1. IsEvidence(d)
    BY <1>1, <1>6, Zenon DEF IsEvidence
  <2>2. /\ d.supported = x.supported /\ d.complete = x.complete
        /\ d.seen = x.seen \cup {slot}
    BY <1>1, <1>6, Zenon DEF IsEvidence, EvidenceFields
  <2> QED
    BY Zenon, <1>2, <1>6, <2>1, <2>2
<1> QED
  BY Zenon, <1>3, <1>4, <1>5, <1>6

\* Supported and complete evidence rests on supported and complete coverage.
LEMMA EvidenceIsHonest ==
  ASSUME NEW i, NEW site, NEW max,
         NEW e, e = InvestigateLocal(i, site, {"EXTENT", "OPERANDS"}, max)
  PROVE  /\ e.supported => i.coverage.supported
         /\ e.complete => i.coverage.complete
         /\ "EXTENT" \in e.seen => i.copies[site].extent # 0
<1> DEFINE r == i.copies[site]
           e0 == NoEvidence(i)
           e1 == Slot(e0, r, "EXTENT", max)
           e2 == Slot(e1, r, "OPERANDS", max)
<1>1. e = e2
  BY Zenon DEF InvestigateLocal, Slots
<1>2. /\ IsEvidence(e0) /\ e0.supported = i.coverage.supported
      /\ e0.complete = i.coverage.complete /\ e0.seen = {}
  <2>1. IsEvidence(e0)
    BY Zenon DEF IsEvidence, EvidenceFields, NoEvidence
  <2> QED
    BY Zenon, <2>1 DEF NoEvidence
<1> HIDE DEF r, e0
<1>3. /\ IsEvidence(e1) /\ (e1.supported => e0.supported) /\ (e1.complete => e0.complete)
      /\ "EXTENT" \in e1.seen => r.extent # 0
  BY ZenonT(60), <1>2, SlotIsHonest
<1> HIDE DEF e1
<1>4. /\ (e2.supported => e1.supported) /\ (e2.complete => e1.complete)
      /\ "EXTENT" \in e2.seen => "EXTENT" \in e1.seen \/ r.extent # 0
  BY ZenonT(60), <1>3, SlotIsHonest
<1> QED
  BY ZenonT(60), <1>1, <1>2, <1>3, <1>4 DEF r

\* A request is admitted only with complete evidence of an extent that is its
\* capacity, from an index that covers every command.
LEMMA VerifyStartsOK ==
  ASSUME SessionOK, VerifyCall
  PROVE  ReplayOK'
<1>1. PICK s \in session, q \in Requests :
        Verify(s.index, q) /\ covered' = (s.commands \subseteq s.clean)
  BY Zenon DEF VerifyCall
<1> DEFINE i == s.index
           e == InvestigateLocal(i, q.site, {"EXTENT", "OPERANDS"}, q.examined)
<1>2. \/ /\ Admission(i, q) # "ok"
         /\ replay' = [NoReplay EXCEPT !.q = {q}, !.result = {[status |-> Admission(i, q)]}]
      \/ /\ Admission(i, q) = "ok"
         /\ replay' = [NoReplay EXCEPT !.q = {q}, !.at = 1, !.extent = i.copies[q.site].extent,
                                       !.evidence = {e}]
  BY Zenon, <1>1 DEF Verify
<1>3. CASE Admission(i, q) # "ok"
  <2> DEFINE st == Admission(i, q)
  <2>1. st \in {"invalid", "unsupported"}
    BY Zenon, <1>3 DEF Admission
  <2>2. replay' = [NoReplay EXCEPT !.q = {q}, !.result = {[status |-> st]}]
    BY Zenon, <1>2, <1>3
  <2> HIDE DEF st
  <2>3. IsReplay(replay')
    BY <2>2, NoReplayIsReplay, Zenon DEF IsReplay
  <2>4. replay'.at = 0 /\ replay'.result = {[status |-> st]}
    BY Zenon, <2>2 DEF NoReplay
  <2>5. ResultValidates' /\ RefutedIsWarranted'
    BY <2>1, <2>4 DEF ResultValidates, RefutedIsWarranted
  <2> QED
    BY ZenonT(60), <2>3, <2>4, <2>5 DEF ReplayOK, Idle
<1>4. CASE Admission(i, q) = "ok"
  <2>1. /\ q.site \in DOMAIN i.copies /\ e.seen = {"EXTENT", "OPERANDS"}
        /\ e.supported /\ e.complete /\ q.capacity = i.copies[q.site].extent
    BY ZenonT(60), <1>4 DEF Admission
  <2>2. i.coverage.supported /\ i.coverage.complete /\ i.copies[q.site].extent # 0
    <3> HIDE DEF i
    <3> QED
      BY Zenon, <2>1, EvidenceIsHonest
  <2>3. s.commands \subseteq s.clean
    BY Zenon, <2>2 DEF SessionOK, IndexHonest
  <2> HIDE DEF i, e
  <2>4. replay' = [NoReplay EXCEPT !.q = {q}, !.at = 1, !.extent = i.copies[q.site].extent,
                                   !.evidence = {e}]
    BY Zenon, <1>2, <1>4
  <2>5. IsReplay(replay')
    BY <2>4, NoReplayIsReplay, Zenon DEF IsReplay
  <2>6. /\ replay'.at = 1 /\ replay'.q = {q} /\ replay'.extent = q.capacity
        /\ replay'.evidence = {e} /\ replay'.result = {}
    BY Zenon, <2>1, <2>4 DEF NoReplay
  <2>7. AdmittedOK'
    BY ZenonT(60), <1>1, <2>1, <2>2, <2>3, <2>6 DEF AdmittedOK
  <2>8. ProgressOK'
    BY <2>6 DEF ProgressOK
  <2>9. ResultValidates' /\ RefutedIsWarranted'
    BY Zenon, <2>6 DEF ResultValidates, RefutedIsWarranted
  <2> QED
    BY Zenon, <2>5, <2>6, <2>7, <2>8, <2>9 DEF ReplayOK
<1> QED
  BY Zenon, <1>3, <1>4

(* The steps of a running replay.                                          *)

\* A status without a body is no refutation, and ends the replay.
LEMMA RefuseKeepsReplay ==
  ASSUME ReplayOK, NEW st \in {"deadline", "unsupported"}, Refuse(st)
  PROVE  ReplayOK'
<1>1. IsReplay(replay')
  BY Zenon DEF Refuse, ReplayOK, IsReplay
<1>2. replay'.at = 0 /\ replay'.result = {[status |-> st]}
  BY Zenon, NoReplayFields DEF Refuse, ReplayOK, IsReplay
<1>3. ResultValidates' /\ RefutedIsWarranted'
  BY <1>2 DEF ResultValidates, RefutedIsWarranted
<1> QED
  BY Zenon, <1>1, <1>2, <1>3 DEF ReplayOK, Idle

\* A running replay has no result yet.
LEMMA RunningHasNoResult ==
  ASSUME ReplayOK, ~Idle
  PROVE  /\ IsReplay(replay) /\ AdmittedOK /\ ProgressOK /\ replay.result = {}
         /\ replay.at \in 1 .. 13
BY DEF ReplayOK, ProgressOK, Idle

\* Time, the writes of the target and the preserved image change nothing the
\* admission rests on.
LEMMA SameAdmission ==
  ASSUME ReplayOK, ~Idle, UNCHANGED covered, IsReplay(replay'), ProgressOK',
         replay'.q = replay.q, replay'.extent = replay.extent,
         replay'.evidence = replay.evidence, replay'.result = {}
  PROVE  ReplayOK'
<1>1. AdmittedOK'
  BY Zenon, RunningHasNoResult DEF AdmittedOK
<1>2. ResultValidates' /\ RefutedIsWarranted'
  BY Zenon DEF ResultValidates, RefutedIsWarranted
<1> QED
  BY Zenon, <1>1, <1>2 DEF ReplayOK

\* Starting a program preserves the image, or refuses past the deadline.
LEMMA LaunchKeepsReplay ==
  ASSUME ReplayOK, Launch, UNCHANGED covered
  PROVE  ReplayOK'
<1>1. CASE replay.left = 0
  BY Zenon, <1>1, RefuseKeepsReplay DEF Launch
<1>2. CASE replay.left # 0
  <2>1. /\ IsReplay(replay) /\ ProgressOK /\ replay.result = {} /\ replay.at \in 1 .. 13
        /\ ~Idle /\ proc.at = "none" /\ replay' = Preserve(replay) /\ Spawn(Wall)
    BY ZenonT(60), <1>2, RunningHasNoResult DEF Launch
  <2>2. proc'.at = "top"
    BY Zenon, <2>1 DEF Spawn, NoProc
  <2>3. IsReplay(replay')
    BY <2>1, Zenon DEF Preserve, IsReplay
  <2>4. /\ replay'.at = replay.at /\ replay'.q = replay.q
        /\ replay'.extent = replay.extent /\ replay'.evidence = replay.evidence
        /\ replay'.result = {} /\ replay'.passed = replay.passed
        /\ Program = "run" => replay'.image = replay.work
    BY Zenon, <2>1, NoReplayFields DEF Preserve, IsReplay
  <2>5. ProgressOK'
    BY ZenonT(60), <2>1, <2>2, <2>4, ProgramAt DEF ProgressOK
  <2> QED
    BY Zenon, <2>1, <2>3, <2>4, <2>5, SameAdmission
<1> QED
  BY Zenon, <1>1, <1>2

\* A step of the replay's surroundings leaves its verdict alone.
LEMMA EnvironmentKeepsReplay ==
  ASSUME ReplayOK, ReplayEnv, UNCHANGED covered
  PROVE  ReplayOK'
<1>1. /\ IsReplay(replay) /\ ProgressOK /\ replay.result = {} /\ replay.at \in 1 .. 13
      /\ ~Idle /\ proc' = proc
  BY Zenon, RunningHasNoResult DEF ReplayEnv, Elapse, Overwrite, process
<1>2. IsReplay(replay')
  BY <1>1, Zenon DEF ReplayEnv, Elapse, Overwrite, IsReplay
<1>3. /\ replay'.at = replay.at /\ replay'.q = replay.q
      /\ replay'.extent = replay.extent /\ replay'.evidence = replay.evidence
      /\ replay'.result = {} /\ replay'.passed = replay.passed
      /\ replay'.image = replay.image
      /\ proc.at = "none" => replay'.work = replay.work
  BY Zenon, <1>1, NoReplayFields DEF ReplayEnv, Elapse, Overwrite, IsReplay, Supervised
<1>4. ProgressOK'
  BY ZenonT(60), <1>1, <1>3 DEF ProgressOK
<1> QED
  BY ZenonT(60), <1>1, <1>2, <1>3, <1>4, SameAdmission

\* The fields of a completed refutation.
LEMMA RefutedOutcome ==
  ASSUME NEW c, c = Outcome("REFUTED", "COMPLETED", TRUE, TRUE, {})
  PROVE  /\ c.status = "REFUTED" /\ c.outcome = "COMPLETED" /\ c.supported /\ c.complete
         /\ c.frontier = {} /\ c.witness = {"witness"}
<1>1. c.status = "REFUTED" /\ c.outcome = "COMPLETED"
  BY Zenon DEF Outcome
<1>2. c.supported /\ c.complete
  BY Zenon DEF Outcome
<1>3. c.frontier = {} /\ c.witness = {"witness"}
  BY Zenon DEF Outcome
<1> QED
  BY Zenon, <1>1, <1>2, <1>3

\* What Classify makes of a run, a refutation included, is a valid result.
LEMMA ClassifyIsValid ==
  ASSUME NEW q \in Requests, replay.q = {q}, NEW built \in BOOLEAN, NEW exit, NEW size,
         NEW c, c = Classify(built, exit, size), NEW r,
         r = [status |-> c.status, body |-> c, deps |-> Dependencies(built, c),
              executable |-> IF built THEN Executed ELSE "none"]
  PROVE  /\ ValidResult(q, r)
         /\ r.status = "REFUTED" => built /\ q.requested > q.capacity
<1>1. Request = q
  BY Zenon DEF Request
<1>2. q.capacity \in Nat /\ q.requested \in Nat
  BY Zenon, RequestsAssumption
<1>3. r.status = c.status /\ r.body = c /\ r.deps = Dependencies(built, c)
  BY Zenon
<1>4. "evidence" \in r.deps /\ c.witness \subseteq r.deps
  BY Zenon, <1>3 DEF Dependencies
<1>5. \/ c = Outcome("REFUTED", "COMPLETED", TRUE, TRUE, {}) /\ built /\ Decides(q, size)
      \/ \E st \in {"ERROR", "UNKNOWN"} : \E op, whole, refs :
           c = Outcome(st, op, FALSE, whole, refs)
  BY <1>1, Zenon DEF Classify
<1>6. CASE /\ c = Outcome("REFUTED", "COMPLETED", TRUE, TRUE, {})
           /\ built /\ Decides(q, size)
  <2>1. /\ c.status = "REFUTED" /\ c.outcome = "COMPLETED" /\ c.supported /\ c.complete
        /\ c.frontier = {} /\ c.witness = {"witness"}
    BY <1>6, RefutedOutcome, Zenon
  <2>2. q.requested > q.capacity
    BY ZenonT(60), <1>6 DEF Decides
  <2>3. ~(q.requested <= q.capacity)
    BY <1>2, <2>2
  <2> QED
    BY <1>3, <1>4, <1>6, <2>1, <2>2, <2>3, Zenon DEF ValidResult
<1>7. CASE \E st \in {"ERROR", "UNKNOWN"} : \E op, whole, refs :
             c = Outcome(st, op, FALSE, whole, refs)
  <2>1. c.status \in {"ERROR", "UNKNOWN"}
    BY <1>7 DEF Outcome
  <2> QED
    BY ZenonT(60), <1>3, <1>4, <2>1 DEF ValidResult
<1> QED
  BY ZenonT(60), <1>5, <1>6, <1>7

\* A composed result validates, and a refutation has the whole chain behind it.
LEMMA ComposeKeepsReplay ==
  ASSUME ReplayOK, ~Idle, proc.at = "returned", UNCHANGED covered,
         NEW built \in BOOLEAN, built => Program = "run", NEW exit, NEW size,
         Compose(built, exit, size)
  PROVE  ReplayOK'
<1> DEFINE c == Classify(built, exit, size)
           r == [status |-> c.status, body |-> c, deps |-> Dependencies(built, c),
                 executable |-> IF built THEN Executed ELSE "none"]
<1>1. /\ IsReplay(replay) /\ AdmittedOK /\ ProgressOK /\ replay.at \in 1 .. 13
  BY Zenon, RunningHasNoResult
<1>2. replay' = [replay EXCEPT
                   !.at = 0, !.left = @ - proc.t, !.work = "none", !.image = "none",
                   !.passed = IF built THEN @ \cup {"run"} ELSE @, !.result = {r}]
  BY Zenon DEF Compose
<1>3. PICK q \in Requests :
        /\ replay.q = {q} /\ replay.extent = q.capacity /\ q.capacity # 0
        /\ \A e \in replay.evidence : e.supported /\ e.complete
        /\ covered
  BY Zenon, <1>1 DEF AdmittedOK
<1>4. ValidResult(q, r) /\ (r.status = "REFUTED" => built /\ q.requested > q.capacity)
  <2> HIDE DEF c
  <2> QED
    BY <1>3, ClassifyIsValid DEF c
<1>5. r.executable = IF built THEN replay.image ELSE "none"
  BY Zenon DEF Executed
<1> HIDE DEF r
<1>6. IsReplay(replay')
  BY <1>1, <1>2, Zenon DEF IsReplay
<1>7. /\ replay'.at = 0 /\ replay'.q = {q} /\ replay'.extent = q.capacity
      /\ replay'.evidence = replay.evidence /\ replay'.result = {r}
      /\ replay.passed \subseteq replay'.passed
  BY Zenon, <1>1, <1>2, <1>3, NoReplayFields DEF IsReplay
<1>8. ResultValidates'
  BY ZenonT(60), <1>4, <1>7 DEF ResultValidates
<1>9. ASSUME r.status = "REFUTED"
      PROVE  /\ r.executable = "linked"
             /\ {Programs[j] : j \in 1 .. Len(Programs)} \ {"run"} \subseteq replay.passed
  <2>1. built /\ replay.at = 13
    BY Zenon, <1>1, <1>4, <1>9, ProgramAt
  <2>2. replay.image = "linked" /\ \A j \in 1 .. 12 : Programs[j] \in replay.passed
    BY <1>1, <2>1 DEF ProgressOK
  <2>3. {Programs[j] : j \in 1 .. Len(Programs)} \ {"run"} \subseteq {Programs[j] : j \in 1 .. 12}
    BY ProgramsAre
  <2> QED
    BY ZenonT(60), <1>5, <2>1, <2>2, <2>3
<1>10. q.capacity \in Nat /\ q.capacity > 0
  BY <1>3, RequestsAssumption
<1>11. RefutedIsWarranted'
  BY ZenonT(60), <1>3, <1>4, <1>7, <1>9, <1>10 DEF RefutedIsWarranted
<1> QED
  BY Zenon, <1>6, <1>7, <1>8, <1>11 DEF ReplayOK, Idle

\* Taking a program's result moves the replay on, or ends it with a verdict
\* the run warrants.
LEMMA CollectKeepsReplay ==
  ASSUME ReplayOK, Collect, UNCHANGED covered
  PROVE  ReplayOK'
<1>1. ~Idle /\ proc.at = "returned" /\ proc'.at = "none"
  BY Zenon, NoProcIsProc DEF Collect
<1>2. PICK exit \in Statuses :
        \/ Refuse("deadline") \/ Refuse("unsupported")
        \/ Program = "run" /\ \E size : Compose(TRUE, exit, size)
        \/ Compose(FALSE, exit, 0)
        \/ /\ Program # "run"
           /\ replay' = [replay EXCEPT !.at = @ + 1, !.left = @ - proc.t,
                           !.passed = @ \cup {Program},
                           !.work = IF Program = "link" THEN "linked" ELSE @]
  BY Zenon DEF Collect
<1>3. CASE Refuse("deadline") \/ Refuse("unsupported")
  BY Zenon, <1>3, RefuseKeepsReplay
<1>4. CASE Program = "run" /\ \E size : Compose(TRUE, exit, size)
  BY Zenon, <1>1, <1>4, ComposeKeepsReplay
<1>5. CASE Compose(FALSE, exit, 0)
  BY ZenonT(60), <1>1, <1>5, ComposeKeepsReplay
<1>6. CASE /\ Program # "run"
           /\ replay' = [replay EXCEPT !.at = @ + 1, !.left = @ - proc.t,
                           !.passed = @ \cup {Program},
                           !.work = IF Program = "link" THEN "linked" ELSE @]
  <2>1. IsReplay(replay) /\ ProgressOK /\ replay.result = {} /\ replay.at \in 1 .. 13
    BY Zenon, <1>1, RunningHasNoResult
  <2>2. IsReplay(replay')
    BY <1>6, <2>1, Zenon DEF IsReplay
  <2>3. /\ replay'.at = replay.at + 1 /\ replay'.q = replay.q
        /\ replay'.extent = replay.extent /\ replay'.evidence = replay.evidence
        /\ replay'.result = {} /\ replay'.passed = replay.passed \cup {Programs[replay.at]}
        /\ Program = "link" => replay'.work = "linked"
    BY Zenon, <1>6, <2>1, NoReplayFields DEF IsReplay, Program
  <2>4. replay.at \in 1 .. 12 /\ (replay.at = 12 => replay'.work = "linked")
    BY SMTT(30), <1>6, <2>1, <2>3, ProgramAt
  <2>5. ProgressOK'
    BY <1>1, <2>1, <2>3, <2>4 DEF ProgressOK
  <2> QED
    BY ZenonT(60), <1>1, <2>2, <2>3, <2>5, SameAdmission
<1> QED
  BY Zenon, <1>2, <1>3, <1>4, <1>5, <1>6

\* A step of the running program leaves the replay alone, and a program that runs
\* goes on running or returns.
LEMMA ProcessKeepsReplay ==
  ASSUME ReplayOK, IsProc(proc), ProcessNext, UNCHANGED <<covered, replay>>
  PROVE  ReplayOK'
<1>1. proc.at # "none" /\ proc'.at # "none"
  BY Zenon, ProcessSteps DEF ProcessNext
<1>2. ProgressOK => ProgressOK'
  BY ZenonT(60), <1>1 DEF ProgressOK
<1>3. ResultValidates' /\ RefutedIsWarranted'
  BY ZenonT(60) DEF ReplayOK, ResultValidates, RefutedIsWarranted
<1> QED
  BY ZenonT(60), <1>2, <1>3 DEF ReplayOK, AdmittedOK, Idle

\* The process invariant holds throughout a review.
LEMMA ProcInvariant == Spec => []ProcOK
<1>1. Init => ProcOK
  BY Zenon, NoProcIsProc DEF Init, ProcOK, NoKnownSurvivor
<1>2. ProcOK /\ [Next]_vars => ProcOK'
  <2> SUFFICES ASSUME ProcOK, [Next]_vars PROVE ProcOK'
    BY Zenon
  <2>1. CASE UNCHANGED process
    BY Zenon, <2>1 DEF process, ProcOK, NoKnownSurvivor
  <2>2. CASE Spawn(Wall)
    <3>1. IsProc(proc')
      BY <2>2, NoProcIsProc, Zenon DEF Spawn, IsProc
    <3>2. proc'.at = "top"
      BY Zenon, <2>2 DEF Spawn, NoProc
    <3> QED
      BY ZenonT(60), <3>1, <3>2 DEF ProcOK, NoKnownSurvivor
  <2>3. CASE Collect
    BY Zenon, <2>3, NoProcIsProc DEF Collect, ProcOK, NoKnownSurvivor
  <2>4. CASE ProcessNext
    <3>1. IsProc(proc') /\ (proc'.at = "returned" => End)
      BY Zenon, <2>4, ProcessSteps DEF ProcOK, ProcessNext
    <3> QED
      BY ZenonT(60), <3>1, EndLeavesStrangers DEF ProcOK, NoKnownSurvivor
  <2> QED
    BY ZenonT(60), <2>1, <2>2, <2>3, <2>4
       DEF Next, vars, VerifyCall, Verify, Index, ReplayStep, ReplayEnv, Launch, Elapse,
           Overwrite
<1> QED
  BY <1>1, <1>2, PTL DEF Spec

\* The replay invariant holds throughout a review.
LEMMA ReplayInvariant == Spec => []ReplayOK
<1>1. Init => ReplayOK
  <2> SUFFICES ASSUME Init PROVE ReplayOK
    BY Zenon
  <2>1. IsReplay(replay) /\ replay.at = 0 /\ replay.result = {}
    BY ZenonT(60), NoReplayIsReplay DEF Init, NoReplay
  <2> QED
    BY ZenonT(60), <2>1 DEF ReplayOK, Idle, ResultValidates, RefutedIsWarranted
<1>2. SessionOK /\ ProcOK /\ ReplayOK /\ [Next]_vars => ReplayOK'
  <2> SUFFICES ASSUME SessionOK, ProcOK, ReplayOK, [Next]_vars PROVE ReplayOK'
    BY Zenon
  <2>1. CASE UNCHANGED <<covered, replay, process>>
    BY ZenonT(60), <2>1 DEF process, ReplayOK, AdmittedOK, ProgressOK, Idle, ResultValidates,
                RefutedIsWarranted
  <2>2. CASE VerifyCall
    BY Zenon, <2>2, VerifyStartsOK
  <2>3. CASE (ReplayStep \/ ReplayEnv) /\ UNCHANGED <<capture, session, covered>>
    BY Zenon, <2>3, LaunchKeepsReplay, CollectKeepsReplay, EnvironmentKeepsReplay DEF ReplayStep
  <2>4. CASE ProcessNext /\ UNCHANGED <<capture, session, covered, replay>>
    BY Zenon, <2>4, ProcessKeepsReplay DEF ProcOK
  <2> QED
    BY Zenon, <2>1, <2>2, <2>3, <2>4 DEF Next, vars, Index
<1> QED
  BY <1>1, <1>2, SessionInvariant, ProcInvariant, PTL DEF Spec

\* When RunBounded has returned, nothing it could know of is still running,
\* however the child forks, leaves the group, exits or holds its pipes.
THEOREM NothingKnownSurvives == Spec => []NoKnownSurvivor
BY ProcInvariant, PTL DEF ProcOK

\* Every result RunAsanReplay composes passes ValidateVerificationResult.
THEOREM ResultsValidate == Spec => []ResultValidates
BY ReplayInvariant, PTL DEF ReplayOK

\* RunAsanReplay refutes only with the whole chain behind it: an index that covers
\* every command, complete evidence with the extent, denied canaries, and the
\* linked image, whatever the target writes while it runs.
THEOREM RefutationsAreWarranted == Spec => []RefutedIsWarranted
BY ReplayInvariant, PTL DEF ReplayOK
=============================================================================
