-------------------------- MODULE SnapshotCapture --------------------------
(* CaptureReviewSnapshot (src/review/SnapshotCapture.cpp) beside a writer of *)
(* the working tree.  A file is absent or has bytes and a stamp; a stamp     *)
(* names one write (device, inode, size, times and mode together), so        *)
(* restoring the bytes does not restore the stamp.  A read is two steps: the *)
(* first fstat, then the bytes with the second fstat.  Bytes are model       *)
(* values with a size; digests are the bytes themselves.                     *)
EXTENDS Naturals, FiniteSets

CONSTANTS Path, Bytes, Size,   \* paths (numbers, in order), contents, sizes
          Tracked,             \* paths in the index and the base tree
          Untracked,           \* request.selected_untracked
          Artifacts,           \* paths below request.selected_artifacts
          Manifest,            \* request.program_manifest_path
          Database,            \* request.compile_commands_path
          Units,               \* Units[b]: units that manifest b declares
          Commands,            \* Commands[b]: files that database b compiles
          Initial,             \* the tree before any write
          MaxFiles, MaxBytes, MaxWrites

\* Paths are compared as numbers; every file of the first tree is one write old.
ASSUME PathAssumption == Path \subseteq Nat
ASSUME InitialAssumption == Initial \in [Path -> SUBSET [bytes : Bytes, stamp : {1}]]

VARIABLES tree,      \* Path -> {} or {[bytes, stamp]}: the live tree
          stamps,    \* writes so far
          index,     \* git ls-files: a version
          cap,       \* the capture in progress
          between    \* history: the tree between the two collections

capture == <<tree, stamps, index, cap, between>>

NoCapture == [at |-> "idle", index |-> 0, members |-> {}, todo |-> {}, open |-> {},
              got |-> [p \in {} |-> {}], total |-> 0, unselected |-> {},
              excluded |-> {}]

CaptureInit ==
  /\ tree = Initial /\ stamps = 1 /\ index = 0
  /\ cap = NoCapture /\ between = Initial

(***************************************************************************)
(* The writer                                                              *)
(***************************************************************************)

\* A write, in place or by replacement, leaves a new stamp; so does a removal
\* followed by a new file.
Write(p) ==
  /\ stamps < MaxWrites /\ stamps' = stamps + 1
  /\ \E f \in {{}} \cup {{[bytes |-> b, stamp |-> stamps']} : b \in Bytes} :
       tree[p] # f /\ tree' = [tree EXCEPT ![p] = f]
  /\ UNCHANGED <<index, cap, between>>

\* git add, git rm: the index and the tree change independently.
Stage ==
  /\ stamps < MaxWrites /\ stamps' = stamps + 1
  /\ index' = 1 - index
  /\ UNCHANGED <<tree, cap, between>>

(***************************************************************************)
(* The capture                                                             *)
(***************************************************************************)

\* Present members of the selected artifact directories (Walk).
Present == {p \in Artifacts : tree[p] # {}}

\* Base, index, untracked files and artifact members are read, the selection is
\* fixed; the special inputs are always selected.
Pin ==
  /\ cap.at = "idle"
  /\ cap' = [NoCapture EXCEPT
               !.at = "first", !.index = index, !.members = Present,
               !.todo = Tracked \cup Untracked \cup Present \cup {Manifest, Database}]
  /\ UNCHANGED <<tree, stamps, index, between>>

\* ReadFile, first half, in path order; a missing file is a state of its own.
\* The file budget refuses the capture.
Open(p) ==
  /\ cap.at \in {"first", "second"} /\ cap.open = {}
  /\ p \in cap.todo /\ \A q \in cap.todo : p <= q
  /\ LET over == IF cap.at = "first" THEN Cardinality(DOMAIN cap.got) >= MaxFiles
                 ELSE FALSE
     IN cap' = IF over THEN [NoCapture EXCEPT !.at = "refused"]
               ELSE [cap EXCEPT !.open = {[path |-> p, file |-> tree[p]]}]
  /\ UNCHANGED <<tree, stamps, index, between>>

\* ReadFile, second half: a file over the byte budget, or one that changed under
\* the read, refuses the capture.
Bytesof(f) == {x.bytes : x \in f}
Room == IF cap.at = "first" THEN MaxBytes - cap.total ELSE MaxBytes
Fits(f) == \A x \in f : Size[x.bytes] <= Room
Weight(f) == IF f = {} THEN 0 ELSE Size[(CHOOSE x \in f : TRUE).bytes]

\* Mutant: the second collection compares contents only.
SameBytes(f, g) == Bytesof(f) = Bytesof(g)

\* FileState comparison: bytes, stamp and issue.
SameState(f, g) == f = g

Finish ==
  /\ \E o \in cap.open :
       LET f == o.file
           rest == cap.todo \ {o.path}
       IN IF f # {} /\ (tree[o.path] # f \/ ~Fits(f))
          THEN cap' = [NoCapture EXCEPT !.at = "refused"]
          ELSE IF cap.at = "first"
          THEN cap' = [cap EXCEPT !.open = {}, !.todo = rest,
                                  !.got = [p \in DOMAIN cap.got \cup {o.path} |->
                                             IF p = o.path THEN f ELSE cap.got[p]],
                                  !.total = @ + Weight(f)]
          ELSE cap' = IF SameState(f, cap.got[o.path])
                      THEN [cap EXCEPT !.open = {}, !.todo = rest]
                      ELSE [NoCapture EXCEPT !.at = "refused"]
  /\ UNCHANGED <<tree, stamps, index, between>>

\* The captured manifest may select further members, but never an untracked
\* source that was not selected; without a manifest the capture is refused.
Members ==
  /\ cap.at = "first" /\ cap.open = {} /\ cap.todo = {}
  /\ LET declared == UNION {Units[b] : b \in Bytesof(cap.got[Manifest])}
         known == Tracked \cup Untracked \cup cap.members \cup {Manifest, Database}
     IN IF cap.got[Manifest] = {} THEN cap' = [NoCapture EXCEPT !.at = "refused"]
        ELSE IF (declared \cap known) \ DOMAIN cap.got # {}
        THEN cap' = [cap EXCEPT !.todo = (declared \cap known) \ DOMAIN cap.got]
        ELSE cap' = [cap EXCEPT !.at = "second", !.todo = DOMAIN cap.got,
                                !.unselected = declared \ known]
  /\ between' = tree
  /\ UNCHANGED <<tree, stamps, index>>

\* The last comparisons: artifact members and the index.  The untracked files
\* are listed again but not compared.
Publish ==
  /\ cap.at = "second" /\ cap.open = {} /\ cap.todo = {}
  /\ cap' = IF Present = cap.members /\ index = cap.index
            THEN [cap EXCEPT !.at = "published"]
            ELSE [NoCapture EXCEPT !.at = "refused"]
  /\ UNCHANGED <<tree, stamps, index, between>>

(***************************************************************************)
(* What is published: captured files, program scope, compiler commands     *)
(* (ResolveProgramScope and the tail of CaptureReviewSnapshot)             *)
(***************************************************************************)

Files(c) == {p \in DOMAIN c.got : c.got[p] # {}}
Declared(c) == UNION {Units[b] : b \in Bytesof(c.got[Manifest])}
ScopeFrontier(c) == Declared(c) \ Files(c)
Scope(c) == [closed |-> ScopeFrontier(c) = {},
             members |-> Declared(c) \cap Files(c),
             frontier |-> ScopeFrontier(c)]
CompilerCommands(c) ==
  LET named == IF Database \in Files(c)
               THEN UNION {Commands[b] : b \in Bytesof(c.got[Database])} ELSE {}
  IN named \cap Scope(c).members

CaptureNext ==
  \/ Pin \/ Finish \/ Members \/ Publish
  \/ \E p \in Path : Write(p) \/ Open(p)
  \/ Stage

\* What a snapshot publishes coexisted: at the instant between the two
\* collections every captured file had exactly the captured bytes ("Coherent
\* double collection").
CoherentSnapshot ==
  cap.at = "published" =>
    \A p \in Files(cap) : Bytesof(between[p]) = Bytesof(cap.got[p])
=============================================================================
