------------------------------ MODULE FactStore ------------------------------
(***************************************************************************)
(* Delivery of fact batches, the fact store, and its lookup index.         *)
(*                                                                         *)
(* AnalysisFactBus::Publish hands a validated batch to the FactStore sink, *)
(* which writes facts, bindings, proofs and a receipt to metadata.db and,  *)
(* when the index is known to be complete, index rows and a seal to        *)
(* fact_lookup.v1.db, all in one transaction.  The bus then records the    *)
(* delivery in a second one.  A reader pins both files with a transaction  *)
(* and pages through the facts that match a selector.                      *)
(*                                                                         *)
(* SQLite serialises the connections: a write commits only while no reader *)
(* holds the file, and fails at once otherwise (no busy timeout is set).   *)
(***************************************************************************)
EXTENDS Naturals, Sequences

CONSTANTS
  Run,        \* analysis runs
  Fact,       \* fact identifiers, in the order in which the index is read
  Witness,    \* identifiers of selected proofs, ordered likewise
  Batch,      \* batch identifiers
  RunOf,      \* RunOf[b]: the run batch b belongs to
  Proof,      \* Proof[b]: the facts b derives, each with its selected proof
  Rooted,     \* Rooted[b]: the input facts at the leaves of b's proofs
  Legacy,     \* what stores older than receipts can hold: facts of each run
  Size,       \* Size[f]: the serialized size of a fact
  Selector,   \* what can be asked: driving index rows, and those that match
  Request,    \* row, work and byte limits of a page
  Publisher,  \* processes that publish
  MaxFile     \* bound on the number of files metadata.db has been

Derived(b) == DOMAIN Proof[b]

\* The proof a binding names when it was written before batches had receipts.
LegacyWitness == 0

ASSUME BatchAssumption ==
  /\ Fact \subseteq Nat \ {0}
  /\ Witness \subseteq Nat \ {0}
  /\ RunOf \in [Batch -> Run]
  /\ \A b \in Batch : Derived(b) \subseteq Fact /\ Proof[b] \in [Derived(b) -> Witness]
  /\ Rooted \in [Batch -> SUBSET Fact]
  /\ Legacy \subseteq [Run -> SUBSET Fact]
  /\ MaxFile \in Nat

ASSUME PageAssumption ==
  /\ Size \in [Fact -> Nat \ {0}]
  /\ Selector \subseteq [drive : SUBSET Fact, match : SUBSET Fact]
  /\ \A s \in Selector : s.match \subseteq s.drive
  /\ Request \subseteq [limit : Nat \ {0}, work : Nat \ {0}, bytes : Nat \ {0}]

-----------------------------------------------------------------------------
VARIABLES
  db,       \* metadata.db
  file,     \* the device and inode of metadata.db
  sidecar,  \* fact_lookup.v1.db
  backup,   \* a copy of some metadata.db, and the file it was taken from
  pub,      \* where each publisher is, and with which batch
  pinned,   \* {} or the run whose snapshot the reader holds
  snap,     \* {} or the fingerprint of the pinned lookup
  page,     \* {} or the page being read
  outcome,  \* how the last page of this snapshot ended
  sel,      \* {} or the selector of the query, which its cursor also names
  cursor,   \* {} or the continuation the reader's client holds
  got       \* the facts the client has collected with it

stores == <<db, file, sidecar, backup>>
client == <<sel, cursor, got>>
reader == <<pinned, snap, page, outcome, client>>
vars == <<stores, pub, reader>>

-----------------------------------------------------------------------------
(* metadata.db: receipts in order, binding rows of a fact in order (the     *)
(* last one is current), canonical facts, proof nodes, bus deliveries.      *)

LegacyStore(held) ==
  [receipts  |-> [r \in Run |-> <<>>],
   rows      |-> [r \in Run |-> [f \in Fact |->
                    IF f \in held[r] THEN <<LegacyWitness>> ELSE <<>>]],
   facts     |-> UNION {held[r] : r \in Run},
   nodes     |-> {n \in Run \X Fact \X {LegacyWitness} : n[2] \in held[n[1]]},
   delivered |-> {}]

CurrentFacts(d, r) == {f \in Fact : d.rows[r][f] # <<>>}

CurrentWitness(d, r, f) == d.rows[r][f][Len(d.rows[r][f])]

HasReceipt(d, b) == \E i \in 1..Len(d.receipts[RunOf[b]]) : d.receipts[RunOf[b]][i] = b

\* The rows Publish writes to metadata.db, receipt included.
StoreBatch(d, b) ==
  LET r == RunOf[b] IN
  [receipts  |-> [d.receipts EXCEPT ![r] = Append(@, b)],
   rows      |-> [d.rows EXCEPT ![r] = [f \in Fact |->
                    IF f \in Derived(b) THEN Append(d.rows[r][f], Proof[b][f])
                                        ELSE d.rows[r][f]]],
   facts     |-> d.facts \cup Derived(b) \cup Rooted[b],
   nodes     |-> d.nodes \cup {<<r, f, Proof[b][f]>> : f \in Derived(b)},
   delivered |-> d.delivered]

-----------------------------------------------------------------------------
(* fact_lookup.v1.db: index rows by run, and the seal of each run.          *)

EmptySidecar == [index |-> [r \in Run |-> {}], meta |-> [r \in Run |-> {}]]

\* ReadyLookupFingerprint against ReadLookupReceipt: the seal was made by this
\* file for exactly these receipts.
ReadyAnyFile(r) ==
  \E m \in sidecar.meta[r] : m.chain = db.receipts[r]

Ready(r) ==
  /\ db.receipts[r] # <<>>
  /\ \E m \in sidecar.meta[r] : m.chain = db.receipts[r] /\ m.file = file

\* SealFactLookup: the receipts and the exact membership, bound to this file.
Seal(d, r) == [chain |-> d.receipts[r], members |-> CurrentFacts(d, r), file |-> file]

\* What identifies a snapshot to its readers (snapshot_digest).
Fingerprint(r, m) == [run |-> r, chain |-> m.chain, members |-> m.members]

IndexWithMoreSeals(d, r, rows) ==
  [index |-> [sidecar.index EXCEPT ![r] = rows],
   meta  |-> [sidecar.meta EXCEPT ![r] = @ \cup {Seal(d, r)}]]

IndexWith(d, r, rows) ==
  [index |-> [sidecar.index EXCEPT ![r] = rows],
   meta  |-> [sidecar.meta EXCEPT ![r] = {Seal(d, r)}]]

\* Whether Publish extends the index: it is complete, or nothing is stored yet.
IndexesBatch(r) ==
  IF db.receipts[r] # <<>> THEN Ready(r) ELSE CurrentFacts(db, r) = {}

\* A first batch clears whatever rows the run has in the sidecar.
SidecarAfter(b) ==
  LET r == RunOf[b]
      kept == IF db.receipts[r] # <<>> THEN sidecar.index[r] ELSE {}
  IN IF IndexesBatch(r)
     THEN IndexWith(StoreBatch(db, b), r, kept \cup Derived(b))
     ELSE sidecar

-----------------------------------------------------------------------------
Init ==
  /\ \E held \in Legacy : db = LegacyStore(held)
  /\ \E held \in Legacy : backup = [db |-> LegacyStore(held), file |-> 0]
  /\ file = 1
  /\ sidecar = EmptySidecar
  /\ pub = [p \in Publisher |-> [pc |-> "idle", batch |-> {}]]
  /\ pinned = {} /\ snap = {} /\ page = {} /\ outcome = "none"
  /\ sel = {} /\ cursor = {} /\ got = <<>>

Goto(p, pc, batch) == pub' = [pub EXCEPT ![p] = [pc |-> pc, batch |-> batch]]

At(p, pc, b) == pub[p] = [pc |-> pc, batch |-> {b}]

\* A reader's transaction holds metadata.db from its first read on.
Writable == pinned = {}

\* It holds the sidecar once it has met a receipt and looked for the seal.
SidecarWritable == \A r \in pinned : db.receipts[r] = <<>>

-----------------------------------------------------------------------------
(* AnalysisFactBus::Publish and FactStore::Publish.                         *)

\* IsDelivered says no.  (When it says yes the bus returns at once.)
StartPublish(p, b) ==
  /\ pub[p].pc = "idle"
  /\ b \notin db.delivered
  /\ Goto(p, "receipt", {b})
  /\ UNCHANGED <<stores, reader>>

\* A batch that has a receipt is a successful no-op.  The query runs before the
\* transaction opens.
CheckReceiptMarksEarly(p, b) ==
  /\ At(p, "receipt", b)
  /\ Goto(p, "mark", {b})
  /\ UNCHANGED <<stores, reader>>

CheckReceipt(p, b) ==
  /\ At(p, "receipt", b)
  /\ Goto(p, IF HasReceipt(db, b) THEN "mark" ELSE "transaction", {b})
  /\ UNCHANGED <<stores, reader>>

\* The transaction.  The receipt's primary key refuses a batch that another
\* publisher has stored since the query.
CommitTwice(p, b) ==
  /\ At(p, "transaction", b)
  /\ Writable
  /\ db' = StoreBatch(db, b)
  /\ sidecar' = SidecarAfter(b)
  /\ Goto(p, "mark", {b})
  /\ UNCHANGED <<file, backup, reader>>

Commit(p, b) ==
  /\ At(p, "transaction", b)
  /\ Writable
  /\ ~HasReceipt(db, b)
  /\ db' = StoreBatch(db, b)
  /\ sidecar' = SidecarAfter(b)
  /\ Goto(p, "mark", {b})
  /\ UNCHANGED <<file, backup, reader>>

\* The machine stops in the commit and one of the two files keeps it, which a
\* store in WAL mode allows: first metadata.db alone, then the sidecar alone.
SplitCommit(p, b) ==
  /\ At(p, "transaction", b)
  /\ Writable
  /\ ~HasReceipt(db, b)
  /\ db' = StoreBatch(db, b)
  /\ pub' = [q \in Publisher |-> [pc |-> "idle", batch |-> {}]]
  /\ UNCHANGED <<file, sidecar, backup, reader>>

SplitSidecar(p, b) ==
  /\ At(p, "transaction", b)
  /\ Writable
  /\ ~HasReceipt(db, b)
  /\ sidecar' = SidecarAfter(b)
  /\ pub' = [q \in Publisher |-> [pc |-> "idle", batch |-> {}]]
  /\ UNCHANGED <<db, file, backup, reader>>

MarkDelivered(p, b) ==
  /\ At(p, "mark", b)
  /\ Writable
  /\ db' = [db EXCEPT !.delivered = @ \cup {b}]
  /\ Goto(p, "idle", {})
  /\ UNCHANGED <<file, sidecar, backup, reader>>

\* A statement fails (a reader holds the file, the key is taken, the disk) and
\* the transaction is rolled back, or the process dies.
FailPublish(p) ==
  /\ pub[p].pc # "idle"
  /\ Goto(p, "idle", {})
  /\ UNCHANGED <<stores, reader>>

\* The operator's explicit rebuild, one transaction that writes the sidecar.
RebuildFactLookup(r) ==
  /\ db.receipts[r] # <<>>
  /\ SidecarWritable
  /\ sidecar' = IndexWith(db, r, CurrentFacts(db, r))
  /\ UNCHANGED <<db, file, backup, pub, reader>>

-----------------------------------------------------------------------------
(* The files change under the store while nothing has it open.              *)

Offline == pinned = {} /\ \A p \in Publisher : pub[p].pc = "idle"

LoseSidecar ==
  /\ Offline
  /\ sidecar' = EmptySidecar
  /\ UNCHANGED <<db, file, backup, pub, reader>>

TakeBackup ==
  /\ Offline
  /\ backup' = [db |-> db, file |-> file]
  /\ UNCHANGED <<db, file, sidecar, pub, reader>>

\* The contents are rolled back inside the file they came from.
RestoreInPlace ==
  /\ Offline
  /\ backup.file = file
  /\ db' = backup.db
  /\ UNCHANGED <<file, sidecar, backup, pub, reader>>

\* metadata.db becomes another file; the sidecar beside it stays.
RestoreNewFile ==
  /\ Offline
  /\ file < MaxFile
  /\ file' = file + 1
  /\ db' = backup.db
  /\ UNCHANGED <<sidecar, backup, pub, reader>>

-----------------------------------------------------------------------------
(* FactStoreEvidenceBackend::Snapshot and FactStore::ReadFacts.             *)

\* BeginTransaction and PinFactLookup.  Without a seal for the receipts the
\* snapshot opens and refuses every page.
OpenSnapshot(r) ==
  /\ pinned = {}
  /\ pinned' = {r}
  /\ snap' = IF Ready(r) THEN {Fingerprint(r, m) : m \in sidecar.meta[r]} ELSE {}
  /\ UNCHANGED <<stores, pub, page, outcome, client>>

\* The destructor rolls back; the client keeps its cursor.
CloseSnapshot ==
  /\ pinned # {}
  /\ page = {}
  /\ pinned' = {} /\ snap' = {} /\ outcome' = "none"
  /\ UNCHANGED <<stores, pub, page, client>>

BeginPage(q) ==
  /\ page' = {[limit |-> q.limit, work |-> q.work, bytes |-> q.bytes,
               count |-> 0, examined |-> 0, used |-> 0, start |-> cursor']}
  /\ outcome' = "none"
  /\ UNCHANGED <<stores, pub, pinned, snap>>

FirstPage(s, q) ==
  /\ snap # {} /\ page = {}
  /\ sel' = {s} /\ cursor' = {} /\ got' = <<>>
  /\ BeginPage(q)

\* The cursor belongs to this snapshot and this selector.
Matches(c, s) == c.snap \in snap /\ s \in sel

NextPage(s, q) ==
  /\ page = {}
  /\ \E c \in cursor : Matches(c, s)
  /\ sel' = {s}
  /\ UNCHANGED <<cursor, got>>
  /\ BeginPage(q)

\* A cursor of another snapshot or selector is refused; the client starts again.
RejectCursor(s) ==
  /\ snap # {} /\ page = {}
  /\ \E c \in cursor : ~Matches(c, s)
  /\ cursor' = {} /\ got' = <<>> /\ sel' = {}
  /\ UNCHANGED <<stores, pub, pinned, snap, page, outcome>>

\* The index rows of the driving equality past the cursor, and the first one.
Candidates(s) ==
  UNION {{f \in sidecar.index[r] \cap s.drive : \A c \in cursor : f > c.last} :
           r \in pinned}

NextRow(s) == {f \in Candidates(s) : \A g \in Candidates(s) : f <= g}

EndPage(how) == page' = {} /\ outcome' = how /\ UNCHANGED <<stores, pub, pinned, snap, sel>>

\* max_examined rows have been looked at.
EndOfWorkEarly(g) ==
  /\ g.examined + 1 >= g.work
  /\ EndPage("work")
  /\ UNCHANGED <<cursor, got>>

EndOfWork(g) ==
  /\ g.examined >= g.work
  /\ EndPage("work")
  /\ UNCHANGED <<cursor, got>>

EndOfIndex(g, s) ==
  /\ g.examined < g.work
  /\ Candidates(s) = {}
  /\ cursor' = {}
  /\ EndPage("exhausted")
  /\ UNCHANGED got

\* Why the next row is not consumed: the fact is not stored, or it matches and
\* the page is full, its bytes do not fit, or the run does not bind it.
ObstaclePerRow(g, s, f) ==
  IF f \notin s.match THEN "none"
  ELSE IF g.count = g.limit THEN "limit"
  ELSE IF Size[f] > g.bytes THEN "bytes"
  ELSE "none"

Obstacle(g, s, f) ==
  IF f \notin db.facts THEN "error"
  ELSE IF f \notin s.match THEN "none"
  ELSE IF g.count = g.limit THEN "limit"
  ELSE IF Size[f] > g.bytes - g.used THEN "bytes"
  ELSE IF \E r \in pinned : f \in CurrentFacts(db, r) THEN "none"
  ELSE "error"

\* The row stays for the next page.
StopPastRow(g, s, f) ==
  /\ g.examined < g.work
  /\ Obstacle(g, s, f) # "none"
  /\ EndPage(Obstacle(g, s, f))
  /\ cursor' = {[snap |-> x, last |-> f] : x \in snap}
  /\ UNCHANGED got

StopBeforeRow(g, s, f) ==
  /\ g.examined < g.work
  /\ Obstacle(g, s, f) # "none"
  /\ EndPage(Obstacle(g, s, f))
  /\ UNCHANGED <<cursor, got>>

\* The row is consumed, and returned if it matches.
ConsumeRow(g, s, f) ==
  LET returned == f \in s.match IN
  /\ g.examined < g.work
  /\ Obstacle(g, s, f) = "none"
  /\ cursor' = {[snap |-> x, last |-> f] : x \in snap}
  /\ got' = IF returned THEN Append(got, f) ELSE got
  /\ page' = {[limit |-> g.limit, work |-> g.work, bytes |-> g.bytes,
               count |-> IF returned THEN g.count + 1 ELSE g.count,
               examined |-> g.examined + 1,
               used |-> IF returned THEN g.used + Size[f] ELSE g.used,
               start |-> g.start]}
  /\ UNCHANGED <<stores, pub, pinned, snap, outcome, sel>>

ReadRow ==
  \E g \in page, s \in sel :
    \/ EndOfWork(g)
    \/ EndOfIndex(g, s)
    \/ \E f \in NextRow(s) : StopBeforeRow(g, s, f) \/ ConsumeRow(g, s, f)

-----------------------------------------------------------------------------
Publish ==
  \E p \in Publisher :
    \/ \E b \in Batch :
         \/ StartPublish(p, b)
         \/ CheckReceipt(p, b)
         \/ Commit(p, b)
         \/ SplitCommit(p, b)
         \/ SplitSidecar(p, b)
         \/ MarkDelivered(p, b)
    \/ FailPublish(p)

Maintain ==
  \/ \E r \in Run : RebuildFactLookup(r)
  \/ LoseSidecar
  \/ TakeBackup
  \/ RestoreInPlace
  \/ RestoreNewFile

Read ==
  \/ \E r \in Run : OpenSnapshot(r)
  \/ CloseSnapshot
  \/ \E s \in Selector, q \in Request : FirstPage(s, q)
  \/ \E s \in Selector, q \in Request : NextPage(s, q)
  \/ \E s \in Selector : RejectCursor(s)
  \/ ReadRow

Next == Publish \/ Maintain \/ Read

Spec == Init /\ [][Next]_vars

-----------------------------------------------------------------------------
(* Properties.                                                              *)

AtMostOne(S) == \A x, y \in S : x = y

Stores ==
  [receipts : [Run -> Seq(Batch)],
   rows : [Run -> [Fact -> Seq(Witness \cup {LegacyWitness})]],
   facts : SUBSET Fact,
   nodes : SUBSET (Run \X Fact \X (Witness \cup {LegacyWitness})),
   delivered : SUBSET Batch]

Seals == [chain : Seq(Batch), members : SUBSET Fact, file : Nat]
Sidecars == [index : [Run -> SUBSET Fact], meta : [Run -> SUBSET Seals]]
Snapshots == [run : Run, chain : Seq(Batch), members : SUBSET Fact]
Cursors == [snap : Snapshots, last : Fact]
Pages == [limit : Nat, work : Nat, bytes : Nat, count : Nat, examined : Nat,
          used : Nat, start : SUBSET Cursors]

\* Types, and "at most one" for everything that may be absent.
TypeOK ==
  /\ db \in Stores
  /\ file \in Nat
  /\ sidecar \in Sidecars
  /\ backup \in [db : Stores, file : Nat]
  /\ pub \in [Publisher -> [pc : {"idle", "receipt", "transaction", "mark"},
                            batch : SUBSET Batch]]
  /\ \A r \in Run : AtMostOne(sidecar.meta[r])
  /\ pinned \in SUBSET Run
  /\ snap \in SUBSET Snapshots
  /\ page \in SUBSET Pages
  /\ outcome \in {"none", "work", "exhausted", "limit", "bytes", "error"}
  /\ sel \in SUBSET Selector
  /\ cursor \in SUBSET Cursors
  /\ got \in Seq(Fact)
  /\ AtMostOne(pinned) /\ AtMostOne(snap) /\ AtMostOne(page)
  /\ AtMostOne(sel) /\ AtMostOne(cursor)

\* A lookup that answers is exact: whenever the seal matches the receipts and
\* the file, the index rows of the run are its current facts, whatever batches
\* were published unindexed, files lost, rolled back or exchanged before
\* (FactStore::Publish, RebuildFactLookup, ReadyLookupFingerprint).
ReadyIndexExact ==
  \A r \in Run : Ready(r) => sidecar.index[r] = CurrentFacts(db, r)

\* The facts a client collects over pages and snapshots are, in order and
\* without repetition, the current matching facts up to its cursor, and all of
\* them once a page says it is exhausted (FactStore::ReadFacts).
Ascending(s) == \A i, j \in 1..Len(s) : i < j => s[i] < s[j]

Collected == {got[i] : i \in 1..Len(got)}

ReadExact ==
  \A r \in pinned, s \in sel :
    LET wanted == CurrentFacts(db, r) \cap s.match IN
    /\ \A c \in cursor : c.snap \in snap =>
         Ascending(got) /\ Collected = {f \in wanted : f <= c.last}
    /\ outcome = "exhausted" => Ascending(got) /\ Collected = wanted

\* A page stays within its row, work and byte limits; EvidenceQueryService
\* treats anything else as a fault, and the remaining-bytes subtraction would
\* wrap.
PageWithinAllowance ==
  \A g \in page :
    g.count <= g.limit /\ g.examined <= g.work /\ g.used <= g.bytes

\* Every page makes progress: it is exhausted, or moves the cursor, or stops at
\* a row that is larger than the whole byte allowance.  Following continuations
\* with enough bytes therefore terminates.
PageAdvances ==
  [][\A g \in page, s \in sel :
       page' = {} =>
         \/ outcome' = "exhausted"
         \/ cursor' # g.start
         \/ outcome' = "bytes" /\ \E f \in NextRow(s) : Size[f] > g.bytes]_vars

\* The binding rows of a fact, after the one of an older store if it has it,
\* are one to one and in order the proofs of the batches that derive it.
AppliedInOrder(d, r, f) ==
  LET chain == d.receipts[r]
      rows == d.rows[r][f]
      old == IF rows # <<>> /\ rows[1] = LegacyWitness THEN 1 ELSE 0
      deriving == {i \in 1..Len(chain) : f \in Derived(chain[i])}
  IN \E at \in [1..(Len(rows) - old) -> deriving] :
       /\ \A i, j \in DOMAIN at : i < j => at[i] < at[j]
       /\ \A i \in deriving : \E j \in DOMAIN at : at[j] = i
       /\ \A j \in DOMAIN at : rows[old + j] = Proof[chain[at[j]]][f]

\* No batch has two receipts.
AppliedOnce(d, r) ==
  \A i, j \in 1..Len(d.receipts[r]) : d.receipts[r][i] = d.receipts[r][j] => i = j

\* A receipt stands for one application of its batch, although it is looked
\* up before the transaction and batches are redelivered.
HistoryIsReceipts ==
  \A r \in Run : AppliedOnce(db, r) /\ \A f \in Fact : AppliedInOrder(db, r, f)

\* What the bus records as delivered is stored and visible, across crashes
\* between the two transactions, concurrent publishers and restored files.
DeliveredIsStored ==
  \A b \in db.delivered :
    HasReceipt(db, b) /\ Derived(b) \subseteq CurrentFacts(db, RunOf[b])

\* "Provenance nodes: one selected witness per derived fact (plus retained
\* alternatives)": the selected proof of a current fact is the one its binding
\* names.  Explain reads the selected proofs in order and takes the first.
SelectedIsCurrent ==
  \A r \in Run : \A f \in CurrentFacts(db, r) :
    {n \in db.nodes : n[1] = r /\ n[2] = f} = {<<r, f, CurrentWitness(db, r, f)>>}
=============================================================================
