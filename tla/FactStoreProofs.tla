--------------------------- MODULE FactStoreProofs ---------------------------
(***************************************************************************)
(* Proofs about FactStore, for any number of runs, facts, batches,         *)
(* publishers and file replacements.                                       *)
(***************************************************************************)
EXTENDS FactStore, TLAPS

-----------------------------------------------------------------------------
(* The inductive invariant.                                                 *)

\* What a list of receipts has derived.
FactsOf(chain) == UNION {Derived(chain[i]) : i \in 1..Len(chain)}

\* What a store held before it had receipts.
Base(d, r) == {f \in Fact : d.rows[r][f] # <<>> /\ d.rows[r][f][1] = LegacyWitness}

\* A store holds what it started with and what its receipts derived.
StoreInv(d) ==
  /\ \A r \in Run : CurrentFacts(d, r) = Base(d, r) \cup FactsOf(d.receipts[r])
  /\ \A r \in Run : CurrentFacts(d, r) \subseteq d.facts
  /\ \A b \in d.delivered : HasReceipt(d, b)

\* A copy taken from this file shares its start.
FileInv ==
  /\ backup.file <= file
  /\ backup.file = file => \A r \in Run : Base(backup.db, r) = Base(db, r)

\* A seal describes the rows beside it; a seal of this file describes what its
\* receipts stand for here, whether or not they are the current ones.
SealInv ==
  \A r \in Run : \A m \in sidecar.meta[r] :
    /\ m.file <= file
    /\ m.members = sidecar.index[r]
    /\ m.file = file => sidecar.index[r] = Base(db, r) \cup FactsOf(m.chain)

MarkInv ==
  \A p \in Publisher : pub[p].pc = "mark" => \A b \in pub[p].batch : HasReceipt(db, b)

\* A pinned fingerprint names the facts that are current while it is pinned.
SnapInv ==
  \A x \in snap :
    /\ pinned = {x.run}
    /\ db.receipts[x.run] # <<>>
    /\ x.members = CurrentFacts(db, x.run)
    /\ sidecar.index[x.run] = CurrentFacts(db, x.run)

Listed(wanted) == Ascending(got) /\ Collected = wanted

\* What has been collected, relative to the snapshot it was collected from.
ClientInv ==
  /\ cursor # {} => sel # {}
  /\ \A c \in cursor, s \in sel : Listed({f \in c.snap.members \cap s.match : f <= c.last})
  /\ outcome = "exhausted" =>
       /\ cursor = {} /\ snap # {}
       /\ \A x \in snap, s \in sel : Listed(x.members \cap s.match)

\* The page in progress: its allowance, and that each examined row moved the
\* cursor on.
PageInv ==
  \A g \in page :
    /\ snap # {} /\ sel # {} /\ outcome = "none"
    /\ \A c \in cursor : c.snap \in snap
    /\ cursor = {} => got = <<>>
    /\ g.count <= g.limit /\ g.examined <= g.work /\ g.used <= g.bytes
    /\ g.limit > 0 /\ g.work > 0
    /\ g.count <= g.examined
    /\ g.count = 0 => g.used = 0
    /\ g.examined = 0 => cursor = g.start
    /\ g.examined > 0 => cursor # {}
    /\ \A c \in cursor, d \in g.start : d.last <= c.last
    /\ g.examined > 0 => \A c \in cursor, d \in g.start : d.last < c.last

IInv ==
  /\ TypeOK
  /\ StoreInv(db) /\ StoreInv(backup.db) /\ FileInv
  /\ SealInv
  /\ MarkInv
  /\ SnapInv /\ ClientInv /\ PageInv

-----------------------------------------------------------------------------
(* What one batch does to a store.                                          *)

\* One more receipt adds the facts of its batch.
LEMMA FactsOfAppend ==
  ASSUME NEW chain \in Seq(Batch), NEW b \in Batch
  PROVE  FactsOf(Append(chain, b)) = FactsOf(chain) \cup Derived(b)
<1> DEFINE longer == Append(chain, b)
<1>1. /\ Len(longer) = Len(chain) + 1 /\ longer[Len(chain) + 1] = b
      /\ \A i \in 1..Len(chain) : longer[i] = chain[i]
      /\ Len(chain) \in Nat
  OBVIOUS
<1> HIDE DEF longer
<1>2. FactsOf(longer) \subseteq FactsOf(chain) \cup Derived(b)
  <2> SUFFICES ASSUME NEW i \in 1..Len(longer), NEW f \in Derived(longer[i])
               PROVE  f \in FactsOf(chain) \cup Derived(b)
    BY Zenon DEF FactsOf
  <2>1. i \in 1..Len(chain) \/ i = Len(chain) + 1
    BY <1>1
  <2> QED
    BY Zenon, <2>1, <1>1 DEF FactsOf
<1>3. FactsOf(chain) \subseteq FactsOf(longer)
  <2> SUFFICES ASSUME NEW i \in 1..Len(chain), NEW f \in Derived(chain[i])
               PROVE  f \in FactsOf(longer)
    BY ZenonT(60) DEF FactsOf
  <2>1. i \in 1..Len(longer) /\ longer[i] = chain[i]
    BY <1>1
  <2> QED
    BY Zenon, <2>1 DEF FactsOf
<1>4. Derived(b) \subseteq FactsOf(longer)
  <2>1. Len(longer) \in 1..Len(longer) /\ longer[Len(longer)] = b
    BY SMTT(60), <1>1
  <2> QED
    BY Zenon, <2>1 DEF FactsOf
<1> QED
  BY Zenon, <1>2, <1>3, <1>4 DEF longer

\* The fields StoreBatch leaves and the ones it writes.
LEMMA StoreBatchFields ==
  ASSUME NEW d \in Stores, NEW b \in Batch
  PROVE  LET e == StoreBatch(d, b) IN
         /\ e \in Stores
         /\ e.receipts = [d.receipts EXCEPT ![RunOf[b]] = Append(@, b)]
         /\ \A r \in Run, f \in Fact : e.rows[r][f] =
              IF r = RunOf[b] /\ f \in Derived(b)
              THEN Append(d.rows[r][f], Proof[b][f]) ELSE d.rows[r][f]
         /\ e.facts = d.facts \cup Derived(b) \cup Rooted[b]
         /\ e.delivered = d.delivered
<1> DEFINE e == StoreBatch(d, b)
<1> DEFINE r0 == RunOf[b]
<1> DEFINE W == Witness \cup {LegacyWitness}
<1> DEFINE row == [f \in Fact |-> IF f \in Derived(b)
                                  THEN Append(d.rows[r0][f], Proof[b][f])
                                  ELSE d.rows[r0][f]]
<1>1. /\ r0 \in Run /\ Derived(b) \subseteq Fact /\ Rooted[b] \subseteq Fact
      /\ \A f \in Derived(b) : Proof[b][f] \in W
  BY Zenon, BatchAssumption
<1>2. /\ d.receipts \in [Run -> Seq(Batch)] /\ d.rows \in [Run -> [Fact -> Seq(W)]]
      /\ d.facts \subseteq Fact /\ d.nodes \subseteq Run \X Fact \X W
      /\ d.delivered \subseteq Batch
  BY Zenon DEF Stores
<1> HIDE DEF W
<1>3. row \in [Fact -> Seq(W)]
  <2> SUFFICES ASSUME NEW f \in Fact
               PROVE  (IF f \in Derived(b) THEN Append(d.rows[r0][f], Proof[b][f])
                                           ELSE d.rows[r0][f]) \in Seq(W)
    BY Zenon
  <2>1. d.rows[r0][f] \in Seq(W)
    BY Zenon, <1>1, <1>2
  <2> QED
    BY <2>1, <1>1
<1>4. /\ e.receipts = [d.receipts EXCEPT ![r0] = Append(@, b)]
      /\ e.rows = [d.rows EXCEPT ![r0] = row]
      /\ e.facts = d.facts \cup Derived(b) \cup Rooted[b]
      /\ e.nodes = d.nodes \cup {<<r0, f, Proof[b][f]>> : f \in Derived(b)}
      /\ e.delivered = d.delivered
      /\ e = [receipts |-> e.receipts, rows |-> e.rows, facts |-> e.facts,
              nodes |-> e.nodes, delivered |-> e.delivered]
  BY Zenon DEF StoreBatch, Stores
<1> HIDE DEF e
<1>5. e.rows \in [Run -> [Fact -> Seq(W)]]
  BY ZenonT(60), <1>4, <1>3, <1>2
<1>6. e.receipts \in [Run -> Seq(Batch)]
  BY SMTT(60), <1>4, <1>1, <1>2
<1>7. e.nodes \subseteq Run \X Fact \X W
  BY SMTT(60), <1>4, <1>1, <1>2
<1>8. e \in Stores
  BY ZenonT(60), <1>4, <1>5, <1>6, <1>7, <1>1, <1>2 DEF Stores, W
<1>9. \A r \in Run, f \in Fact : e.rows[r][f] =
        IF r = r0 /\ f \in Derived(b)
        THEN Append(d.rows[r][f], Proof[b][f]) ELSE d.rows[r][f]
  BY SMTT(60), <1>4, <1>2, <1>1
<1> QED
  BY Zenon, <1>4, <1>8, <1>9 DEF e

\* A batch adds its facts to its run, keeps what the store started with, and
\* keeps every receipt.
LEMMA StoreBatchEffect ==
  ASSUME NEW d \in Stores, NEW b \in Batch
  PROVE  LET e == StoreBatch(d, b) IN
         /\ \A r \in Run : Base(e, r) = Base(d, r)
         /\ \A r \in Run : CurrentFacts(e, r) =
              CurrentFacts(d, r) \cup (IF r = RunOf[b] THEN Derived(b) ELSE {})
         /\ \A r \in Run : FactsOf(e.receipts[r]) =
              FactsOf(d.receipts[r]) \cup (IF r = RunOf[b] THEN Derived(b) ELSE {})
         /\ \A a \in Batch : HasReceipt(d, a) => HasReceipt(e, a)
         /\ HasReceipt(e, b)
         /\ e.receipts[RunOf[b]] # <<>>
         /\ StoreInv(d) => StoreInv(e)
<1> DEFINE e == StoreBatch(d, b)
<1> DEFINE r0 == RunOf[b]
<1>1. /\ e \in Stores
      /\ e.receipts = [d.receipts EXCEPT ![r0] = Append(@, b)]
      /\ \A r \in Run, f \in Fact : e.rows[r][f] =
           IF r = r0 /\ f \in Derived(b)
           THEN Append(d.rows[r][f], Proof[b][f]) ELSE d.rows[r][f]
      /\ e.facts = d.facts \cup Derived(b) \cup Rooted[b]
      /\ e.delivered = d.delivered
  BY ZenonT(60), StoreBatchFields
<1> HIDE DEF e
<1>2. /\ r0 \in Run /\ Derived(b) \subseteq Fact
      /\ \A f \in Derived(b) : Proof[b][f] \in Witness /\ Proof[b][f] # LegacyWitness
  BY Zenon, BatchAssumption DEF LegacyWitness
<1>3. /\ d.receipts \in [Run -> Seq(Batch)]
      /\ \A r \in Run, f \in Fact : d.rows[r][f] \in Seq(Witness \cup {LegacyWitness})
      /\ d.delivered \subseteq Batch
  BY Zenon DEF Stores
<1>4. ASSUME NEW r \in Run, NEW f \in Fact
      PROVE  /\ e.rows[r][f] = <<>> <=> d.rows[r][f] = <<>> /\ ~(r = r0 /\ f \in Derived(b))
             /\ d.rows[r][f] # <<>> => e.rows[r][f][1] = d.rows[r][f][1]
             /\ d.rows[r][f] = <<>> /\ e.rows[r][f] # <<>> => e.rows[r][f][1] # LegacyWitness
  <2> DEFINE old == d.rows[r][f]
  <2>1. old \in Seq(Witness \cup {LegacyWitness})
    BY Zenon, <1>3
  <2>2. CASE r = r0 /\ f \in Derived(b)
    <3>1. e.rows[r][f] = Append(old, Proof[b][f])
      BY ZenonT(60), <2>2, <1>1
    <3>2. Proof[b][f] \in Witness /\ Proof[b][f] # LegacyWitness
      BY Zenon, <2>2, <1>2
    <3> HIDE DEF old
    <3>3. /\ Append(old, Proof[b][f]) # <<>>
          /\ old # <<>> => Append(old, Proof[b][f])[1] = old[1]
          /\ old = <<>> => Append(old, Proof[b][f])[1] = Proof[b][f]
      BY SMTT(60), <2>1, <3>2
    <3> QED
      BY ZenonT(60), <3>1, <3>2, <3>3, <2>2 DEF old
  <2>3. CASE ~(r = r0 /\ f \in Derived(b))
    BY Zenon, <2>3, <1>1
  <2> QED
    BY Zenon, <2>2, <2>3
<1>5. \A r \in Run : Base(e, r) = Base(d, r)
  BY ZenonT(60), <1>4 DEF Base
<1>6. \A r \in Run : CurrentFacts(e, r) =
        CurrentFacts(d, r) \cup (IF r = r0 THEN Derived(b) ELSE {})
  BY ZenonT(60), <1>4, <1>2 DEF CurrentFacts
<1>7. \A r \in Run : FactsOf(e.receipts[r]) =
        FactsOf(d.receipts[r]) \cup (IF r = r0 THEN Derived(b) ELSE {})
  <2> SUFFICES ASSUME NEW r \in Run
               PROVE  FactsOf(e.receipts[r]) =
                        FactsOf(d.receipts[r]) \cup (IF r = r0 THEN Derived(b) ELSE {})
    BY ZenonT(60)
  <2>1. CASE r = r0
    <3>1. e.receipts[r] = Append(d.receipts[r], b) /\ d.receipts[r] \in Seq(Batch)
      BY Zenon, <2>1, <1>1, <1>3
    <3> QED
      BY Zenon, <3>1, <2>1, FactsOfAppend
  <2>2. CASE r # r0
    <3>1. e.receipts[r] = d.receipts[r]
      BY Zenon, <2>2, <1>1, <1>3
    <3> QED
      BY Zenon, <3>1, <2>2
  <2> QED
    BY Zenon, <2>1, <2>2
<1>8. ASSUME NEW a \in Batch, HasReceipt(d, a)
      PROVE  HasReceipt(e, a)
  <2> DEFINE chain == d.receipts[RunOf[a]]
  <2>1. RunOf[a] \in Run /\ chain \in Seq(Batch)
    BY Zenon, <1>3, BatchAssumption
  <2>2. PICK i \in 1..Len(chain) : chain[i] = a
    BY Zenon, <1>8 DEF HasReceipt
  <2>3. e.receipts[RunOf[a]] = chain \/ e.receipts[RunOf[a]] = Append(chain, b)
    BY ZenonT(60), <1>1, <1>3, <2>1
  <2> HIDE DEF chain
  <2>4. i \in 1..Len(Append(chain, b)) /\ Append(chain, b)[i] = a
    BY <2>1, <2>2
  <2> QED
    BY Zenon, <2>2, <2>3, <2>4 DEF HasReceipt
<1>9. HasReceipt(e, b) /\ e.receipts[r0] # <<>>
  <2> DEFINE chain == d.receipts[r0]
  <2>1. chain \in Seq(Batch) /\ e.receipts[r0] = Append(chain, b)
    BY Zenon, <1>1, <1>2, <1>3
  <2> HIDE DEF chain
  <2>2. /\ Append(chain, b)[Len(chain) + 1] = b
        /\ Len(chain) + 1 \in 1..Len(Append(chain, b))
        /\ Append(chain, b) # <<>>
    BY <2>1
  <2> QED
    BY Zenon, <2>1, <2>2 DEF HasReceipt
<1>10. StoreInv(d) => StoreInv(e)
  <2> SUFFICES ASSUME StoreInv(d)
               PROVE  StoreInv(e)
    BY Zenon
  <2>1. \A r \in Run : CurrentFacts(e, r) = Base(e, r) \cup FactsOf(e.receipts[r])
    BY ZenonT(60), <1>5, <1>6, <1>7 DEF StoreInv
  <2>2. \A r \in Run : CurrentFacts(e, r) \subseteq e.facts
    <3> SUFFICES ASSUME NEW r \in Run
                 PROVE  CurrentFacts(e, r) \subseteq e.facts
      BY ZenonT(60)
    <3>1. CurrentFacts(d, r) \subseteq d.facts
      BY Zenon DEF StoreInv
    <3>2. d.facts \subseteq e.facts /\ Derived(b) \subseteq e.facts
      BY Zenon, <1>1
    <3>3. CurrentFacts(e, r) \subseteq CurrentFacts(d, r) \cup Derived(b)
      BY Zenon, <1>6
    <3> QED
      BY Zenon, <3>1, <3>2, <3>3
  <2>3. \A a \in e.delivered : HasReceipt(e, a)
    BY Zenon, <1>1, <1>3, <1>8 DEF StoreInv
  <2> QED
    BY Zenon, <2>1, <2>2, <2>3 DEF StoreInv
<1> QED
  BY Zenon, <1>5, <1>6, <1>7, <1>8, <1>9, <1>10 DEF e

-----------------------------------------------------------------------------
(* What sealing does to the sidecar.                                        *)

\* The run gets its rows and one seal; the other runs keep theirs.
LEMMA IndexWithFields ==
  ASSUME TypeOK, NEW d \in Stores, NEW r \in Run, NEW rows \in SUBSET Fact
  PROVE  LET c == IndexWith(d, r, rows) IN
         /\ c \in Sidecars
         /\ c.index[r] = rows
         /\ c.meta[r] = {Seal(d, r)}
         /\ \A q \in Run : q # r => c.index[q] = sidecar.index[q] /\ c.meta[q] = sidecar.meta[q]
         /\ \A q \in Run : AtMostOne(c.meta[q])
<1> DEFINE c == IndexWith(d, r, rows)
<1>1. Seal(d, r) \in Seals
  BY Zenon DEF Seal, Seals, TypeOK, Stores, CurrentFacts
<1>2. /\ sidecar.index \in [Run -> SUBSET Fact]
      /\ sidecar.meta \in [Run -> SUBSET Seals]
      /\ \A q \in Run : AtMostOne(sidecar.meta[q])
  BY Zenon DEF TypeOK, Sidecars
<1>3. /\ c.index = [sidecar.index EXCEPT ![r] = rows]
      /\ c.meta = [sidecar.meta EXCEPT ![r] = {Seal(d, r)}]
      /\ c = [index |-> c.index, meta |-> c.meta]
  BY Zenon DEF IndexWith
<1> HIDE DEF c
<1>4. c.index \in [Run -> SUBSET Fact] /\ c.meta \in [Run -> SUBSET Seals]
  BY <1>1, <1>2, <1>3
<1>5. c \in Sidecars
  BY Zenon, <1>3, <1>4 DEF Sidecars
<1>6. /\ c.index[r] = rows /\ c.meta[r] = {Seal(d, r)}
      /\ \A q \in Run : q # r => c.index[q] = sidecar.index[q] /\ c.meta[q] = sidecar.meta[q]
  BY Zenon, <1>2, <1>3
<1>7. \A q \in Run : AtMostOne(c.meta[q])
  BY <1>6, <1>2 DEF AtMostOne
<1> QED
  BY Zenon, <1>5, <1>6, <1>7 DEF c

\* Publish either extends and seals the index of the batch's run, or leaves the
\* sidecar alone.
LEMMA SidecarAfterFields ==
  ASSUME TypeOK, NEW b \in Batch
  PROVE  /\ SidecarAfter(b) \in Sidecars
         /\ \A q \in Run : AtMostOne(SidecarAfter(b).meta[q])
<1> DEFINE r == RunOf[b]
<1> DEFINE kept == IF db.receipts[r] # <<>> THEN sidecar.index[r] ELSE {}
<1>1. r \in Run /\ db \in Stores /\ sidecar \in Sidecars
  BY Zenon, BatchAssumption DEF TypeOK
<1>2. kept \cup Derived(b) \in SUBSET Fact
  BY Zenon, <1>1, BatchAssumption DEF Sidecars
<1>3. StoreBatch(db, b) \in Stores
  BY ZenonT(60), <1>1, StoreBatchFields
<1>4. CASE IndexesBatch(r)
  <2>1. SidecarAfter(b) = IndexWith(StoreBatch(db, b), r, kept \cup Derived(b))
    BY Zenon, <1>4 DEF SidecarAfter
  <2> QED
    BY SMTT(60), <2>1, <1>1, <1>2, <1>3, IndexWithFields
<1>5. CASE ~IndexesBatch(r)
  BY Zenon, <1>5 DEF SidecarAfter, TypeOK
<1> QED
  BY Zenon, <1>4, <1>5

-----------------------------------------------------------------------------
(* Type correctness.                                                        *)

\* An older store is a store.
LEMMA LegacyStoreType ==
  ASSUME NEW held \in Legacy
  PROVE  LegacyStore(held) \in Stores
<1> DEFINE W == Witness \cup {LegacyWitness}
<1> DEFINE rows == [r \in Run |-> [f \in Fact |->
                      IF f \in held[r] THEN <<LegacyWitness>> ELSE <<>>]]
<1>1. held \in [Run -> SUBSET Fact]
  BY Zenon, BatchAssumption
<1>2. <<LegacyWitness>> \in Seq(W) /\ <<>> \in Seq(W)
  OBVIOUS
<1>3. rows \in [Run -> [Fact -> Seq(W)]]
  BY ZenonT(60), <1>2
<1>4. [r \in Run |-> <<>>] \in [Run -> Seq(Batch)]
  OBVIOUS
<1>5. {n \in Run \X Fact \X {LegacyWitness} : n[2] \in held[n[1]]} \subseteq Run \X Fact \X W
  BY Zenon
<1>6. UNION {held[r] : r \in Run} \subseteq Fact
  BY Zenon, <1>1
<1> QED
  BY Zenon, <1>3, <1>4, <1>5, <1>6 DEF LegacyStore, Stores

\* The empty store is typed.
LEMMA InitType == Init => TypeOK
<1> SUFFICES ASSUME Init
             PROVE  TypeOK
  BY Zenon
<1>1. db \in Stores
  BY Zenon, LegacyStoreType DEF Init
<1>2. backup \in [db : Stores, file : Nat]
  BY SMTT(60), LegacyStoreType DEF Init
<1>3. sidecar \in Sidecars /\ \A r \in Run : AtMostOne(sidecar.meta[r])
  BY Zenon DEF Init, EmptySidecar, Sidecars, AtMostOne
<1>4. pub \in [Publisher -> [pc : {"idle", "receipt", "transaction", "mark"},
                             batch : SUBSET Batch]]
  BY Zenon DEF Init
<1>5. got \in Seq(Fact)
  BY SMTT(60) DEF Init
<1> QED
  BY Zenon, <1>1, <1>2, <1>3, <1>4, <1>5 DEF Init, TypeOK, AtMostOne

\* A publisher's move keeps the types.
LEMMA GotoType ==
  ASSUME TypeOK, NEW p \in Publisher, NEW B \in SUBSET Batch,
         NEW pc \in {"idle", "receipt", "transaction", "mark"}, Goto(p, pc, B)
  PROVE  pub' \in [Publisher -> [pc : {"idle", "receipt", "transaction", "mark"},
                                 batch : SUBSET Batch]]
BY Zenon DEF TypeOK, Goto

\* Publishing keeps the types.
LEMMA PublishType == TypeOK /\ Publish => TypeOK'
<1> SUFFICES ASSUME TypeOK, Publish
             PROVE  TypeOK'
  BY Zenon
<1> DEFINE Pubs == [Publisher -> [pc : {"idle", "receipt", "transaction", "mark"},
                                  batch : SUBSET Batch]]
<1> DEFINE ReaderType ==
      /\ pinned \in SUBSET Run /\ snap \in SUBSET Snapshots /\ page \in SUBSET Pages
      /\ outcome \in {"none", "work", "exhausted", "limit", "bytes", "error"}
      /\ sel \in SUBSET Selector /\ cursor \in SUBSET Cursors /\ got \in Seq(Fact)
      /\ AtMostOne(pinned) /\ AtMostOne(snap) /\ AtMostOne(page)
      /\ AtMostOne(sel) /\ AtMostOne(cursor)
<1>1. UNCHANGED <<reader, file, backup>>
  BY ZenonT(60) DEF Publish, StartPublish, CheckReceipt, Commit, SplitCommit, SplitSidecar, MarkDelivered,
         FailPublish, stores
<1>2. ReaderType'
  BY Zenon, <1>1 DEF TypeOK, reader, client, AtMostOne
<1>3. ASSUME NEW p \in Publisher, NEW b \in Batch,
             Commit(p, b) \/ SplitCommit(p, b) \/ SplitSidecar(p, b)
      PROVE  /\ db' \in Stores /\ sidecar' \in Sidecars
             /\ \A r \in Run : AtMostOne(sidecar'.meta[r])
             /\ pub' \in Pubs
  <2>1. db \in Stores /\ sidecar \in Sidecars /\ \A r \in Run : AtMostOne(sidecar.meta[r])
    BY Zenon DEF TypeOK
  <2>2. StoreBatch(db, b) \in Stores
    BY ZenonT(60), <2>1, StoreBatchFields
  <2>3. CASE Commit(p, b)
    <3>1. pub' \in Pubs
      BY Zenon, <2>3, GotoType DEF Commit
    <3> QED
      BY Zenon, <2>2, <2>3, <3>1, SidecarAfterFields DEF Commit
  <2>4. CASE SplitCommit(p, b)
    BY Zenon, <2>1, <2>2, <2>4 DEF SplitCommit
  <2>5. CASE SplitSidecar(p, b)
    BY Zenon, <2>1, <2>5, SidecarAfterFields DEF SplitSidecar
  <2> QED
    BY Zenon, <1>3, <2>3, <2>4, <2>5
<1>4. ASSUME NEW p \in Publisher, NEW b \in Batch, MarkDelivered(p, b)
      PROVE  /\ db' \in Stores /\ sidecar' \in Sidecars
             /\ \A r \in Run : AtMostOne(sidecar'.meta[r])
             /\ pub' \in Pubs
  <2>1. pub' \in Pubs
    BY Zenon, <1>4, GotoType DEF MarkDelivered
  <2>2. db' \in Stores
    BY ZenonT(60), <1>4 DEF MarkDelivered, TypeOK, Stores
  <2> QED
    BY Zenon, <1>4, <2>1, <2>2 DEF MarkDelivered, TypeOK
<1>5. ASSUME NEW p \in Publisher, NEW b \in Batch,
             StartPublish(p, b) \/ CheckReceipt(p, b)
      PROVE  /\ db' \in Stores /\ sidecar' \in Sidecars
             /\ \A r \in Run : AtMostOne(sidecar'.meta[r])
             /\ pub' \in Pubs
  <2>1. pub' \in Pubs
    BY Zenon, <1>5, GotoType DEF StartPublish, CheckReceipt
  <2>2. UNCHANGED stores
    BY Zenon, <1>5 DEF StartPublish, CheckReceipt
  <2> QED
    BY Zenon, <2>1, <2>2 DEF TypeOK, stores
<1>6. ASSUME NEW p \in Publisher, FailPublish(p)
      PROVE  /\ db' \in Stores /\ sidecar' \in Sidecars
             /\ \A r \in Run : AtMostOne(sidecar'.meta[r])
             /\ pub' \in Pubs
  <2>1. pub' \in Pubs
    BY Zenon, <1>6, GotoType DEF FailPublish
  <2> QED
    BY Zenon, <1>6, <2>1 DEF TypeOK, stores, FailPublish
<1>7. /\ db' \in Stores /\ sidecar' \in Sidecars
      /\ \A r \in Run : AtMostOne(sidecar'.meta[r])
      /\ pub' \in Pubs
  BY Zenon, <1>3, <1>4, <1>5, <1>6 DEF Publish
<1> QED
  BY Zenon, <1>1, <1>2, <1>7 DEF TypeOK

\* Maintenance keeps the types.
LEMMA MaintainType == TypeOK /\ Maintain => TypeOK'
<1> SUFFICES ASSUME TypeOK, Maintain
             PROVE  TypeOK'
  BY Zenon
<1>1. UNCHANGED <<pub, reader>>
  BY Zenon DEF Maintain, RebuildFactLookup, LoseSidecar, TakeBackup, RestoreInPlace, RestoreNewFile
<1>2. /\ db' \in Stores /\ file' \in Nat
      /\ backup' \in [db : Stores, file : Nat]
  BY SMTT(60) DEF Maintain, RebuildFactLookup, LoseSidecar, TakeBackup, RestoreInPlace,
         RestoreNewFile, TypeOK
<1>3. sidecar' \in Sidecars /\ \A r \in Run : AtMostOne(sidecar'.meta[r])
  <2>1. ASSUME NEW r \in Run, RebuildFactLookup(r)
        PROVE  sidecar' \in Sidecars /\ \A q \in Run : AtMostOne(sidecar'.meta[q])
    <3>1. db \in Stores /\ CurrentFacts(db, r) \in SUBSET Fact
      BY Zenon DEF TypeOK, CurrentFacts
    <3> QED
      BY Zenon, <2>1, <3>1, IndexWithFields DEF RebuildFactLookup
  <2>2. CASE LoseSidecar
    BY Zenon, <2>2 DEF LoseSidecar, EmptySidecar, Sidecars, AtMostOne
  <2>3. CASE TakeBackup \/ RestoreInPlace \/ RestoreNewFile
    BY ZenonT(60), <2>3 DEF TakeBackup, RestoreInPlace, RestoreNewFile, TypeOK
  <2> QED
    BY ZenonT(60), <2>1, <2>2, <2>3 DEF Maintain
<1> QED
  BY Zenon, <1>1, <1>2, <1>3 DEF TypeOK, reader, client, AtMostOne

\* Reading keeps the types.
LEMMA ReadType == TypeOK /\ Read => TypeOK'
<1> SUFFICES ASSUME TypeOK, Read
             PROVE  TypeOK'
  BY Zenon
<1> DEFINE ReaderType ==
      /\ pinned \in SUBSET Run /\ snap \in SUBSET Snapshots /\ page \in SUBSET Pages
      /\ outcome \in {"none", "work", "exhausted", "limit", "bytes", "error"}
      /\ sel \in SUBSET Selector /\ cursor \in SUBSET Cursors /\ got \in Seq(Fact)
      /\ AtMostOne(pinned) /\ AtMostOne(snap) /\ AtMostOne(page)
      /\ AtMostOne(sel) /\ AtMostOne(cursor)
<1>1. UNCHANGED <<stores, pub>>
  BY ZenonT(60) DEF Read, OpenSnapshot, CloseSnapshot, FirstPage, NextPage, RejectCursor, ReadRow,
         BeginPage, EndOfWork, EndOfIndex, StopBeforeRow, ConsumeRow, EndPage
<1> SUFFICES ReaderType'
  BY Zenon, <1>1 DEF TypeOK, stores
<1>2. ReaderType
  BY Zenon DEF TypeOK
<1>3. ASSUME NEW r \in Run, OpenSnapshot(r)
      PROVE  ReaderType'
  <2>1. sidecar.meta[r] \in SUBSET Seals /\ AtMostOne(sidecar.meta[r])
    BY Zenon DEF TypeOK, Sidecars
  <2>2. snap' \in SUBSET Snapshots /\ AtMostOne(snap')
    BY SMTT(60), <1>3, <2>1 DEF OpenSnapshot, Fingerprint, Snapshots, Seals, AtMostOne
  <2> QED
    BY Zenon, <1>2, <1>3, <2>2 DEF OpenSnapshot, client, AtMostOne
<1>4. CASE CloseSnapshot
  BY Zenon, <1>2, <1>4 DEF CloseSnapshot, client, AtMostOne
<1>5. ASSUME NEW q \in Request, BeginPage(q), cursor' \in SUBSET Cursors
      PROVE  page' \in SUBSET Pages /\ AtMostOne(page')
  BY SMTT(60), <1>5, PageAssumption DEF BeginPage, Pages, AtMostOne
<1>6. ASSUME NEW s \in Selector, NEW q \in Request, FirstPage(s, q)
      PROVE  ReaderType'
  <2>1. cursor' = {} /\ sel' = {s} /\ got' = <<>> /\ BeginPage(q)
    BY Zenon, <1>6 DEF FirstPage
  <2>2. page' \in SUBSET Pages /\ AtMostOne(page')
    BY Zenon, <2>1, <1>5
  <2> QED
    BY <2>1, <2>2, <1>2 DEF BeginPage, AtMostOne
<1>7. ASSUME NEW s \in Selector, NEW q \in Request, NextPage(s, q)
      PROVE  ReaderType'
  <2>1. sel' = {s} /\ UNCHANGED <<cursor, got>> /\ BeginPage(q)
    BY Zenon, <1>7 DEF NextPage
  <2>2. page' \in SUBSET Pages /\ AtMostOne(page')
    BY Zenon, <2>1, <1>5, <1>2
  <2> QED
    BY Zenon, <2>1, <2>2, <1>2 DEF BeginPage, AtMostOne
<1>8. ASSUME NEW s \in Selector, RejectCursor(s)
      PROVE  ReaderType'
  BY SMTT(60), <1>2, <1>8 DEF RejectCursor, AtMostOne
<1>9. ASSUME NEW g \in page, NEW s \in sel, EndOfWork(g) \/ EndOfIndex(g, s)
      PROVE  ReaderType'
  BY Zenon, <1>2, <1>9 DEF EndOfWork, EndOfIndex, EndPage, AtMostOne
<1>10. ASSUME NEW g \in page, NEW s \in sel, NEW f \in NextRow(s), StopBeforeRow(g, s, f)
       PROVE  ReaderType'
  <2>1. Obstacle(g, s, f) \in {"none", "limit", "bytes", "error"}
    BY Zenon DEF Obstacle
  <2> QED
    BY Zenon, <1>2, <1>10, <2>1 DEF StopBeforeRow, EndPage, AtMostOne
<1>11. ASSUME NEW g \in page, NEW s \in sel, NEW f \in NextRow(s), ConsumeRow(g, s, f)
       PROVE  ReaderType'
  <2>1. f \in Fact
    BY DEF NextRow, Candidates, TypeOK, Sidecars
  <2>2. g \in Pages /\ Size[f] \in Nat
    BY ZenonT(60), <2>1, PageAssumption DEF TypeOK
  <2>3. page' \in SUBSET Pages /\ AtMostOne(page')
    BY SMTT(60), <1>11, <2>2 DEF ConsumeRow, Pages, AtMostOne
  <2>4. cursor' \in SUBSET Cursors /\ AtMostOne(cursor')
    BY SMTT(60), <1>2, <1>11, <2>1 DEF ConsumeRow, Cursors, AtMostOne
  <2>5. got' \in Seq(Fact)
    BY SMTT(60), <1>2, <1>11, <2>1 DEF ConsumeRow
  <2> QED
    BY ZenonT(60), <1>2, <1>11, <2>3, <2>4, <2>5 DEF ConsumeRow, AtMostOne
<1> QED
  BY Zenon, <1>3, <1>4, <1>6, <1>7, <1>8, <1>9, <1>10, <1>11 DEF Read, ReadRow

\* TypeOK is inductive.
LEMMA TypeStep == TypeOK /\ [Next]_vars => TypeOK'
<1>1. TypeOK /\ UNCHANGED vars => TypeOK'
  BY Zenon DEF TypeOK, vars, stores, reader, client, AtMostOne
<1> QED
  BY ZenonT(60), <1>1, PublishType, MaintainType, ReadType DEF Next

-----------------------------------------------------------------------------
(* The stores.                                                              *)

StoresInv == StoreInv(db) /\ StoreInv(backup.db) /\ FileInv /\ SealInv /\ MarkInv

\* A seal of this file that matches the receipts makes the index exact.
LEMMA ReadyIsExact ==
  ASSUME TypeOK, StoreInv(db), SealInv, NEW r \in Run, Ready(r)
  PROVE  /\ sidecar.index[r] = CurrentFacts(db, r)
         /\ \A m \in sidecar.meta[r] : m.members = CurrentFacts(db, r)
<1>1. PICK m \in sidecar.meta[r] : m.chain = db.receipts[r] /\ m.file = file
  BY ZenonT(60) DEF Ready
<1>2. sidecar.index[r] = Base(db, r) \cup FactsOf(db.receipts[r])
  BY Zenon, <1>1 DEF SealInv
<1> QED
  BY ZenonT(60), <1>2 DEF StoreInv, SealInv

\* Storing and indexing a batch keeps the seals truthful.
LEMMA CommitSeals ==
  ASSUME TypeOK, StoreInv(db), SealInv, NEW b \in Batch,
         db' = StoreBatch(db, b) \/ db' = db, file' = file,
         sidecar' = SidecarAfter(b) \/ sidecar' = sidecar
  PROVE  SealInv'
<1> DEFINE r0 == RunOf[b]
<1> DEFINE d == StoreBatch(db, b)
<1> DEFINE kept == IF db.receipts[r0] # <<>> THEN sidecar.index[r0] ELSE {}
<1>1. r0 \in Run /\ db \in Stores /\ d \in Stores /\ Derived(b) \subseteq Fact /\ file \in Nat
  BY ZenonT(60), BatchAssumption, StoreBatchFields DEF TypeOK
<1>2. /\ \A r \in Run : Base(d, r) = Base(db, r)
      /\ \A r \in Run : Base(db', r) = Base(db, r)
      /\ CurrentFacts(d, r0) = CurrentFacts(db, r0) \cup Derived(b)
      /\ StoreInv(d)
  BY <1>1, StoreBatchEffect
<1>3. CASE sidecar' = sidecar
  BY ZenonT(60), <1>2, <1>3 DEF SealInv
<1>4. CASE sidecar' = SidecarAfter(b) /\ ~IndexesBatch(r0)
  BY ZenonT(60), <1>2, <1>4 DEF SealInv, SidecarAfter
<1>5. CASE sidecar' = SidecarAfter(b) /\ IndexesBatch(r0)
  <2>1. sidecar' = IndexWith(d, r0, kept \cup Derived(b))
    BY Zenon, <1>5 DEF SidecarAfter
  <2>2. kept = CurrentFacts(db, r0)
    BY ZenonT(60), <1>1, <1>5, ReadyIsExact DEF IndexesBatch
  <2>3. kept \cup Derived(b) \in SUBSET Fact
    BY Zenon, <2>2, <1>1 DEF CurrentFacts
  <2> HIDE DEF d
  <2>4. /\ sidecar'.index[r0] = CurrentFacts(d, r0)
        /\ sidecar'.meta[r0] = {Seal(d, r0)}
        /\ \A q \in Run : q # r0 => /\ sidecar'.index[q] = sidecar.index[q]
                                    /\ sidecar'.meta[q] = sidecar.meta[q]
    <3> DEFINE c == IndexWith(d, r0, kept \cup Derived(b))
    <3>1. /\ c.index[r0] = kept \cup Derived(b)
          /\ c.meta[r0] = {Seal(d, r0)}
          /\ \A q \in Run : q # r0 => c.index[q] = sidecar.index[q] /\ c.meta[q] = sidecar.meta[q]
      <4> HIDE DEF kept
      <4> QED
        BY <1>1, <2>3, IndexWithFields
    <3> HIDE DEF c, kept
    <3> QED
      BY ZenonT(60), <1>2, <2>1, <2>2, <3>1 DEF c
  <2>5. CurrentFacts(d, r0) = Base(db', r0) \cup FactsOf(d.receipts[r0])
    BY ZenonT(60), <1>1, <1>2 DEF StoreInv
  <2>6. ASSUME NEW m \in sidecar'.meta[r0]
        PROVE  /\ m.file <= file' /\ m.members = sidecar'.index[r0]
               /\ sidecar'.index[r0] = Base(db', r0) \cup FactsOf(m.chain)
    BY SMTT(60), <1>1, <2>4, <2>5 DEF Seal
  <2>7. ASSUME NEW q \in Run, q # r0, NEW m \in sidecar'.meta[q]
        PROVE  /\ m.file <= file' /\ m.members = sidecar'.index[q]
               /\ m.file = file' => sidecar'.index[q] = Base(db', q) \cup FactsOf(m.chain)
    BY ZenonT(60), <1>2, <2>4, <2>7 DEF SealInv
  <2> QED
    BY Zenon, <2>6, <2>7 DEF SealInv
<1> QED
  BY Zenon, <1>3, <1>4, <1>5

\* What each conjunct depends on.
LEMMA FileFrame == FileInv /\ UNCHANGED <<db, file, backup>> => FileInv'
BY ZenonT(60) DEF FileInv

\* SealInv depends on the sidecar, the file and the store.
LEMMA SealFrame == SealInv /\ UNCHANGED <<db, file, sidecar>> => SealInv'
BY ZenonT(60) DEF SealInv

\* MarkInv depends on the publishers and the store.
LEMMA MarkFrame == MarkInv /\ UNCHANGED <<db, pub>> => MarkInv'
BY Zenon DEF MarkInv

\* Steps that leave the stores and the publishers alone keep what is said of them.
LEMMA StoresFrame == StoresInv /\ UNCHANGED <<stores, pub>> => StoresInv'
<1> SUFFICES ASSUME StoresInv, UNCHANGED <<stores, pub>>
             PROVE  StoresInv'
  BY Zenon
<1>1. UNCHANGED <<db, file, sidecar, backup, pub>>
  BY Zenon DEF stores
<1> QED
  BY Zenon, <1>1, FileFrame, SealFrame, MarkFrame DEF StoresInv

\* A publisher that moves leaves the others where they are.
LEMMA GotoEffect ==
  ASSUME TypeOK, NEW p \in Publisher, NEW pc, NEW batch, Goto(p, pc, batch),
         NEW q \in Publisher
  PROVE  pub'[q] = pub[q] \/ pub'[q] = [pc |-> pc, batch |-> batch]
BY ZenonT(60) DEF Goto, TypeOK

\* Publishing keeps the stores consistent.
LEMMA PublishStores == TypeOK /\ StoresInv /\ Publish => StoresInv'
<1> SUFFICES ASSUME TypeOK, StoresInv, Publish
             PROVE  StoresInv'
  BY Zenon
<1> USE DEF StoresInv
<1>1. UNCHANGED <<file, backup>>
  BY ZenonT(60) DEF Publish, StartPublish, CheckReceipt, Commit, SplitCommit, SplitSidecar, MarkDelivered,
         FailPublish, stores
<1>2. StoreInv(backup'.db)
  BY Zenon, <1>1
<1>3. ASSUME NEW p \in Publisher, NEW b \in Batch,
             Commit(p, b) \/ SplitCommit(p, b) \/ SplitSidecar(p, b)
      PROVE  StoreInv(db') /\ FileInv' /\ SealInv' /\ MarkInv'
  <2>1. /\ db' = StoreBatch(db, b) \/ db' = db
        /\ sidecar' = SidecarAfter(b) \/ sidecar' = sidecar
        /\ db \in Stores
    BY ZenonT(60), <1>3 DEF Commit, SplitCommit, SplitSidecar, TypeOK
  <2>2. /\ StoreInv(db')
        /\ db' = StoreBatch(db, b) => HasReceipt(db', b)
        /\ \A a \in Batch : HasReceipt(db, a) => HasReceipt(db', a)
        /\ \A r \in Run : Base(db', r) = Base(db, r)
    BY SMTT(60), <2>1, StoreBatchEffect
  <2>3. FileInv'
    BY Zenon, <1>1, <2>2 DEF FileInv
  <2>4. SealInv'
    BY Zenon, <1>1, <2>1, CommitSeals
  <2>5. MarkInv'
    <3> SUFFICES ASSUME NEW q \in Publisher, pub'[q].pc = "mark", NEW a \in pub'[q].batch
                 PROVE  HasReceipt(db', a)
      BY ZenonT(60) DEF MarkInv
    <3>1. CASE pub'[q] = pub[q]
      BY Zenon, <2>2, <3>1 DEF MarkInv, TypeOK
    <3>2. CASE pub'[q] # pub[q]
      <4>1. CASE Commit(p, b)
        <5>1. Goto(p, "mark", {b}) /\ db' = StoreBatch(db, b)
          BY ZenonT(60), <4>1 DEF Commit
        <5>2. pub'[q] = [pc |-> "mark", batch |-> {b}]
          BY SMTT(60), <3>2, <5>1, GotoEffect
        <5> QED
          <6>1. HasReceipt(db', b) /\ a = b
            BY SMTT(60), <5>1, <5>2, <2>2
          <6> QED
            BY Zenon, <6>1
      <4>2. CASE SplitCommit(p, b) \/ SplitSidecar(p, b)
        <5>1. pub' = [o \in Publisher |-> [pc |-> "idle", batch |-> {}]]
          BY ZenonT(60), <4>2 DEF SplitCommit, SplitSidecar
        <5>2. pub'[q].pc = "idle"
          BY Zenon, <5>1
        <5> QED
          BY Zenon, <5>2
      <4> QED
        BY Zenon, <1>3, <4>1, <4>2
    <3> QED
      BY Zenon, <3>1, <3>2
  <2> QED
    BY ZenonT(60), <2>2, <2>3, <2>4, <2>5
<1>4. ASSUME NEW p \in Publisher, NEW b \in Batch, MarkDelivered(p, b)
      PROVE  StoreInv(db') /\ FileInv' /\ SealInv' /\ MarkInv'
  <2>1. /\ db'.receipts = db.receipts /\ db'.rows = db.rows /\ db'.facts = db.facts
        /\ db'.delivered = db.delivered \cup {b}
    BY Zenon, <1>4 DEF MarkDelivered, TypeOK, Stores
  <2>2. /\ \A r \in Run : CurrentFacts(db', r) = CurrentFacts(db, r) /\ Base(db', r) = Base(db, r)
        /\ \A a \in Batch : HasReceipt(db', a) <=> HasReceipt(db, a)
        /\ UNCHANGED sidecar
    BY Zenon, <1>4, <2>1 DEF CurrentFacts, Base, HasReceipt, MarkDelivered
  <2>3. HasReceipt(db, b)
    BY SMTT(60), <1>4 DEF MarkDelivered, At, MarkInv
  <2>4. db.delivered \subseteq Batch
    BY ZenonT(60) DEF TypeOK, Stores
  <2>5. StoreInv(db')
    BY ZenonT(60), <2>1, <2>2, <2>3, <2>4 DEF StoreInv
  <2>6. MarkInv'
    <3> SUFFICES ASSUME NEW q \in Publisher, pub'[q].pc = "mark", NEW a \in pub'[q].batch
                 PROVE  HasReceipt(db', a)
      BY Zenon DEF MarkInv
    <3>1. pub'[q] = pub[q]
      BY Zenon, <1>4 DEF MarkDelivered, Goto, TypeOK
    <3> QED
      BY ZenonT(60), <2>2, <3>1 DEF MarkInv, TypeOK
  <2> QED
    BY Zenon, <1>1, <2>2, <2>5, <2>6 DEF FileInv, SealInv
<1>5. ASSUME UNCHANGED stores, NEW p \in Publisher, NEW pc, NEW batch, Goto(p, pc, batch),
             pc = "mark" => \A a \in batch : HasReceipt(db, a)
      PROVE  StoresInv'
  <2>1. MarkInv'
    <3> SUFFICES ASSUME NEW q \in Publisher, pub'[q].pc = "mark", NEW a \in pub'[q].batch
                 PROVE  HasReceipt(db', a)
      BY Zenon DEF MarkInv
    <3>1. db' = db
      BY Zenon, <1>5 DEF stores
    <3>2. CASE pub'[q] = pub[q]
      BY Zenon, <3>1, <3>2 DEF MarkInv
    <3>3. CASE pub'[q] = [pc |-> pc, batch |-> batch]
      BY <1>5, <3>1, <3>3
    <3> QED
      BY SMTT(60), <1>5, <3>2, <3>3, GotoEffect
  <2>2. StoreInv(db') /\ FileInv' /\ SealInv'
    <3>1. UNCHANGED <<db, file, sidecar, backup>>
      BY Zenon, <1>5 DEF stores
    <3> QED
      BY Zenon, <3>1, FileFrame, SealFrame
  <2> QED
    BY Zenon, <1>2, <2>1, <2>2
<1>6. ASSUME NEW p \in Publisher, NEW b \in Batch, StartPublish(p, b)
      PROVE  StoresInv'
  <2>1. UNCHANGED stores /\ Goto(p, "receipt", {b})
    BY ZenonT(60), <1>6 DEF StartPublish
  <2> QED
    BY Zenon, <2>1, <1>5
<1>7. ASSUME NEW p \in Publisher, NEW b \in Batch, CheckReceipt(p, b)
      PROVE  StoresInv'
  <2>1. CASE HasReceipt(db, b)
    <3>1. UNCHANGED stores /\ Goto(p, "mark", {b})
      BY Zenon, <1>7, <2>1 DEF CheckReceipt
    <3> QED
      BY Zenon, <2>1, <3>1, <1>5
  <2>2. CASE ~HasReceipt(db, b)
    <3>1. UNCHANGED stores /\ Goto(p, "transaction", {b})
      BY Zenon, <1>7, <2>2 DEF CheckReceipt
    <3> QED
      BY Zenon, <3>1, <1>5
  <2> QED
    BY ZenonT(60), <2>1, <2>2
<1>8. ASSUME NEW p \in Publisher, FailPublish(p)
      PROVE  StoresInv'
  <2>1. UNCHANGED stores /\ Goto(p, "idle", {})
    BY Zenon, <1>8 DEF FailPublish
  <2> QED
    BY Zenon, <2>1, <1>5
<1> QED
  BY Zenon, <1>2, <1>3, <1>4, <1>6, <1>7, <1>8 DEF Publish

\* Maintenance keeps the stores consistent.
LEMMA MaintainStores == TypeOK /\ StoresInv /\ Maintain => StoresInv'
<1> SUFFICES ASSUME TypeOK, StoresInv, Maintain
             PROVE  StoresInv'
  BY Zenon
<1> USE DEF StoresInv
<1>1. /\ file \in Nat /\ backup.file \in Nat /\ db \in Stores
      /\ \A r \in Run : \A m \in sidecar.meta[r] : m.file \in Nat
  BY SMTT(60) DEF TypeOK, Sidecars, Seals
<1>2. ASSUME Offline, UNCHANGED pub
      PROVE  MarkInv'
  BY Zenon, <1>2 DEF Offline, MarkInv
<1>3. ASSUME NEW r \in Run, RebuildFactLookup(r)
      PROVE  StoresInv'
  <2>1. /\ UNCHANGED <<db, file, backup, pub>>
        /\ sidecar' = IndexWith(db, r, CurrentFacts(db, r))
    BY Zenon, <1>3 DEF RebuildFactLookup
  <2>2. CurrentFacts(db, r) \in SUBSET Fact
    BY ZenonT(60) DEF CurrentFacts
  <2>3. /\ sidecar'.index[r] = CurrentFacts(db, r)
        /\ sidecar'.meta[r] = {Seal(db, r)}
        /\ \A q \in Run : q # r => /\ sidecar'.index[q] = sidecar.index[q]
                                   /\ sidecar'.meta[q] = sidecar.meta[q]
    <3> DEFINE c == IndexWith(db, r, CurrentFacts(db, r))
    <3>1. /\ c.index[r] = CurrentFacts(db, r) /\ c.meta[r] = {Seal(db, r)}
          /\ \A q \in Run : q # r => c.index[q] = sidecar.index[q] /\ c.meta[q] = sidecar.meta[q]
      BY <1>1, <2>2, IndexWithFields
    <3> HIDE DEF c
    <3>2. sidecar' = c
      BY ZenonT(60), <2>1 DEF c
    <3> QED
      BY ZenonT(60), <3>1, <3>2
  <2>4. CurrentFacts(db, r) = Base(db, r) \cup FactsOf(db.receipts[r])
    BY ZenonT(60) DEF StoreInv
  <2>5. ASSUME NEW m \in sidecar'.meta[r]
        PROVE  /\ m.file <= file /\ m.members = sidecar'.index[r]
               /\ sidecar'.index[r] = Base(db, r) \cup FactsOf(m.chain)
    BY SMTT(60), <1>1, <2>3, <2>4 DEF Seal
  <2>6. SealInv'
    <3> SUFFICES ASSUME NEW q \in Run, NEW m \in sidecar'.meta[q]
                 PROVE  /\ m.file <= file /\ m.members = sidecar'.index[q]
                        /\ m.file = file => sidecar'.index[q] = Base(db, q) \cup FactsOf(m.chain)
      BY Zenon, <2>1 DEF SealInv
    <3>1. CASE q = r
      BY ZenonT(60), <2>5, <3>1
    <3>2. CASE q # r
      BY Zenon, <2>3, <3>2 DEF SealInv
    <3> QED
      BY ZenonT(60), <3>1, <3>2
  <2> QED
    BY Zenon, <2>1, <2>6, FileFrame, MarkFrame
<1>4. CASE LoseSidecar
  <2>1. SealInv'
    BY ZenonT(60), <1>4 DEF LoseSidecar, EmptySidecar, SealInv
  <2> QED
    BY ZenonT(60), <1>4, <2>1, FileFrame, MarkFrame DEF LoseSidecar
<1>5. CASE TakeBackup
  <2>1. UNCHANGED <<db, file, sidecar, pub>> /\ backup'.db = db /\ backup'.file = file
    BY Zenon, <1>5 DEF TakeBackup
  <2>2. FileInv'
    BY SMTT(60), <1>1, <2>1 DEF FileInv
  <2> QED
    BY Zenon, <2>1, <2>2, SealFrame, MarkFrame
<1>6. CASE RestoreInPlace
  <2>1. /\ UNCHANGED <<file, sidecar, backup, pub>> /\ db' = backup.db /\ Offline
        /\ backup.file = file
    BY Zenon, <1>6 DEF RestoreInPlace
  <2>2. \A r \in Run : Base(db', r) = Base(db, r)
    BY Zenon, <2>1 DEF FileInv
  <2>3. SealInv'
    BY Zenon, <2>1, <2>2 DEF SealInv
  <2>4. StoreInv(db') /\ StoreInv(backup'.db) /\ FileInv'
    BY Zenon, <2>1 DEF FileInv
  <2> QED
    BY Zenon, <1>2, <2>1, <2>3, <2>4
<1>7. CASE RestoreNewFile
  <2>1. /\ UNCHANGED <<sidecar, backup, pub>> /\ db' = backup.db /\ Offline
        /\ file' = file + 1
    BY Zenon, <1>7 DEF RestoreNewFile
  <2>2. SealInv'
    <3> SUFFICES ASSUME NEW r \in Run, NEW m \in sidecar.meta[r]
                 PROVE  m.file <= file + 1 /\ m.members = sidecar.index[r] /\ m.file # file + 1
      BY Zenon, <2>1 DEF SealInv
    <3> QED
      BY SMTT(60), <1>1 DEF SealInv
  <2>3. FileInv'
    BY SMTT(60), <1>1, <2>1 DEF FileInv
  <2> QED
    BY Zenon, <1>2, <2>1, <2>2, <2>3
<1> QED
  BY Zenon, <1>3, <1>4, <1>5, <1>6, <1>7 DEF Maintain

-----------------------------------------------------------------------------
(* The reader.                                                              *)

\* The snapshot depends on both files.
LEMMA SnapFrame == SnapInv /\ UNCHANGED <<db, sidecar, pinned, snap>> => SnapInv'
BY Zenon DEF SnapInv

\* Collected facts stay collected.
LEMMA ListedFrame ==
  ASSUME NEW W, Listed(W), UNCHANGED got
  PROVE  Ascending(got') /\ Collected' = W
BY ZenonT(60) DEF Listed, Collected

\* What a cursor stands for does not depend on the page.
LEMMA CursorFrame ==
  ASSUME ClientInv, UNCHANGED <<sel, cursor, got>>
  PROVE  /\ cursor' # {} => sel' # {}
         /\ \A c \in cursor', s \in sel' :
              Listed({f \in c.snap.members \cap s.match : f <= c.last})'
<1>1. cursor' # {} => sel' # {}
  BY Zenon DEF ClientInv
<1>2. ASSUME NEW c \in cursor', NEW s \in sel'
      PROVE  Listed({f \in c.snap.members \cap s.match : f <= c.last})'
  <2>1. Listed({f \in c.snap.members \cap s.match : f <= c.last})
    BY ZenonT(60), <1>2 DEF ClientInv
  <2> QED
    BY Zenon, <2>1, ListedFrame DEF Listed
<1> QED
  BY Zenon, <1>1, <1>2

\* A snapshot that is still pinned keeps an exhausted query exhausted.
LEMMA ClientFrame == ClientInv /\ UNCHANGED <<snap, outcome, client>> => ClientInv'
<1> SUFFICES ASSUME ClientInv, UNCHANGED <<snap, outcome, client>>
             PROVE  ClientInv'
  BY Zenon
<1>1. UNCHANGED <<snap, outcome, sel, cursor, got>>
  BY Zenon DEF client
<1>2. ASSUME outcome' = "exhausted", NEW x \in snap', NEW s \in sel'
      PROVE  Listed(x.members \cap s.match)'
  <2>1. Listed(x.members \cap s.match)
    BY Zenon, <1>1, <1>2 DEF ClientInv
  <2> QED
    BY Zenon, <1>1, <2>1, ListedFrame DEF Listed
<1>3. outcome' = "exhausted" => cursor' = {} /\ snap' # {}
  BY Zenon, <1>1 DEF ClientInv
<1> QED
  BY Zenon, <1>1, <1>2, <1>3, CursorFrame DEF ClientInv

\* The page depends on the reader only.
LEMMA PageFrame == PageInv /\ UNCHANGED <<snap, page, outcome, client>> => PageInv'
BY ZenonT(60) DEF PageInv, client

\* The writers do not touch the reader, and what it has pinned stays.
LEMMA WritersKeepReader ==
  TypeOK /\ SnapInv /\ ClientInv /\ PageInv /\ (Publish \/ Maintain)
    => SnapInv' /\ ClientInv' /\ PageInv'
<1> SUFFICES ASSUME TypeOK, SnapInv, ClientInv, PageInv, Publish \/ Maintain
             PROVE  SnapInv' /\ ClientInv' /\ PageInv'
  BY Zenon
<1>1. UNCHANGED reader
  BY ZenonT(60) DEF Publish, StartPublish, CheckReceipt, Commit, SplitCommit, SplitSidecar, MarkDelivered,
         FailPublish, Maintain, RebuildFactLookup, LoseSidecar, TakeBackup,
         RestoreInPlace, RestoreNewFile
<1>2. ClientInv' /\ PageInv'
  BY Zenon, <1>1, ClientFrame, PageFrame DEF reader
<1>3. ASSUME pinned = {}
      PROVE  SnapInv'
  BY Zenon, <1>1, <1>3 DEF SnapInv, reader
<1>4. ASSUME UNCHANGED <<db, sidecar>>
      PROVE  SnapInv'
  BY Zenon, <1>1, <1>4, SnapFrame DEF reader
<1>5. ASSUME NEW r \in Run, RebuildFactLookup(r)
      PROVE  SnapInv'
  <2>1. ASSUME NEW x \in snap
        PROVE  FALSE
    <3>1. pinned = {x.run} /\ db.receipts[x.run] # <<>>
      BY Zenon DEF SnapInv
    <3> QED
      BY Zenon, <1>5, <3>1 DEF RebuildFactLookup, SidecarWritable
  <2> QED
    BY Zenon, <1>1, <2>1 DEF SnapInv, reader
<1>6. CASE Publish
  <2>1. pinned = {} \/ UNCHANGED <<db, sidecar>>
    BY ZenonT(60), <1>6 DEF Publish, StartPublish, CheckReceipt, Commit, SplitCommit, SplitSidecar, MarkDelivered,
                FailPublish, Writable, stores
  <2> QED
    BY Zenon, <1>2, <1>3, <1>4, <2>1
<1>7. CASE Maintain
  <2>1. pinned = {} \/ \E r \in Run : RebuildFactLookup(r)
    BY Zenon, <1>7 DEF Maintain, LoseSidecar, TakeBackup, RestoreInPlace, RestoreNewFile, Offline
  <2> QED
    BY Zenon, <1>2, <1>3, <1>5, <2>1
<1> QED
  BY Zenon, <1>6, <1>7

\* Opening a snapshot pins exact rows or refuses pages.
LEMMA OpenKeepsReader ==
  ASSUME TypeOK, StoresInv, SnapInv, ClientInv, PageInv, NEW r \in Run, OpenSnapshot(r)
  PROVE  SnapInv' /\ ClientInv' /\ PageInv'
<1>1. /\ pinned = {} /\ pinned' = {r} /\ UNCHANGED <<db, sidecar, page, outcome, sel, cursor, got>>
      /\ snap' = IF Ready(r) THEN {Fingerprint(r, m) : m \in sidecar.meta[r]} ELSE {}
  BY ZenonT(60) DEF OpenSnapshot, stores, client
<1>2. snap = {}
  BY Zenon, <1>1 DEF SnapInv
<1>3. page = {} /\ outcome # "exhausted"
  BY ZenonT(60), <1>2 DEF PageInv, ClientInv
<1>4. PageInv'
  BY ZenonT(60), <1>1, <1>3 DEF PageInv
<1>5. ClientInv'
  BY Zenon, <1>1, <1>3, CursorFrame DEF ClientInv
<1>6. SnapInv'
  <2> SUFFICES ASSUME NEW x \in snap'
               PROVE  /\ pinned' = {x.run}
                      /\ db'.receipts[x.run] # <<>>
                      /\ x.members = CurrentFacts(db', x.run)
                      /\ sidecar'.index[x.run] = CurrentFacts(db', x.run)
    BY Zenon DEF SnapInv
  <2>1. Ready(r) /\ \E m \in sidecar.meta[r] : x = Fingerprint(r, m)
    BY ZenonT(60), <1>1
  <2>2. PICK m \in sidecar.meta[r] : x = Fingerprint(r, m)
    BY ZenonT(60), <2>1
  <2>3. x.run = r /\ x.members = m.members
    BY Zenon, <2>2 DEF Fingerprint
  <2>4. db.receipts[r] # <<>>
    BY ZenonT(60), <2>1 DEF Ready
  <2>5. sidecar.index[r] = CurrentFacts(db, r)
    BY Zenon, <2>1, ReadyIsExact DEF ReadyIndexExact, StoresInv
  <2>6. m.members = sidecar.index[r]
    BY Zenon, <2>1 DEF StoresInv, SealInv
  <2> QED
    BY ZenonT(60), <1>1, <2>3, <2>4, <2>5, <2>6
<1> QED
  BY ZenonT(60), <1>4, <1>5, <1>6

\* Closing a snapshot, starting a page and refusing a cursor.
LEMMA ControlKeepsReader ==
  ASSUME TypeOK, SnapInv, ClientInv, PageInv,
         \/ CloseSnapshot
         \/ \E s \in Selector, q \in Request : FirstPage(s, q)
         \/ \E s \in Selector, q \in Request : NextPage(s, q)
         \/ \E s \in Selector : RejectCursor(s)
  PROVE  SnapInv' /\ ClientInv' /\ PageInv'
<1>1. CASE CloseSnapshot
  <2>1. /\ UNCHANGED <<sel, cursor, got>> /\ snap' = {} /\ page' = {} /\ outcome' = "none"
    BY Zenon, <1>1 DEF CloseSnapshot, client
  <2>2. SnapInv' /\ PageInv'
    BY ZenonT(60), <2>1 DEF SnapInv, PageInv
  <2>3. ClientInv'
    BY ZenonT(60), <2>1, CursorFrame DEF ClientInv
  <2> QED
    BY Zenon, <2>2, <2>3
<1>2. ASSUME NEW q \in Request, BeginPage(q), sel' # {}, snap # {}, cursor' \subseteq Cursors,
             \A c \in cursor' : c.snap \in snap, cursor' = {} => got' = <<>>, AtMostOne(cursor')
      PROVE  SnapInv' /\ PageInv'
  <2>1. /\ UNCHANGED <<db, sidecar, pinned, snap>> /\ outcome' = "none"
        /\ page' = {[limit |-> q.limit, work |-> q.work, bytes |-> q.bytes,
                     count |-> 0, examined |-> 0, used |-> 0, start |-> cursor']}
    BY Zenon, <1>2 DEF BeginPage, stores
  <2>2. q.limit \in Nat \ {0} /\ q.work \in Nat \ {0} /\ q.bytes \in Nat \ {0}
    BY Zenon, PageAssumption
  <2>3. SnapInv'
    BY Zenon, <2>1, SnapFrame
  <2>4. \A c, d \in cursor' : d.last <= c.last
    <3> SUFFICES ASSUME NEW c \in cursor'
                 PROVE  c.last <= c.last
      BY Zenon, <1>2 DEF AtMostOne
    <3>1. c.last \in Nat
      BY ZenonT(60), <1>2, BatchAssumption DEF Cursors
    <3> QED
      BY SMTT(60), <3>1
  <2> QED
    <3> SUFFICES ASSUME NEW g \in page'
                 PROVE  /\ snap' # {} /\ sel' # {} /\ outcome' = "none"
                        /\ \A c \in cursor' : c.snap \in snap'
                        /\ cursor' = {} => got' = <<>>
                        /\ g.count <= g.limit /\ g.examined <= g.work /\ g.used <= g.bytes
                        /\ g.limit > 0 /\ g.work > 0
                        /\ g.count <= g.examined
                        /\ g.count = 0 => g.used = 0
                        /\ g.examined = 0 => cursor' = g.start
                        /\ g.examined > 0 => cursor' # {}
                        /\ \A c \in cursor', d \in g.start : d.last <= c.last
                        /\ g.examined > 0 => \A c \in cursor', d \in g.start : d.last < c.last
      BY ZenonT(60), <2>3 DEF PageInv
    <3>1. /\ g.limit = q.limit /\ g.work = q.work /\ g.bytes = q.bytes
          /\ g.count = 0 /\ g.examined = 0 /\ g.used = 0 /\ g.start = cursor'
      BY SMTT(60), <2>1
    <3>2. /\ g.count <= g.limit /\ g.examined <= g.work /\ g.used <= g.bytes
          /\ g.limit > 0 /\ g.work > 0 /\ g.count <= g.examined /\ ~(g.examined > 0)
      BY SMTT(60), <2>2, <3>1
    <3> QED
      BY ZenonT(60), <1>2, <2>1, <2>4, <3>1, <3>2
<1>3. ASSUME NEW s \in Selector, NEW q \in Request, FirstPage(s, q)
      PROVE  SnapInv' /\ ClientInv' /\ PageInv'
  <2>1. snap # {} /\ sel' = {s} /\ cursor' = {} /\ got' = <<>> /\ BeginPage(q)
    BY Zenon, <1>3 DEF FirstPage
  <2>2. ClientInv'
    BY ZenonT(60), <2>1 DEF ClientInv, BeginPage
  <2> QED
    BY Zenon, <1>2, <2>1, <2>2 DEF AtMostOne
<1>4. ASSUME NEW s \in Selector, NEW q \in Request, NextPage(s, q)
      PROVE  SnapInv' /\ ClientInv' /\ PageInv'
  <2>0. sel' = sel
    <3>1. sel' = {s} /\ s \in sel
      BY Zenon, <1>4 DEF NextPage, Matches
    <3>2. \A t \in sel : t = s
      BY Zenon, <3>1 DEF TypeOK, AtMostOne
    <3> QED
      BY Zenon, <3>1, <3>2
  <2>1. UNCHANGED <<sel, cursor, got>> /\ BeginPage(q) /\ cursor # {}
        /\ \E c \in cursor : c.snap \in snap
    BY ZenonT(60), <1>4, <2>0 DEF NextPage, Matches
  <2>2. /\ AtMostOne(cursor) /\ \A c \in cursor : c.snap \in snap
        /\ cursor \subseteq Cursors /\ sel # {} /\ snap # {}
    BY ZenonT(60), <2>1 DEF TypeOK, AtMostOne, ClientInv
  <2>3. ClientInv'
    BY ZenonT(60), <2>1, CursorFrame DEF ClientInv, BeginPage
  <2> QED
    BY Zenon, <1>2, <2>1, <2>2, <2>3 DEF AtMostOne
<1>5. ASSUME NEW s \in Selector, RejectCursor(s)
      PROVE  SnapInv' /\ ClientInv' /\ PageInv'
  <2>1. /\ cursor # {} /\ page = {} /\ cursor' = {}
        /\ UNCHANGED <<db, sidecar, pinned, snap, page, outcome>>
    BY ZenonT(60), <1>5 DEF RejectCursor, stores
  <2>2. outcome # "exhausted"
    BY ZenonT(60), <2>1 DEF ClientInv
  <2> QED
    BY Zenon, <2>1, <2>2, SnapFrame DEF ClientInv, PageInv
<1> QED
  BY Zenon, <1>1, <1>3, <1>4, <1>5

\* A page in progress reads the facts of its pinned fingerprint, and has
\* collected the matching ones that are not past the cursor.
LEMMA PageContext ==
  ASSUME TypeOK, SnapInv, ClientInv, PageInv, NEW g \in page, NEW s \in sel
  PROVE  \E x \in snap :
           /\ snap = {x} /\ pinned = {x.run} /\ x.run \in Run
           /\ x.members = CurrentFacts(db, x.run) /\ x.members \subseteq Fact
           /\ Candidates(s) = {f \in x.members \cap s.drive : \A c \in cursor : f > c.last}
           /\ Listed({f \in x.members \cap s.match : \E c \in cursor : f <= c.last})
<1>1. PICK x \in snap : TRUE
  BY ZenonT(60) DEF PageInv
<1>2. /\ snap = {x} /\ x.run \in Run /\ x.members \subseteq Fact
  BY ZenonT(60) DEF TypeOK, AtMostOne, Snapshots
<1>3. /\ pinned = {x.run} /\ x.members = CurrentFacts(db, x.run)
      /\ sidecar.index[x.run] = x.members
  BY ZenonT(60) DEF SnapInv
<1>4. Candidates(s) = {f \in x.members \cap s.drive : \A c \in cursor : f > c.last}
  BY Zenon, <1>3 DEF Candidates
<1>5. Listed({f \in x.members \cap s.match : \E c \in cursor : f <= c.last})
  <2>1. CASE cursor = {}
    <3>1. got = <<>>
      BY Zenon, <2>1 DEF PageInv
    <3>2. Ascending(got) /\ Collected = {}
      BY <3>1 DEF Ascending, Collected
    <3> QED
      BY Zenon, <2>1, <3>2 DEF Listed
  <2>2. CASE cursor # {}
    <3>0. \A c, d \in cursor : c = d
      BY ZenonT(60) DEF TypeOK, AtMostOne
    <3>1. PICK c \in cursor : cursor = {c}
      BY Zenon, <2>2, <3>0
    <3>2. c.snap = x
      BY Zenon, <1>2, <3>1 DEF PageInv
    <3>3. Listed({f \in c.snap.members \cap s.match : f <= c.last})
      BY Zenon DEF ClientInv
    <3>4. {f \in c.snap.members \cap s.match : f <= c.last}
            = {f \in x.members \cap s.match : \E e \in cursor : f <= e.last}
      BY Zenon, <3>1, <3>2
    <3> QED
      BY ZenonT(60), <3>3, <3>4
  <2> QED
    BY Zenon, <2>1, <2>2
<1> QED
  BY ZenonT(60), <1>1, <1>2, <1>3, <1>4, <1>5

\* A page that ends without moving the cursor.
LEMMA EndKeepsReader ==
  ASSUME TypeOK, SnapInv, ClientInv, PageInv, NEW g \in page, NEW how, how # "exhausted",
         EndPage(how), UNCHANGED <<cursor, got>>
  PROVE  SnapInv' /\ ClientInv' /\ PageInv'
<1>1. /\ UNCHANGED <<db, sidecar, pinned, snap, sel, cursor, got>>
      /\ page' = {} /\ outcome' = how
  BY Zenon DEF EndPage, stores
<1>2. SnapInv'
  BY ZenonT(60), <1>1, SnapFrame
<1>3. PageInv'
  BY Zenon, <1>1 DEF PageInv
<1>4. ClientInv'
  BY ZenonT(60), <1>1, CursorFrame DEF ClientInv
<1> QED
  BY Zenon, <1>2, <1>3, <1>4

\* A page that ends with the index.
LEMMA EndOfIndexKeepsReader ==
  ASSUME TypeOK, SnapInv, ClientInv, PageInv, NEW g \in page, NEW s \in sel, EndOfIndex(g, s)
  PROVE  SnapInv' /\ ClientInv' /\ PageInv'
<1>1. PICK x \in snap :
        /\ snap = {x} /\ x.members \subseteq Fact
        /\ Candidates(s) = {f \in x.members \cap s.drive : \A c \in cursor : f > c.last}
        /\ Listed({f \in x.members \cap s.match : \E c \in cursor : f <= c.last})
  BY ZenonT(60), PageContext
<1>2. /\ Candidates(s) = {} /\ cursor' = {} /\ page' = {} /\ outcome' = "exhausted"
      /\ UNCHANGED <<db, sidecar, pinned, snap, sel, got>>
  BY Zenon DEF EndOfIndex, EndPage, stores
<1>3. \A t \in sel : t = s
  BY ZenonT(60) DEF TypeOK, AtMostOne
<1>4. x.members \cap s.match = {f \in x.members \cap s.match : \E c \in cursor : f <= c.last}
  <2> SUFFICES ASSUME NEW f \in x.members, f \in s.match
               PROVE  \E c \in cursor : f <= c.last
    BY ZenonT(60)
  <2>1. f \in s.drive
    BY Zenon, PageAssumption DEF TypeOK
  <2>2. PICK c \in cursor : ~(f > c.last)
    BY ZenonT(60), <1>1, <1>2, <2>1
  <2>3. f \in Nat /\ c.last \in Nat
    BY ZenonT(60), <1>1, BatchAssumption DEF TypeOK, Cursors
  <2> QED
    BY SMTT(60), <2>2, <2>3
<1>5. Listed(x.members \cap s.match)
  BY ZenonT(60), <1>1, <1>4
<1>6. ClientInv'
  <2>1. Ascending(got') /\ Collected' = x.members \cap s.match
    BY ZenonT(60), <1>2, <1>5, ListedFrame
  <2>2. \A y \in snap', t \in sel' : Listed(y.members \cap t.match)'
    BY ZenonT(60), <1>1, <1>2, <1>3, <2>1 DEF Listed
  <2> QED
    BY ZenonT(60), <1>1, <1>2, <2>2 DEF ClientInv
<1>7. SnapInv'
  BY Zenon, <1>2, SnapFrame
<1> QED
  BY ZenonT(60), <1>2, <1>6, <1>7 DEF PageInv

\* Collecting one more fact, past the ones collected.
LEMMA ListedAppend ==
  ASSUME NEW W \in SUBSET Fact, NEW f \in Fact, got \in Seq(Fact), Listed(W),
         \A h \in W : h < f, got' = Append(got, f)
  PROVE  Ascending(got') /\ Collected' = W \cup {f}
<1>1. /\ Len(got) \in Nat /\ Len(got') = Len(got) + 1 /\ got'[Len(got) + 1] = f
      /\ \A i \in 1..Len(got) : got'[i] = got[i] /\ got[i] \in W
  BY SMTT(60) DEF Listed, Collected
<1>2. Ascending(got')
  <2> SUFFICES ASSUME NEW i \in 1..Len(got'), NEW j \in 1..Len(got'), i < j
               PROVE  got'[i] < got'[j]
    BY Zenon DEF Ascending
  <2>1. i \in 1..Len(got) /\ (j \in 1..Len(got) \/ j = Len(got) + 1)
    BY SMTT(60), <1>1
  <2> QED
    BY Zenon, <1>1, <2>1 DEF Listed, Ascending
<1>3. Collected' = W \cup {f}
  <2>1. Collected' = {got'[i] : i \in 1..Len(got) + 1}
    BY Zenon, <1>1 DEF Collected
  <2>2. 1..Len(got) + 1 = 1..Len(got) \cup {Len(got) + 1}
    BY SMTT(60), <1>1
  <2>3. {got'[i] : i \in 1..Len(got) + 1} = {got[i] : i \in 1..Len(got)} \cup {f}
    BY <1>1, <2>2
  <2> QED
    BY Zenon, <2>1, <2>3 DEF Listed, Collected
<1> QED
  BY Zenon, <1>2, <1>3

\* A consumed row moves the cursor to it and is collected when it matches.
LEMMA ConsumeKeepsReader ==
  ASSUME TypeOK, SnapInv, ClientInv, PageInv, NEW g \in page, NEW s \in sel,
         NEW f \in NextRow(s), ConsumeRow(g, s, f)
  PROVE  SnapInv' /\ ClientInv' /\ PageInv'
<1>1. PICK x \in snap :
        /\ snap = {x} /\ pinned = {x.run} /\ x.members \subseteq Fact
        /\ Candidates(s) = {h \in x.members \cap s.drive : \A c \in cursor : h > c.last}
        /\ Listed({h \in x.members \cap s.match : \E c \in cursor : h <= c.last})
  BY ZenonT(60), PageContext
<1> DEFINE sofar == {h \in x.members \cap s.match : \E c \in cursor : h <= c.last}
<1> DEFINE next == [snap |-> x, last |-> f]
<1>2. /\ UNCHANGED <<db, sidecar, pinned, snap, outcome, sel>>
      /\ cursor' = {next}
      /\ got' = IF f \in s.match THEN Append(got, f) ELSE got
  BY ZenonT(60), <1>1 DEF ConsumeRow, stores
<1>3. /\ f \in x.members /\ f \in Fact /\ \A c \in cursor : f > c.last
      /\ \A h \in x.members \cap s.drive : (\A c \in cursor : h > c.last) => f <= h
  BY ZenonT(60), <1>1 DEF NextRow
<1>4. /\ Fact \subseteq Nat /\ s.match \subseteq s.drive /\ got \in Seq(Fact)
      /\ \A c \in cursor : c.last \in Nat
      /\ \A t \in sel : t = s
      /\ \A e \in page : e = g
  BY ZenonT(60), BatchAssumption, PageAssumption DEF TypeOK, Cursors, AtMostOne
<1>5. f \in Nat /\ \A h \in x.members : h \in Fact /\ h \in Nat
  BY ZenonT(60), <1>1, <1>3, <1>4
<1>6. sofar \subseteq Fact /\ \A h \in sofar : h < f
  <2>1. sofar \subseteq Fact
    BY Zenon, <1>5
  <2>2. ASSUME NEW h \in sofar
        PROVE  h < f
    <3>1. PICK c \in cursor : h <= c.last
      BY Zenon
    <3>2. h \in Nat /\ c.last \in Nat /\ f > c.last
      BY ZenonT(60), <1>3, <1>4, <1>5
    <3> QED
      BY SMTT(60), <1>5, <3>1, <3>2
  <2> QED
    BY Zenon, <2>1, <2>2
<1>7. {h \in x.members \cap s.match : h <= f} = IF f \in s.match THEN sofar \cup {f} ELSE sofar
  <2>1. ASSUME NEW h \in x.members, h \in s.match, h <= f, h \notin sofar
        PROVE  h = f
    <3>1. h \in Nat /\ h \in s.drive /\ \A c \in cursor : ~(h <= c.last)
      BY Zenon, <1>4, <1>5, <2>1
    <3>2. \A c \in cursor : h > c.last
      BY SMTT(60), <1>4, <3>1
    <3>3. f <= h
      BY Zenon, <1>3, <3>1, <3>2
    <3> QED
      BY SMTT(60), <1>5, <2>1, <3>1, <3>3
  <2>2. ASSUME NEW h \in sofar
        PROVE  h \in x.members /\ h \in s.match /\ h <= f
    BY SMTT(60), <1>5, <1>6
  <2>3. f <= f
    BY SMTT(60), <1>5
  <2> HIDE DEF sofar
  <2> QED
    BY Zenon, <1>3, <2>1, <2>2, <2>3
<1>8. Ascending(got') /\ Collected' = {h \in x.members \cap s.match : h <= f}
  <2>1. CASE f \in s.match
    <3>1. got' = Append(got, f)
      BY ZenonT(60), <1>2, <2>1
    <3>2. Ascending(got') /\ Collected' = sofar \cup {f}
      BY Zenon, <1>1, <1>3, <1>4, <1>6, <3>1, ListedAppend
    <3> QED
      BY ZenonT(60), <1>7, <2>1, <3>2
  <2>2. CASE f \notin s.match
    <3>1. got' = got
      BY ZenonT(60), <1>2, <2>2
    <3>2. Ascending(got') /\ Collected' = sofar
      BY ZenonT(60), <1>1, <3>1 DEF Listed, Collected
    <3> QED
      BY ZenonT(60), <1>7, <2>2, <3>2
  <2> QED
    BY Zenon, <2>1, <2>2
<1> HIDE DEF sofar
<1>9. outcome = "none" /\ sel # {}
  BY Zenon DEF PageInv
<1>10. ClientInv'
  <2> SUFFICES ASSUME NEW c \in cursor', NEW t \in sel'
               PROVE  Listed({h \in c.snap.members \cap t.match : h <= c.last})'
    BY ZenonT(60), <1>2, <1>9 DEF ClientInv
  <2>1. t = s /\ c.snap = x /\ c.last = f
    <3>1. c \in {next} /\ t \in sel
      BY ZenonT(60), <1>2
    <3> QED
      BY SMTT(60), <1>4, <3>1
  <2> QED
    BY ZenonT(60), <1>8, <2>1 DEF Listed
<1>11. SnapInv'
  BY ZenonT(60), <1>2, SnapFrame
<1>12. PageInv'
  <2> DEFINE h == [limit |-> g.limit, work |-> g.work, bytes |-> g.bytes,
                   count |-> IF f \in s.match THEN g.count + 1 ELSE g.count,
                   examined |-> g.examined + 1,
                   used |-> IF f \in s.match THEN g.used + Size[f] ELSE g.used,
                   start |-> g.start]
  <2>1. page' = {h} /\ g.examined < g.work /\ Obstacle(g, s, f) = "none"
    BY ZenonT(60) DEF ConsumeRow
  <2>2. /\ g.limit \in Nat /\ g.work \in Nat /\ g.bytes \in Nat
        /\ g.count \in Nat /\ g.examined \in Nat /\ g.used \in Nat
        /\ g.start \subseteq Cursors /\ Size[f] \in Nat
    BY ZenonT(60), <1>3, PageAssumption DEF TypeOK, Pages
  <2>3. f \in s.match => g.count # g.limit /\ ~(Size[f] > g.bytes - g.used)
    BY ZenonT(60), <2>1 DEF Obstacle
  <2>4. /\ g.count <= g.limit /\ g.examined <= g.work /\ g.used <= g.bytes
        /\ g.limit > 0 /\ g.work > 0 /\ g.count <= g.examined /\ (g.count = 0 => g.used = 0)
    BY ZenonT(60) DEF PageInv
  <2>5. /\ h.limit = g.limit /\ h.work = g.work /\ h.bytes = g.bytes /\ h.start = g.start
        /\ h.examined = g.examined + 1
        /\ h.count = (IF f \in s.match THEN g.count + 1 ELSE g.count)
        /\ h.used = (IF f \in s.match THEN g.used + Size[f] ELSE g.used)
    BY ZenonT(60)
  <2> HIDE DEF h
  <2>6. /\ h.count <= h.limit /\ h.examined <= h.work /\ h.used <= h.bytes
        /\ h.limit > 0 /\ h.work > 0 /\ h.count <= h.examined /\ (h.count = 0 => h.used = 0)
        /\ h.examined # 0
    <3>1. CASE f \in s.match
      <4>1. h.count = g.count + 1 /\ h.used = g.used + Size[f]
        BY ZenonT(60), <2>5, <3>1
      <4>2. g.count # g.limit /\ ~(Size[f] > g.bytes - g.used)
        BY ZenonT(60), <2>3, <3>1
      <4> QED
        BY SMTT(60), <2>1, <2>2, <2>4, <2>5, <4>1, <4>2
    <3>2. CASE f \notin s.match
      <4>1. h.count = g.count /\ h.used = g.used
        BY Zenon, <2>5, <3>2
      <4> QED
        BY SMTT(60), <2>1, <2>2, <2>4, <2>5, <4>1
    <3> QED
      BY ZenonT(60), <3>1, <3>2
  <2>7. ASSUME NEW d \in g.start
        PROVE  d.last < f /\ d.last <= f
    <3>1. d.last \in Nat /\ f \in Nat
      BY ZenonT(60), <1>3, <1>4, <2>2 DEF Cursors
    <3>2. CASE g.examined = 0
      <4>1. d \in cursor
        BY Zenon, <3>2 DEF PageInv
      <4> QED
        BY SMTT(60), <1>3, <3>1, <4>1
    <3>3. CASE g.examined # 0
      <4>1. PICK c \in cursor : TRUE
        BY SMTT(60), <2>2, <3>3 DEF PageInv
      <4>2. d.last <= c.last /\ c.last \in Nat /\ f > c.last
        BY Zenon, <1>3, <1>4 DEF PageInv
      <4> QED
        BY SMTT(60), <3>1, <4>2
    <3> QED
      BY ZenonT(60), <3>2, <3>3
  <2>8. /\ cursor' # {} /\ snap' # {} /\ sel' # {} /\ outcome' = "none"
        /\ \A c \in cursor' : c.snap \in snap' /\ c.last = f
    BY SMTT(60), <1>1, <1>2, <1>9
  <2> QED
    BY ZenonT(60), <2>1, <2>5, <2>6, <2>7, <2>8 DEF PageInv
<1> QED
  BY ZenonT(60), <1>10, <1>11, <1>12

\* An index row that a page meets is a stored, current fact: the error exits of
\* ReadFacts are not taken.
LEMMA NoRowError ==
  ASSUME TypeOK, StoreInv(db), SnapInv, ClientInv, PageInv, NEW g \in page, NEW s \in sel,
         NEW f \in NextRow(s)
  PROVE  Obstacle(g, s, f) # "error"
<1>1. PICK x \in snap :
        /\ pinned = {x.run} /\ x.run \in Run /\ x.members = CurrentFacts(db, x.run)
        /\ Candidates(s) = {h \in x.members \cap s.drive : \A c \in cursor : h > c.last}
  BY ZenonT(60), PageContext
<1>2. f \in CurrentFacts(db, x.run)
  BY ZenonT(60), <1>1 DEF NextRow
<1>3. f \in db.facts
  BY Zenon, <1>1, <1>2 DEF StoreInv
<1> QED
  BY ZenonT(60), <1>1, <1>2, <1>3 DEF Obstacle

\* The reader keeps what is said of it.
LEMMA ReadKeepsReader ==
  TypeOK /\ StoresInv /\ SnapInv /\ ClientInv /\ PageInv /\ Read
    => SnapInv' /\ ClientInv' /\ PageInv'
<1> SUFFICES ASSUME TypeOK, StoresInv, SnapInv, ClientInv, PageInv, Read
             PROVE  SnapInv' /\ ClientInv' /\ PageInv'
  BY Zenon
<1>1. CASE \E r \in Run : OpenSnapshot(r)
  BY Zenon, <1>1, OpenKeepsReader
<1>2. CASE \/ CloseSnapshot
           \/ \E s \in Selector, q \in Request : FirstPage(s, q)
           \/ \E s \in Selector, q \in Request : NextPage(s, q)
           \/ \E s \in Selector : RejectCursor(s)
  BY Zenon, <1>2, ControlKeepsReader
<1>3. CASE ReadRow
  <2>1. PICK g \in page, s \in sel :
          \/ EndOfWork(g)
          \/ EndOfIndex(g, s)
          \/ \E f \in NextRow(s) : StopBeforeRow(g, s, f) \/ ConsumeRow(g, s, f)
    BY Zenon, <1>3 DEF ReadRow
  <2>2. CASE EndOfWork(g)
    <3>1. EndPage("work") /\ UNCHANGED <<cursor, got>>
      BY Zenon, <2>2 DEF EndOfWork
    <3> QED
      BY Zenon, <3>1, EndKeepsReader
  <2>3. CASE EndOfIndex(g, s)
    BY Zenon, <2>3, EndOfIndexKeepsReader
  <2>4. ASSUME NEW f \in NextRow(s), StopBeforeRow(g, s, f)
        PROVE  SnapInv' /\ ClientInv' /\ PageInv'
    <3>1. EndPage(Obstacle(g, s, f)) /\ UNCHANGED <<cursor, got>>
      BY ZenonT(60), <2>4 DEF StopBeforeRow
    <3>2. Obstacle(g, s, f) # "exhausted"
      BY Zenon DEF Obstacle
    <3> QED
      BY Zenon, <3>1, <3>2, EndKeepsReader
  <2>5. ASSUME NEW f \in NextRow(s), ConsumeRow(g, s, f)
        PROVE  SnapInv' /\ ClientInv' /\ PageInv'
    BY Zenon, <2>5, ConsumeKeepsReader
  <2> QED
    BY Zenon, <2>1, <2>2, <2>3, <2>4, <2>5
<1> QED
  BY Zenon, <1>1, <1>2, <1>3 DEF Read

-----------------------------------------------------------------------------
(* Induction.                                                               *)

\* A store older than receipts satisfies its invariant.
LEMMA LegacyStoreInv ==
  ASSUME NEW held \in Legacy
  PROVE  StoreInv(LegacyStore(held))
<1> DEFINE d == LegacyStore(held)
<1>1. /\ d.receipts = [r \in Run |-> <<>>] /\ d.delivered = {}
      /\ d.facts = UNION {held[r] : r \in Run}
      /\ d.rows = [r \in Run |-> [f \in Fact |->
                     IF f \in held[r] THEN <<LegacyWitness>> ELSE <<>>]]
  BY ZenonT(60) DEF LegacyStore
<1> HIDE DEF d
<1>2. ASSUME NEW r \in Run
      PROVE  /\ CurrentFacts(d, r) = {f \in Fact : f \in held[r]}
             /\ Base(d, r) = {f \in Fact : f \in held[r]}
             /\ FactsOf(d.receipts[r]) = {}
  <2>1. \A f \in Fact : d.rows[r][f] = IF f \in held[r] THEN <<LegacyWitness>> ELSE <<>>
    BY <1>1
  <2>2. <<LegacyWitness>> # <<>> /\ <<LegacyWitness>>[1] = LegacyWitness
    BY Zenon
  <2>3. d.receipts[r] = <<>> /\ Len(<<>>) = 0
    BY Zenon, <1>1
  <2>4. FactsOf(d.receipts[r]) = {}
    BY SMTT(60), <2>3 DEF FactsOf
  <2>5. CurrentFacts(d, r) = {f \in Fact : f \in held[r]}
    BY SMTT(60), <2>1, <2>2 DEF CurrentFacts
  <2>6. Base(d, r) = {f \in Fact : f \in held[r]}
    BY SMTT(60), <2>1, <2>2 DEF Base
  <2> QED
    BY ZenonT(60), <2>4, <2>5, <2>6
<1>3. \A r \in Run : CurrentFacts(d, r) = Base(d, r) \cup FactsOf(d.receipts[r])
  BY Zenon, <1>2
<1>4. \A r \in Run : CurrentFacts(d, r) \subseteq d.facts
  <2> TAKE r \in Run
  <2>1. CurrentFacts(d, r) \subseteq held[r]
    BY ZenonT(60), <1>2
  <2>2. held[r] \subseteq d.facts
    BY ZenonT(60), <1>1
  <2> QED
    BY ZenonT(60), <2>1, <2>2
<1>5. \A b \in d.delivered : HasReceipt(d, b)
  BY ZenonT(60), <1>1
<1>6. StoreInv(d)
  BY ZenonT(60), <1>3, <1>4, <1>5 DEF StoreInv
<1> QED
  BY ZenonT(60), <1>6 DEF d

\* IInv holds initially.
LEMMA InitIInv == Init => IInv
<1> SUFFICES ASSUME Init
             PROVE  IInv
  BY Zenon
<1>1. TypeOK
  BY ZenonT(60), InitType
<1>2. StoreInv(db) /\ StoreInv(backup.db)
  BY SMTT(60), LegacyStoreInv DEF Init
<1>3. FileInv
  BY SMTT(60) DEF Init, FileInv
<1>4. SealInv
  BY ZenonT(60) DEF Init, SealInv, EmptySidecar
<1>5. MarkInv
  BY ZenonT(60) DEF Init, MarkInv
<1>6. SnapInv /\ ClientInv /\ PageInv
  BY ZenonT(60) DEF Init, SnapInv, ClientInv, PageInv
<1> QED
  BY Zenon, <1>1, <1>2, <1>3, <1>4, <1>5, <1>6 DEF IInv

\* Every step keeps IInv.
LEMMA StepIInv == IInv /\ [Next]_vars => IInv'
<1> SUFFICES ASSUME IInv, [Next]_vars
             PROVE  IInv'
  BY Zenon
<1>1. TypeOK /\ StoresInv /\ SnapInv /\ ClientInv /\ PageInv
  BY Zenon DEF IInv, StoresInv
<1>2. TypeOK'
  BY Zenon, <1>1, TypeStep
<1>3. StoresInv'
  <2>1. ASSUME Read \/ UNCHANGED vars
        PROVE  UNCHANGED <<stores, pub>>
    BY ZenonT(60), <2>1 DEF Read, OpenSnapshot, CloseSnapshot, FirstPage, NextPage, BeginPage,
                RejectCursor, ReadRow, EndOfWork, EndOfIndex, StopBeforeRow, ConsumeRow,
                EndPage, vars
  <2> QED
    BY ZenonT(60), <1>1, <2>1, PublishStores, MaintainStores, StoresFrame DEF Next
<1>4. SnapInv' /\ ClientInv' /\ PageInv'
  <2>1. CASE UNCHANGED vars
    <3>1. UNCHANGED <<db, sidecar, pinned, snap, page, outcome, client>>
      BY Zenon, <2>1 DEF vars, stores, reader
    <3> QED
      BY Zenon, <1>1, <3>1, SnapFrame, ClientFrame, PageFrame
  <2> QED
    BY Zenon, <1>1, <2>1, WritersKeepReader, ReadKeepsReader DEF Next
<1> QED
  BY Zenon, <1>2, <1>3, <1>4 DEF IInv, StoresInv

\* IInv is an invariant.
LEMMA IInvAlways == Spec => []IInv
<1> QED
  BY InitIInv, StepIInv, PTL DEF Spec

-----------------------------------------------------------------------------
(* Theorems.                                                                *)

\* Every reachable state is well typed, with at most one seal per run, one
\* pinned run, one page and one cursor.
THEOREM FactStoreTyped == Spec => []TypeOK
<1>1. IInv => TypeOK
  BY ZenonT(60) DEF IInv
<1> QED
  BY <1>1, IInvAlways, PTL

\* However batches, rebuilds, split commits, lost sidecars and restored files
\* follow each other, a lookup that ReadyLookupFingerprint accepts holds exactly
\* the current facts of its run.
THEOREM LookupIsExact == Spec => []ReadyIndexExact
<1>1. IInv => ReadyIndexExact
  BY Zenon, ReadyIsExact DEF IInv, ReadyIndexExact
<1> QED
  BY <1>1, IInvAlways, PTL

\* Paging with any limits, over any number of snapshots, returns the matching
\* facts in order, once each, and all of them when a page is exhausted
\* (FactStore::ReadFacts).
THEOREM PagesAreExact == Spec => []ReadExact
<1>1. IInv => ReadExact
  <2> SUFFICES ASSUME IInv, NEW r \in pinned, NEW s \in sel
               PROVE  LET wanted == CurrentFacts(db, r) \cap s.match IN
                      /\ \A c \in cursor : c.snap \in snap =>
                           Ascending(got) /\ Collected = {f \in wanted : f <= c.last}
                      /\ outcome = "exhausted" => Ascending(got) /\ Collected = wanted
    BY ZenonT(60) DEF ReadExact
  <2>1. ASSUME NEW x \in snap
        PROVE  x.members = CurrentFacts(db, r)
    BY Zenon DEF IInv, SnapInv
  <2>2. ASSUME NEW c \in cursor, c.snap \in snap
        PROVE  Ascending(got) /\ Collected = {f \in CurrentFacts(db, r) \cap s.match : f <= c.last}
    <3>1. Listed({f \in c.snap.members \cap s.match : f <= c.last})
      BY Zenon DEF IInv, ClientInv
    <3>2. c.snap.members = CurrentFacts(db, r)
      BY Zenon, <2>1, <2>2
    <3> QED
      BY Zenon, <3>1, <3>2 DEF Listed
  <2>3. ASSUME outcome = "exhausted"
        PROVE  Ascending(got) /\ Collected = CurrentFacts(db, r) \cap s.match
    <3>1. PICK x \in snap : Listed(x.members \cap s.match)
      BY ZenonT(60), <2>3 DEF IInv, ClientInv
    <3> QED
      BY Zenon, <2>1, <3>1 DEF Listed
  <2> QED
    BY ZenonT(60), <2>2, <2>3
<1> QED
  BY <1>1, IInvAlways, PTL

\* A page never exceeds its row, work or byte allowance.
THEOREM PagesStayWithin == Spec => []PageWithinAllowance
<1>1. IInv => PageWithinAllowance
  BY ZenonT(60) DEF IInv, PageInv, PageWithinAllowance
<1> QED
  BY <1>1, IInvAlways, PTL

\* A batch the bus has recorded as delivered has its receipt and its facts in
\* the store, for any number of publishers and crashes.
THEOREM DeliveryIsVisible == Spec => []DeliveredIsStored
<1>1. IInv => DeliveredIsStored
  <2> SUFFICES ASSUME IInv, NEW b \in db.delivered
               PROVE  HasReceipt(db, b) /\ Derived(b) \subseteq CurrentFacts(db, RunOf[b])
    BY ZenonT(60) DEF DeliveredIsStored
  <2>1. b \in Batch /\ RunOf[b] \in Run
    BY ZenonT(60), BatchAssumption DEF IInv, TypeOK, Stores
  <2>2. HasReceipt(db, b)
    BY Zenon DEF IInv, StoreInv
  <2>3. Derived(b) \subseteq FactsOf(db.receipts[RunOf[b]])
    BY ZenonT(60), <2>2 DEF HasReceipt, FactsOf
  <2>4. CurrentFacts(db, RunOf[b]) = Base(db, RunOf[b]) \cup FactsOf(db.receipts[RunOf[b]])
    BY Zenon, <2>1 DEF IInv, StoreInv
  <2> QED
    BY ZenonT(60), <2>2, <2>3, <2>4
<1> QED
  BY <1>1, IInvAlways, PTL

\* Every page is the last, or moves its cursor, or meets a fact larger than its
\* whole byte allowance.
THEOREM PagesAdvance == Spec => PageAdvances
<1>1. ASSUME IInv, [Next]_vars, NEW g \in page, NEW s \in sel, page' = {}
      PROVE  \/ outcome' = "exhausted"
             \/ cursor' # g.start
             \/ outcome' = "bytes" /\ \E f \in NextRow(s) : Size[f] > g.bytes
  <2>1. ReadRow
    BY ZenonT(60), <1>1 DEF Next, Publish, StartPublish, CheckReceipt, Commit, SplitCommit,
                SplitSidecar, MarkDelivered, FailPublish, Maintain, RebuildFactLookup, LoseSidecar,
                TakeBackup, RestoreInPlace, RestoreNewFile, Read, OpenSnapshot,
                CloseSnapshot, FirstPage, NextPage, BeginPage, RejectCursor, reader, vars
  <2>2. /\ g.examined \in Nat /\ g.work \in Nat /\ g.count \in Nat /\ g.limit \in Nat
        /\ g.bytes \in Nat /\ g.used \in Nat
        /\ \A c \in cursor : c.last \in Nat
        /\ \A e \in page : e = g
        /\ \A t \in sel : t = s
    BY ZenonT(60), <1>1, BatchAssumption DEF IInv, TypeOK, Pages, Cursors, AtMostOne
  <2>3. /\ g.work > 0 /\ g.limit > 0 /\ g.count <= g.examined
        /\ (g.count = 0 => g.used = 0)
    BY Zenon, <1>1 DEF IInv, PageInv
  <2>4. ASSUME g.examined # 0
        PROVE  cursor # g.start
    <3>1. PICK c \in cursor : \A d \in g.start : d.last < c.last
      BY SMTT(60), <1>1, <2>2, <2>4 DEF IInv, PageInv
    <3>2. ~(c.last < c.last)
      BY SMTT(60), <2>2
    <3> QED
      BY ZenonT(60), <3>1, <3>2
  <2>5. CASE EndOfWork(g)
    BY <2>2, <2>3, <2>4, <2>5 DEF EndOfWork
  <2>6. CASE EndOfIndex(g, s)
    BY ZenonT(60), <2>6 DEF EndOfIndex, EndPage
  <2>7. ASSUME NEW f \in NextRow(s), StopBeforeRow(g, s, f), g.examined = 0
        PROVE  outcome' = "bytes" /\ Size[f] > g.bytes
    <3>1. Obstacle(g, s, f) # "error"
      BY Zenon, <1>1, NoRowError DEF IInv
    <3>2. g.count = 0 /\ g.count # g.limit /\ g.bytes - g.used = g.bytes
      BY SMTT(60), <2>2, <2>3, <2>7
    <3>3. outcome' = Obstacle(g, s, f) /\ Obstacle(g, s, f) # "none"
      BY Zenon, <2>7 DEF StopBeforeRow, EndPage
    <3> QED
      BY Zenon, <3>1, <3>2, <3>3 DEF Obstacle
  <2>8. ASSUME NEW f \in NextRow(s), StopBeforeRow(g, s, f)
        PROVE  cursor' = cursor
    BY ZenonT(60), <2>8 DEF StopBeforeRow
  <2>9. ASSUME NEW f \in NextRow(s), ConsumeRow(g, s, f)
        PROVE  FALSE
    BY ZenonT(60), <1>1, <2>9 DEF ConsumeRow
  <2>10. PICK e \in page, t \in sel :
           \/ EndOfWork(e)
           \/ EndOfIndex(e, t)
           \/ \E f \in NextRow(t) : StopBeforeRow(e, t, f) \/ ConsumeRow(e, t, f)
    BY Zenon, <2>1 DEF ReadRow
  <2>11. e = g /\ t = s
    BY Zenon, <2>2
  <2> QED
    BY Zenon, <2>4, <2>5, <2>6, <2>7, <2>8, <2>9, <2>10, <2>11
<1>2. IInv /\ [Next]_vars =>
        [\A g \in page, s \in sel :
           page' = {} =>
             \/ outcome' = "exhausted"
             \/ cursor' # g.start
             \/ outcome' = "bytes" /\ \E f \in NextRow(s) : Size[f] > g.bytes]_vars
  BY Zenon, <1>1
<1> QED
  BY <1>2, IInvAlways, PTL DEF Spec, PageAdvances
-----------------------------------------------------------------------------
(* Receipts and binding rows.                                               *)

\* The row an older store left, if the fact has it.
Old(rows) == IF rows # <<>> /\ rows[1] = LegacyWitness THEN 1 ELSE 0

Deriving(chain, f) == {i \in 1..Len(chain) : f \in Derived(chain[i])}

\* The rows after the old one are, at by at, the proofs of the deriving receipts.
Lists(at, chain, rows, f) ==
  /\ at \in [1..(Len(rows) - Old(rows)) -> Deriving(chain, f)]
  /\ \A i, j \in 1..(Len(rows) - Old(rows)) : i < j => at[i] < at[j]
  /\ \A i \in Deriving(chain, f) : \E j \in 1..(Len(rows) - Old(rows)) : at[j] = i
  /\ \A j \in 1..(Len(rows) - Old(rows)) :
       rows[Old(rows) + j] = Proof[chain[at[j]]][f]

\* Lists is AppliedInOrder with its enumeration made a parameter.
LEMMA ListsIs ==
  ASSUME NEW d, NEW r, NEW f
  PROVE  AppliedInOrder(d, r, f) <=> \E at : Lists(at, d.receipts[r], d.rows[r][f], f)
<1> DEFINE n == Len(d.rows[r][f]) - Old(d.rows[r][f])
           I == Deriving(d.receipts[r], f)
<1>1. AppliedInOrder(d, r, f) <=>
        \E at \in [1..n -> I] :
          /\ \A i, j \in DOMAIN at : i < j => at[i] < at[j]
          /\ \A i \in I : \E j \in DOMAIN at : at[j] = i
          /\ \A j \in DOMAIN at :
               d.rows[r][f][Old(d.rows[r][f]) + j] = Proof[d.receipts[r][at[j]]][f]
  BY Zenon DEF AppliedInOrder, Old, Deriving
<1>2. \A at \in [1..n -> I] : DOMAIN at = 1..n
  BY Zenon
<1>3. ASSUME NEW at \in [1..n -> I],
             \A i, j \in DOMAIN at : i < j => at[i] < at[j],
             \A i \in I : \E j \in DOMAIN at : at[j] = i,
             \A j \in DOMAIN at :
               d.rows[r][f][Old(d.rows[r][f]) + j] = Proof[d.receipts[r][at[j]]][f]
      PROVE  Lists(at, d.receipts[r], d.rows[r][f], f)
  BY <1>2, <1>3, ZenonT(60) DEF Lists
<1>4. ASSUME NEW at, Lists(at, d.receipts[r], d.rows[r][f], f)
      PROVE  /\ at \in [1..n -> I]
             /\ \A i, j \in DOMAIN at : i < j => at[i] < at[j]
             /\ \A i \in I : \E j \in DOMAIN at : at[j] = i
             /\ \A j \in DOMAIN at :
                  d.rows[r][f][Old(d.rows[r][f]) + j] = Proof[d.receipts[r][at[j]]][f]
  <2>1. at \in [1..n -> I]
    BY <1>4, ZenonT(60) DEF Lists
  <2>2. DOMAIN at = 1..n
    BY Zenon, <1>2, <2>1
  <2> QED
    BY <1>4, <2>1, <2>2, ZenonT(60) DEF Lists
<1> HIDE DEF n, I
<1> QED
  BY <1>1, <1>3, <1>4, ZenonT(60)

\* A row past the old one is added for a batch that derives the fact.
LEMMA ListsMore ==
  ASSUME NEW chain \in Seq(Batch), NEW b \in Batch, NEW f \in Derived(b),
         NEW rows \in Seq(Witness \cup {LegacyWitness}), NEW at, Lists(at, chain, rows, f)
  PROVE  \E new : Lists(new, Append(chain, b), Append(rows, Proof[b][f]), f)
<1> DEFINE w == Proof[b][f]
           n == Len(chain)
           old == Old(rows)
           m == Len(rows) - old
           chain2 == Append(chain, b)
           rows2 == Append(rows, w)
           new == [j \in 1..(m + 1) |-> IF j = m + 1 THEN n + 1 ELSE at[j]]
<1>1. w \in Nat \ {0} /\ w # LegacyWitness /\ w \in Witness
  BY BatchAssumption, ZenonT(60) DEF LegacyWitness
<1>2. /\ n \in Nat /\ Len(rows) \in Nat /\ old \in {0, 1} /\ m \in Nat
      /\ (old = 1 => Len(rows) > 0)
  BY DEF Old
<1>3. /\ Len(chain2) = n + 1 /\ chain2[n + 1] = b
      /\ \A i \in 1..n : chain2[i] = chain[i]
  OBVIOUS
<1>4. /\ Len(rows2) = Len(rows) + 1 /\ rows2[Len(rows) + 1] = w /\ rows2 # <<>>
      /\ \A i \in 1..Len(rows) : rows2[i] = rows[i]
  BY <1>1
<1>5. Old(rows2) = old
  <2>1. CASE rows = <<>>
    BY <1>1, <1>4, <2>1 DEF Old
  <2>2. CASE rows # <<>>
    <3>1. rows2[1] = rows[1]
      BY <1>4, <2>2
    <3> QED
      BY Zenon, <1>4, <2>2, <3>1 DEF Old
  <2> QED
    BY Zenon, <2>1, <2>2
<1> HIDE DEF chain2, rows2, old, w
<1>6. Deriving(chain2, f) = Deriving(chain, f) \cup {n + 1}
  BY <1>2, <1>3 DEF Deriving
<1>7. /\ at \in [1..m -> Deriving(chain, f)]
      /\ \A i, j \in 1..m : i < j => at[i] < at[j]
      /\ \A i \in Deriving(chain, f) : \E j \in 1..m : at[j] = i
      /\ \A j \in 1..m : rows[old + j] = Proof[chain[at[j]]][f]
  BY Zenon DEF Lists, old
<1>8. Deriving(chain, f) \subseteq 1..n
  BY Zenon DEF Deriving
<1>9. Len(rows2) - Old(rows2) = m + 1
  BY <1>2, <1>4, <1>5
<1> HIDE DEF m, n
<1>10. /\ new[m + 1] = n + 1
       /\ \A j \in 1..m : new[j] = at[j] /\ at[j] \in Deriving(chain, f) /\ at[j] \in 1..n
  <2>1. m + 1 \in 1..(m + 1) /\ \A j \in 1..m : j \in 1..(m + 1) /\ j # m + 1
    BY <1>2
  <2>2. \A j \in 1..m : at[j] \in Deriving(chain, f) /\ at[j] \in 1..n
    BY <1>7, <1>8, ZenonT(60)
  <2>3. new[m + 1] = n + 1 /\ \A j \in 1..m : new[j] = at[j]
    BY <2>1, ZenonT(60)
  <2> QED
    BY <2>2, <2>3, ZenonT(60)
<1>11. new \in [1..(m + 1) -> Deriving(chain2, f)]
  <2>1. \A j \in 1..(m + 1) : j \in 1..m \/ j = m + 1
    BY <1>2
  <2>2. \A j \in 1..(m + 1) : new[j] \in Deriving(chain2, f)
    BY <1>6, <1>10, <2>1, ZenonT(60)
  <2> QED
    BY <2>2, ZenonT(60)
<1> HIDE DEF new
<1>12. \A i, j \in 1..(m + 1) : i < j => new[i] < new[j]
  <2> TAKE i, j \in 1..(m + 1)
  <2> HAVE i < j
  <2>1. i \in 1..m /\ new[i] = at[i] /\ at[i] \in 1..n
    BY <1>2, <1>10
  <2>2. CASE j \in 1..m
    BY Zenon, <1>7, <1>10, <2>1, <2>2
  <2>3. CASE j = m + 1
    BY <1>2, <1>10, <2>1, <2>3
  <2> QED
    BY <1>2, <2>2, <2>3
<1>13. \A i \in Deriving(chain2, f) : \E j \in 1..(m + 1) : new[j] = i
  <2>1. ASSUME NEW i \in Deriving(chain, f) PROVE \E j \in 1..(m + 1) : new[j] = i
    <3>1. PICK j \in 1..m : at[j] = i
      BY Zenon, <1>7
    <3>2. j \in 1..(m + 1) /\ new[j] = i
      BY <1>2, <1>10, <3>1
    <3> QED
      BY Zenon, <3>2
  <2>2. m + 1 \in 1..(m + 1) /\ new[m + 1] = n + 1
    BY <1>2, <1>10
  <2> QED
    BY Zenon, <1>6, <2>1, <2>2
<1>14. \A j \in 1..(m + 1) : rows2[old + j] = Proof[chain2[new[j]]][f]
  <2>1. ASSUME NEW j \in 1..m PROVE rows2[old + j] = Proof[chain2[new[j]]][f]
    <3>1. old + j \in 1..Len(rows)
      BY <1>2 DEF m
    <3> QED
      BY <1>3, <1>4, <1>7, <1>10, <3>1
  <2>2. rows2[old + (m + 1)] = Proof[chain2[new[m + 1]]][f]
    <3>1. old + (m + 1) = Len(rows) + 1
      BY <1>2 DEF m
    <3> QED
      BY Zenon, <1>3, <1>4, <1>10, <3>1 DEF w
  <2> QED
    BY <1>2, <2>1, <2>2
<1>15. Lists(new, chain2, rows2, f)
  BY <1>5, <1>9, <1>11, <1>12, <1>13, <1>14, Zenon DEF Lists
<1> QED
  BY Zenon, <1>15 DEF chain2, rows2, w

\* A batch that does not derive the fact adds none.
LEMMA ListsSame ==
  ASSUME NEW chain \in Seq(Batch), NEW b \in Batch, NEW f, f \notin Derived(b),
         NEW rows, NEW at, Lists(at, chain, rows, f)
  PROVE  Lists(at, Append(chain, b), rows, f)
<1> DEFINE chain2 == Append(chain, b)
<1>1. /\ Len(chain) \in Nat /\ Len(chain2) = Len(chain) + 1
      /\ chain2[Len(chain) + 1] = b /\ \A i \in 1..Len(chain) : chain2[i] = chain[i]
  OBVIOUS
<1> HIDE DEF chain2
<1>2. Deriving(chain2, f) = Deriving(chain, f)
  BY <1>1 DEF Deriving
<1>3. \A i \in Deriving(chain, f) : chain2[i] = chain[i]
  BY Zenon, <1>1 DEF Deriving
<1>4. \A j \in 1..(Len(rows) - Old(rows)) : chain2[at[j]] = chain[at[j]]
  BY <1>3, Zenon DEF Lists
<1> QED
  BY <1>2, <1>4, Zenon DEF Lists, chain2

\* A store whose rows and receipts tell the same history.
HistoryOf(d) ==
  \A r \in Run : AppliedOnce(d, r) /\ \A f \in Fact : AppliedInOrder(d, r, f)

\* Nothing but receipts and rows matters to it.
LEMMA HistoryFrame ==
  ASSUME NEW d, NEW e, e.receipts = d.receipts, e.rows = d.rows, HistoryOf(d)
  PROVE  HistoryOf(e)
<1>1. \A r \in Run : AppliedOnce(e, r)
  BY Zenon DEF HistoryOf, AppliedOnce
<1>2. \A r \in Run, f \in Fact : AppliedInOrder(e, r, f)
  BY Zenon, ListsIs DEF HistoryOf
<1> QED
  BY <1>1, <1>2, ZenonT(60) DEF HistoryOf

\* A batch without a receipt is applied once, after all the others.
LEMMA StoreBatchHistory ==
  ASSUME NEW d \in Stores, HistoryOf(d), NEW b \in Batch, ~HasReceipt(d, b)
  PROVE  HistoryOf(StoreBatch(d, b))
<1> DEFINE e == StoreBatch(d, b)
           r0 == RunOf[b]
<1>1. /\ r0 \in Run /\ d.receipts \in [Run -> Seq(Batch)]
      /\ d.rows \in [Run -> [Fact -> Seq(Witness \cup {LegacyWitness})]]
  BY Zenon, BatchAssumption DEF Stores
<1>2. /\ e.receipts = [d.receipts EXCEPT ![r0] = Append(@, b)]
      /\ \A r \in Run, f \in Fact : e.rows[r][f] =
           IF r = r0 /\ f \in Derived(b)
           THEN Append(d.rows[r][f], Proof[b][f]) ELSE d.rows[r][f]
  BY ZenonT(60), StoreBatchFields
<1> HIDE DEF e, r0
<1>3. /\ e.receipts[r0] = Append(d.receipts[r0], b)
      /\ \A r \in Run \ {r0} : e.receipts[r] = d.receipts[r]
  BY Zenon, <1>1, <1>2
<1>4. ASSUME NEW r \in Run PROVE AppliedOnce(e, r)
  <2>1. AppliedOnce(d, r)
    BY Zenon DEF HistoryOf
  <2>2. CASE r # r0
    BY Zenon, <1>3, <2>1, <2>2 DEF AppliedOnce
  <2>3. CASE r = r0
    <3>1. \A i \in 1..Len(d.receipts[r0]) : d.receipts[r0][i] # b
      BY Zenon DEF HasReceipt, r0
    <3> DEFINE chain == d.receipts[r0]
    <3>2. /\ chain \in Seq(Batch) /\ Len(chain) \in Nat
      BY <1>1
    <3> DEFINE longer == Append(chain, b)
    <3>3. /\ Len(longer) = Len(chain) + 1 /\ longer[Len(chain) + 1] = b
          /\ \A i \in 1..Len(chain) : longer[i] = chain[i]
      BY <3>2
    <3>4. \A i, j \in 1..Len(chain) : chain[i] = chain[j] => i = j
      BY Zenon, <2>1, <2>3 DEF AppliedOnce
    <3> HIDE DEF longer
    <3>5. \A i, j \in 1..Len(longer) : longer[i] = longer[j] => i = j
      <4> TAKE i, j \in 1..Len(longer)
      <4> HAVE longer[i] = longer[j]
      <4> HIDE DEF chain
      <4>1. /\ i \in 1..Len(chain) \/ i = Len(chain) + 1
            /\ j \in 1..Len(chain) \/ j = Len(chain) + 1
        BY <3>2, <3>3
      <4>2. \A k \in 1..Len(chain) : longer[k] = chain[k] /\ chain[k] # b
        BY Zenon, <3>1, <3>3 DEF chain
      <4> QED
        BY Zenon, <3>3, <3>4, <4>1, <4>2
    <3> QED
      BY <1>3, <2>3, <3>5, ZenonT(60) DEF AppliedOnce, longer
  <2> QED
    BY Zenon, <2>2, <2>3
<1>5. ASSUME NEW r \in Run, NEW f \in Fact PROVE AppliedInOrder(e, r, f)
  <2>1. PICK at : Lists(at, d.receipts[r], d.rows[r][f], f)
    BY Zenon, ListsIs DEF HistoryOf
  <2>2. d.receipts[r] \in Seq(Batch) /\ d.rows[r][f] \in Seq(Witness \cup {LegacyWitness})
    BY Zenon, <1>1
  <2>3. CASE r # r0
    BY <1>2, <1>3, <2>1, <2>3, ListsIs, ZenonT(60)
  <2>4. CASE r = r0 /\ f \in Derived(b)
    <3>1. /\ e.receipts[r] = Append(d.receipts[r], b)
          /\ e.rows[r][f] = Append(d.rows[r][f], Proof[b][f])
      BY <1>2, <1>3, <2>4, ZenonT(60)
    <3>2. \E new : Lists(new, Append(d.receipts[r], b), Append(d.rows[r][f], Proof[b][f]), f)
      BY <2>1, <2>2, <2>4, ListsMore, ZenonT(60)
    <3> QED
      BY <3>1, <3>2, ListsIs, ZenonT(60)
  <2>5. CASE r = r0 /\ f \notin Derived(b)
    <3>1. e.receipts[r] = Append(d.receipts[r], b) /\ e.rows[r][f] = d.rows[r][f]
      BY Zenon, <1>2, <1>3, <2>5
    <3>2. Lists(at, Append(d.receipts[r], b), d.rows[r][f], f)
      BY Zenon, <2>1, <2>2, <2>5, ListsSame
    <3> QED
      BY ZenonT(60), <3>1, <3>2, ListsIs
  <2> QED
    BY Zenon, <2>3, <2>4, <2>5
<1> QED
  BY <1>4, <1>5, ZenonT(60) DEF HistoryOf, e

\* A store older than receipts has nothing but old rows.
LEMMA LegacyHistory ==
  ASSUME NEW held \in Legacy
  PROVE  HistoryOf(LegacyStore(held))
<1> DEFINE d == LegacyStore(held)
<1>1. /\ d.receipts = [r \in Run |-> <<>>]
      /\ d.rows = [r \in Run |-> [f \in Fact |->
                     IF f \in held[r] THEN <<LegacyWitness>> ELSE <<>>]]
  BY Zenon DEF LegacyStore
<1> HIDE DEF d
<1>2. ASSUME NEW r \in Run PROVE AppliedOnce(d, r)
  BY <1>1 DEF AppliedOnce
<1>3. ASSUME NEW r \in Run, NEW f \in Fact PROVE AppliedInOrder(d, r, f)
  <2> DEFINE rows == d.rows[r][f]
             at == [j \in 1..0 |-> 0]
  <2>1. d.receipts[r] = <<>> /\ (rows = <<LegacyWitness>> \/ rows = <<>>)
    BY <1>1
  <2> HIDE DEF rows
  <2>2. Len(rows) - Old(rows) = 0
    BY <2>1 DEF Old
  <2>3. Deriving(d.receipts[r], f) = {}
    BY <2>1 DEF Deriving
  <2>4. at \in [1..0 -> {}] /\ 1..0 = {}
    OBVIOUS
  <2> HIDE DEF at
  <2>5. Lists(at, d.receipts[r], rows, f)
    BY <2>2, <2>3, <2>4, Zenon DEF Lists
  <2> QED
    BY Zenon, <2>5, ListsIs DEF rows
<1> QED
  BY Zenon, <1>2, <1>3 DEF HistoryOf, d

\* The store in use and the copy kept of one both tell their history.
HistoryInv == HistoryOf(db) /\ HistoryOf(backup.db)

\* No step of the store breaks the history invariant.
LEMMA HistoryStep ==
  ASSUME TypeOK, HistoryInv, [Next]_vars
  PROVE  HistoryInv'
<1>1. ASSUME NEW b \in Batch, ~HasReceipt(db, b), db' = StoreBatch(db, b), backup' = backup
      PROVE  HistoryInv'
  <2>1. HistoryOf(StoreBatch(db, b))
    BY Zenon, <1>1, StoreBatchHistory DEF TypeOK, HistoryInv
  <2> QED
    BY Zenon, <1>1, <2>1 DEF HistoryInv
<1>2. ASSUME UNCHANGED <<db, backup>> PROVE HistoryInv'
  BY Zenon, <1>2 DEF HistoryInv
<1>3. ASSUME NEW p, NEW b \in Batch, MarkDelivered(p, b) PROVE HistoryInv'
  <2>1. db' = [db EXCEPT !.delivered = @ \cup {b}] /\ backup' = backup
    BY Zenon, <1>3 DEF MarkDelivered
  <2>2. db'.receipts = db.receipts /\ db'.rows = db.rows
    BY Zenon, <2>1 DEF TypeOK, Stores
  <2> QED
    BY Zenon, <2>1, <2>2, HistoryFrame DEF HistoryInv
<1>4. CASE Publish
  BY <1>1, <1>2, <1>3, <1>4, Zenon
  DEF Publish, StartPublish, CheckReceipt, Commit, SplitCommit, SplitSidecar, FailPublish, stores
<1>5. CASE Maintain
  <2>1. CASE TakeBackup
    <3>1. backup' = [db |-> db, file |-> file] /\ db' = db
      BY Zenon, <2>1 DEF TakeBackup
    <3> QED
      BY Zenon, <3>1 DEF HistoryInv
  <2>2. CASE RestoreInPlace \/ RestoreNewFile
    BY Zenon, <2>2 DEF RestoreInPlace, RestoreNewFile, HistoryInv
  <2>3. CASE LoseSidecar \/ \E r \in Run : RebuildFactLookup(r)
    BY Zenon, <1>2, <2>3 DEF LoseSidecar, RebuildFactLookup
  <2> QED
    BY Zenon, <1>5, <2>1, <2>2, <2>3 DEF Maintain
<1>6. CASE Read \/ UNCHANGED vars
  <2>1. UNCHANGED stores
    BY <1>6, ZenonT(60) DEF Read, OpenSnapshot, CloseSnapshot, FirstPage, NextPage, BeginPage,
              RejectCursor, ReadRow, EndOfWork, EndOfIndex, StopBeforeRow, ConsumeRow,
              EndPage, vars
  <2> QED
    BY Zenon, <1>2, <2>1 DEF stores
<1> QED
  BY Zenon, <1>4, <1>5, <1>6 DEF Next

\* For any publishers, batches, older stores and file replacements: a receipt stands for
\* one application of its batch, and the binding rows of a fact are in order the proofs
\* of the batches that derive it.
THEOREM ReceiptsAreApplications == Spec => []HistoryIsReceipts
<1>1. Init => HistoryInv
  BY LegacyHistory DEF Init, HistoryInv
<1>2. TypeOK /\ HistoryInv /\ [Next]_vars => HistoryInv'
  BY Zenon, HistoryStep
<1>3. HistoryInv => HistoryIsReceipts
  BY Zenon DEF HistoryInv, HistoryOf, HistoryIsReceipts
<1> QED
  BY <1>1, <1>2, <1>3, FactStoreTyped, PTL DEF Spec
=============================================================================
