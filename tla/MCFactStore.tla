---------------------------- MODULE MCFactStore ----------------------------
(***************************************************************************)
(* Instances of FactStore.  Two batches of one run derive a common fact by *)
(* different proofs, and a store may hold facts older than receipts.       *)
(***************************************************************************)
EXTENDS FactStore, TLC

CONSTANTS r1, b1, b2

MCRun == {r1}
MCFact == 1..3
MCWitness == 1..2
MCBatch == {b1, b2}
MCRunOf == [b \in MCBatch |-> r1]
MCProof == (b1 :> (1 :> 1 @@ 2 :> 1)) @@ (b2 :> (2 :> 2 @@ 3 :> 1))
MCRooted == (b1 :> {3}) @@ (b2 :> {})
MCLegacy == {r1 :> {}, r1 :> {3}}
NoLegacy == {r1 :> {}}
MCSize == 1 :> 1 @@ 2 :> 2 @@ 3 :> 1

\* One selector whose driving rows include one that does not match.
OneSelector == {[drive |-> 1..3, match |-> {1, 3}]}
OneRequest == {[limit |-> 1, work |-> 3, bytes |-> 2]}

\* Cursors of one selector are handed to the other, and between them the
\* requests end a page by rows, by work and by bytes.
TwoSelectors == {[drive |-> 1..3, match |-> {1, 3}], [drive |-> 1..2, match |-> 1..2]}
PageRequests == {[limit |-> 1, work |-> 1, bytes |-> 3], [limit |-> 2, work |-> 9, bytes |-> 1]}

\* The publishers differ in nothing but their names.
Alike == Permutations(Publisher)
=============================================================================
