--------------------------- MODULE MCNativeReview ---------------------------
(* Two units, a manifest that may declare one or both, a database that may   *)
(* compile one or both; a leader with a child and a grandchild.              *)
EXTENDS NativeReview

CONSTANTS b1, b2   \* two versions of every file

MCBytes == {b1, b2}
MCSize == [b \in MCBytes |-> IF b = b1 THEN 1 ELSE 2]
\* 1: manifest, 2: database, 3 and 4: units
MCUnits == [b \in MCBytes |-> IF b = b1 THEN {3} ELSE {3, 4}]
MCCommands == [b \in MCBytes |-> IF b = b1 THEN {3, 4} ELSE {3}]
MCInitial == [p \in 1..4 |-> {[bytes |-> b1, stamp |-> 1]}]
MCSitesIn == [p \in 1..4 |-> IF p > 2 THEN {p} ELSE {}]
Copy == [form |-> "memcpy", operands |-> 3, destination |-> "array", size |-> 2,
         length |-> "parameter", mutated |-> FALSE, jumps |-> FALSE, branches |-> {}]
Branch(op, bound, arm) == [op |-> op, bound |-> bound, arm |-> arm]
Branches == {Branch(op, bound, arm) : op \in {"le", "gt", "lt"}, bound \in {1, 2},
                                      arm \in {"then", "else", "none"}}
MCCalls ==
  {[Copy EXCEPT !.branches = bs] : bs \in {{}} \cup {{b} : b \in Branches}}
  \cup {[Copy EXCEPT !.branches = {Branch("le", 2, "then"), Branch("gt", 2, "none")}],
        [Copy EXCEPT !.branches = {Branch("le", 2, "then")}, !.mutated = TRUE],
        [Copy EXCEPT !.branches = {Branch("le", 2, "then")}, !.jumps = TRUE],
        [Copy EXCEPT !.destination = "pointer"],
        [Copy EXCEPT !.form = "other"]}
MCParent == [k \in 1..2 |-> k - 1]
MCRequests ==
  {[site |-> s, capacity |-> c, requested |-> n, readable |-> 3, examined |-> 2] :
     s \in 3..4, c \in {2}, n \in {1, 3}}
  \cup {[site |-> 3, capacity |-> 1, requested |-> 3, readable |-> 3, examined |-> 2],
        [site |-> 3, capacity |-> 2, requested |-> 3, readable |-> 3, examined |-> 1],
        [site |-> 3, capacity |-> 2, requested |-> 3, readable |-> 4, examined |-> 2],
        [site |-> 3, capacity |-> 2, requested |-> 4, readable |-> 3, examined |-> 2]}
=============================================================================
