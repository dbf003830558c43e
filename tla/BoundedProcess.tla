--------------------------- MODULE BoundedProcess ---------------------------
(* RunBounded (src/review/AsanReplay.cpp): one supervised child process with *)
(* its descendants, two pipes taken together, a wall clock in ticks and the  *)
(* sampled limits.  The leader stays in the process group it leads; a        *)
(* descendant may leave it.                                                  *)
EXTENDS Naturals, FiniteSets

CONSTANTS Kid,           \* descendants the child may create
          Parent,        \* Parent[k]: another kid, or 0 for the leader
          Drain,         \* ticks granted to drain a pipe after the exit
          MaxProcesses   \* limits.max_processes

VARIABLES proc,   \* the supervisor's view and the leader
          kids    \* Kid -> [alive, group, pipe, seen]

process == <<proc, kids>>

Gone == [alive |-> FALSE, group |-> TRUE, pipe |-> TRUE, seen |-> FALSE]
NoKids == [k \in Kid |-> Gone]
NoProc == [at |-> "none", leader |-> "none", reaped |-> FALSE, open |-> FALSE, t |-> 0,
           wall |-> 0, drain |-> 0, timed |-> FALSE, limit |-> FALSE]

\* fork and execve; the group, the pipes and the clock start here.
Spawn(wall) ==
  /\ proc' = [NoProc EXCEPT !.at = "top", !.leader = "run", !.open = TRUE, !.wall = wall]
  /\ kids' = NoKids

Supervised == proc.at \in {"top", "sample", "poll", "wait", "end"}

(***************************************************************************)
(* The child                                                               *)
(***************************************************************************)

Lives(k) == IF k = 0 THEN proc.leader = "run" ELSE kids[k].alive

\* The leader ends by itself; how is read from its status afterwards.
Exit ==
  /\ Supervised /\ Lives(0)
  /\ proc' = [proc EXCEPT !.leader = "exited"]
  /\ UNCHANGED kids

\* A new process shares the group and the pipes of the process that forks it.
Fork(k) ==
  /\ Supervised /\ ~kids[k].alive /\ Lives(Parent[k])
  /\ kids' = [kids EXCEPT ![k] = IF Parent[k] = 0 THEN [Gone EXCEPT !.alive = TRUE]
                                 ELSE [kids[Parent[k]] EXCEPT !.seen = FALSE]]
  /\ UNCHANGED proc

\* setsid, close of the inherited descriptors, exit.
Escape(k) ==
  /\ Supervised /\ kids[k].alive /\ kids[k].group
  /\ kids' = [kids EXCEPT ![k].group = FALSE] /\ UNCHANGED proc
Detach(k) ==
  /\ Supervised /\ kids[k].alive /\ kids[k].pipe
  /\ kids' = [kids EXCEPT ![k].pipe = FALSE] /\ UNCHANGED proc
Die(k) ==
  /\ Supervised /\ kids[k].alive
  /\ kids' = [kids EXCEPT ![k] = Gone] /\ UNCHANGED proc

Tick ==
  /\ Supervised /\ proc.t < proc.wall
  /\ proc' = [proc EXCEPT !.t = @ + 1] /\ UNCHANGED kids

(***************************************************************************)
(* The supervisor's loop                                                   *)
(***************************************************************************)

KillGroup(ks) == [k \in Kid |-> IF ks[k].group THEN Gone ELSE ks[k]]
KillSeen(ks) == [k \in Kid |-> IF ks[k].seen THEN Gone ELSE ks[k]]

\* Mutant: the deadline is looked at only once the leader has been reaped.
LateAfterExit == proc.reaped /\ ~proc.limit /\ proc.t >= proc.wall

\* The wall deadline.
Late == ~proc.limit /\ proc.t >= proc.wall

\* Deadline and limits kill the group and wait for the leader; a descendant that
\* still holds a pipe after the exit is given the drain time and no more.
Top ==
  /\ proc.at = "top"
  /\ LET stop == proc.timed \/ proc.limit \/ Late
         draining == proc.reaped /\ proc.open
         p == [proc EXCEPT !.timed = @ \/ Late]
     IN \/ /\ stop
           /\ kids' = KillGroup(kids)
           /\ proc' = [p EXCEPT !.at = "end", !.reaped = TRUE,
                                !.leader = IF @ = "run" THEN "killed" ELSE @]
        \/ /\ ~stop /\ draining /\ proc.drain # 0 /\ proc.t >= proc.drain
           /\ kids' = KillGroup(kids)
           /\ proc' = [p EXCEPT !.at = "end"]
        \/ /\ ~stop /\ ~(draining /\ proc.drain # 0 /\ proc.t >= proc.drain)
           /\ proc' = [p EXCEPT !.at = "sample",
                                !.drain = IF draining /\ @ = 0 THEN proc.t + Drain ELSE @]
           /\ UNCHANGED kids

\* SampleGroup: the group, and whatever descends from it through live parents (an
\* orphan has another parent in the process table).
Reached ==
  LET near == {k \in Kid : kids[k].alive /\ (kids[k].group \/ (Parent[k] = 0 /\ Lives(0)))}
  IN near \cup {k \in Kid : kids[k].alive /\ Parent[k] \in near}

\* The sample is due every 100 ms; resident memory is whatever it is.
Sample ==
  /\ proc.at = "sample"
  /\ \/ proc' = [proc EXCEPT !.at = "poll"] /\ UNCHANGED kids
     \/ /\ \E fat \in BOOLEAN :
             proc' = [proc EXCEPT !.at = "poll",
                        !.limit = @ \/ fat
                          \/ Cardinality(Reached) + (IF proc.reaped THEN 0 ELSE 1) > MaxProcesses]
        /\ kids' = [k \in Kid |-> IF k \in Reached THEN [kids[k] EXCEPT !.seen = TRUE] ELSE kids[k]]

\* poll and read: output over the allowance is a limit, the end of both streams
\* is seen when nobody holds a pipe.
Held == Lives(0) \/ \E k \in Kid : kids[k].alive /\ kids[k].pipe
Poll ==
  /\ proc.at = "poll"
  /\ \/ proc.open /\ proc' = [proc EXCEPT !.at = "wait", !.limit = TRUE]
     \/ proc' = [proc EXCEPT !.at = "wait", !.open = @ /\ Held]
  /\ UNCHANGED kids

\* The non-blocking wait and the loop's condition.
Wait ==
  /\ proc.at = "wait"
  /\ LET gone == proc.reaped \/ ~Lives(0)
     IN proc' = [proc EXCEPT !.reaped = gone,
                             !.at = IF gone /\ ~proc.open THEN "end" ELSE "top"]
  /\ UNCHANGED kids

\* Mutant: only the group is killed after the loop.
ReapGroupOnly(ks) == KillGroup(ks)

\* After the loop: every remembered descendant, and the group, are killed.
Reap(ks) == KillGroup(KillSeen(ks))
End ==
  /\ proc.at = "end"
  /\ kids' = Reap(kids)
  /\ proc' = [proc EXCEPT !.at = "returned"]

Supervise == Top \/ Sample \/ Poll \/ Wait \/ End
Child == \E k \in Kid : Fork(k) \/ Escape(k) \/ Detach(k) \/ Die(k)
Leader == Tick \/ Exit

\* When RunBounded has returned, nothing it could know of is still running: a
\* survivor has left the group and was never in a sample ("No descendant of a
\* replay may outlive its leader"; sampling is best effort).
NoKnownSurvivor ==
  proc.at = "returned" => \A k \in Kid : kids[k].alive => ~kids[k].group /\ ~kids[k].seen
=============================================================================
