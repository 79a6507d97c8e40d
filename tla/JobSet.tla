------------------------------- MODULE JobSet -------------------------------
(***************************************************************************)
(* What the job queue promises to those who arm and cancel jobs: a set of  *)
(* pending jobs, of which the earliest (of two of the same time, the       *)
(* older) is started when its time has come; a cancellation takes the job  *)
(* it was asked for if that is still pending, and no other.                *)
(***************************************************************************)
EXTENDS Naturals

VARIABLES clock,
          armed,       \* number of jobs armed so far: the next identifier
          pending,     \* jobs, each [id, ts]
          asked,       \* identifiers of jobs to be cancelled
          running,     \* jobs that have been started
          over         \* identifiers of jobs that have run or were cancelled

jsVars == <<clock, armed, pending, asked, running, over>>

JSInit ==
  /\ clock = 0 /\ armed = 0 /\ pending = {} /\ asked = {} /\ running = {} /\ over = {}

Arm(j) ==
  /\ j.id = armed /\ armed' = armed + 1
  /\ pending' = pending \cup {j}
  /\ UNCHANGED <<clock, asked, running, over>>

Ask(id) == asked' = asked \cup {id} /\ UNCHANGED <<clock, armed, pending, running, over>>

(* The same cancellation may have been asked for again.                    *)
Cancel(id) ==
  /\ id \in asked /\ asked' \in {asked, asked \ {id}}
  /\ pending' = {j \in pending : j.id # id}
  /\ over' = over \cup {j.id : j \in pending \ pending'}
  /\ UNCHANGED <<clock, armed, running>>

Earlier(i, j) == i.ts < j.ts \/ (i.ts = j.ts /\ i.id < j.id)

Start(j) ==
  /\ j.ts =< clock /\ \A i \in pending \ {j} : Earlier(j, i)
  /\ pending' = pending \ {j} /\ running' = running \cup {j}
  /\ UNCHANGED <<clock, armed, asked, over>>

Finish(j) ==
  /\ running' = running \ {j} /\ over' = over \cup {j.id}
  /\ UNCHANGED <<clock, armed, pending, asked>>

Pass == clock' = clock + 1 /\ UNCHANGED <<armed, pending, asked, running, over>>

JSNext ==
  \/ \E j \in pending' : Arm(j)
  \/ \E id \in asked' : Ask(id)
  \/ \E id \in asked : Cancel(id)
  \/ \E j \in pending : Start(j)
  \/ \E j \in running : Finish(j)
  \/ Pass

JSSpec == JSInit /\ [][JSNext]_jsVars
=============================================================================
