------------------------------ MODULE JobTimer ------------------------------
(***************************************************************************)
(* The job queue of svc.c and the timer thread that serves it.  job_head   *)
(* is ordered by time; thr_timer sleeps until the time of its first job,   *)
(* then starts a thread that runs it.  Any thread arms a job or posts a    *)
(* cancellation; both wake the timer if they matter to it.  The timer      *)
(* holds the job mutex (timer = "locked") except while it waits on         *)
(* job_cond or has yet to return from that wait.                           *)
(***************************************************************************)
EXTENDS Naturals, Sequences, SequencesExt

CONSTANTS MaxJobs,      \* bound on the number of jobs armed in a behaviour
          MaxCancels,   \* bound on the number of calls of job_cancel
          MaxTime       \* bound on the clock

ASSUME TimerAssumption == MaxJobs \in Nat /\ MaxCancels \in Nat /\ MaxTime \in Nat

VARIABLES now,          \* CLOCK_REALTIME, in units the jobs can tell apart
          job_head,     \* jobs, each [id, ts]
          jobcncl_head, \* identifiers to be cancelled
          job_next_id,
          timer,        \* where thr_timer is
          job,          \* its local variable: the job it waits for
          runners,      \* jobs that thr_job_runner threads are running
          ended,        \* identifiers of jobs that ran or were cancelled
          posted,       \* number of cancellations posted (bound)
          intime        \* jobs cancelled while the timer slept or had yet to look

vars == <<now, job_head, jobcncl_head, job_next_id, timer, job, runners,
          ended, posted, intime>>

NoJob == [id |-> MaxJobs, ts |-> 0]
Ids == {job_head[i].id : i \in DOMAIN job_head}
Asleep == timer \in {"wait", "timedwait"}

Init ==
  /\ now = 0 /\ job_head = <<>> /\ jobcncl_head = <<>> /\ job_next_id = 0
  /\ timer = "ready" /\ job = NoJob /\ runners = {} /\ ended = {}
  /\ posted = 0 /\ intime = {}

-----------------------------------------------------------------------------
(* job_arm_unlocked: a new job goes before the first job of a later time,  *)
(* or to the end.                                                          *)
PositionFirst(q, ts) ==                                           \* mutant
  {p \in 1 .. Len(q) + 1 : /\ \A i \in 1 .. p - 1 : q[i].ts < ts
                           /\ p =< Len(q) => ts =< q[p].ts}
Position(q, ts) ==
  {p \in 1 .. Len(q) + 1 : /\ \A i \in 1 .. p - 1 : q[i].ts =< ts
                           /\ p =< Len(q) => ts < q[p].ts}

(* pthread_cond_broadcast(&job_cond).                                      *)
WakeNever(t) == t                                                 \* mutant
Wake(t) == IF t \in {"wait", "timedwait"} THEN "ready" ELSE t

NewId == job_next_id

job_enqueue(ts) ==
  /\ timer # "locked" /\ job_next_id < MaxJobs
  /\ \E p \in Position(job_head, ts) :
       /\ job_head' = InsertAt(job_head, p, [id |-> NewId, ts |-> ts])
       /\ timer' = IF p = 1 THEN Wake(timer) ELSE timer
  /\ job_next_id' = job_next_id + 1
  /\ UNCHANGED <<now, jobcncl_head, job, runners, ended, posted, intime>>

(* job_enqueue_after(t).                                                   *)
job_enqueue_after(t) == job_enqueue(now + t)

(* job_cancel takes an identifier on trust: it may be that of a job that   *)
(* has ended, or of none.                                                  *)
job_cancel(id) ==
  /\ timer # "locked"
  /\ posted < MaxCancels /\ posted' = posted + 1
  /\ jobcncl_head' = Append(jobcncl_head, id)
  /\ timer' = Wake(timer)
  /\ intime' = IF id \in Ids /\ ~(timer = "timedout" /\ job.id = id)
               THEN intime \cup {id} ELSE intime
  /\ UNCHANGED <<now, job_head, job_next_id, job, runners, ended>>

-----------------------------------------------------------------------------
(* thr_timer.                                                              *)

(* The wait is over (or the thread has started) and the timer has the job  *)
(* mutex: the first job is started if the wait for it timed out and it is  *)
(* still the first.                                                        *)
TimeIsUpIfAlone ==                                                \* mutant
  timer = "timedout" /\ Len(job_head) = 1 /\ job = Head(job_head)
TimeIsUpByClock ==                                                \* mutant
  job_head # <<>> /\ job = Head(job_head) /\ job.ts =< now
TimeIsUp == timer = "timedout" /\ job_head # <<>> /\ job = Head(job_head)

TimerLocks ==
  /\ timer \in {"ready", "timedout"} /\ timer' = "locked"
  /\ \/ TimeIsUp /\ job_head' = Tail(job_head) /\ runners' = runners \cup {job}
     \/ ~TimeIsUp /\ UNCHANGED <<job_head, runners>>
  /\ UNCHANGED <<now, jobcncl_head, job_next_id, job, ended, posted, intime>>

(* One turn of the loop over jobcncl_head.  job_remove looks for the job:  *)
(* Found is its place in the queue, if any.                                *)
Found(id) == {i \in DOMAIN job_head : /\ job_head[i].id = id
                                      /\ \A k \in 1 .. i - 1 : job_head[k].id # id}

job_remove ==
  /\ timer = "locked" /\ jobcncl_head # <<>>
  /\ LET id == Head(jobcncl_head)
     IN  \/ \E i \in Found(id) : job_head' = RemoveAt(job_head, i) /\ ended' = ended \cup {id}
         \/ Found(id) = {} /\ UNCHANGED <<job_head, ended>>
  /\ jobcncl_head' = Tail(jobcncl_head)
  /\ UNCHANGED <<now, job_next_id, timer, job, runners, posted, intime>>

(* With the cancellations served the timer waits, for the first job if     *)
(* there is one.                                                           *)
TimerWaits ==
  /\ timer = "locked" /\ jobcncl_head = <<>>
  /\ \/ job_head = <<>> /\ timer' = "wait" /\ job' = NoJob
     \/ job_head # <<>> /\ timer' = "timedwait" /\ job' = Head(job_head)
  /\ UNCHANGED <<now, job_head, jobcncl_head, job_next_id, runners, ended, posted, intime>>

TimerRuns == TimerLocks \/ job_remove \/ TimerWaits

(* The timed wait ends with ETIMEDOUT, or either wait spuriously.          *)
TimeoutDue == timer = "timedwait" /\ now >= job.ts

WaitTimesOut ==
  /\ TimeoutDue
  /\ timer' = "timedout"
  /\ UNCHANGED <<now, job_head, jobcncl_head, job_next_id, job, runners,
                 ended, posted, intime>>

SpuriousWakeup ==
  /\ Asleep /\ timer' = "ready"
  /\ UNCHANGED <<now, job_head, jobcncl_head, job_next_id, job, runners,
                 ended, posted, intime>>

(* thr_job_runner: the job function has run and the job is freed.          *)
RunnerEnds(j) ==
  /\ j \in runners
  /\ runners' = runners \ {j} /\ ended' = ended \cup {j.id}
  /\ UNCHANGED <<now, job_head, jobcncl_head, job_next_id, timer, job,
                 posted, intime>>

Tick ==
  /\ now < MaxTime /\ now' = now + 1
  /\ UNCHANGED <<job_head, jobcncl_head, job_next_id, timer, job, runners,
                 ended, posted, intime>>

(* Jobs are armed for a time given (job_enqueue; a session's expiration)   *)
(* or some time from now (job_enqueue_after).                              *)
Next ==
  \/ \E ts \in 0 .. MaxTime : job_enqueue(ts)
  \/ \E t \in 0 .. MaxTime - now : job_enqueue_after(t)
  \/ \E id \in 0 .. MaxJobs - 1 : job_cancel(id)
  \/ TimerRuns \/ WaitTimesOut \/ SpuriousWakeup \/ Tick
  \/ \E j \in runners : RunnerEnds(j)

Spec == Init /\ [][Next]_vars

(* Time passes, the timer thread runs when it can, and so do the threads   *)
(* it starts.  A timed wait whose time has come may be left spuriously     *)
(* many times but not for ever: strong fairness.                           *)
FairSpec ==
  /\ Spec /\ WF_vars(Tick) /\ WF_vars(TimerRuns) /\ SF_vars(WaitTimesOut)
  /\ WF_vars(\E j \in runners : RunnerEnds(j))

-----------------------------------------------------------------------------
(* Types of the variables.                                                 *)
Job == [id : 0 .. job_next_id - 1, ts : Nat]

TypeOK ==
  /\ now \in Nat /\ job_next_id \in Nat /\ posted \in Nat
  /\ job_head \in Seq(Job) /\ jobcncl_head \in Seq(Nat)
  /\ timer \in {"ready", "locked", "wait", "timedwait", "timedout"}
  /\ job \in Job \cup {NoJob} /\ runners \in SUBSET Job
  /\ ended \in SUBSET Nat /\ intime \in SUBSET Nat

(* A timer that sleeps has nothing to see to: it waits for the first job   *)
(* of the queue, no cancellation is posted, and it waits without a time    *)
(* only if there is no job.  An insertion at the front or a cancellation   *)
(* whose broadcast got lost would break it.                                *)
SleepsOnFirstJob ==
  Asleep => /\ jobcncl_head = <<>>
            /\ timer = "wait" <=> job_head = <<>>
            /\ job_head # <<>> => job = Head(job_head)

(* A job is in the queue, running, or over: never in two of these states,  *)
(* never in none.                                                          *)
JobInOnePlace ==
  LET run == {j.id : j \in runners}
  IN  /\ Ids \cup run \cup ended = 0 .. job_next_id - 1
      /\ Ids \cap run = {} /\ Ids \cap ended = {} /\ run \cap ended = {}

JS == INSTANCE JobSet WITH clock <- now, armed <- job_next_id, pending <- ToSet(job_head),
        asked <- ToSet(jobcncl_head), running <- runners, over <- ended

(* The queue, the list of cancellations and the timer thread implement a   *)
(* set of jobs: none is started before its time, nor before another one    *)
(* that is due earlier, or at the same time and older (job_arm_unlocked    *)
(* keeps the queue in order), and a cancellation takes its job or nothing. *)
ImplementsJobSet == JS!JSSpec

(* A job cancelled while it is queued never runs, except when the timer    *)
(* has already timed out on it and is about to get the mutex.              *)
CancelledInTimeNeverRuns == {j.id : j \in runners} \cap intime = {}

(* Every armed job runs or is cancelled: no wakeup of the timer is lost.   *)
EveryJobEnds ==
  \A id \in 0 .. MaxJobs - 1 : id \in Ids ~> id \in ended
=============================================================================
