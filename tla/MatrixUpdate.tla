---------------------------- MODULE MatrixUpdate ----------------------------
(***************************************************************************)
(* The life of a matrix, the template of dynamic backends (dynbe.c): the   *)
(* chain of job_resolver jobs that look its name up and arm the next one,  *)
(* the control interface that disables and enables it from another thread, *)
(* and the timer thread that runs the jobs and serves cancellations.       *)
(* Three locks matter: that of the matrix (taken after svc->mut, which is  *)
(* not shown: every thread takes it first), that of the job queue, and the *)
(* order in which threads take these two.  What an update does to the      *)
(* generated backends is in BackendRemoval.                                *)
(***************************************************************************)
EXTENDS Naturals, Sequences, FiniteSets, SequencesExt

CONSTANTS Runners,     \* threads that run jobs (thr_job_runner)
          Outcomes,    \* what DNS may answer: "found" (also dns_not_found),
                       \* "temp_failure", "failure"
          MaxId,       \* bound on job identifiers in use at a time
          MaxAdmin     \* bound on control requests

ASSUME MatrixAssumption ==
  /\ Outcomes \subseteq {"found", "temp_failure", "failure"}
  /\ MaxId \in Nat \ {0} /\ MaxAdmin \in Nat /\ "ctl" \notin Runners /\ "timer" \notin Runners
  /\ IsFiniteSet(Runners)

VARIABLES disabled,    \* of the matrix
          jid,         \* the update job, as the matrix knows it
          refcount,
          pending,     \* identifiers of the queued job_resolver jobs
          cancels,     \* jobcncl_head
          pc,          \* where each thread is
          mtxmut, jobmut, \* who holds the mutex of the matrix, of the queue
          due,         \* the job the timer has timed out on, or NoJob
          failed,      \* has a lookup failed for good? (history)
          admin        \* control requests so far (bound)

vars == <<disabled, jid, refcount, pending, cancels, pc, mtxmut, jobmut,
          due, failed, admin>>

Threads == Runners \cup {"ctl"}
Free == "free"
NoJob == MaxId + 1

(* backend_matrix_init has scheduled the first update; the matrix does not *)
(* know its identifier: jid is zero, which may be another job's.           *)
Init ==
  /\ disabled = FALSE /\ jid = 0 /\ refcount = 2 /\ pending \in {{0}, {1}}
  /\ cancels = <<>> /\ pc = [t \in Threads |-> "idle"]
  /\ mtxmut = Free /\ jobmut = Free /\ due = NoJob
  /\ failed = FALSE /\ admin = 0

(* An identifier that no job, cancellation or matrix remembers stands for  *)
(* the next one of the counter job_next_id.                                *)
Used == pending \cup ToSet(cancels) \cup {jid}
NewIds == {i \in 0 .. MaxId \ Used : \A j \in 0 .. MaxId \ Used : i =< j}

At(t, from, to) == pc[t] = from /\ pc' = [pc EXCEPT ![t] = to]

-----------------------------------------------------------------------------
(* backend_matrix_update, by a runner or by the control thread.            *)
Finish(t) == IF t = "ctl" THEN "idle" ELSE "unref"

(* The DNS lookup, with no lock held.                                      *)
Lookup(t) ==
  /\ \E o \in Outcomes :
       /\ At(t, "dns", CASE o = "found" -> "update" [] o = "temp_failure" -> "retry"
                         [] o = "failure" -> Finish(t))
       /\ failed' = (failed \/ o = "failure")
  /\ UNCHANGED <<disabled, jid, refcount, pending, cancels, mtxmut, jobmut,
                 due, admin>>

(* service_matrix_*_update_backends: locks the matrix, does nothing if it  *)
(* has been disabled; otherwise updates the backends and takes a reference *)
(* for the next job.                                                       *)
LockMatrix(t) ==
  /\ mtxmut = Free
  /\ \/ /\ disabled /\ At(t, "update", Finish(t))
        /\ UNCHANGED <<failed, refcount, mtxmut>>
     \/ /\ ~disabled /\ At(t, "update", "arm")
        /\ refcount' = refcount + 1 /\ mtxmut' = t
  /\ UNCHANGED <<failed, disabled, jid, pending, cancels, jobmut, due, admin>>

(* ... job_enqueue, with the matrix locked; jid remembers the job.         *)
ArmNext(t) ==
  /\ jobmut = Free
  /\ \E id \in NewIds : pending' = pending \cup {id} /\ jid' = id
  /\ At(t, "arm", Finish(t)) /\ mtxmut' = Free
  /\ UNCHANGED <<failed, disabled, refcount, cancels, jobmut, due, admin>>

(* dns_temp_failure: job_enqueue_resolver for a retry; jid is not updated. *)
RetryTakesRef(t) ==
  /\ mtxmut = Free /\ refcount' = refcount + 1
  /\ At(t, "retry", "arm_retry")
  /\ UNCHANGED <<failed, disabled, jid, pending, cancels, mtxmut, jobmut, due, admin>>

ArmRetry(t) ==
  /\ jobmut = Free
  /\ \E id \in NewIds : pending' = pending \cup {id}
  /\ At(t, "arm_retry", Finish(t))
  /\ UNCHANGED <<failed, disabled, jid, refcount, cancels, mtxmut, jobmut, due, admin>>

(* job_resolver ends with backend_unref.                                   *)
NoUnref(n) == n                                                   \* mutant
Unref(n) == n - 1

Unreference(t) ==
  /\ mtxmut = Free /\ refcount' = Unref(refcount)
  /\ At(t, "unref", "idle")
  /\ UNCHANGED <<failed, disabled, jid, pending, cancels, mtxmut, jobmut, due, admin>>

-----------------------------------------------------------------------------
(* The timer thread.  It has served the cancellations and sleeps; the time *)
(* of a job comes.  When the timer has the queue again it starts the job,  *)
(* cancelled meanwhile or not.                                             *)
JobDue ==
  /\ cancels = <<>> /\ due = NoJob
  /\ \E id \in pending : due' = id
  /\ UNCHANGED <<failed, disabled, jid, refcount, pending, cancels, pc, mtxmut, jobmut, admin>>

StartJob(t) ==
  /\ jobmut = Free /\ due # NoJob
  /\ pending' = pending \ {due} /\ due' = NoJob
  /\ At(t, "idle", "dns")
  /\ UNCHANGED <<failed, disabled, jid, refcount, cancels, mtxmut, jobmut, admin>>

(* It serves a cancellation: job_remove looks for the job and calls its    *)
(* function, which drops the reference, with the queue locked.             *)
TakeCancel ==
  /\ jobmut = Free /\ cancels # <<>> /\ due = NoJob
  /\ \/ /\ Head(cancels) \in pending
        /\ jobmut' = "timer" /\ UNCHANGED cancels
     \/ /\ Head(cancels) \notin pending
        /\ cancels' = Tail(cancels) /\ UNCHANGED jobmut
  /\ UNCHANGED <<failed, disabled, jid, refcount, pending, pc, mtxmut, due, admin>>

CancelJob ==
  /\ jobmut = "timer" /\ mtxmut = Free
  /\ refcount' = Unref(refcount)
  /\ pending' = pending \ {Head(cancels)} /\ cancels' = Tail(cancels)
  /\ jobmut' = Free
  /\ UNCHANGED <<failed, disabled, jid, pc, mtxmut, due, admin>>

-----------------------------------------------------------------------------
(* backend_matrix_disable, from the control thread, no lock held.          *)
Disable ==
  /\ admin < MaxAdmin /\ admin' = admin + 1
  /\ jobmut = Free
  /\ cancels' = Append(cancels, jid)
  /\ At("ctl", "idle", "disable")
  /\ UNCHANGED <<failed, disabled, jid, refcount, pending, mtxmut, jobmut, due>>

SetDisabled ==
  /\ At("ctl", "disable", "idle") /\ disabled' = TRUE
  /\ UNCHANGED <<failed, jid, refcount, pending, cancels, mtxmut, jobmut, due, admin>>

EnableNoUpdate ==                                                 \* mutant
  /\ admin < MaxAdmin /\ admin' = admin + 1 /\ disabled
  /\ disabled' = FALSE /\ UNCHANGED pc
  /\ UNCHANGED <<failed, jid, refcount, pending, cancels, mtxmut, jobmut, due>>

Enable ==
  /\ admin < MaxAdmin /\ admin' = admin + 1 /\ disabled
  /\ disabled' = FALSE /\ At("ctl", "idle", "dns")
  /\ UNCHANGED <<failed, jid, refcount, pending, cancels, mtxmut, jobmut, due>>

Step(t) == \/ Lookup(t) \/ LockMatrix(t) \/ ArmNext(t)
           \/ RetryTakesRef(t) \/ ArmRetry(t)

Next ==
  \/ \E t \in Threads : Step(t)
  \/ \E t \in Runners : StartJob(t) \/ Unreference(t)
  \/ JobDue \/ TakeCancel \/ CancelJob \/ Disable \/ SetDisabled \/ Enable

Spec == Init /\ [][Next]_vars

(* Threads that can run do run, locks are granted, jobs come due.          *)
FairSpec ==
  /\ Spec /\ WF_vars(JobDue) /\ WF_vars(TakeCancel) /\ WF_vars(CancelJob) /\ WF_vars(SetDisabled)
  /\ \A t \in Threads : SF_vars(Step(t))
  /\ \A t \in Runners : SF_vars(Unreference(t))
  /\ SF_vars(\E t \in Runners : StartJob(t))

-----------------------------------------------------------------------------
(* Types of the variables.                                                 *)
TypeOK ==
  /\ disabled \in BOOLEAN /\ jid \in 0 .. MaxId /\ refcount \in Nat \ {0}
  /\ pending \subseteq 0 .. MaxId /\ cancels \in Seq(0 .. MaxId)
  /\ pc \in [Threads -> {"idle", "dns", "update", "arm", "retry", "arm_retry",
                         "unref", "disable"}]
  /\ mtxmut \in Threads \cup {Free} /\ jobmut \in {Free, "timer"}
  /\ due \in 0 .. NoJob /\ failed \in BOOLEAN /\ admin \in 0 .. MaxAdmin

Running == {t \in Runners : pc[t] # "idle"}
Arming == {t \in Threads : pc[t] \in {"arm", "arm_retry"}}

(* The reference count of the matrix is that of the service's table plus   *)
(* one for each job, queued or running, and for each that is being armed:  *)
(* no path through an update or a cancellation loses or repeats one, so    *)
(* the matrix is never freed under a job.                                  *)
RefcountExact ==
  refcount = 1 + Cardinality(pending) + Cardinality(Running) + Cardinality(Arming)

(* Unless a lookup has failed for good (the FIXME of                       *)
(* backend_matrix_addr_update), an enabled matrix has an update ahead of   *)
(* it: a job that is queued and not about to be cancelled, or an update    *)
(* under way.  Stale identifiers in jid, late cancellations and retries do *)
(* not end the chain.                                                      *)
UpdateAhead ==
  \/ failed
  \/ disabled \/ pc["ctl"] = "disable"
  \/ \E id \in pending : id \notin ToSet(cancels) \/ id = due
  \/ \E t \in Threads : pc[t] \in {"dns", "update", "arm", "retry", "arm_retry"}

(* pound.texi: when the TTL expires DNS is queried again.                  *)
DnsQueriedAgain ==
  ~disabled ~> (disabled \/ \E t \in Threads : pc[t] = "dns")
=============================================================================
