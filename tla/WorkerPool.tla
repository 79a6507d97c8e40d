----------------------------- MODULE WorkerPool -----------------------------
(***************************************************************************)
(* The pool of worker threads and the request queue of pound.c: the        *)
(* dispatcher pushes accepted connections on thr_head, workers take them   *)
(* off, the pool grows up to worker_max_count while every worker is busy   *)
(* and shrinks to worker_min_count when workers idle for too long.         *)
(* Everything between locking and unlocking (or waiting on) arg_mut is one *)
(* step.  A worker blocked in pthread_cond_[timed]wait leaves it when it   *)
(* is signalled, spuriously, or on timeout, and goes on when it gets the   *)
(* mutex again, which is a step of its own.                                *)
(***************************************************************************)
EXTENDS Integers, Sequences, FiniteSets

CONSTANTS Workers,             \* identifiers of worker threads
          Requests,            \* client connections (POUND_HTTP objects)
          None,                \* no request
          worker_min_count,
          worker_max_count

(* config.c refuses WorkerMinCount > WorkerMaxCount; a pool that may never *)
(* have a worker is not a server.                                          *)
ASSUME PoolAssumption ==
  /\ worker_min_count \in Nat /\ worker_max_count \in Nat \ {0}
  /\ worker_min_count =< worker_max_count
  /\ IsFiniteSet(Workers) /\ Cardinality(Workers) >= worker_max_count
  /\ None \notin Requests

VARIABLES thr_head,            \* the request queue
          worker_count,        \* as the program counts them
          active_threads,      \* ditto
          pc,                  \* where each worker thread is
          phttp,               \* the request each worker processes
          srv,                 \* where the main thread is in server()
          started              \* server()'s i: workers started so far

vars == <<thr_head, worker_count, active_threads, pc, phttp, srv, started>>

-----------------------------------------------------------------------------
(* Threads that exist, that process a request, that wait on arg_cond. *)
Live == {w \in Workers : pc[w] # "none"}
Active == {w \in Workers : pc[w] = "busy"}
Waiting(p) == {w \in Workers : p[w] \in {"wait", "timedwait"}}

(* SLIST_PUSH and SLIST_SHIFT (list.h): insertion at the tail, removal     *)
(* from the head.                                                          *)
PushHead(q, r) == <<r>> \o q                                     \* mutant
SLIST_PUSH(q, r) == Append(q, r)
KeepHead(q) == q                                                  \* mutant
SLIST_SHIFT(q) == Tail(q)

(* pthread_cond_signal(&arg_cond): one of the waiters, if any, wakes up.   *)
SignalNobody(p) == {p}                                            \* mutant
Signal(p) == IF Waiting(p) = {} THEN {p}
             ELSE {[p EXCEPT ![w] = "ready"] : w \in Waiting(p)}

Queued == {thr_head[i] : i \in DOMAIN thr_head}
InService == {phttp[w] : w \in Active}

Init ==
  /\ thr_head = <<>> /\ worker_count = worker_min_count /\ active_threads = 0
  /\ pc = [w \in Workers |-> "none"] /\ phttp = [w \in Workers |-> None]
  /\ srv = "startup" /\ started = 0

-----------------------------------------------------------------------------
(* server(), the loop that starts the initial workers: worker_start() bumps *)
(* worker_count and the loop takes the increment back, neither under the    *)
(* mutex, so that a new worker may see one worker too many.                 *)
worker_start(w) ==
  /\ pc[w] = "none"
  /\ pc' = [pc EXCEPT ![w] = "ready"]
  /\ worker_count' = worker_count + 1

StartupCreate(w) ==
  /\ srv = "startup" /\ started < worker_min_count
  /\ worker_start(w)
  /\ srv' = "adjust"
  /\ UNCHANGED <<thr_head, active_threads, phttp, started>>

KeepIncrement ==                                                  \* mutant
  /\ srv = "adjust" /\ started' = started + 1 /\ srv' = "startup"
  /\ UNCHANGED <<thr_head, worker_count, active_threads, pc, phttp>>

StartupAdjust ==
  /\ srv = "adjust"
  /\ worker_count' = worker_count - 1 /\ started' = started + 1
  /\ srv' = "startup"
  /\ UNCHANGED <<thr_head, active_threads, pc, phttp>>

StartDispatcher ==
  /\ srv = "startup" /\ started = worker_min_count
  /\ srv' = "running"
  /\ UNCHANGED <<thr_head, worker_count, active_threads, pc, phttp, started>>

(* The dispatcher accepts a connection and queues it.  A worker is started *)
(* when all the workers are busy and the pool may grow.                    *)
MustGrow == worker_count < worker_max_count /\ worker_count = active_threads

pound_http_enqueue(r) ==
  /\ srv = "running" /\ r \notin Queued \cup InService
  /\ thr_head' = SLIST_PUSH(thr_head, r)
  /\ \/ /\ MustGrow
        /\ \E w \in Workers \ Live :
             /\ pc' \in Signal([pc EXCEPT ![w] = "ready"])
             /\ worker_count' = worker_count + 1
     \/ /\ ~MustGrow
        /\ pc' \in Signal(pc)
        /\ UNCHANGED worker_count
  /\ UNCHANGED <<active_threads, phttp, srv, started>>

-----------------------------------------------------------------------------
(* pound_http_dequeue, each round of its loop with the mutex held.  A      *)
(* worker whose wait timed out looks again only if the pool has shrunk to  *)
(* the minimum meanwhile.                                                  *)
Looks(w) == \/ pc[w] = "ready"
            \/ pc[w] = "timedout" /\ worker_count = worker_min_count

TakeRequest(w) ==
  /\ Looks(w) /\ thr_head # <<>>
  /\ phttp' = [phttp EXCEPT ![w] = Head(thr_head)]
  /\ thr_head' = SLIST_SHIFT(thr_head)
  /\ LET p == [pc EXCEPT ![w] = "busy"]
     IN  pc' \in IF SLIST_SHIFT(thr_head) # <<>> THEN Signal(p) ELSE {p}
  /\ active_threads' = active_threads + 1
  /\ UNCHANGED <<worker_count, srv, started>>

WaitForRequest(w) ==
  /\ Looks(w) /\ thr_head = <<>>
  /\ pc' = [pc EXCEPT ![w] = IF worker_count = worker_min_count
                             THEN "wait" ELSE "timedwait"]
  /\ UNCHANGED <<thr_head, worker_count, active_threads, phttp, srv, started>>

(* The idle worker terminates, whatever has been queued since its timeout. *)
ExpiredUnchecked(w) == pc[w] = "timedout"                         \* mutant
Expired(w) == pc[w] = "timedout" /\ worker_count # worker_min_count

IdleExit(w) ==
  /\ Expired(w)
  /\ worker_count' = worker_count - 1
  /\ pc' = [pc EXCEPT ![w] = "none"]
  /\ UNCHANGED <<thr_head, active_threads, phttp, srv, started>>

(* The wait ends.  Starting the initial workers takes less time than       *)
(* worker_idle_timeout.                                                    *)
IdleTimeout(w) ==
  /\ pc[w] = "timedwait" /\ srv \notin {"startup", "adjust"}
  /\ pc' = [pc EXCEPT ![w] = "timedout"]
  /\ UNCHANGED <<thr_head, worker_count, active_threads, phttp, srv, started>>

SpuriousWakeup(w) ==
  /\ w \in Waiting(pc)
  /\ pc' = [pc EXCEPT ![w] = "ready"]
  /\ UNCHANGED <<thr_head, worker_count, active_threads, phttp, srv, started>>

(* thr_http: do_http returns, the request is destroyed, the worker is no   *)
(* longer active and calls pound_http_dequeue again.                       *)

active_threads_decr(w) ==
  /\ pc[w] = "busy"
  /\ pc' = [pc EXCEPT ![w] = "ready"] /\ phttp' = [phttp EXCEPT ![w] = None]
  /\ active_threads' = active_threads - 1
  /\ UNCHANGED <<thr_head, worker_count, srv, started>>

-----------------------------------------------------------------------------
(* The main thread.  A signal stops the dispatcher, whose thread is joined; *)
(* on SIGHUP and SIGINT active_threads_wait follows: it returns when there  *)
(* is no active thread, or when grace seconds have passed.  On the other    *)
(* signals the process exits at once.                                       *)
Shutdown(sig) ==
  /\ srv = "running"
  /\ srv' = IF sig \in {"HUP", "INT"} THEN "stopped" ELSE "killed"
  /\ UNCHANGED <<thr_head, worker_count, active_threads, pc, phttp, started>>

AtMostOneActive == active_threads =< 1                            \* mutant
NoneActive == active_threads = 0

active_threads_wait ==
  /\ \/ srv = "stopped" /\ ~NoneActive /\ srv' = "grace"
     \/ srv \in {"stopped", "grace"} /\ NoneActive /\ srv' = "drained"
     \/ srv = "grace" /\ srv' = "expired"
  /\ UNCHANGED <<thr_head, worker_count, active_threads, pc, phttp, started>>

(* cleanup() and exit(0): the process is gone.                             *)
Exited == srv \in {"drained", "expired", "killed"}

WorkerStep(w) == TakeRequest(w) \/ WaitForRequest(w) \/ IdleExit(w)

Next ==
  /\ ~Exited
  /\ \/ \E w \in Workers : \/ StartupCreate(w) \/ WorkerStep(w)
                           \/ IdleTimeout(w) \/ SpuriousWakeup(w)
                           \/ active_threads_decr(w)
     \/ StartupAdjust \/ StartDispatcher \/ active_threads_wait
     \/ \E r \in Requests : pound_http_enqueue(r)
     \/ \E sig \in {"HUP", "INT", "TERM", "QUIT"} : Shutdown(sig)

Spec == Init /\ [][Next]_vars

(* Threads that can run do run, and every request is over at some time:    *)
(* do_http gives up on its client and on its backend after their TimeOut.  *)
Fairness ==
  /\ WF_vars(~Exited /\ (StartupAdjust \/ StartDispatcher))
  /\ WF_vars(~Exited /\ \E w \in Workers : StartupCreate(w))
  /\ \A w \in Workers : /\ WF_vars(~Exited /\ WorkerStep(w))
                        /\ WF_vars(~Exited /\ active_threads_decr(w))

FairSpec == Spec /\ Fairness
-----------------------------------------------------------------------------
(* Types of the variables.                                                 *)
TypeOK ==
  /\ thr_head \in Seq(Requests)
  /\ worker_count \in Nat /\ active_threads \in Nat /\ started \in Nat
  /\ pc \in [Workers -> {"none", "ready", "wait", "timedwait", "timedout", "busy"}]
  /\ phttp \in [Workers -> Requests \cup {None}]
  /\ srv \in {"startup", "adjust", "running", "stopped", "grace",
              "drained", "expired", "killed"}

Starting == srv \in {"startup", "adjust"}

(* worker_count is the number of worker threads there are (once server()   *)
(* has started the initial ones) and active_threads the number of those    *)
(* that process a request: the decisions to grow, to shrink and to end the *)
(* grace period are taken on these counters, updated by different threads. *)
CountsExact ==
  /\ ~Starting => worker_count = Cardinality(Live)
  /\ active_threads = Cardinality(Active)

(* The pool never shrinks under WorkerMinCount nor grows over              *)
(* WorkerMaxCount, whatever workers time out while others are started.     *)
WithinLimits ==
  ~Starting => Cardinality(Live) \in worker_min_count .. worker_max_count

(* A request is in one place: queued once, or processed by one worker.     *)
RequestInOnePlace ==
  /\ \A i, j \in DOMAIN thr_head : thr_head[i] = thr_head[j] => i = j
  /\ \A v, w \in Active : phttp[v] = phttp[w] => v = w
  /\ Queued \cap InService = {}

(* No wakeup is lost: no worker keeps sleeping on arg_cond with requests   *)
(* in the queue unless another one is already on its way to take one (who  *)
(* will then signal the next).                                             *)
NoLostWakeup ==
  thr_head # <<>> /\ Waiting(pc) # {} => \E w \in Workers : pc[w] = "ready"

(* The grace period ends early only when no worker processes a request.    *)
DrainedMeansIdle == srv = "drained" => Active = {}

RQ == INSTANCE RequestQueue WITH Limit <- worker_max_count, queue <- thr_head,
        serving <- InService, open <- ~Exited

(* The pool implements the request queue: connections are taken in the     *)
(* order of arrival, never more than WorkerMaxCount of them are processed  *)
(* at a time, and every accepted one is processed unless the program ends. *)
ImplementsRequestQueue == RQ!RQSpec
=============================================================================
