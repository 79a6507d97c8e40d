-------------------------- MODULE WorkerPoolProofs --------------------------
(***************************************************************************)
(* Proofs about WorkerPool, for any number of workers and requests and any *)
(* limits of the pool.                                                     *)
(***************************************************************************)
EXTENDS WorkerPool, FiniteSetTheorems, TLAPS

States == {"none", "ready", "wait", "timedwait", "timedout", "busy"}

(* The threads of a state p of the workers that exist, or process a        *)
(* request.                                                                *)
LiveIn(p) == {w \in Workers : p[w] # "none"}
ActiveIn(p) == {w \in Workers : p[w] = "busy"}

(* pthread_cond_signal leaves the workers that exist and those that        *)
(* process a request as they are, and leaves no worker waiting without     *)
(* another one ready to run.                                               *)
LEMMA SignalEffect ==
  ASSUME NEW p \in [Workers -> States], NEW q \in Signal(p)
  PROVE  /\ q \in [Workers -> States]
         /\ LiveIn(q) = LiveIn(p) /\ ActiveIn(q) = ActiveIn(p)
         /\ \A w \in Workers : p[w] \in {"timedout", "busy", "none", "ready"} => q[w] = p[w]
         /\ \A w \in Workers : q[w] # p[w] => q[w] = "ready"
         /\ Waiting(q) # {} => \E w \in Workers : q[w] = "ready"
<1>1. CASE Waiting(p) = {}
  <2>1. q = p
    BY <1>1 DEF Signal
  <2> QED
    BY <1>1, <2>1
<1>2. CASE Waiting(p) # {}
  <2>1. PICK v \in Waiting(p) : q = [p EXCEPT ![v] = "ready"]
    BY <1>2 DEF Signal
  <2>2. v \in Workers /\ p[v] \in {"wait", "timedwait"}
    BY <2>1 DEF Waiting
  <2>3. q \in [Workers -> States]
    BY <2>1, <2>2 DEF States
  <2>4. /\ \A w \in Workers : w # v => q[w] = p[w]
        /\ q[v] = "ready"
    BY <2>1, <2>2
  <2> QED
    BY <2>2, <2>3, <2>4 DEF LiveIn, ActiveIn, Waiting
<1> QED
  BY <1>1, <1>2

(* Sets of workers are finite, and their cardinality is a number.          *)
LEMMA WorkersFinite ==
  ASSUME NEW S \in SUBSET Workers
  PROVE  IsFiniteSet(S) /\ Cardinality(S) \in Nat
  BY PoolAssumption, FS_Subset, FS_CardinalityType

-----------------------------------------------------------------------------
(* While server() starts the initial workers, worker_count stands for the  *)
(* workers there will be (and one more between the two assignments), and   *)
(* there is no work yet; afterwards it is exact and within the limits.     *)
StartupCounts ==
  /\ srv = "startup" => /\ worker_count = worker_min_count
                        /\ Cardinality(Live) = started /\ started =< worker_min_count
  /\ srv = "adjust" => /\ worker_count = worker_min_count + 1
                       /\ Cardinality(Live) = started + 1 /\ started < worker_min_count
  /\ Starting => /\ thr_head = <<>>
                 /\ \A w \in Workers : pc[w] \notin {"timedout", "busy"}
  /\ ~Starting => worker_count \in worker_min_count .. worker_max_count

(* The inductive invariant of the counters.                                *)
CountInv == TypeOK /\ CountsExact /\ StartupCounts

(* Initially nothing is counted.                                           *)
LEMMA InitCounts == Init => CountInv
<1> SUFFICES ASSUME Init PROVE CountInv
  OBVIOUS
<1>1. TypeOK
  BY PoolAssumption DEF Init, TypeOK
<1>2. Live = {} /\ Active = {}
  BY DEF Init, Live, Active
<1>3. CountsExact
  BY <1>2, FS_EmptySet DEF Init, CountsExact, Starting
<1>4. StartupCounts
  BY <1>2, FS_EmptySet, PoolAssumption DEF Init, StartupCounts, Starting
<1> QED
  BY <1>1, <1>3, <1>4 DEF CountInv

(* Live and Active, in terms of the state of the workers.                  *)
LEMMA LiveActive ==
  /\ Live = LiveIn(pc) /\ Active = ActiveIn(pc)
  /\ Live' = LiveIn(pc') /\ Active' = ActiveIn(pc')
  BY DEF Live, Active, LiveIn, ActiveIn

(* A worker that starts, terminates, takes a request or is done with it    *)
(* changes the two sets by one element at most.                            *)
LEMMA OneWorker ==
  ASSUME NEW p \in [Workers -> States], NEW w \in Workers, NEW s \in States
  PROVE  LET q == [p EXCEPT ![w] = s]
         IN  /\ q \in [Workers -> States]
             /\ LiveIn(q) = IF s = "none" THEN LiveIn(p) \ {w} ELSE LiveIn(p) \cup {w}
             /\ ActiveIn(q) = IF s = "busy" THEN ActiveIn(p) \cup {w} ELSE ActiveIn(p) \ {w}
  BY DEF LiveIn, ActiveIn, States

(* Cardinalities after the change.                                         *)
LEMMA OneMoreOrLess ==
  ASSUME NEW S \in SUBSET Workers, NEW w \in Workers
  PROVE  /\ w \in S => S \cup {w} = S /\ Cardinality(S \ {w}) = Cardinality(S) - 1
         /\ w \notin S => S \ {w} = S /\ Cardinality(S \cup {w}) = Cardinality(S) + 1
<1>1. IsFiniteSet(S)
  BY WorkersFinite
<1>2. w \in S => Cardinality(S \ {w}) = Cardinality(S) - 1
  BY <1>1, FS_RemoveElement
<1>3. w \notin S => Cardinality(S \cup {w}) = Cardinality(S) + 1
  BY <1>1, FS_AddElement
<1>4. (w \in S => S \cup {w} = S) /\ (w \notin S => S \ {w} = S)
  OBVIOUS
<1> QED
  BY <1>2, <1>3, <1>4

(* Every step keeps the counters right.                                    *)
LEMMA NextCounts == CountInv /\ [Next]_vars => CountInv'
<1> SUFFICES ASSUME CountInv, [Next]_vars PROVE CountInv'
  OBVIOUS
<1> USE PoolAssumption
<1>0. /\ pc \in [Workers -> States] /\ TypeOK
      /\ LiveIn(pc) \in SUBSET Workers /\ ActiveIn(pc) \in SUBSET Workers
      /\ Cardinality(LiveIn(pc)) \in Nat /\ Cardinality(ActiveIn(pc)) \in Nat
      /\ active_threads = Cardinality(ActiveIn(pc))
      /\ ~Starting => worker_count = Cardinality(LiveIn(pc))
  BY WorkersFinite, LiveActive DEF CountInv, TypeOK, States, LiveIn, ActiveIn, CountsExact
<1>1. ASSUME NEW w \in Workers, StartupCreate(w) PROVE CountInv'
  <2>1. /\ srv = "startup" /\ srv' = "adjust" /\ pc[w] = "none"
        /\ pc' = [pc EXCEPT ![w] = "ready"] /\ worker_count' = worker_count + 1
        /\ started < worker_min_count
        /\ UNCHANGED <<thr_head, active_threads, phttp, started>>
    BY <1>1 DEF StartupCreate, worker_start
  <2>2. /\ pc' \in [Workers -> States]
        /\ LiveIn(pc') = LiveIn(pc) \cup {w} /\ ActiveIn(pc') = ActiveIn(pc) \ {w}
    BY <1>0, <2>1, OneWorker DEF States
  <2>3. w \notin LiveIn(pc) /\ w \notin ActiveIn(pc)
    BY <2>1 DEF LiveIn, ActiveIn
  <2>4. /\ Cardinality(LiveIn(pc')) = Cardinality(LiveIn(pc)) + 1
        /\ ActiveIn(pc') = ActiveIn(pc)
    BY <1>0, <2>2, <2>3, OneMoreOrLess
  <2>5. TypeOK'
    BY <1>0, <2>1, <2>2 DEF TypeOK, States
  <2>6. CountsExact'
    BY <1>0, <2>1, <2>4, LiveActive DEF CountsExact, Starting
  <2>7. StartupCounts'
    <3>1. Cardinality(LiveIn(pc)) = started /\ worker_count = worker_min_count
      BY <2>1, LiveActive DEF CountInv, StartupCounts
    <3>2. \A v \in Workers : pc'[v] \notin {"timedout", "busy"}
      BY <1>0, <2>1 DEF CountInv, StartupCounts, Starting
    <3>3. thr_head' = <<>>
      BY <2>1 DEF CountInv, StartupCounts, Starting
    <3> QED
      BY <2>1, <2>4, <3>1, <3>2, <3>3, LiveActive DEF StartupCounts, Starting
  <2> QED
    BY <2>5, <2>6, <2>7 DEF CountInv
<1>2. ASSUME StartupAdjust PROVE CountInv'
  <2>1. Live' = Live /\ Active' = Active
    BY <1>2 DEF StartupAdjust, Live, Active
  <2>2. /\ worker_count' = worker_min_count /\ started' = started + 1
        /\ Cardinality(Live) = started' /\ started' =< worker_min_count /\ started' \in Nat
    BY <1>0, <1>2 DEF StartupAdjust, CountInv, StartupCounts, TypeOK
  <2>3. TypeOK'
    BY <1>0, <1>2, <2>2 DEF StartupAdjust, TypeOK
  <2>4. CountsExact'
    BY <1>2, <2>1 DEF StartupAdjust, CountInv, CountsExact, Starting
  <2>5. StartupCounts'
    BY <1>2, <2>1, <2>2 DEF StartupAdjust, CountInv, StartupCounts, Starting
  <2> QED
    BY <2>3, <2>4, <2>5 DEF CountInv
<1>3. ASSUME StartDispatcher PROVE CountInv'
  <2>1. Live' = Live /\ Active' = Active
    BY <1>3 DEF StartDispatcher, Live, Active
  <2>2. worker_count = worker_min_count /\ Cardinality(Live) = worker_min_count
    BY <1>3 DEF StartDispatcher, CountInv, StartupCounts
  <2>3. TypeOK'
    BY <1>0, <1>3 DEF StartDispatcher, TypeOK
  <2>4. CountsExact'
    BY <1>3, <2>1, <2>2 DEF StartDispatcher, CountInv, CountsExact, Starting
  <2>5. StartupCounts'
    BY <1>3, <2>2 DEF StartDispatcher, StartupCounts, Starting
  <2> QED
    BY <2>3, <2>4, <2>5 DEF CountInv
<1>4. ASSUME NEW r \in Requests, pound_http_enqueue(r) PROVE CountInv'
  <2>1. /\ srv = "running" /\ ~Starting /\ ~Starting' /\ thr_head' \in Seq(Requests)
        /\ UNCHANGED <<active_threads, phttp, srv, started>>
    BY <1>0, <1>4 DEF pound_http_enqueue, Starting, SLIST_PUSH, TypeOK
  <2>2. ASSUME MustGrow, NEW w \in Workers \ Live, worker_count' = worker_count + 1,
               pc' \in Signal([pc EXCEPT ![w] = "ready"])
        PROVE  CountInv'
    <3> DEFINE p == [pc EXCEPT ![w] = "ready"]
    <3>1. /\ p \in [Workers -> States]
          /\ LiveIn(p) = LiveIn(pc) \cup {w} /\ ActiveIn(p) = ActiveIn(pc) \ {w}
      BY <1>0, OneWorker DEF States
    <3>2. w \notin LiveIn(pc) /\ w \notin ActiveIn(pc)
      BY <2>2 DEF Live, LiveIn, ActiveIn
    <3> HIDE DEF p
    <3>3. /\ Cardinality(LiveIn(p)) = Cardinality(LiveIn(pc)) + 1
          /\ ActiveIn(p) = ActiveIn(pc)
      <4>1. LiveIn(pc) \in SUBSET Workers
        BY DEF LiveIn
      <4>2. Cardinality(LiveIn(pc) \cup {w}) = Cardinality(LiveIn(pc)) + 1
        BY <3>2, <4>1, OneMoreOrLess
      <4> QED
        BY <3>1, <3>2, <4>2
    <3>4. pc' \in [Workers -> States] /\ LiveIn(pc') = LiveIn(p) /\ ActiveIn(pc') = ActiveIn(p)
      BY <2>2, <3>1, SignalEffect DEF p
    <3>5. TypeOK'
      BY <1>0, <2>1, <2>2, <3>4 DEF TypeOK, States
    <3>6. CountsExact'
      BY <1>0, <2>1, <2>2, <3>3, <3>4, LiveActive DEF CountsExact
    <3>7. StartupCounts'
      BY <1>0, <2>1, <2>2 DEF CountInv, StartupCounts, Starting, MustGrow, TypeOK
    <3> QED
      BY <3>5, <3>6, <3>7 DEF CountInv
  <2>3. ASSUME pc' \in Signal(pc), UNCHANGED worker_count PROVE CountInv'
    <3>1. pc' \in [Workers -> States] /\ LiveIn(pc') = LiveIn(pc) /\ ActiveIn(pc') = ActiveIn(pc)
      BY <1>0, <2>3, SignalEffect
    <3>2. TypeOK'
      BY <1>0, <2>1, <2>3, <3>1 DEF TypeOK, States
    <3>3. CountsExact'
      BY <1>0, <2>1, <2>3, <3>1, LiveActive DEF CountsExact
    <3>4. StartupCounts'
      BY <2>1, <2>3 DEF CountInv, StartupCounts, Starting
    <3> QED
      BY <3>2, <3>3, <3>4 DEF CountInv
  <2> QED
    BY <1>4, <2>2, <2>3 DEF pound_http_enqueue
<1>5. ASSUME NEW w \in Workers, TakeRequest(w) PROVE CountInv'
  <2> DEFINE p == [pc EXCEPT ![w] = "busy"]
  <2>1. /\ thr_head # <<>> /\ Looks(w) /\ active_threads' = active_threads + 1
        /\ phttp' = [phttp EXCEPT ![w] = Head(thr_head)] /\ thr_head' = Tail(thr_head)
        /\ pc' \in Signal(p) \cup {p}
        /\ UNCHANGED <<worker_count, srv, started>>
    BY <1>5 DEF TakeRequest, SLIST_SHIFT
  <2>2. /\ p \in [Workers -> States]
        /\ LiveIn(p) = LiveIn(pc) \cup {w} /\ ActiveIn(p) = ActiveIn(pc) \cup {w}
    BY <1>0, OneWorker DEF States
  <2>3. w \in LiveIn(pc) /\ w \notin ActiveIn(pc)
    BY <2>1 DEF Looks, LiveIn, ActiveIn
  <2> HIDE DEF p
  <2>4. LiveIn(p) = LiveIn(pc) /\ Cardinality(ActiveIn(p)) = Cardinality(ActiveIn(pc)) + 1
    <3>1. Cardinality(ActiveIn(pc) \cup {w}) = Cardinality(ActiveIn(pc)) + 1
      BY <1>0, <2>3, OneMoreOrLess
    <3>2. LiveIn(pc) \cup {w} = LiveIn(pc)
      BY <2>3
    <3> QED
      BY <2>2, <3>1, <3>2
  <2>5. pc' \in [Workers -> States] /\ LiveIn(pc') = LiveIn(p) /\ ActiveIn(pc') = ActiveIn(p)
    BY <2>1, <2>2, SignalEffect
  <2>6. ~Starting
    BY <2>1 DEF CountInv, StartupCounts
  <2>7. Head(thr_head) \in Requests /\ Tail(thr_head) \in Seq(Requests)
    BY <1>0, <2>1 DEF TypeOK
  <2>8. TypeOK'
    <3>1. phttp' \in [Workers -> Requests \cup {None}]
      BY <1>0, <2>1, <2>7 DEF TypeOK
    <3>2. active_threads' \in Nat
      BY <1>0, <2>1 DEF TypeOK
    <3> QED
      BY <1>0, <2>1, <2>5, <2>7, <3>1, <3>2 DEF TypeOK, States
  <2>9. CountsExact'
    BY <1>0, <2>1, <2>4, <2>5, LiveActive DEF CountsExact, Starting
  <2>10. StartupCounts'
    BY <2>1, <2>6 DEF CountInv, StartupCounts, Starting
  <2> QED
    BY <2>8, <2>9, <2>10 DEF CountInv
<1>6. ASSUME NEW w \in Workers, NEW s \in {"ready", "wait", "timedwait", "timedout"},
             pc[w] \notin {"none", "busy"}, pc' = [pc EXCEPT ![w] = s],
             s = "timedout" => ~Starting,
             UNCHANGED <<thr_head, worker_count, active_threads, phttp, srv, started>>
      PROVE  CountInv'
  <2>0. s \in States /\ s # "none" /\ s # "busy"
    BY <1>6 DEF States
  <2>1. /\ pc' \in [Workers -> States]
        /\ LiveIn(pc') = LiveIn(pc) \cup {w} /\ ActiveIn(pc') = ActiveIn(pc) \ {w}
    BY <1>0, <1>6, <2>0, OneWorker
  <2>2. w \in LiveIn(pc) /\ w \notin ActiveIn(pc)
    BY <1>6 DEF LiveIn, ActiveIn
  <2>3. LiveIn(pc') = LiveIn(pc) /\ ActiveIn(pc') = ActiveIn(pc)
    BY <2>1, <2>2
  <2>4. TypeOK'
    BY <1>0, <1>6, <2>1 DEF TypeOK, States
  <2>5. CountsExact'
    BY <1>0, <1>6, <2>3, LiveActive DEF CountsExact, Starting
  <2>6. StartupCounts'
    BY <1>0, <1>6, <2>3, LiveActive DEF CountInv, StartupCounts, Starting
  <2> QED
    BY <2>4, <2>5, <2>6 DEF CountInv
<1>7. ASSUME NEW w \in Workers, WaitForRequest(w) PROVE CountInv'
  BY <1>6, <1>7 DEF WaitForRequest, Looks
<1>8. ASSUME NEW w \in Workers, IdleTimeout(w) PROVE CountInv'
  BY <1>6, <1>8 DEF IdleTimeout, Starting
<1>9. ASSUME NEW w \in Workers, SpuriousWakeup(w) PROVE CountInv'
  BY <1>6, <1>9 DEF SpuriousWakeup, Waiting
<1>10. ASSUME NEW w \in Workers, IdleExit(w) PROVE CountInv'
  <2>1. /\ pc[w] = "timedout" /\ worker_count # worker_min_count
        /\ pc' = [pc EXCEPT ![w] = "none"] /\ worker_count' = worker_count - 1
        /\ UNCHANGED <<thr_head, active_threads, phttp, srv, started>>
    BY <1>10 DEF IdleExit, Expired
  <2>2. ~Starting
    BY <2>1 DEF CountInv, StartupCounts
  <2>3. /\ pc' \in [Workers -> States]
        /\ LiveIn(pc') = LiveIn(pc) \ {w} /\ ActiveIn(pc') = ActiveIn(pc) \ {w}
    BY <1>0, <2>1, OneWorker DEF States
  <2>4. w \in LiveIn(pc) /\ w \notin ActiveIn(pc)
    BY <2>1 DEF LiveIn, ActiveIn
  <2>5. Cardinality(LiveIn(pc')) = Cardinality(LiveIn(pc)) - 1 /\ ActiveIn(pc') = ActiveIn(pc)
    BY <1>0, <2>3, <2>4, OneMoreOrLess
  <2>6. worker_count' \in worker_min_count .. worker_max_count
    BY <1>0, <2>1, <2>2 DEF CountInv, StartupCounts, TypeOK
  <2>7. TypeOK'
    BY <1>0, <2>1, <2>3, <2>6 DEF TypeOK, States
  <2>8. CountsExact'
    BY <1>0, <2>1, <2>2, <2>5, LiveActive DEF CountsExact, Starting
  <2>9. StartupCounts'
    BY <2>1, <2>2, <2>6 DEF StartupCounts, Starting
  <2> QED
    BY <2>7, <2>8, <2>9 DEF CountInv
<1>11. ASSUME NEW w \in Workers, active_threads_decr(w) PROVE CountInv'
  <2>1. /\ pc[w] = "busy" /\ pc' = [pc EXCEPT ![w] = "ready"]
        /\ active_threads' = active_threads - 1 /\ phttp' = [phttp EXCEPT ![w] = None]
        /\ UNCHANGED <<thr_head, worker_count, srv, started>>
    BY <1>11 DEF active_threads_decr
  <2>2. ~Starting
    BY <2>1 DEF CountInv, StartupCounts
  <2>3. /\ pc' \in [Workers -> States]
        /\ LiveIn(pc') = LiveIn(pc) \cup {w} /\ ActiveIn(pc') = ActiveIn(pc) \ {w}
    BY <1>0, <2>1, OneWorker DEF States
  <2>4. w \in LiveIn(pc) /\ w \in ActiveIn(pc)
    BY <2>1 DEF LiveIn, ActiveIn
  <2>5. LiveIn(pc') = LiveIn(pc) /\ Cardinality(ActiveIn(pc')) = Cardinality(ActiveIn(pc)) - 1
    BY <1>0, <2>3, <2>4, OneMoreOrLess
  <2>6. Cardinality(ActiveIn(pc')) \in Nat
    BY WorkersFinite DEF ActiveIn
  <2>7. TypeOK'
    BY <1>0, <2>1, <2>3, <2>5, <2>6 DEF TypeOK, States
  <2>8. CountsExact'
    BY <1>0, <2>1, <2>2, <2>5, LiveActive DEF CountsExact, Starting
  <2>9. StartupCounts'
    BY <2>1, <2>2 DEF CountInv, StartupCounts, Starting
  <2> QED
    BY <2>7, <2>8, <2>9 DEF CountInv
<1>12. ASSUME \/ \E sig \in {"HUP", "INT", "TERM", "QUIT"} : Shutdown(sig)
              \/ active_threads_wait
       PROVE  CountInv'
  <2>1. /\ ~Starting /\ ~Starting' /\ TypeOK'
        /\ UNCHANGED <<thr_head, worker_count, active_threads, pc, phttp, started>>
    BY <1>0, <1>12 DEF Shutdown, active_threads_wait, Starting, TypeOK
  <2>2. Live' = Live /\ Active' = Active
    BY <2>1 DEF Live, Active
  <2>3. CountsExact'
    BY <2>1, <2>2 DEF CountInv, CountsExact
  <2>4. StartupCounts'
    BY <2>1 DEF CountInv, StartupCounts, Starting
  <2> QED
    BY <2>1, <2>3, <2>4 DEF CountInv
<1>13. ASSUME UNCHANGED vars PROVE CountInv'
  <2>1. Live' = Live /\ Active' = Active
    BY <1>13 DEF vars, Live, Active
  <2> QED
    BY <1>13, <2>1 DEF vars, CountInv, TypeOK, CountsExact, StartupCounts, Starting
<1> QED
  BY <1>1, <1>2, <1>3, <1>4, <1>5, <1>7, <1>8, <1>9, <1>10, <1>11, <1>12, <1>13
     DEF Next, WorkerStep

(* The counters of pound.c are right at all times, for any limits and any  *)
(* number of threads and requests.                                         *)
THEOREM CountsCorrect == Spec => [](TypeOK /\ CountsExact)
<1>1. CountInv => TypeOK /\ CountsExact
  BY DEF CountInv
<1> QED
  BY InitCounts, NextCounts, <1>1, PTL DEF Spec

(* The pool keeps within WorkerMinCount and WorkerMaxCount.                *)
THEOREM LimitsKept == Spec => []WithinLimits
<1>1. CountInv => WithinLimits
  BY DEF CountInv, CountsExact, StartupCounts, WithinLimits
<1> QED
  BY InitCounts, NextCounts, <1>1, PTL DEF Spec

-----------------------------------------------------------------------------
(* Wakeups.  A step after which no worker waits, or one is ready, keeps    *)
(* the invariant; so does one that leaves the queue empty.                 *)
LEMMA NextWakeup == CountInv /\ NoLostWakeup /\ [Next]_vars => NoLostWakeup'
<1> SUFFICES ASSUME CountInv, NoLostWakeup, [Next]_vars PROVE NoLostWakeup'
  OBVIOUS
<1>0. pc \in [Workers -> States]
  BY DEF CountInv, TypeOK, States
<1>1. ASSUME NEW w \in Workers,
             \/ StartupCreate(w) \/ SpuriousWakeup(w) \/ active_threads_decr(w)
      PROVE  NoLostWakeup'
  <2>1. pc'[w] = "ready"
    BY <1>0, <1>1 DEF StartupCreate, worker_start, SpuriousWakeup, active_threads_decr
  <2> QED
    BY <2>1 DEF NoLostWakeup
<1>2. ASSUME NEW p \in [Workers -> States], pc' \in Signal(p) PROVE NoLostWakeup'
  <2>1. Waiting(pc') # {} => \E w \in Workers : pc'[w] = "ready"
    BY <1>2, SignalEffect
  <2> QED
    BY <2>1 DEF NoLostWakeup, Waiting
<1>3. ASSUME NEW r \in Requests, pound_http_enqueue(r) PROVE NoLostWakeup'
  <2>1. PICK p \in [Workers -> States] : pc' \in Signal(p)
    <3>1. CASE MustGrow
      <4>1. PICK w \in Workers \ Live : pc' \in Signal([pc EXCEPT ![w] = "ready"])
        BY <1>3, <3>1 DEF pound_http_enqueue
      <4>2. [pc EXCEPT ![w] = "ready"] \in [Workers -> States]
        BY <1>0 DEF States
      <4> QED
        BY <4>1, <4>2
    <3>2. CASE ~MustGrow
      BY <1>0, <1>3, <3>2 DEF pound_http_enqueue
    <3> QED
      BY <3>1, <3>2
  <2> QED
    BY <1>2, <2>1
<1>4. ASSUME NEW w \in Workers, TakeRequest(w) PROVE NoLostWakeup'
  <2>1. CASE SLIST_SHIFT(thr_head) # <<>>
    <3>1. pc' \in Signal([pc EXCEPT ![w] = "busy"])
      BY <1>4, <2>1 DEF TakeRequest
    <3>2. [pc EXCEPT ![w] = "busy"] \in [Workers -> States]
      BY <1>0 DEF States
    <3> QED
      BY <1>2, <3>1, <3>2
  <2>2. CASE SLIST_SHIFT(thr_head) = <<>>
    BY <1>4, <2>2 DEF TakeRequest, NoLostWakeup
  <2> QED
    BY <2>1, <2>2
<1>5. ASSUME NEW w \in Workers, WaitForRequest(w) PROVE NoLostWakeup'
  BY <1>5 DEF WaitForRequest, NoLostWakeup
<1>6. ASSUME NEW w \in Workers, NEW s \in {"none", "timedout"},
             pc[w] # "ready", pc' = [pc EXCEPT ![w] = s], thr_head' = thr_head
      PROVE  NoLostWakeup'
  <2>1. \A v \in Workers : pc[v] = "ready" => pc'[v] = "ready"
    BY <1>0, <1>6
  <2>2. \A v \in Workers : pc'[v] \in {"wait", "timedwait"} => pc[v] \in {"wait", "timedwait"}
    BY <1>0, <1>6
  <2> QED
    BY <1>6, <2>1, <2>2 DEF NoLostWakeup, Waiting
<1>7. ASSUME NEW w \in Workers, IdleExit(w) \/ IdleTimeout(w) PROVE NoLostWakeup'
  BY <1>6, <1>7 DEF IdleExit, Expired, IdleTimeout
<1>8. ASSUME UNCHANGED <<pc, thr_head>> PROVE NoLostWakeup'
  BY <1>8 DEF NoLostWakeup, Waiting
<1> QED
  BY <1>1, <1>3, <1>4, <1>5, <1>7, <1>8
     DEF Next, WorkerStep, StartupAdjust, StartDispatcher, active_threads_wait, Shutdown, vars

(* No wakeup of an idle worker is lost.                                    *)
THEOREM WakeupsKept == Spec => []NoLostWakeup
<1>1. Init => NoLostWakeup
  BY DEF Init, NoLostWakeup
<1> QED
  BY InitCounts, NextCounts, NextWakeup, <1>1, PTL DEF Spec

-----------------------------------------------------------------------------
(* The grace period ends early only when no worker processes a request.    *)
THEOREM DrainedIdle == Spec => []DrainedMeansIdle
<1>1. Init => DrainedMeansIdle
  BY DEF Init, DrainedMeansIdle
<1>2. CountInv /\ DrainedMeansIdle /\ [Next]_vars => DrainedMeansIdle'
  <2> SUFFICES ASSUME CountInv, DrainedMeansIdle, [Next]_vars, srv' = "drained"
               PROVE  Active' = {}
    BY DEF DrainedMeansIdle
  <2>1. CASE srv = "drained"
    <3>1. UNCHANGED vars
      BY <2>1 DEF Next, Exited
    <3> QED
      BY <2>1, <3>1 DEF vars, Active, DrainedMeansIdle
  <2>2. CASE srv # "drained"
    <3>1. active_threads_wait
      BY <2>2 DEF Next, WorkerStep, StartupCreate, TakeRequest, WaitForRequest, IdleExit,
           IdleTimeout, SpuriousWakeup, active_threads_decr, StartupAdjust, StartDispatcher,
           pound_http_enqueue, Shutdown, vars
    <3>2. active_threads = 0 /\ pc' = pc
      BY <2>2, <3>1 DEF active_threads_wait, NoneActive
    <3>3. Cardinality(Active) = 0 /\ IsFiniteSet(Active)
      BY <3>2, WorkersFinite DEF CountInv, CountsExact, Active
    <3> QED
      BY <3>2, <3>3, FS_EmptySet DEF Active
  <2> QED
    BY <2>1, <2>2
<1> QED
  BY InitCounts, NextCounts, <1>1, <1>2, PTL DEF Spec

-----------------------------------------------------------------------------
(* What a step does to the queue and to the requests in service.           *)
Accepts(r) == /\ ~Exited /\ srv' = srv /\ r \notin Queued \cup InService
              /\ thr_head' = Append(thr_head, r) /\ phttp' = phttp /\ Active' = Active
Takes(w) == /\ ~Exited /\ srv' = srv /\ ~Starting /\ w \in Live \ Active /\ thr_head # <<>>
            /\ thr_head' = Tail(thr_head)
            /\ phttp' = [phttp EXCEPT ![w] = Head(thr_head)] /\ Active' = Active \cup {w}
Ends(w) == /\ ~Exited /\ srv' = srv /\ w \in Active /\ thr_head' = thr_head
           /\ phttp' = [phttp EXCEPT ![w] = None] /\ Active' = Active \ {w}
Elsewhere == thr_head' = thr_head /\ phttp' = phttp /\ Active' = Active /\ (Exited => Exited')

(* What a step does to requests: one is accepted, taken or ended, or none  *)
(* is touched.                                                             *)
LEMMA StepKinds ==
  CountInv /\ [Next]_vars =>
    \/ \E r \in Requests : Accepts(r)
    \/ \E w \in Workers : Takes(w) \/ Ends(w)
    \/ Elsewhere
<1> SUFFICES ASSUME CountInv, [Next]_vars
             PROVE  \/ \E r \in Requests : Accepts(r)
                    \/ \E w \in Workers : Takes(w) \/ Ends(w)
                    \/ Elsewhere
  OBVIOUS
<1>0. pc \in [Workers -> States]
  BY DEF CountInv, TypeOK, States
<1>1. ASSUME NEW r \in Requests, ~Exited, pound_http_enqueue(r) PROVE Accepts(r)
  <2>1. ActiveIn(pc') = ActiveIn(pc)
    <3>1. CASE MustGrow
      <4>1. PICK w \in Workers \ Live : pc' \in Signal([pc EXCEPT ![w] = "ready"])
        BY <1>1, <3>1 DEF pound_http_enqueue
      <4>2. /\ [pc EXCEPT ![w] = "ready"] \in [Workers -> States]
            /\ ActiveIn([pc EXCEPT ![w] = "ready"]) = ActiveIn(pc) \ {w}
        BY <1>0, OneWorker DEF States
      <4>3. w \notin ActiveIn(pc)
        BY <4>1 DEF ActiveIn, Live
      <4>4. ActiveIn(pc') = ActiveIn([pc EXCEPT ![w] = "ready"])
        BY <4>1, <4>2, SignalEffect
      <4> QED
        BY <4>2, <4>3, <4>4
    <3>2. CASE ~MustGrow
      BY <1>0, <1>1, <3>2, SignalEffect DEF pound_http_enqueue
    <3> QED
      BY <3>1, <3>2
  <2> QED
    BY <1>1, <2>1, LiveActive DEF pound_http_enqueue, Accepts, SLIST_PUSH
<1>2. ASSUME NEW w \in Workers, ~Exited, TakeRequest(w) PROVE Takes(w)
  <2> DEFINE p == [pc EXCEPT ![w] = "busy"]
  <2>1. p \in [Workers -> States] /\ ActiveIn(p) = ActiveIn(pc) \cup {w}
    BY <1>0, OneWorker DEF States
  <2>2. pc' \in Signal(p) \cup {p} /\ Looks(w)
    BY <1>2 DEF TakeRequest
  <2> HIDE DEF p
  <2>3. ActiveIn(pc') = ActiveIn(pc) \cup {w}
    BY <2>1, <2>2, SignalEffect
  <2>4. w \in Live \ Active
    BY <2>2 DEF Looks, Live, Active
  <2>5. ~Starting
    BY <1>2 DEF TakeRequest, CountInv, StartupCounts
  <2> QED
    BY <1>2, <2>3, <2>4, <2>5, LiveActive DEF TakeRequest, SLIST_SHIFT, Takes
<1>3. ASSUME NEW w \in Workers, ~Exited, active_threads_decr(w) PROVE Ends(w)
  <2>1. ActiveIn(pc') = ActiveIn(pc) \ {w}
    BY <1>0, <1>3, OneWorker DEF active_threads_decr, States
  <2>2. w \in Active
    BY <1>3 DEF active_threads_decr, Active
  <2> QED
    BY <1>3, <2>1, <2>2, LiveActive DEF active_threads_decr, Ends
<1>4. ASSUME NEW w \in Workers, NEW s \in States \ {"busy"}, pc[w] # "busy",
             pc' = [pc EXCEPT ![w] = s], UNCHANGED <<thr_head, phttp>>, ~Exited
      PROVE  Elsewhere
  <2>1. ActiveIn(pc') = ActiveIn(pc) \ {w}
    BY <1>0, <1>4, OneWorker
  <2>2. w \notin ActiveIn(pc)
    BY <1>4 DEF ActiveIn
  <2> QED
    BY <1>4, <2>1, <2>2, LiveActive DEF Elsewhere
<1>5. ASSUME NEW w \in Workers, ~Exited,
             \/ StartupCreate(w) \/ WaitForRequest(w) \/ IdleExit(w)
             \/ IdleTimeout(w) \/ SpuriousWakeup(w)
      PROVE  Elsewhere
  <2>1. pc[w] # "busy" /\ UNCHANGED <<thr_head, phttp>>
    BY <1>5 DEF StartupCreate, worker_start, WaitForRequest, Looks, IdleExit, Expired,
         IdleTimeout, SpuriousWakeup, Waiting
  <2>2. \E s \in States \ {"busy"} : pc' = [pc EXCEPT ![w] = s]
    BY <1>5 DEF StartupCreate, worker_start, WaitForRequest, IdleExit, IdleTimeout,
         SpuriousWakeup, States
  <2> QED
    BY <1>4, <1>5, <2>1, <2>2
<1>6. ASSUME UNCHANGED <<thr_head, pc, phttp>>, Exited => Exited' PROVE Elsewhere
  BY <1>6 DEF Elsewhere, Active
<1>7. ASSUME ~Exited,
             \/ StartupAdjust \/ StartDispatcher \/ active_threads_wait
             \/ \E sig \in {"HUP", "INT", "TERM", "QUIT"} : Shutdown(sig)
      PROVE  Elsewhere
  BY <1>6, <1>7 DEF StartupAdjust, StartDispatcher, active_threads_wait, Shutdown
<1>8. ASSUME UNCHANGED vars PROVE Elsewhere
  BY <1>6, <1>8 DEF vars, Exited
<1> QED
  BY <1>1, <1>2, <1>3, <1>5, <1>7, <1>8 DEF Next, WorkerStep

-----------------------------------------------------------------------------
(* A queue of distinct elements, after an insertion and after a removal.   *)
LEMMA DistinctAppend ==
  ASSUME NEW S, NEW q \in Seq(S), NEW r \in S,
         \A i, j \in DOMAIN q : q[i] = q[j] => i = j, \A i \in DOMAIN q : q[i] # r
  PROVE  /\ \A i, j \in DOMAIN Append(q, r) : Append(q, r)[i] = Append(q, r)[j] => i = j
         /\ \A i \in DOMAIN Append(q, r) : Append(q, r)[i] = r \/ \E j \in DOMAIN q : q[j] = Append(q, r)[i]
  OBVIOUS

(* Elements stay distinct when the first one is taken.                     *)
LEMMA DistinctTail ==
  ASSUME NEW S, NEW q \in Seq(S), q # <<>>,
         \A i, j \in DOMAIN q : q[i] = q[j] => i = j
  PROVE  /\ \A i, j \in DOMAIN Tail(q) : Tail(q)[i] = Tail(q)[j] => i = j
         /\ \A i \in DOMAIN Tail(q) : Tail(q)[i] # Head(q) /\ \E j \in DOMAIN q : q[j] = Tail(q)[i]
  OBVIOUS

(* Every step keeps every request in one place.                            *)
LEMMA NextOnePlace == CountInv /\ RequestInOnePlace /\ [Next]_vars => RequestInOnePlace'
<1> SUFFICES ASSUME CountInv, RequestInOnePlace, [Next]_vars PROVE RequestInOnePlace'
  OBVIOUS
<1>0. /\ thr_head \in Seq(Requests) /\ phttp \in [Workers -> Requests \cup {None}]
      /\ \A i, j \in DOMAIN thr_head : thr_head[i] = thr_head[j] => i = j
      /\ \A v, w \in Active : phttp[v] = phttp[w] => v = w
      /\ \A i \in DOMAIN thr_head, w \in Active : thr_head[i] # phttp[w]
      /\ Active \subseteq Workers
  BY DEF CountInv, TypeOK, RequestInOnePlace, Queued, InService, Active
<1>1. SUFFICES
        /\ \A i, j \in DOMAIN thr_head' : thr_head'[i] = thr_head'[j] => i = j
        /\ \A v, w \in Active' : phttp'[v] = phttp'[w] => v = w
        /\ \A i \in DOMAIN thr_head', w \in Active' : thr_head'[i] # phttp'[w]
  BY DEF RequestInOnePlace, Queued, InService
<1>2. ASSUME NEW r \in Requests, Accepts(r)
      PROVE  /\ \A i, j \in DOMAIN thr_head' : thr_head'[i] = thr_head'[j] => i = j
             /\ \A v, w \in Active' : phttp'[v] = phttp'[w] => v = w
             /\ \A i \in DOMAIN thr_head', w \in Active' : thr_head'[i] # phttp'[w]
  <2>1. /\ \A i \in DOMAIN thr_head : thr_head[i] # r
        /\ \A w \in Active : phttp[w] # r
    BY <1>2 DEF Accepts, Queued, InService
  <2>2. /\ \A i, j \in DOMAIN thr_head' : thr_head'[i] = thr_head'[j] => i = j
        /\ \A i \in DOMAIN thr_head' : thr_head'[i] = r \/ \E j \in DOMAIN thr_head : thr_head[j] = thr_head'[i]
    BY <1>0, <1>2, <2>1, DistinctAppend DEF Accepts
  <2> QED
    BY <1>0, <1>2, <2>1, <2>2 DEF Accepts
<1>3. ASSUME NEW w \in Workers, Takes(w)
      PROVE  /\ \A i, j \in DOMAIN thr_head' : thr_head'[i] = thr_head'[j] => i = j
             /\ \A u, v \in Active' : phttp'[u] = phttp'[v] => u = v
             /\ \A i \in DOMAIN thr_head', v \in Active' : thr_head'[i] # phttp'[v]
  <2>1. /\ \A i, j \in DOMAIN thr_head' : thr_head'[i] = thr_head'[j] => i = j
        /\ \A i \in DOMAIN thr_head' : /\ thr_head'[i] # Head(thr_head)
                                       /\ \E j \in DOMAIN thr_head : thr_head[j] = thr_head'[i]
    BY <1>0, <1>3, DistinctTail DEF Takes
  <2>2. 1 \in DOMAIN thr_head /\ Head(thr_head) = thr_head[1]
    BY <1>0, <1>3 DEF Takes
  <2>3. \A v \in Active : phttp'[v] = phttp[v] /\ phttp[v] # Head(thr_head)
    BY <1>0, <1>3, <2>2 DEF Takes
  <2>4. phttp'[w] = Head(thr_head) /\ Active' = Active \cup {w}
    BY <1>0, <1>3 DEF Takes
  <2> QED
    BY <1>0, <2>1, <2>3, <2>4
<1>4. ASSUME NEW w \in Workers, Ends(w)
      PROVE  /\ \A i, j \in DOMAIN thr_head' : thr_head'[i] = thr_head'[j] => i = j
             /\ \A u, v \in Active' : phttp'[u] = phttp'[v] => u = v
             /\ \A i \in DOMAIN thr_head', v \in Active' : thr_head'[i] # phttp'[v]
  <2>1. \A v \in Active' : v \in Active /\ phttp'[v] = phttp[v]
    BY <1>0, <1>4 DEF Ends
  <2> QED
    BY <1>0, <1>4, <2>1 DEF Ends
<1>5. CASE Elsewhere
  BY <1>0, <1>5 DEF Elsewhere
<1> QED
  BY <1>2, <1>3, <1>4, <1>5, StepKinds

(* A request is queued once or processed by one worker, never both.        *)
THEOREM OnePlace == Spec => []RequestInOnePlace
<1>1. Init => RequestInOnePlace
  BY DEF Init, RequestInOnePlace, Queued, InService, Active
<1> QED
  BY InitCounts, NextCounts, NextOnePlace, <1>1, PTL DEF Spec

-----------------------------------------------------------------------------
(* Every active worker has a request.                                      *)
BusyHasRequest == \A w \in Active : phttp[w] \in Requests

(* Every step leaves active workers a request.                             *)
LEMMA NextBusy == CountInv /\ BusyHasRequest /\ [Next]_vars => BusyHasRequest'
<1> SUFFICES ASSUME CountInv, BusyHasRequest, [Next]_vars PROVE BusyHasRequest'
  OBVIOUS
<1>0. thr_head \in Seq(Requests) /\ phttp \in [Workers -> Requests \cup {None}] /\ Active \subseteq Workers
  BY DEF CountInv, TypeOK, Active
<1>1. ASSUME NEW w \in Workers, Takes(w) PROVE BusyHasRequest'
  <2>1. Head(thr_head) \in Requests
    BY <1>0, <1>1 DEF Takes
  <2> QED
    BY <1>0, <1>1, <2>1 DEF Takes, BusyHasRequest
<1>2. ASSUME NEW w \in Workers, Ends(w) PROVE BusyHasRequest'
  BY <1>0, <1>2 DEF Ends, BusyHasRequest
<1>3. ASSUME Elsewhere \/ \E r \in Requests : Accepts(r) PROVE BusyHasRequest'
  BY <1>3 DEF Elsewhere, Accepts, BusyHasRequest
<1> QED
  BY <1>1, <1>2, <1>3, StepKinds

(* No more requests are in service than workers are active.                *)
LEMMA ServingBound ==
  ASSUME CountInv PROVE IsFiniteSet(InService) /\ Cardinality(InService) =< Cardinality(Active)
<1> DEFINE f == [r \in InService |-> CHOOSE w \in Active : phttp[w] = r]
<1>1. \A r \in InService : f[r] \in Active /\ phttp[f[r]] = r
  BY DEF InService
<1>2. f \in Injection(InService, Active)
  BY <1>1 DEF Injection, IsInjective
<1>3. IsFiniteSet(Active)
  BY WorkersFinite DEF Active
<1> QED
  BY <1>2, <1>3, FS_Injection

(* The pool implements the safety part of RequestQueue: first come, first  *)
(* served, and never more than WorkerMaxCount requests at a time.          *)
THEOREM PoolImplementsQueue == Spec => RQ!RQSafe
<1>1. Init => RQ!RQInit
  BY DEF Init, RQ!RQInit, InService, Active, Exited
<1>2. CountInv /\ RequestInOnePlace /\ BusyHasRequest /\ [Next]_vars => [RQ!RQNext]_RQ!rqVars
  <2> SUFFICES ASSUME CountInv, RequestInOnePlace, BusyHasRequest, [Next]_vars
               PROVE  RQ!RQNext \/ UNCHANGED RQ!rqVars
    OBVIOUS
  <2>1. ASSUME NEW r \in Requests, Accepts(r) PROVE RQ!Accept(r)
    <3>1. InService' = InService /\ r \notin InService /\ Exited' = Exited
      BY <2>1 DEF Accepts, InService, Exited
    <3>2. \A i \in DOMAIN thr_head : thr_head[i] # r
      BY <2>1 DEF Accepts, Queued
    <3> QED
      BY <2>1, <3>1, <3>2 DEF Accepts, RQ!Accept
  <2>2. ASSUME NEW w \in Workers, Takes(w) PROVE RQ!Begin
    <3>1. Exited' = Exited
      BY <2>2 DEF Takes, Exited
    <3>2. InService' = InService \cup {Head(thr_head)}
      BY <2>2 DEF Takes, InService, CountInv, TypeOK, Active
    <3>3. Cardinality(Active) < Cardinality(Live) /\ Cardinality(Active) \in Nat
      <4>1. /\ Active \cup {w} \in SUBSET Live /\ Active \in SUBSET Workers
            /\ w \notin Active /\ Live \in SUBSET Workers
        BY <2>2 DEF Takes, Active, Live
      <4>2. Cardinality(Active \cup {w}) = Cardinality(Active) + 1
        BY <4>1, OneMoreOrLess
      <4>3. Cardinality(Active \cup {w}) =< Cardinality(Live)
        BY <4>1, WorkersFinite, FS_Subset
      <4> QED
        BY <4>1, <4>2, <4>3, WorkersFinite
    <3>4. Cardinality(Live) =< worker_max_count /\ Cardinality(Live) \in Nat
      BY <2>2, WorkersFinite, PoolAssumption DEF Takes, CountInv, CountsExact, StartupCounts, Live
    <3>5. Cardinality(InService) < worker_max_count
      BY <3>3, <3>4, ServingBound, FS_CardinalityType, PoolAssumption
    <3>6. RQ!Cardinality(InService) < worker_max_count
      BY ONLY <3>5 DEF Cardinality, RQ!Cardinality
    <3>7. ~Exited /\ thr_head # <<>> /\ thr_head' = Tail(thr_head)
      BY <2>2 DEF Takes
    <3> QED
      BY <3>1, <3>2, <3>6, <3>7 DEF RQ!Begin
  <2>3. ASSUME NEW w \in Workers, Ends(w) PROVE RQ!Finish(phttp[w]) /\ phttp[w] \in Requests
    <3>1. Exited' = Exited
      BY <2>3 DEF Ends, Exited
    <3>2. InService' = InService \ {phttp[w]}
      BY <2>3 DEF Ends, InService, RequestInOnePlace, CountInv, TypeOK, Active
    <3>3. phttp[w] \in InService /\ phttp[w] \in Requests
      BY <2>3 DEF Ends, InService, BusyHasRequest
    <3>4. ~Exited /\ thr_head' = thr_head
      BY <2>3 DEF Ends
    <3> QED
      BY <3>1, <3>2, <3>3, <3>4 DEF RQ!Finish
  <2>4. ASSUME Elsewhere PROVE RQ!Close \/ UNCHANGED RQ!rqVars
    <3>1. InService' = InService /\ thr_head' = thr_head
      BY <2>4 DEF Elsewhere, InService
    <3>2. Exited' = Exited \/ (~Exited /\ Exited')
      BY <2>4 DEF Elsewhere, Exited
    <3> QED
      BY <3>1, <3>2 DEF RQ!Close, RQ!rqVars
  <2>5. ASSUME NEW w \in Workers, Ends(w) PROVE RQ!RQNext
    BY <2>3, <2>5 DEF RQ!RQNext
  <2>6. ASSUME NEW r \in Requests, Accepts(r) PROVE RQ!RQNext
    BY <2>1, <2>6 DEF RQ!RQNext
  <2> QED
    BY <2>2, <2>4, <2>5, <2>6, StepKinds DEF RQ!RQNext
<1>3. Init => BusyHasRequest /\ RequestInOnePlace
  BY DEF Init, BusyHasRequest, RequestInOnePlace, Queued, InService, Active
<1> QED
  BY InitCounts, NextCounts, NextOnePlace, NextBusy, <1>1, <1>2, <1>3, PTL DEF Spec, RQ!RQSafe
=============================================================================
