------------------------- MODULE MatrixUpdateProofs -------------------------
(***************************************************************************)
(* Proofs about MatrixUpdate, for any number of threads that run jobs, of  *)
(* job identifiers and of control requests, and whatever DNS answers.      *)
(***************************************************************************)
EXTENDS MatrixUpdate, SequenceTheorems, FiniteSetTheorems, TLAPS

Places == {"idle", "dns", "update", "arm", "retry", "arm_retry", "unref", "disable"}

(* A thread at p counts as a running job, or as one that is arming.        *)
RunsAt(t, p) == IF t \in Runners /\ p # "idle" THEN 1 ELSE 0
ArmsAt(p) == IF p \in {"arm", "arm_retry"} THEN 1 ELSE 0

Moves(t, from, to) == pc[t] = from /\ pc' = [pc EXCEPT ![t] = to]

(* The job that the timer is about to start is queued, and no cancellation *)
(* is served until it has been started; the one it is cancelling is queued *)
(* and heads the list of cancellations.                                    *)
TimerInv ==
  /\ due # NoJob => due \in pending
  /\ jobmut = "timer" => due = NoJob /\ cancels # <<>> /\ Head(cancels) \in pending

(* The inductive invariant.                                                *)
MatrixInv == TypeOK /\ TimerInv /\ RefcountExact /\ UpdateAhead

-----------------------------------------------------------------------------
(* How the numbers of running and arming threads change when one moves.    *)
LEMMA MoveCounts ==
  ASSUME TypeOK, NEW t \in Threads, NEW from, NEW to \in Places, Moves(t, from, to)
  PROVE  /\ pc' \in [Threads -> Places]
         /\ Cardinality(Running) \in Nat /\ Cardinality(Arming) \in Nat
         /\ Cardinality(Running') = Cardinality(Running) + RunsAt(t, to) - RunsAt(t, from)
         /\ Cardinality(Arming') = Cardinality(Arming) + ArmsAt(to) - ArmsAt(from)
<1>1. pc \in [Threads -> Places] /\ pc' \in [Threads -> Places]
  BY DEF TypeOK, Places, Moves
<1>2. /\ pc[t] = from /\ pc'[t] = to
      /\ \A x \in Threads : x # t => pc'[x] = pc[x]
  BY <1>1 DEF Moves
<1>3. IsFiniteSet(Threads)
  BY MatrixAssumption, FS_AddElement DEF Threads
<1>4. /\ IsFiniteSet(Running) /\ Cardinality(Running) \in Nat
      /\ IsFiniteSet(Arming) /\ Cardinality(Arming) \in Nat
  BY <1>3, MatrixAssumption, FS_Subset, FS_CardinalityType DEF Running, Arming
<1>5. Cardinality(Running') = Cardinality(Running) + RunsAt(t, to) - RunsAt(t, from)
  <2>1. t \in Running <=> t \in Runners /\ from # "idle"
    BY <1>2 DEF Running
  <2>2. CASE t \in Runners /\ to # "idle"
    <3>1. Running' = Running \cup {t}
      BY <1>2, <2>2 DEF Running, Threads
    <3>2. Cardinality(Running \cup {t}) = IF t \in Running THEN Cardinality(Running)
                                           ELSE Cardinality(Running) + 1
      BY <1>4, FS_AddElement
    <3> QED
      BY <1>4, <2>1, <2>2, <3>1, <3>2 DEF RunsAt
  <2>3. CASE ~(t \in Runners /\ to # "idle")
    <3>1. Running' = Running \ {t}
      BY <1>2, <2>3 DEF Running, Threads
    <3>2. Cardinality(Running \ {t}) = IF t \in Running THEN Cardinality(Running) - 1
                                       ELSE Cardinality(Running)
      BY <1>4, FS_RemoveElement
    <3> QED
      BY <1>4, <2>1, <2>3, <3>1, <3>2 DEF RunsAt
  <2> QED
    BY <2>2, <2>3
<1>6. Cardinality(Arming') = Cardinality(Arming) + ArmsAt(to) - ArmsAt(from)
  <2>1. t \in Arming <=> from \in {"arm", "arm_retry"}
    BY <1>2 DEF Arming
  <2>2. CASE to \in {"arm", "arm_retry"}
    <3>1. Arming' = Arming \cup {t}
      BY <1>2, <2>2 DEF Arming
    <3>2. Cardinality(Arming \cup {t}) = IF t \in Arming THEN Cardinality(Arming)
                                          ELSE Cardinality(Arming) + 1
      BY <1>4, FS_AddElement
    <3> QED
      BY <1>4, <2>1, <2>2, <3>1, <3>2 DEF ArmsAt
  <2>3. CASE to \notin {"arm", "arm_retry"}
    <3>1. Arming' = Arming \ {t}
      BY <1>2, <2>3 DEF Arming
    <3>2. Cardinality(Arming \ {t}) = IF t \in Arming THEN Cardinality(Arming) - 1
                                      ELSE Cardinality(Arming)
      BY <1>4, FS_RemoveElement
    <3> QED
      BY <1>4, <2>1, <2>3, <3>1, <3>2 DEF ArmsAt
  <2> QED
    BY <2>2, <2>3
<1> QED
  BY <1>1, <1>4, <1>5, <1>6

(* The number of queued jobs.                                              *)
LEMMA PendingCounts ==
  ASSUME TypeOK, NEW id \in 0 .. MaxId
  PROVE  /\ Cardinality(pending) \in Nat
         /\ id \notin pending => Cardinality(pending \cup {id}) = Cardinality(pending) + 1
         /\ id \in pending => /\ Cardinality(pending \ {id}) = Cardinality(pending) - 1
                              /\ Cardinality(pending) > 0
<1>1. IsFiniteSet(pending)
  <2>1. IsFiniteSet(0 .. MaxId)
    BY MatrixAssumption, FS_Interval
  <2> QED
    BY <2>1, FS_Subset DEF TypeOK
<1>2. Cardinality(pending) \in Nat
  BY <1>1, FS_CardinalityType
<1>3. id \in pending => Cardinality(pending) > 0
  BY <1>1, <1>2, FS_EmptySet
<1> QED
  BY <1>1, <1>2, <1>3, FS_AddElement, FS_RemoveElement

(* What the reference count must do for RefcountExact, when a thread moves *)
(* and jobs more jobs are queued.                                          *)
LEMMA RefcountMoves ==
  ASSUME MatrixInv, NEW t \in Threads, NEW from, NEW to \in Places, Moves(t, from, to),
         NEW jobs \in Int, Cardinality(pending') = Cardinality(pending) + jobs,
         refcount' = refcount + jobs + RunsAt(t, to) - RunsAt(t, from) + ArmsAt(to) - ArmsAt(from)
  PROVE  RefcountExact'
<1>1. Cardinality(pending) \in Nat
  BY PendingCounts, MatrixAssumption DEF MatrixInv, TypeOK
<1>2. /\ RunsAt(t, to) \in Nat /\ RunsAt(t, from) \in Nat
      /\ ArmsAt(to) \in Nat /\ ArmsAt(from) \in Nat
  BY DEF RunsAt, ArmsAt
<1>3. /\ Cardinality(Running) \in Nat /\ Cardinality(Arming) \in Nat
      /\ Cardinality(Running') = Cardinality(Running) + RunsAt(t, to) - RunsAt(t, from)
      /\ Cardinality(Arming') = Cardinality(Arming) + ArmsAt(to) - ArmsAt(from)
  BY MoveCounts DEF MatrixInv
<1>4. refcount = 1 + Cardinality(pending) + Cardinality(Running) + Cardinality(Arming)
  BY DEF MatrixInv, RefcountExact
<1>5. refcount' = 1 + Cardinality(pending') + Cardinality(Running') + Cardinality(Arming')
  BY <1>1, <1>2, <1>3, <1>4
<1> QED
  BY <1>5 DEF RefcountExact

(* A new identifier is that of no job that is queued or being cancelled.   *)
LEMMA NewIdFresh ==
  ASSUME NEW id \in NewIds
  PROVE  id \in 0 .. MaxId /\ id \notin pending /\ id \notin ToSet(cancels)
  BY DEF NewIds, Used

-----------------------------------------------------------------------------
(* backend_matrix_init counts the table's reference and the first job's.   *)
LEMMA InitMatrix == Init => MatrixInv
<1> SUFFICES ASSUME Init PROVE MatrixInv
  OBVIOUS
<1>1. pc = [t \in Threads |-> "idle"] /\ Running = {} /\ Arming = {}
  BY DEF Init, Running, Arming, Threads
<1>2. TypeOK
  <2>1. pending \subseteq 0 .. MaxId /\ jid \in 0 .. MaxId /\ due \in 0 .. NoJob
    BY MatrixAssumption DEF Init, NoJob
  <2>2. admin \in 0 .. MaxAdmin /\ cancels \in Seq(0 .. MaxId)
    BY MatrixAssumption DEF Init
  <2>3. pc \in [Threads -> {"idle", "dns", "update", "arm", "retry", "arm_retry",
                            "unref", "disable"}]
    BY <1>1
  <2>4. disabled \in BOOLEAN /\ failed \in BOOLEAN
    BY Zenon DEF Init
  <2>5. refcount \in Nat \ {0} /\ mtxmut \in Threads \cup {Free} /\ jobmut \in {Free, "timer"}
    BY DEF Init
  <2> QED
    BY <2>1, <2>2, <2>3, <2>4, <2>5, Zenon DEF TypeOK
<1>3. TimerInv /\ UpdateAhead
  BY DEF Init, TimerInv, UpdateAhead, Free, ToSet
<1>4. RefcountExact
  <2>1. Cardinality(pending) = 1
    BY FS_Singleton DEF Init
  <2> QED
    BY <1>1, <2>1, FS_EmptySet DEF Init, RefcountExact
<1> QED
  BY <1>2, <1>3, <1>4 DEF MatrixInv

(* Moves of a thread that is looking up, updating or arming.               *)
LEMMA StepMatrix ==
  ASSUME MatrixInv, NEW t \in Threads, Step(t)
  PROVE  MatrixInv'
<1> USE DEF MatrixInv
<1>1. Finish(t) \in {"idle", "unref"} /\ (t \in Runners => Finish(t) = "unref")
  BY MatrixAssumption DEF Finish
<1>2. refcount \in Nat /\ Cardinality(pending) \in Nat
  BY PendingCounts, MatrixAssumption DEF TypeOK
<1>3. CASE Lookup(t)
  <2>1. PICK to \in {"update", "retry", Finish(t)} :
          /\ Moves(t, "dns", to)
          /\ to = Finish(t) => failed'
          /\ failed' \in BOOLEAN /\ (failed => failed')
    <3>1. PICK o \in Outcomes : /\ At(t, "dns", CASE o = "found" -> "update"
                                                  [] o = "temp_failure" -> "retry"
                                                  [] o = "failure" -> Finish(t))
                                /\ failed' = (failed \/ o = "failure")
      BY <1>3 DEF Lookup
    <3>2. o \in {"found", "temp_failure", "failure"}
      BY MatrixAssumption
    <3> QED
      BY <1>1, <3>1, <3>2 DEF At, Moves, TypeOK
  <2>2. UNCHANGED <<disabled, jid, refcount, pending, cancels, mtxmut, jobmut, due, admin>>
    BY <1>3 DEF Lookup
  <2>3. to \in Places
    BY <1>1, <2>1 DEF Places
  <2>4. TypeOK' /\ TimerInv'
    BY <2>1, <2>2, <2>3, MoveCounts DEF TypeOK, TimerInv, Places
  <2>5. RefcountExact'
    <3>1. RunsAt(t, to) = RunsAt(t, "dns") /\ ArmsAt(to) = 0 /\ ArmsAt("dns") = 0
      BY <1>1, <2>1 DEF RunsAt, ArmsAt
    <3>2. RunsAt(t, to) \in Nat
      BY DEF RunsAt
    <3> QED
      BY <1>2, <2>1, <2>2, <2>3, <3>1, <3>2, RefcountMoves
  <2>6. UpdateAhead'
    BY <2>1, <2>2, <2>3 DEF UpdateAhead, TypeOK, Moves
  <2> QED
    BY <2>4, <2>5, <2>6
<1>4. CASE LockMatrix(t)
  <2>1. CASE disabled
    <3>1. /\ Moves(t, "update", Finish(t))
          /\ UNCHANGED <<failed, refcount, mtxmut, disabled, jid, pending, cancels, jobmut, due, admin>>
      BY <1>4, <2>1 DEF LockMatrix, At, Moves
    <3>2. Finish(t) \in Places
      BY <1>1 DEF Places
    <3>3. TypeOK' /\ TimerInv'
      BY <3>1, <3>2, MoveCounts DEF TypeOK, TimerInv, Places
    <3>4. RefcountExact'
      <4>1. RunsAt(t, Finish(t)) = RunsAt(t, "update")
        BY <1>1 DEF RunsAt
      <4>2. ArmsAt(Finish(t)) = 0 /\ ArmsAt("update") = 0 /\ RunsAt(t, "update") \in Nat
        BY <1>1 DEF RunsAt, ArmsAt
      <4> QED
        BY <1>2, <3>1, <3>2, <4>1, <4>2, RefcountMoves
    <3>5. UpdateAhead'
      BY <2>1, <3>1 DEF UpdateAhead, Moves
    <3> QED
      BY <3>3, <3>4, <3>5
  <2>2. CASE ~disabled
    <3>1. /\ Moves(t, "update", "arm")
          /\ refcount' = refcount + 1 /\ mtxmut' = t
          /\ UNCHANGED <<failed, disabled, jid, pending, cancels, jobmut, due, admin>>
      BY <1>4, <2>2 DEF LockMatrix, At, Moves
    <3>2. "arm" \in Places
      BY DEF Places
    <3>3. TypeOK' /\ TimerInv'
      BY <1>2, <3>1, <3>2, MoveCounts DEF TypeOK, TimerInv, Places
    <3>4. RefcountExact'
      <4>1. RunsAt(t, "arm") = RunsAt(t, "update") /\ RunsAt(t, "update") \in Nat
        BY DEF RunsAt
      <4>2. ArmsAt("arm") = 1 /\ ArmsAt("update") = 0
        BY DEF ArmsAt
      <4> QED
        BY <1>2, <3>1, <3>2, <4>1, <4>2, RefcountMoves
    <3>5. UpdateAhead'
      BY <3>1 DEF UpdateAhead, TypeOK, Moves
    <3> QED
      BY <3>3, <3>4, <3>5
  <2> QED
    BY <2>1, <2>2
<1>5. CASE ArmNext(t) \/ ArmRetry(t)
  <2>1. PICK from \in {"arm", "arm_retry"} : Moves(t, from, Finish(t))
    BY <1>5 DEF ArmNext, ArmRetry, At, Moves
  <2>2. PICK id \in NewIds : pending' = pending \cup {id} /\ (jid' = id \/ jid' = jid)
    BY <1>5 DEF ArmNext, ArmRetry
  <2>3. /\ jobmut = Free /\ (mtxmut' = Free \/ mtxmut' = mtxmut)
        /\ UNCHANGED <<failed, disabled, refcount, cancels, jobmut, due, admin>>
    BY <1>5 DEF ArmNext, ArmRetry
  <2>4. id \in 0 .. MaxId /\ id \notin pending /\ id \notin ToSet(cancels)
    BY NewIdFresh
  <2>5. Finish(t) \in Places
    BY <1>1 DEF Places
  <2>6. TypeOK'
    BY <2>1, <2>2, <2>3, <2>4, <2>5, MoveCounts DEF TypeOK, Places
  <2>7. TimerInv'
    BY <2>2, <2>3 DEF TimerInv, Free
  <2>8. RefcountExact'
    <3>1. RunsAt(t, Finish(t)) = RunsAt(t, from) /\ RunsAt(t, from) \in Nat
      BY <1>1 DEF RunsAt
    <3>2. ArmsAt(Finish(t)) = 0 /\ ArmsAt(from) = 1
      BY <1>1 DEF ArmsAt
    <3>3. Cardinality(pending') = Cardinality(pending) + 1 /\ Cardinality(pending) \in Nat
      BY <2>2, <2>4, PendingCounts
    <3> QED
      BY <1>2, <2>1, <2>3, <2>5, <3>1, <3>2, <3>3, RefcountMoves
  <2>9. UpdateAhead'
    BY <2>2, <2>3, <2>4 DEF UpdateAhead
  <2> QED
    BY <2>6, <2>7, <2>8, <2>9
<1>6. CASE RetryTakesRef(t)
  <2>1. /\ Moves(t, "retry", "arm_retry")
        /\ refcount' = refcount + 1
        /\ UNCHANGED <<failed, disabled, jid, pending, cancels, mtxmut, jobmut, due, admin>>
    BY <1>6 DEF RetryTakesRef, At, Moves
  <2>2. "arm_retry" \in Places
    BY DEF Places
  <2>3. TypeOK' /\ TimerInv'
    BY <1>2, <2>1, <2>2, MoveCounts DEF TypeOK, TimerInv, Places
  <2>4. RefcountExact'
    <3>1. RunsAt(t, "arm_retry") = RunsAt(t, "retry") /\ RunsAt(t, "retry") \in Nat
      BY DEF RunsAt
    <3>2. ArmsAt("arm_retry") = 1 /\ ArmsAt("retry") = 0
      BY DEF ArmsAt
    <3> QED
      BY <1>2, <2>1, <2>2, <3>1, <3>2, RefcountMoves
  <2>5. UpdateAhead'
    BY <2>1 DEF UpdateAhead, TypeOK, Moves
  <2> QED
    BY <2>3, <2>4, <2>5
<1> QED
  BY <1>3, <1>4, <1>5, <1>6 DEF Step

-----------------------------------------------------------------------------
(* The timer thread starts a job.                                          *)
LEMMA StartJobMatrix ==
  ASSUME MatrixInv, NEW t \in Runners, StartJob(t)
  PROVE  MatrixInv'
<1>1. /\ due # NoJob /\ pending' = pending \ {due} /\ due' = NoJob /\ jobmut = Free
      /\ Moves(t, "idle", "dns")
      /\ UNCHANGED <<failed, disabled, jid, refcount, cancels, mtxmut, jobmut, admin>>
  BY DEF StartJob, At, Moves
<1>2. t \in Threads /\ "dns" \in Places
  BY DEF Threads, Places
<1>3. due \in pending /\ due \in 0 .. MaxId /\ refcount \in Nat
  BY <1>1 DEF MatrixInv, TimerInv, TypeOK
<1>4. TypeOK'
  BY <1>1, <1>2, MoveCounts, MatrixAssumption DEF MatrixInv, TypeOK, Places, NoJob
<1>5. TimerInv'
  BY <1>1 DEF TimerInv, Free
<1>6. RefcountExact'
  <2>1. RunsAt(t, "dns") = 1 /\ RunsAt(t, "idle") = 0 /\ ArmsAt("dns") = 0 /\ ArmsAt("idle") = 0
    BY DEF RunsAt, ArmsAt
  <2>2. Cardinality(pending') = Cardinality(pending) + (-1)
    BY <1>1, <1>3, PendingCounts DEF MatrixInv
  <2> QED
    BY <1>1, <1>2, <1>3, <2>1, <2>2, RefcountMoves
<1>7. UpdateAhead'
  BY <1>1, <1>2 DEF MatrixInv, UpdateAhead, TypeOK, Moves
<1> QED
  BY <1>4, <1>5, <1>6, <1>7 DEF MatrixInv

(* job_resolver ends.                                                      *)
LEMMA UnreferenceMatrix ==
  ASSUME MatrixInv, NEW t \in Runners, Unreference(t)
  PROVE  MatrixInv'
<1>1. /\ refcount' = refcount - 1 /\ Moves(t, "unref", "idle")
      /\ UNCHANGED <<failed, disabled, jid, pending, cancels, mtxmut, jobmut, due, admin>>
  BY DEF Unreference, Unref, At, Moves
<1>2. t \in Threads /\ "idle" \in Places
  BY DEF Threads, Places
<1>3. /\ refcount \in Nat /\ Cardinality(pending) \in Nat
      /\ Cardinality(Running) \in Nat /\ Cardinality(Arming) \in Nat
      /\ Cardinality(Running') = Cardinality(Running) + RunsAt(t, "idle") - RunsAt(t, "unref")
      /\ Cardinality(Running') \in Nat
  <2>1. Cardinality(Running') \in Nat
    BY MatrixAssumption, FS_Subset, FS_CardinalityType DEF Running
  <2> QED
    BY <1>1, <1>2, <2>1, MoveCounts, PendingCounts, MatrixAssumption DEF MatrixInv, TypeOK
<1>4. RunsAt(t, "idle") = 0 /\ RunsAt(t, "unref") = 1 /\ ArmsAt("idle") = 0 /\ ArmsAt("unref") = 0
  BY DEF RunsAt, ArmsAt
<1>5. refcount > 1
  BY <1>3, <1>4 DEF MatrixInv, RefcountExact
<1>6. TypeOK' /\ TimerInv'
  BY <1>1, <1>2, <1>3, <1>5, MoveCounts DEF MatrixInv, TypeOK, TimerInv, Places
<1>7. RefcountExact'
  BY <1>1, <1>2, <1>3, <1>4, RefcountMoves
<1>8. UpdateAhead'
  BY <1>1, <1>2 DEF MatrixInv, UpdateAhead, TypeOK, Moves
<1> QED
  BY <1>6, <1>7, <1>8 DEF MatrixInv

(* No thread moves: running and arming threads are the same.               *)
LEMMA NobodyMoves ==
  ASSUME pc' = pc
  PROVE  Running' = Running /\ Arming' = Arming
  BY DEF Running, Arming

(* The time of a job comes.                                                *)
LEMMA JobDueMatrix ==
  ASSUME MatrixInv, JobDue
  PROVE  MatrixInv'
<1>1. /\ due' \in pending /\ cancels = <<>>
      /\ UNCHANGED <<failed, disabled, jid, refcount, pending, cancels, pc, mtxmut, jobmut, admin>>
  BY DEF JobDue
<1>2. TypeOK'
  BY <1>1, MatrixAssumption DEF MatrixInv, TypeOK, NoJob
<1>3. TimerInv'
  BY <1>1 DEF MatrixInv, TimerInv
<1>4. RefcountExact'
  BY <1>1, NobodyMoves DEF MatrixInv, RefcountExact
<1>5. UpdateAhead'
  BY <1>1 DEF MatrixInv, UpdateAhead
<1> QED
  BY <1>2, <1>3, <1>4, <1>5 DEF MatrixInv

(* What is left of the list of cancellations when the first is served.     *)
LEMMA CancelsShrink ==
  ASSUME TypeOK, cancels # <<>>
  PROVE  /\ Head(cancels) \in 0 .. MaxId /\ Tail(cancels) \in Seq(0 .. MaxId)
         /\ ToSet(Tail(cancels)) \subseteq ToSet(cancels)
         /\ Head(cancels) \in ToSet(cancels)
<1>1. cancels \in Seq(0 .. MaxId)
  BY DEF TypeOK
<1>2. /\ Head(cancels) \in 0 .. MaxId /\ Tail(cancels) \in Seq(0 .. MaxId)
      /\ Len(Tail(cancels)) = Len(cancels) - 1
      /\ \A i \in 1 .. Len(Tail(cancels)) : Tail(cancels)[i] = cancels[i+1]
  BY <1>1, HeadTailProperties
<1>3. Len(cancels) \in Nat /\ Len(cancels) > 0 /\ Head(cancels) = cancels[1]
  BY <1>1
<1>4. DOMAIN cancels = 1 .. Len(cancels) /\ DOMAIN Tail(cancels) = 1 .. Len(Tail(cancels))
  BY <1>1, <1>2
<1> QED
  BY <1>1, <1>2, <1>3, <1>4 DEF ToSet

(* The timer takes a cancellation from the list.                           *)
LEMMA TakeCancelMatrix ==
  ASSUME MatrixInv, TakeCancel
  PROVE  MatrixInv'
<1>1. /\ cancels # <<>> /\ due = NoJob /\ jobmut = Free
      /\ \/ Head(cancels) \in pending /\ jobmut' = "timer" /\ cancels' = cancels
         \/ cancels' = Tail(cancels) /\ jobmut' = Free
      /\ UNCHANGED <<failed, disabled, jid, refcount, pending, pc, mtxmut, due, admin>>
  BY DEF TakeCancel
<1>2. /\ Tail(cancels) \in Seq(0 .. MaxId) /\ ToSet(Tail(cancels)) \subseteq ToSet(cancels)
  BY <1>1, CancelsShrink DEF MatrixInv
<1>3. TypeOK' /\ TimerInv'
  BY <1>1, <1>2 DEF MatrixInv, TypeOK, TimerInv, Free
<1>4. RefcountExact'
  BY <1>1, NobodyMoves DEF MatrixInv, RefcountExact
<1>5. ToSet(cancels') \subseteq ToSet(cancels)
  BY <1>1, <1>2
<1>6. UpdateAhead'
  BY <1>1, <1>5 DEF MatrixInv, UpdateAhead
<1> QED
  BY <1>3, <1>4, <1>6 DEF MatrixInv

(* The reference of the cancelled job is dropped.                          *)
LEMMA CancelJobMatrix ==
  ASSUME MatrixInv, CancelJob
  PROVE  MatrixInv'
<1>1. /\ jobmut = "timer" /\ refcount' = refcount - 1 /\ jobmut' = Free
      /\ pending' = pending \ {Head(cancels)} /\ cancels' = Tail(cancels)
      /\ UNCHANGED <<failed, disabled, jid, pc, mtxmut, due, admin>>
  BY DEF CancelJob, Unref
<1>2. due = NoJob /\ cancels # <<>> /\ Head(cancels) \in pending
  BY <1>1 DEF MatrixInv, TimerInv
<1>3. /\ Tail(cancels) \in Seq(0 .. MaxId) /\ ToSet(Tail(cancels)) \subseteq ToSet(cancels)
      /\ Head(cancels) \in 0 .. MaxId /\ Head(cancels) \in ToSet(cancels)
  BY <1>2, CancelsShrink DEF MatrixInv
<1>4. /\ Cardinality(pending') = Cardinality(pending) - 1
      /\ Cardinality(pending) \in Nat /\ Cardinality(pending) > 0
  BY <1>1, <1>2, <1>3, PendingCounts DEF MatrixInv
<1>5. Cardinality(Running) \in Nat /\ Cardinality(Arming) \in Nat
  <2>1. IsFiniteSet(Threads)
    BY MatrixAssumption, FS_AddElement DEF Threads
  <2> QED
    BY <2>1, MatrixAssumption, FS_Subset, FS_CardinalityType DEF Running, Arming
<1>6. RefcountExact' /\ refcount > 1
  BY <1>1, <1>4, <1>5, NobodyMoves DEF MatrixInv, RefcountExact
<1>7. TypeOK'
  <2>1. refcount' \in Nat \ {0}
    BY <1>1, <1>6 DEF MatrixInv, TypeOK
  <2> QED
    BY <1>1, <1>3, <2>1 DEF MatrixInv, TypeOK
<1>8. TimerInv'
  BY <1>1, <1>2 DEF TimerInv, Free
<1>9. UpdateAhead'
  <2>1. NoJob \notin pending
    BY MatrixAssumption DEF MatrixInv, TypeOK, NoJob
  <2> QED
    BY <1>1, <1>2, <1>3, <2>1 DEF MatrixInv, UpdateAhead
<1> QED
  BY <1>6, <1>7, <1>8, <1>9 DEF MatrixInv

-----------------------------------------------------------------------------
(* Control requests.                                                       *)
LEMMA AdminMatrix ==
  ASSUME MatrixInv, Disable \/ SetDisabled \/ Enable
  PROVE  MatrixInv'
<1>1. PICK from \in {"idle", "disable"}, to \in {"idle", "disable", "dns"} :
        Moves("ctl", from, to) /\ (to = "idle" => disabled')
  BY DEF Disable, SetDisabled, Enable, At, Moves
<1>2. /\ cancels' = cancels \/ (cancels' = Append(cancels, jid) /\ jobmut = Free)
      /\ admin' = admin \/ (admin < MaxAdmin /\ admin' = admin + 1)
      /\ UNCHANGED <<failed, jid, refcount, pending, mtxmut, jobmut, due>>
  <2>1. CASE Disable
    BY <2>1 DEF Disable
  <2>2. CASE SetDisabled
    BY <2>2 DEF SetDisabled
  <2>3. CASE Enable
    BY <2>3 DEF Enable
  <2> QED
    BY <2>1, <2>2, <2>3
<1>3. "ctl" \in Threads /\ to \in Places
  BY DEF Threads, Places
<1>4. /\ cancels' \in Seq(0 .. MaxId) /\ disabled' \in BOOLEAN /\ admin' \in 0 .. MaxAdmin
  <2>1. cancels \in Seq(0 .. MaxId) /\ jid \in 0 .. MaxId /\ admin \in 0 .. MaxAdmin
    BY DEF MatrixInv, TypeOK
  <2>2. disabled' \in BOOLEAN
    BY Zenon DEF Disable, SetDisabled, Enable, MatrixInv, TypeOK
  <2>3. admin' \in 0 .. MaxAdmin
    BY <1>2, <2>1, MatrixAssumption
  <2>4. Append(cancels, jid) \in Seq(0 .. MaxId)
    BY <2>1, AppendProperties
  <2> QED
    BY <1>2, <2>1, <2>2, <2>3, <2>4
<1>5. TypeOK' /\ TimerInv'
  BY <1>1, <1>2, <1>3, <1>4, MoveCounts DEF MatrixInv, TypeOK, TimerInv, Places, Free
<1>6. RefcountExact'
  <2>1. /\ RunsAt("ctl", from) = 0 /\ RunsAt("ctl", to) = 0
        /\ ArmsAt(from) = 0 /\ ArmsAt(to) = 0
    BY MatrixAssumption DEF RunsAt, ArmsAt
  <2>2. refcount \in Nat /\ Cardinality(pending) \in Nat
    BY PendingCounts, MatrixAssumption DEF MatrixInv, TypeOK
  <2> QED
    BY <1>1, <1>2, <1>3, <2>1, <2>2, RefcountMoves
<1>7. pc'["ctl"] = to
  BY <1>1, <1>3 DEF MatrixInv, TypeOK, Moves
<1>8. UpdateAhead'
  BY <1>1, <1>3, <1>7 DEF UpdateAhead
<1> QED
  BY <1>5, <1>6, <1>8 DEF MatrixInv

-----------------------------------------------------------------------------
(* No step breaks the invariant.                                           *)
LEMMA NextMatrix == MatrixInv /\ [Next]_vars => MatrixInv'
<1> SUFFICES ASSUME MatrixInv, [Next]_vars PROVE MatrixInv'
  OBVIOUS
<1>1. CASE UNCHANGED vars
  BY <1>1, NobodyMoves DEF vars, MatrixInv, TypeOK, TimerInv, RefcountExact, UpdateAhead
<1>2. CASE Next
  BY <1>2, StepMatrix, StartJobMatrix, UnreferenceMatrix, JobDueMatrix, TakeCancelMatrix,
     CancelJobMatrix, AdminMatrix DEF Next
<1> QED
  BY <1>1, <1>2

(* The invariant holds in every reachable state.                           *)
THEOREM MatrixCorrect == Spec => []MatrixInv
  BY InitMatrix, NextMatrix, PTL DEF Spec

(* Whatever the interleaving of updates, retries, cancellations and        *)
(* control requests, the matrix has one reference for the table, one for   *)
(* each job that is queued or runs and one for each that is being armed.   *)
THEOREM MatrixReferences == Spec => []RefcountExact
<1>1. MatrixInv => RefcountExact
  BY DEF MatrixInv
<1> QED
  BY <1>1, MatrixCorrect, PTL

(* Unless a lookup has failed for good, an enabled matrix always has an    *)
(* update ahead of it.                                                     *)
THEOREM ChainUnbroken == Spec => []UpdateAhead
<1>1. MatrixInv => UpdateAhead
  BY DEF MatrixInv
<1> QED
  BY <1>1, MatrixCorrect, PTL
=============================================================================
