--------------------------- MODULE JobTimerProofs ---------------------------
(***************************************************************************)
(* Proofs about JobTimer, for any number of jobs and cancellations and any *)
(* length of time.                                                         *)
(***************************************************************************)
EXTENDS JobTimer, SequenceTheorems, TLAPS

IdsOf(q) == {q[i].id : i \in DOMAIN q}

(* The order of the queue: by time, and by age among jobs of the same      *)
(* time; no identifier occurs twice.                                       *)
Before(a, b) == a.ts < b.ts \/ (a.ts = b.ts /\ a.id < b.id)
Ordered(q) == \A i, k \in DOMAIN q : i < k => Before(q[i], q[k])
Distinct(q) == \A i, k \in DOMAIN q : i # k => q[i].id # q[k].id

(* r is q with e inserted at p, or without the element at p.               *)
Inserted(q, p, e, r) ==
  /\ Len(r) = Len(q) + 1
  /\ \A i \in 1 .. Len(r) : r[i] = IF i < p THEN q[i] ELSE IF i = p THEN e ELSE q[i - 1]
Removed(q, p, r) ==
  /\ Len(r) = Len(q) - 1
  /\ \A i \in 1 .. Len(r) : r[i] = IF i < p THEN q[i] ELSE q[i + 1]

-----------------------------------------------------------------------------
(* What InsertAt, RemoveAt and Tail do.                                    *)
LEMMA InsertAtEffect ==
  ASSUME NEW S, NEW q \in Seq(S), NEW e \in S, NEW p \in 1 .. Len(q) + 1
  PROVE  InsertAt(q, p, e) \in Seq(S) /\ Inserted(q, p, e, InsertAt(q, p, e))
<1> DEFINE a == SubSeq(q, 1, p - 1)
           b == SubSeq(q, p, Len(q))
<1>1. Len(q) \in Nat /\ p \in Int /\ \A i \in 1 .. Len(q) : q[i] \in S
  BY ElementOfSeq, LenProperties
<1>2. /\ a \in Seq(S) /\ Len(a) = p - 1
      /\ \A i \in 1 .. p - 1 : a[i] = q[i]
  BY <1>1, SubSeqProperties
<1>3. /\ b \in Seq(S) /\ Len(b) = Len(q) - p + 1
      /\ \A i \in 1 .. Len(q) - p + 1 : b[i] = q[p + i - 1]
  BY <1>1, SubSeqProperties
<1> HIDE DEF a, b
<1>4. <<e>> \in Seq(S) /\ Len(<<e>>) = 1 /\ <<e>>[1] = e
  OBVIOUS
<1>5. /\ a \o <<e>> \in Seq(S) /\ Len(a \o <<e>>) = p
      /\ \A i \in 1 .. p : (a \o <<e>>)[i] = IF i =< p - 1 THEN q[i] ELSE e
  BY <1>1, <1>2, <1>4, ConcatProperties
<1> DEFINE c == a \o <<e>>
<1> HIDE DEF c
<1>6. c \in Seq(S) /\ Len(c) = p /\ \A i \in 1 .. p : c[i] = IF i =< p - 1 THEN q[i] ELSE e
  BY <1>5 DEF c
<1>7. /\ c \o b \in Seq(S) /\ Len(c \o b) = Len(q) + 1
      /\ \A i \in 1 .. Len(q) + 1 : (c \o b)[i] = IF i =< p THEN c[i] ELSE b[i - p]
  BY <1>1, <1>3, <1>6, ConcatProperties
<1>8. Inserted(q, p, e, c \o b)
  BY <1>1, <1>3, <1>6, <1>7 DEF Inserted
<1>9. InsertAt(q, p, e) = c \o b
  BY DEF InsertAt, a, b, c
<1> QED
  BY <1>7, <1>8, <1>9

(* Taking an element out of the middle.                                    *)
LEMMA RemoveAtEffect ==
  ASSUME NEW S, NEW q \in Seq(S), NEW p \in 1 .. Len(q)
  PROVE  RemoveAt(q, p) \in Seq(S) /\ Removed(q, p, RemoveAt(q, p))
<1> DEFINE a == SubSeq(q, 1, p - 1)
           b == SubSeq(q, p + 1, Len(q))
<1>1. Len(q) \in Nat /\ p \in Int /\ \A i \in 1 .. Len(q) : q[i] \in S
  BY ElementOfSeq, LenProperties
<1>2. /\ a \in Seq(S) /\ Len(a) = p - 1
      /\ \A i \in 1 .. p - 1 : a[i] = q[i]
  BY <1>1, SubSeqProperties
<1>3. /\ b \in Seq(S) /\ Len(b) = Len(q) - p
      /\ \A i \in 1 .. Len(q) - p : b[i] = q[p + i]
  BY <1>1, SubSeqProperties
<1> HIDE DEF a, b
<1>4. /\ a \o b \in Seq(S) /\ Len(a \o b) = Len(q) - 1
      /\ \A i \in 1 .. Len(q) - 1 : (a \o b)[i] = IF i =< p - 1 THEN a[i] ELSE b[i - (p - 1)]
  BY <1>1, <1>2, <1>3, ConcatProperties
<1>5. Removed(q, p, a \o b)
  BY <1>1, <1>2, <1>3, <1>4 DEF Removed
<1>6. RemoveAt(q, p) = a \o b
  BY DEF RemoveAt, a, b
<1> QED
  BY <1>4, <1>5, <1>6

(* Taking the first element.                                               *)
LEMMA TailEffect ==
  ASSUME NEW S, NEW q \in Seq(S), q # <<>>
  PROVE  /\ Tail(q) \in Seq(S) /\ Removed(q, 1, Tail(q))
         /\ 1 \in 1 .. Len(q) /\ Head(q) = q[1]
<1>1. /\ Tail(q) \in Seq(S) /\ Len(Tail(q)) = Len(q) - 1
      /\ \A i \in 1 .. Len(Tail(q)) : Tail(q)[i] = q[i + 1]
  BY HeadTailProperties
<1>2. Len(q) \in Nat /\ Len(q) > 0 /\ Head(q) = q[1]
  OBVIOUS
<1> QED
  BY <1>1, <1>2 DEF Removed

(* Taking a job out keeps the queue in order, and takes its identifier.    *)
LEMMA RemovedKeeps ==
  ASSUME NEW S, NEW q \in Seq(S), NEW r \in Seq(S), NEW p \in 1 .. Len(q),
         Removed(q, p, r), Distinct(q)
  PROVE  /\ Ordered(q) => Ordered(r)
         /\ Distinct(r)
         /\ IdsOf(r) = IdsOf(q) \ {q[p].id}
         /\ ToSet(r) = {x \in ToSet(q) : x.id # q[p].id}
<1> DEFINE from(i) == IF i < p THEN i ELSE i + 1
<1>1. /\ Len(q) \in Nat /\ Len(r) = Len(q) - 1
      /\ DOMAIN q = 1 .. Len(q) /\ DOMAIN r = 1 .. Len(q) - 1
  BY LenProperties DEF Removed
<1>2. \A i \in DOMAIN r : from(i) \in DOMAIN q /\ r[i] = q[from(i)] /\ from(i) # p
  BY <1>1 DEF Removed
<1>3. \A i, k \in DOMAIN r : (i < k => from(i) < from(k)) /\ (i # k => from(i) # from(k))
  BY <1>1
<1>4. \A j \in DOMAIN q : j # p => \E i \in DOMAIN r : j = from(i)
  <2> SUFFICES ASSUME NEW j \in DOMAIN q, j # p PROVE \E i \in DOMAIN r : j = from(i)
    OBVIOUS
  <2>1. CASE j < p
    BY <1>1, <2>1
  <2>2. CASE j > p
    <3>1. j - 1 \in DOMAIN r /\ j = from(j - 1)
      BY <1>1, <2>2
    <3> QED
      BY <3>1
  <2> QED
    BY <1>1, <2>1, <2>2
<1> HIDE DEF from
<1>5. Distinct(r)
  BY <1>2, <1>3 DEF Distinct
<1>6. Ordered(q) => Ordered(r)
  BY <1>2, <1>3 DEF Ordered
<1>7. IdsOf(r) \subseteq IdsOf(q) \ {q[p].id}
  BY <1>1, <1>2 DEF IdsOf, Distinct
<1>8. IdsOf(q) \ {q[p].id} \subseteq IdsOf(r)
  BY <1>2, <1>4 DEF IdsOf
<1>9. \A i \in DOMAIN q : i # p <=> q[i].id # q[p].id
  BY <1>1 DEF Distinct
<1>10. ToSet(r) \subseteq {x \in ToSet(q) : x.id # q[p].id}
  BY <1>2, <1>9 DEF ToSet
<1>11. {x \in ToSet(q) : x.id # q[p].id} \subseteq ToSet(r)
  BY <1>2, <1>4, <1>9 DEF ToSet
<1> QED
  BY <1>5, <1>6, <1>7, <1>8, <1>10, <1>11

(* What Append adds and Tail takes.                                        *)
LEMMA AppendSet ==
  ASSUME NEW S, NEW q \in Seq(S), NEW e \in S
  PROVE  Append(q, e) \in Seq(S) /\ ToSet(Append(q, e)) = ToSet(q) \cup {e}
<1> DEFINE r == Append(q, e)
<1>1. /\ r \in Seq(S) /\ Len(r) = Len(q) + 1
      /\ \A i \in 1 .. Len(q) : r[i] = q[i]
      /\ r[Len(q) + 1] = e
  BY AppendProperties
<1> HIDE DEF r
<1>2. Len(q) \in Nat /\ DOMAIN q = 1 .. Len(q) /\ DOMAIN r = 1 .. Len(q) + 1
  BY <1>1, LenProperties
<1>3. ASSUME NEW x PROVE x \in ToSet(r) <=> x \in ToSet(q) \cup {e}
  <2>1. x \in ToSet(r) <=> \E i \in 1 .. Len(q) + 1 : r[i] = x
    BY <1>2, Zenon DEF ToSet
  <2>2. x \in ToSet(q) <=> \E i \in 1 .. Len(q) : q[i] = x
    BY <1>2, Zenon DEF ToSet
  <2> QED
    BY <1>1, <1>2, <2>1, <2>2
<1>4. ToSet(r) = ToSet(q) \cup {e}
  BY <1>3
<1> QED
  BY <1>1, <1>4 DEF r

(* The first element may occur again in the rest.                          *)
LEMMA TailSet ==
  ASSUME NEW S, NEW q \in Seq(S), q # <<>>
  PROVE  /\ Head(q) \in S /\ Tail(q) \in Seq(S) /\ Head(q) \in ToSet(q)
         /\ ToSet(Tail(q)) \in {ToSet(q), ToSet(q) \ {Head(q)}}
<1> DEFINE r == Tail(q)
<1>1. /\ Head(q) \in S /\ r \in Seq(S) /\ Len(r) = Len(q) - 1
      /\ \A i \in 1 .. Len(r) : r[i] = q[i + 1]
  BY HeadTailProperties
<1> HIDE DEF r
<1>2. /\ Len(q) \in Nat \ {0} /\ Head(q) = q[1]
      /\ DOMAIN q = 1 .. Len(q) /\ DOMAIN r = 1 .. Len(r)
  BY <1>1, LenProperties
<1>3. \A i \in DOMAIN q : i = 1 \/ (i - 1 \in DOMAIN r /\ q[i] = r[i - 1])
  BY <1>1, <1>2
<1>4. \A i \in DOMAIN r : i + 1 \in DOMAIN q /\ r[i] = q[i + 1]
  BY <1>1, <1>2
<1>5. 1 \in DOMAIN q
  BY <1>2
<1>6. /\ \A x \in ToSet(q) : x = Head(q) \/ x \in ToSet(r)
      /\ \A x \in ToSet(r) : x \in ToSet(q)
      /\ Head(q) \in ToSet(q)
  BY <1>2, <1>3, <1>4, <1>5 DEF ToSet
<1>7. ToSet(r) = ToSet(q) \/ ToSet(r) = ToSet(q) \ {Head(q)}
  BY <1>6
<1> QED
  BY <1>1, <1>6, <1>7 DEF r

(* A new job that job_arm_unlocked puts at its position keeps the queue in *)
(* order: those before it are not later, those behind it are later, and it *)
(* is younger than all.                                                    *)
LEMMA InsertedKeeps ==
  ASSUME NEW S, NEW q \in Seq(S), NEW r \in Seq(S), NEW e \in S,
         \A x \in S : x.id \in Nat /\ x.ts \in Nat,
         NEW p \in Position(q, e.ts), Inserted(q, p, e, r),
         \A i \in DOMAIN q : q[i].id < e.id, Distinct(q)
  PROVE  /\ Ordered(q) => Ordered(r)
         /\ Distinct(r)
         /\ IdsOf(r) = IdsOf(q) \cup {e.id}
         /\ ToSet(r) = ToSet(q) \cup {e}
<1>1. /\ Len(q) \in Nat /\ Len(r) = Len(q) + 1
      /\ DOMAIN q = 1 .. Len(q) /\ DOMAIN r = 1 .. Len(q) + 1
  BY LenProperties DEF Inserted
<1>2. /\ p \in 1 .. Len(q) + 1
      /\ \A i \in 1 .. p - 1 : q[i].ts =< e.ts
      /\ p =< Len(q) => e.ts < q[p].ts
  BY DEF Position
<1>3. /\ e.id \in Nat /\ e.ts \in Nat
      /\ \A i \in DOMAIN q : q[i].id \in Nat /\ q[i].ts \in Nat
  <2>1. \A i \in DOMAIN q : q[i] \in S
    BY <1>1, ElementOfSeq
  <2> QED
    BY <2>1
<1> DEFINE from(i) == IF i < p THEN i ELSE i - 1
<1>4. /\ r[p] = e /\ p \in DOMAIN r
      /\ \A i \in DOMAIN r : i # p => from(i) \in DOMAIN q /\ r[i] = q[from(i)]
  BY <1>1, <1>2 DEF Inserted
<1>5. \A i, k \in DOMAIN r : i # p /\ k # p =>
        (i < k => from(i) < from(k)) /\ (i # k => from(i) # from(k))
  BY <1>1, <1>2
<1>6. \A j \in DOMAIN q : \E i \in DOMAIN r : i # p /\ j = from(i)
  <2> SUFFICES ASSUME NEW j \in DOMAIN q PROVE \E i \in DOMAIN r : i # p /\ j = from(i)
    OBVIOUS
  <2>1. CASE j < p
    BY <1>1, <1>2, <2>1
  <2>2. CASE j >= p
    <3>1. j + 1 \in DOMAIN r /\ j + 1 # p /\ j = from(j + 1)
      BY <1>1, <1>2, <2>2
    <3> QED
      BY <3>1
  <2> QED
    BY <1>1, <1>2, <2>1, <2>2
<1>7. \A i \in DOMAIN r : /\ i < p => from(i) \in 1 .. p - 1
                          /\ i > p => from(i) \in DOMAIN q /\ from(i) >= p /\ p =< Len(q)
  BY <1>1, <1>2
<1> HIDE DEF from
<1>8. Distinct(r)
  <2> SUFFICES ASSUME NEW i \in DOMAIN r, NEW k \in DOMAIN r, i # k PROVE r[i].id # r[k].id
    BY DEF Distinct
  <2>1. CASE i = p
    BY <1>3, <1>4, <2>1
  <2>2. CASE k = p
    BY <1>3, <1>4, <2>2
  <2>3. CASE i # p /\ k # p
    BY <1>4, <1>5, <2>3 DEF Distinct
  <2> QED
    BY <2>1, <2>2, <2>3
<1>9. ASSUME Ordered(q) PROVE Ordered(r)
  <2> SUFFICES ASSUME NEW i \in DOMAIN r, NEW k \in DOMAIN r, i < k PROVE Before(r[i], r[k])
    BY DEF Ordered
  <2>1. CASE i = p
    <3>1. k # p /\ k > p
      BY <1>1, <1>2, <2>1
    <3>2. from(k) \in DOMAIN q /\ from(k) >= p /\ p =< Len(q) /\ r[k] = q[from(k)]
      BY <1>4, <1>7, <3>1
    <3>3. e.ts < q[from(k)].ts
      <4>1. p \in DOMAIN q /\ e.ts < q[p].ts
        BY <1>1, <1>2, <3>2
      <4>2. CASE from(k) = p
        BY <4>1, <4>2
      <4>3. CASE from(k) # p
        <5>1. p < from(k)
          BY <1>1, <1>2, <3>2, <4>3
        <5>2. Before(q[p], q[from(k)])
          BY <1>9, <3>2, <4>1, <5>1 DEF Ordered
        <5> QED
          BY <1>3, <3>2, <4>1, <5>2 DEF Before
      <4> QED
        BY <4>2, <4>3
    <3> QED
      BY <1>4, <2>1, <3>2, <3>3 DEF Before
  <2>2. CASE k = p
    <3>1. i # p /\ i < p
      BY <1>1, <1>2, <2>2
    <3>2. from(i) \in 1 .. p - 1 /\ from(i) \in DOMAIN q /\ r[i] = q[from(i)]
      BY <1>4, <1>7, <3>1
    <3>3. q[from(i)].ts =< e.ts /\ q[from(i)].id < e.id
      BY <1>2, <3>2
    <3> QED
      BY <1>3, <1>4, <2>2, <3>2, <3>3 DEF Before
  <2>3. CASE i # p /\ k # p
    BY <1>4, <1>5, <1>9, <2>3 DEF Ordered
  <2> QED
    BY <2>1, <2>2, <2>3
<1>10. IdsOf(r) \subseteq IdsOf(q) \cup {e.id}
  BY <1>4 DEF IdsOf
<1>11. IdsOf(q) \cup {e.id} \subseteq IdsOf(r)
  BY <1>4, <1>6 DEF IdsOf
<1>12. ToSet(r) \subseteq ToSet(q) \cup {e}
  BY <1>4 DEF ToSet
<1>13. ToSet(q) \cup {e} \subseteq ToSet(r)
  BY <1>4, <1>6 DEF ToSet
<1> QED
  BY <1>8, <1>9, <1>10, <1>11, <1>12, <1>13

-----------------------------------------------------------------------------
(* A timer that has timed out has waited for a job whose time has come and *)
(* that nobody cancelled before.                                           *)
TimedOut == timer = "timedout" => job.ts =< now /\ job.id \notin intime

(* A job cancelled in time is not running; as long as it is queued the     *)
(* cancellation is posted.                                                 *)
InTime ==
  \A id \in intime : /\ id \in 0 .. job_next_id - 1
                     /\ \A j \in runners : j.id # id
                     /\ id \in Ids => id \in ToSet(jobcncl_head)

(* No two threads run jobs of the same identifier.                         *)
RunsOnce == \A x, y \in runners : x.id = y.id => x = y

(* The inductive invariant.                                                *)
TimerInv == /\ TypeOK /\ Ordered(job_head) /\ Distinct(job_head) /\ JobInOnePlace
            /\ RunsOnce /\ SleepsOnFirstJob /\ TimedOut /\ InTime

(* Identifiers and times are numbers.                                      *)
LEMMA JobNumbers ==
  ASSUME TypeOK
  PROVE  /\ \A x \in Job : x.id \in Nat /\ x.ts \in Nat /\ x.id < job_next_id
         /\ \A i \in DOMAIN job_head : job_head[i] \in Job
         /\ Ids = IdsOf(job_head)
<1>1. job_next_id \in Nat
  BY DEF TypeOK
<1>2. \A x \in Job : x.id \in Nat /\ x.ts \in Nat /\ x.id < job_next_id
  BY <1>1 DEF Job
<1>3. \A i \in DOMAIN job_head : job_head[i] \in Job
  <2>1. job_head \in Seq(Job)
    BY DEF TypeOK
  <2> QED
    BY <2>1, LenProperties, ElementOfSeq
<1> QED
  BY <1>2, <1>3 DEF Ids, IdsOf

(* Initially the queue is empty.                                           *)
LEMMA InitTimer == Init => TimerInv
<1> SUFFICES ASSUME Init PROVE TimerInv
  OBVIOUS
<1>1. TypeOK
  BY DEF Init, TypeOK
<1>2. DOMAIN job_head = {} /\ Ids = {}
  BY DEF Init, Ids
<1>3. Ordered(job_head) /\ Distinct(job_head)
  BY <1>2 DEF Ordered, Distinct
<1>4. JobInOnePlace
  BY <1>2 DEF Init, JobInOnePlace
<1>5. SleepsOnFirstJob /\ TimedOut /\ InTime /\ RunsOnce
  BY DEF Init, SleepsOnFirstJob, TimedOut, InTime, Asleep, RunsOnce
<1> QED
  BY <1>1, <1>3, <1>4, <1>5 DEF TimerInv

-----------------------------------------------------------------------------
(* A job is armed.                                                         *)
LEMMA EnqueueTimer ==
  ASSUME TimerInv, NEW ts \in Nat, job_enqueue(ts)
  PROVE  TimerInv'
<1> DEFINE e == [id |-> job_next_id, ts |-> ts]
<1>1. PICK p \in Position(job_head, ts) :
        /\ job_head' = InsertAt(job_head, p, e)
        /\ timer' = IF p = 1 THEN Wake(timer) ELSE timer
  BY DEF job_enqueue, NewId
<1>2. /\ timer # "locked" /\ job_next_id' = job_next_id + 1
      /\ UNCHANGED <<now, jobcncl_head, job, runners, ended, posted, intime>>
  BY DEF job_enqueue
<1>3. job_next_id \in Nat /\ job_head \in Seq(Job)
  BY DEF TimerInv, TypeOK
<1>4. Job \subseteq Job' /\ e \in Job' /\ e.ts = ts /\ e.id = job_next_id
  BY <1>2, <1>3 DEF Job
<1>5. job_head \in Seq(Job')
  BY <1>3, <1>4, SeqMonotonic
<1>6. p \in 1 .. Len(job_head) + 1
  BY DEF Position
<1>7. job_head' \in Seq(Job') /\ Inserted(job_head, p, e, job_head')
  BY <1>1, <1>4, <1>5, <1>6, InsertAtEffect
<1>8. TypeOK'
  <2>1. job' \in Job' \cup {NoJob} /\ runners' \in SUBSET Job'
    BY <1>2, <1>4 DEF TimerInv, TypeOK
  <2>2. timer' \in {"ready", "locked", "wait", "timedwait", "timedout"}
    BY <1>1 DEF TimerInv, TypeOK, Wake
  <2> QED
    BY <1>2, <1>3, <1>7, <2>1, <2>2 DEF TimerInv, TypeOK
<1>9. /\ Ordered(job_head') /\ Distinct(job_head')
      /\ IdsOf(job_head') = IdsOf(job_head) \cup {job_next_id}
  <2>1. \A x \in Job' : x.id \in Nat /\ x.ts \in Nat
    BY <1>2, <1>3 DEF Job
  <2>2. \A i \in DOMAIN job_head : job_head[i].id < e.id
    BY <1>4, JobNumbers DEF TimerInv
  <2> HIDE DEF e
  <2> QED
    BY <1>4, <1>5, <1>7, <2>1, <2>2, InsertedKeeps DEF TimerInv
<1>10. Ids' = Ids \cup {job_next_id}
  BY <1>8, <1>9, JobNumbers DEF Ids, IdsOf, TimerInv
<1>11. JobInOnePlace'
  <2>1. job_next_id \notin ended /\ \A j \in runners : j.id # job_next_id
    BY <1>3 DEF TimerInv, JobInOnePlace
  <2>2. 0 .. job_next_id' - 1 = (0 .. job_next_id - 1) \cup {job_next_id}
    BY <1>2, <1>3
  <2> QED
    BY <1>2, <1>10, <2>1, <2>2 DEF TimerInv, JobInOnePlace
<1>12. SleepsOnFirstJob'
  <2> SUFFICES ASSUME Asleep'
               PROVE  /\ jobcncl_head' = <<>>
                      /\ timer' = "wait" <=> job_head' = <<>>
                      /\ job_head' # <<>> => job' = Head(job_head')
    BY DEF SleepsOnFirstJob
  <2>1. p # 1 /\ timer' = timer /\ Asleep
    BY <1>1 DEF Asleep, Wake
  <2>2. job_head # <<>> /\ job_head' # <<>> /\ job_head'[1] = job_head[1]
    BY <1>3, <1>6, <1>7, <2>1 DEF Inserted
  <2>3. Head(job_head') = Head(job_head)
    BY <1>3, <1>7, <2>2
  <2> QED
    BY <1>2, <2>1, <2>2, <2>3 DEF TimerInv, SleepsOnFirstJob
<1>13. TimedOut' /\ RunsOnce'
  BY <1>1, <1>2 DEF TimerInv, TimedOut, Wake, RunsOnce
<1>14. InTime'
  BY <1>2, <1>3, <1>10 DEF TimerInv, InTime
<1> QED
  BY <1>8, <1>9, <1>11, <1>12, <1>13, <1>14 DEF TimerInv

(* A cancellation is posted.                                               *)
LEMMA CancelTimer ==
  ASSUME TimerInv, NEW id \in Nat, job_cancel(id)
  PROVE  TimerInv'
<1>1. /\ timer # "locked" /\ posted' = posted + 1 /\ jobcncl_head' = Append(jobcncl_head, id)
      /\ timer' = Wake(timer)
      /\ intime' = IF id \in Ids /\ ~(timer = "timedout" /\ job.id = id)
                   THEN intime \cup {id} ELSE intime
      /\ UNCHANGED <<now, job_head, job_next_id, job, runners, ended>>
  BY DEF job_cancel
<1>2. timer' \in {"ready", "timedout"} /\ (timer' = "timedout" => timer = "timedout")
  BY <1>1 DEF Wake, TimerInv, TypeOK
<1>3. /\ jobcncl_head \in Seq(Nat) /\ jobcncl_head' \in Seq(Nat)
      /\ ToSet(jobcncl_head') = ToSet(jobcncl_head) \cup {id}
  <2>1. jobcncl_head \in Seq(Nat)
    BY DEF TimerInv, TypeOK
  <2> QED
    BY <1>1, <2>1, AppendSet
<1>4. Job' = Job /\ Ids' = Ids
  BY <1>1 DEF Job, Ids
<1>5. TypeOK'
  BY <1>1, <1>2, <1>3, <1>4 DEF TimerInv, TypeOK
<1>6. Ordered(job_head') /\ Distinct(job_head') /\ JobInOnePlace'
  BY <1>1, <1>4 DEF TimerInv, JobInOnePlace
<1>7. SleepsOnFirstJob'
  BY <1>2 DEF SleepsOnFirstJob, Asleep
<1>8. TimedOut' /\ RunsOnce'
  BY <1>1, <1>2 DEF TimerInv, TimedOut, RunsOnce
<1>9. id \in Ids => id \in 0 .. job_next_id - 1 /\ \A j \in runners : j.id # id
  BY DEF TimerInv, JobInOnePlace
<1>10. InTime'
  BY <1>1, <1>3, <1>4, <1>9 DEF TimerInv, InTime
<1> QED
  BY <1>5, <1>6, <1>7, <1>8, <1>10 DEF TimerInv

-----------------------------------------------------------------------------
(* The timer has the mutex again, and starts the job it waited for if its  *)
(* time is up.                                                             *)
LEMMA LocksTimer ==
  ASSUME TimerInv, TimerLocks
  PROVE  TimerInv'
<1>1. /\ timer' = "locked"
      /\ UNCHANGED <<now, jobcncl_head, job_next_id, job, ended, posted, intime>>
  BY DEF TimerLocks
<1>2. Job' = Job /\ job_head \in Seq(Job)
  BY <1>1 DEF Job, TimerInv, TypeOK
<1>3. SleepsOnFirstJob' /\ TimedOut'
  BY <1>1 DEF SleepsOnFirstJob, TimedOut, Asleep
<1>4. CASE TimeIsUp
  <2>1. /\ job_head' = Tail(job_head) /\ runners' = runners \cup {job}
        /\ timer = "timedout" /\ job_head # <<>> /\ job = Head(job_head)
    BY <1>4 DEF TimerLocks, TimeIsUp
  <2>2. /\ job_head' \in Seq(Job) /\ Removed(job_head, 1, job_head')
        /\ 1 \in 1 .. Len(job_head) /\ job = job_head[1]
    BY <1>2, <2>1, TailEffect
  <2>3. /\ Ordered(job_head') /\ Distinct(job_head')
        /\ IdsOf(job_head') = IdsOf(job_head) \ {job.id}
    BY <1>2, <2>2, RemovedKeeps DEF TimerInv
  <2>4. 1 \in DOMAIN job_head /\ job \in Job /\ job.id \in Ids
    BY <1>2, <2>2, JobNumbers, LenProperties DEF TimerInv, IdsOf
  <2>5. TypeOK'
    BY <1>1, <1>2, <2>1, <2>2, <2>4 DEF TimerInv, TypeOK
  <2>6. Ids' = Ids \ {job.id}
    BY <2>3, <2>5, JobNumbers DEF Ids, IdsOf, TimerInv
  <2>7. {j.id : j \in runners'} = {j.id : j \in runners} \cup {job.id}
    BY <2>1
  <2>8. JobInOnePlace'
    BY <1>1, <2>4, <2>6, <2>7 DEF TimerInv, JobInOnePlace
  <2>9. InTime'
    BY <1>1, <2>1, <2>6 DEF TimerInv, InTime, TimedOut
  <2>10. RunsOnce'
    <3>1. \A x \in runners : x.id # job.id
      BY <2>4 DEF TimerInv, JobInOnePlace
    <3> QED
      BY <2>1, <3>1 DEF TimerInv, RunsOnce
  <2> QED
    BY <1>3, <2>3, <2>5, <2>8, <2>9, <2>10 DEF TimerInv
<1>5. CASE ~TimeIsUp
  <2>1. UNCHANGED <<job_head, runners>>
    BY <1>5 DEF TimerLocks
  <2>2. Ids' = Ids
    BY <2>1 DEF Ids
  <2>3. TypeOK'
    BY <1>1, <1>2, <2>1 DEF TimerInv, TypeOK
  <2>4. JobInOnePlace' /\ RunsOnce' /\ InTime' /\ Ordered(job_head') /\ Distinct(job_head')
    BY <1>1, <2>1, <2>2 DEF TimerInv, JobInOnePlace, InTime, RunsOnce
  <2> QED
    BY <1>3, <2>3, <2>4 DEF TimerInv
<1> QED
  BY <1>4, <1>5

(* The timer serves a cancellation.                                        *)
LEMMA RemoveTimer ==
  ASSUME TimerInv, job_remove
  PROVE  TimerInv'
<1> DEFINE id == Head(jobcncl_head)
<1>1. /\ timer = "locked" /\ jobcncl_head # <<>> /\ jobcncl_head' = Tail(jobcncl_head)
      /\ UNCHANGED <<now, job_next_id, timer, job, runners, posted, intime>>
  BY DEF job_remove
<1>2. Job' = Job /\ job_head \in Seq(Job) /\ jobcncl_head \in Seq(Nat)
  BY <1>1 DEF Job, TimerInv, TypeOK
<1>3. /\ jobcncl_head' \in Seq(Nat) /\ id \in Nat
      /\ \A x \in ToSet(jobcncl_head) : x = id \/ x \in ToSet(jobcncl_head')
  <2>1. /\ id \in Nat /\ jobcncl_head' \in Seq(Nat)
        /\ ToSet(jobcncl_head') \in {ToSet(jobcncl_head), ToSet(jobcncl_head) \ {id}}
    BY <1>1, <1>2, TailSet
  <2> QED
    BY <2>1
<1>4. SleepsOnFirstJob' /\ TimedOut' /\ RunsOnce'
  BY <1>1 DEF SleepsOnFirstJob, TimedOut, Asleep, RunsOnce, TimerInv
<1>5. DOMAIN job_head = 1 .. Len(job_head) /\ Len(job_head) \in Nat
  BY <1>2, LenProperties
<1>6. CASE \E i \in Found(id) : job_head' = RemoveAt(job_head, i) /\ ended' = ended \cup {id}
  <2>1. PICK i \in Found(id) : job_head' = RemoveAt(job_head, i) /\ ended' = ended \cup {id}
    BY <1>6
  <2>2. i \in 1 .. Len(job_head) /\ job_head[i].id = id
    BY <1>5 DEF Found
  <2>3. job_head' \in Seq(Job) /\ Removed(job_head, i, job_head')
    BY <1>2, <2>1, <2>2, RemoveAtEffect
  <2>4. /\ Ordered(job_head') /\ Distinct(job_head')
        /\ IdsOf(job_head') = IdsOf(job_head) \ {id}
    BY <1>2, <2>2, <2>3, RemovedKeeps DEF TimerInv
  <2>5. TypeOK'
    BY <1>1, <1>2, <1>3, <2>1, <2>3 DEF TimerInv, TypeOK
  <2>6. Ids' = Ids \ {id} /\ id \in Ids
    BY <1>5, <2>2, <2>4, <2>5, JobNumbers DEF Ids, IdsOf, TimerInv
  <2>7. JobInOnePlace'
    BY <1>1, <2>1, <2>6 DEF TimerInv, JobInOnePlace
  <2>8. InTime'
    BY <1>1, <1>3, <2>6 DEF TimerInv, InTime
  <2> QED
    BY <1>4, <2>4, <2>5, <2>7, <2>8 DEF TimerInv
<1>7. CASE Found(id) = {} /\ UNCHANGED <<job_head, ended>>
  <2>1. id \notin Ids
    <3> SUFFICES ASSUME NEW i \in DOMAIN job_head, job_head[i].id = id PROVE FALSE
      BY DEF Ids
    <3>1. \A k \in 1 .. i - 1 : job_head[k].id # id
      BY <1>5 DEF TimerInv, Distinct
    <3> QED
      BY <1>7, <3>1 DEF Found
  <2>2. Ids' = Ids
    BY <1>7 DEF Ids
  <2>3. TypeOK'
    BY <1>1, <1>2, <1>3, <1>7 DEF TimerInv, TypeOK
  <2>4. JobInOnePlace' /\ Ordered(job_head') /\ Distinct(job_head')
    BY <1>1, <1>7, <2>2 DEF TimerInv, JobInOnePlace
  <2>5. InTime'
    BY <1>1, <1>3, <2>1, <2>2 DEF TimerInv, InTime
  <2> QED
    BY <1>4, <2>3, <2>4, <2>5 DEF TimerInv
<1> QED
  BY <1>6, <1>7 DEF job_remove

(* The timer begins to wait, its wait ends, or time passes: the queue and  *)
(* the jobs are the same.                                                  *)
LEMMA WaitTimer ==
  ASSUME TimerInv, TimerWaits \/ WaitTimesOut \/ SpuriousWakeup \/ Tick
  PROVE  TimerInv'
<1>1. /\ UNCHANGED <<job_head, jobcncl_head, job_next_id, runners, ended, posted, intime>>
      /\ now \in Nat /\ now' \in {now, now + 1}
  BY DEF TimerWaits, WaitTimesOut, SpuriousWakeup, Tick, TimerInv, TypeOK
<1>2. Job' = Job /\ Ids' = Ids
  BY <1>1 DEF Job, Ids
<1>3. Ordered(job_head') /\ Distinct(job_head') /\ JobInOnePlace' /\ RunsOnce' /\ InTime'
  BY <1>1, <1>2 DEF TimerInv, JobInOnePlace, RunsOnce, InTime
<1>4. job_head \in Seq(Job) /\ (job_head # <<>> => Head(job_head) \in Job)
  <2>1. job_head \in Seq(Job)
    BY DEF TimerInv, TypeOK
  <2> QED
    BY <2>1, HeadTailProperties
<1>5. TypeOK'
  <2>1. timer' \in {"ready", "locked", "wait", "timedwait", "timedout"}
    BY DEF TimerWaits, WaitTimesOut, SpuriousWakeup, Tick, TimerInv, TypeOK
  <2>2. job' = job \/ job' = NoJob \/ (job_head # <<>> /\ job' = Head(job_head))
    BY DEF TimerWaits, WaitTimesOut, SpuriousWakeup, Tick
  <2>3. job' \in Job \cup {NoJob}
    BY <1>4, <2>2 DEF TimerInv, TypeOK
  <2>4. now' \in Nat
    BY <1>1
  <2> QED
    BY <1>1, <1>2, <2>1, <2>3, <2>4 DEF TimerInv, TypeOK
<1>6. SleepsOnFirstJob'
  <2>1. CASE TimerWaits
    BY <1>1, <2>1 DEF TimerWaits, SleepsOnFirstJob
  <2>2. CASE WaitTimesOut \/ SpuriousWakeup
    BY <2>2 DEF WaitTimesOut, SpuriousWakeup, SleepsOnFirstJob, Asleep
  <2>3. CASE Tick
    BY <2>3 DEF Tick, SleepsOnFirstJob, Asleep, TimerInv
  <2> QED
    BY <2>1, <2>2, <2>3
<1>7. TimedOut'
  <2>1. CASE TimerWaits \/ SpuriousWakeup
    BY <2>1 DEF TimerWaits, SpuriousWakeup, TimedOut
  <2>2. CASE WaitTimesOut
    <3>1. /\ timer = "timedwait" /\ now >= job.ts /\ UNCHANGED <<now, job, intime>>
      BY <2>2 DEF WaitTimesOut, TimeoutDue
    <3>2. jobcncl_head = <<>> /\ job_head # <<>> /\ job = Head(job_head)
      BY <3>1 DEF TimerInv, SleepsOnFirstJob, Asleep
    <3>3. job \in Job /\ job.id \in Ids
      <4>1. job = job_head[1] /\ 1 \in DOMAIN job_head
        BY <1>4, <3>2
      <4> QED
        BY <4>1, JobNumbers DEF Ids, TimerInv
    <3>4. job.id \notin ToSet(jobcncl_head)
      BY <3>2 DEF ToSet
    <3>5. job.id \notin intime
      BY <3>3, <3>4 DEF TimerInv, InTime
    <3>6. job.ts \in Nat
      BY <3>3, JobNumbers DEF TimerInv
    <3> QED
      BY <1>1, <3>1, <3>5, <3>6 DEF TimedOut
  <2>3. CASE Tick
    <3>1. UNCHANGED <<timer, job, intime>> /\ now' = now + 1
      BY <2>3 DEF Tick
    <3>2. job.ts \in Nat
      BY JobNumbers DEF TimerInv, TypeOK, NoJob
    <3> QED
      BY <1>1, <3>1, <3>2 DEF TimerInv, TimedOut
  <2> QED
    BY <2>1, <2>2, <2>3
<1> QED
  BY <1>3, <1>5, <1>6, <1>7 DEF TimerInv

(* A job has run: its thread is the only one with its identifier.          *)
LEMMA EndsTimer ==
  ASSUME TimerInv, NEW j \in runners, RunnerEnds(j)
  PROVE  TimerInv'
<1>1. /\ runners' = runners \ {j} /\ ended' = ended \cup {j.id}
      /\ UNCHANGED <<now, job_head, jobcncl_head, job_next_id, timer, job, posted, intime>>
  BY DEF RunnerEnds
<1>2. Job' = Job /\ Ids' = Ids
  BY <1>1 DEF Job, Ids
<1>3. j.id \in Nat
  BY JobNumbers DEF TimerInv, TypeOK
<1>4. TypeOK'
  BY <1>1, <1>2, <1>3 DEF TimerInv, TypeOK
<1>5. {x.id : x \in runners'} = {x.id : x \in runners} \ {j.id}
  BY <1>1 DEF TimerInv, RunsOnce
<1>6. JobInOnePlace'
  BY <1>1, <1>2, <1>5 DEF TimerInv, JobInOnePlace
<1>7. RunsOnce' /\ InTime' /\ Ordered(job_head') /\ Distinct(job_head')
  BY <1>1, <1>2 DEF TimerInv, RunsOnce, InTime
<1>8. SleepsOnFirstJob' /\ TimedOut'
  BY <1>1 DEF TimerInv, SleepsOnFirstJob, TimedOut, Asleep
<1> QED
  BY <1>4, <1>6, <1>7, <1>8 DEF TimerInv

(* Every step keeps the invariant.                                         *)
LEMMA NextTimer == TimerInv /\ [Next]_vars => TimerInv'
<1> SUFFICES ASSUME TimerInv, [Next]_vars PROVE TimerInv'
  OBVIOUS
<1>1. CASE \E ts \in 0 .. MaxTime : job_enqueue(ts)
  <2>1. PICK ts \in 0 .. MaxTime : job_enqueue(ts)
    BY <1>1
  <2> QED
    BY <2>1, EnqueueTimer, TimerAssumption
<1>2. CASE \E t \in 0 .. MaxTime - now : job_enqueue_after(t)
  <2>1. PICK t \in 0 .. MaxTime - now : job_enqueue_after(t)
    BY <1>2
  <2>2. now + t \in Nat
    BY TimerAssumption DEF TimerInv, TypeOK
  <2> QED
    BY <2>1, <2>2, EnqueueTimer DEF job_enqueue_after
<1>3. CASE \E id \in 0 .. MaxJobs - 1 : job_cancel(id)
  <2>1. PICK id \in 0 .. MaxJobs - 1 : job_cancel(id)
    BY <1>3
  <2> QED
    BY <2>1, CancelTimer, TimerAssumption
<1>4. CASE TimerRuns \/ WaitTimesOut \/ SpuriousWakeup \/ Tick
  BY <1>4, LocksTimer, RemoveTimer, WaitTimer DEF TimerRuns
<1>5. CASE \E j \in runners : RunnerEnds(j)
  BY <1>5, EndsTimer
<1>6. CASE UNCHANGED vars
  <2>1. UNCHANGED <<now, job_head, jobcncl_head, job_next_id, timer, job, runners,
                    ended, posted, intime>>
    BY <1>6 DEF vars
  <2>2. Job' = Job /\ Ids' = Ids
    BY <2>1 DEF Job, Ids
  <2>3. TypeOK'
    BY <2>1, <2>2 DEF TimerInv, TypeOK
  <2> QED
    BY <2>1, <2>2, <2>3 DEF TimerInv, JobInOnePlace, RunsOnce, SleepsOnFirstJob, TimedOut,
                            InTime, Asleep
<1> QED
  BY <1>1, <1>2, <1>3, <1>4, <1>5, <1>6 DEF Next

-----------------------------------------------------------------------------
(* The queue of jobs, the timer thread and the threads it starts agree at  *)
(* all times, whoever arms and cancels jobs (job_arm_unlocked, job_cancel, *)
(* thr_timer, thr_job_runner).                                             *)
THEOREM TimerCorrect == Spec => []TimerInv
  BY InitTimer, NextTimer, PTL DEF Spec

(* thr_timer never sleeps past a job or a cancellation: while it waits on  *)
(* job_cond it waits for the first job of the queue and nothing is posted. *)
THEOREM NeverOversleeps == Spec => []SleepsOnFirstJob
<1>1. TimerInv => SleepsOnFirstJob
  BY DEF TimerInv
<1> QED
  BY <1>1, TimerCorrect, PTL

(* Each armed job is queued, running or over: none is lost, run twice, or  *)
(* run after job_remove took it.                                           *)
THEOREM NoJobLost == Spec => []JobInOnePlace
<1>1. TimerInv => JobInOnePlace
  BY DEF TimerInv
<1> QED
  BY <1>1, TimerCorrect, PTL

(* A job cancelled before the timer timed out on it never runs.            *)
THEOREM CancellationHonoured == Spec => []CancelledInTimeNeverRuns
<1>1. TimerInv => CancelledInTimeNeverRuns
  BY DEF TimerInv, InTime, CancelledInTimeNeverRuns
<1> QED
  BY <1>1, TimerCorrect, PTL

-----------------------------------------------------------------------------
(* The steps of JobSet.  Arming a job.                                     *)
LEMMA EnqueueArms ==
  ASSUME TimerInv, NEW ts \in Nat, job_enqueue(ts)
  PROVE  JS!JSNext
<1> DEFINE e == [id |-> job_next_id, ts |-> ts]
<1>1. PICK p \in Position(job_head, ts) : job_head' = InsertAt(job_head, p, e)
  BY DEF job_enqueue, NewId
<1>2. /\ job_next_id' = job_next_id + 1
      /\ UNCHANGED <<now, jobcncl_head, runners, ended>>
  BY DEF job_enqueue
<1>3. job_next_id \in Nat /\ job_head \in Seq(Job)
  BY DEF TimerInv, TypeOK
<1>4. Job \subseteq Job' /\ e \in Job' /\ e.ts = ts /\ e.id = job_next_id
  BY <1>2, <1>3 DEF Job
<1>5. job_head \in Seq(Job')
  BY <1>3, <1>4, SeqMonotonic
<1>6. p \in 1 .. Len(job_head) + 1
  BY DEF Position
<1>7. job_head' \in Seq(Job') /\ Inserted(job_head, p, e, job_head')
  BY <1>1, <1>4, <1>5, <1>6, InsertAtEffect
<1>8. \A x \in Job' : x.id \in Nat /\ x.ts \in Nat
  BY <1>2, <1>3 DEF Job
<1>9. \A i \in DOMAIN job_head : job_head[i].id < e.id
  BY <1>4, JobNumbers DEF TimerInv
<1> HIDE DEF e
<1>10. ToSet(job_head') = ToSet(job_head) \cup {e}
  BY <1>4, <1>5, <1>7, <1>8, <1>9, InsertedKeeps DEF TimerInv
<1>11. JS!Arm(e) /\ e \in ToSet(job_head')
  BY <1>2, <1>4, <1>10 DEF JS!Arm
<1> QED
  BY <1>11 DEF JS!JSNext

(* Asking for a cancellation.                                              *)
LEMMA CancelAsks ==
  ASSUME TimerInv, NEW id \in Nat, job_cancel(id)
  PROVE  JS!JSNext
<1>1. /\ jobcncl_head' = Append(jobcncl_head, id)
      /\ UNCHANGED <<now, job_head, job_next_id, runners, ended>>
  BY DEF job_cancel
<1>2. jobcncl_head \in Seq(Nat)
  BY DEF TimerInv, TypeOK
<1>3. ToSet(jobcncl_head') = ToSet(jobcncl_head) \cup {id}
  BY <1>1, <1>2, AppendSet
<1>4. JS!Ask(id) /\ id \in ToSet(jobcncl_head')
  BY <1>1, <1>3 DEF JS!Ask
<1> QED
  BY <1>4 DEF JS!JSNext

(* Serving one: the queue has at most one job of the identifier.           *)
LEMMA RemoveCancels ==
  ASSUME TimerInv, job_remove
  PROVE  JS!JSNext
<1> DEFINE id == Head(jobcncl_head)
           P  == ToSet(job_head)
           P2 == ToSet(job_head')
<1>1. /\ jobcncl_head # <<>> /\ jobcncl_head' = Tail(jobcncl_head)
      /\ UNCHANGED <<now, job_next_id, runners>>
  BY DEF job_remove
<1>2. job_head \in Seq(Job) /\ jobcncl_head \in Seq(Nat)
  BY DEF TimerInv, TypeOK
<1>3. /\ id \in ToSet(jobcncl_head)
      /\ ToSet(jobcncl_head') \in {ToSet(jobcncl_head), ToSet(jobcncl_head) \ {id}}
  BY <1>1, <1>2, TailSet
<1>4. DOMAIN job_head = 1 .. Len(job_head) /\ Len(job_head) \in Nat
  BY <1>2, LenProperties
<1>5. /\ P2 = {j \in P : j.id # id}
      /\ ended' = ended \cup {j.id : j \in P \ P2}
  <2>1. CASE \E i \in Found(id) : job_head' = RemoveAt(job_head, i) /\ ended' = ended \cup {id}
    <3>1. PICK i \in Found(id) : job_head' = RemoveAt(job_head, i) /\ ended' = ended \cup {id}
      BY <2>1
    <3>2. i \in 1 .. Len(job_head) /\ job_head[i].id = id
      BY <1>4 DEF Found
    <3>3. job_head' \in Seq(Job) /\ Removed(job_head, i, job_head')
      BY <1>2, <3>1, <3>2, RemoveAtEffect
    <3>4. P2 = {j \in P : j.id # id}
      BY <1>2, <3>2, <3>3, RemovedKeeps DEF TimerInv
    <3>5. job_head[i] \in P
      BY <1>4, <3>2 DEF ToSet
    <3> HIDE DEF P, P2
    <3>6. {j.id : j \in P \ P2} = {id}
      BY <3>2, <3>4, <3>5
    <3> QED
      BY <3>1, <3>4, <3>6
  <2>2. CASE Found(id) = {} /\ UNCHANGED <<job_head, ended>>
    <3>1. ASSUME NEW i \in DOMAIN job_head, job_head[i].id = id PROVE FALSE
      <4>1. \A k \in 1 .. i - 1 : job_head[k].id # id
        BY <1>4, <3>1 DEF TimerInv, Distinct
      <4> QED
        BY <2>2, <3>1, <4>1 DEF Found
    <3>2. P2 = P /\ \A j \in P : j.id # id
      BY <2>2, <3>1 DEF ToSet
    <3> HIDE DEF P, P2
    <3> QED
      BY <2>2, <3>2
  <2> QED
    BY <2>1, <2>2 DEF job_remove
<1>6. JS!Cancel(id)
  BY <1>1, <1>3, <1>5 DEF JS!Cancel
<1> QED
  BY <1>3, <1>6 DEF JS!JSNext

(* Starting one: the job that the timer waited for is the first of a queue *)
(* in order, and its time has come.                                        *)
LEMMA LocksStarts ==
  ASSUME TimerInv, TimerLocks, TimeIsUp
  PROVE  JS!JSNext
<1>1. /\ job_head' = Tail(job_head) /\ runners' = runners \cup {job}
      /\ timer = "timedout" /\ job_head # <<>> /\ job = Head(job_head)
      /\ UNCHANGED <<now, job_next_id, jobcncl_head, ended>>
  BY DEF TimerLocks, TimeIsUp
<1>2. job_head \in Seq(Job)
  BY DEF TimerInv, TypeOK
<1>3. /\ job_head' \in Seq(Job) /\ Removed(job_head, 1, job_head')
      /\ 1 \in 1 .. Len(job_head) /\ job = job_head[1]
  BY <1>1, <1>2, TailEffect
<1>4. ToSet(job_head') = {x \in ToSet(job_head) : x.id # job.id}
  BY <1>2, <1>3, RemovedKeeps DEF TimerInv
<1>5. DOMAIN job_head = 1 .. Len(job_head) /\ Len(job_head) \in Nat
  BY <1>2, LenProperties
<1>6. \A i \in DOMAIN job_head : i = 1 \/ (Before(job, job_head[i]) /\ job_head[i].id # job.id)
  BY <1>3, <1>5 DEF TimerInv, Ordered, Distinct
<1>7. \A x \in ToSet(job_head) : x = job \/ (JS!Earlier(job, x) /\ x.id # job.id)
  BY <1>3, <1>6 DEF ToSet, Before, JS!Earlier
<1>8. job \in ToSet(job_head)
  BY <1>3, <1>5 DEF ToSet
<1>9. ToSet(job_head') = ToSet(job_head) \ {job}
  BY <1>4, <1>7
<1>10. job.ts =< now
  BY <1>1 DEF TimerInv, TimedOut
<1>11. JS!Start(job)
  BY <1>1, <1>7, <1>9, <1>10 DEF JS!Start
<1> QED
  BY <1>8, <1>11 DEF JS!JSNext

(* Every step is one of JobSet or leaves its variables alone.              *)
LEMMA StepOfJobSet == TimerInv /\ [Next]_vars => [JS!JSNext]_JS!jsVars
<1> SUFFICES ASSUME TimerInv, [Next]_vars PROVE JS!JSNext \/ UNCHANGED JS!jsVars
  OBVIOUS
<1>1. CASE \E ts \in 0 .. MaxTime : job_enqueue(ts)
  BY <1>1, EnqueueArms, TimerAssumption
<1>2. CASE \E t \in 0 .. MaxTime - now : job_enqueue_after(t)
  <2>1. PICK t \in 0 .. MaxTime - now : job_enqueue_after(t)
    BY <1>2
  <2>2. now + t \in Nat
    BY TimerAssumption DEF TimerInv, TypeOK
  <2> QED
    BY <2>1, <2>2, EnqueueArms DEF job_enqueue_after
<1>3. CASE \E id \in 0 .. MaxJobs - 1 : job_cancel(id)
  BY <1>3, CancelAsks, TimerAssumption
<1>4. CASE TimerLocks /\ ~TimeIsUp
  BY <1>4 DEF TimerLocks, JS!jsVars
<1>5. CASE TimerWaits \/ WaitTimesOut \/ SpuriousWakeup \/ UNCHANGED vars
  BY <1>5 DEF TimerWaits, WaitTimesOut, SpuriousWakeup, vars, JS!jsVars
<1>6. CASE Tick
  BY <1>6 DEF Tick, JS!Pass, JS!JSNext
<1>7. CASE \E j \in runners : RunnerEnds(j)
  <2>1. PICK j \in runners : RunnerEnds(j)
    BY <1>7
  <2>2. JS!Finish(j)
    BY <2>1 DEF RunnerEnds, JS!Finish
  <2> QED
    BY <2>2 DEF JS!JSNext
<1> QED
  BY <1>1, <1>2, <1>3, <1>4, <1>5, <1>6, <1>7, LocksStarts, RemoveCancels DEF Next, TimerRuns

(* The queue and its timer thread implement the set of jobs: started when  *)
(* due and in turn, cancelled while pending or not at all, for any number  *)
(* of jobs and threads that arm and cancel them.                           *)
THEOREM TimerImplementsJobSet == Spec => ImplementsJobSet
<1>1. Init => JS!JSInit
  <2> SUFFICES ASSUME Init PROVE JS!JSInit
    OBVIOUS
  <2>1. ToSet(job_head) = {} /\ ToSet(jobcncl_head) = {}
    BY DEF Init, ToSet
  <2> QED
    BY <2>1 DEF Init, JS!JSInit
<1> QED
  BY <1>1, StepOfJobSet, TimerCorrect, PTL DEF Spec, ImplementsJobSet, JS!JSSpec
=============================================================================
