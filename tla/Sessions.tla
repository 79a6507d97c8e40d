------------------------------ MODULE Sessions ------------------------------
(***************************************************************************)
(* The session table of a service (svc.c): a hash of sessions by key and a *)
(* list of the same sessions, least recently used first, from whose head   *)
(* the expire_sessions job removes the expired ones.  Every operation runs *)
(* with svc->mut locked, so each is one step.  The job queue is taken at   *)
(* its word (JobTimer): a job runs once, at its time or later.             *)
(***************************************************************************)
EXTENDS Naturals, Sequences, FiniteSets, Bags, SequencesExt

CONSTANTS Keys, Backends,
          None,        \* no backend
          sess_ttl,    \* the service's session lifetime
          MaxTime,     \* bound on the clock
          MaxArmed     \* bound on the jobs armed by service_session_add

ASSUME SessionAssumption ==
  /\ sess_ttl \in Nat \ {0} /\ MaxTime \in Nat /\ MaxArmed \in Nat
  /\ None \notin Backends /\ None \notin Keys

VARIABLES now,         \* CLOCK_REALTIME
          hash,        \* SESSION_HASH: the session (or none) of each key
          head,        \* the list: sessions in order
          jobs,        \* bag of the times of the pending expire_sessions jobs
          armed        \* number of jobs armed by service_session_add

vars == <<now, hash, head, jobs, armed>>

(* A session is an object: two sessions of the same key are distinct, so   *)
(* each carries its key, its backend and its expiration time.              *)
Session(k, b, t) == [key |-> k, backend |-> b, expire |-> t]
NoSession == Session(None, None, 0)
Bound(k) == hash[k] # NoSession

Init ==
  /\ now = 0 /\ hash = [k \in Keys |-> NoSession] /\ head = <<>>
  /\ jobs = EmptyBag /\ armed = 0

-----------------------------------------------------------------------------
(* The list l without the sessions in S (DLIST_REMOVE of each): the others *)
(* remain in their order, f giving the place in l of each of them.         *)
Places(P) ==
  {f \in [1 .. Cardinality(P) -> P] : /\ \A i, j \in DOMAIN f : i < j => f[i] < f[j]
                                     /\ \A p \in P : \E i \in DOMAIN f : f[i] = p}
Without(l, S) ==
  {[i \in DOMAIN f |-> l[f[i]]] : f \in Places({i \in DOMAIN l : l[i] \notin S})}

session_unlink(l, s) == Without(l, {s})
session_link_at_tail(l, s) == Append(l, s)

(* job_enqueue(ts, expire_sessions, svc).                                  *)
Arm(js, ts) == js (+) SetToBag({ts})

(* service_session_add: a session that had the same key is unlinked; the   *)
(* job is armed if the new session is the only one in the list.            *)
ForgetArm(l) == FALSE                                             \* mutant
FirstInList(l) == Len(l) = 1
KeepOld(k) == {head}                                              \* mutant
WithoutOld(k) == IF Bound(k) THEN session_unlink(head, hash[k]) ELSE {head}

service_session_add(k, b) ==
  LET s == Session(k, b, now + sess_ttl)
  IN  /\ hash' = [hash EXCEPT ![k] = s]
      /\ \E l \in WithoutOld(k) : head' = session_link_at_tail(l, s)
      /\ \/ /\ FirstInList(head') /\ armed < MaxArmed
            /\ jobs' = Arm(jobs, s.expire) /\ armed' = armed + 1
         \/ ~FirstInList(head') /\ UNCHANGED <<jobs, armed>>
      /\ UNCHANGED now

Renewed(s) == now + sess_ttl

(* service_session_find, with service_session_promote: the session moves   *)
(* to the end of the list with a new expiration time.                      *)
service_session_find(k) ==
  /\ Bound(k)
  /\ LET s == [hash[k] EXCEPT !.expire = Renewed(hash[k])]
     IN  /\ hash' = [hash EXCEPT ![k] = s]
         /\ \E l \in session_unlink(head, hash[k]) : head' = session_link_at_tail(l, s)
  /\ UNCHANGED <<now, jobs, armed>>

service_session_remove_by_key(k) ==
  /\ Bound(k)
  /\ hash' = [hash EXCEPT ![k] = NoSession]
  /\ head' \in session_unlink(head, hash[k])
  /\ UNCHANGED <<now, jobs, armed>>

service_session_remove_by_backend(b) ==
  /\ hash' = [k \in Keys |-> IF hash[k].backend = b THEN NoSession ELSE hash[k]]
  /\ head' \in Without(head, {s \in ToSet(head) : s.backend = b})
  /\ hash' # hash
  /\ UNCHANGED <<now, jobs, armed>>

(* expire_sessions, run for a job armed for the time ts (which it takes    *)
(* for the current time): the head of the list is removed while it has     *)
(* expired, and the job armed again if there is a session left.            *)
ExpiredSoon(s, ts) == s.expire =< ts + 1                          \* mutant
ExpiredStrictly(s, ts) == s.expire < ts                           \* mutant
Expired(s, ts) == s.expire =< ts
FirstLeft(l, ts) ==
  {i \in 1 .. Len(l) + 1 : /\ \A j \in 1 .. i - 1 : Expired(l[j], ts)
                           /\ i =< Len(l) => ~Expired(l[i], ts)}
Rearm(js, l) == IF l = <<>> THEN js ELSE Arm(js, Head(l).expire)

expire_sessions(ts) ==
  /\ ts =< now
  /\ \E n \in FirstLeft(head, ts) :
       /\ hash' = [k \in Keys |-> IF \E i \in 1 .. n - 1 : hash[k] = head[i]
                                 THEN NoSession ELSE hash[k]]
       /\ head' = SubSeq(head, n, Len(head))
       /\ jobs' = Rearm(jobs (-) SetToBag({ts}), head')
  /\ UNCHANGED <<now, armed>>

Tick == now < MaxTime /\ now' = now + 1 /\ UNCHANGED <<hash, head, jobs, armed>>

Next ==
  \/ \E k \in Keys : \/ \E b \in Backends : service_session_add(k, b)
                     \/ service_session_find(k)
                     \/ service_session_remove_by_key(k)
  \/ \E b \in Backends : service_session_remove_by_backend(b)
  \/ \E ts \in BagToSet(jobs) : expire_sessions(ts)
  \/ Tick

Spec == Init /\ [][Next]_vars
(* The clock goes on and jobs run when their time has come.                *)
FairSpec == Spec /\ WF_vars(Tick)
                 /\ WF_vars(\E ts \in BagToSet(jobs) : expire_sessions(ts))

-----------------------------------------------------------------------------
(* Types; a session never outlives the lifetime counted from now.          *)
AnySession == [key : Keys, backend : Backends, expire : 0 .. now + sess_ttl]

TypeOK ==
  /\ now \in Nat /\ armed \in Nat /\ jobs \in [DOMAIN jobs -> Nat \ {0}]
  /\ DOMAIN jobs \subseteq Nat
  /\ hash \in [Keys -> {NoSession} \cup AnySession] /\ head \in Seq(AnySession)

(* The hash and the list hold the same sessions, each of them once.        *)
ListHashAgree ==
  /\ ToSet(head) = {hash[k] : k \in {x \in Keys : Bound(x)}}
  /\ \A k \in Keys : Bound(k) => hash[k].key = k
  /\ IsInjective(head)

(* Whenever there is a session a job is pending that comes no later than   *)
(* the expiration of the first one, although only the first addition to an *)
(* empty list and the job itself arm it and removals never disarm it.      *)
ExpiryJobPending ==
  head # <<>> => \E ts \in BagToSet(jobs) : ts =< Head(head).expire

(* A job removes the sessions that have expired by the time it was armed   *)
(* for, and no other: none that has been used within its lifetime, even if *)
(* the job was armed for one that has since been promoted or removed, and  *)
(* it leaves none behind, although it stops at the first of the list that  *)
(* has not expired.                                                        *)
ExpiryExact ==
  [][armed' = armed /\ jobs' # jobs =>
       \E ts \in BagToSet(jobs) :
         /\ ts =< now
         /\ hash' = [k \in Keys |-> IF hash[k].expire =< ts THEN NoSession ELSE hash[k]]]_vars

(* A session that is not used is removed when it has expired.              *)
IsExpired(k) == Bound(k) /\ hash[k].expire =< now
ExpiredSessionsRemoved == \A k \in Keys : IsExpired(k) ~> ~IsExpired(k)
=============================================================================
