--------------------------- MODULE SessionsProofs ---------------------------
(***************************************************************************)
(* Proofs about Sessions, for any sets of keys and backends, any lifetime  *)
(* of sessions, any length of time and any number of jobs.                 *)
(***************************************************************************)
EXTENDS Sessions, FiniteSetTheorems, SequenceTheorems, TLAPS

(* The list l and the hash h are about the same sessions, one of each key, *)
(* and the list is in the order of expiration.                             *)
Linked(h, l) == \A i \in DOMAIN l : /\ l[i] # NoSession /\ l[i].key \in Keys
                                    /\ h[l[i].key] = l[i]
Hashed(h, l) ==
  \A k \in Keys : h[k] # NoSession => h[k].key = k /\ \E i \in DOMAIN l : l[i] = h[k]
Once(l) == \A i, j \in DOMAIN l : l[i].key = l[j].key => i = j
Sorted(l) == \A i, j \in DOMAIN l : i < j => l[i].expire =< l[j].expire
ListInv(h, l) == Linked(h, l) /\ Hashed(h, l) /\ Once(l) /\ Sorted(l)

(* The inductive invariant.                                                *)
SessionInv == TypeOK /\ ListInv(hash, head) /\ ExpiryJobPending

(* r is made of the sessions of l at the places f, in the same order.      *)
Embeds(l, r, f) == /\ f \in [DOMAIN r -> DOMAIN l]
                   /\ \A i, j \in DOMAIN r : i < j => f[i] < f[j]
                   /\ \A i \in DOMAIN r : r[i] = l[f[i]]
Stays(r, f, i) == \E j \in DOMAIN r : f[j] = i

-----------------------------------------------------------------------------
(* What is left of a list after sessions were unlinked.                    *)
LEMMA WithoutEffect ==
  ASSUME NEW T, NEW l \in Seq(T), NEW S, NEW r \in Without(l, S)
  PROVE  /\ r \in Seq(T)
         /\ \E f : Embeds(l, r, f) /\ \A i \in DOMAIN l : Stays(r, f, i) <=> l[i] \notin S
<1> DEFINE P == {i \in DOMAIN l : l[i] \notin S}
           n == Cardinality(P)
<1>1. PICK f \in Places(P) : r = [i \in DOMAIN f |-> l[f[i]]]
  BY DEF Without
<1>2. Len(l) \in Nat /\ DOMAIN l = 1 .. Len(l) /\ \A i \in DOMAIN l : l[i] \in T
  BY LenProperties, ElementOfSeq
<1>3. n \in Nat
  <2>1. IsFiniteSet(1 .. Len(l))
    BY <1>2, FS_Interval
  <2>2. IsFiniteSet(P)
    BY <1>2, <2>1, FS_Subset
  <2> QED
    BY <2>2, FS_CardinalityType
<1>4. /\ f \in [1 .. n -> P] /\ DOMAIN f = 1 .. n
      /\ \A i, j \in 1 .. n : i < j => f[i] < f[j]
      /\ \A p \in P : \E i \in 1 .. n : f[i] = p
  BY DEF Places
<1>5. \A p \in P : p \in DOMAIN l /\ l[p] \in T /\ l[p] \notin S
  BY <1>2
<1>6. \A p \in DOMAIN l : l[p] \notin S => p \in P
  OBVIOUS
<1> HIDE DEF P, n
<1>7. DOMAIN r = 1 .. n /\ \A i \in 1 .. n : r[i] = l[f[i]] /\ f[i] \in P
  BY <1>1, <1>4
<1>8. r \in [1 .. n -> T]
  BY <1>1, <1>4, <1>5, <1>7
<1>9. r \in Seq(T)
  BY <1>3, <1>8, SeqDef
<1>10. Embeds(l, r, f)
  BY <1>4, <1>5, <1>7 DEF Embeds
<1>11. \A i \in DOMAIN l : Stays(r, f, i) <=> l[i] \notin S
  BY <1>4, <1>5, <1>6, <1>7 DEF Stays
<1> QED
  BY <1>9, <1>10, <1>11

(* Unlinking the sessions that do not stay, in the hash too, keeps the two *)
(* in agreement; the first session does not come to expire earlier.        *)
LEMMA Removes ==
  ASSUME NEW h, NEW h2, NEW T, NEW l \in Seq(T), NEW r \in Seq(T), NEW f,
         \A x \in T : x.expire \in Nat,
         ListInv(h, l), Embeds(l, r, f),
         \A k \in Keys : h2[k] = IF \E i \in DOMAIN l : h[k] = l[i] /\ ~Stays(r, f, i)
                                 THEN NoSession ELSE h[k]
  PROVE  /\ ListInv(h2, r)
         /\ r # <<>> => l # <<>> /\ Head(l).expire =< Head(r).expire
<1>1. /\ Len(l) \in Nat /\ DOMAIN l = 1 .. Len(l) /\ \A i \in DOMAIN l : l[i] \in T
      /\ Len(r) \in Nat /\ DOMAIN r = 1 .. Len(r)
  BY LenProperties, ElementOfSeq
<1>2. /\ \A i \in DOMAIN r : f[i] \in DOMAIN l /\ r[i] = l[f[i]]
      /\ \A i, j \in DOMAIN r : i < j => f[i] < f[j]
  BY DEF Embeds
<1>3. Linked(h2, r)
  <2> SUFFICES ASSUME NEW i \in DOMAIN r
               PROVE  r[i] # NoSession /\ r[i].key \in Keys /\ h2[r[i].key] = r[i]
    BY DEF Linked
  <2>1. /\ f[i] \in DOMAIN l /\ r[i] = l[f[i]] /\ r[i] # NoSession /\ r[i].key \in Keys
        /\ h[r[i].key] = r[i]
    BY <1>2 DEF ListInv, Linked
  <2>2. ASSUME NEW m \in DOMAIN l, h[r[i].key] = l[m] PROVE Stays(r, f, m)
    <3>1. l[m].key = l[f[i]].key
      BY <2>1, <2>2
    <3>2. m = f[i]
      BY <2>1, <3>1 DEF ListInv, Once
    <3> QED
      BY <3>2 DEF Stays
  <2> QED
    BY <2>1, <2>2
<1>4. Hashed(h2, r)
  <2> SUFFICES ASSUME NEW k \in Keys, h2[k] # NoSession
               PROVE  h2[k].key = k /\ \E i \in DOMAIN r : r[i] = h2[k]
    BY DEF Hashed
  <2>1. h2[k] = h[k] /\ \A i \in DOMAIN l : h[k] = l[i] => Stays(r, f, i)
    OBVIOUS
  <2>2. PICK i \in DOMAIN l : l[i] = h[k]
    BY <2>1 DEF ListInv, Hashed
  <2>3. PICK j \in DOMAIN r : f[j] = i
    BY <2>1, <2>2 DEF Stays
  <2>4. r[j] = h2[k]
    BY <1>2, <2>1, <2>2, <2>3
  <2> QED
    BY <2>1, <2>4 DEF ListInv, Hashed
<1>5. Once(r)
  <2> SUFFICES ASSUME NEW i \in DOMAIN r, NEW j \in DOMAIN r, r[i].key = r[j].key
               PROVE  i = j
    BY DEF Once
  <2>1. f[i] = f[j] /\ f[i] \in Nat /\ f[j] \in Nat
    BY <1>1, <1>2 DEF ListInv, Once
  <2>2. ~(i < j) /\ ~(j < i)
    BY <1>2, <2>1
  <2> QED
    BY <1>1, <2>2
<1>6. Sorted(r)
  BY <1>2 DEF ListInv, Sorted
<1>7. r # <<>> => l # <<>> /\ Head(l).expire =< Head(r).expire
  <2> SUFFICES ASSUME r # <<>> PROVE l # <<>> /\ Head(l).expire =< Head(r).expire
    OBVIOUS
  <2>1. 1 \in DOMAIN r /\ Head(r) = r[1]
    BY <1>1
  <2>2. f[1] \in 1 .. Len(l) /\ r[1] = l[f[1]]
    BY <1>1, <1>2, <2>1
  <2>3. l # <<>> /\ Head(l) = l[1] /\ 1 \in DOMAIN l
    BY <1>1, <2>2
  <2>4. l[1].expire \in Nat /\ l[f[1]].expire \in Nat
    BY <1>1, <2>2, <2>3
  <2>5. l[1].expire =< l[f[1]].expire
    <3>1. CASE f[1] = 1
      BY <2>4, <3>1
    <3>2. CASE f[1] # 1
      BY <1>1, <2>2, <2>3, <3>2 DEF ListInv, Sorted
    <3> QED
      BY <3>1, <3>2
  <2> QED
    BY <2>1, <2>2, <2>3, <2>5
<1> QED
  BY <1>3, <1>4, <1>5, <1>6, <1>7 DEF ListInv

(* Linking a session of a key that has none, and that expires last.        *)
LEMMA Appends ==
  ASSUME NEW h, NEW g, NEW T, NEW l \in Seq(T), NEW s \in T, NEW k \in Keys,
         ListInv(h, l), h[k] = NoSession, \A x \in Keys : g[x] = IF x = k THEN s ELSE h[x],
         s.key = k, s # NoSession, \A i \in DOMAIN l : l[i].expire =< s.expire
  PROVE  /\ Append(l, s) \in Seq(T) /\ Append(l, s) # <<>>
         /\ ListInv(g, Append(l, s))
         /\ Head(Append(l, s)) = IF l = <<>> THEN s ELSE Head(l)
         /\ Len(Append(l, s)) = 1 <=> l = <<>>
<1> DEFINE r == Append(l, s)
<1>1. /\ r \in Seq(T) /\ Len(l) \in Nat /\ Len(r) = Len(l) + 1
      /\ DOMAIN l = 1 .. Len(l) /\ DOMAIN r = 1 .. Len(l) + 1
      /\ \A i \in 1 .. Len(l) : r[i] = l[i]
      /\ r[Len(l) + 1] = s
  BY AppendProperties, LenProperties
<1>2. /\ Append(l, s) # <<>> /\ Head(Append(l, s)) = IF l = <<>> THEN s ELSE Head(l)
      /\ Len(Append(l, s)) = 1 <=> l = <<>>
  <2>1. Append(l, s) # <<>>
    BY <1>1
  <2>2. Head(r) = r[1]
    BY <1>1
  <2>3. CASE l = <<>>
    BY <1>1, <2>1, <2>2, <2>3
  <2>4. CASE l # <<>>
    <3>1. Len(l) # 0 /\ Head(l) = l[1]
      BY <2>4
    <3> QED
      BY <1>1, <2>1, <2>2, <2>4, <3>1
  <2> QED
    BY <2>3, <2>4
<1>3. \A x \in Keys : g[x] = IF x = k THEN s ELSE h[x]
  OBVIOUS
<1>4. \A i \in DOMAIN l : /\ l[i].key # k /\ l[i] # NoSession /\ l[i].key \in Keys
                          /\ h[l[i].key] = l[i]
  BY DEF ListInv, Linked
<1> HIDE DEF r
<1>5. \A i \in DOMAIN r : (i \in DOMAIN l /\ r[i] = l[i]) \/ (i = Len(l) + 1 /\ r[i] = s)
  BY <1>1
<1>6. Linked(g, r)
  BY <1>3, <1>4, <1>5 DEF Linked
<1>7. Hashed(g, r)
  <2> SUFFICES ASSUME NEW x \in Keys, g[x] # NoSession
               PROVE  g[x].key = x /\ \E i \in DOMAIN r : r[i] = g[x]
    BY DEF Hashed
  <2>1. CASE x = k
    <3>1. Len(l) + 1 \in DOMAIN r
      BY <1>1
    <3> QED
      BY <1>1, <1>3, <2>1, <3>1
  <2>2. CASE x # k
    <3>1. PICK i \in DOMAIN l : l[i] = h[x]
      BY <1>3, <2>2 DEF ListInv, Hashed
    <3>2. i \in DOMAIN r /\ r[i] = l[i]
      BY <1>1
    <3> QED
      BY <1>3, <2>2, <3>1, <3>2 DEF ListInv, Hashed
  <2> QED
    BY <2>1, <2>2
<1>8. Once(r)
  BY <1>1, <1>4, <1>5 DEF ListInv, Once
<1>9. Sorted(r)
  <2> SUFFICES ASSUME NEW i \in DOMAIN r, NEW j \in DOMAIN r, i < j
               PROVE  r[i].expire =< r[j].expire
    BY DEF Sorted
  <2>1. i \in DOMAIN l /\ r[i] = l[i]
    BY <1>1
  <2> QED
    BY <1>5, <2>1 DEF ListInv, Sorted
<1> QED
  BY <1>1, <1>2, <1>6, <1>7, <1>8, <1>9 DEF ListInv, r

(* The rest of a list from the n-th session on.                            *)
LEMMA SuffixEffect ==
  ASSUME NEW T, NEW l \in Seq(T), NEW n \in 1 .. Len(l) + 1
  PROVE  /\ SubSeq(l, n, Len(l)) \in Seq(T)
         /\ \E f : /\ Embeds(l, SubSeq(l, n, Len(l)), f)
                   /\ \A i \in DOMAIN l : Stays(SubSeq(l, n, Len(l)), f, i) <=> i >= n
<1> DEFINE r == SubSeq(l, n, Len(l))
           m == Len(l) - n + 1
           f == [j \in 1 .. m |-> n + j - 1]
<1>1. Len(l) \in Nat /\ DOMAIN l = 1 .. Len(l) /\ \A i \in 1 .. Len(l) : l[i] \in T
  BY LenProperties, ElementOfSeq
<1>2. /\ r \in Seq(T) /\ Len(r) = m /\ \A i \in 1 .. m : r[i] = l[n + i - 1]
  BY <1>1, SubSeqProperties
<1>3. DOMAIN r = 1 .. m /\ m \in Nat /\ n \in Nat
  BY <1>1, <1>2, LenProperties
<1>4. \A j \in 1 .. m : f[j] = n + j - 1 /\ f[j] \in DOMAIN l
  BY <1>1, <1>3
<1>5. f \in [1 .. m -> DOMAIN l]
  BY <1>4
<1> HIDE DEF f, r
<1>6. Embeds(l, r, f)
  <2>1. f \in [DOMAIN r -> DOMAIN l]
    BY <1>3, <1>5
  <2>2. \A i, j \in DOMAIN r : i < j => f[i] < f[j]
    BY <1>3, <1>4
  <2>3. \A i \in DOMAIN r : r[i] = l[f[i]]
    BY <1>2, <1>3, <1>4
  <2> QED
    BY <2>1, <2>2, <2>3 DEF Embeds
<1>7. ASSUME NEW i \in DOMAIN l PROVE Stays(r, f, i) <=> i >= n
  <2>1. CASE i >= n
    <3>1. i - n + 1 \in 1 .. m /\ i = n + (i - n + 1) - 1
      BY <1>1, <1>3, <2>1
    <3>2. f[i - n + 1] = i
      BY <1>1, <1>3, <1>4, <3>1
    <3> QED
      BY <1>3, <2>1, <3>1, <3>2 DEF Stays
  <2>2. CASE ~(i >= n)
    <3>1. \A j \in DOMAIN r : f[j] # i
      BY <1>1, <1>3, <1>4, <2>2
    <3> QED
      BY <2>2, <3>1 DEF Stays
  <2> QED
    BY <2>1, <2>2
<1> QED
  BY <1>2, <1>6, <1>7 DEF r

(* Jobs armed, and a job that is run.                                      *)
IsJobBag(js) == js \in [DOMAIN js -> Nat \ {0}] /\ DOMAIN js \subseteq Nat

(* A job is armed.                                                         *)
LEMMA ArmEffect ==
  ASSUME NEW js, IsJobBag(js), NEW ts \in Nat
  PROVE  IsJobBag(Arm(js, ts)) /\ DOMAIN Arm(js, ts) = DOMAIN js \cup {ts}
<1> DEFINE b == [e \in {ts} |-> 1]
           u == [e \in (DOMAIN js) \cup {ts} |->
                   (IF e \in DOMAIN js THEN js[e] ELSE 0) + (IF e \in {ts} THEN b[e] ELSE 0)]
<1>1. Arm(js, ts) = u
  BY DEF Arm, SetToBag, (+)
<1>2. \A e \in DOMAIN js : js[e] \in Nat \ {0}
  BY DEF IsJobBag
<1>3. \A e \in DOMAIN js \cup {ts} : u[e] \in Nat \ {0}
  BY <1>2
<1> QED
  BY <1>1, <1>3 DEF IsJobBag

(* A job is run.                                                           *)
LEMMA DropEffect ==
  ASSUME NEW js, IsJobBag(js), NEW ts \in Nat
  PROVE  IsJobBag(js (-) SetToBag({ts}))
<1> DEFINE b == [e \in {ts} |-> 1]
           B == [e \in DOMAIN js |-> IF e \in {ts} THEN js[e] - b[e] ELSE js[e]]
           u == [e \in {d \in DOMAIN B : B[d] > 0} |-> B[e]]
<1>1. (js (-) SetToBag({ts})) = u
  BY DEF SetToBag, (-)
<1>2. \A e \in DOMAIN js : js[e] \in Nat \ {0}
  BY DEF IsJobBag
<1>3. \A e \in DOMAIN js : B[e] \in Int
  BY <1>2
<1>4. DOMAIN u \subseteq DOMAIN js /\ \A e \in DOMAIN u : u[e] \in Nat \ {0}
  BY <1>3
<1>5. u \in [DOMAIN u -> Nat \ {0}]
  BY <1>4
<1> HIDE DEF u
<1> QED
  BY <1>1, <1>4, <1>5 DEF IsJobBag

-----------------------------------------------------------------------------
(* Facts about the types.                                                  *)
LEMMA SessionTypes ==
  ASSUME TypeOK
  PROVE  /\ now \in Nat /\ sess_ttl \in Nat /\ now + sess_ttl \in Nat
         /\ \A x \in AnySession : /\ x.expire \in Nat /\ x.expire =< now + sess_ttl
                                  /\ x.key \in Keys /\ x # NoSession
         /\ \A k \in Keys, b \in Backends :
              Session(k, b, now + sess_ttl) \in AnySession
         /\ IsJobBag(jobs)
<1>1. now \in Nat /\ sess_ttl \in Nat /\ now + sess_ttl \in Nat
  BY SessionAssumption DEF TypeOK
<1>2. \A x \in AnySession : x.expire \in Nat /\ x.expire =< now + sess_ttl /\ x.key \in Keys
  BY <1>1 DEF AnySession
<1>3. \A x \in AnySession : x # NoSession
  BY <1>2, SessionAssumption DEF NoSession, Session
<1>4. \A k \in Keys, b \in Backends : Session(k, b, now + sess_ttl) \in AnySession
  BY <1>1 DEF AnySession, Session
<1> QED
  BY <1>1, <1>2, <1>3, <1>4 DEF TypeOK, IsJobBag

(* Initially there is no session.                                          *)
LEMMA InitSessions == Init => SessionInv
<1> SUFFICES ASSUME Init PROVE SessionInv
  OBVIOUS
<1>1. DOMAIN jobs = {} /\ jobs \in [{} -> Nat \ {0}]
  BY DEF Init, EmptyBag, SetToBag
<1>2. TypeOK
  BY <1>1 DEF Init, TypeOK
<1>3. ListInv(hash, head) /\ ExpiryJobPending
  BY DEF Init, ListInv, Linked, Hashed, Once, Sorted, ExpiryJobPending
<1> QED
  BY <1>2, <1>3 DEF SessionInv

(* Sessions S are taken out of the list.                                   *)
Dropped(h, S) == [k \in Keys |-> IF h[k] \in S THEN NoSession ELSE h[k]]

(* What is left when sessions are taken out agrees with what is left in    *)
(* the hash, and does not begin earlier.                                   *)
LEMMA DropsSessions ==
  ASSUME SessionInv, NEW S, NEW r \in Without(head, S)
  PROVE  /\ r \in Seq(AnySession)
         /\ ListInv(Dropped(hash, S), r)
         /\ r # <<>> => head # <<>> /\ Head(head).expire =< Head(r).expire
<1>1. head \in Seq(AnySession) /\ \A x \in AnySession : x.expire \in Nat
  BY SessionTypes DEF SessionInv, TypeOK
<1>2. r \in Seq(AnySession)
  BY <1>1, WithoutEffect
<1>3. PICK f : /\ Embeds(head, r, f)
               /\ \A i \in DOMAIN head : Stays(r, f, i) <=> head[i] \notin S
  BY <1>1, WithoutEffect
<1>4. ASSUME NEW k \in Keys
      PROVE  Dropped(hash, S)[k] = IF \E i \in DOMAIN head : hash[k] = head[i] /\ ~Stays(r, f, i)
                                   THEN NoSession ELSE hash[k]
  <2>1. Dropped(hash, S)[k] = IF hash[k] \in S THEN NoSession ELSE hash[k]
    BY DEF Dropped
  <2>2. hash[k] # NoSession => \E i \in DOMAIN head : hash[k] = head[i]
    BY DEF SessionInv, ListInv, Hashed
  <2> QED
    BY <1>3, <2>1, <2>2
<1> QED
  BY <1>1, <1>2, <1>3, <1>4, Removes DEF SessionInv

-----------------------------------------------------------------------------
(* A session of key k is linked at the tail, the old one (if any) having   *)
(* been unlinked: service_session_add and service_session_promote.         *)
Binds(g, k, s) == \A x \in Keys : g[x] = IF x = k THEN s ELSE hash[x]
LinkedLast(l, r, s) ==
  /\ l \in Seq(AnySession) /\ l # <<>> /\ (Len(l) = 1 <=> r = <<>>)
  /\ r = <<>> => Head(l) = s
  /\ r # <<>> => head # <<>> /\ Head(head).expire =< Head(l).expire

(* A new session at the end agrees with the hash that binds its key to it. *)
LEMMA LinksSession ==
  ASSUME SessionInv, NEW k \in Keys, NEW b \in Backends, NEW r \in WithoutOld(k), NEW g,
         Binds(g, k, Session(k, b, now + sess_ttl))
  PROVE  /\ ListInv(g, Append(r, Session(k, b, now + sess_ttl)))
         /\ LinkedLast(Append(r, Session(k, b, now + sess_ttl)), r, Session(k, b, now + sess_ttl))
<1> DEFINE s == Session(k, b, now + sess_ttl)
           h == IF Bound(k) THEN Dropped(hash, {hash[k]}) ELSE hash
<1>1. /\ s \in AnySession /\ s.key = k /\ s # NoSession /\ s.expire = now + sess_ttl
      /\ \A x \in AnySession : x.expire \in Nat /\ x.expire =< s.expire
  BY SessionTypes DEF SessionInv, Session
<1>2. /\ hash \in [Keys -> {NoSession} \cup AnySession] /\ head \in Seq(AnySession)
  BY DEF SessionInv, TypeOK
<1>3. /\ r \in Seq(AnySession) /\ ListInv(h, r)
      /\ r # <<>> => head # <<>> /\ Head(head).expire =< Head(r).expire
  <2>1. CASE Bound(k)
    BY <2>1, DropsSessions DEF session_unlink, WithoutOld
  <2>2. CASE ~Bound(k)
    <3>1. head # <<>> => Head(head) \in AnySession
      BY <1>2, HeadTailProperties
    <3>2. head # <<>> => Head(head).expire =< Head(head).expire
      BY <1>1, <3>1
    <3> QED
      BY <1>2, <2>2, <3>2 DEF SessionInv, WithoutOld
  <2> QED
    BY <2>1, <2>2
<1>4. /\ h[k] = NoSession
      /\ \A x \in Keys : x # k => h[x] = hash[x]
  <2>1. CASE Bound(k)
    <3>1. \A x \in Keys : x # k => hash[x] # hash[k]
      BY <2>1 DEF Bound, SessionInv, ListInv, Hashed
    <3> QED
      BY <2>1, <3>1 DEF Dropped
  <2>2. CASE ~Bound(k)
    BY <1>2, <2>2 DEF Bound
  <2> QED
    BY <2>1, <2>2
<1> HIDE DEF h, s
<1>5. \A x \in Keys : g[x] = IF x = k THEN s ELSE h[x]
  BY <1>2, <1>4 DEF s, Binds
<1>6. \A i \in DOMAIN r : r[i].expire =< s.expire
  BY <1>1, <1>3, LenProperties, ElementOfSeq
<1>7. /\ Append(r, s) \in Seq(AnySession) /\ Append(r, s) # <<>>
      /\ ListInv(g, Append(r, s))
      /\ Head(Append(r, s)) = IF r = <<>> THEN s ELSE Head(r)
      /\ Len(Append(r, s)) = 1 <=> r = <<>>
  BY <1>1, <1>3, <1>4, <1>5, <1>6, Appends
<1> QED
  BY <1>3, <1>7 DEF s, LinkedLast

(* A session is added: the job is armed if the list was empty.             *)
LEMMA AddsSession ==
  ASSUME SessionInv, NEW k \in Keys, NEW b \in Backends, service_session_add(k, b)
  PROVE  SessionInv'
<1> DEFINE s == Session(k, b, now + sess_ttl)
<1>1. PICK r \in WithoutOld(k) : head' = Append(r, s)
  BY DEF service_session_add, session_link_at_tail
<1>2. hash' = [hash EXCEPT ![k] = s] /\ now' = now
  BY DEF service_session_add
<1>3. hash \in [Keys -> {NoSession} \cup AnySession] /\ s \in AnySession
  BY SessionTypes DEF SessionInv, TypeOK
<1>4. /\ hash' \in [Keys -> {NoSession} \cup AnySession]
      /\ ListInv(hash', head') /\ LinkedLast(head', r, s)
  <2>1. hash' \in [Keys -> {NoSession} \cup AnySession] /\ Binds(hash', k, s)
    BY <1>2, <1>3 DEF Binds
  <2>2. ListInv(hash', Append(r, s)) /\ LinkedLast(Append(r, s), r, s)
    BY <2>1, LinksSession, Zenon
  <2> QED
    BY <1>1, <2>1, <2>2
<1>5. /\ s.expire \in Nat /\ IsJobBag(jobs) /\ armed \in Nat
      /\ \A x \in AnySession : x.expire \in Nat
  BY SessionTypes DEF SessionInv, TypeOK, Session
<1>6. AnySession' = AnySession
  BY <1>2 DEF AnySession
<1> HIDE DEF s
<1>7. CASE FirstInList(head')
  <2>1. jobs' = Arm(jobs, s.expire) /\ armed' = armed + 1
    BY <1>7 DEF service_session_add, s
  <2>2. IsJobBag(jobs') /\ s.expire \in DOMAIN jobs'
    <3>1. /\ IsJobBag(Arm(jobs, s.expire))
          /\ DOMAIN Arm(jobs, s.expire) = DOMAIN jobs \cup {s.expire}
      BY <1>5, ArmEffect, Zenon
    <3> QED
      BY <2>1, <3>1
  <2>3. TypeOK'
    BY <1>2, <1>4, <1>5, <1>6, <2>1, <2>2 DEF TypeOK, IsJobBag, SessionInv, LinkedLast
  <2>4. Head(head') = s
    BY <1>4, <1>7 DEF FirstInList, LinkedLast
  <2>5. s.expire =< Head(head').expire
    BY <1>5, <2>4
  <2>6. ExpiryJobPending'
    BY <2>2, <2>5 DEF ExpiryJobPending, BagToSet
  <2> QED
    BY <1>4, <2>3, <2>6 DEF SessionInv
<1>8. CASE ~FirstInList(head')
  <2>1. UNCHANGED <<jobs, armed>>
    BY <1>8 DEF service_session_add
  <2>2. TypeOK'
    BY <1>2, <1>4, <1>5, <1>6, <2>1 DEF TypeOK, IsJobBag, SessionInv, LinkedLast
  <2>3. head # <<>> /\ Head(head).expire =< Head(head').expire
    BY <1>4, <1>8 DEF FirstInList, LinkedLast
  <2>4. Head(head).expire \in Nat /\ Head(head').expire \in Nat
    BY <1>4, <1>5, <2>3, HeadTailProperties DEF SessionInv, TypeOK, LinkedLast
  <2>5. PICK ts \in DOMAIN jobs : ts =< Head(head).expire
    BY <2>3 DEF SessionInv, ExpiryJobPending, BagToSet
  <2>6. ts \in Nat /\ ts =< Head(head').expire
    BY <1>5, <2>3, <2>4, <2>5 DEF IsJobBag
  <2>7. ExpiryJobPending'
    BY <2>1, <2>6 DEF ExpiryJobPending, BagToSet
  <2> QED
    BY <1>4, <2>2, <2>7 DEF SessionInv
<1> QED
  BY <1>7, <1>8

(* A pending job stays in time for a list whose first session does not     *)
(* expire earlier.                                                         *)
LEMMA StillPending ==
  ASSUME SessionInv, NEW l \in Seq(AnySession),
         l # <<>> => head # <<>> /\ Head(head).expire =< Head(l).expire
  PROVE  l # <<>> => \E ts \in DOMAIN jobs : ts =< Head(l).expire
<1> SUFFICES ASSUME l # <<>> PROVE \E ts \in DOMAIN jobs : ts =< Head(l).expire
  OBVIOUS
<1>1. head # <<>> /\ head \in Seq(AnySession)
  BY DEF SessionInv, TypeOK
<1>2. Head(head).expire \in Nat /\ Head(l).expire \in Nat
  BY <1>1, SessionTypes, HeadTailProperties DEF SessionInv
<1>3. PICK ts \in DOMAIN jobs : ts =< Head(head).expire
  BY <1>1 DEF SessionInv, ExpiryJobPending, BagToSet
<1>4. ts \in Nat
  BY SessionTypes DEF SessionInv, IsJobBag
<1> QED
  BY <1>2, <1>3, <1>4

(* A session is found, and promoted.                                       *)
LEMMA FindsSession ==
  ASSUME SessionInv, NEW k \in Keys, service_session_find(k)
  PROVE  SessionInv'
<1> DEFINE b == hash[k].backend
           s == Session(k, b, now + sess_ttl)
<1>1. Bound(k) /\ UNCHANGED <<now, jobs, armed>>
  BY DEF service_session_find
<1>2. hash \in [Keys -> {NoSession} \cup AnySession] /\ hash[k] \in AnySession /\ hash[k].key = k
  BY <1>1 DEF SessionInv, TypeOK, Bound, ListInv, Hashed
<1>3. b \in Backends /\ [hash[k] EXCEPT !.expire = Renewed(hash[k])] = s
  BY <1>2 DEF AnySession, Renewed, Session
<1>4. s \in AnySession
  BY <1>3, SessionTypes DEF SessionInv
<1>5. PICK r \in session_unlink(head, hash[k]) : head' = Append(r, s)
  BY <1>3 DEF service_session_find, session_link_at_tail
<1>6. hash' = [hash EXCEPT ![k] = s]
  BY <1>3 DEF service_session_find
<1> HIDE DEF b
<1>7. /\ hash' \in [Keys -> {NoSession} \cup AnySession]
      /\ ListInv(hash', head') /\ LinkedLast(head', r, s)
  <2>1. hash' \in [Keys -> {NoSession} \cup AnySession] /\ Binds(hash', k, s)
    BY <1>2, <1>4, <1>6 DEF Binds
  <2>2. r \in WithoutOld(k)
    BY <1>1 DEF WithoutOld
  <2>3. ListInv(hash', Append(r, s)) /\ LinkedLast(Append(r, s), r, s)
    BY <1>3, <2>1, <2>2, LinksSession, Zenon
  <2> QED
    BY <1>5, <2>1, <2>3
<1>8. AnySession' = AnySession
  BY <1>1 DEF AnySession
<1>9. TypeOK'
  BY <1>1, <1>7, <1>8 DEF SessionInv, TypeOK, LinkedLast
<1>10. \E ts \in DOMAIN jobs : ts =< Head(head').expire
  <2>1. CASE r = <<>>
    <3>1. Head(head').expire = now + sess_ttl
      BY <1>7, <2>1 DEF LinkedLast, Session
    <3>2. PICK i \in DOMAIN head : head[i] = hash[k]
      BY <1>1 DEF SessionInv, ListInv, Hashed, Bound
    <3>3. head \in Seq(AnySession)
      BY DEF SessionInv, TypeOK
    <3>4. head # <<>> /\ Head(head) \in AnySession
      BY <3>2, <3>3, HeadTailProperties, LenProperties
    <3>5. PICK ts \in DOMAIN jobs : ts =< Head(head).expire
      BY <3>4 DEF SessionInv, ExpiryJobPending, BagToSet
    <3>6. /\ ts \in Nat /\ Head(head).expire \in Nat
          /\ Head(head).expire =< now + sess_ttl /\ now + sess_ttl \in Nat
      BY <3>4, SessionTypes DEF SessionInv, IsJobBag
    <3>7. ts =< now + sess_ttl
      BY <3>5, <3>6
    <3> QED
      BY <3>1, <3>7
  <2>2. CASE r # <<>>
    BY <1>7, <2>2, StillPending DEF LinkedLast
  <2> QED
    BY <2>1, <2>2
<1> QED
  BY <1>1, <1>7, <1>9, <1>10 DEF SessionInv, ExpiryJobPending, BagToSet

(* Sessions are removed, by key or by backend.                             *)
LEMMA RemovesSessions ==
  ASSUME SessionInv, NEW S, head' \in Without(head, S), hash' = Dropped(hash, S),
         UNCHANGED <<now, jobs, armed>>
  PROVE  SessionInv'
<1>1. /\ head' \in Seq(AnySession) /\ ListInv(hash', head')
      /\ head' # <<>> => head # <<>> /\ Head(head).expire =< Head(head').expire
  BY DropsSessions
<1>2. AnySession' = AnySession
  BY DEF AnySession
<1>3. hash' \in [Keys -> {NoSession} \cup AnySession]
  BY DEF Dropped, SessionInv, TypeOK
<1>4. TypeOK'
  BY <1>1, <1>2, <1>3 DEF SessionInv, TypeOK
<1>5. ExpiryJobPending'
  BY <1>1, StillPending DEF ExpiryJobPending, BagToSet
<1> QED
  BY <1>1, <1>4, <1>5 DEF SessionInv

(* service_session_remove_by_key keeps the invariant.                      *)
LEMMA RemovesByKey ==
  ASSUME SessionInv, NEW k \in Keys, service_session_remove_by_key(k)
  PROVE  SessionInv'
<1>1. /\ Bound(k) /\ hash' = [hash EXCEPT ![k] = NoSession]
      /\ head' \in Without(head, {hash[k]}) /\ UNCHANGED <<now, jobs, armed>>
  BY DEF service_session_remove_by_key, session_unlink
<1>2. hash \in [Keys -> {NoSession} \cup AnySession]
  BY DEF SessionInv, TypeOK
<1>3. \A x \in Keys : x # k => hash[x] # hash[k]
  BY <1>1 DEF Bound, SessionInv, ListInv, Hashed
<1>4. hash' = Dropped(hash, {hash[k]})
  BY <1>1, <1>2, <1>3 DEF Dropped
<1> QED
  BY <1>1, <1>4, RemovesSessions

(* service_session_remove_by_backend keeps the invariant.                  *)
LEMMA RemovesByBackend ==
  ASSUME SessionInv, NEW b \in Backends, service_session_remove_by_backend(b)
  PROVE  SessionInv'
<1> DEFINE S == {s \in ToSet(head) : s.backend = b}
<1>1. /\ hash' = [k \in Keys |-> IF hash[k].backend = b THEN NoSession ELSE hash[k]]
      /\ head' \in Without(head, S) /\ UNCHANGED <<now, jobs, armed>>
  BY DEF service_session_remove_by_backend
<1>2. ASSUME NEW k \in Keys PROVE hash[k].backend = b <=> hash[k] \in S
  <2>1. CASE hash[k] = NoSession
    <3>1. hash[k].backend # b
      BY <2>1, SessionAssumption DEF NoSession, Session
    <3> QED
      BY <3>1
  <2>2. CASE hash[k] # NoSession
    <3>1. PICK i \in DOMAIN head : head[i] = hash[k]
      BY <2>2 DEF SessionInv, ListInv, Hashed
    <3>2. hash[k] \in ToSet(head)
      BY <3>1 DEF ToSet
    <3> QED
      BY <3>2
  <2> QED
    BY <2>1, <2>2
<1> HIDE DEF S
<1>3. hash' = Dropped(hash, S)
  BY <1>1, <1>2 DEF Dropped
<1> QED
  BY <1>1, <1>3, RemovesSessions

-----------------------------------------------------------------------------
(* The job takes the expired sessions off the head of the list, and arms   *)
(* itself for the first of the others.                                     *)
LEMMA ExpiresSessions ==
  ASSUME SessionInv, NEW ts \in DOMAIN jobs, expire_sessions(ts)
  PROVE  SessionInv'
<1>1. PICK n \in FirstLeft(head, ts) :
       /\ hash' = [k \in Keys |-> IF \E i \in 1 .. n - 1 : hash[k] = head[i]
                                 THEN NoSession ELSE hash[k]]
       /\ head' = SubSeq(head, n, Len(head))
       /\ jobs' = Rearm(jobs (-) SetToBag({ts}), head')
  BY DEF expire_sessions
<1>2. UNCHANGED <<now, armed>>
  BY DEF expire_sessions
<1>3. /\ head \in Seq(AnySession) /\ \A x \in AnySession : x.expire \in Nat
      /\ IsJobBag(jobs) /\ ts \in Nat
  BY SessionTypes DEF SessionInv, TypeOK, IsJobBag
<1>4. n \in 1 .. Len(head) + 1 /\ DOMAIN head = 1 .. Len(head) /\ Len(head) \in Nat
  BY <1>3, LenProperties DEF FirstLeft
<1>5. /\ head' \in Seq(AnySession)
      /\ \E f : /\ Embeds(head, head', f)
                /\ \A i \in DOMAIN head : Stays(head', f, i) <=> i >= n
  BY <1>1, <1>3, <1>4, SuffixEffect
<1>6. PICK f : /\ Embeds(head, head', f)
               /\ \A i \in DOMAIN head : Stays(head', f, i) <=> i >= n
  BY <1>5
<1>7. ASSUME NEW k \in Keys
      PROVE  hash'[k] = IF \E i \in DOMAIN head : hash[k] = head[i] /\ ~Stays(head', f, i)
                        THEN NoSession ELSE hash[k]
  <2>1. hash'[k] = IF \E i \in 1 .. n - 1 : hash[k] = head[i] THEN NoSession ELSE hash[k]
    BY <1>1
  <2>2. \A i : i \in 1 .. n - 1 <=> i \in DOMAIN head /\ ~(i >= n)
    BY <1>4
  <2> QED
    BY <1>6, <2>1, <2>2
<1>8. ListInv(hash', head')
  <2> HIDE DEF SessionInv
  <2>1. ListInv(hash, head)
    BY DEF SessionInv
  <2> QED
    BY <1>3, <1>5, <1>6, <1>7, <2>1, Removes
<1>9. AnySession' = AnySession
  BY <1>2 DEF AnySession
<1>10. hash' \in [Keys -> {NoSession} \cup AnySession]
  BY <1>1 DEF SessionInv, TypeOK
<1>11. IsJobBag(jobs') /\ ExpiryJobPending'
  <2> DEFINE js == jobs (-) SetToBag({ts})
  <2>1. IsJobBag(js)
    BY <1>3, DropEffect
  <2> HIDE DEF js
  <2>2. CASE head' = <<>>
    BY <1>1, <2>1, <2>2 DEF Rearm, ExpiryJobPending, js
  <2>3. CASE head' # <<>>
    <3> DEFINE e == Head(head').expire
    <3>1. e \in Nat
      BY <1>3, <1>5, <2>3, HeadTailProperties
    <3>2. jobs' = Arm(js, e)
      BY <1>1, <2>3 DEF Rearm, js
    <3> HIDE DEF e
    <3>3. IsJobBag(Arm(js, e)) /\ DOMAIN Arm(js, e) = DOMAIN js \cup {e}
      BY <2>1, <3>1, ArmEffect, Zenon
    <3>4. IsJobBag(jobs') /\ e \in DOMAIN jobs'
      BY <3>2, <3>3
    <3>5. e =< e
      BY <3>1
    <3> QED
      BY <3>4, <3>5 DEF ExpiryJobPending, BagToSet, e
  <2> QED
    BY <2>2, <2>3
<1>12. TypeOK'
  BY <1>2, <1>5, <1>9, <1>10, <1>11 DEF SessionInv, TypeOK, IsJobBag
<1> QED
  BY <1>8, <1>11, <1>12 DEF SessionInv

(* Every step keeps the invariant.                                         *)
LEMMA NextSessions == SessionInv /\ [Next]_vars => SessionInv'
<1> SUFFICES ASSUME SessionInv, [Next]_vars PROVE SessionInv'
  OBVIOUS
<1>1. CASE \E k \in Keys : \/ \E b \in Backends : service_session_add(k, b)
                           \/ service_session_find(k)
                           \/ service_session_remove_by_key(k)
  BY <1>1, AddsSession, FindsSession, RemovesByKey
<1>2. CASE \E b \in Backends : service_session_remove_by_backend(b)
  BY <1>2, RemovesByBackend
<1>3. CASE \E ts \in BagToSet(jobs) : expire_sessions(ts)
  BY <1>3, ExpiresSessions DEF BagToSet
<1>4. CASE Tick
  <2>1. now' = now + 1 /\ UNCHANGED <<hash, head, jobs, armed>>
    BY <1>4 DEF Tick
  <2>2. AnySession \subseteq AnySession'
    BY <2>1, SessionTypes DEF AnySession, SessionInv
  <2>3. head \in Seq(AnySession')
    BY <2>2, SeqMonotonic DEF SessionInv, TypeOK
  <2>4. hash \in [Keys -> {NoSession} \cup AnySession']
    BY <2>2 DEF SessionInv, TypeOK
  <2>5. now' \in Nat
    BY <2>1 DEF SessionInv, TypeOK
  <2>6. TypeOK'
    BY <2>1, <2>3, <2>4, <2>5 DEF SessionInv, TypeOK
  <2> QED
    BY <2>1, <2>6 DEF SessionInv, ExpiryJobPending
<1>5. CASE UNCHANGED vars
  <2>1. UNCHANGED <<now, hash, head, jobs, armed>>
    BY <1>5 DEF vars
  <2> QED
    BY <2>1 DEF SessionInv, TypeOK, AnySession, ExpiryJobPending
<1> QED
  BY <1>1, <1>2, <1>3, <1>4, <1>5 DEF Next

-----------------------------------------------------------------------------
(* The session table stays sound through additions, promotions, removals   *)
(* and expirations.                                                        *)
THEOREM SessionsCorrect == Spec => []SessionInv
  BY InitSessions, NextSessions, PTL DEF Spec

(* The hash and the list of a session table hold the same sessions, each   *)
(* once, after any sequence of operations of svc.c.                        *)
THEOREM HashMatchesList == Spec => []ListHashAgree
<1>1. ASSUME SessionInv PROVE ListHashAgree
  <2>1. ToSet(head) \subseteq {hash[k] : k \in {x \in Keys : Bound(x)}}
    <3> SUFFICES ASSUME NEW i \in DOMAIN head
                 PROVE  head[i] \in {hash[k] : k \in {x \in Keys : Bound(x)}}
      BY DEF ToSet
    <3>1. head[i] # NoSession /\ head[i].key \in Keys /\ hash[head[i].key] = head[i]
      BY <1>1 DEF SessionInv, ListInv, Linked
    <3> QED
      BY <3>1 DEF Bound
  <2>2. {hash[k] : k \in {x \in Keys : Bound(x)}} \subseteq ToSet(head)
    BY <1>1 DEF SessionInv, ListInv, Hashed, Bound, ToSet
  <2>3. \A k \in Keys : Bound(k) => hash[k].key = k
    BY <1>1 DEF SessionInv, ListInv, Hashed, Bound
  <2>4. IsInjective(head)
    BY <1>1 DEF SessionInv, ListInv, Once, IsInjective
  <2> QED
    BY <2>1, <2>2, <2>3, <2>4 DEF ListHashAgree
<1> QED
  BY <1>1, SessionsCorrect, PTL

(* A job to expire sessions is pending, in time, whenever there is one.    *)
THEOREM ExpiryPending == Spec => []ExpiryJobPending
<1>1. SessionInv => ExpiryJobPending
  BY DEF SessionInv
<1> QED
  BY <1>1, SessionsCorrect, PTL

(* expire_sessions takes the sessions that have expired by its time, and   *)
(* no other: the list is in the order of expiration.                       *)
THEOREM ExpiredTaken == Spec => ExpiryExact
<1> DEFINE Taken(ts) ==
             /\ ts =< now
             /\ hash' = [k \in Keys |-> IF hash[k].expire =< ts THEN NoSession ELSE hash[k]]
           Exact == armed' = armed /\ jobs' # jobs => \E ts \in BagToSet(jobs) : Taken(ts)
<1>1. ASSUME SessionInv, [Next]_vars PROVE [Exact]_vars
  <2> SUFFICES ASSUME armed' = armed, jobs' # jobs
               PROVE  \E ts \in BagToSet(jobs) : Taken(ts)
    OBVIOUS
  <2>1. armed \in Nat /\ \A x \in AnySession : x.expire \in Nat
    BY <1>1, SessionTypes DEF SessionInv, TypeOK
  <2>2. \E ts \in BagToSet(jobs) : expire_sessions(ts)
    <3>1. ~\E x \in Keys, b \in Backends : service_session_add(x, b)
      BY <2>1 DEF service_session_add
    <3> QED
      BY <1>1, <3>1 DEF Next, vars, service_session_find, service_session_remove_by_key,
                        service_session_remove_by_backend, Tick
  <2>3. PICK ts \in BagToSet(jobs) : expire_sessions(ts)
    BY <2>2
  <2>4. PICK n \in FirstLeft(head, ts) :
          hash' = [x \in Keys |-> IF \E i \in 1 .. n - 1 : hash[x] = head[i]
                                  THEN NoSession ELSE hash[x]]
    BY <2>3 DEF expire_sessions
  <2>5. ts =< now /\ ts \in Nat /\ now \in Nat
    BY <1>1, <2>3 DEF expire_sessions, SessionInv, TypeOK, BagToSet
  <2>6. /\ head \in Seq(AnySession) /\ Len(head) \in Nat /\ DOMAIN head = 1 .. Len(head)
        /\ n \in 1 .. Len(head) + 1 /\ \A i \in 1 .. n - 1 : head[i].expire =< ts
        /\ n =< Len(head) => ~(head[n].expire =< ts)
    BY <1>1 DEF SessionInv, TypeOK, FirstLeft, Expired
  <2>7. \A i \in DOMAIN head : head[i].expire \in Nat
    BY <2>1, <2>6, ElementOfSeq, LenProperties
  <2>8. ASSUME NEW i \in DOMAIN head, head[i].expire =< ts PROVE i \in 1 .. n - 1
    <3>1. SUFFICES ASSUME i >= n PROVE FALSE
      BY <2>6
    <3>2. n \in DOMAIN head /\ head[n].expire > ts
      BY <2>5, <2>6, <2>7, <3>1
    <3>3. n = i \/ head[n].expire =< head[i].expire
      BY <1>1, <2>6, <3>1, <3>2 DEF SessionInv, ListInv, Sorted
    <3> QED
      BY <2>5, <2>7, <2>8, <3>2, <3>3
  <2>9. ASSUME NEW k \in Keys
        PROVE  hash'[k] = IF hash[k].expire =< ts THEN NoSession ELSE hash[k]
    <3>1. CASE hash[k] = NoSession
      BY <2>4, <3>1
    <3>2. CASE hash[k] # NoSession
      <4>1. PICK i \in DOMAIN head : head[i] = hash[k]
        BY <1>1, <3>2 DEF SessionInv, ListInv, Hashed
      <4>2. hash[k].expire =< ts <=> \E j \in 1 .. n - 1 : hash[k] = head[j]
        BY <2>6, <2>8, <4>1
      <4> QED
        BY <2>4, <4>2
    <3> QED
      BY <3>1, <3>2
  <2>10. hash' = [k \in Keys |-> IF hash[k].expire =< ts THEN NoSession ELSE hash[k]]
    BY <2>4, <2>9
  <2> QED
    BY <2>3, <2>5, <2>10
<1> QED
  BY <1>1, SessionsCorrect, PTL DEF Spec, ExpiryExact
=============================================================================
