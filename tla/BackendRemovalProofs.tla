------------------------ MODULE BackendRemovalProofs ------------------------
(***************************************************************************)
(* Proofs about BackendRemoval, for any number of backends, workers and    *)
(* removers.                                                               *)
(***************************************************************************)
EXTENDS BackendRemoval, FiniteSetTheorems, TLAPS

Pointers == [Workers -> Backends \cup {None}]

(* The number of workers whose pointer is b.                               *)
LEMMA PointingType ==
  ASSUME NEW ptr \in Pointers, NEW b
  PROVE  /\ Pointing(ptr, b) \in Nat
         /\ \A w \in Workers : ptr[w] = b => Pointing(ptr, b) > 0
         /\ (\A w \in Workers : ptr[w] # b) => Pointing(ptr, b) = 0
<1> DEFINE S == {w \in Workers : ptr[w] = b}
<1>1. IsFiniteSet(S) /\ Cardinality(S) \in Nat
  BY RemovalAssumption, FS_Subset, FS_CardinalityType
<1>2. Cardinality(S) = 0 <=> S = {}
  BY <1>1, FS_EmptySet
<1> QED
  BY <1>1, <1>2 DEF Pointing

(* How that number changes when one worker changes its pointer.            *)
LEMMA PointingAssign ==
  ASSUME NEW ptr \in Pointers, NEW new \in Pointers, NEW w \in Workers, NEW b \in Backends,
         \A x \in Workers \ {w} : new[x] = ptr[x]
  PROVE  Pointing(new, b) =
           Pointing(ptr, b) + (IF new[w] = b THEN 1 ELSE 0) - (IF ptr[w] = b THEN 1 ELSE 0)
<1> DEFINE S == {x \in Workers : ptr[x] = b}
           T == {x \in Workers : new[x] = b}
<1>1. IsFiniteSet(S) /\ Cardinality(S) \in Nat
  BY RemovalAssumption, FS_Subset, FS_CardinalityType
<1>2. CASE new[w] = b
  <2>1. T = S \cup {w}
    BY <1>2
  <2>2. Cardinality(T) = IF w \in S THEN Cardinality(S) ELSE Cardinality(S) + 1
    <3> HIDE DEF S, T
    <3> QED
      BY <1>1, <2>1, FS_AddElement
  <2> QED
    BY <1>1, <1>2, <2>2 DEF Pointing
<1>3. CASE new[w] # b
  <2>1. T = S \ {w}
    BY <1>3
  <2>2. Cardinality(T) = IF w \in S THEN Cardinality(S) - 1 ELSE Cardinality(S)
    <3> HIDE DEF S, T
    <3> QED
      BY <1>1, <2>1, FS_RemoveElement
  <2> QED
    BY <1>1, <1>3, <2>2 DEF Pointing
<1> QED
  BY <1>2, <1>3

-----------------------------------------------------------------------------
(* select_backend has a backend in hand exactly when get_backend has       *)
(* returned and no connection has been made yet; a worker that reads a     *)
(* response has a backend.                                                 *)
WorkerPointers ==
  \A w \in Workers : /\ wpc[w] = "chosen" <=> backend[w] # None
                     /\ wpc[w] = "open" => held[w] # None

(* Nobody has a pointer to a backend before backend_create.                *)
UnbornUnknown ==
  \A b \in Backends : where[b] = "none" =>
    /\ \A w \in Workers : backend[w] # b /\ held[w] # b
    /\ touch[b] = 0 /\ leaked[b] = 0 /\ b \notin sess

(* A remover scans be_rem_head with svc->mut locked, and what it has still *)
(* to look at has not left the list.                                       *)
ScanLocked ==
  \A r \in Removers : /\ rpc[r] = "scan" <=> svcmut = r
                      /\ todo[r] # {} => svcmut = r
                      /\ todo[r] \subseteq be_rem_head

(* The jobs about to lock svc->mut are jobs.  Sessions refer to backends   *)
(* of the table, but for those made after the backend was swept.           *)
JobsAndSessions ==
  /\ \A b \in Backends : tlock[b] =< touch[b]
  /\ \A b \in sess : where[b] = "table" \/ b \in outlived

(* The inductive invariant.                                                *)
RemovalInv == /\ TypeOK /\ WorkerPointers /\ UnbornUnknown /\ ScanLocked
              /\ JobsAndSessions /\ RefcountExact /\ NoUseAfterFree /\ RemoverAround

(* The invariant holds at the start.                                       *)
LEMMA InitRemoval == Init => RemovalInv
<1> SUFFICES ASSUME Init PROVE RemovalInv
  OBVIOUS
<1>1. TypeOK
  BY RemovalAssumption DEF Init, TypeOK, All
<1>2. WorkerPointers /\ UnbornUnknown /\ ScanLocked /\ JobsAndSessions /\ RemoverAround
  BY RemovalAssumption DEF Init, All, WorkerPointers, UnbornUnknown, ScanLocked,
       JobsAndSessions, RemoverAround, be_rem_head
<1>3. \A b \in Backends : Pointing(backend, b) = 0 /\ Pointing(held, b) = 0
  BY <1>1, PointingType, RemovalAssumption DEF Init, TypeOK, Pointers
<1>4. RefcountExact /\ NoUseAfterFree
  BY <1>3 DEF Init, All, RefcountExact, NoUseAfterFree, Refs, Users
<1> QED
  BY <1>1, <1>2, <1>4 DEF RemovalInv

-----------------------------------------------------------------------------
(* backend_unref takes one reference, and starts and ends no remover: it   *)
(* may wake one that waits.                                                *)
Unreferenced(b) ==
  /\ refcount' \in [Backends -> Nat]
  /\ \A x \in Backends : refcount'[x] = refcount[x] - (IF x = b THEN 1 ELSE 0)
  /\ rpc' \in [Removers -> {"none", "lock", "scan", "wait"}]
  /\ \A r \in Removers : /\ rpc'[r] = "scan" <=> rpc[r] = "scan"
                         /\ rpc'[r] = "none" <=> rpc[r] = "none"

(* backend_unref takes one reference of a backend, and wakes removers      *)
(* only.                                                                   *)
LEMMA UnrefEffect ==
  ASSUME TypeOK, NEW b \in Backends \cup {None}, backend_unref(b),
         b # None => refcount[b] > 0
  PROVE  Unreferenced(b)
<1>1. CASE b = None
  BY <1>1, RemovalAssumption DEF backend_unref, TypeOK, Unreferenced
<1>2. CASE b # None
  <2>1. refcount' = [refcount EXCEPT ![b] = @ - 1] /\ rpc' \in WakeOne(b)
    BY <1>2 DEF backend_unref
  <2>2. refcount' \in [Backends -> Nat]
    BY <1>2, <2>1 DEF TypeOK
  <2>3. \A x \in Backends : refcount'[x] = refcount[x] - (IF x = b THEN 1 ELSE 0)
    BY <1>2, <2>1 DEF TypeOK
  <2>4. CASE rpc' = rpc
    BY <2>2, <2>3, <2>4 DEF TypeOK, Unreferenced
  <2>5. CASE \E r \in Removers : rpc[r] = "wait" /\ rpc' = [rpc EXCEPT ![r] = "lock"]
    BY <2>2, <2>3, <2>5 DEF TypeOK, Unreferenced
  <2> QED
    BY <2>1, <2>4, <2>5 DEF WakeOne
<1> QED
  BY <1>1, <1>2

(* What the invariant says of the numbers that belong to a backend.        *)
LEMMA Numbers ==
  ASSUME RemovalInv, NEW b \in Backends
  PROVE  /\ Users(b) \in Nat /\ touch[b] \in Nat /\ leaked[b] \in Nat /\ refcount[b] \in Nat
         /\ refcount[b] = Users(b) + (IF where[b] = "table" THEN 1 ELSE 0) + leaked[b]
         /\ \A w \in Workers : backend[w] = b \/ held[w] = b => Users(b) > 0
         /\ touch[b] > 0 => Users(b) > 0
         /\ where[b] = "none" => Users(b) = 0
<1>1. backend \in Pointers /\ held \in Pointers
  BY DEF RemovalInv, TypeOK, Pointers
<1>2. /\ Pointing(backend, b) \in Nat /\ Pointing(held, b) \in Nat
      /\ \A w \in Workers : backend[w] = b => Pointing(backend, b) > 0
      /\ \A w \in Workers : held[w] = b => Pointing(held, b) > 0
      /\ (\A w \in Workers : backend[w] # b) => Pointing(backend, b) = 0
      /\ (\A w \in Workers : held[w] # b) => Pointing(held, b) = 0
  BY <1>1, PointingType
<1>3. touch[b] \in Nat /\ leaked[b] \in Nat /\ refcount[b] \in Nat
  BY RemovalAssumption DEF RemovalInv, TypeOK
<1>4. Users(b) \in Nat
  BY <1>2, <1>3 DEF Users
<1>5. refcount[b] = Users(b) + (IF where[b] = "table" THEN 1 ELSE 0) + leaked[b]
  BY <1>4 DEF RemovalInv, RefcountExact, Refs
<1>6. \A w \in Workers : backend[w] = b \/ held[w] = b => Users(b) > 0
  BY <1>2, <1>3 DEF Users
<1>7. touch[b] > 0 => Users(b) > 0
  BY <1>2, <1>3 DEF Users
<1>8. where[b] = "none" => Users(b) = 0
  BY <1>2, <1>3 DEF Users, RemovalInv, UnbornUnknown
<1> QED
  BY <1>3, <1>4, <1>5, <1>6, <1>7, <1>8

(* The pointers of a worker to a backend, and how many use a backend after *)
(* a worker has changed its pointers.                                      *)
Mine(w, b) == (IF backend[w] = b THEN 1 ELSE 0) + (IF held[w] = b THEN 1 ELSE 0)

(* The users of a backend change by what the worker changes, and its job.  *)
LEMMA UsersAssigned ==
  ASSUME RemovalInv, TypeOK', NEW w \in Workers,
         \A x \in Workers \ {w} : backend'[x] = backend[x],
         \A x \in Workers \ {w} : held'[x] = held[x],
         NEW b \in Backends
  PROVE  Users(b)' = Users(b) + Mine(w, b)' - Mine(w, b) + touch'[b] - touch[b]
<1>1. backend \in Pointers /\ held \in Pointers /\ backend' \in Pointers /\ held' \in Pointers
  BY DEF RemovalInv, TypeOK, Pointers
<1>2. /\ Pointing(backend', b) = Pointing(backend, b) + (IF backend'[w] = b THEN 1 ELSE 0)
                                   - (IF backend[w] = b THEN 1 ELSE 0)
      /\ Pointing(held', b) = Pointing(held, b) + (IF held'[w] = b THEN 1 ELSE 0)
                                - (IF held[w] = b THEN 1 ELSE 0)
  BY <1>1, PointingAssign
<1>3. Pointing(backend, b) \in Nat /\ Pointing(held, b) \in Nat
  BY <1>1, PointingType
<1>4. touch[b] \in Nat /\ touch'[b] \in Nat
  BY RemovalAssumption DEF RemovalInv, TypeOK
<1> QED
  BY <1>2, <1>3, <1>4 DEF Users, Mine

(* Updates and removers change no pointer.                                 *)
LEMMA UsersUnchanged ==
  ASSUME UNCHANGED <<wvars, touch>>, NEW b \in Backends
  PROVE  Users(b)' = Users(b)
  BY DEF Users, Pointing, wvars

-----------------------------------------------------------------------------
(* Updates.  What is swept loses the reference of the table.               *)
LEMMA AddrUpdateInv ==
  ASSUME RemovalInv, NEW old \in SUBSET Backends, NEW new \in SUBSET Backends,
         AddrUpdate(old, new)
  PROVE  RemovalInv'
<1>1. /\ \A b \in old : where[b] = "table"
      /\ \A b \in new : where[b] = "none"
  BY DEF AddrUpdate, Table
<1>2. /\ where' = [b \in Backends |-> IF b \in old THEN "removed"
                                      ELSE IF b \in new THEN "table" ELSE where[b]]
      /\ refcount' = [b \in Backends |-> IF b \in new THEN 1
                        ELSE IF b \in old THEN refcount[b] - 1 ELSE refcount[b]]
      /\ sess' = sess \ old
      /\ UNCHANGED <<alive, sessions, leaked, outlived, wvars, tvars, crashed, unattended,
                     todo, svcmut>>
  BY DEF AddrUpdate, Sweep, DropRefs
<1>3. \/ \E r \in Removers : rpc[r] = "none" /\ rpc' = [rpc EXCEPT ![r] = "lock"]
      \/ be_rem_head \cup old = {} /\ rpc' = rpc
  BY DEF AddrUpdate
<1>4. \A b \in Backends : Users(b)' = Users(b)
  BY <1>2, UsersUnchanged DEF tvars
<1>5. \A b \in Backends : where'[b] = "none" => where[b] = "none"
  BY <1>2
<1>6. refcount' \in [Backends -> Nat]
  BY <1>1, <1>2, Numbers
<1>7. TypeOK'
  <2>1. where' \in [Backends -> {"none", "table", "removed", "freed"}]
    BY <1>2 DEF RemovalInv, TypeOK
  <2>2. rpc' \in [Removers -> {"none", "lock", "scan", "wait"}]
    BY <1>3 DEF RemovalInv, TypeOK
  <2> QED
    BY <1>2, <1>6, <2>1, <2>2 DEF RemovalInv, TypeOK, wvars, tvars
<1>8. WorkerPointers' /\ UnbornUnknown'
  BY <1>2, <1>5 DEF RemovalInv, WorkerPointers, UnbornUnknown, wvars, tvars
<1>9. JobsAndSessions'
  BY <1>1, <1>2 DEF RemovalInv, TypeOK, JobsAndSessions, UnbornUnknown, tvars
<1>10. be_rem_head' = be_rem_head \cup old
  BY <1>1, <1>2 DEF be_rem_head
<1>11. ScanLocked'
  BY <1>2, <1>3, <1>10 DEF RemovalInv, ScanLocked, TypeOK
<1>12. RemoverAround'
  <2>1. CASE rpc' = rpc /\ be_rem_head' = {}
    BY <2>1 DEF RemoverAround
  <2>2. CASE \E r \in Removers : rpc' = [rpc EXCEPT ![r] = "lock"]
    BY <2>2 DEF RemoverAround, RemovalInv, TypeOK
  <2> QED
    BY <1>3, <1>10, <2>1, <2>2
<1>13. RefcountExact'
  <2> SUFFICES ASSUME NEW b \in Backends PROVE refcount'[b] = Refs(b)' + leaked'[b]
    BY DEF RefcountExact
  <2>1. /\ refcount[b] = Users(b) + (IF where[b] = "table" THEN 1 ELSE 0) + leaked[b]
        /\ where[b] = "none" => Users(b) = 0 /\ leaked[b] = 0
        /\ refcount[b] \in Nat /\ Users(b) \in Nat /\ leaked[b] \in Nat
    BY Numbers DEF RemovalInv, UnbornUnknown
  <2>2. CASE b \in new
    BY <1>1, <1>2, <1>4, <2>1, <2>2 DEF Refs
  <2>3. CASE b \in old
    BY <1>1, <1>2, <1>4, <2>1, <2>3 DEF Refs
  <2>4. CASE b \notin old \cup new
    BY <1>2, <1>4, <2>1, <2>4 DEF Refs
  <2> QED
    BY <2>2, <2>3, <2>4
<1>14. NoUseAfterFree'
  BY <1>1, <1>2, <1>4 DEF RemovalInv, NoUseAfterFree
<1> QED
  BY <1>7, <1>8, <1>9, <1>11, <1>12, <1>13, <1>14 DEF RemovalInv

(* A matrix that is disabled or no longer listed.                          *)
LEMMA MatrixSweptInv ==
  ASSUME RemovalInv, MatrixSwept
  PROVE  RemovalInv'
<1>1. /\ where' = [b \in Backends |-> IF b \in Table THEN "removed" ELSE where[b]]
      /\ refcount' = [b \in Backends |-> IF b \in Table THEN refcount[b] - 1 ELSE refcount[b]]
      /\ sess' = sess \ Table /\ unattended' = unattended \cup Table
      /\ UNCHANGED <<alive, sessions, leaked, outlived, wvars, tvars, crashed, rvars>>
  BY DEF MatrixSwept, Sweep, DropRefs
<1>2. \A b \in Backends : b \in Table <=> where[b] = "table"
  BY DEF Table
<1>3. \A b \in Backends : Users(b)' = Users(b)
  BY <1>1, UsersUnchanged DEF tvars
<1>4. \A b \in Backends : where'[b] = "none" => where[b] = "none"
  BY <1>1
<1>5. refcount' \in [Backends -> Nat]
  BY <1>1, <1>2, Numbers
<1>6. TypeOK'
  BY <1>1, <1>5 DEF RemovalInv, TypeOK, wvars, tvars, rvars, Table
<1>7. WorkerPointers' /\ UnbornUnknown' /\ JobsAndSessions'
  BY <1>1, <1>2, <1>4 DEF RemovalInv, TypeOK, WorkerPointers, UnbornUnknown, JobsAndSessions,
       wvars, tvars
<1>8. be_rem_head' = be_rem_head \cup Table
  BY <1>1, <1>2 DEF be_rem_head, Table
<1>9. ScanLocked' /\ RemoverAround'
  BY <1>1, <1>8 DEF RemovalInv, ScanLocked, RemoverAround, rvars
<1>10. RefcountExact'
  BY <1>1, <1>2, <1>3, Numbers DEF RefcountExact, Refs
<1>11. NoUseAfterFree'
  BY <1>1, <1>2, <1>3 DEF RemovalInv, NoUseAfterFree
<1> QED
  BY <1>6, <1>7, <1>9, <1>10, <1>11 DEF RemovalInv

-----------------------------------------------------------------------------
(* Workers.  get_backend takes a reference for the worker.                 *)
LEMMA GetBackendInv ==
  ASSUME RemovalInv, NEW w \in Workers, get_backend(w)
  PROVE  RemovalInv'
<1>1. PICK b \in {x \in Table : alive[x]} \cup sess :
         /\ refcount' = [refcount EXCEPT ![b] = @ + 1]
         /\ backend' = [backend EXCEPT ![w] = b]
         /\ sess' \in IF sessions THEN {sess, sess \cup {b}} ELSE {sess}
  BY DEF get_backend, backend_ref
<1>2. /\ wpc[w] = "idle" /\ wpc' = [wpc EXCEPT ![w] = "chosen"]
      /\ UNCHANGED <<hist, where, alive, held, gone, tvars, rvars, crashed>>
  BY DEF get_backend
<1>3. /\ b \in Backends /\ b # None /\ where[b] # "none"
      /\ where[b] = "table" \/ b \in outlived
  BY RemovalAssumption DEF RemovalInv, TypeOK, Table, UnbornUnknown, JobsAndSessions
<1>4. TypeOK'
  BY <1>1, <1>2, <1>3 DEF RemovalInv, TypeOK, hist, tvars, rvars
<1>5. backend[w] = None
  BY <1>2 DEF RemovalInv, WorkerPointers
<1>6. WorkerPointers'
  BY <1>1, <1>2, <1>3 DEF RemovalInv, TypeOK, WorkerPointers
<1>7. UnbornUnknown' /\ JobsAndSessions'
  BY <1>1, <1>2, <1>3 DEF RemovalInv, TypeOK, UnbornUnknown, JobsAndSessions, hist, tvars
<1>8. ScanLocked' /\ RemoverAround'
  BY <1>2 DEF RemovalInv, ScanLocked, RemoverAround, be_rem_head, hist, rvars
<1>9. \A x \in Backends : Users(x)' = Users(x) + (IF x = b THEN 1 ELSE 0)
  <2>1. /\ \A x \in Workers \ {w} : backend'[x] = backend[x]
        /\ held' = held /\ touch' = touch /\ backend'[w] = b
    BY <1>1, <1>2 DEF tvars, RemovalInv, TypeOK
  <2> SUFFICES ASSUME NEW x \in Backends
               PROVE  Users(x)' = Users(x) + (IF x = b THEN 1 ELSE 0)
    OBVIOUS
  <2>2. Users(x)' = Users(x) + Mine(w, x)' - Mine(w, x) + touch'[x] - touch[x]
    BY <1>4, <2>1, UsersAssigned
  <2> QED
    BY <1>3, <1>5, <2>1, <2>2, Numbers, RemovalAssumption DEF Mine
<1>10. RefcountExact'
  <2> SUFFICES ASSUME NEW x \in Backends
               PROVE  refcount'[x] = Refs(x)' + leaked'[x]
    BY DEF RefcountExact
  <2>1. refcount'[x] = refcount[x] + (IF x = b THEN 1 ELSE 0)
    BY <1>1, <1>3, Numbers DEF RemovalInv, TypeOK
  <2>2. where'[x] = where[x] /\ leaked'[x] = leaked[x]
    BY <1>2 DEF hist
  <2>3. refcount[x] = Refs(x) + leaked[x]
    BY DEF RemovalInv, RefcountExact
  <2> QED
    BY <1>9, <2>1, <2>2, <2>3, Numbers DEF Refs
<1>11. NoUseAfterFree'
  <2> SUFFICES ASSUME NEW x \in Backends, where'[x] = "freed", x \notin outlived'
               PROVE  Users(x)' = 0
    BY DEF NoUseAfterFree
  <2>1. where[x] = "freed" /\ x \notin outlived
    BY <1>2 DEF hist
  <2>2. x # b
    BY <1>3, <2>1
  <2>3. Users(x) = 0
    BY <2>1 DEF RemovalInv, NoUseAfterFree
  <2> QED
    BY <1>9, <2>2, <2>3
<1> QED
  BY <1>4, <1>6, <1>7, <1>8, <1>10, <1>11 DEF RemovalInv

(* The reference of get_backend is dropped, that of phttp->backend stays.  *)
LEMMA SameBackendInv ==
  ASSUME RemovalInv, NEW w \in Workers, SameBackend(w)
  PROVE  RemovalInv'
<1>1. /\ wpc[w] = "chosen" /\ backend[w] = held[w] /\ wpc' = [wpc EXCEPT ![w] = "open"]
      /\ backend' = [backend EXCEPT ![w] = None] /\ backend_unref(backend[w])
      /\ UNCHANGED <<hist, where, alive, sess, held, gone, tvars, todo, svcmut, crashed>>
  BY DEF SameBackend
<1>2. PICK b \in Backends : b = backend[w] /\ b = held[w] /\ b # None
  BY <1>1 DEF RemovalInv, TypeOK, WorkerPointers
<1>3. refcount[b] > 0
  BY <1>2, Numbers
<1>4. Unreferenced(b)
  BY <1>1, <1>2, <1>3, UnrefEffect DEF RemovalInv
<1>5. TypeOK'
  BY <1>1, <1>4 DEF RemovalInv, TypeOK, Unreferenced, hist, tvars
<1>6. WorkerPointers'
  BY <1>1, <1>2 DEF RemovalInv, TypeOK, WorkerPointers
<1>7. UnbornUnknown' /\ JobsAndSessions'
  BY <1>1, RemovalAssumption DEF RemovalInv, TypeOK, UnbornUnknown, JobsAndSessions, hist, tvars
<1>8. ScanLocked' /\ RemoverAround'
  BY <1>1, <1>4 DEF RemovalInv, ScanLocked, RemoverAround, Unreferenced, be_rem_head, hist
<1>9. \A x \in Backends : Users(x)' = Users(x) - (IF x = b THEN 1 ELSE 0)
  <2>1. /\ \A x \in Workers \ {w} : backend'[x] = backend[x]
        /\ held' = held /\ touch' = touch /\ backend'[w] = None
    BY <1>1 DEF tvars, RemovalInv, TypeOK
  <2> SUFFICES ASSUME NEW x \in Backends
               PROVE  Users(x)' = Users(x) - (IF x = b THEN 1 ELSE 0)
    OBVIOUS
  <2>2. Users(x)' = Users(x) + Mine(w, x)' - Mine(w, x) + touch'[x] - touch[x]
    BY <1>5, <2>1, UsersAssigned
  <2>3. /\ Mine(w, x)' = IF x = b THEN 1 ELSE 0
        /\ Mine(w, x) = IF x = b THEN 2 ELSE 0
    BY <1>2, <2>1, RemovalAssumption DEF Mine
  <2> QED
    BY <2>1, <2>2, <2>3, Numbers
<1>10. RefcountExact'
  BY <1>1, <1>4, <1>9, Numbers DEF RefcountExact, Refs, Unreferenced, hist
<1>11. NoUseAfterFree'
  BY <1>1, <1>2, <1>9, Numbers DEF RemovalInv, NoUseAfterFree, hist
<1> QED
  BY <1>5, <1>6, <1>7, <1>8, <1>10, <1>11 DEF RemovalInv

(* The reference of get_backend is dropped, and the failure reported.      *)
LEMMA SocketFailsInv ==
  ASSUME RemovalInv, NEW w \in Workers, SocketFails(w)
  PROVE  RemovalInv'
<1>1. /\ wpc[w] = "chosen" /\ wpc' = [wpc EXCEPT ![w] = "report"]
      /\ backend' = [backend EXCEPT ![w] = None] /\ backend_unref(backend[w])
      /\ gone' = [gone EXCEPT ![w] = backend[w]]
      /\ UNCHANGED <<hist, where, alive, sess, held, tvars, todo, svcmut, crashed>>
  BY DEF SocketFails
<1>2. PICK b \in Backends : b = backend[w] /\ b # None
  BY <1>1 DEF RemovalInv, TypeOK, WorkerPointers
<1>3. refcount[b] > 0
  BY <1>2, Numbers
<1>4. Unreferenced(b)
  BY <1>1, <1>2, <1>3, UnrefEffect DEF RemovalInv
<1>5. TypeOK'
  BY <1>1, <1>2, <1>4 DEF RemovalInv, TypeOK, Unreferenced, hist, tvars
<1>6. WorkerPointers'
  BY <1>1, <1>2 DEF RemovalInv, TypeOK, WorkerPointers
<1>7. UnbornUnknown' /\ JobsAndSessions'
  BY <1>1, RemovalAssumption DEF RemovalInv, TypeOK, UnbornUnknown, JobsAndSessions, hist, tvars
<1>8. ScanLocked' /\ RemoverAround'
  BY <1>1, <1>4 DEF RemovalInv, ScanLocked, RemoverAround, Unreferenced, be_rem_head, hist
<1>9. \A x \in Backends : Users(x)' = Users(x) - (IF x = b THEN 1 ELSE 0)
  <2>1. /\ \A x \in Workers \ {w} : backend'[x] = backend[x]
        /\ held' = held /\ touch' = touch /\ backend'[w] = None
    BY <1>1 DEF tvars, RemovalInv, TypeOK
  <2> SUFFICES ASSUME NEW x \in Backends
               PROVE  Users(x)' = Users(x) - (IF x = b THEN 1 ELSE 0)
    OBVIOUS
  <2>2. Users(x)' = Users(x) + Mine(w, x)' - Mine(w, x) + touch'[x] - touch[x]
    BY <1>5, <2>1, UsersAssigned
  <2> QED
    BY <1>2, <2>1, <2>2, Numbers, RemovalAssumption DEF Mine
<1>10. RefcountExact'
  BY <1>1, <1>4, <1>9, Numbers DEF RefcountExact, Refs, Unreferenced, hist
<1>11. NoUseAfterFree'
  BY <1>1, <1>2, <1>9, Numbers DEF RemovalInv, NoUseAfterFree, hist
<1> QED
  BY <1>5, <1>6, <1>7, <1>8, <1>10, <1>11 DEF RemovalInv

(* After the report the worker is idle.                                    *)
LEMMA ReportedInv ==
  ASSUME RemovalInv, NEW w \in Workers, Reported(w)
  PROVE  RemovalInv'
<1>1. /\ wpc[w] = "report" /\ wpc' = [wpc EXCEPT ![w] = "idle"]
      /\ gone' = [gone EXCEPT ![w] = None]
      /\ UNCHANGED <<hist, where, refcount, alive, sess, backend, held, tvars, rvars, crashed>>
  BY DEF Reported
<1>2. TypeOK' /\ WorkerPointers'
  BY <1>1 DEF RemovalInv, TypeOK, WorkerPointers, hist, tvars, rvars
<1>3. UnbornUnknown' /\ JobsAndSessions' /\ ScanLocked'
  BY <1>1 DEF RemovalInv, UnbornUnknown, JobsAndSessions, ScanLocked, be_rem_head,
       hist, tvars, rvars
<1>4. \A x \in Backends : Users(x)' = Users(x)
  BY <1>1 DEF Users, Pointing, tvars
<1>5. RefcountExact' /\ NoUseAfterFree' /\ RemoverAround'
  BY <1>1, <1>4 DEF RemovalInv, RefcountExact, NoUseAfterFree, RemoverAround,
       Refs, be_rem_head, hist, rvars
<1> QED
  BY <1>2, <1>3, <1>5 DEF RemovalInv

(* The reference of get_backend becomes that of phttp->backend, whose old  *)
(* one is dropped.                                                         *)
LEMMA ConnectedInv ==
  ASSUME RemovalInv, NEW w \in Workers, Connected(w)
  PROVE  RemovalInv'
<1>1. /\ wpc[w] = "chosen" /\ wpc' = [wpc EXCEPT ![w] = "open"]
      /\ held' = [held EXCEPT ![w] = backend[w]] /\ backend' = [backend EXCEPT ![w] = None]
      /\ backend_unref(held[w])
      /\ UNCHANGED <<hist, where, alive, sess, gone, tvars, todo, svcmut, crashed>>
  BY DEF Connected
<1>2. PICK b \in Backends : b = backend[w] /\ b # None
  BY <1>1 DEF RemovalInv, TypeOK, WorkerPointers
<1>3. held[w] \in Backends \cup {None} /\ (held[w] # None => refcount[held[w]] > 0)
  <2>1. held[w] \in Backends \cup {None}
    BY DEF RemovalInv, TypeOK
  <2> QED
    BY <2>1, Numbers
<1>4. Unreferenced(held[w])
  BY <1>1, <1>3, UnrefEffect DEF RemovalInv
<1>5. TypeOK'
  BY <1>1, <1>2, <1>4 DEF RemovalInv, TypeOK, Unreferenced, hist, tvars
<1>6. WorkerPointers'
  BY <1>1, <1>2 DEF RemovalInv, TypeOK, WorkerPointers
<1>7. UnbornUnknown' /\ JobsAndSessions'
  BY <1>1, <1>2, RemovalAssumption
     DEF RemovalInv, TypeOK, UnbornUnknown, JobsAndSessions, hist, tvars
<1>8. ScanLocked' /\ RemoverAround'
  BY <1>1, <1>4 DEF RemovalInv, ScanLocked, RemoverAround, Unreferenced, be_rem_head, hist
<1>9. \A x \in Backends : Users(x)' = Users(x) - (IF x = held[w] THEN 1 ELSE 0)
  <2>1. /\ \A x \in Workers \ {w} : backend'[x] = backend[x]
        /\ \A x \in Workers \ {w} : held'[x] = held[x]
        /\ touch' = touch /\ backend'[w] = None /\ held'[w] = backend[w]
    BY <1>1 DEF tvars, RemovalInv, TypeOK
  <2> SUFFICES ASSUME NEW x \in Backends
               PROVE  Users(x)' = Users(x) - (IF x = held[w] THEN 1 ELSE 0)
    OBVIOUS
  <2>2. Users(x)' = Users(x) + Mine(w, x)' - Mine(w, x) + touch'[x] - touch[x]
    BY <1>5, <2>1, UsersAssigned
  <2> QED
    BY <2>1, <2>2, Numbers, RemovalAssumption DEF Mine
<1>10. RefcountExact'
  BY <1>1, <1>4, <1>9, Numbers DEF RefcountExact, Refs, Unreferenced, hist
<1>11. NoUseAfterFree'
  <2> SUFFICES ASSUME NEW x \in Backends, where[x] = "freed", x \notin outlived
               PROVE  Users(x)' = 0
    BY <1>1 DEF NoUseAfterFree, hist
  <2>1. Users(x) = 0 /\ held[w] # x
    BY Numbers DEF RemovalInv, NoUseAfterFree
  <2> QED
    BY <1>9, <2>1
<1> QED
  BY <1>5, <1>6, <1>7, <1>8, <1>10, <1>11 DEF RemovalInv

(* The reference is lost.                                                  *)
LEMMA OpenFailsInv ==
  ASSUME RemovalInv, NEW w \in Workers, OpenFails(w)
  PROVE  RemovalInv'
<1>1. PICK b \in Backends : b = backend[w] /\ b # None
  BY DEF OpenFails, RemovalInv, TypeOK, WorkerPointers
<1>2. /\ wpc[w] = "chosen" /\ leaked[b] < MaxLeaks
      /\ leaked' = [leaked EXCEPT ![b] = @ + 1]
      /\ wpc' = [wpc EXCEPT ![w] = "idle"] /\ backend' = [backend EXCEPT ![w] = None]
      /\ UNCHANGED <<sessions, unattended, outlived, where, refcount, alive, sess, held, gone,
                     tvars, rvars, crashed>>
  BY <1>1 DEF OpenFails
<1>3. TypeOK'
  <2>1. leaked' \in [Backends -> 0 .. MaxLeaks]
    BY <1>2, RemovalAssumption DEF RemovalInv, TypeOK
  <2> QED
    BY <1>2, <2>1 DEF RemovalInv, TypeOK, tvars, rvars
<1>4. WorkerPointers'
  BY <1>2 DEF RemovalInv, TypeOK, WorkerPointers
<1>5. UnbornUnknown' /\ JobsAndSessions'
  BY <1>1, <1>2, RemovalAssumption
     DEF RemovalInv, TypeOK, UnbornUnknown, JobsAndSessions, tvars
<1>6. ScanLocked' /\ RemoverAround'
  BY <1>2 DEF RemovalInv, ScanLocked, RemoverAround, be_rem_head, rvars
<1>7. \A x \in Backends : Users(x)' = Users(x) - (IF x = b THEN 1 ELSE 0)
  <2>1. /\ \A x \in Workers \ {w} : backend'[x] = backend[x]
        /\ held' = held /\ touch' = touch /\ backend'[w] = None
    BY <1>2 DEF tvars, RemovalInv, TypeOK
  <2> SUFFICES ASSUME NEW x \in Backends
               PROVE  Users(x)' = Users(x) - (IF x = b THEN 1 ELSE 0)
    OBVIOUS
  <2>2. Users(x)' = Users(x) + Mine(w, x)' - Mine(w, x) + touch'[x] - touch[x]
    BY <1>3, <2>1, UsersAssigned
  <2> QED
    BY <1>1, <2>1, <2>2, Numbers, RemovalAssumption DEF Mine
<1>8. RefcountExact'
  <2> SUFFICES ASSUME NEW x \in Backends PROVE refcount'[x] = Refs(x)' + leaked'[x]
    BY DEF RefcountExact
  <2>1. leaked'[x] = leaked[x] + (IF x = b THEN 1 ELSE 0)
    BY <1>2 DEF RemovalInv, TypeOK
  <2> QED
    BY <1>2, <1>7, <2>1, Numbers DEF Refs
<1>9. NoUseAfterFree'
  BY <1>1, <1>2, <1>7, Numbers DEF RemovalInv, NoUseAfterFree
<1> QED
  BY <1>3, <1>4, <1>5, <1>6, <1>8, <1>9 DEF RemovalInv

(* The reference passes to the touch_be job that kill_be creates.          *)
LEMMA ConnectFailsInv ==
  ASSUME RemovalInv, NEW w \in Workers, ConnectFails(w)
  PROVE  RemovalInv'
<1>1. PICK b \in Backends : b = backend[w] /\ b # None
  BY DEF ConnectFails, RemovalInv, TypeOK, WorkerPointers
<1>2. CASE where[b] = "table"
  <2>1. /\ alive' = [alive EXCEPT ![b] = FALSE] /\ sess' = sess \ {b}
        /\ touch[b] < MaxTouch /\ touch' = [touch EXCEPT ![b] = @ + 1]
        /\ wpc' = [wpc EXCEPT ![w] = "idle"] /\ backend' = [backend EXCEPT ![w] = None]
        /\ UNCHANGED <<hist, where, refcount, held, gone, tlock, rvars, crashed>>
    BY <1>1, <1>2 DEF ConnectFails
  <2>2. /\ touch' \in [Backends -> 0 .. MaxTouch]
        /\ \A x \in Backends : touch'[x] = touch[x] + (IF x = b THEN 1 ELSE 0)
    BY <2>1, RemovalAssumption DEF RemovalInv, TypeOK
  <2>3. TypeOK'
    BY <2>1, <2>2 DEF RemovalInv, TypeOK, hist, rvars
  <2>4. WorkerPointers'
    BY <1>1, <2>1 DEF RemovalInv, TypeOK, WorkerPointers
  <2>5. UnbornUnknown'
    BY <1>2, <2>1, <2>2, RemovalAssumption DEF RemovalInv, TypeOK, UnbornUnknown, hist
  <2>6. JobsAndSessions'
    BY <2>1, <2>2, RemovalAssumption DEF RemovalInv, TypeOK, JobsAndSessions, hist
  <2>7. ScanLocked' /\ RemoverAround'
    BY <2>1 DEF RemovalInv, ScanLocked, RemoverAround, be_rem_head, hist, rvars
  <2>8. \A x \in Backends : Users(x)' = Users(x)
    <3>1. /\ \A x \in Workers \ {w} : backend'[x] = backend[x]
          /\ held' = held /\ backend'[w] = None
      BY <2>1 DEF RemovalInv, TypeOK
    <3> SUFFICES ASSUME NEW x \in Backends PROVE Users(x)' = Users(x)
      OBVIOUS
    <3>2. Users(x)' = Users(x) + Mine(w, x)' - Mine(w, x) + touch'[x] - touch[x]
      BY <2>3, <3>1, UsersAssigned
    <3> QED
      BY <1>1, <2>2, <3>1, <3>2, Numbers, RemovalAssumption DEF Mine
  <2>9. RefcountExact' /\ NoUseAfterFree'
    BY <2>1, <2>8 DEF RemovalInv, RefcountExact, NoUseAfterFree, Refs, hist
  <2> QED
    BY <2>3, <2>4, <2>5, <2>6, <2>7, <2>9 DEF RemovalInv
<1>3. CASE where[b] # "table"
  <2>1. /\ crashed' = "assert"
        /\ UNCHANGED <<hist, where, refcount, alive, sess, touch, wpc, backend, held, gone,
                       tlock, rvars>>
    BY <1>1, <1>3 DEF ConnectFails
  <2>2. TypeOK' /\ WorkerPointers' /\ UnbornUnknown' /\ ScanLocked' /\ JobsAndSessions'
    BY <2>1 DEF RemovalInv, TypeOK, WorkerPointers, UnbornUnknown, ScanLocked,
         JobsAndSessions, be_rem_head, hist, rvars
  <2>3. RefcountExact' /\ NoUseAfterFree' /\ RemoverAround'
    BY <2>1, UsersUnchanged DEF RemovalInv, RefcountExact, NoUseAfterFree, RemoverAround,
         Refs, be_rem_head, hist, rvars, wvars
  <2> QED
    BY <2>2, <2>3 DEF RemovalInv
<1> QED
  BY <1>2, <1>3

(* A session refers to the backend without a reference.                    *)
LEMMA ResponseInv ==
  ASSUME RemovalInv, NEW w \in Workers, Response(w)
  PROVE  RemovalInv'
<1>1. /\ sess' \in IF sessions THEN {sess, sess \cup {held[w]}} ELSE {sess}
      /\ wpc[w] = "open" /\ wpc' = [wpc EXCEPT ![w] = "idle"]
      /\ outlived' = outlived \cup (sess' \ Table)
      /\ UNCHANGED <<sessions, leaked, unattended, where, refcount, alive, backend, held, gone,
                     tvars, rvars, crashed>>
  BY DEF Response
<1>2. held[w] \in Backends
  BY <1>1 DEF RemovalInv, TypeOK, WorkerPointers
<1>3. TypeOK'
  BY <1>1, <1>2 DEF RemovalInv, TypeOK, tvars, rvars
<1>4. WorkerPointers'
  BY <1>1 DEF RemovalInv, TypeOK, WorkerPointers
<1>5. UnbornUnknown' /\ ScanLocked'
  BY <1>1, <1>2 DEF RemovalInv, UnbornUnknown, ScanLocked, be_rem_head, tvars, rvars
<1>a. JobsAndSessions'
  <2>1. \A b \in sess' : b \in Backends /\ (b \notin outlived' => where'[b] = "table")
    BY <1>1, <1>3 DEF TypeOK, Table
  <2> QED
    BY <1>1, <2>1 DEF RemovalInv, JobsAndSessions, tvars
<1>6. \A x \in Backends : Users(x)' = Users(x)
  BY <1>1 DEF Users, Pointing, tvars
<1>7. RefcountExact' /\ NoUseAfterFree' /\ RemoverAround'
  BY <1>1, <1>6 DEF RemovalInv, RefcountExact, NoUseAfterFree, RemoverAround,
       Refs, be_rem_head, rvars
<1> QED
  BY <1>3, <1>4, <1>5, <1>a, <1>7 DEF RemovalInv

(* The end of sessions changes nothing else.                               *)
LEMMA SessionsEndInv ==
  ASSUME RemovalInv, NEW b \in Backends, SessionsEnd(b)
  PROVE  RemovalInv'
<1>1. /\ sess' = sess \ {b}
      /\ UNCHANGED <<hist, where, refcount, alive, wvars, tvars, rvars, crashed>>
  BY DEF SessionsEnd
<1>2. TypeOK' /\ WorkerPointers' /\ UnbornUnknown' /\ ScanLocked' /\ JobsAndSessions'
  BY <1>1 DEF RemovalInv, TypeOK, WorkerPointers, UnbornUnknown, ScanLocked,
       JobsAndSessions, be_rem_head, hist, tvars, wvars, rvars
<1>3. RefcountExact' /\ NoUseAfterFree' /\ RemoverAround'
  BY <1>1, UsersUnchanged DEF RemovalInv, RefcountExact, NoUseAfterFree, RemoverAround,
       Refs, be_rem_head, hist, tvars, wvars, rvars
<1> QED
  BY <1>2, <1>3 DEF RemovalInv

(* The reference of phttp->backend is dropped.                             *)
LEMMA DestroyInv ==
  ASSUME RemovalInv, NEW w \in Workers, pound_http_destroy(w)
  PROVE  RemovalInv'
<1>1. PICK b \in Backends : b = held[w] /\ b # None
  BY DEF pound_http_destroy, RemovalInv, TypeOK
<1>2. /\ wpc[w] = "idle" /\ held' = [held EXCEPT ![w] = None] /\ backend_unref(b)
      /\ UNCHANGED <<hist, where, alive, sess, wpc, backend, gone, tvars, todo, svcmut, crashed>>
  BY <1>1 DEF pound_http_destroy
<1>3. refcount[b] > 0
  BY <1>1, Numbers
<1>4. Unreferenced(b)
  BY <1>1, <1>2, <1>3, UnrefEffect DEF RemovalInv
<1>5. TypeOK'
  BY <1>2, <1>4 DEF RemovalInv, TypeOK, Unreferenced, hist, tvars
<1>6. WorkerPointers'
  BY <1>2 DEF RemovalInv, TypeOK, WorkerPointers
<1>7. UnbornUnknown' /\ JobsAndSessions'
  BY <1>2, RemovalAssumption DEF RemovalInv, TypeOK, UnbornUnknown, JobsAndSessions, hist, tvars
<1>8. ScanLocked' /\ RemoverAround'
  BY <1>2, <1>4 DEF RemovalInv, ScanLocked, RemoverAround, Unreferenced, be_rem_head, hist
<1>9. \A x \in Backends : Users(x)' = Users(x) - (IF x = b THEN 1 ELSE 0)
  <2>1. /\ \A x \in Workers \ {w} : held'[x] = held[x]
        /\ backend' = backend /\ touch' = touch /\ held'[w] = None
    BY <1>2 DEF tvars, RemovalInv, TypeOK
  <2> SUFFICES ASSUME NEW x \in Backends
               PROVE  Users(x)' = Users(x) - (IF x = b THEN 1 ELSE 0)
    OBVIOUS
  <2>2. Users(x)' = Users(x) + Mine(w, x)' - Mine(w, x) + touch'[x] - touch[x]
    BY <1>5, <2>1, UsersAssigned
  <2> QED
    BY <1>1, <2>1, <2>2, Numbers, RemovalAssumption DEF Mine
<1>10. RefcountExact'
  BY <1>2, <1>4, <1>9, Numbers DEF RefcountExact, Refs, Unreferenced, hist
<1>11. NoUseAfterFree'
  BY <1>1, <1>2, <1>9, Numbers DEF RemovalInv, NoUseAfterFree, hist
<1> QED
  BY <1>5, <1>6, <1>7, <1>8, <1>10, <1>11 DEF RemovalInv

-----------------------------------------------------------------------------
(* touch_be jobs.  A job that ends drops its reference.                    *)
LEMMA TouchEnds ==
  ASSUME RemovalInv, NEW b \in Backends, touch[b] > 0,
         touch' = [touch EXCEPT ![b] = @ - 1], backend_unref(b),
         tlock' \in [Backends -> 0 .. MaxTouch],
         \A x \in Backends : tlock'[x] =< touch'[x],
         alive' \in [Backends -> BOOLEAN],
         UNCHANGED <<hist, where, sess, wvars, todo, svcmut, crashed>>
  PROVE  RemovalInv'
<1>1. refcount[b] > 0
  BY Numbers
<1>2. b # None /\ Unreferenced(b)
  BY <1>1, UnrefEffect, RemovalAssumption DEF RemovalInv
<1>3. /\ touch' \in [Backends -> 0 .. MaxTouch]
      /\ \A x \in Backends : touch'[x] = touch[x] - (IF x = b THEN 1 ELSE 0)
  BY RemovalAssumption DEF RemovalInv, TypeOK
<1>4. TypeOK'
  BY <1>2, <1>3 DEF RemovalInv, TypeOK, Unreferenced, hist, wvars
<1>5. WorkerPointers' /\ JobsAndSessions'
  BY DEF RemovalInv, WorkerPointers, JobsAndSessions, hist, wvars
<1>6. UnbornUnknown'
  BY <1>3 DEF RemovalInv, UnbornUnknown, hist, wvars
<1>7. ScanLocked' /\ RemoverAround'
  BY <1>2 DEF RemovalInv, ScanLocked, RemoverAround, Unreferenced, be_rem_head, hist
<1>8. \A x \in Backends : Users(x)' = Users(x) - (IF x = b THEN 1 ELSE 0)
  <2> SUFFICES ASSUME NEW x \in Backends
               PROVE  Users(x)' = Users(x) - (IF x = b THEN 1 ELSE 0)
    OBVIOUS
  <2>1. /\ Pointing(backend', x) = Pointing(backend, x) /\ Pointing(held', x) = Pointing(held, x)
        /\ Pointing(backend, x) \in Nat /\ Pointing(held, x) \in Nat /\ touch[x] \in Nat
    BY PointingType, Numbers DEF RemovalInv, TypeOK, Pointers, wvars
  <2> QED
    BY <1>3, <2>1 DEF Users
<1>9. RefcountExact'
  BY <1>2, <1>8, Numbers DEF RefcountExact, Refs, Unreferenced, hist
<1>10. NoUseAfterFree'
  BY <1>8, Numbers DEF RemovalInv, NoUseAfterFree, hist
<1> QED
  BY <1>4, <1>5, <1>6, <1>7, <1>9, <1>10 DEF RemovalInv

(* The end of a job that does not lock svc->mut.                           *)
LEMMA TouchDoneInv ==
  ASSUME RemovalInv, NEW b \in Backends, TouchDone(b)
  PROVE  RemovalInv'
<1>1. /\ touch[b] > tlock[b] /\ touch' = [touch EXCEPT ![b] = @ - 1] /\ backend_unref(b)
      /\ alive' = alive \/ alive' = [alive EXCEPT ![b] = TRUE]
      /\ UNCHANGED <<hist, where, sess, wvars, tlock, todo, svcmut, crashed>>
  BY DEF TouchDone
<1>2. /\ touch[b] > 0 /\ alive' \in [Backends -> BOOLEAN]
      /\ tlock' \in [Backends -> 0 .. MaxTouch]
      /\ \A x \in Backends : tlock'[x] =< touch'[x]
  <2>1. alive' \in [Backends -> BOOLEAN]
    BY <1>1 DEF RemovalInv, TypeOK
  <2>2. touch[b] \in Nat /\ tlock[b] \in Nat /\ tlock' \in [Backends -> 0 .. MaxTouch]
    BY <1>1, RemovalAssumption DEF RemovalInv, TypeOK
  <2>3. \A x \in Backends : tlock[x] =< touch'[x]
    BY <1>1, RemovalAssumption DEF RemovalInv, TypeOK, JobsAndSessions
  <2> QED
    BY <1>1, <2>1, <2>2, <2>3
<1> QED
  BY <1>1, <1>2, TouchEnds

(* The job keeps its reference until it has locked svc->mut.               *)
LEMMA TouchAliveInv ==
  ASSUME RemovalInv, NEW b \in Backends, TouchAlive(b)
  PROVE  RemovalInv'
<1>1. /\ touch[b] > tlock[b] /\ tlock' = [tlock EXCEPT ![b] = @ + 1]
      /\ alive' = [alive EXCEPT ![b] = TRUE]
      /\ UNCHANGED <<hist, where, refcount, sess, wvars, touch, rvars, crashed>>
  BY DEF TouchAlive
<1>2. /\ tlock' \in [Backends -> 0 .. MaxTouch]
      /\ \A x \in Backends : tlock'[x] =< touch'[x]
  BY <1>1, RemovalAssumption DEF RemovalInv, TypeOK, JobsAndSessions
<1>3. TypeOK' /\ JobsAndSessions'
  BY <1>1, <1>2 DEF RemovalInv, TypeOK, JobsAndSessions, hist, wvars, rvars
<1>4. WorkerPointers' /\ UnbornUnknown' /\ ScanLocked'
  BY <1>1 DEF RemovalInv, WorkerPointers, UnbornUnknown, ScanLocked, be_rem_head,
       hist, wvars, rvars
<1>5. \A x \in Backends : Users(x)' = Users(x)
  BY <1>1, UsersUnchanged
<1>6. RefcountExact' /\ NoUseAfterFree' /\ RemoverAround'
  BY <1>1, <1>5 DEF RemovalInv, RefcountExact, NoUseAfterFree, RemoverAround,
       Refs, be_rem_head, hist, rvars
<1> QED
  BY <1>3, <1>4, <1>6 DEF RemovalInv

(* The end of a job that has locked svc->mut.                              *)
LEMMA TouchCountsInv ==
  ASSUME RemovalInv, NEW b \in Backends, TouchCounts(b)
  PROVE  RemovalInv'
<1>1. CASE where[b] = "table"
  <2>1. /\ tlock[b] > 0 /\ tlock' = [tlock EXCEPT ![b] = @ - 1]
        /\ touch' = [touch EXCEPT ![b] = @ - 1] /\ backend_unref(b)
        /\ UNCHANGED <<hist, where, alive, sess, wvars, todo, svcmut, crashed>>
    BY <1>1 DEF TouchCounts
  <2>2. /\ touch[b] > 0 /\ alive' \in [Backends -> BOOLEAN]
        /\ tlock' \in [Backends -> 0 .. MaxTouch]
        /\ \A x \in Backends : tlock'[x] =< touch'[x]
    BY <2>1, RemovalAssumption DEF RemovalInv, TypeOK, JobsAndSessions
  <2> QED
    BY <2>1, <2>2, TouchEnds
<1>2. CASE where[b] # "table"
  <2>1. /\ crashed' = "null"
        /\ UNCHANGED <<hist, where, alive, sess, wvars, todo, svcmut, tvars, refcount, rpc>>
    BY <1>2 DEF TouchCounts
  <2>2. TypeOK' /\ WorkerPointers' /\ UnbornUnknown' /\ ScanLocked' /\ JobsAndSessions'
    BY <2>1 DEF RemovalInv, TypeOK, WorkerPointers, UnbornUnknown, ScanLocked,
         JobsAndSessions, be_rem_head, hist, tvars, wvars
  <2>3. RefcountExact' /\ NoUseAfterFree' /\ RemoverAround'
    BY <2>1, UsersUnchanged DEF RemovalInv, RefcountExact, NoUseAfterFree, RemoverAround,
         Refs, be_rem_head, hist, tvars, wvars
  <2> QED
    BY <2>2, <2>3 DEF RemovalInv
<1> QED
  BY <1>1, <1>2

-----------------------------------------------------------------------------
(* Removers.  The list of what is to be looked at is be_rem_head.          *)
LEMMA RemoverLockInv ==
  ASSUME RemovalInv, NEW r \in Removers, RemoverLock(r)
  PROVE  RemovalInv'
<1>1. /\ rpc[r] = "lock" /\ svcmut = None
      /\ svcmut' = r /\ rpc' = [rpc EXCEPT ![r] = "scan"]
      /\ todo' = [todo EXCEPT ![r] = be_rem_head]
      /\ UNCHANGED <<hist, where, refcount, alive, sess, wvars, tvars, crashed>>
  BY DEF RemoverLock
<1>2. TypeOK'
  BY <1>1 DEF RemovalInv, TypeOK, be_rem_head, hist, wvars, tvars
<1>3. WorkerPointers' /\ UnbornUnknown' /\ JobsAndSessions'
  BY <1>1 DEF RemovalInv, WorkerPointers, UnbornUnknown, JobsAndSessions, hist, wvars, tvars
<1>4. be_rem_head' = be_rem_head /\ unattended' = unattended
  BY <1>1 DEF be_rem_head, hist
<1>5. ScanLocked'
  BY <1>1, <1>4, RemovalAssumption DEF RemovalInv, TypeOK, ScanLocked
<1>6. RemoverAround'
  BY <1>1, <1>4 DEF RemovalInv, TypeOK, RemoverAround
<1>7. RefcountExact' /\ NoUseAfterFree'
  BY <1>1, UsersUnchanged DEF RemovalInv, RefcountExact, NoUseAfterFree, Refs, hist, tvars
<1> QED
  BY <1>2, <1>3, <1>5, <1>6, <1>7 DEF RemovalInv

(* Only a backend without references is freed.                             *)
LEMMA RemoverLookInv ==
  ASSUME RemovalInv, NEW r \in Removers, RemoverLook(r)
  PROVE  RemovalInv'
<1>1. PICK b \in todo[r] :
        /\ todo' = [todo EXCEPT ![r] = @ \ {b}]
        /\ where' = IF Releasable(b) THEN [where EXCEPT ![b] = "freed"] ELSE where
  BY DEF RemoverLook
<1>2. UNCHANGED <<hist, refcount, alive, sess, wvars, tvars, rpc, svcmut, crashed>>
  BY DEF RemoverLook
<1>3. b \in Backends /\ where[b] = "removed" /\ svcmut = r
  BY <1>1 DEF RemovalInv, TypeOK, ScanLocked, be_rem_head
<1>4. /\ where' \in [Backends -> {"none", "table", "removed", "freed"}]
      /\ \A x \in Backends : x # b => where'[x] = where[x]
      /\ where'[b] = (IF refcount[b] = 0 THEN "freed" ELSE "removed")
  BY <1>1, <1>3 DEF RemovalInv, TypeOK, Releasable
<1>5. TypeOK'
  BY <1>1, <1>2, <1>4 DEF RemovalInv, TypeOK, hist, wvars, tvars
<1>6. WorkerPointers' /\ JobsAndSessions'
  BY <1>2, <1>3, <1>4 DEF RemovalInv, TypeOK, WorkerPointers, JobsAndSessions, hist, wvars, tvars
<1>7. UnbornUnknown'
  BY <1>2, <1>4 DEF RemovalInv, UnbornUnknown, hist, wvars, tvars
<1>8. be_rem_head \ {b} \subseteq be_rem_head' /\ be_rem_head' \subseteq be_rem_head
  BY <1>3, <1>4 DEF be_rem_head
<1>9. ScanLocked'
  BY <1>1, <1>2, <1>3, <1>8, RemovalAssumption DEF RemovalInv, TypeOK, ScanLocked
<1>10. RemoverAround'
  BY <1>2, <1>8 DEF RemovalInv, RemoverAround, hist
<1>11. \A x \in Backends : Users(x)' = Users(x)
  BY <1>2, UsersUnchanged DEF tvars
<1>12. RefcountExact'
  BY <1>2, <1>3, <1>4, <1>11 DEF RemovalInv, RefcountExact, Refs, hist
<1>13. refcount[b] = 0 => Users(b) = 0
  BY <1>3, Numbers
<1>14. NoUseAfterFree'
  BY <1>2, <1>4, <1>11, <1>13 DEF RemovalInv, NoUseAfterFree, hist
<1> QED
  BY <1>5, <1>6, <1>7, <1>9, <1>10, <1>12, <1>14 DEF RemovalInv

(* A remover ends only when be_rem_head is empty.                          *)
LEMMA RemoverWaitInv ==
  ASSUME RemovalInv, NEW r \in Removers, RemoverWait(r)
  PROVE  RemovalInv'
<1>1. /\ rpc[r] = "scan" /\ todo[r] = {} /\ svcmut' = None
      /\ rpc' = [rpc EXCEPT ![r] = IF be_rem_head = {} THEN "none" ELSE "wait"]
      /\ UNCHANGED <<hist, where, refcount, alive, sess, wvars, tvars, todo, crashed>>
  BY DEF RemoverWait, AllRemoved
<1>2. TypeOK'
  BY <1>1 DEF RemovalInv, TypeOK, hist, wvars, tvars
<1>3. WorkerPointers' /\ UnbornUnknown' /\ JobsAndSessions'
  BY <1>1 DEF RemovalInv, WorkerPointers, UnbornUnknown, JobsAndSessions, hist, wvars, tvars
<1>4. be_rem_head' = be_rem_head /\ unattended' = unattended
  BY <1>1 DEF be_rem_head, hist
<1>5. ScanLocked'
  BY <1>1, <1>4, RemovalAssumption DEF RemovalInv, TypeOK, ScanLocked
<1>6. RemoverAround'
  BY <1>1, <1>4 DEF RemovalInv, TypeOK, RemoverAround
<1>7. RefcountExact' /\ NoUseAfterFree'
  BY <1>1, UsersUnchanged DEF RemovalInv, RefcountExact, NoUseAfterFree, Refs, hist, tvars
<1> QED
  BY <1>2, <1>3, <1>5, <1>6, <1>7 DEF RemovalInv

-----------------------------------------------------------------------------
(* No step breaks the invariant.                                           *)
LEMMA NextRemoval == RemovalInv /\ [Next]_vars => RemovalInv'
<1> SUFFICES ASSUME RemovalInv, [Next]_vars PROVE RemovalInv'
  OBVIOUS
<1>1. CASE UNCHANGED vars
  <2>1. TypeOK' /\ WorkerPointers' /\ UnbornUnknown' /\ ScanLocked' /\ JobsAndSessions'
    BY <1>1 DEF RemovalInv, TypeOK, WorkerPointers, UnbornUnknown, ScanLocked,
         JobsAndSessions, be_rem_head, vars, hist, tvars, wvars, rvars
  <2>2. RefcountExact' /\ NoUseAfterFree' /\ RemoverAround'
    BY <1>1, UsersUnchanged DEF RemovalInv, RefcountExact, NoUseAfterFree, RemoverAround,
         Refs, be_rem_head, vars, hist, tvars, wvars, rvars
  <2> QED
    BY <2>1, <2>2 DEF RemovalInv
<1>2. CASE Next
  BY <1>2, AddrUpdateInv, MatrixSweptInv, GetBackendInv, SameBackendInv, ConnectedInv,
     SocketFailsInv, ReportedInv, OpenFailsInv, ConnectFailsInv, ResponseInv, SessionsEndInv,
     DestroyInv, TouchDoneInv, TouchAliveInv,
     TouchCountsInv, RemoverLockInv, RemoverLookInv, RemoverWaitInv DEF Next
<1> QED
  BY <1>1, <1>2

(* The invariant holds in every reachable state.                           *)
THEOREM RemovalCorrect == Spec => []RemovalInv
  BY InitRemoval, NextRemoval, PTL DEF Spec

(* However workers, probes, updates and removers interleave, a backend's   *)
(* reference count is the number of those who own a pointer to it, plus    *)
(* the references that failed handshakes lose.                             *)
THEOREM ReferencesCounted == Spec => []RefcountExact
<1>1. RemovalInv => RefcountExact
  BY DEF RemovalInv
<1> QED
  BY <1>1, RemovalCorrect, PTL

(* No worker that took a reference and no touch_be job has a pointer to a  *)
(* backend that a remover has freed, unless a session was made for the     *)
(* backend after it had been swept.  (A worker that reports a failed       *)
(* socket() has no reference any more, and may.)                           *)
THEOREM FreedUnused == Spec => []NoUseAfterFree
<1>1. RemovalInv => NoUseAfterFree
  BY DEF RemovalInv
<1> QED
  BY <1>1, RemovalCorrect, PTL

(* Backends that an address update has swept never stay without a remover. *)
THEOREM SweptAttended == Spec => []RemoverAround
<1>1. RemovalInv => RemoverAround
  BY DEF RemovalInv
<1> QED
  BY <1>1, RemovalCorrect, PTL
=============================================================================
