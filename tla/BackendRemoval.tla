--------------------------- MODULE BackendRemoval ---------------------------
(***************************************************************************)
(* Reference counting and removal of dynamic backends (dynbe.c), with the  *)
(* workers that use them (select_backend in http.c, upd_session in svc.c)  *)
(* and the touch_be jobs that probe dead ones.  An update sweeps backends  *)
(* that DNS no longer lists from the tables to be_rem_head; the remover    *)
(* frees those that nobody refers to, and otherwise waits for a signal     *)
(* from backend_unref.  Sections under svc->mut are one step, except the   *)
(* remover's scan: backend_unref does not take svc->mut.                   *)
(***************************************************************************)
EXTENDS Integers, FiniteSets

CONSTANTS Backends,      \* backend objects
          Workers, Removers, \* threads
          None,
          WithSessions,  \* may the service have a Session statement?
          MaxTouch,      \* bound on touch_be jobs per backend
          MaxLeaks       \* bound on references lost: none is lost once a backend has
                         \* lost as many

ASSUME RemovalAssumption ==
  /\ WithSessions \subseteq BOOLEAN
  /\ None \notin Backends /\ None \notin Removers /\ MaxTouch \in Nat
  /\ MaxLeaks \in Nat /\ IsFiniteSet(Workers)

VARIABLES where,         \* is the object unborn, in the tables, swept, freed?
          refcount, alive,
          sessions,      \* does the service have a Session statement?
          sess,          \* backends that some session refers to
          leaked,        \* references lost by OpenFails (history)
          unattended,    \* backends swept with no remover started (history)
          outlived,      \* backends that got a session after their sweep (history)
          wpc, backend,  \* worker: where it is, its local variable backend
          held,          \* worker: phttp->backend
          gone,          \* worker: backend, once its reference is given up
          touch, tlock,  \* touch_be jobs of each backend; those about to lock
          rpc, todo,     \* remover: where it is, backends still to look at
          svcmut,        \* the remover that holds svc->mut, or None
          crashed        \* how the program died: "no", "assert", "null"

wvars == <<wpc, backend, held, gone>>
rvars == <<rpc, todo, svcmut>>
tvars == <<touch, tlock>>
hist == <<sessions, leaked, unattended, outlived>>
vars == <<where, refcount, alive, sess, hist, wvars, tvars, rvars, crashed>>

be_rem_head == {b \in Backends : where[b] = "removed"}
Table == {b \in Backends : where[b] = "table"}
All(v) == [b \in Backends |-> v]

(* Those who hold a pointer to b, and the references they should have: the *)
(* table has one of its own.                                               *)
Pointing(ptr, b) == Cardinality({w \in Workers : ptr[w] = b})
Users(b) == Pointing(backend, b) + Pointing(held, b) + touch[b]
Refs(b) == Users(b) + IF where[b] = "table" THEN 1 ELSE 0

Init ==
  /\ where = All("none") /\ refcount = All(0) /\ alive = All(TRUE) /\ sess = {}
  /\ wpc = [w \in Workers |-> "idle"] /\ backend = [w \in Workers |-> None]
  /\ held = [w \in Workers |-> None] /\ gone = [w \in Workers |-> None] /\ touch = All(0) /\ tlock = All(0)
  /\ rpc = [r \in Removers |-> "none"] /\ todo = [r \in Removers |-> {}]
  /\ svcmut = None /\ crashed = "no"
  /\ sessions \in WithSessions /\ leaked = All(0) /\ unattended = {} /\ outlived = {}

-----------------------------------------------------------------------------
(* backend_sweep of the backends in old (the table's reference goes, so do *)
(* their sessions) and backend_create of those in new.                     *)
DropRefs(S) == [b \in Backends |-> IF b \in S THEN refcount[b] - 1 ELSE refcount[b]]
Sweep(old, new) ==
  /\ where' = [b \in Backends |-> IF b \in old THEN "removed"
                                  ELSE IF b \in new THEN "table" ELSE where[b]]
  /\ refcount' = [b \in Backends |-> IF b \in new THEN 1 ELSE DropRefs(old)[b]]
  /\ sess' = sess \ old
  /\ UNCHANGED <<alive, sessions, leaked, outlived, wvars, tvars, crashed>>

(* service_matrix_addr_update_backends: some backends are gone, some are   *)
(* new, and a remover is started if there is anything to be removed.       *)
AddrUpdate(old, new) ==
  /\ svcmut = None /\ old \subseteq Table /\ \A b \in new : where[b] = "none"
  /\ old \cup new # {} /\ Sweep(old, new)
  /\ \/ /\ be_rem_head \cup old # {}
        /\ \E r \in Removers : rpc[r] = "none" /\ rpc' = [rpc EXCEPT ![r] = "lock"]
     \/ be_rem_head \cup old = {} /\ UNCHANGED rpc
  /\ UNCHANGED <<unattended, todo, svcmut>>

(* backend_matrix_disable (without svc->mut), and the sweep of a matrix    *)
(* that a SRV update no longer lists: no remover is started.               *)
MatrixSwept ==
  /\ Table # {} /\ Sweep(Table, {})
  /\ unattended' = unattended \cup Table
  /\ UNCHANGED rvars

-----------------------------------------------------------------------------
(* backend_unref(b), other references changing by rc: the last reference   *)
(* signals be_rem_cond.                                                    *)
WakeOne(b) ==
  LET w == {r \in Removers : rpc[r] = "wait"}
  IN  IF refcount[b] = 1 /\ w # {}
      THEN {[rpc EXCEPT ![r] = "lock"] : r \in w} ELSE {rpc}

ForgetUnref(b) == UNCHANGED <<refcount, rpc>>                     \* mutant
backend_unref(b) ==
  IF b = None THEN UNCHANGED <<refcount, rpc>>
  ELSE refcount' = [refcount EXCEPT ![b] = @ - 1] /\ rpc' \in WakeOne(b)

(* get_backend: an active backend, or that of a session; a reference is    *)
(* taken.  With sessions by address or parameter a session is made here.   *)
(* The service also has a static backend, so service_has_backends is true. *)
backend_ref(b) == [refcount EXCEPT ![b] = @ + 1]

get_backend(w) ==
  /\ wpc[w] = "idle" /\ svcmut = None
  /\ \E b \in {x \in Table : alive[x]} \cup sess :
       /\ refcount' = backend_ref(b)
       /\ backend' = [backend EXCEPT ![w] = b]
       /\ sess' \in IF sessions THEN {sess, sess \cup {b}} ELSE {sess}
  /\ wpc' = [wpc EXCEPT ![w] = "chosen"]
  /\ UNCHANGED <<hist, where, alive, held, gone, tvars, rvars, crashed>>

(* select_backend: the same backend as before, and its connection is still *)
(* open; if it has been closed, a new one is made as for any other.        *)
SameBackend(w) ==
  /\ wpc[w] = "chosen" /\ backend[w] = held[w]
  /\ wpc' = [wpc EXCEPT ![w] = "open"] /\ backend' = [backend EXCEPT ![w] = None]
  /\ backend_unref(backend[w])
  /\ UNCHANGED <<hist, where, alive, sess, held, gone, tvars, todo, svcmut, crashed>>

(* The address family is unknown, or socket() fails: select_backend gives  *)
(* its reference up and then reports the failure, with the address that it *)
(* reads from the backend.                                                 *)
SocketFails(w) ==
  /\ wpc[w] = "chosen"
  /\ wpc' = [wpc EXCEPT ![w] = "report"] /\ backend' = [backend EXCEPT ![w] = None]
  /\ gone' = [gone EXCEPT ![w] = backend[w]]
  /\ backend_unref(backend[w])
  /\ UNCHANGED <<hist, where, alive, sess, held, tvars, todo, svcmut, crashed>>

Reported(w) ==
  /\ wpc[w] = "report"
  /\ wpc' = [wpc EXCEPT ![w] = "idle"] /\ gone' = [gone EXCEPT ![w] = None]
  /\ UNCHANGED <<hist, where, refcount, alive, sess, backend, held, tvars, rvars, crashed>>

(* connect_nb and open_backend succeed.                                    *)
Connected(w) ==
  /\ wpc[w] = "chosen"
  /\ wpc' = [wpc EXCEPT ![w] = "open"]
  /\ held' = [held EXCEPT ![w] = backend[w]] /\ backend' = [backend EXCEPT ![w] = None]
  /\ backend_unref(held[w])
  /\ UNCHANGED <<hist, where, alive, sess, gone, tvars, todo, svcmut, crashed>>

(* open_backend fails: select_backend returns, keeping no track of the     *)
(* reference it has to backend.                                            *)
OpenFails(w) ==
  /\ wpc[w] = "chosen" /\ \A b \in Backends : leaked[b] < MaxLeaks
  /\ leaked' = [leaked EXCEPT ![backend[w]] = @ + 1]
  /\ wpc' = [wpc EXCEPT ![w] = "idle"] /\ backend' = [backend EXCEPT ![w] = None]
  /\ UNCHANGED <<sessions, unattended, outlived, where, refcount, alive, sess, held, gone,
                 tvars, rvars, crashed>>

(* connect_nb fails: kill_be marks the backend dead, drops its sessions    *)
(* and takes a reference for a touch_be job; the worker drops its own.     *)
(* kill_be asserts that the backend is in a balancer.                      *)
ConnectFails(w) ==
  LET b == backend[w]
  IN  /\ wpc[w] = "chosen" /\ svcmut = None
      /\ \/ /\ where[b] = "table" /\ touch[b] < MaxTouch
            /\ alive' = [alive EXCEPT ![b] = FALSE] /\ sess' = sess \ {b}
            /\ touch' = [touch EXCEPT ![b] = @ + 1]
            /\ wpc' = [wpc EXCEPT ![w] = "idle"]
            /\ backend' = [backend EXCEPT ![w] = None]
            /\ UNCHANGED crashed
         \/ /\ where[b] # "table" /\ crashed' = "assert"
            /\ UNCHANGED <<alive, sess, touch, wpc, backend>>
      /\ UNCHANGED <<hist, where, refcount, held, gone, tlock, rvars>>

(* The response arrives; upd_session may make a session of it, though the  *)
(* backend may have been swept, its sessions with it, in the meantime.     *)
Response(w) ==
  /\ wpc[w] = "open" /\ svcmut = None
  /\ sess' \in IF sessions THEN {sess, sess \cup {held[w]}} ELSE {sess}
  /\ outlived' = outlived \cup (sess' \ Table)
  /\ wpc' = [wpc EXCEPT ![w] = "idle"]
  /\ UNCHANGED <<sessions, leaked, unattended, where, refcount, alive, backend, held, gone,
                 tvars, rvars, crashed>>

(* The sessions of a backend expire or are deleted.                        *)
SessionsEnd(b) ==
  /\ b \in sess /\ svcmut = None /\ sess' = sess \ {b}
  /\ UNCHANGED <<hist, where, refcount, alive, wvars, tvars, rvars, crashed>>

(* pound_http_destroy.                                                     *)
pound_http_destroy(w) ==
  /\ wpc[w] = "idle" /\ held[w] # None
  /\ held' = [held EXCEPT ![w] = None]
  /\ backend_unref(held[w])
  /\ UNCHANGED <<hist, where, alive, sess, wpc, backend, gone, tvars, todo, svcmut, crashed>>

-----------------------------------------------------------------------------
(* touch_be.  The backend is back to life (or dropped, if only the job     *)
(* refers to it); if it is not disabled its balancer is updated.           *)
Probed(b) == refcount[b] > 1 /\ ~alive[b]

TouchDone(b) ==
  /\ touch[b] > tlock[b]
  /\ \/ ~Probed(b) /\ UNCHANGED alive
     \/ Probed(b) /\ where[b] # "table" /\ alive' = [alive EXCEPT ![b] = TRUE]
  /\ touch' = [touch EXCEPT ![b] = @ - 1] /\ backend_unref(b)
  /\ UNCHANGED <<hist, where, sess, wvars, tlock, todo, svcmut, crashed>>

TouchAlive(b) ==
  /\ touch[b] > tlock[b] /\ Probed(b) /\ where[b] = "table"
  /\ alive' = [alive EXCEPT ![b] = TRUE] /\ tlock' = [tlock EXCEPT ![b] = @ + 1]
  /\ UNCHANGED <<hist, where, refcount, sess, wvars, touch, rvars, crashed>>

(* With svc->mut locked; be->balancer is NULL if b was swept meanwhile.    *)
TouchCounts(b) ==
  /\ tlock[b] > 0 /\ svcmut = None
  /\ \/ /\ where[b] = "table"
        /\ tlock' = [tlock EXCEPT ![b] = @ - 1]
        /\ touch' = [touch EXCEPT ![b] = @ - 1] /\ backend_unref(b)
        /\ UNCHANGED crashed
     \/ /\ where[b] # "table" /\ crashed' = "null"
        /\ UNCHANGED <<tvars, refcount, rpc>>
  /\ UNCHANGED <<hist, where, alive, sess, wvars, todo, svcmut>>

-----------------------------------------------------------------------------
(* thr_backend_remover.                                                    *)
RemoverLock(r) ==
  /\ rpc[r] = "lock" /\ svcmut = None
  /\ svcmut' = r /\ rpc' = [rpc EXCEPT ![r] = "scan"]
  /\ todo' = [todo EXCEPT ![r] = be_rem_head]
  /\ UNCHANGED <<hist, where, refcount, alive, sess, wvars, tvars, crashed>>

AlmostUnreferenced(b) == refcount[b] =< 1                         \* mutant
Releasable(b) == refcount[b] = 0

RemoverLook(r) ==
  /\ \E b \in todo[r] :
       /\ todo' = [todo EXCEPT ![r] = @ \ {b}]
       /\ where' = IF Releasable(b) THEN [where EXCEPT ![b] = "freed"] ELSE where
  /\ UNCHANGED <<hist, refcount, alive, sess, wvars, tvars, rpc, svcmut, crashed>>

QuitAlways(r) == TRUE                                             \* mutant
AllRemoved(r) == be_rem_head = {}

RemoverWait(r) ==
  /\ rpc[r] = "scan" /\ todo[r] = {}
  /\ rpc' = [rpc EXCEPT ![r] = IF AllRemoved(r) THEN "none" ELSE "wait"]
  /\ svcmut' = None
  /\ UNCHANGED <<hist, where, refcount, alive, sess, wvars, tvars, todo, crashed>>

Next ==
  /\ crashed = "no"
  /\ \/ \E old, new \in SUBSET Backends : AddrUpdate(old, new)
     \/ MatrixSwept
     \/ \E w \in Workers : \/ get_backend(w) \/ SameBackend(w) \/ Connected(w)
                           \/ SocketFails(w) \/ Reported(w) \/ OpenFails(w)
                           \/ ConnectFails(w) \/ Response(w) \/ pound_http_destroy(w)
     \/ \E b \in Backends : \/ SessionsEnd(b)
                            \/ TouchDone(b) \/ TouchAlive(b) \/ TouchCounts(b)
     \/ \E r \in Removers : RemoverLock(r) \/ RemoverLook(r) \/ RemoverWait(r)

Spec == Init /\ [][Next]_vars

-----------------------------------------------------------------------------
(* Types of the variables.                                                 *)
TypeOK ==
  /\ where \in [Backends -> {"none", "table", "removed", "freed"}]
  /\ refcount \in [Backends -> Nat] /\ alive \in [Backends -> BOOLEAN]
  /\ sess \subseteq Backends
  /\ wpc \in [Workers -> {"idle", "chosen", "open", "report"}]
  /\ backend \in [Workers -> Backends \cup {None}]
  /\ held \in [Workers -> Backends \cup {None}]
  /\ gone \in [Workers -> Backends \cup {None}]
  /\ touch \in [Backends -> 0 .. MaxTouch] /\ tlock \in [Backends -> 0 .. MaxTouch]
  /\ rpc \in [Removers -> {"none", "lock", "scan", "wait"}]
  /\ todo \in [Removers -> SUBSET Backends] /\ svcmut \in Removers \cup {None}
  /\ crashed \in {"no", "assert", "null"} /\ sessions \in WithSessions
  /\ leaked \in [Backends -> 0 .. MaxLeaks] /\ unattended \subseteq Backends
  /\ outlived \subseteq Backends

(* pound.h, of refcount: "reference counter".  A backend's count is the    *)
(* number of those who own a pointer to it (the table, workers, touch_be   *)
(* jobs), whatever the order in which they take and drop it; the only way  *)
(* out of select_backend that forgets a reference is that of open_backend. *)
RefcountExact == \A b \in Backends : refcount[b] = Refs(b) + leaked[b]

(* A backend that thr_backend_remover freed is in no job's hands and no    *)
(* worker's that took a reference, though backend_unref and the scan of    *)
(* the remover are not synchronized.  Two kinds of pointers are not        *)
(* counted, and the property leaves them out: a session that upd_session   *)
(* made for a backend already swept, by which get_backend finds it even    *)
(* after it was freed, and the pointer of a worker that reports a failed   *)
(* socket() (see ReportsKnown).                                            *)
NoUseAfterFree ==
  \A b \in Backends : where[b] = "freed" /\ b \notin outlived => Users(b) = 0

(* While there are backends that an address update has swept there is a    *)
(* remover to free them: start_backend_removal and the end of a remover    *)
(* that finds be_rem_head empty leave no gap.                              *)
RemoverAround ==
  be_rem_head \ unattended # {} => \E r \in Removers : rpc[r] # "none"

(* A worker that reports a failed socket() reads a backend that is not yet *)
(* freed.  This does not hold: backend_unref comes before log_error.       *)
ReportsKnown == \A w \in Workers : wpc[w] = "report" => where[gone[w]] # "freed"

(* svc.c, kill_be: assert (be->balancer != NULL).                          *)
KillAssertion == crashed # "assert"
=============================================================================
