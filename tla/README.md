# A TLA+ verification of pound

Pound is a reverse proxy, load balancer and TLS front end written in C.  This
directory models the parts of it in which threads, timers and failures meet,
model-checks them with TLC on small instances and proves the main results about
the components with TLAPS for instances of every size.  Everything is
translated from the code in `src/src`; line numbers in `PROJECT.json` ("map")
say which lines a definition stands for.

## 1. The system

| part | state | operations | modelled by |
|---|---|---|---|
| Worker pool and request queue (`pound.c`) | `thr_head`, `worker_count`, `active_threads`, under `arg_mut`/`arg_cond` | `pound_http_enqueue`, `pound_http_dequeue`, `active_threads_decr`, `active_threads_wait`, start of the workers and shutdown in `server` | `WorkerPool`, `RequestQueue`, `WorkerPoolProofs` |
| Job queue and timer (`svc.c`) | `job_head`, `jobcncl_head`, `job_next_id`, under `job_mutex`/`job_cond` | `job_enqueue`, `job_enqueue_after`, `job_cancel`, `thr_timer`, `thr_job_runner` | `JobTimer`, `JobSet` |
| Session table (`svc.c`) | hash and list of sessions of a service, under `svc->mut` | add, find (promote), remove by key and by backend, the job `expire_sessions` | `Sessions` |
| Load balancing and liveness of backends (`svc.c`) | `alive`, `disabled` of backends; `act_num`, `sum_pri`, `max_pri`, `cur`, `round` of balancer groups | `get_backend`, `kill_be`, `backend_disable`, the job `touch_be` | `Balancer` |
| Updates of dynamic backends (`dynbe.c`) | `disabled`, `jid`, `refcount` of a matrix, its jobs | `job_resolver`, `backend_matrix_disable`, cancellation | `MatrixUpdate` |
| Reference counts and removal of backends (`dynbe.c`, `http.c`, `svc.c`) | `refcount`, `be_rem_head`, the pointers of workers, jobs and sessions | `backend_ref`, `backend_unref`, `backend_sweep`, `thr_backend_remover`, `select_backend`, `touch_be` | `BackendRemoval` |
| Supervisor, signals and dispatcher (`pound.c`) | `state`, `pid` and alarm of the supervisor; signals, pid file; poll set and listening sockets | `supervisor`, `server`, `thr_dispatch`, `disable_handler` for listeners | `Server` |
| HTTP connection (`http.c`) | `phttp`: client and backend connections, `conn_closed`, `no_cont`, `response_code` | `do_http`, `select_backend`, `send_to_backend`, `backend_response`, the internal backends, the access log | `HttpConnection` |
| Request matching and rewriting (`http.c`, `svc.c`, `genpat.c`) | the request with its cached parts, the ring of submatches | `http_request_read`, `get_service`, `match_cond`, `expand_string`, `rewrite_apply`, the headers for the backend, `need_rewrite` | `Patterns`, `HttpRequest`, `Rules`, `Location`, `RequestPath` |
| Message bodies (`http.c`) | what was read and written, the sum of chunk sizes | `get_line`, `copy_bin`, `copy_chunks` | `Body` |
| Control interface (`svc.c`) | none of its own: it reads and changes listeners, services, backends and sessions | list, enable, disable, add and delete sessions | `Control` |
| JSON (`json.c`) | values and their text | constructors, formatting, parsing | `JsonText` |
| Command line client (`poundctl.c`) | its command line, the connection | address of the server, request, reply, exit status | `Poundctl` |
| Configuration (`config.c`, `cfgparser.c`), resolver, password files, metrics, templates, logging | | | no (section 8) |

How the parts interact.  The dispatcher accepts a connection and enqueues it;
a worker dequeues it and runs `do_http`, which selects a service, asks
`get_backend` for a backend (a session's, or one the balancer picks), connects
to it (`select_backend`) and forwards messages, updating sessions from
responses.  A failed connection kills the backend: it is dead in the balancer
and a `touch_be` job probes it later.  The timer thread runs all jobs: probes,
the expiry of sessions, DNS updates.  A DNS update creates and sweeps backends;
swept ones are freed by a remover thread once nobody refers to them.  The
control interface runs in workers (it is an internal backend) and disables and
enables backends and matrices at any time.

A client of the control interface is a separate program; it names objects by
numbers that it has from a listing, and what it prints and returns depends on a
reply that may be cut.

What is hard.  Four mutexes (`arg_mut`, `job_mutex`, one per service, one per
backend) with accesses outside of them (`touch_be`, `backend_matrix_disable`,
`backend_unref`'s signal, the start of the workers); condition variables whose
wakeups can be spurious, late or lost; timeouts that race with signals;
decisions taken on counters; signals that come at the wrong time; objects freed
by one thread and used by others; DNS failures and retries; identifiers of jobs that have ended; connections used
for several requests, whose next bytes may be what an earlier message left;
parts of a request that are cached and rewritten; objects that a handler found
before they were removed.  "hazards" in
`PROJECT.json` lists each of these at its line with the properties that cover
it.

## 2. Conventions

A module's state is that of the code, under the code's names where TLA+ allows
it.  A critical section is one step; where the code leaves a lock, waits, or
touches shared data without a lock, the step ends.  Blocking on a mutex is a
guard.  Data that no property tells apart (requests, keys, addresses) are
members of small sets.  A definition marked as a mutant changes the one that
follows it the way a slip in the code would; "mutants" in `PROJECT.json` lists
which property each of them breaks, and TLC confirms it.

Names of bounds: `MaxJobs`, `MaxCancels`, `MaxTime` (JobTimer), `MaxTime`,
`MaxArmed` (Sessions), `MaxKills`, `MaxAdmin` (Balancer), `MaxId`, `MaxAdmin`
(MatrixUpdate), `MaxTouch`, `MaxLeaks` (BackendRemoval), `MaxReq`, `MaxInterim`
(HttpConnection), `MaxConns`, `MaxSignals`, `MaxCrashes`, `MaxStops`,
`MaxAdmin` (Server), `MaxCommands`, `MaxEvents`, `Cuts` (Poundctl).  They only
limit how often the environment acts.  `SMQ_SIZE`, `MAXBUF`, `LenMax`,
`KEY_SIZE`, `INT_MAX` and `LONG_MAX` are sizes of the code, made small.

## 3. The modules

**WorkerPool** has the queue, the two counters, the place of each worker
(`pc`: none, ready, wait, timedwait, timedout, busy) and of the main thread.
`pound_http_enqueue(r)` pushes and, if all workers are busy and the pool may
grow, starts one; then it signals.  `pound_http_dequeue` is split where it
waits: `TakeRequest`, `WaitForRequest`, `IdleExit`, with `IdleTimeout` and
`SpuriousWakeup` for the ends of the wait.  A worker that timed out is no longer
woken by signals but has yet to get the mutex: the interesting races are there.
`server()` increments and decrements `worker_count` without the mutex while it
starts the initial workers (`StartupCreate`, `StartupAdjust`).  `Shutdown` and
`active_threads_wait` are the end.

**RequestQueue** is what the pool promises: connections are served in the order
of arrival, at most `WorkerMaxCount` at a time, and each is served.  The
refinement maps `queue` to `thr_head` and `serving` to the requests of the busy
workers.

**JobTimer** has the ordered queue, the list of cancellations and the timer
thread.  `TimerLocks` is the end of a wait: the mutex is locked again, and the
job whose time has come is handed to a runner; `job_remove` serves one
cancellation; `TimerWaits` goes to sleep for the first job of the queue.  Between
the first and the last of them nobody else gets the mutex.

**JobSet** is what the queue promises: pending jobs are a set, of which the
earliest (of two of the same time, the older) is started when its time has come;
a cancellation takes the job it was asked for, if that is still pending, and no
other.  The refinement maps `pending` to the jobs of `job_head`, `asked` to those
of `jobcncl_head`, `running` to `runners`, `over` to `ended`, `armed` to
`job_next_id` and `clock` to `now`.

**Sessions** has both views of the table, and the pending expiry jobs as a bag
of times (jobs of the same time can accumulate).  Removals from the list are
sublists (`Without`): what is left, in its order.

**Balancer** computes the outcomes of selection as operators of the state
(`rand_pick`, `iwrr_select`, `service_lb_select_backend`), so that properties
can ask what a whole cycle of selections would return.  `touch_be` is split at
each of its unlocked accesses (stages armed, probe, alive, lock), and the number
of jobs of a backend at each stage is counted.  A selection that does not end is
a state (`spin`), with the service locked.  `overtaken` is history: the groups in
which a recount, or another job of the same backend, came between the two steps
by which a `touch_be` makes its backend alive and counts it.

**MatrixUpdate** follows each thread through an update, with the locks of the
matrix and of the job queue.  `failed` remembers that a lookup failed for good.

**BackendRemoval** follows workers through `select_backend`, the `touch_be`
jobs and the removers, and counts references as the code does.  All ways out of
`select_backend` are there: the backend of before, connected, an address of an
unknown family or a failed `socket()` (`SocketFails`: the reference is given up,
and the worker, at "report", still has a pointer, `gone`, that it names in the
log, `Reported`), a failed handshake, a failed connection.  `leaked`, `unattended`
and `outlived` are history: references that `select_backend` has forgotten,
backends swept without a remover being started, and backends for which a session
was made after they had been swept.

**HttpConnection** is one pass of a worker through `do_http` for a client that
sends requests without waiting and backends that follow the protocol but close
whenever they like.  Streams are sequences of heads and bodies, each with the
request it belongs to, so that the model knows when the code takes one part for
another.  A response can fail in its head, in a rewriting rule and in its body.
`pc` is the place in `do_http`; `skip`, `no_cont` and `conn_closed`
are the flags of the code.  A request or response is a record of what the code
branches on (method HEAD, version, `Connection: close`, framing, upgrade, class
of status).  That a message does not come means that the wait times out, so the
actions for timeouts need no clock.  `hist` is history: "mispaired" and
"misread" when a part is taken for what it is not, "loose" when a response is
taken for ended that is not, "left" when an internal backend leaves the body of
a request unread, "swallowed", "broken" and "pending" as the comments say.
`open_backend`'s failures, `get_service` and `get_backend` are outcomes here
(BackendRemoval and Balancer look inside).

**Server** has the supervisor, whose place is one of top (of the loop), call
(between two calls of `sigwait`), sigwait, wait and done, and any number of
server processes, of which the supervisor knows one.  Signals are not blocked
in the supervisor: one that does not find it in `sigwait` runs the empty handler
`signull` and is lost, or interrupts `wait()`; in the server they are blocked
and pending once it has started.  The dispatcher walks the list of listeners
(`at`) and the array `polls` (`i`) side by side.  The backlog of a listening
socket belongs to the socket, which the supervisor holds open.  `hist` is
history: "lostchld" and "lostalrm" when a signal was lost, "eintr" when `wait()`
was interrupted, "disabled" when a listener was disabled.

**Patterns** has the comparisons of `genpat.c` and the search of Boyer and Moore
with the tables that the code fills in.  **HttpRequest** has the request as the
code keeps it: whole URL, path and query, parameters, request line and original
line, and a header list whose values are copied when first asked for.  Every
function of `http.c` on it is an operator that returns the new request.
**Rules** has conditions, the ring of submatches, expansion and rewriting; the
state they work on has the request, the response, the ring and which of the two
messages the rules are for.  **Location** has the headers that name places:
Destination in requests, Location and Content-location in responses, with the
tests of `need_rewrite` on addresses, ports and names.  A text is a sequence of characters
and of words the code does not take apart; an expression is a sequence of items.
Reading what was never set is the value `Undef`; matching a null pointer is the
result 2, after which the worker has crashed.  **Body** reads its input character
by character and writes what the backend gets; its integers wrap around as
`CONTENT_LENGTH` does.  **RequestPath** composes them along a worker's way: read,
choose a service one condition at a time, add headers, rewrite for the listener
and the service, send, copy the body, or answer with a redirection; then rewrite
the head of the response and its locations.  The ring of submatches belongs to
the connection: a case begins with what the patterns of earlier requests have
left there (`before`).  `FirstMatchServes` compares the choice with a reference
definition (`Holds`) that has no ring and no cached parts: the conditions are
about the request as it was received, and a reference of a `StringMatch` is
looked up in the list of the patterns tried so far, the latest first, with what
each of them matched.

**JsonText** has values, the binary search and insertion of object members, the
text, and the parser as a loop over the input with its stack.  A number counts
tenths, because formatting drops fractions; layout is left out.  **Control** has the configuration as
a tree of listeners, services, balancers and backends, and for each connection
the request, the worker and the reply.  A worker finds its object in one step
and acts in a later one, then describes services one by one, each under its
mutex; between these steps the sessions, backends and balancers change.  The use
of a backend that is gone is a choice: the server dies and the supervisor starts
another (`Restart`), or the old contents of the memory are used.  A parameter
that is asked for in a query ending in a separator is `Unset`, a pointer to the
end with a length that was never set: `key` is then refused, and with `indent` the
reply is sent or refused.  **Poundctl** has
the client: where it finds the server, what it refuses, what it sends, and what
it makes of a complete, a cut and a missing reply, and of a template that is not
defined.  `did` (what the request
did), `stale` (a removed backend got a session), `lost` and `junk` (the reply was
cut, the rest of the buffer was not clear) are history.

## 4. The passing runs

| run | instance | distinct states | shows |
|---|---|---|---|
| `pool` | 3 workers, limits 1 and 3, 3 connections | 5.8 thousand | counters exact, limits kept, no request lost or doubled, no lost wakeup, grace ends early only when idle, `RequestQueue` implemented (order of arrival, at most the maximum at a time, every request served) |
| `timer` | 3 jobs, 2 cancellations, times 0 to 2 | 91.4 thousand | the timer never sleeps past work, no job lost or doubled, a cancellation in time holds, `JobSet` implemented (no job early or out of order, no other job cancelled), every job ends |
| `sessions` | 2 keys, 2 backends, lifetime 2, times 0 to 5 | 10.8 thousand | list and hash agree, a job is always pending in time and takes exactly the sessions expired by its time, every expired session goes |
| `lb` | a group of two (priorities 2 and 1) and one of one, both algorithms, 3 failures, 1 control request | 100.7 thousand | backends that are active and not about to be counted are counted, and no others unless a probe was overtaken, shares exactly proportional to priorities, dead backends return |
| `mtx` | 2 runners, 4 control requests, all outcomes of DNS | 46.7 thousand | references to the matrix are exact; an enabled matrix has an update ahead of it unless DNS failed for good |
| `rem` | 2 backends, 2 workers, 2 removers, with and without sessions | 4.1 million | counts exact up to the leak of a failed handshake, no use after free by those who hold a reference, a remover is there while there is something to remove |
| `http` | 2 requests of 7 kinds, 9 kinds of responses, 2 regular and 3 internal backends, 2 interim responses | 1.5 million | responses and requests stay paired on connections used again, one answer and one log line for each request, no request is waited for without end |
| `req` | 5 URLs and 3 lists of headers, pairs of services with conditions of all kinds, references of `StringMatch` to patterns of the same service, of others and of earlier requests, rewriting rules, redirections; chunked bodies of three pieces and an end, well-formed and not, cut by end of file and errors; 10 locations with all settings of `RewriteLocation`, address families, protocols and server names | 305 thousand | the first service whose condition holds is chosen, whatever was cached, stored or failed before unless the condition refers to it, references are to its own matches, all views of the request agree after rewriting, a body is passed on exactly and not a character more is read, a location that names the backend leads the client back to the listener and the same path |
| `ctl` | 2 clients, 21 command lines of which 2 are given, a service with two balancers and one with a single one, both with sessions, 1 event of the traffic or the resolver, replies cut at 2 places | 150.7 thousand | numbers of a listing lead back to the objects, replies are read as they were meant, exit statuses tell what was done, with the exceptions that the property names, no command takes the control interface away |
| `srv` | 2 process ids, 2 listeners, 1 connection, 2 signals, 1 crash, 1 stop, 1 disabled listener | 154.9 thousand | the supervisor knows of every server and leaves none behind, it ends once told to, connections are taken across a restart |

Why the bounds are enough.  In `pool` three workers between 1 and 3 make the
pool grow twice and shrink twice, several workers time out at once, and
connections can be enqueued again after they were served, so behaviours are
unbounded in length; the theorems of section 6 remove the bound.  In `timer`
three jobs are enough for insertion before, between and after, two cancellations
for any two of them, or for one twice.  In `sessions` times up to 5 cover two full lifetimes,
with promotions in between.  In `lb` three failures kill all of a group and the
emergency backend in any order.  In `mtx` identifiers are reused when nobody
remembers them, so chains of updates are unbounded.  In `rem` backends are
objects, born and freed once.  In `http` what one request leaves behind shows
with the next, so two are enough; with two interim responses a final response
comes after one, after none, or after a 100 and another one in either order.  In `srv` process ids are used again, so restarts
are limited by crashes and stops only; two signals are what it takes to lose
one, and each of the other events happens at any point of the others.  `req`
enumerates cases rather than schedules: a request is dealt with by one thread,
so that what matters is the combination of URL, headers, conditions and rules;
the ring has fewer slots than the services have statements, so that it wraps
around, and the lines of bodies reach the end of the buffer and the largest
length.  In `ctl` two commands and one event are what it takes to find an object,
lose it and act on it, or to list while another command changes what is listed;
both events and commands come between any two steps of a worker.

The modules whose state is concurrent also define `TypeOK`, which the theorems of
section 6 contain.

## 5. Fairness

`pool`: threads that can run do run (weak fairness of each worker's next step
and of the main thread), and every request ends (`do_http` gives up on clients
and backends after `TimeOut`).  The idle timeout, spurious wakeups, arrivals and
signals are not fair.  `timer`: the clock advances, the timer thread (`TimerLocks`, `job_remove`,
`TimerWaits`) and the runners run; a wait whose time has come is left by timeout if it comes to it
again and again (strong fairness: spurious wakeups may not preempt it for
ever).  `sessions`: the clock advances and jobs run.  `lb`: jobs run, and a
backend probed for ever answers once (strong fairness of `ProbeSucceeds`), which
is the hypothesis under which returning to the pool is promised.  `mtx_again`:
threads run and locks are granted in the end.  `http`: the worker takes its next
step when it can (weak fairness of `Worker`), where waiting for a silent peer
ends in a timeout; that holds with the default `TimeOut` and with any but 0, for
which `open_backend` sets none.  A backend that sends content without end is
outside the model.  `srv`: processes and threads that can run do run (weak
fairness of the supervisor, of each server's main thread and dispatcher), the
alarm rings, and `accept` does not fail for ever while connections wait (strong
fairness of `Accept`).

## 6. What is proved

Eight modules hold proofs that TLAPS checks, each about one component and for
every value of its constants: the bounds of the runs do not limit them.  The
theorems have the form `Spec => []Inv`, `Spec => [][A]_vars` for an action
property or `Spec => Abstract` for a refinement, and rest on one inductive
invariant in each module; TLC was asked about it first.  Assumptions on constants are the `ASSUME` of the component's
module, which TLC evaluates in the run.

**WorkerPoolProofs**: for every finite set of workers, every set of requests and
all limits that `PoolAssumption` allows (`worker_min_count <= worker_max_count`,
at least `worker_max_count` workers), `CountsCorrect` (`TypeOK`, `CountsExact`),
`LimitsKept` (`WithinLimits`), `WakeupsKept` (`NoLostWakeup`), `DrainedIdle`
(`DrainedMeansIdle`), `OnePlace` (`RequestInOnePlace`) and
`PoolImplementsQueue`: `Spec => RQ!RQSafe`, the refinement without fairness.
`CountsExact` says nothing of `worker_count` while the server
starts, when it is the configured minimum, plus one between `worker_start` and
the correction.  `StartupCounts` adds that: during startup `started` (or
`started + 1`) workers exist and `worker_count` is the minimum or one more.
`CountInv == TypeOK /\ CountsExact /\ StartupCounts` is inductive: each action
moves at most one worker in or out of `Live` and of `Active`, and lemma
`OneMoreOrLess` turns that into the cardinalities.  `SignalEffect` says what a
signal may change.  `LimitsKept` follows from the exact counter and the tests
on it.  `WakeupsKept` is inductive with `CountInv`.  `OnePlace` is inductive
with the fact that each busy worker has a request.  For the refinement,
`StepKinds` classifies the steps of the pool by what they do to queue and
requests in service, and `ServingBound` bounds the latter by the limit.

**JobTimerProofs**: for any number of jobs, times and cancellations,
`NeverOversleeps` (`SleepsOnFirstJob`), `NoJobLost` (`JobInOnePlace`),
`CancellationHonoured` (`CancelledInTimeNeverRuns`) and the refinement
`TimerImplementsJobSet` (`ImplementsJobSet`).  The invariant adds to them the order of the
queue and that identifiers in it are distinct (the insertion of
`job_arm_unlocked` puts a job after those of the same time, which are older), no
identifier running twice, that a timer that has timed out has a due job that was
not cancelled before (`TimedOut`), and that a job cancelled in time is no longer
queued or its cancellation is still posted (`InTime`).  The lemmas about
sequences say what inserting, removing and taking the first element do to order,
distinctness and the set of identifiers.  For the refinement `StepOfJobSet` takes
each step to one of JobSet or to none: that the first of the queue is the
earliest of the set comes from the order, that a removal takes one job from the
set comes from distinctness, and the timer locking again starts a job only if
`TimedOut` has it due.

**SessionsProofs**: for any keys, backends and lifetime, `HashMatchesList`
(`ListHashAgree`), `ExpiryPending` (`ExpiryJobPending`) and the action property
`ExpiredTaken` (`ExpiryExact`): the job, which stops at the first session of the
list that has not expired, takes the expired ones and no other.  Both need the
order of the list: `ExpiryJobPending` alone is not inductive, because when the
first session goes, the next one must not expire earlier.
So the invariant has the list in the order of expiration, each key in it once,
and every session of the hash in the list and the other way round.  Taking
sessions out is reasoned about with the places that the rest had in the list
(`Embeds`), so that no induction over the list is needed.

**BalancerProofs**: for any groups that have each backend once and priorities
from 1 on, `TypesKept` (`TypeOK`, with rounds and `max_pri` bounded by the top
priority of the group's members, active or not);
`NoneUncounted` (`CountersSettled`), by an invariant of its own on top of the
others: the counters of a group are at least those of its active backends that no
`touch_be` is about to count, and exactly those unless a probe was overtaken; a
probe that will count its backend, and was not overtaken, is the only one that
will, and the backend is active (`LoneAt`), so that counting it adds what was
missing;
`SearchTerminates`: the search of `iwrr_select`
ends exactly if a backend of the group is active, because rounds come back to
zero within `max_pri + 1` of them, and every priority is above zero (the case
without an active one is the run `lb_emergency`); `NoneForgotten`: with dynamic
backends every dead backend has a `touch_be` job that waits or probes, which is
the safety half of `DeadBackendReturns`; and `SharesProportional`
(`Proportional`), for both algorithms.  The invariant has the types and bounds
of positions and rounds and `DeadAttended`.  For the random choice, the walk
over the list selects a backend for the numbers between the sum of the active
priorities before it and that sum with its own, which are as many as its
priority.  For the weighted round robin the looks at places of the list are
numbered on from the current one: over a window of `max_pri + 1` rounds (and the
rest of a pass whose round is left from a higher `max_pri`, in which nobody is
taken) each place is looked at once in every round, wherever the window begins,
so an active backend is taken in as many looks as its priority; the k-th selection is the
k-th look of the window that takes a backend, and all of them together are the
sum of the priorities.  Sums are recursive functions; that they are what their
definitions say is proved, not assumed.

**MatrixUpdateProofs**: for any finite set of runners, any number of identifiers
and control requests and any outcomes of DNS, `MatrixReferences`
(`RefcountExact`) and `ChainUnbroken` (`UpdateAhead`).  The invariant adds that the job the timer is about to
start is queued, and that the one it is cancelling is queued and heads the list
of cancellations.

**BackendRemovalProofs**: for any finite set of workers and any backends and
removers, `ReferencesCounted` (`RefcountExact`), `FreedUnused`
(`NoUseAfterFree`) and `SweptAttended` (`RemoverAround`).  The invariant adds
which pointers a worker has where it is (`WorkerPointers`), that nobody knows a
backend before it is created (`UnbornUnknown`), that a remover scans with the
service locked and has nothing left to look at that has left the list
(`ScanLocked`), and that sessions are for backends of the table, but for those in
`outlived` (`JobsAndSessions`).  That a freed backend is not used by those who hold a
reference follows from the exact count: the remover frees at zero, and what has
no user gets none once it is out of the table, unless a session for it was made
after its sweep.  The theorem says nothing of a worker that reports a failed
`socket()`, which has no reference (section 7, `ReportsKnown`).

**HttpConnectionProofs**: for any number of requests and interim responses, any
sets of regular and internal backends and any kinds of requests and responses
(but for responses that no peer may send, a chunked one of HTTP/1.0 or a chunked
interim one), `ResponsesPaired` (`ResponsesMatch`), `RequestsInStep`
(`RequestsAligned`), `AnsweredOnce` (`OneAnswer`) and `LoggedOnce`
(`LogComplete`).  The invariant says, for each place of `do_http`, what the two
streams hold.  Of the client's: requests are numbered in order (`Numbered`),
bodies come after the heads that announce them (`Streamed`), and what comes next
is a head where one is read and the body of the request at hand where that is
copied (`Placed`).  Of the backend's: nothing is under way on a connection
between requests, and while a response is read there is nothing but what belongs
to it, interim responses, then the head of the final one, then its body, the
rest being still to be sent (`Pairs`, `Matched`); `no_cont` is what the response
says, so that a body is read exactly if one comes.  Of the output and the log: the
request at hand has no answer before its response is sent and one after
(`Answered`), and `response_code` is zero or that of an earlier line (`Logged`).

The same module has what can be proved of HttpRequest.  `ViewsFollow`: for texts
of any length, asking for the parts of a request and setting its URL, path or
query leave it coherent, that is, path, query and parameters as they are asked
for, computed before or not, are those of the URL on the request line
(`Coherent`); the part that is set is what it was set to, the other is as before,
and the line for the log is the one that was received.  `ViewsBegin`: a request
that `parse_http_request` accepts is coherent.  The argument is that what
`http_request_rebuild_url` puts together `http_request_split` takes apart at the
same question mark, the last one: a query that was split off has none, and the
path may have some if a query follows.  A query that is set must therefore have
none, and a path none where there is no query; section 7 says what happens
otherwise.  Setting a single parameter is left to `ViewsAgree`,
which TLC checks: that a list of parameters is read back from its text is an
induction over the list.

**ServerProofs**: for any finite set of process ids and any number of listeners,
connections, crashes, stops and signals, `NoServerLost` (`Supervised`) and
`DispatcherFree`: a dispatcher calls `accept` only where a connection waits.
The invariant adds that there is no process but the one that the supervisor
knows of (`Known`), that a dispatcher is in step with the array of `poll`, and
that connections wait at every listener that it has still to see to
(`DispatchersInStep`).

A few facts need induction over numbers (the minimum of a set of numbers is one
of them, a finite set of numbers has a maximum, a sum of priorities is a number
and grows by what is added).  They are proved from the well-foundedness of the
numbers, as a choice of a least counterexample (`LeastNumber`), or with
`InductUpTo`, which states induction up to a bound for membership in a set, so
that no operator has to be instantiated.

Only model-checked are: liveness (`EveryJobEnds`, `ExpiredSessionsRemoved`,
`DeadBackendReturns`, `EveryRequestEnds`, `StopsInTime`, `ConnectionsTaken` and
the fair part of `ImplementsRequestQueue`), which the prover does not handle,
and the properties of RequestPath and Poundctl, which evaluate recursive
operators (Rules, Body, Location, JsonText): the prover has no induction over
them.

## 7. Disagreements between code and documentation

The first two are runs of their own that TLC refutes (`PROJECT.json`,
"findings", quotes the text); the others show when the property named is added
to the configuration of the run.

* `lb_emergency`: `iwrr_select` does not end when no backend of its group is
  active, instead of leaving the choice to the next group.
* `mtx_again`: `job_remove` calls `job_resolver`, which locks the matrix, with
  the job mutex locked, while an update locks them in the other order.
* `KillAssertion`, run `rem`: a worker whose connection fails after its backend
  was swept (`pound.h:1090` sets `be->balancer` to NULL) fails the assertion of
  `kill_be`, `svc.c:1241`.
* `ReportsKnown`, run `rem` (`http.c:4438`, `http.c:4447`): where the address family is
  unknown or `socket()` fails, `select_backend` calls `backend_unref` before
  `log_error`, which reads the backend; if it was swept meanwhile the remover may
  have freed it.
* `AnyBalancer` in the place of `InLast` in `ListingTrue`, run `ctl` (`svc.c:1869`):
  with several balancers the number of a session's backend goes on counting the
  backends of the balancers after its own; `pound.texi:5690` says that it is the
  ordinal number of the backend.  `ListingTrue` asks for the right number only
  where the backend is in the last balancer, as it is when there is one only.
* `OtherLocationsKept`, run `req` (`svc.c:1484`): with `RewriteLocation 1`, the
  default, every location is moved to the host of the request, those of other
  sites too, because the tests for port and protocol are joined to the others by
  "or".  `svc.c:1397` and `pound.texi:3741` have only locations that name the
  backend or the listener rewritten.
* `ForwardsResponse`, run `http` (`http.c:3708`): after a response with status 100
  `skip` stays set: the final response is not sent to the client, and another one is waited for.

Noticed on the way, without a run:

* `pound.c:347`: with `WorkerMinCount 0` the last worker may time out while a
  request is queued for it; the request waits for the next connection
  (`ImplementsRequestQueue` fails in WorkerPool with `worker_min_count = 0`).
* `pound.c:297`: requests that arrive before idle workers run are queued behind
  busy ones although the pool might grow; `pound.texi:1906` says otherwise.
* `pound.c:450`: the grace period ends with connections still in the queue;
  `pound.texi:3043` speaks of existing connections.
* `pound.c:818`: SIGCHLD of a server that fails before the supervisor is in
  `sigwait` is lost, and the server is not restarted; `pound.texi:2556` says it
  is.
* `pound.c:823`: stopping and continuing the server, or stopping it and a
  termination signal, makes the supervisor's `wait()` fail, which it takes for
  the end of the server: it starts a second one, or ends with the first left.
* `pound.c:865`: a server killed after the grace period does not remove the pid
  file, nor does the supervisor.
* `pound.c:467`: the server closes the listening sockets when it shuts down, but
  the supervisor keeps them open: clients still connect during the grace period,
  and nobody accepts (`pound.texi:3045` has the listeners closed at once).
* `pound.c:524`: `continue` skips `i++` after a connection to a disabled
  listener, so that the next listener is polled at the wrong index: its `accept`
  may block the dispatcher.
* `svc.c:1664`: `touch_be` changes `alive` and then the counters in different
  critical sections (the first in none), so that after a concurrent disable,
  enable or kill a backend is counted twice in `act_num` and `sum_pri`, or though
  it is dead again, until the next recount (`overtaken` in `CountersSettled`); the
  properties of Balancer about shares are therefore about states in which the
  counters match.
* `dynbe.c:115`: after `dns_failure` no further update is armed (marked FIXME).
* `dynbe.c:719`: `job_cancel` is given a `jid` that the first update and retries
  do not set, so that the pending job stays.
* `http.c:4464`: a failure of `open_backend` loses a reference; the backend is
  never freed.
* `svc.c:383`, `dynbe.c:707`: filling a session table again, or enabling a matrix
  again, starts a second chain of jobs while the old one is still queued.
* `dynbe.c:813`: `backend_unref` signals without the mutex of the waiter; the
  wakeup can be lost and a swept backend stays until the next signal.
* `dynbe.c:717`: disabling a matrix, and dropping one on a SRV update, starts no
  remover.
* `svc.c:1658`: built without dynamic backends, `backend_ref` does not count, so
  `touch_be` finds a reference count of 1 and drops the job of a dead backend
  (`DeadBackendReturns` fails in Balancer with `Dynamic = FALSE`).
* `svc.c:1086`: the response to a request under way makes a session for a
  backend that was swept meanwhile; later requests get a backend that may be
  freed (`outlived` in `NoUseAfterFree`).
* `http.c:4935`: `response_code` keeps the status of an earlier request of the
  connection when a later one fails or goes to the metrics backend, and that
  status is logged.
* `http.c:3725`: an interim response other than 100 and 101 counts as the final
  one; the final one is then pending on the connection, which is closed if it
  has come by the time of the next request and used if it has not.  The client
  has got the interim response only (`Passed` in `OneAnswer`).  After a 100
  the loop goes on instead, and `no_cont`, which the interim response has set, is
  not reset for the final one (`http.c:3874`): its content is not read.  Both are
  "loose" in HttpConnection.
* `http.c:3758`: `Transfer-Encoding: chunked` in a response to HEAD makes
  `backend_response` wait for a body that does not come.
* `http.c:3926`: a response whose content until EOF is late counts as ended, and
  both connections stay in use.
* Internal backends do not read the body of a request, and the connection goes
  on; `http.c:1031`: `acme_response` can fail after its header, and an error
  response follows ("broken": `OneAnswer` admits the second answer for the last
  request of the connection, which ends there).
* `svc.c:1670`: `touch_be` uses `be->balancer` after a test of `disabled` made
  before locking; a sweep in between leaves it NULL.
* `genpat.c:394`: `is_prefix` returns the opposite of what its comment says, so
  that the shifts can be too large: `-contain` with `caca` misses `cccaca`.
  FirstMatchServes is stated with the code's search on both sides.
* `http.c:1388`: the sum of chunk sizes wraps around, and with it the comparison
  with `MaxRequest` (`pound.texi:3126`).
* `http.c:520`: `find_accessor` does not end for a name followed by blanks only.
* `http.c:680`: a reference to the group after the last one is accepted and reads
  an element that was not set; `%[query]` of a request without one reads a
  pointer that was not set (`Undef` in Rules).
* A `Query` condition on a request without query matches a null pointer.
* An error in the condition of a branch of a rewriting rule counts as a condition
  that does not hold; conditions that fail occupy slots of the ring, so that
  references after alternatives and negations are to other statements
  (ReferencesOfService is about services that list statements).
* A path set to a text with a question mark, or an empty query, make path, query
  and URL differ (`Clean` in RequestPath).
* `svc.c:1365`: `is_listener_address` compares only addresses of families other
  than the listener's, and `svc.c:1380` reads the pointer to the listener's
  address as the address, so the port is never the listener's.
* `http.c:3780`: the host is taken from the request as it was sent, so that with
  `ServerName` a location gets the backend's name; `pound.texi:3743` speaks of
  the request's.  `LocationsLeadBack` leaves those connections out.
* `pound.c:1135`: the expression for locations is not anchored, so that a relative
  location with a URL in its query is taken for that URL (`at` in Location).
* `bauth.c:321`: the list of users is emptied and refilled without a lock while
  other workers search it.
* `svc.c:2797`: disabling `/-` or `/` calls `listener_has_control` with a null
  pointer.  The server is started again, with its sessions and disabled objects
  forgotten.
* `svc.c:2787`: the backend was found without lock or reference; it may be gone.
* `svc.c:2764`: `listener_has_control` looks at the services of the listener and
  not at the global ones.
* `svc.c:1257`: disabling a matrix from the control interface sweeps its backends
  without the service mutex, while a listing holds it.
* `svc.c:2509`: an empty element of a path is the number 0, and a large negative
  number loses its upper bits.
* `svc.c:2397`: a wrong `indent` is refused after the change has been made.
* `svc.c:1857`: `get_param` returns a pointer to the end of the query, with a length
  that was not set, when the query ends in `?` or `&`; a session key that ends in an
  ampersand makes one, and the reply to the change may be an error (`Open` in
  `ExitTruth`).
* Disabling a redirection or an error backend is answered with success and does
  nothing ("ignored": `ExitTruth` admits exit 0).
* `poundctl.c:993`, `poundctl.c:1038`: that a template is not defined is found out when
  the server has made the change; the exit status is 1 (`shown` in `ExitTruth`).
* `poundctl.c:784`: a short read is not noticed; what `malloc` left in the buffer
  is parsed with the reply.
* `poundctl.c:607`: `check_uri` refuses names where `pound.texi:4824` admits
  them; a key is not encoded, so that an ampersand ends it.
* `json.c:937`: `\b` and `\f` followed by three hexadecimal digits are read as the
  number of a character.
* `metrics.c:466`: a pointer to the current metric is static and shared by the
  workers that answer scrapes at the same time.

## 8. Not modelled

The configuration parser (a batch program; only the limits it enforces appear,
as assumptions), the resolver (its outcomes are inputs of MatrixUpdate), metrics
and logs, the templates and the configuration file of `poundctl`, TLS.  A regular
expression is a prefix with one group after it: what the libraries match is not
this program's.  Reading password files and hashing passwords are left out; who
is let in is in Rules.  Left out of RequestPath are bodies of known size and the
headers of responses other than locations (HttpConnection has them); out of
HttpConnection the failures for want of memory while the headers of a response are
read (`http.c:3736` to 3828); out of JsonText indentation and blanks, Unicode
escapes, copying and filtering; the overflow checks of priorities out of
Balancer, and the balancer objects out of BackendRemoval.  Liveness of the
control interface is not checked: evaluating fairness means parsing replies once
more for every step.

## 9. What could be added

1. A session table as one map from keys to backends with times, which hash and
   list implement.
2. Rules, Body, JsonText and the modules that extend them are recursive and stay
   with TLC; written with recursive functions, what a single loop of them keeps
   (the ring of submatches, the stack of the parser) could be proved.
3. The composition of Balancer and BackendRemoval, with the balancer objects.
4. The lexer and include stack of the configuration parser.
