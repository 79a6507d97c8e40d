------------------------------- MODULE Server -------------------------------
(***************************************************************************)
(* The processes of pound (pound.c): the supervisor, which starts the      *)
(* server, restarts it when it fails and passes termination signals on;    *)
(* the main thread of the server; and its dispatcher, which accepts the    *)
(* connections of all listeners.  The listening sockets are opened before  *)
(* the first fork and outlive a server that fails.                         *)
(***************************************************************************)
EXTENDS Naturals, FiniteSets

CONSTANTS Pids,                  \* process ids of servers, used again
          None,
          NListeners,            \* n_listeners
          MaxConns, MaxSignals, MaxCrashes, MaxStops, MaxAdmin   \* bounds

ASSUME ServerAssumption ==
  /\ None \notin Pids /\ IsFiniteSet(Pids) /\ NListeners \in Nat \ {0}
  /\ \A m \in {MaxConns, MaxSignals, MaxCrashes, MaxStops, MaxAdmin} : m \in Nat

Listeners == 1 .. NListeners

VARIABLES sup,        \* where the supervisor is
          state, pid, \* its variables
          alarm,      \* of the supervisor: "off", "set", "ticking"
          child,      \* what each server does, or how it has ended
          stopped,    \* servers stopped by a signal
          csig,       \* termination signals pending for servers
          disp,       \* the dispatcher thread of each server
          disabled,   \* listeners that each server has disabled
          backlog,    \* connections waiting in each listening socket
          pidfile,    \* does the pid file exist?
          hist,       \* events of note (history)
          left        \* what is left of the bounds

svars == <<sup, state, pid, alarm>>
cvars == <<child, stopped, csig, pidfile>>
dvars == <<disp, disabled, backlog>>
vars == <<svars, cvars, dvars, hist, left>>

Alive == {c \in Pids : child[c] \in {"starting", "serving", "draining"}}
Zombies == {c \in Pids : child[c] \in {"exit0", "failed"}}
Runs(c) == c \notin stopped
NewDisp == [pc |-> "poll", at |-> 1, i |-> 1, ready |-> {}]
Use(b) == left[b] > 0 /\ left' = [left EXCEPT ![b] = @ - 1]

Init ==
  /\ sup = "top" /\ state = "running" /\ pid = None /\ alarm = "off"
  /\ child = [c \in Pids |-> "none"] /\ stopped = {} /\ csig = [c \in Pids |-> {}]
  /\ disp = [c \in Pids |-> NewDisp] /\ disabled = [c \in Pids |-> {}]
  /\ backlog = [l \in Listeners |-> 0] /\ pidfile = TRUE /\ hist = {}
  /\ left = [conns |-> MaxConns, signals |-> MaxSignals, crashes |-> MaxCrashes,
             stops |-> MaxStops, admin |-> MaxAdmin]

-----------------------------------------------------------------------------
(* The supervisor waits for signals with sigwait, but does not block them: *)
(* one that comes at another time is caught by signull and lost.           *)

(* The end of the part for SIGCHLD: the child is restarted, or the         *)
(* supervisor ends.                                                        *)
AfterChild ==
  IF state = "running" THEN sup' = "top" /\ pid' = None
  ELSE sup' = "done" /\ UNCHANGED pid

(* wait() ends with EINTR, which is taken for the end of the child.        *)
WaitInterrupted ==
  /\ AfterChild /\ hist' = hist \cup {"eintr"} /\ UNCHANGED <<state, alarm>>

(* SIGCHLD arrives because a child has ended.                              *)
SigChld ==
  \/ sup = "sigwait" /\ sup' = "wait" /\ UNCHANGED <<state, pid, alarm, hist>>
  \/ sup \in {"top", "call"} /\ hist' = hist \cup {"lostchld"} /\ UNCHANGED svars
  \/ sup \in {"wait", "done"} /\ UNCHANGED <<svars, hist>>

(* The top of the loop: fork, which may fail.                              *)
Fork ==
  /\ sup = "top"
  /\ \/ \E c \in Pids :
          /\ state = "running" /\ child[c] = "none"
          /\ pid' = c /\ sup' = "call" /\ child' = [child EXCEPT ![c] = "starting"]
          /\ csig' = [csig EXCEPT ![c] = {}] /\ disp' = [disp EXCEPT ![c] = NewDisp]
          /\ disabled' = [disabled EXCEPT ![c] = {}]
     \/ sup' = "done" /\ UNCHANGED <<pid, child, csig, disp, disabled>>
  /\ UNCHANGED <<state, alarm, stopped, pidfile, backlog, hist, left>>

SigWait ==
  /\ sup = "call" /\ sup' = "sigwait"
  /\ alarm' = IF alarm = "set" THEN "ticking" ELSE alarm
  /\ UNCHANGED <<state, pid, cvars, dvars, hist, left>>

(* wait() returns a child that has ended: the supervisor ends if it has    *)
(* exited with status 0.                                                   *)
Wait ==
  /\ sup = "wait"
  /\ \E c \in Zombies :
       /\ child' = [child EXCEPT ![c] = "none"]
       /\ \/ c = pid /\ child[c] = "exit0" /\ sup' = "done" /\ UNCHANGED pid
          \/ c = pid /\ child[c] = "failed" /\ AfterChild
          \/ c # pid /\ AfterChild
  /\ UNCHANGED <<state, alarm, stopped, csig, pidfile, dvars, hist, left>>

(* A signal to a server: lost until server() has blocked it.               *)
Kill(sig) ==
  csig' = IF pid \in Pids /\ child[pid] \in {"serving", "draining"}
          THEN [csig EXCEPT ![pid] = @ \cup {sig}] ELSE csig

NoAlarm == UNCHANGED alarm                                        \* mutant
SetAlarm == alarm' = "set"

(* SIGHUP or SIGINT ("graceful"), SIGTERM or SIGQUIT ("fast").             *)
TerminationSignal(sig) ==
  /\ sup # "done" /\ Use("signals")
  /\ \/ /\ sup = "sigwait" /\ state = "running"
        /\ Kill(sig) /\ state' = "terminating" /\ SetAlarm
        /\ sup' = "call" /\ UNCHANGED <<pid, hist>>
     \/ /\ sup = "sigwait" /\ state = "terminating"
        /\ sup' = "call" /\ UNCHANGED <<state, pid, alarm, hist, csig>>
     \/ /\ sup \in {"top", "call"} \/ (sup = "wait" /\ Zombies # {})
        /\ UNCHANGED <<svars, csig, hist>>
     \/ sup = "wait" /\ Zombies = {} /\ WaitInterrupted /\ UNCHANGED csig
  /\ UNCHANGED <<child, stopped, pidfile, dvars>>

(* SIGALRM.                                                                *)
KillTerm(c) == child                                              \* mutant
KillKill(c) == IF c \in Alive THEN [child EXCEPT ![c] = "failed"] ELSE child

AlarmFires ==
  /\ alarm = "ticking" /\ sup # "done" /\ alarm' = "off"
  /\ \/ sup = "sigwait" /\ child' = KillKill(pid) /\ sup' = "done" /\ UNCHANGED <<pid, hist>>
     \/ /\ sup \in {"top", "call"} \/ (sup = "wait" /\ Zombies # {})
        /\ hist' = hist \cup {"lostalrm"} /\ UNCHANGED <<sup, pid, child>>
     \/ /\ sup = "wait" /\ Zombies = {} /\ sup' = "done"
        /\ hist' = hist \cup {"eintr"} /\ UNCHANGED <<pid, child>>
  /\ stopped' = stopped \cap {c \in Pids : child'[c] = child[c]}
  /\ UNCHANGED <<state, csig, pidfile, dvars, left>>

-----------------------------------------------------------------------------
(* server(): signals are blocked, threads started; abend if that fails.    *)
Start(c) ==
  /\ child[c] = "starting" /\ Runs(c) /\ child' = [child EXCEPT ![c] = "serving"]
  /\ UNCHANGED <<svars, stopped, csig, pidfile, dvars, hist, left>>

Crash(c) ==
  /\ c \in Alive /\ Runs(c) /\ Use("crashes")
  /\ child' = [child EXCEPT ![c] = "failed"] /\ SigChld
  /\ UNCHANGED <<stopped, csig, pidfile, dvars>>

(* cleanup and exit (0).                                                   *)
Exit(c) ==
  /\ child' = [child EXCEPT ![c] = "exit0"] /\ pidfile' = FALSE /\ SigChld

(* A signal ends the dispatcher, and with it listener_cleanup closes the   *)
(* listeners of this process; active_threads_wait follows for some.        *)
Shutdown(c) ==
  /\ child[c] = "serving" /\ Runs(c)
  /\ \E sig \in csig[c] :
       \/ sig = "fast" /\ Exit(c)
       \/ /\ sig = "graceful" /\ child' = [child EXCEPT ![c] = "draining"]
          /\ UNCHANGED <<svars, pidfile, hist>>
  /\ csig' = [csig EXCEPT ![c] = {}] /\ UNCHANGED <<stopped, dvars, left>>

Drained(c) ==
  /\ child[c] = "draining" /\ Runs(c) /\ Exit(c)
  /\ UNCHANGED <<stopped, csig, dvars, left>>

(* Job control: SIGSTOP and SIGCONT to a server (one at a time) send       *)
(* SIGCHLD too, which makes the supervisor call wait(), and interrupts it. *)
Stop(c) ==
  /\ c \in Alive /\ stopped = {} /\ Use("stops") /\ stopped' = {c}
  /\ sup' = IF sup = "sigwait" THEN "wait" ELSE sup
  /\ UNCHANGED <<state, pid, alarm, hist, child, csig, pidfile, dvars>>

Continue(c) ==
  /\ c \in stopped /\ stopped' = stopped \ {c}
  /\ \/ sup = "wait" /\ Zombies = {} /\ WaitInterrupted
     \/ /\ sup # "wait" \/ Zombies # {}
        /\ sup' = IF sup = "sigwait" THEN "wait" ELSE sup
        /\ UNCHANGED <<state, pid, alarm, hist>>
  /\ UNCHANGED <<child, csig, pidfile, dvars, left>>

-----------------------------------------------------------------------------
(* thr_dispatch: poll, then a pass through the listeners, with the index i *)
(* into polls along.                                                       *)
Serves(c) == child[c] = "serving" /\ Runs(c)

PollButLast == {l \in 1 .. NListeners - 1 : backlog[l] > 0}       \* mutant
Readable == {l \in Listeners : backlog[l] > 0}

(* The pass goes on at listener at and index i: to the next accept, or to  *)
(* poll.  The two go hand in hand, and only i is compared with revents.    *)
Skipped(at, i, ready) == {k \in 0 .. NListeners - at : i + k \in ready}

Scan(at, i, ready) ==
  LET ks == Skipped(at, i, ready)
      k == CHOOSE m \in ks : \A n \in ks : m =< n
  IN  IF ks = {} THEN NewDisp
      ELSE [pc |-> "accept", at |-> at + k, i |-> i + k, ready |-> ready]

Poll(c) ==
  /\ Serves(c) /\ disp[c].pc = "poll" /\ Readable # {}
  /\ disp' = [disp EXCEPT ![c] = Scan(1, 1, Readable)]
  /\ UNCHANGED <<svars, cvars, disabled, backlog, hist, left>>

(* accept, which waits if the listener has no connection, and              *)
(* pound_http_enqueue.  After the connection of a disabled listener        *)
(* "continue" leaves i behind.                                             *)
Accept(c) ==
  LET d == disp[c]
  IN  /\ Serves(c) /\ d.pc = "accept" /\ backlog[d.at] > 0
      /\ backlog' = [backlog EXCEPT ![d.at] = @ - 1]
      /\ disp' = [disp EXCEPT ![c] = Scan(d.at + 1, IF d.at \in disabled[c] THEN d.i
                                                    ELSE d.i + 1, d.ready)]
      /\ UNCHANGED <<svars, cvars, disabled, hist, left>>

AcceptFails(c) ==
  LET d == disp[c]
  IN  /\ Serves(c) /\ d.pc = "accept" /\ backlog[d.at] > 0
      /\ disp' = [disp EXCEPT ![c] = Scan(d.at + 1, d.i + 1, d.ready)]
      /\ UNCHANGED <<svars, cvars, disabled, backlog, hist, left>>

(* Requests of the control interface.                                      *)
Disable(c, l) ==
  /\ Serves(c) /\ Use("admin") /\ disabled' = [disabled EXCEPT ![c] = @ \cup {l}]
  /\ hist' = hist \cup {"disabled"} /\ UNCHANGED <<svars, cvars, disp, backlog>>
Enable(c, l) ==
  /\ Serves(c) /\ disabled' = [disabled EXCEPT ![c] = @ \ {l}]
  /\ l \in disabled[c] /\ UNCHANGED <<svars, cvars, disp, backlog, hist, left>>

(* The kernel queues connections while any process has the socket open.    *)
Listening == sup # "done" \/ \E c \in Alive : child[c] # "draining"
Connect(l) ==
  /\ Listening /\ Use("conns") /\ backlog' = [backlog EXCEPT ![l] = @ + 1]
  /\ UNCHANGED <<svars, cvars, disp, disabled, hist>>

-----------------------------------------------------------------------------
SupervisorStep == Fork \/ SigWait \/ Wait
ChildStep(c) == Start(c) \/ Shutdown(c) \/ Drained(c)
DispatcherStep(c) == Poll(c) \/ Accept(c) \/ AcceptFails(c)

Next ==
  \/ SupervisorStep \/ AlarmFires
  \/ \E sig \in {"graceful", "fast"} : TerminationSignal(sig)
  \/ \E c \in Pids : ChildStep(c) \/ DispatcherStep(c) \/ Crash(c) \/ Stop(c) \/ Continue(c)
  \/ \E c \in Pids, l \in Listeners : Disable(c, l) \/ Enable(c, l)
  \/ \E l \in Listeners : Connect(l)

Spec == Init /\ [][Next]_vars

(* Processes and threads run, the alarm rings, and accept does not fail    *)
(* for ever.                                                               *)
FairSpec ==
  /\ Spec /\ WF_vars(SupervisorStep) /\ WF_vars(AlarmFires)
  /\ \A c \in Pids : WF_vars(ChildStep(c)) /\ WF_vars(DispatcherStep(c)) /\ SF_vars(Accept(c))

-----------------------------------------------------------------------------
(* Types of the variables; the pass through the listeners stays in bounds. *)
TypeOK ==
  /\ sup \in {"top", "call", "sigwait", "wait", "done"} /\ pid \in Pids \cup {None}
  /\ state \in {"running", "terminating"} /\ alarm \in {"off", "set", "ticking"}
  /\ child \in [Pids -> {"none", "starting", "serving", "draining", "exit0", "failed"}]
  /\ stopped \subseteq Pids /\ csig \in [Pids -> SUBSET {"graceful", "fast"}]
  /\ disp \in [Pids -> [pc : {"poll", "accept"}, at : Listeners, i : Listeners,
                       ready : SUBSET Listeners]]
  /\ disabled \in [Pids -> SUBSET Listeners]
  /\ left \in [{"conns", "signals", "crashes", "stops", "admin"} -> Nat]
  /\ backlog \in [Listeners -> Nat] /\ pidfile \in BOOLEAN

(* The supervisor loses track of no server: there is at most the one it    *)
(* knows of, none is left when it ends, and the pid file stays for as long *)
(* as there is someone to signal, through failures and restarts.  Exempt:  *)
(* wait() interrupted.                                                     *)
Supervised ==
  \/ "eintr" \in hist
  \/ /\ Alive \subseteq {pid}
     /\ sup = "done" => Alive = {}
     /\ ~pidfile => sup = "done" \/ \E c \in Pids : child[c] = "exit0"

(* Once a termination signal was received the supervisor ends, whatever    *)
(* becomes of the server: of the alarm only a second signal makes it miss. *)
StopsInTime == state = "terminating" ~> sup = "done" \/ "lostalrm" \in hist

(* Connections to every listener are accepted in the end, those that came  *)
(* while no server was running too; unless no server is running any more,  *)
(* or the pass through polls has been thrown off by a disabled listener.   *)
ConnectionsTaken ==
  \A l \in Listeners :
    backlog[l] > 0 ~> \/ backlog[l] = 0 \/ sup = "done"
                      \/ hist \cap {"lostchld", "eintr", "disabled"} # {} \/ stopped # {}
=============================================================================
