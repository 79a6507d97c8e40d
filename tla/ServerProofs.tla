---------------------------- MODULE ServerProofs ----------------------------
(***************************************************************************)
(* Proofs about Server, for any number of listeners and process ids, and   *)
(* any number of connections, signals, crashes, stops and requests to      *)
(* disable or enable a listener.                                           *)
(***************************************************************************)
EXTENDS Server, WellFoundedInduction, TLAPS

(* As long as no wait() was interrupted, there is no process but the one   *)
(* that the supervisor knows of, not even one that has ended, and at the   *)
(* top of its loop it knows of none.                                       *)
Known ==
  "eintr" \notin hist => /\ \A c \in Pids : c # pid => child[c] = "none"
                         /\ sup = "top" => pid = None

(* As long as no listener was disabled either, the dispatcher is in step   *)
(* with the array of poll, and connections wait at every listener that it  *)
(* has still to see to.                                                    *)
InStep(c) ==
  disp[c].pc = "accept" => /\ disp[c].at = disp[c].i /\ disp[c].at \in disp[c].ready
                           /\ \A l \in disp[c].ready : l >= disp[c].at => backlog[l] > 0

Fit(s) == s \in {"starting", "serving"}

DispatchersInStep ==
  hist \cap {"eintr", "disabled"} = {} => \A c \in Pids : Fit(child[c]) => InStep(c)

NoneDisabled == "disabled" \notin hist => \A c \in Pids : disabled[c] = {}

(* The inductive invariant.                                                *)
ServerInv == TypeOK /\ Known /\ Supervised /\ NoneDisabled /\ DispatchersInStep

-----------------------------------------------------------------------------

(* The least-number principle.                                             *)
LEMMA LeastNumber ==
  ASSUME NEW T, T \subseteq Nat, T # {}
  PROVE  \E x \in T : \A y \in T : x =< y
<1> DEFINE R == OpToRel(<, Nat)
<1>1. IsWellFoundedOn(R, Nat)
  BY NatLessThanWellFounded
<1>2. \A a, b \in Nat : a < b => <<a, b>> \in R
  BY DEF OpToRel
<1> HIDE DEF R
<1>3. PICK x \in T : \A y \in T : ~(<<y, x>> \in R)
  BY <1>1, WFMin
<1>4. ASSUME NEW y \in T PROVE x =< y
  <2>1. ~(<<y, x>> \in R)
    BY <1>3
  <2>2. ~(y < x)
    BY <1>2, <2>1, Zenon
  <2> QED
    BY <2>2
<1> QED
  BY <1>4

(* The next stop of a pass through the listeners: at and i advance by the  *)
(* same number.                                                            *)
Disp == [pc : {"poll", "accept"}, at : Listeners, i : Listeners, ready : SUBSET Listeners]

(* A pass stops at a listener for which both have advanced equally far, or *)
(* ends.                                                                   *)
LEMMA ScanEffect ==
  ASSUME NEW at \in Nat \ {0}, NEW i \in Nat \ {0}, NEW ready \in SUBSET Listeners
  PROVE  /\ Scan(at, i, ready) \in Disp
         /\ Scan(at, i, ready).pc = "accept" =>
              /\ \E k \in Nat : Scan(at, i, ready).at = at + k /\ Scan(at, i, ready).i = i + k
              /\ Scan(at, i, ready).i \in ready /\ Scan(at, i, ready).ready = ready
<1> DEFINE ks == Skipped(at, i, ready)
           k == CHOOSE m \in ks : \A n \in ks : m =< n
<1>1. NListeners \in Nat \ {0} /\ 1 \in Listeners
  BY ServerAssumption DEF Listeners
<1>2. CASE ks = {}
  <2>1. Scan(at, i, ready) = NewDisp
    BY <1>2 DEF Scan
  <2> QED
    BY <1>1, <2>1 DEF NewDisp, Disp
<1>3. CASE ks # {}
  <2>1. ks \subseteq Nat
    BY DEF Skipped
  <2>2. \E m \in ks : \A n \in ks : m =< n
    BY <1>3, <2>1, LeastNumber
  <2>3. k \in ks
    BY <2>2
  <2> HIDE DEF k
  <2>4. k \in 0 .. NListeners - at /\ i + k \in ready
    BY <2>3 DEF Skipped
  <2>5. at + k \in Listeners /\ i + k \in Listeners /\ k \in Nat
    BY <1>1, <2>4 DEF Listeners
  <2>6. Scan(at, i, ready) = [pc |-> "accept", at |-> at + k, i |-> i + k, ready |-> ready]
    BY <1>3 DEF Scan, k
  <2> QED
    BY <2>4, <2>5, <2>6 DEF Disp
<1> QED
  BY <1>2, <1>3

(* A bound is used.                                                        *)
LEMMA UseEffect ==
  ASSUME TypeOK, NEW b \in {"conns", "signals", "crashes", "stops", "admin"}, Use(b)
  PROVE  left' \in [{"conns", "signals", "crashes", "stops", "admin"} -> Nat]
<1>1. /\ left \in [{"conns", "signals", "crashes", "stops", "admin"} -> Nat]
      /\ left[b] > 0 /\ left' = [left EXCEPT ![b] = @ - 1]
  BY DEF TypeOK, Use
<1> QED
  BY <1>1

(* Initially there is no server.                                           *)
LEMMA InitServer == Init => ServerInv
<1> SUFFICES ASSUME Init PROVE ServerInv
  OBVIOUS
<1>1. TypeOK
  <2>1. NewDisp \in Disp
    BY ServerAssumption DEF NewDisp, Disp, Listeners
  <2>2. disp \in [Pids -> Disp]
    BY <2>1 DEF Init
  <2>3. left \in [{"conns", "signals", "crashes", "stops", "admin"} -> Nat]
    BY ServerAssumption DEF Init
  <2> QED
    BY <2>2, <2>3 DEF Init, TypeOK, Disp
<1>2. Known /\ NoneDisabled
  BY DEF Init, Known, NoneDisabled
<1>3. Supervised
  BY DEF Init, Supervised, Alive
<1>4. DispatchersInStep
  BY DEF Init, DispatchersInStep, Fit
<1> QED
  BY <1>1, <1>2, <1>3, <1>4 DEF ServerInv

-----------------------------------------------------------------------------
(* A step of the supervisor or of the kernel that starts no server and     *)
(* does nothing to the dispatchers keeps them in step.                     *)
LEMMA DispatchersKept ==
  ASSUME ServerInv, UNCHANGED dvars, hist \subseteq hist',
         \A c \in Pids : Fit(child'[c]) => Fit(child[c])
  PROVE  NoneDisabled' /\ DispatchersInStep'
<1>1. UNCHANGED <<disp, disabled, backlog>>
  BY DEF dvars
<1>2. NoneDisabled'
  BY <1>1 DEF ServerInv, NoneDisabled
<1>3. DispatchersInStep'
  BY <1>1 DEF ServerInv, DispatchersInStep, InStep
<1> QED
  BY <1>2, <1>3

(* The server that is forked has a new dispatcher.                         *)
LEMMA ForkServer == ASSUME ServerInv, Fork PROVE ServerInv'
<1>1. /\ sup = "top"
      /\ UNCHANGED <<state, alarm, stopped, pidfile, backlog, hist, left>>
  BY DEF Fork
<1>2. CASE sup' = "done" /\ UNCHANGED <<pid, child, csig, disp, disabled>>
  <2>1. TypeOK'
    BY <1>1, <1>2 DEF ServerInv, TypeOK
  <2>2. NoneDisabled' /\ DispatchersInStep'
    BY <1>1, <1>2, DispatchersKept DEF dvars
  <2>3. Known' /\ Supervised'
    BY <1>1, <1>2, ServerAssumption DEF ServerInv, Known, Supervised, Alive
  <2> QED
    BY <2>1, <2>2, <2>3 DEF ServerInv
<1>3. CASE \E c \in Pids :
             /\ state = "running" /\ child[c] = "none"
             /\ pid' = c /\ sup' = "call" /\ child' = [child EXCEPT ![c] = "starting"]
             /\ csig' = [csig EXCEPT ![c] = {}] /\ disp' = [disp EXCEPT ![c] = NewDisp]
             /\ disabled' = [disabled EXCEPT ![c] = {}]
  <2>1. PICK c \in Pids :
             /\ state = "running" /\ child[c] = "none"
             /\ pid' = c /\ sup' = "call" /\ child' = [child EXCEPT ![c] = "starting"]
             /\ csig' = [csig EXCEPT ![c] = {}] /\ disp' = [disp EXCEPT ![c] = NewDisp]
             /\ disabled' = [disabled EXCEPT ![c] = {}]
    BY <1>3
  <2>2. NewDisp \in Disp /\ NewDisp.pc = "poll"
    BY ServerAssumption DEF NewDisp, Disp, Listeners
  <2>3. TypeOK'
    BY <1>1, <2>1, <2>2 DEF ServerInv, TypeOK, Disp
  <2>4. \A x \in Pids : child'[x] = IF x = c THEN "starting" ELSE child[x]
    BY <2>1 DEF ServerInv, TypeOK
  <2>5. "eintr" \notin hist => \A x \in Pids : child[x] = "none"
    BY <1>1, ServerAssumption DEF ServerInv, Known
  <2>6. Known' /\ Supervised'
    BY <1>1, <2>1, <2>4, <2>5 DEF ServerInv, Known, Supervised, Alive
  <2>7. \A x \in Pids : /\ disp'[x] = IF x = c THEN NewDisp ELSE disp[x]
                       /\ disabled'[x] = IF x = c THEN {} ELSE disabled[x]
    BY <2>1 DEF ServerInv, TypeOK
  <2>8. NoneDisabled'
    BY <1>1, <2>7 DEF ServerInv, NoneDisabled
  <2>9. DispatchersInStep'
    BY <1>1, <2>2, <2>4, <2>7 DEF ServerInv, DispatchersInStep, InStep
  <2> QED
    BY <2>3, <2>6, <2>8, <2>9 DEF ServerInv
<1> QED
  BY <1>2, <1>3 DEF Fork

(* The supervisor goes to sleep, or learns of the end of a child.          *)
LEMMA WaitServer == ASSUME ServerInv, SigWait \/ Wait PROVE ServerInv'
<1>1. CASE SigWait
  <2>1. /\ sup = "call" /\ sup' = "sigwait" /\ alarm' \in {"ticking", alarm}
        /\ UNCHANGED <<state, pid, child, stopped, csig, pidfile, disp, disabled, backlog, hist, left>>
    BY <1>1 DEF SigWait, cvars, dvars
  <2>2. TypeOK'
    BY <2>1 DEF ServerInv, TypeOK
  <2>3. NoneDisabled' /\ DispatchersInStep'
    BY <2>1, DispatchersKept DEF dvars
  <2>4. Known' /\ Supervised'
    BY <2>1 DEF ServerInv, Known, Supervised, Alive
  <2> QED
    BY <2>2, <2>3, <2>4 DEF ServerInv
<1>2. CASE Wait
  <2>1. PICK c \in Zombies :
       /\ child' = [child EXCEPT ![c] = "none"]
       /\ \/ c = pid /\ child[c] = "exit0" /\ sup' = "done" /\ UNCHANGED pid
          \/ c = pid /\ child[c] = "failed" /\ AfterChild
          \/ c # pid /\ AfterChild
    BY <1>2 DEF Wait
  <2>2. /\ sup = "wait"
        /\ UNCHANGED <<state, alarm, stopped, csig, pidfile, disp, disabled, backlog, hist, left>>
    BY <1>2 DEF Wait, dvars
  <2>3. c \in Pids /\ child[c] \in {"exit0", "failed"}
    BY DEF Zombies
  <2>4. \A x \in Pids : child'[x] = IF x = c THEN "none" ELSE child[x]
    BY <2>1, <2>3 DEF ServerInv, TypeOK
  <2>5. \/ sup' = "done" /\ pid' = pid
        \/ sup' = "top" /\ pid' = None /\ (c = pid => child[c] = "failed")
    BY <2>1 DEF AfterChild
  <2>6. TypeOK'
    BY <2>1, <2>2, <2>5 DEF ServerInv, TypeOK
  <2>7. NoneDisabled' /\ DispatchersInStep'
    BY <2>2, <2>4, DispatchersKept DEF dvars, Fit
  <2>8. "eintr" \notin hist => c = pid
    BY <2>3 DEF ServerInv, Known
  <2>9. Known'
    BY <2>2, <2>4, <2>5, <2>8 DEF ServerInv, Known
  <2>10. "eintr" \notin hist => \A x \in Pids : child'[x] = "none"
    BY <2>4, <2>8 DEF ServerInv, Known
  <2>11. "eintr" \notin hist /\ ~pidfile /\ sup' # "done" => FALSE
    <3> SUFFICES ASSUME "eintr" \notin hist, ~pidfile, sup' # "done" PROVE FALSE
      OBVIOUS
    <3>1. PICK x \in Pids : child[x] = "exit0"
      BY <2>2 DEF ServerInv, Supervised
    <3>2. x = pid /\ c = pid
      BY <2>8, <3>1 DEF ServerInv, Known
    <3> QED
      BY <2>5, <3>1, <3>2
  <2>12. Supervised'
    BY <2>2, <2>10, <2>11 DEF Supervised, Alive
  <2> QED
    BY <2>6, <2>7, <2>9, <2>12 DEF ServerInv
<1> QED
  BY <1>1, <1>2

-----------------------------------------------------------------------------
(* A termination signal to the supervisor.                                 *)
LEMMA SignalServer ==
  ASSUME ServerInv, NEW sig \in {"graceful", "fast"}, TerminationSignal(sig)
  PROVE  ServerInv'
<1>1. /\ sup # "done" /\ Use("signals") /\ UNCHANGED <<child, stopped, pidfile, dvars>>
  BY DEF TerminationSignal
<1>2. \/ /\ (sup' \in {"call", sup} /\ sup # "top") \/ UNCHANGED sup
         /\ UNCHANGED <<pid, hist>>
      \/ /\ "eintr" \in hist' /\ hist \subseteq hist' /\ sup' \in {"top", "done"}
         /\ pid' \in {pid, None}
  BY DEF TerminationSignal, svars, WaitInterrupted, AfterChild
<1>3. csig' \in [Pids -> SUBSET {"graceful", "fast"}]
  <2>1. csig \in [Pids -> SUBSET {"graceful", "fast"}]
    BY DEF ServerInv, TypeOK
  <2>2. csig' = csig \/ (pid \in Pids /\ csig' = [csig EXCEPT ![pid] = @ \cup {sig}])
    BY DEF TerminationSignal, Kill
  <2> QED
    BY <2>1, <2>2
<1>4. state' \in {"running", "terminating"} /\ alarm' \in {"off", "set", "ticking"}
  BY DEF TerminationSignal, svars, WaitInterrupted, SetAlarm, ServerInv, TypeOK
<1>5. TypeOK'
  <2>1. left' \in [{"conns", "signals", "crashes", "stops", "admin"} -> Nat]
    BY <1>1, UseEffect DEF ServerInv
  <2>2. sup' \in {"top", "call", "sigwait", "wait", "done"} /\ pid' \in Pids \cup {None}
    BY <1>2 DEF ServerInv, TypeOK
  <2> QED
    BY <1>1, <1>3, <1>4, <2>1, <2>2 DEF ServerInv, TypeOK, dvars
<1>6. NoneDisabled' /\ DispatchersInStep'
  BY <1>1, <1>2, DispatchersKept
<1>7. Known' /\ Supervised'
  BY <1>1, <1>2 DEF ServerInv, Known, Supervised, Alive
<1> QED
  BY <1>5, <1>6, <1>7 DEF ServerInv

(* The alarm: with SIGKILL the supervisor leaves no server behind.         *)
LEMMA AlarmServer == ASSUME ServerInv, AlarmFires PROVE ServerInv'
<1>1. /\ sup # "done" /\ alarm' = "off" /\ UNCHANGED <<state, csig, pidfile, dvars, left>>
      /\ stopped' \subseteq stopped /\ hist \subseteq hist' /\ pid' = pid
  BY DEF AlarmFires
<1>2. CASE sup = "sigwait" /\ child' = KillKill(pid) /\ sup' = "done" /\ UNCHANGED <<pid, hist>>
  <2>1. /\ child' \in [Pids -> {"none", "starting", "serving", "draining", "exit0", "failed"}]
        /\ \A c \in Pids : child'[c] = IF c = pid /\ c \in Alive THEN "failed" ELSE child[c]
    BY <1>2 DEF KillKill, ServerInv, TypeOK, Alive
  <2>2. TypeOK'
    BY <1>1, <1>2, <2>1 DEF ServerInv, TypeOK, dvars
  <2>3. NoneDisabled' /\ DispatchersInStep'
    BY <1>1, <2>1, DispatchersKept DEF Fit
  <2>4. "eintr" \notin hist => Alive' = {}
    BY <2>1 DEF ServerInv, Known, Alive
  <2>5. Known' /\ Supervised'
    BY <1>1, <1>2, <2>1, <2>4 DEF ServerInv, Known, Supervised
  <2> QED
    BY <2>2, <2>3, <2>5 DEF ServerInv
<1>3. CASE UNCHANGED <<sup, pid, child>>
  <2>1. TypeOK'
    BY <1>1, <1>3 DEF ServerInv, TypeOK, dvars
  <2>2. NoneDisabled' /\ DispatchersInStep'
    BY <1>1, <1>3, DispatchersKept
  <2>3. Known' /\ Supervised'
    BY <1>1, <1>3 DEF ServerInv, Known, Supervised, Alive
  <2> QED
    BY <2>1, <2>2, <2>3 DEF ServerInv
<1>4. CASE sup' = "done" /\ hist' = hist \cup {"eintr"} /\ UNCHANGED <<pid, child>>
  <2>1. TypeOK'
    BY <1>1, <1>4 DEF ServerInv, TypeOK, dvars
  <2>2. NoneDisabled' /\ DispatchersInStep'
    BY <1>1, <1>4, DispatchersKept
  <2>3. Known' /\ Supervised'
    BY <1>4 DEF Known, Supervised
  <2> QED
    BY <2>1, <2>2, <2>3 DEF ServerInv
<1> QED
  BY <1>2, <1>3, <1>4 DEF AlarmFires

-----------------------------------------------------------------------------
(* A server goes on, and may end: the supervisor hears of it or does not,  *)
(* but the server stays known to it until it is waited for.                *)
LEMMA ChildServer ==
  ASSUME ServerInv, NEW c \in Pids, NEW s \in {"serving", "draining", "exit0", "failed"},
         c \in Alive, s = "serving" => child[c] = "starting",
         child' = [child EXCEPT ![c] = s],
         SigChld \/ UNCHANGED <<svars, hist>>,
         pidfile' = pidfile \/ (s = "exit0" /\ pidfile' = FALSE),
         csig' \in [Pids -> SUBSET {"graceful", "fast"}],
         left' \in [{"conns", "signals", "crashes", "stops", "admin"} -> Nat],
         UNCHANGED <<stopped, dvars>>
  PROVE  ServerInv'
<1>1. /\ UNCHANGED <<state, pid, alarm>> /\ hist \subseteq hist'
      /\ "eintr" \in hist' => "eintr" \in hist
  BY DEF SigChld, svars
<1>2. sup' = sup \/ (sup = "sigwait" /\ sup' = "wait")
  BY DEF SigChld, svars
<1>3. \A x \in Pids : child'[x] = IF x = c THEN s ELSE child[x]
  BY DEF ServerInv, TypeOK
<1>4. TypeOK'
  <2>1. child' \in [Pids -> {"none", "starting", "serving", "draining", "exit0", "failed"}]
    BY DEF ServerInv, TypeOK
  <2>2. sup' \in {"top", "call", "sigwait", "wait", "done"}
    BY <1>2 DEF ServerInv, TypeOK
  <2>3. pidfile' \in BOOLEAN
    BY DEF ServerInv, TypeOK
  <2> QED
    BY <1>1, <2>1, <2>2, <2>3 DEF ServerInv, TypeOK, dvars
<1>5. NoneDisabled' /\ DispatchersInStep'
  BY <1>1, <1>3, DispatchersKept DEF Fit, Alive
<1>6. Known'
  BY <1>1, <1>2, <1>3 DEF ServerInv, Known, Alive
<1>7. Supervised'
  <2> SUFFICES ASSUME "eintr" \notin hist'
               PROVE  /\ Alive' \subseteq {pid'}
                      /\ sup' = "done" => Alive' = {}
                      /\ ~pidfile' => sup' = "done" \/ \E x \in Pids : child'[x] = "exit0"
    BY DEF Supervised
  <2>1. /\ "eintr" \notin hist /\ Alive \subseteq {pid} /\ sup # "done"
        /\ ~pidfile => \E x \in Pids : child[x] = "exit0"
    BY <1>1 DEF ServerInv, Supervised
  <2>2. Alive' \subseteq Alive /\ sup' # "done"
    BY <1>2, <1>3, <2>1 DEF Alive
  <2>3. c = pid
    BY <2>1
  <2>4. pidfile
    <3> SUFFICES ASSUME ~pidfile PROVE FALSE
      OBVIOUS
    <3>1. PICK x \in Pids : child[x] = "exit0"
      BY <2>1
    <3> QED
      BY <2>1, <2>3, <3>1 DEF ServerInv, Known, Alive
  <2>5. ~pidfile' => child'[c] = "exit0"
    BY <1>3, <2>4
  <2> QED
    BY <1>1, <2>1, <2>2, <2>5
<1> QED
  BY <1>4, <1>5, <1>6, <1>7 DEF ServerInv

(* The actions of a server's main thread are such steps.                   *)
LEMMA MainServer ==
  ASSUME ServerInv, NEW c \in Pids, ChildStep(c) \/ Crash(c)
  PROVE  ServerInv'
<1>1. /\ csig \in [Pids -> SUBSET {"graceful", "fast"}]
      /\ left \in [{"conns", "signals", "crashes", "stops", "admin"} -> Nat]
  BY DEF ServerInv, TypeOK
<1>2. CASE Start(c)
  <2>1. /\ child[c] = "starting" /\ child' = [child EXCEPT ![c] = "serving"]
        /\ UNCHANGED <<svars, hist, pidfile, csig, left, stopped, dvars>>
    BY <1>2 DEF Start
  <2>2. c \in Alive
    BY <2>1 DEF Alive
  <2> QED
    BY <1>1, <2>1, <2>2, ChildServer
<1>3. CASE Drained(c)
  <2>1. /\ child[c] = "draining" /\ child' = [child EXCEPT ![c] = "exit0"] /\ pidfile' = FALSE
        /\ SigChld /\ UNCHANGED <<csig, left, stopped, dvars>>
    BY <1>3 DEF Drained, Exit
  <2>2. c \in Alive
    BY <2>1 DEF Alive
  <2> QED
    BY <1>1, <2>1, <2>2, ChildServer
<1>4. CASE Crash(c)
  <2>1. /\ c \in Alive /\ child' = [child EXCEPT ![c] = "failed"] /\ Use("crashes")
        /\ SigChld /\ UNCHANGED <<csig, pidfile, stopped, dvars>>
    BY <1>4 DEF Crash
  <2>2. left' \in [{"conns", "signals", "crashes", "stops", "admin"} -> Nat]
    BY <2>1, UseEffect DEF ServerInv
  <2> QED
    BY <1>1, <2>1, <2>2, ChildServer
<1>5. CASE Shutdown(c)
  <2>1. /\ child[c] = "serving" /\ csig' = [csig EXCEPT ![c] = {}]
        /\ UNCHANGED <<stopped, dvars, left>>
        /\ \/ Exit(c)
           \/ child' = [child EXCEPT ![c] = "draining"] /\ UNCHANGED <<svars, pidfile, hist>>
    BY <1>5 DEF Shutdown
  <2>2. c \in Alive
    BY <2>1 DEF Alive
  <2>3. csig' \in [Pids -> SUBSET {"graceful", "fast"}]
    BY <1>1, <2>1
  <2>4. CASE Exit(c)
    BY <1>1, <2>1, <2>2, <2>3, <2>4, ChildServer DEF Exit
  <2>5. CASE child' = [child EXCEPT ![c] = "draining"] /\ UNCHANGED <<svars, pidfile, hist>>
    BY <1>1, <2>1, <2>2, <2>3, <2>5, ChildServer
  <2> QED
    BY <2>1, <2>4, <2>5
<1> QED
  BY <1>2, <1>3, <1>4, <1>5 DEF ChildStep

(* Job control makes the supervisor call wait(), or interrupts it.         *)
LEMMA StopServer ==
  ASSUME ServerInv, NEW c \in Pids, Stop(c) \/ Continue(c)
  PROVE  ServerInv'
<1>1. UNCHANGED <<child, csig, pidfile, dvars>>
  BY DEF Stop, Continue
<1>2. \/ /\ UNCHANGED <<pid, hist>>
         /\ sup' = sup \/ (sup = "sigwait" /\ sup' = "wait")
      \/ /\ "eintr" \in hist' /\ hist \subseteq hist' /\ sup' \in {"top", "done"}
         /\ pid' \in {pid, None}
  BY DEF Stop, Continue, WaitInterrupted, AfterChild
<1>3. TypeOK'
  <2>1. left' \in [{"conns", "signals", "crashes", "stops", "admin"} -> Nat]
    BY UseEffect DEF Stop, Continue, ServerInv, TypeOK
  <2>2. sup' \in {"top", "call", "sigwait", "wait", "done"} /\ pid' \in Pids \cup {None}
    BY <1>2 DEF ServerInv, TypeOK
  <2>3. stopped' \subseteq Pids /\ UNCHANGED <<state, alarm>>
    BY DEF Stop, Continue, WaitInterrupted, ServerInv, TypeOK
  <2> QED
    BY <1>1, <2>1, <2>2, <2>3 DEF ServerInv, TypeOK, dvars
<1>4. NoneDisabled' /\ DispatchersInStep'
  BY <1>1, <1>2, DispatchersKept
<1>5. Known' /\ Supervised'
  BY <1>1, <1>2 DEF ServerInv, Known, Supervised, Alive
<1> QED
  BY <1>3, <1>4, <1>5 DEF ServerInv

-----------------------------------------------------------------------------
(* What dispatchers and the control interface do is no concern of the      *)
(* supervisor.                                                             *)
LEMMA SupervisionKept ==
  ASSUME ServerInv, UNCHANGED <<svars, cvars>>, "eintr" \in hist => "eintr" \in hist'
  PROVE  Known' /\ Supervised'
  BY DEF ServerInv, Known, Supervised, Alive, svars, cvars

(* poll: the connections that it reports are there.                        *)
LEMMA PollServer == ASSUME ServerInv, NEW c \in Pids, Poll(c) PROVE ServerInv'
<1>1. /\ disp' = [disp EXCEPT ![c] = Scan(1, 1, Readable)]
      /\ UNCHANGED <<svars, cvars, disabled, backlog, hist, left>>
  BY DEF Poll
<1>2. disp \in [Pids -> Disp] /\ Readable \in SUBSET Listeners
  BY DEF ServerInv, TypeOK, Disp, Readable
<1> DEFINE d == Scan(1, 1, Readable)
<1>3. /\ d \in Disp
      /\ d.pc = "accept" => /\ \E k \in Nat : d.at = 1 + k /\ d.i = 1 + k
                            /\ d.i \in Readable /\ d.ready = Readable
  BY <1>2, ScanEffect
<1> HIDE DEF d
<1>4. \A x \in Pids : disp'[x] = IF x = c THEN d ELSE disp[x]
  BY <1>1, <1>2 DEF d
<1>5. TypeOK'
  <2>1. disp' \in [Pids -> Disp]
    BY <1>1, <1>2, <1>3 DEF d
  <2> QED
    BY <1>1, <2>1 DEF ServerInv, TypeOK, svars, cvars, Disp
<1>6. Known' /\ Supervised'
  BY <1>1, SupervisionKept
<1>7. NoneDisabled'
  BY <1>1 DEF ServerInv, NoneDisabled
<1>8. DispatchersInStep'
  <2>1. InStep(c)'
    BY <1>1, <1>3, <1>4 DEF InStep, Readable
  <2>2. \A x \in Pids : x # c /\ InStep(x) => InStep(x)'
    BY <1>1, <1>4 DEF InStep
  <2> QED
    BY <1>1, <2>1, <2>2 DEF ServerInv, DispatchersInStep, cvars
<1> QED
  BY <1>5, <1>6, <1>7, <1>8 DEF ServerInv

(* accept: the connections that the pass has still to come to remain, as   *)
(* there is no other dispatcher to take them.                              *)
LEMMA AcceptServer ==
  ASSUME ServerInv, NEW c \in Pids, Accept(c) \/ AcceptFails(c)
  PROVE  ServerInv'
<1> DEFINE at == disp[c].at
<1>1. /\ child[c] = "serving" /\ disp[c].pc = "accept" /\ backlog[at] > 0
      /\ UNCHANGED <<svars, cvars, disabled, hist, left>>
  BY DEF Accept, AcceptFails, Serves
<1>2. PICK m \in {disp[c].i, disp[c].i + 1} :
        /\ disp' = [disp EXCEPT ![c] = Scan(at + 1, m, disp[c].ready)]
        /\ disabled[c] = {} => m = disp[c].i + 1
  BY DEF Accept, AcceptFails
<1>3. disp \in [Pids -> Disp] /\ backlog \in [Listeners -> Nat]
  BY DEF ServerInv, TypeOK, Disp
<1>4. /\ at \in Listeners /\ disp[c].i \in Listeners /\ disp[c].ready \in SUBSET Listeners
      /\ at \in Nat \ {0} /\ disp[c].i \in Nat \ {0} /\ \A l \in Listeners : l \in Nat
  BY <1>3 DEF Disp, Listeners
<1>5. \A l \in Listeners : backlog'[l] >= (IF l = at THEN 0 ELSE backlog[l])
  BY <1>3, <1>4, <1>1 DEF Accept, AcceptFails
<1>6. backlog' \in [Listeners -> Nat]
  <2>1. backlog' = backlog \/ backlog' = [backlog EXCEPT ![at] = @ - 1]
    BY DEF Accept, AcceptFails
  <2> QED
    BY <1>1, <1>3, <1>4, <2>1
<1> DEFINE e == Scan(at + 1, m, disp[c].ready)
<1>7. /\ e \in Disp
      /\ e.pc = "accept" => /\ \E k \in Nat : e.at = (at + 1) + k /\ e.i = m + k
                            /\ e.i \in disp[c].ready /\ e.ready = disp[c].ready
  <2>1. at + 1 \in Nat \ {0} /\ m \in Nat \ {0}
    BY <1>4
  <2>2. disp[c].ready \in SUBSET Listeners
    BY <1>4
  <2> QED
    BY <2>1, <2>2, ScanEffect, ZenonT(40)
<1> HIDE DEF e, at
<1>8. \A x \in Pids : disp'[x] = IF x = c THEN e ELSE disp[x]
  BY <1>2, <1>3 DEF e
<1>9. TypeOK'
  <2>1. disp' \in [Pids -> Disp]
    BY <1>2, <1>3, <1>7 DEF e
  <2> QED
    BY <1>1, <1>6, <2>1 DEF ServerInv, TypeOK, svars, cvars, Disp
<1>10. Known' /\ Supervised'
  BY <1>1, SupervisionKept
<1>11. NoneDisabled'
  BY <1>1 DEF ServerInv, NoneDisabled
<1>12. DispatchersInStep'
  <2> SUFFICES ASSUME hist \cap {"eintr", "disabled"} = {}, NEW x \in Pids, Fit(child[x])
               PROVE  InStep(x)'
    BY <1>1 DEF DispatchersInStep, cvars
  <2>1. x = c
    BY <1>1 DEF ServerInv, Known, Fit
  <2>2. /\ at = disp[c].i /\ \A l \in disp[c].ready : l >= at => backlog[l] > 0
    BY <1>1 DEF ServerInv, DispatchersInStep, InStep, Fit, at
  <2>3. m = disp[c].i + 1
    BY <1>2 DEF ServerInv, NoneDisabled
  <2> SUFFICES ASSUME e.pc = "accept"
               PROVE  /\ e.at = e.i /\ e.at \in e.ready
                      /\ \A l \in e.ready : l >= e.at => backlog'[l] > 0
    BY <1>8, <2>1 DEF InStep
  <2>4. PICK k \in Nat : e.at = (at + 1) + k /\ e.i = m + k
    BY <1>7
  <2>5. e.at = e.i /\ e.at > at /\ e.at \in disp[c].ready /\ e.ready = disp[c].ready
    BY <1>4, <1>7, <2>2, <2>3, <2>4
  <2>6. ASSUME NEW l \in e.ready, l >= e.at PROVE backlog'[l] > 0
    <3>1. l \in Listeners /\ l \in Nat
      BY <1>4, <2>5
    <3>2. l > at
      BY <1>4, <2>4, <2>6, <3>1
    <3>3. backlog[l] > 0 /\ backlog[l] \in Nat /\ backlog'[l] \in Nat
      BY <1>3, <1>4, <1>6, <2>2, <2>5, <3>1, <3>2
    <3>4. backlog'[l] >= backlog[l]
      BY <1>3, <1>4, <1>5, <1>6, <3>1, <3>2
    <3> QED
      BY <3>3, <3>4
  <2> QED
    BY <2>5, <2>6
<1> QED
  BY <1>9, <1>10, <1>11, <1>12 DEF ServerInv

(* Requests to disable or enable a listener, and new connections.          *)
LEMMA OtherServer ==
  ASSUME ServerInv, NEW c \in Pids, NEW l \in Listeners,
         Disable(c, l) \/ Enable(c, l) \/ Connect(l)
  PROVE  ServerInv'
<1>1. UNCHANGED <<svars, cvars, disp>> /\ hist' \in {hist, hist \cup {"disabled"}}
  BY DEF Disable, Enable, Connect
<1>2. /\ disabled \in [Pids -> SUBSET Listeners] /\ backlog \in [Listeners -> Nat]
      /\ left \in [{"conns", "signals", "crashes", "stops", "admin"} -> Nat]
  BY DEF ServerInv, TypeOK
<1>3. disabled' \in [Pids -> SUBSET Listeners]
  <2>1. \/ disabled' = disabled
        \/ disabled' = [disabled EXCEPT ![c] = @ \cup {l}]
        \/ disabled' = [disabled EXCEPT ![c] = @ \ {l}]
    BY DEF Disable, Enable, Connect
  <2> QED
    BY <1>2, <2>1
<1>4. /\ backlog' \in [Listeners -> Nat]
      /\ \A x \in Listeners : backlog'[x] >= backlog[x]
  <2>1. backlog' = backlog \/ backlog' = [backlog EXCEPT ![l] = @ + 1]
    BY DEF Disable, Enable, Connect
  <2> QED
    BY <1>2, <2>1
<1>5. left' \in [{"conns", "signals", "crashes", "stops", "admin"} -> Nat]
  <2>1. left' = left \/ Use("admin") \/ Use("conns")
    BY DEF Disable, Enable, Connect
  <2> QED
    BY <1>2, <2>1, UseEffect DEF ServerInv
<1>6. TypeOK'
  BY <1>1, <1>3, <1>4, <1>5 DEF ServerInv, TypeOK, svars, cvars
<1>7. Known' /\ Supervised'
  BY <1>1, SupervisionKept
<1>8. NoneDisabled'
  <2> SUFFICES ASSUME "disabled" \notin hist', NEW x \in Pids PROVE disabled'[x] = {}
    BY DEF NoneDisabled
  <2>1. disabled[x] = {}
    BY <1>1 DEF ServerInv, NoneDisabled
  <2>2. disabled' = disabled \/ disabled' = [disabled EXCEPT ![c] = @ \ {l}]
    BY DEF Disable, Enable, Connect
  <2> QED
    BY <1>2, <2>1, <2>2
<1>9. DispatchersInStep'
  <2>1. ASSUME NEW x \in Pids, InStep(x) PROVE InStep(x)'
    <3> SUFFICES ASSUME disp[x].pc = "accept"
                 PROVE  /\ disp[x].at = disp[x].i /\ disp[x].at \in disp[x].ready
                        /\ \A k \in disp[x].ready : k >= disp[x].at => backlog'[k] > 0
      BY <1>1 DEF InStep
    <3>1. /\ disp[x].at = disp[x].i /\ disp[x].at \in disp[x].ready
          /\ \A k \in disp[x].ready : k >= disp[x].at => backlog[k] > 0
      BY <2>1 DEF InStep
    <3>2. \A k \in disp[x].ready : k \in Listeners
      BY DEF ServerInv, TypeOK
    <3> QED
      BY <1>2, <1>4, <3>1, <3>2
  <2>2. hist \subseteq hist' /\ child' = child
    BY <1>1 DEF cvars
  <2> QED
    BY <2>1, <2>2 DEF ServerInv, DispatchersInStep
<1> QED
  BY <1>6, <1>7, <1>8, <1>9 DEF ServerInv

(* Every step keeps the invariant.                                         *)
LEMMA NextServer == ServerInv /\ [Next]_vars => ServerInv'
<1> SUFFICES ASSUME ServerInv, [Next]_vars PROVE ServerInv'
  OBVIOUS
<1>1. CASE SupervisorStep \/ AlarmFires
  BY <1>1, ForkServer, WaitServer, AlarmServer DEF SupervisorStep
<1>2. CASE \E sig \in {"graceful", "fast"} : TerminationSignal(sig)
  BY <1>2, SignalServer
<1>3. CASE \E c \in Pids : ChildStep(c) \/ DispatcherStep(c) \/ Crash(c) \/ Stop(c) \/ Continue(c)
  BY <1>3, MainServer, PollServer, AcceptServer, StopServer DEF DispatcherStep
<1>4. CASE \E c \in Pids, l \in Listeners : Disable(c, l) \/ Enable(c, l)
  BY <1>4, OtherServer
<1>5. CASE \E l \in Listeners : Connect(l)
  <2>1. PICK l \in Listeners : Connect(l)
    BY <1>5
  <2>2. CASE Pids = {}
    <3>1. /\ UNCHANGED <<svars, cvars, disp, disabled, hist>> /\ Use("conns")
          /\ backlog' = [backlog EXCEPT ![l] = @ + 1]
      BY <2>1 DEF Connect
    <3>2. TypeOK'
      BY <3>1, UseEffect DEF ServerInv, TypeOK, svars, cvars
    <3>3. Known' /\ Supervised'
      BY <3>1, SupervisionKept
    <3> QED
      BY <2>2, <3>2, <3>3 DEF ServerInv, NoneDisabled, DispatchersInStep
  <2>3. CASE Pids # {}
    BY <2>1, <2>3, OtherServer
  <2> QED
    BY <2>2, <2>3
<1>6. CASE UNCHANGED vars
  <2>1. UNCHANGED <<svars, cvars, dvars, hist, left>>
    BY <1>6 DEF vars
  <2>2. TypeOK'
    BY <2>1 DEF ServerInv, TypeOK, svars, cvars, dvars
  <2>3. Known' /\ Supervised'
    BY <2>1, SupervisionKept
  <2>4. NoneDisabled' /\ DispatchersInStep'
    BY <2>1, DispatchersKept DEF cvars
  <2> QED
    BY <2>2, <2>3, <2>4 DEF ServerInv
<1> QED
  BY <1>1, <1>2, <1>3, <1>4, <1>5, <1>6 DEF Next

-----------------------------------------------------------------------------
(* supervisor(), server() and thr_dispatch keep the invariant.             *)
THEOREM ServerCorrect == Spec => []ServerInv
  BY InitServer, NextServer, PTL DEF Spec

(* Unless wait() is interrupted, the supervisor knows of every server, and *)
(* none is left when it ends, after any number of failures and signals.    *)
THEOREM NoServerLost == Spec => []Supervised
<1>1. ServerInv => Supervised
  BY DEF ServerInv
<1> QED
  BY <1>1, ServerCorrect, PTL

(* A dispatcher in accept() has a connection to accept, and so does not    *)
(* block there: unless wait() was interrupted, so that there may be two    *)
(* servers, or a listener was disabled.                                    *)
AcceptNeverBlocks ==
  hist \cap {"eintr", "disabled"} = {} =>
    \A c \in Pids : child[c] = "serving" /\ disp[c].pc = "accept" => backlog[disp[c].at] > 0

(* thr_dispatch calls accept() only where connections wait, whatever the   *)
(* number of listeners.                                                    *)
THEOREM DispatcherFree == Spec => []AcceptNeverBlocks
<1>1. ServerInv => AcceptNeverBlocks
  <2> SUFFICES ASSUME ServerInv, hist \cap {"eintr", "disabled"} = {}, NEW c \in Pids,
                      child[c] = "serving", disp[c].pc = "accept"
               PROVE  backlog[disp[c].at] > 0
    BY DEF AcceptNeverBlocks
  <2>1. /\ disp[c].at \in disp[c].ready
        /\ \A l \in disp[c].ready : l >= disp[c].at => backlog[l] > 0
    BY DEF ServerInv, DispatchersInStep, InStep, Fit
  <2>2. disp[c].at \in Nat
    BY DEF ServerInv, TypeOK, Listeners
  <2> QED
    BY <2>1, <2>2
<1> QED
  BY <1>1, ServerCorrect, PTL
=============================================================================
