------------------------------ MODULE Balancer ------------------------------
(***************************************************************************)
(* Balancing in a service (svc.c): the balancer groups of its backends,    *)
(* the counters that selection relies on, how backends die (kill_be), are  *)
(* disabled and enabled by the control interface, and are brought back by  *)
(* the touch_be job.  Code that runs with svc->mut locked is one step;     *)
(* touch_be reads and writes backends without it and takes several.        *)
(***************************************************************************)
EXTENDS Naturals, Sequences, FiniteSets, FiniteSetsExt

CONSTANTS Backends,
          Groups,      \* the balancers in order of weight: sequences of backends
          priority,    \* of each backend
          Algos,       \* balancing algorithms considered: "random", "iwrr"
          None, Spin,  \* outcomes of selection: no backend, endless loop
          Dynamic,     \* built with ENABLE_DYNAMIC_BACKENDS
          MaxKills,    \* bound on the number of failed connections
          MaxAdmin     \* bound on the number of control requests

(* Every backend is in the list of one group, once; config.c wants         *)
(* priorities from 1 on.                                                   *)
ASSUME BalancerAssumption ==
  /\ priority \in [Backends -> Nat \ {0}] /\ Algos \subseteq {"random", "iwrr"}
  /\ \A b \in Backends : \E g \in DOMAIN Groups : \E i \in DOMAIN Groups[g] : Groups[g][i] = b
  /\ \A g, h \in DOMAIN Groups : \A i \in DOMAIN Groups[g], j \in DOMAIN Groups[h] :
       Groups[g][i] = Groups[h][j] => g = h /\ i = j
  /\ \A g \in DOMAIN Groups : Groups[g] \in Seq(Backends) /\ Groups[g] # <<>>
  /\ None \notin Backends /\ Spin \notin Backends /\ Dynamic \in BOOLEAN

VARIABLES alive, disabled,   \* of each backend
          act_num, sum_pri, max_pri,
          algo,              \* of the service (Balancer), never changed
          cur, round,        \* iwrr: position in the group's list, round
          spin,              \* group a worker loops on in iwrr_select, with
                             \* svc->mut locked (0: none)
          touch,             \* number of touch_be jobs of a backend at each stage
          overtaken,         \* history: groups where something overtook a touch_be
                             \* between making its backend alive and counting it
          kills, admin       \* counters for the bounds

vars == <<alive, disabled, act_num, sum_pri, max_pri, overtaken, algo, cur, round,
          spin, touch, kills, admin>>
counters == <<act_num, sum_pri, max_pri, overtaken>>
Stages == {"armed", "probe", "alive", "lock"}

G == DOMAIN Groups
GroupOf(b) == CHOOSE g \in G : \E i \in DOMAIN Groups[g] : Groups[g][i] = b
Members(g) == {Groups[g][i] : i \in DOMAIN Groups[g]}
backend_is_active(b) == ~disabled[b] /\ alive[b]
Act(g) == {b \in Members(g) : backend_is_active(b)}

(* The priorities of the backends of A added up along the list of g.       *)
SumTo(g, A) ==
  LET f[i \in 0 .. Len(Groups[g])] ==
        IF i = 0 THEN 0
        ELSE f[i - 1] + (IF Groups[g][i] \in A THEN priority[Groups[g][i]] ELSE 0)
  IN  f
Sum(g, A) == SumTo(g, A)[Len(Groups[g])]
Largest(S) == Max({priority[b] : b \in S} \cup {0})

(* Backends are alive at the start; some are disabled in the configuration *)
(* (service_finalize computes the counters).                               *)
Init ==
  /\ alive = [b \in Backends |-> TRUE] /\ disabled \in [Backends -> BOOLEAN]
  /\ LET act(g) == {b \in Members(g) : ~disabled[b]}
     IN  /\ act_num = [g \in G |-> Cardinality(act(g))]
         /\ sum_pri = [g \in G |-> Sum(g, act(g))]
         /\ max_pri = [g \in G |-> Largest(act(g))]
  /\ algo \in Algos /\ cur = [g \in G |-> 1] /\ round = [g \in G |-> 0]
  /\ spin = 0 /\ touch = [b \in Backends |-> [s \in Stages |-> 0]] /\ overtaken = {}
  /\ kills = 0 /\ admin = 0

-----------------------------------------------------------------------------
(* Selection.  An outcome is the backend (or None, or Spin) that a group   *)
(* answers, and the position and round that selection leaves behind in it. *)
Outcome(g, b, c, r) == [group |-> g, be |-> b, cur |-> c, round |-> r]

(* rand_select: the first active backend at which the running sum of the   *)
(* priorities of active backends exceeds the random number, if any.        *)
FirstBeyond(g, p) ==
  {i \in DOMAIN Groups[g] : backend_is_active(Groups[g][i]) /\ SumTo(g, Act(g))[i] > p}
rand_pick(g, p) ==
  LET s == FirstBeyond(g, p) IN IF s = {} THEN None ELSE Groups[g][Min(s)]

(* random_in_range(sum_pri).                                               *)
Randoms(g) == 0 .. Max({sum_pri[g], 1}) - 1

(* iwrr_select: going through the list from the current position, round    *)
(* after round, to the first active backend with a priority above the      *)
(* round.  The k-th backend it looks at, and the round then:               *)
PosAt(g, c, k) == ((c - 1 + k) % Len(Groups[g])) + 1
RoundAt(g, c, r, k) ==
  LET n == (c - 1 + k) \div Len(Groups[g])
  IN  IF n = 0 THEN r ELSE (r + n) % (max_pri[g] + 1)
AboveOrAt(g, c, r, k) ==                                          \* mutant
  /\ backend_is_active(Groups[g][PosAt(g, c, k)])
  /\ RoundAt(g, c, r, k) =< priority[Groups[g][PosAt(g, c, k)]]
Takes(g, c, r, k) ==
  /\ backend_is_active(Groups[g][PosAt(g, c, k)])
  /\ RoundAt(g, c, r, k) < priority[Groups[g][PosAt(g, c, k)]]
iwrr_select(g, c, r) ==
  LET ks == {k \in 0 .. Len(Groups[g]) * (max_pri[g] + 2) : Takes(g, c, r, k)}
      k  == Min(ks)
  IN  IF ks = {} THEN Outcome(g, Spin, c, r)
      ELSE Outcome(g, Groups[g][PosAt(g, c, k)], PosAt(g, c, k + 1),
                   RoundAt(g, c, r, k + 1))

(* balancer_select_backend: a lone backend is taken if it is active.       *)
balancer_select_backend(g) ==
  LET here(b) == Outcome(g, b, cur[g], round[g])
  IN  IF Len(Groups[g]) = 1
      THEN {here(IF backend_is_active(Groups[g][1]) THEN Groups[g][1] ELSE None)}
      ELSE IF algo = "random" THEN {here(rand_pick(g, p)) : p \in Randoms(g)}
      ELSE {iwrr_select(g, cur[g], round[g])}

service_has_backends == \E g \in G : act_num[g] > 0

(* service_lb_select_backend: the groups in order, until one has a         *)
(* backend.  The possible results.                                         *)
service_lb_select_backend ==
  {o \in UNION {balancer_select_backend(g) : g \in G} :
     /\ (o.be # None \/ o.group = Len(Groups))
     /\ \A h \in 1 .. o.group - 1 : \E x \in balancer_select_backend(h) : x.be = None}

(* get_backend, for a request that belongs to no session.  A worker that   *)
(* loops in iwrr_select goes on with what touch_be changes meanwhile.      *)
Selected(o) ==
  /\ spin' = IF o.be = Spin THEN o.group ELSE 0
  /\ cur' = [cur EXCEPT ![o.group] = o.cur]
  /\ round' = [round EXCEPT ![o.group] = o.round]
  /\ UNCHANGED <<alive, disabled, counters, algo, touch, kills, admin>>

get_backend ==
  /\ spin = 0 /\ service_has_backends
  /\ \E o \in service_lb_select_backend : Selected(o)

SpinEnds ==
  /\ spin # 0
  /\ LET o == iwrr_select(spin, cur[spin], round[spin])
     IN  o.be # Spin /\ Selected(o)

-----------------------------------------------------------------------------
(* balancer_recompute_pri_unlocked, once the callback has changed the      *)
(* state of its backend: counters of the group of b anew.  A touch_be job  *)
(* of a backend of the group that has made it alive, and finds it enabled, *)
(* will count it all the same.                                             *)
WillCount(x) == touch[x]["lock"] > 0 \/ (touch[x]["alive"] > 0 /\ ~disabled'[x])

Recount(b) ==
  LET g == GroupOf(b)
      act == {x \in Members(g) : ~disabled'[x] /\ alive'[x]}
  IN  /\ act_num' = [act_num EXCEPT ![g] = Cardinality(act)]
      /\ sum_pri' = [sum_pri EXCEPT ![g] = Sum(g, act)]
      /\ max_pri' = [max_pri EXCEPT ![g] = Largest(act)]
      /\ overtaken' = IF \E x \in Members(g) : WillCount(x) THEN overtaken \cup {g}
                      ELSE overtaken \ {g}

(* kill_be(BE_KILL), from a worker that could not connect to b: b is dead, *)
(* and a touch_be job is armed.                                            *)
Armed(b) == [touch EXCEPT ![b]["armed"] = @ + 1]

kill_be(b) ==
  /\ spin = 0 /\ kills < MaxKills /\ kills' = kills + 1
  /\ alive' = [alive EXCEPT ![b] = FALSE] /\ UNCHANGED disabled
  /\ Recount(b)
  /\ touch' = Armed(b)
  /\ UNCHANGED <<algo, cur, round, spin, admin>>

(* kill_be(BE_DISABLE) and kill_be(BE_ENABLE), from the control interface. *)
backend_disable(b, d) ==
  /\ spin = 0 /\ admin < MaxAdmin /\ admin' = admin + 1
  /\ disabled' = [disabled EXCEPT ![b] = d] /\ UNCHANGED alive
  /\ Recount(b)
  /\ UNCHANGED <<algo, cur, round, spin, touch, kills>>

-----------------------------------------------------------------------------
(* touch_be.  The job of b moves from one stage to the next, or ends.      *)
Stage(b, from, to) ==
  /\ touch[b][from] > 0
  /\ touch' = [touch EXCEPT ![b] = [s \in Stages |-> CASE s = from -> touch[b][s] - 1
                                                     [] s = to   -> touch[b][s] + 1
                                                     [] OTHER    -> touch[b][s]]]

(* Reference count of a backend of the table: cb_backend_disable takes a   *)
(* reference for the job, if backend_ref is more than an empty macro.      *)
Jobs(b) == touch[b]["armed"] + touch[b]["probe"] + touch[b]["alive"] + touch[b]["lock"]
refcount(b) == IF Dynamic THEN 1 + Jobs(b) ELSE 1

(* The job runs and looks whether the backend is still dead.               *)
TouchStart(b) ==
  /\ Stage(b, "armed", IF refcount(b) > 1 /\ ~alive[b] THEN "probe" ELSE "end")
  /\ UNCHANGED <<alive, disabled, counters, algo, cur, round, spin, kills, admin>>

(* backend_probe connects: the backend is alive.  Another job of the       *)
(* backend may have made it alive since this one has looked.               *)
ProbedInVain(b) ==                                                \* mutant
  /\ Stage(b, "probe", "armed")
  /\ UNCHANGED <<alive, disabled, counters, algo, cur, round, spin, kills, admin>>

ProbeSucceeds(b) ==
  /\ Stage(b, "probe", "alive")
  /\ alive' = [alive EXCEPT ![b] = TRUE]
  /\ overtaken' = IF alive[b] THEN overtaken \cup {GroupOf(b)} ELSE overtaken
  /\ UNCHANGED <<disabled, act_num, sum_pri, max_pri, algo, cur, round, spin, kills,
                 admin>>

(* backend_probe fails: the job is armed again.                            *)
Reschedule(b) == Stage(b, "probe", "armed")

ProbeFails(b) ==
  /\ Reschedule(b)
  /\ UNCHANGED <<alive, disabled, counters, algo, cur, round, spin, kills, admin>>

TouchDisabled(b) ==
  /\ Stage(b, "alive", IF disabled[b] THEN "end" ELSE "lock")
  /\ UNCHANGED <<alive, disabled, counters, algo, cur, round, spin, kills, admin>>

(* balancer_pri_update and act_num++, with the mutex locked.               *)
PriorityOnly(b) ==                                                \* mutant
  /\ spin = 0 /\ Stage(b, "lock", "end")
  /\ LET g == GroupOf(b)
     IN  /\ sum_pri' = [sum_pri EXCEPT ![g] = @ + priority[b]]
         /\ max_pri' = [max_pri EXCEPT ![g] = Max({@, priority[b]})]
  /\ UNCHANGED <<alive, disabled, act_num, overtaken, algo, cur, round, spin, kills, admin>>

TouchCounts(b) ==
  /\ spin = 0 /\ Stage(b, "lock", "end")
  /\ LET g == GroupOf(b)
     IN  /\ act_num' = [act_num EXCEPT ![g] = @ + 1]
         /\ sum_pri' = [sum_pri EXCEPT ![g] = @ + priority[b]]
         /\ max_pri' = [max_pri EXCEPT ![g] = Max({@, priority[b]})]
  /\ UNCHANGED <<alive, disabled, overtaken, algo, cur, round, spin, kills, admin>>

Next ==
  \/ get_backend \/ SpinEnds
  \/ \E b \in Backends : \/ kill_be(b)
                         \/ backend_disable(b, TRUE) \/ backend_disable(b, FALSE)
                         \/ TouchStart(b) \/ ProbeSucceeds(b) \/ ProbeFails(b)
                         \/ TouchDisabled(b) \/ TouchCounts(b)

Spec == Init /\ [][Next]_vars
(* The job queue runs jobs, and a backend that has died answers again some *)
(* time.                                                                   *)
FairSpec == Spec /\ \A b \in Backends : WF_vars(TouchStart(b)) /\ SF_vars(ProbeSucceeds(b))

-----------------------------------------------------------------------------
(* Types of the variables; a round never goes beyond the top priority.     *)
TypeOK ==
  /\ alive \in [Backends -> BOOLEAN] /\ disabled \in [Backends -> BOOLEAN]
  /\ act_num \in [G -> Nat] /\ sum_pri \in [G -> Nat] /\ max_pri \in [G -> Nat]
  /\ \A g \in G : /\ cur[g] \in DOMAIN Groups[g]
                   /\ round[g] \in 0 .. Largest(Members(g))
  /\ spin \in G \cup {0} /\ touch \in [Backends -> [Stages -> Nat]]
  /\ overtaken \subseteq G

Match(g) == /\ act_num[g] = Cardinality(Act(g)) /\ sum_pri[g] = Sum(g, Act(g))
            /\ max_pri[g] = Largest(Act(g))

(* touch_be makes a backend alive and counts it in separate steps, and     *)
(* kill_be and the control interface recount the group in between.  No     *)
(* backend is lost that way: active backends that no touch_be is about to  *)
(* count are in act_num, sum_pri and max_pri.  The counters are exactly    *)
(* theirs, unless a touch_be was overtaken by a recount or by another      *)
(* touch_be of its backend: it then counts a backend twice, or one that is *)
(* dead or disabled, until the next recount.                               *)
Settled(g) == {b \in Act(g) : touch[b]["alive"] = 0 /\ touch[b]["lock"] = 0}
CountersSettled ==
  \A g \in G :
    /\ act_num[g] >= Cardinality(Settled(g)) /\ sum_pri[g] >= Sum(g, Settled(g))
    /\ max_pri[g] >= Largest(Settled(g))
    /\ g \notin overtaken =>
         /\ act_num[g] = Cardinality(Settled(g)) /\ sum_pri[g] = Sum(g, Settled(g))
         /\ max_pri[g] = Largest(Settled(g))

(* Weighted random balancing: with the right counters every active backend *)
(* is selected for as many random numbers as its priority.                 *)
RandProportional ==
  \A g \in G : Match(g) => \A b \in Act(g) :
    Cardinality({p \in Randoms(g) : rand_pick(g, p) = b}) = priority[b]

(* Interleaved weighted round robin: from whatever position and round the  *)
(* state of the backends has left, as many selections as the sum of the    *)
(* priorities take each active backend as many times as its priority.      *)
IwrrProportional ==
  \A g \in G : Match(g) /\ Act(g) # {} =>
    LET n == Sum(g, Act(g))
        f[k \in 0 .. n] ==
          IF k = 0 THEN Outcome(g, None, cur[g], round[g])
          ELSE iwrr_select(g, f[k - 1].cur, f[k - 1].round)
    IN  \A b \in Act(g) : Cardinality({k \in 1 .. n : f[k].be = b}) = priority[b]

(* Either algorithm gives every active backend its share, from whatever    *)
(* state deaths, returns and administration have left.                     *)
Proportional == RandProportional /\ IwrrProportional

(* A dead backend that answers probes comes back to life.                  *)
DeadBackendReturns == \A b \in Backends : ~alive[b] ~> alive[b]

(* pound.texi: if no backend of a group can be selected, the next group is *)
(* tried.                                                                  *)
NextGroupTried == spin = 0
=============================================================================
