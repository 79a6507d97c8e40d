--------------------------- MODULE BalancerProofs ---------------------------
(***************************************************************************)
(* Proofs about Balancer, for any backends, groups and priorities, either  *)
(* algorithm, and any number of failed connections and control requests.   *)
(***************************************************************************)
EXTENDS Balancer, FiniteSetTheorems, WellFoundedInduction, TLAPS

(* Types of the state of the backends and their jobs, and of what          *)
(* iwrr_select goes by.                                                    *)
BackendType ==
  /\ alive \in [Backends -> BOOLEAN] /\ disabled \in [Backends -> BOOLEAN]
  /\ touch \in [Backends -> [Stages -> Nat]]
RoundType ==
  /\ max_pri \in [G -> Nat] /\ round \in [G -> Nat] /\ spin \in G \cup {0}
  /\ cur \in [G -> Nat \ {0}] /\ \A g \in G : cur[g] \in DOMAIN Groups[g]
CounterType == act_num \in [G -> Nat] /\ sum_pri \in [G -> Nat] /\ overtaken \subseteq G

(* No round goes beyond the top priority of the group, and no max_pri on   *)
(* which rounds wrap, however late touch_be changes it.                    *)
RoundBound ==
  \A g \in G : max_pri[g] =< Largest(Members(g)) /\ round[g] =< Largest(Members(g))

(* A dead backend is never forgotten: a touch_be job for it is waiting or  *)
(* probing it, and will go on as long as the backend is dead.  (This is    *)
(* what DeadBackendReturns rests on.  It needs the references of dynamic   *)
(* backends: touch_be gives up a backend whose refcount is 1.)             *)
DeadAttended ==
  Dynamic => \A b \in Backends :
    ~alive[b] => touch[b]["armed"] > 0 \/ touch[b]["probe"] > 0

(* The search of iwrr_select ends unless no backend of the group is        *)
(* active, whatever the position and round that deaths, returns and        *)
(* administration have left, and even while max_pri is wrong.              *)
SearchEnds ==
  \A g \in G : iwrr_select(g, cur[g], round[g]).be = Spin <=> Act(g) = {}

(* The inductive invariant.                                                *)
BalancerInv == BackendType /\ RoundType /\ DeadAttended /\ CounterType /\ RoundBound

-----------------------------------------------------------------------------

(* The least-number principle.                                             *)
LEMMA LeastNumber ==
  ASSUME NEW T, T \subseteq Nat, T # {}
  PROVE  \E x \in T : \A y \in T : x =< y
<1> DEFINE R == OpToRel(<, Nat)
<1>1. IsWellFoundedOn(R, Nat)
  BY NatLessThanWellFounded
<1>2. \A a, b \in Nat : a < b => <<a, b>> \in R
  BY DEF OpToRel
<1> HIDE DEF R
<1>3. PICK x \in T : \A y \in T : ~(<<y, x>> \in R)
  BY <1>1, WFMin
<1>4. ASSUME NEW y \in T PROVE x =< y
  <2>1. ~(<<y, x>> \in R)
    BY <1>3
  <2>2. ~(y < x)
    BY <1>2, <2>1, Zenon
  <2> QED
    BY <2>2
<1> QED
  BY <1>4

(* What Min takes of a set of numbers is below all of them.                *)
LEMMA MinLeast ==
  ASSUME NEW T, T \subseteq Nat, T # {}
  PROVE  Min(T) \in T /\ \A y \in T : Min(T) =< y
BY LeastNumber DEF Min

(* Induction up to a bound, for membership in a set.                       *)
LEMMA InductUpTo ==
  ASSUME NEW N \in Nat, NEW S, 0 \in S, \A n \in 0 .. N - 1 : n \in S => n + 1 \in S
  PROVE  \A n \in 0 .. N : n \in S
<1> DEFINE T == {n \in 0 .. N : n \notin S}
<1>1. SUFFICES ASSUME T # {} PROVE FALSE
  OBVIOUS
<1>2. T \subseteq Nat
  OBVIOUS
<1> HIDE DEF T
<1>3. PICK x \in T : \A y \in T : x =< y
  BY <1>1, <1>2, LeastNumber
<1>4. x \in 0 .. N /\ x \notin S /\ x # 0
  BY <1>3 DEF T
<1>5. x - 1 \in 0 .. N - 1 /\ x - 1 < x
  BY <1>4
<1>6. x - 1 \notin T
  BY <1>2, <1>3, <1>5
<1>7. x - 1 \in S
  BY <1>5, <1>6 DEF T
<1>8. (x - 1) + 1 \in S
  BY <1>5, <1>7
<1> QED
  BY <1>4, <1>8

(* A function on 0 .. N whose values come one from the other.              *)
Steps(N, D) == [1 .. N -> [D -> D]]
Unfolds(h, N, D, a, F) ==
  h \in [0 .. N -> D] /\ h[0] = a /\ \A i \in 1 .. N : h[i] = F[i][h[i - 1]]

(* There is such a function for every first value and all steps.           *)
LEMMA BuiltUp ==
  ASSUME NEW N \in Nat, NEW D, NEW a \in D, NEW F \in Steps(N, D)
  PROVE  \E h : Unfolds(h, N, D, a, F)
<1> DEFINE Built(n, h) == h[0] = a /\ \A i \in 1 .. n : h[i] = F[i][h[i - 1]]
           S == {n \in 0 .. N : \E h \in [0 .. n -> D] : Built(n, h)}
<1>0. F \in [1 .. N -> [D -> D]]
  BY DEF Steps
<1>1. 0 \in S
  <2> DEFINE h0 == [i \in 0 .. 0 |-> a]
  <2>1. h0 \in [0 .. 0 -> D] /\ h0[0] = a /\ 1 .. 0 = {}
    OBVIOUS
  <2> HIDE DEF h0
  <2> QED
    BY <2>1
<1>2. ASSUME NEW n \in 0 .. N - 1, n \in S PROVE n + 1 \in S
  <2>1. PICK h \in [0 .. n -> D] : Built(n, h)
    BY <1>2
  <2> DEFINE b == F[n + 1][h[n]]
             e == [i \in 0 .. n + 1 |-> IF i = n + 1 THEN b ELSE h[i]]
  <2>2. b \in D
    BY <1>0, <1>2
  <2> HIDE DEF b
  <2>3. e \in [0 .. n + 1 -> D]
    BY <2>2
  <2>4. e[0] = a
    BY <2>1
  <2>5. ASSUME NEW i \in 1 .. n + 1 PROVE e[i] = F[i][e[i - 1]]
    <3>1. CASE i = n + 1
      BY <3>1 DEF b
    <3>2. CASE i # n + 1
      <4>1. i \in 1 .. n /\ e[i] = h[i] /\ e[i - 1] = h[i - 1]
        BY <3>2
      <4> QED
        BY <2>1, <4>1
    <3> QED
      BY <3>1, <3>2
  <2> HIDE DEF e
  <2> QED
    BY <2>3, <2>4, <2>5
<1> HIDE DEF S
<1>3. \A n \in 0 .. N : n \in S
  BY <1>1, <1>2, InductUpTo
<1>4. N \in S
  BY <1>3
<1> QED
  BY <1>4 DEF S, Unfolds

-----------------------------------------------------------------------------

(* A finite set of numbers has a greatest one: otherwise take a smallest   *)
(* set without; it has more than one element, and the greatest one of what *)
(* is left without one of its elements, or this element, is its greatest.  *)
LEMMA GreatestNumber ==
  ASSUME NEW S, S \subseteq Nat, S # {}, IsFiniteSet(S)
  PROVE  \E x \in S : \A y \in S : x >= y
<1> DEFINE Tops(T) == \E x \in T : \A y \in T : x >= y
           Bad(T) == T \subseteq Nat /\ T # {} /\ IsFiniteSet(T) /\ ~Tops(T)
           Sizes == {n \in Nat : \E T \in SUBSET Nat : Bad(T) /\ Cardinality(T) = n}
<1>1. SUFFICES ASSUME Bad(S) PROVE FALSE
  OBVIOUS
<1>2. Cardinality(S) \in Sizes
  BY <1>1, FS_CardinalityType
<1>3. PICK n \in Sizes : \A m \in Sizes : n =< m
  <2>1. Sizes \subseteq Nat /\ Sizes # {}
    BY <1>2
  <2> HIDE DEF Sizes
  <2> QED
    BY <2>1, LeastNumber
<1>4. PICK T \in SUBSET Nat : Bad(T) /\ Cardinality(T) = n
  BY <1>3
<1>5. PICK z \in T : TRUE
  BY <1>4
<1> DEFINE U == T \ {z}
<1>6. IsFiniteSet(U) /\ Cardinality(U) = n - 1 /\ U \subseteq Nat
  BY <1>4, <1>5, FS_RemoveElement
<1>7. n \in Nat /\ n - 1 < n
  OBVIOUS
<1>8. CASE U = {}
  <2>1. \A y \in T : y = z
    BY <1>8
  <2> QED
    BY <1>4, <1>5, <2>1
<1>9. CASE U # {}
  <2>1. Tops(U)
    <3>1. SUFFICES ASSUME ~Tops(U) PROVE FALSE
      OBVIOUS
    <3>2. Bad(U) /\ U \in SUBSET Nat
      BY <1>6, <1>9, <3>1
    <3>3. n - 1 \in Nat
      BY <1>6, FS_CardinalityType
    <3> HIDE DEF U, Bad
    <3>4. n - 1 \in Sizes
      BY <1>6, <3>2, <3>3
    <3> QED
      BY <1>3, <1>7, <3>4
  <2>2. PICK x \in U : \A y \in U : x >= y
    BY <2>1
  <2>3. x \in Nat /\ z \in Nat
    BY <1>4, <1>5, <2>2
  <2>4. \A y \in T : y \in Nat /\ (y = z \/ x >= y)
    BY <1>4, <2>2
  <2>5. CASE x >= z
    BY <1>4, <2>2, <2>4, <2>5
  <2>6. CASE ~(x >= z)
    BY <1>4, <1>5, <2>3, <2>4, <2>6
  <2> QED
    BY <2>5, <2>6
<1> QED
  BY <1>8, <1>9

(* The list of a group holds finitely many backends.                       *)
LEMMA MembersFinite ==
  ASSUME NEW g \in G
  PROVE  IsFiniteSet(Members(g))
<1>1. Groups[g] \in Seq(Backends)
  BY BalancerAssumption DEF G
<1>2. DOMAIN Groups[g] = 1 .. Len(Groups[g]) /\ Len(Groups[g]) \in Nat
  BY <1>1
<1>3. IsFiniteSet(DOMAIN Groups[g])
  BY <1>2, FS_Interval
<1>4. Groups[g] \in Surjection(DOMAIN Groups[g], Members(g))
  BY <1>1 DEF Members, Surjection
<1> QED
  BY <1>3, <1>4, FS_Surjection

(* The top priority of some backends of a group is one of theirs, or 0 if  *)
(* there are none, and above the others.                                   *)
LEMMA LargestTop ==
  ASSUME NEW g \in G, NEW S \in SUBSET Members(g)
  PROVE  /\ Largest(S) \in Nat /\ \A b \in S : priority[b] =< Largest(S)
         /\ Largest(S) = 0 \/ \E b \in S : Largest(S) = priority[b]
<1> DEFINE P == {priority[b] : b \in S} \cup {0}
<1>1. Groups[g] \in Seq(Backends) /\ priority \in [Backends -> Nat \ {0}]
  BY BalancerAssumption DEF G
<1>5. IsFiniteSet(S)
  BY MembersFinite, FS_Subset
<1>6. IsFiniteSet({priority[b] : b \in S})
  <2> DEFINE f == [b \in S |-> priority[b]]
  <2>1. f \in Surjection(S, {priority[b] : b \in S})
    BY DEF Surjection
  <2> QED
    BY <1>5, <2>1, FS_Surjection
<1>7. IsFiniteSet(P)
  BY <1>6, FS_AddElement
<1>8. Members(g) \subseteq Backends
  BY <1>1 DEF Members
<1>9. P \subseteq Nat /\ P # {}
  BY <1>1, <1>8
<1> HIDE DEF P
<1>10. \E x \in P : \A y \in P : x >= y
  BY <1>7, <1>9, GreatestNumber
<1>11. Max(P) \in P /\ \A y \in P : Max(P) >= y
  BY <1>10 DEF Max
<1>12. Largest(S) = Max(P)
  BY DEF Largest, P
<1>13. \A b \in S : priority[b] \in P /\ priority[b] \in Nat
  BY <1>1, <1>8 DEF P
<1>14. Max(P) \in Nat
  BY <1>9, <1>11
<1>15. \A b \in S : priority[b] =< Max(P)
  BY <1>11, <1>13, <1>14
<1>16. Max(P) = 0 \/ \E b \in S : Max(P) = priority[b]
  BY <1>11 DEF P
<1> QED
  BY <1>12, <1>14, <1>15, <1>16

-----------------------------------------------------------------------------

(* Quotient and remainder, and the only numbers that can be them.          *)
LEMMA DivisionType ==
  ASSUME NEW n \in Nat \ {0}, NEW x \in Nat
  PROVE  x % n \in 0 .. n - 1 /\ x \div n \in Nat /\ x = ((x \div n) * n) + (x % n)
OBVIOUS

(* A number put together from a quotient and a remainder has just these.   *)
LEMMA Division ==
  ASSUME NEW n \in Nat \ {0}, NEW q \in Nat, NEW i \in 0 .. n - 1
  PROVE  (q * n + i) % n = i /\ (q * n + i) \div n = q
OBVIOUS

(* The backend that iwrr_select looks at is one of the list, and the round *)
(* a number, the one it began with or one up to max_pri.                   *)
LEMMA PositionInList ==
  ASSUME NEW g \in G, NEW k \in Nat, NEW c \in Nat \ {0}, NEW r \in Nat,
         max_pri[g] \in Nat
  PROVE  /\ PosAt(g, c, k) \in DOMAIN Groups[g] /\ PosAt(g, c, k) \in Nat \ {0}
         /\ RoundAt(g, c, r, k) \in Nat
         /\ RoundAt(g, c, r, k) = r \/ RoundAt(g, c, r, k) =< max_pri[g]
<1> DEFINE n == Len(Groups[g])
           x == c - 1 + k
           q == x \div n
<1>1. Groups[g] \in Seq(Backends) /\ Groups[g] # <<>>
  BY BalancerAssumption DEF G
<1>2. n \in Nat \ {0} /\ DOMAIN Groups[g] = 1 .. n
  BY <1>1
<1>3. x \in Nat
  OBVIOUS
<1>4. PosAt(g, c, k) = (x % n) + 1
  BY DEF PosAt
<1>5. RoundAt(g, c, r, k) = IF q = 0 THEN r ELSE (r + q) % (max_pri[g] + 1)
  BY DEF RoundAt
<1> HIDE DEF n, x, q
<1>6. x % n \in 0 .. n - 1 /\ q \in Nat
  BY <1>2, <1>3, DivisionType DEF q
<1>7. r + q \in Nat /\ max_pri[g] + 1 \in Nat \ {0}
  BY <1>6
<1> DEFINE v == (r + q) % (max_pri[g] + 1)
<1>8. v \in 0 .. (max_pri[g] + 1) - 1
  BY <1>7, DivisionType
<1> HIDE DEF v
<1>9. v \in Nat /\ v =< max_pri[g]
  BY <1>8
<1>10. RoundAt(g, c, r, k) = r \/ RoundAt(g, c, r, k) = v
  BY <1>5 DEF v
<1>11. PosAt(g, c, k) \in 1 .. n
  BY <1>2, <1>4, <1>6
<1> QED
  BY <1>2, <1>9, <1>10, <1>11

(* The rounds go back to zero: in at most m + 1 of them.                   *)
LEMMA RoundZero ==
  ASSUME NEW m \in Nat, NEW r \in Nat
  PROVE  \E n \in 1 .. m + 1 : (r + n) % (m + 1) = 0
<1> DEFINE M == m + 1
           q == r \div M
           i == r % M
           n == M - i
<1>1. M \in Nat \ {0} /\ q \in Nat /\ i \in 0 .. M - 1 /\ r = q * M + i
  <2>1. M \in Nat \ {0}
    OBVIOUS
  <2> HIDE DEF M
  <2>2. q \in Nat /\ i \in 0 .. M - 1 /\ r = q * M + i
    BY <2>1, DivisionType
  <2> QED
    BY <2>1, <2>2
<1> HIDE DEF q, i
<1>2. n \in 1 .. m + 1 /\ r + n = (q + 1) * M + 0
  BY <1>1
<1>3. q + 1 \in Nat /\ 0 \in 0 .. M - 1
  BY <1>1
<1> HIDE DEF M
<1>4. ((q + 1) * M + 0) % M = 0
  BY <1>1, <1>3, Division
<1>5. (r + n) % M = 0
  BY <1>2, <1>4
<1> QED
  BY <1>2, <1>5 DEF M

(* As long as a backend of the group is active, the search finds one: when *)
(* the round has come back to zero, that backend, if not another before.   *)
LEMMA SearchFinds ==
  ASSUME NEW g \in G, NEW c \in DOMAIN Groups[g], NEW r \in Nat, max_pri[g] \in Nat,
         NEW i \in DOMAIN Groups[g], backend_is_active(Groups[g][i])
  PROVE  \E k \in 0 .. Len(Groups[g]) * (max_pri[g] + 2) : Takes(g, c, r, k)
<1> DEFINE n == Len(Groups[g])
           m == max_pri[g]
<1>1. Groups[g] \in Seq(Backends) /\ priority \in [Backends -> Nat \ {0}]
  BY BalancerAssumption DEF G
<1>2. n \in Nat /\ DOMAIN Groups[g] = 1 .. n /\ c \in 1 .. n /\ i \in 1 .. n /\ m \in Nat
  BY <1>1
<1>3. priority[Groups[g][i]] > 0
  BY <1>1
<1>4. PICK q \in 1 .. m + 1 : (r + q) % (m + 1) = 0
  BY <1>2, RoundZero
<1> DEFINE k == q * n + (i - 1) - (c - 1)
<1> HIDE DEF n, m
<1>5. c - 1 + k = q * n + (i - 1) /\ i - 1 \in 0 .. n - 1 /\ n \in Nat \ {0} /\ q \in Nat
  <2>1. i - 1 \in 0 .. n - 1 /\ n \in Nat \ {0} /\ q \in Nat /\ c \in Int /\ i \in Int
    BY <1>2
  <2>2. \A a \in Int : (c - 1) + (a + (i - 1) - (c - 1)) = a + (i - 1)
    BY <2>1
  <2>3. q * n \in Int
    BY <2>1
  <2> QED
    BY <2>1, <2>2, <2>3
<1>6. q * n >= n /\ q * n =< (m + 1) * n /\ q * n \in Nat
  <2>1. q = 1 + (q - 1) /\ q - 1 \in Nat /\ m + 1 = q + (m + 1 - q) /\ m + 1 - q \in Nat
    BY <1>2
  <2>2. \A a \in Nat : a * n \in Nat
    BY <1>2
  <2>3. q * n = n + (q - 1) * n
    BY <1>2
  <2>4. (m + 1) * n = q * n + (m + 1 - q) * n
    BY <1>2
  <2>5. (q - 1) * n \in Nat /\ (m + 1 - q) * n \in Nat /\ q * n \in Nat
    BY <1>5, <2>1, <2>2
  <2> QED
    BY <1>2, <2>3, <2>4, <2>5
<1>7. k \in 0 .. n * (m + 2)
  <2>1. n * (m + 2) = (m + 1) * n + n
    BY <1>2
  <2> QED
    BY <1>2, <1>6, <2>1
<1>8. (q * n + (i - 1)) % n = i - 1 /\ (q * n + (i - 1)) \div n = q
  BY <1>5, Division
<1>9. PosAt(g, c, k) = i
  BY <1>2, <1>5, <1>8 DEF PosAt, n
<1>10. RoundAt(g, c, r, k) = 0
  <2>1. RoundAt(g, c, r, k) = IF (c - 1 + k) \div n = 0 THEN r
                              ELSE (r + ((c - 1 + k) \div n)) % (m + 1)
    BY DEF RoundAt, n, m
  <2>2. (c - 1 + k) \div n = q
    BY <1>5, <1>8
  <2> QED
    BY <1>4, <2>1, <2>2
<1> HIDE DEF k
<1>11. Takes(g, c, r, k)
  BY <1>3, <1>9, <1>10 DEF Takes
<1> QED
  BY <1>7, <1>11 DEF n, m

(* The search ends exactly if a backend of the group is active.            *)
LEMMA SearchEndsIff == RoundType => SearchEnds
<1> SUFFICES ASSUME RoundType, NEW g \in G
             PROVE  iwrr_select(g, cur[g], round[g]).be = Spin <=> Act(g) = {}
  BY DEF SearchEnds
<1> DEFINE c  == cur[g]
           r  == round[g]
           ks == {k \in 0 .. Len(Groups[g]) * (max_pri[g] + 2) : Takes(g, c, r, k)}
           k  == Min(ks)
<1>1. c \in DOMAIN Groups[g] /\ c \in Nat \ {0} /\ r \in Nat /\ max_pri[g] \in Nat
  BY DEF RoundType
<1>2. Groups[g] \in Seq(Backends) /\ Spin \notin Backends
  BY BalancerAssumption DEF G
<1> HIDE DEF c, r
<1>3. CASE ks = {}
  <2>1. iwrr_select(g, c, r).be = Spin
    BY <1>3, Zenon DEF iwrr_select, Outcome
  <2>2. \A i \in DOMAIN Groups[g] : ~backend_is_active(Groups[g][i])
    BY <1>1, <1>3, SearchFinds
  <2>3. Act(g) = {}
    BY <2>2 DEF Act, Members
  <2> QED
    BY <2>1, <2>3 DEF c, r
<1>4. CASE ks # {}
  <2>1. ks \subseteq Nat
    OBVIOUS
  <2>2. k \in ks
    BY <1>4, <2>1, MinLeast
  <2>3. k \in Nat
    BY <2>1, <2>2
  <2>4. backend_is_active(Groups[g][PosAt(g, c, k)])
    BY <2>2, Zenon DEF Takes
  <2>5. iwrr_select(g, c, r) = Outcome(g, Groups[g][PosAt(g, c, k)], PosAt(g, c, k + 1),
                                       RoundAt(g, c, r, k + 1))
    BY <1>4, Zenon DEF iwrr_select
  <2> HIDE DEF k
  <2>6. PosAt(g, c, k) \in DOMAIN Groups[g]
    BY <1>1, <2>3, PositionInList
  <2>7. Groups[g][PosAt(g, c, k)] \in Backends /\ Groups[g][PosAt(g, c, k)] \in Members(g)
    BY <1>2, <2>6 DEF Members
  <2>8. iwrr_select(g, c, r).be = Groups[g][PosAt(g, c, k)]
    BY <2>5 DEF Outcome
  <2>9. iwrr_select(g, c, r).be # Spin
    BY <1>2, <2>7, <2>8
  <2>10. Groups[g][PosAt(g, c, k)] \in Act(g)
    BY <2>4, <2>7, Zenon DEF Act
  <2> QED
    BY <2>9, <2>10 DEF c, r
<1> QED
  BY <1>3, <1>4

(* An outcome leaves a position of the list of its group and a round, the  *)
(* one before or one up to max_pri.                                        *)
Fits(o, g) ==
  /\ o.group = g /\ o.round \in Nat /\ (o.round = round[g] \/ o.round =< max_pri[g])
  /\ o.cur \in DOMAIN Groups[g] /\ o.cur \in Nat \ {0}

(* So does the search of iwrr_select.                                      *)
LEMMA IwrrFits ==
  ASSUME RoundType, NEW g \in G
  PROVE  Fits(iwrr_select(g, cur[g], round[g]), g)
<1> DEFINE c  == cur[g]
           r  == round[g]
           ks == {k \in 0 .. Len(Groups[g]) * (max_pri[g] + 2) : Takes(g, c, r, k)}
           k  == Min(ks)
<1>1. c \in DOMAIN Groups[g] /\ c \in Nat \ {0} /\ r \in Nat /\ max_pri[g] \in Nat
  BY DEF RoundType
<1> HIDE DEF c, r
<1>2. CASE ks = {}
  <2>1. iwrr_select(g, c, r) = Outcome(g, Spin, c, r)
    BY <1>2, Zenon DEF iwrr_select
  <2> QED
    BY <1>1, <2>1 DEF Fits, Outcome, c, r
<1>3. CASE ks # {}
  <2>1. ks \subseteq Nat
    OBVIOUS
  <2>2. k \in Nat
    BY <1>3, <2>1, MinLeast
  <2>3. iwrr_select(g, c, r) = Outcome(g, Groups[g][PosAt(g, c, k)], PosAt(g, c, k + 1),
                                       RoundAt(g, c, r, k + 1))
    BY <1>3, Zenon DEF iwrr_select
  <2> HIDE DEF k
  <2>4. k + 1 \in Nat
    BY <2>2
  <2>5. /\ PosAt(g, c, k + 1) \in DOMAIN Groups[g] /\ PosAt(g, c, k + 1) \in Nat \ {0}
        /\ RoundAt(g, c, r, k + 1) \in Nat
        /\ RoundAt(g, c, r, k + 1) = r \/ RoundAt(g, c, r, k + 1) =< max_pri[g]
    BY <1>1, <2>4, PositionInList
  <2> QED
    BY <2>3, <2>5 DEF Fits, Outcome, c, r
<1> QED
  BY <1>2, <1>3

(* So do the results of service_lb_select_backend.                         *)
LEMMA OutcomeFits ==
  ASSUME RoundType, NEW o \in service_lb_select_backend
  PROVE  \E g \in G : Fits(o, g)
<1>1. PICK g \in G : o \in balancer_select_backend(g)
  BY Zenon DEF service_lb_select_backend
<1> DEFINE here(b) == Outcome(g, b, cur[g], round[g])
<1>2. \A b : Fits(here(b), g)
  BY DEF RoundType, Outcome, Fits
<1>3. CASE Len(Groups[g]) = 1
  BY <1>1, <1>2, <1>3, Zenon DEF balancer_select_backend
<1>4. CASE Len(Groups[g]) # 1 /\ algo = "random"
  BY <1>1, <1>2, <1>4, Zenon DEF balancer_select_backend
<1>5. CASE Len(Groups[g]) # 1 /\ algo # "random"
  <2>1. o = iwrr_select(g, cur[g], round[g])
    BY <1>1, <1>5, Zenon DEF balancer_select_backend
  <2> QED
    BY <2>1, IwrrFits
<1> QED
  BY <1>3, <1>4, <1>5

-----------------------------------------------------------------------------

(* The running sum of the priorities.                                      *)
LEMMA RunningSum ==
  ASSUME NEW g \in G, NEW A
  PROVE  /\ SumTo(g, A)[0] = 0
         /\ \A i \in DOMAIN Groups[g] :
              SumTo(g, A)[i] = SumTo(g, A)[i - 1] +
                                 (IF Groups[g][i] \in A THEN priority[Groups[g][i]] ELSE 0)
         /\ \A i \in 0 .. Len(Groups[g]) : SumTo(g, A)[i] \in Nat
<1> DEFINE n == Len(Groups[g])
           w(i) == IF Groups[g][i] \in A THEN priority[Groups[g][i]] ELSE 0
           F == [i \in 1 .. n |-> [x \in Nat |-> x + w(i)]]
<1>1. Groups[g] \in Seq(Backends) /\ priority \in [Backends -> Nat \ {0}]
  BY BalancerAssumption DEF G
<1>2. n \in Nat /\ DOMAIN Groups[g] = 1 .. n
  BY <1>1
<1>3. \A i \in 1 .. n : w(i) \in Nat
  BY <1>1, <1>2
<1>a. SumTo(g, A) = CHOOSE h : h = [i \in 0 .. n |-> IF i = 0 THEN 0 ELSE h[i - 1] + w(i)]
  BY DEF SumTo
<1> HIDE DEF n, w
<1>4. F \in Steps(n, Nat)
  BY <1>3 DEF Steps
<1> HIDE DEF F
<1>5. PICK h : h \in [0 .. n -> Nat] /\ h[0] = 0 /\ \A i \in 1 .. n : h[i] = F[i][h[i - 1]]
  <2>1. \E h : Unfolds(h, n, Nat, 0, F)
    BY <1>2, <1>4, BuiltUp
  <2> QED
    BY <2>1 DEF Unfolds
<1>6. h = [i \in 0 .. n |-> IF i = 0 THEN 0 ELSE h[i - 1] + w(i)]
  <2>1. ASSUME NEW i \in 1 .. n PROVE h[i] = h[i - 1] + w(i)
    <3>1. i - 1 \in 0 .. n
      BY <1>2
    <3>2. h[i - 1] \in Nat
      BY <1>5, <3>1
    <3>3. F[i] = [x \in Nat |-> x + w(i)]
      BY DEF F
    <3> QED
      BY <1>5, <3>2, <3>3
  <2> QED
    BY <1>2, <1>5, <2>1
<1> DEFINE f == SumTo(g, A)
<1>7. f = [i \in 0 .. n |-> IF i = 0 THEN 0 ELSE f[i - 1] + w(i)]
  BY <1>a, <1>6
<1> HIDE DEF f
<1>8. f[0] = 0 /\ \A i \in 1 .. n : f[i] = f[i - 1] + w(i)
  BY <1>2, <1>7
<1>9. \A i \in 0 .. n : f[i] \in Nat
  <2> DEFINE S == {i \in 0 .. n : f[i] \in Nat}
  <2>1. 0 \in S
    BY <1>2, <1>8
  <2>2. ASSUME NEW i \in 0 .. n - 1, i \in S PROVE i + 1 \in S
    <3>1. i + 1 \in 1 .. n /\ (i + 1) - 1 = i
      BY <1>2
    <3>2. f[i + 1] = f[i] + w(i + 1)
      BY <1>8, <3>1
    <3> QED
      BY <1>3, <2>2, <3>1, <3>2
  <2> HIDE DEF S
  <2>3. \A i \in 0 .. n : i \in S
    BY <1>2, <2>1, <2>2, InductUpTo
  <2> QED
    BY <2>3 DEF S
<1> QED
  BY <1>2, <1>8, <1>9 DEF f, n, w

(* The group of a backend.                                                 *)
LEMMA GroupKnown ==
  ASSUME NEW b \in Backends
  PROVE  GroupOf(b) \in G
<1>1. \E g \in G : \E i \in DOMAIN Groups[g] : Groups[g][i] = b
  BY BalancerAssumption DEF G
<1> QED
  BY <1>1, Zenon DEF GroupOf

(* A backend is in the list of its group.                                  *)
LEMMA GroupMember ==
  ASSUME NEW b \in Backends
  PROVE  b \in Members(GroupOf(b))
<1>1. \E g \in G : \E i \in DOMAIN Groups[g] : Groups[g][i] = b
  BY BalancerAssumption DEF G
<1>2. \E i \in DOMAIN Groups[GroupOf(b)] : Groups[GroupOf(b)][i] = b
  BY <1>1, Zenon DEF GroupOf
<1> QED
  BY <1>2 DEF Members

(* What is counted of some backends of a group.                            *)
LEMMA CountType ==
  ASSUME NEW g \in G, NEW S \in SUBSET Members(g)
  PROVE  /\ Cardinality(S) \in Nat /\ Sum(g, S) \in Nat /\ Largest(S) \in Nat
         /\ Largest(S) =< Largest(Members(g))
<1>1. IsFiniteSet(S)
  BY MembersFinite, FS_Subset
<1>2. Cardinality(S) \in Nat
  BY <1>1, FS_CardinalityType
<1>3. Sum(g, S) \in Nat
  <2>1. Groups[g] \in Seq(Backends)
    BY BalancerAssumption DEF G
  <2>2. Len(Groups[g]) \in 0 .. Len(Groups[g])
    BY <2>1
  <2> QED
    BY <2>2, RunningSum DEF Sum
<1>4. /\ Largest(S) \in Nat
      /\ Largest(S) = 0 \/ \E b \in S : Largest(S) = priority[b]
  BY LargestTop
<1>5. Members(g) \in SUBSET Members(g)
  OBVIOUS
<1>6. Largest(Members(g)) \in Nat /\ \A b \in Members(g) : priority[b] =< Largest(Members(g))
  BY <1>5, LargestTop
<1>7. \A b \in S : b \in Members(g)
  OBVIOUS
<1> QED
  BY <1>2, <1>3, <1>4, <1>6, <1>7

(* The types of the counters, and the bound on max_pri, however backends   *)
(* are counted.                                                            *)
MaxBound == \A g \in G : max_pri[g] =< Largest(Members(g))
Counted == max_pri \in [G -> Nat] /\ CounterType /\ MaxBound

(* Counting the active backends of a group anew gives such counters.       *)
LEMMA RecountEffect ==
  ASSUME Counted, NEW b \in Backends, Recount(b)
  PROVE  Counted'
<1> DEFINE g == GroupOf(b)
           act == {x \in Members(g) : ~disabled'[x] /\ alive'[x]}
<1>1. g \in G
  BY GroupKnown
<1>2. /\ act_num' = [act_num EXCEPT ![g] = Cardinality(act)]
      /\ sum_pri' = [sum_pri EXCEPT ![g] = Sum(g, act)]
      /\ max_pri' = [max_pri EXCEPT ![g] = Largest(act)]
      /\ overtaken' \in {overtaken \cup {g}, overtaken \ {g}}
  BY DEF Recount
<1>3. act \in SUBSET Members(g)
  OBVIOUS
<1> HIDE DEF g, act
<1>4. /\ Cardinality(act) \in Nat /\ Sum(g, act) \in Nat /\ Largest(act) \in Nat
      /\ Largest(act) =< Largest(Members(g))
  BY <1>1, <1>3, CountType
<1> QED
  BY <1>1, <1>2, <1>4 DEF Counted, CounterType, MaxBound

(* A job goes from one stage to another, or ends.                          *)
LEMMA StageEffect ==
  ASSUME BackendType, NEW b \in Backends, NEW from \in Stages, NEW to \in Stages \cup {"end"},
         from # to, Stage(b, from, to)
  PROVE  /\ touch' \in [Backends -> [Stages -> Nat]]
         /\ \A d \in Backends : d # b => touch'[d] = touch[d]
         /\ \A s \in Stages : s # from => touch'[b][s] >= touch[b][s]
         /\ to \in Stages => touch'[b][to] > 0
<1> DEFINE new == [s \in Stages |-> CASE s = from -> touch[b][s] - 1
                                    [] s = to   -> touch[b][s] + 1
                                    [] OTHER    -> touch[b][s]]
<1>1. touch \in [Backends -> [Stages -> Nat]]
  BY DEF BackendType
<1>2. touch[b][from] > 0 /\ touch' = [touch EXCEPT ![b] = new]
  BY DEF Stage
<1>3. \A s \in Stages : touch[b][s] \in Nat
  BY <1>1
<1>4. \A s \in Stages : s # from => new[s] >= touch[b][s]
  BY <1>3
<1>5. to \in Stages => new[to] > 0
  BY <1>3
<1>6. new \in [Stages -> Nat]
  <2>1. \A s \in Stages : new[s] \in Nat
    BY <1>2, <1>3
  <2> QED
    BY <2>1
<1> HIDE DEF new
<1>7. touch'[b] = new
  BY <1>1, <1>2
<1> QED
  BY <1>1, <1>2, <1>4, <1>5, <1>6, <1>7

(* Initially every backend is alive.                                       *)
LEMMA InitBalancer == Init => BalancerInv
<1> SUFFICES ASSUME Init PROVE BalancerInv
  OBVIOUS
<1>1. BackendType
  BY DEF Init, BackendType
<1>2. Counted
  <2> DEFINE act(g) == {b \in Members(g) : ~disabled[b]}
  <2>1. /\ act_num = [g \in G |-> Cardinality(act(g))]
        /\ sum_pri = [g \in G |-> Sum(g, act(g))]
        /\ max_pri = [g \in G |-> Largest(act(g))] /\ overtaken = {}
    BY DEF Init
  <2>2. \A g \in G : act(g) \in SUBSET Members(g)
    OBVIOUS
  <2> HIDE DEF act
  <2>3. \A g \in G : /\ Cardinality(act(g)) \in Nat /\ Sum(g, act(g)) \in Nat
                     /\ Largest(act(g)) \in Nat /\ Largest(act(g)) =< Largest(Members(g))
    BY <2>2, CountType
  <2> QED
    BY <2>1, <2>3 DEF Counted, CounterType, MaxBound
<1>3. \A g \in G : 1 \in DOMAIN Groups[g]
  <2> SUFFICES ASSUME NEW g \in G PROVE 1 \in DOMAIN Groups[g]
    OBVIOUS
  <2>1. Groups[g] \in Seq(Backends) /\ Groups[g] # <<>>
    BY BalancerAssumption DEF G
  <2> QED
    BY <2>1
<1>4. RoundType
  BY <1>2, <1>3 DEF Init, RoundType, Counted
<1>5. DeadAttended
  BY DEF Init, DeadAttended
<1>6. RoundBound
  <2>1. \A g \in G : round[g] = 0 /\ Largest(Members(g)) \in Nat
    BY CountType DEF Init
  <2> QED
    BY <1>2, <2>1 DEF RoundBound, Counted, MaxBound
<1> QED
  BY <1>1, <1>2, <1>4, <1>5, <1>6 DEF BalancerInv, Counted

(* A selection moves the position and the round of a group.                *)
LEMMA SelectedKeeps ==
  ASSUME BalancerInv, NEW o, NEW g \in G, Fits(o, g), Selected(o)
  PROVE  BalancerInv'
<1>1. /\ spin' = IF o.be = Spin THEN g ELSE 0
      /\ cur' = [cur EXCEPT ![g] = o.cur] /\ round' = [round EXCEPT ![g] = o.round]
      /\ UNCHANGED <<alive, disabled, act_num, sum_pri, max_pri, overtaken, touch>>
  BY DEF Selected, Fits, counters
<1>2. BackendType' /\ DeadAttended' /\ CounterType'
  BY <1>1 DEF BalancerInv, BackendType, DeadAttended, CounterType
<1>3. o.cur \in DOMAIN Groups[g] /\ o.cur \in Nat \ {0} /\ o.round \in Nat
  BY DEF Fits
<1>4. RoundType'
  BY <1>1, <1>3 DEF BalancerInv, RoundType
<1>5. RoundBound'
  <2>1. max_pri[g] \in Nat /\ max_pri[g] =< Largest(Members(g)) /\ round[g] =< Largest(Members(g))
    BY DEF BalancerInv, RoundType, RoundBound
  <2>2. Largest(Members(g)) \in Nat
    BY CountType
  <2>3. o.round =< Largest(Members(g))
    BY <1>3, <2>1, <2>2 DEF Fits
  <2> QED
    BY <1>1, <2>3 DEF BalancerInv, RoundType, RoundBound
<1> QED
  BY <1>2, <1>4, <1>5 DEF BalancerInv

(* Steps of the touch_be job of b that leave the backends alone and do not *)
(* end the attention that a dead backend gets.                             *)
LEMMA JobStepKeeps ==
  ASSUME BalancerInv, NEW b \in Backends, NEW from \in Stages, NEW to \in Stages \cup {"end"},
         from # to, Stage(b, from, to), UNCHANGED <<alive, disabled>>,
         (~alive[b] /\ Dynamic) => to \in {"armed", "probe"} \/ from \in {"alive", "lock"}
  PROVE  BackendType' /\ DeadAttended'
<1>1. BackendType /\ DeadAttended
  BY DEF BalancerInv
<1>2. /\ touch' \in [Backends -> [Stages -> Nat]]
      /\ \A d \in Backends : d # b => touch'[d] = touch[d]
      /\ \A s \in Stages : s # from => touch'[b][s] >= touch[b][s]
      /\ to \in Stages => touch'[b][to] > 0
  BY <1>1, StageEffect
<1>3. BackendType'
  BY <1>1, <1>2 DEF BackendType
<1>4. ASSUME Dynamic, NEW d \in Backends, ~alive[d]
      PROVE  touch'[d]["armed"] > 0 \/ touch'[d]["probe"] > 0
  <2>1. touch[d]["armed"] > 0 \/ touch[d]["probe"] > 0
    BY <1>1, <1>4 DEF DeadAttended
  <2>2. \A s \in Stages : touch[d][s] \in Nat /\ touch'[d][s] \in Nat
    BY <1>1, <1>2 DEF BackendType
  <2>3. CASE d # b
    BY <1>2, <2>1, <2>3
  <2>4. CASE d = b /\ to \in {"armed", "probe"}
    BY <1>2, <2>4 DEF Stages
  <2>5. CASE d = b /\ from \in {"alive", "lock"}
    BY <1>2, <2>1, <2>2, <2>5 DEF Stages
  <2> QED
    BY <1>4, <2>3, <2>4, <2>5
<1>5. DeadAttended'
  BY <1>4 DEF DeadAttended
<1> QED
  BY <1>3, <1>5

(* Every step keeps the invariant.                                         *)
LEMMA StepBalancer ==
  ASSUME BalancerInv, [Next]_vars
  PROVE  BalancerInv'
<1>1. BackendType /\ RoundType /\ DeadAttended /\ CounterType /\ RoundBound
  BY DEF BalancerInv
<1>c. Counted
  BY <1>1 DEF Counted, RoundType, RoundBound, MaxBound
<1>2. CASE get_backend
  <2>1. PICK o \in service_lb_select_backend : Selected(o)
    BY <1>2 DEF get_backend
  <2>2. PICK g \in G : Fits(o, g)
    BY <1>1, OutcomeFits
  <2> QED
    BY <2>1, <2>2, SelectedKeeps
<1>3. CASE SpinEnds
  <2> DEFINE o == iwrr_select(spin, cur[spin], round[spin])
  <2>1. spin # 0 /\ Selected(o)
    BY <1>3 DEF SpinEnds
  <2>2. spin \in G
    BY <1>1, <2>1 DEF RoundType
  <2>3. Fits(o, spin)
    BY <1>1, <2>2, IwrrFits
  <2> HIDE DEF o
  <2> QED
    BY <2>1, <2>2, <2>3, SelectedKeeps
<1>4. ASSUME NEW b \in Backends, kill_be(b) PROVE BalancerInv'
  <2>1. /\ alive' = [alive EXCEPT ![b] = FALSE] /\ UNCHANGED <<disabled, cur, round, spin>>
        /\ touch' = [touch EXCEPT ![b]["armed"] = @ + 1] /\ Recount(b)
    BY <1>4 DEF kill_be, Armed
  <2>2. touch \in [Backends -> [Stages -> Nat]] /\ "armed" \in Stages /\ "probe" \in Stages
    BY <1>1 DEF BackendType, Stages
  <2>3. /\ touch' \in [Backends -> [Stages -> Nat]]
        /\ \A d \in Backends : d # b => touch'[d] = touch[d]
        /\ touch'[b]["armed"] > 0
    BY <2>1, <2>2
  <2>4. BackendType'
    BY <1>1, <2>1, <2>3 DEF BackendType
  <2>5. Counted'
    BY <1>c, <2>1, RecountEffect
  <2>6. RoundType' /\ CounterType' /\ RoundBound'
    BY <1>1, <2>1, <2>5 DEF RoundType, RoundBound, Counted, MaxBound
  <2>7. \A d \in Backends : d # b => alive'[d] = alive[d]
    BY <1>1, <2>1 DEF BackendType
  <2>8. DeadAttended'
    BY <1>1, <2>3, <2>7 DEF DeadAttended
  <2> QED
    BY <2>4, <2>6, <2>8 DEF BalancerInv
<1>5. ASSUME NEW b \in Backends, NEW d \in BOOLEAN, backend_disable(b, d) PROVE BalancerInv'
  <2>1. /\ disabled' = [disabled EXCEPT ![b] = d] /\ UNCHANGED <<alive, cur, round, spin, touch>>
        /\ Recount(b)
    BY <1>5 DEF backend_disable
  <2>2. BackendType'
    BY <1>1, <2>1 DEF BackendType
  <2>3. Counted'
    BY <1>c, <2>1, RecountEffect
  <2>4. RoundType' /\ CounterType' /\ RoundBound'
    BY <1>1, <2>1, <2>3 DEF RoundType, RoundBound, Counted, MaxBound
  <2>5. DeadAttended'
    BY <1>1, <2>1 DEF DeadAttended
  <2> QED
    BY <2>2, <2>4, <2>5 DEF BalancerInv
<1>6. ASSUME NEW b \in Backends, TouchStart(b) PROVE BalancerInv'
  <2> DEFINE to == IF refcount(b) > 1 /\ ~alive[b] THEN "probe" ELSE "end"
  <2>1. Stage(b, "armed", to) /\ UNCHANGED <<alive, disabled, counters, cur, round, spin>>
    BY <1>6 DEF TouchStart
  <2>2. Dynamic => refcount(b) > 1
    <3>1. touch[b]["armed"] > 0
      BY <2>1 DEF Stage
    <3>2. \A s \in Stages : touch[b][s] \in Nat
      BY <1>1 DEF BackendType
    <3>3. Jobs(b) > 0 /\ Jobs(b) \in Nat
      BY <3>1, <3>2 DEF Jobs, Stages
    <3> QED
      BY <3>3 DEF refcount
  <2>3. to \in Stages \cup {"end"} /\ to # "armed" /\ (~alive[b] /\ Dynamic => to = "probe")
    BY <2>2 DEF Stages
  <2>4. "armed" \in Stages
    BY DEF Stages
  <2> HIDE DEF to
  <2>5. BackendType' /\ DeadAttended'
    BY <2>1, <2>3, <2>4, JobStepKeeps
  <2>6. RoundType' /\ CounterType' /\ RoundBound'
    BY <1>1, <2>1 DEF RoundType, CounterType, RoundBound, counters
  <2> QED
    BY <2>5, <2>6 DEF BalancerInv
<1>7. ASSUME NEW b \in Backends, ProbeSucceeds(b) PROVE BalancerInv'
  <2>1. /\ Stage(b, "probe", "alive") /\ alive' = [alive EXCEPT ![b] = TRUE]
        /\ overtaken' \in {overtaken \cup {GroupOf(b)}, overtaken}
        /\ UNCHANGED <<disabled, act_num, sum_pri, max_pri, cur, round, spin>>
    BY <1>7 DEF ProbeSucceeds
  <2>2. "probe" \in Stages /\ "alive" \in Stages
    BY DEF Stages
  <2>3. /\ touch' \in [Backends -> [Stages -> Nat]]
        /\ \A d \in Backends : d # b => touch'[d] = touch[d]
    BY <1>1, <2>1, <2>2, StageEffect
  <2>4. BackendType'
    BY <1>1, <2>1, <2>3 DEF BackendType
  <2>5. alive'[b] /\ \A d \in Backends : d # b => alive'[d] = alive[d]
    BY <1>1, <2>1 DEF BackendType
  <2>6. DeadAttended'
    BY <1>1, <2>3, <2>5 DEF DeadAttended
  <2>7. RoundType' /\ CounterType' /\ RoundBound'
    BY <1>1, <2>1, GroupKnown DEF RoundType, CounterType, RoundBound
  <2> QED
    BY <2>4, <2>6, <2>7 DEF BalancerInv
<1>8. ASSUME NEW b \in Backends, ProbeFails(b) PROVE BalancerInv'
  <2>1. Stage(b, "probe", "armed") /\ UNCHANGED <<alive, disabled, counters, cur, round, spin>>
    BY <1>8 DEF ProbeFails, Reschedule
  <2>2. "probe" \in Stages /\ "armed" \in Stages
    BY DEF Stages
  <2>3. BackendType' /\ DeadAttended'
    BY <2>1, <2>2, JobStepKeeps
  <2>4. RoundType' /\ CounterType' /\ RoundBound'
    BY <1>1, <2>1 DEF RoundType, CounterType, RoundBound, counters
  <2> QED
    BY <2>3, <2>4 DEF BalancerInv
<1>9. ASSUME NEW b \in Backends, TouchDisabled(b) PROVE BalancerInv'
  <2> DEFINE to == IF disabled[b] THEN "end" ELSE "lock"
  <2>1. Stage(b, "alive", to) /\ UNCHANGED <<alive, disabled, counters, cur, round, spin>>
    BY <1>9 DEF TouchDisabled
  <2>2. "alive" \in Stages /\ to \in Stages \cup {"end"} /\ to # "alive"
    BY DEF Stages
  <2> HIDE DEF to
  <2>3. BackendType' /\ DeadAttended'
    BY <2>1, <2>2, JobStepKeeps
  <2>4. RoundType' /\ CounterType' /\ RoundBound'
    BY <1>1, <2>1 DEF RoundType, CounterType, RoundBound, counters
  <2> QED
    BY <2>3, <2>4 DEF BalancerInv
<1>10. ASSUME NEW b \in Backends, TouchCounts(b) PROVE BalancerInv'
  <2> DEFINE g == GroupOf(b)
  <2>1. /\ Stage(b, "lock", "end") /\ UNCHANGED <<alive, disabled, overtaken, cur, round, spin>>
        /\ act_num' = [act_num EXCEPT ![g] = @ + 1]
        /\ sum_pri' = [sum_pri EXCEPT ![g] = @ + priority[b]]
        /\ max_pri' = [max_pri EXCEPT ![g] = Max({@, priority[b]})]
    BY <1>10 DEF TouchCounts
  <2>2. "lock" \in Stages /\ "end" \in Stages \cup {"end"} /\ "lock" # "end"
    BY DEF Stages
  <2>3. BackendType' /\ DeadAttended'
    BY <2>1, <2>2, JobStepKeeps
  <2>4. g \in G
    BY GroupKnown
  <2> HIDE DEF g
  <2>5. /\ max_pri[g] \in Nat /\ act_num[g] \in Nat /\ sum_pri[g] \in Nat
        /\ max_pri[g] =< Largest(Members(g)) /\ priority[b] \in Nat
    BY <1>1, <2>4, BalancerAssumption DEF RoundType, CounterType, RoundBound
  <2>6. priority[b] =< Largest(Members(g)) /\ Largest(Members(g)) \in Nat
    <3>1. b \in Members(g)
      BY GroupMember DEF g
    <3> QED
      BY <2>4, <3>1, LargestTop
  <2> DEFINE top == Max({max_pri[g], priority[b]})
  <2>7. top \in Nat /\ top =< Largest(Members(g))
    <3>1. top \in {max_pri[g], priority[b]}
      BY <2>5 DEF Max
    <3> QED
      BY <2>5, <2>6, <3>1
  <2>8. max_pri' = [max_pri EXCEPT ![g] = top]
    BY <2>1
  <2> HIDE DEF top
  <2>9. max_pri' \in [G -> Nat] /\ \A h \in G : max_pri'[h] =< Largest(Members(h))
    BY <1>1, <2>4, <2>7, <2>8 DEF RoundType, RoundBound
  <2>10. RoundType' /\ RoundBound'
    BY <1>1, <2>1, <2>9 DEF RoundType, RoundBound
  <2>11. CounterType'
    BY <1>1, <2>1, <2>4, <2>5 DEF CounterType
  <2> QED
    BY <2>3, <2>10, <2>11 DEF BalancerInv
<1>11. CASE UNCHANGED vars
  BY <1>1, <1>11 DEF vars, BalancerInv, BackendType, RoundType, DeadAttended,
                      CounterType, RoundBound
<1> QED
  BY <1>2, <1>3, <1>4, <1>5, <1>6, <1>7, <1>8, <1>9, <1>10, <1>11 DEF Next

-----------------------------------------------------------------------------

(* The counters and what touch_be does to them late.                       *)

(* The running sums over fewer backends are smaller.                       *)
LEMMA SumMore ==
  ASSUME NEW g \in G, NEW A, NEW B, A \subseteq B
  PROVE  Sum(g, A) =< Sum(g, B)
<1> DEFINE n == Len(Groups[g])
           e == SumTo(g, A)
           f == SumTo(g, B)
           S == {k \in 0 .. n : e[k] =< f[k]}
<1>1. Groups[g] \in Seq(Backends) /\ priority \in [Backends -> Nat \ {0}]
  BY BalancerAssumption DEF G
<1>2. n \in Nat /\ DOMAIN Groups[g] = 1 .. n
  BY <1>1
<1>3. e[0] = 0 /\ f[0] = 0 /\ \A k \in 0 .. n : e[k] \in Nat /\ f[k] \in Nat
  BY RunningSum
<1>4. ASSUME NEW k \in 1 .. n PROVE e[k] - e[k - 1] =< f[k] - f[k - 1]
  <2> DEFINE v == IF Groups[g][k] \in A THEN priority[Groups[g][k]] ELSE 0
             w == IF Groups[g][k] \in B THEN priority[Groups[g][k]] ELSE 0
  <2>1. e[k] = e[k - 1] + v /\ f[k] = f[k - 1] + w
    BY <1>2, RunningSum
  <2>2. v \in Nat /\ w \in Nat /\ v =< w
    BY <1>1, <1>2
  <2>3. e[k - 1] \in Nat /\ f[k - 1] \in Nat
    BY <1>2, <1>3
  <2> HIDE DEF e, f, v, w
  <2> QED
    BY <2>1, <2>2, <2>3
<1> HIDE DEF n, e, f
<1>5. 0 \in S
  BY <1>2, <1>3
<1>6. ASSUME NEW k \in 0 .. n - 1, k \in S PROVE k + 1 \in S
  <2>1. k + 1 \in 1 .. n /\ k \in 0 .. n /\ k + 1 \in 0 .. n /\ (k + 1) - 1 = k
    BY <1>2
  <2>2. e[k + 1] - e[k] =< f[k + 1] - f[k]
    BY <1>4, <2>1
  <2>3. e[k] \in Nat /\ f[k] \in Nat /\ e[k + 1] \in Nat /\ f[k + 1] \in Nat /\ e[k] =< f[k]
    BY <1>3, <1>6, <2>1
  <2> QED
    BY <2>1, <2>2, <2>3
<1> HIDE DEF S
<1>7. \A k \in 0 .. n : k \in S
  BY <1>2, <1>5, <1>6, InductUpTo
<1>8. e[n] =< f[n]
  BY <1>2, <1>7 DEF S
<1> QED
  BY <1>8 DEF Sum, n, e, f

(* One more backend adds its priority.                                     *)
LEMMA SumOneMore ==
  ASSUME NEW g \in G, NEW A, NEW b \in Members(g), b \notin A
  PROVE  Sum(g, A \cup {b}) = Sum(g, A) + priority[b]
<1> DEFINE n == Len(Groups[g])
           B == A \cup {b}
           e == SumTo(g, A)
           f == SumTo(g, B)
<1>1. Groups[g] \in Seq(Backends) /\ priority \in [Backends -> Nat \ {0}]
  BY BalancerAssumption DEF G
<1>2. n \in Nat /\ DOMAIN Groups[g] = 1 .. n
  BY <1>1
<1>3. e[0] = 0 /\ f[0] = 0 /\ \A k \in 0 .. n : e[k] \in Nat /\ f[k] \in Nat
  BY RunningSum
<1>4. PICK p \in 1 .. n : Groups[g][p] = b
  BY <1>2 DEF Members
<1>5. \A k \in 1 .. n : Groups[g][k] = b => k = p
  <2>1. \A i, j \in DOMAIN Groups[g] : Groups[g][i] = Groups[g][j] => i = j
    BY BalancerAssumption DEF G
  <2> QED
    BY <1>2, <1>4, <2>1
<1>6. priority[b] \in Nat
  BY <1>1, <1>2, <1>4
<1> DEFINE more(k) == IF k < p THEN 0 ELSE priority[b]
           S == {k \in 0 .. n : f[k] = e[k] + more(k)}
<1>7. ASSUME NEW k \in 1 .. n PROVE f[k] - f[k - 1] = (e[k] - e[k - 1]) + (more(k) - more(k - 1))
  <2> DEFINE v == IF Groups[g][k] \in A THEN priority[Groups[g][k]] ELSE 0
             w == IF Groups[g][k] \in B THEN priority[Groups[g][k]] ELSE 0
  <2>1. e[k] = e[k - 1] + v /\ f[k] = f[k - 1] + w
    BY <1>2, RunningSum
  <2>2. v \in Nat /\ w \in Nat
    BY <1>1, <1>2
  <2>3. w = v + (more(k) - more(k - 1))
    <3>1. CASE k = p
      <4>1. v = 0 /\ w = priority[b]
        BY <1>4, <3>1
      <4>2. more(k) = priority[b] /\ more(k - 1) = 0
        BY <1>2, <3>1
      <4> HIDE DEF v, w, more
      <4> QED
        BY <1>6, <4>1, <4>2
    <3>2. CASE k # p
      <4>1. v = w
        BY <1>5, <3>2
      <4>2. more(k) = more(k - 1) /\ more(k) \in Nat
        BY <1>2, <1>6, <3>2
      <4> HIDE DEF v, w, more
      <4> QED
        BY <2>2, <4>1, <4>2
    <3> QED
      BY <3>1, <3>2
  <2>4. e[k - 1] \in Nat /\ f[k - 1] \in Nat
    <3>1. k - 1 \in 0 .. n
      BY <1>2
    <3> QED
      BY <1>3, <3>1
  <2>5. more(k) \in Nat /\ more(k - 1) \in Nat
    BY <1>6
  <2> HIDE DEF e, f, v, w, more
  <2> QED
    BY <2>1, <2>2, <2>3, <2>4, <2>5
<1>8. \A k \in 0 .. n : more(k) \in Nat
  BY <1>6
<1>9. more(0) = 0 /\ more(n) = priority[b]
  BY <1>2, <1>4
<1> HIDE DEF n, e, f, more
<1>10. 0 \in S
  BY <1>2, <1>3, <1>9
<1>11. ASSUME NEW k \in 0 .. n - 1, k \in S PROVE k + 1 \in S
  <2>1. k + 1 \in 1 .. n /\ k \in 0 .. n /\ k + 1 \in 0 .. n /\ (k + 1) - 1 = k
    BY <1>2
  <2>2. f[k + 1] - f[k] = (e[k + 1] - e[k]) + (more(k + 1) - more(k))
    BY <1>7, <2>1
  <2>3. /\ e[k] \in Nat /\ f[k] \in Nat /\ e[k + 1] \in Nat /\ f[k + 1] \in Nat
        /\ more(k) \in Nat /\ more(k + 1) \in Nat /\ f[k] = e[k] + more(k)
    BY <1>3, <1>8, <1>11, <2>1
  <2>4. f[k + 1] = e[k + 1] + more(k + 1)
    BY <2>2, <2>3
  <2> QED
    BY <2>1, <2>4
<1> HIDE DEF S
<1>12. \A k \in 0 .. n : k \in S
  BY <1>2, <1>10, <1>11, InductUpTo
<1>13. f[n] = e[n] + priority[b]
  BY <1>2, <1>9, <1>12 DEF S
<1> QED
  BY <1>13 DEF Sum, n, e, f

(* All three counts over fewer backends are smaller.                       *)
LEMMA CountsMore ==
  ASSUME NEW g \in G, NEW B \in SUBSET Members(g), NEW A \in SUBSET B
  PROVE  /\ Cardinality(A) =< Cardinality(B) /\ Sum(g, A) =< Sum(g, B)
         /\ Largest(A) =< Largest(B)
<1>1. IsFiniteSet(B)
  BY MembersFinite, FS_Subset
<1>2. Cardinality(A) =< Cardinality(B)
  BY <1>1, FS_Subset
<1>3. Sum(g, A) =< Sum(g, B)
  BY SumMore
<1>4. A \in SUBSET Members(g)
  OBVIOUS
<1>5. Largest(A) \in Nat /\ (Largest(A) = 0 \/ \E b \in A : Largest(A) = priority[b])
  BY <1>4, LargestTop
<1>6. Largest(B) \in Nat /\ \A b \in B : priority[b] =< Largest(B)
  BY LargestTop
<1> QED
  BY <1>2, <1>3, <1>5, <1>6

(* What one more backend does to them.                                     *)
LEMMA CountsOneMore ==
  ASSUME NEW g \in G, NEW A \in SUBSET Members(g), NEW b \in Members(g), b \notin A
  PROVE  /\ Cardinality(A \cup {b}) = Cardinality(A) + 1
         /\ Sum(g, A \cup {b}) = Sum(g, A) + priority[b]
         /\ Largest(A \cup {b}) \in {Largest(A), priority[b]}
         /\ Largest(A \cup {b}) >= Largest(A) /\ Largest(A \cup {b}) >= priority[b]
<1>1. IsFiniteSet(A)
  BY MembersFinite, FS_Subset
<1>2. Cardinality(A \cup {b}) = Cardinality(A) + 1
  BY <1>1, FS_AddElement
<1>3. Sum(g, A \cup {b}) = Sum(g, A) + priority[b]
  BY SumOneMore
<1>4. A \cup {b} \in SUBSET Members(g)
  OBVIOUS
<1>5. /\ Largest(A) \in Nat /\ \A x \in A : priority[x] =< Largest(A)
      /\ Largest(A) = 0 \/ \E x \in A : Largest(A) = priority[x]
  BY LargestTop
<1> DEFINE B == A \cup {b}
<1>6. /\ Largest(B) \in Nat /\ \A x \in B : priority[x] =< Largest(B)
      /\ Largest(B) = 0 \/ \E x \in B : Largest(B) = priority[x]
  BY <1>4, LargestTop
<1>7. Groups[g] \in Seq(Backends) /\ priority \in [Backends -> Nat \ {0}]
  BY BalancerAssumption DEF G
<1>8. \A x \in B : priority[x] \in Nat
  BY <1>4, <1>7 DEF Members
<1>9. Largest(B) >= Largest(A) /\ Largest(B) >= priority[b]
  BY <1>5, <1>6, <1>8
<1>10. Largest(B) \in {Largest(A), priority[b]}
  BY <1>5, <1>6, <1>8, <1>9
<1> QED
  BY <1>2, <1>3, <1>9, <1>10

(* The group of a backend is the only one that has it.                     *)
LEMMA GroupOnly ==
  ASSUME NEW g \in G, NEW b \in Members(g)
  PROVE  b \in Backends /\ GroupOf(b) = g
<1>1. Groups[g] \in Seq(Backends)
  BY BalancerAssumption DEF G
<1>2. PICK i \in DOMAIN Groups[g] : Groups[g][i] = b
  BY DEF Members
<1>3. b \in Backends
  BY <1>1, <1>2
<1>4. GroupOf(b) \in G /\ \E j \in DOMAIN Groups[GroupOf(b)] : Groups[GroupOf(b)][j] = b
  BY <1>3, GroupKnown, GroupMember DEF Members
<1> QED
  BY <1>2, <1>3, <1>4, BalancerAssumption DEF G

(* The counters of a group cover its settled backends, and count exactly   *)
(* these unless a touch_be was overtaken.                                  *)
SettledAt(g) ==
  /\ act_num[g] >= Cardinality(Settled(g)) /\ sum_pri[g] >= Sum(g, Settled(g))
  /\ max_pri[g] >= Largest(Settled(g))
  /\ g \notin overtaken =>
       /\ act_num[g] = Cardinality(Settled(g)) /\ sum_pri[g] = Sum(g, Settled(g))
       /\ max_pri[g] = Largest(Settled(g))

(* A touch_be that will count its backend, and was not overtaken, is the   *)
(* only one that will, and the backend is active.                          *)
LoneAt(g) ==
  g \notin overtaken => \A b \in Members(g) :
    touch[b]["lock"] > 0 \/ (touch[b]["alive"] > 0 /\ ~disabled[b]) =>
      /\ alive[b] /\ ~disabled[b]
      /\ touch[b]["alive"] + touch[b]["lock"] = 1

SettledInv == \A g \in G : SettledAt(g) /\ LoneAt(g)

(* In the beginning no touch_be is under way.                              *)
LEMMA InitSettled == Init => SettledInv
<1> SUFFICES ASSUME Init, NEW g \in G PROVE SettledAt(g) /\ LoneAt(g)
  BY DEF SettledInv
<1> DEFINE act == {b \in Members(g) : ~disabled[b]}
<1>1. act_num[g] = Cardinality(act) /\ sum_pri[g] = Sum(g, act) /\ max_pri[g] = Largest(act)
  BY DEF Init
<1>2. \A b \in Members(g) : alive[b] /\ touch[b]["alive"] = 0 /\ touch[b]["lock"] = 0
  BY GroupOnly DEF Init, Stages
<1>3. Settled(g) = act
  BY <1>2 DEF Settled, Act, backend_is_active
<1>4. act \in SUBSET Members(g)
  OBVIOUS
<1> HIDE DEF act
<1>5. Cardinality(act) \in Nat /\ Sum(g, act) \in Nat /\ Largest(act) \in Nat
  BY <1>4, CountType
<1>6. SettledAt(g)
  BY <1>1, <1>3, <1>5 DEF SettledAt
<1>7. LoneAt(g)
  BY <1>2 DEF LoneAt
<1> QED
  BY <1>6, <1>7

(* A group whose backends and counters a step leaves alone.                *)
LEMMA Untouched ==
  ASSUME SettledInv, NEW g \in G, max_pri'[g] = max_pri[g], act_num'[g] = act_num[g],
         sum_pri'[g] = sum_pri[g], g \in overtaken' <=> g \in overtaken,
         \A x \in Members(g) :
           /\ alive'[x] = alive[x] /\ disabled'[x] = disabled[x]
           /\ touch'[x]["alive"] = touch[x]["alive"] /\ touch'[x]["lock"] = touch[x]["lock"]
  PROVE  SettledAt(g)' /\ LoneAt(g)'
<1>1. SettledAt(g) /\ LoneAt(g)
  BY DEF SettledInv
<1>2. Settled(g)' = Settled(g)
  BY DEF Settled, Act, backend_is_active
<1>3. SettledAt(g)'
  <2> DEFINE T == Settled(g)'
  <2>1. /\ act_num[g] >= Cardinality(T) /\ sum_pri[g] >= Sum(g, T) /\ max_pri[g] >= Largest(T)
        /\ g \notin overtaken => act_num[g] = Cardinality(T) /\ sum_pri[g] = Sum(g, T)
                                 /\ max_pri[g] = Largest(T)
    BY <1>1, <1>2, Zenon DEF SettledAt
  <2> QED
    BY <2>1 DEF SettledAt
<1>4. LoneAt(g)'
  BY <1>1 DEF LoneAt
<1> QED
  BY <1>3, <1>4

(* What a step of a touch_be job does to the numbers of jobs.              *)
LEMMA StageExact ==
  ASSUME BackendType, NEW b \in Backends, NEW from \in Stages, NEW to \in Stages \cup {"end"},
         from # to, Stage(b, from, to)
  PROVE  /\ touch[b][from] > 0 /\ touch'[b][from] = touch[b][from] - 1
         /\ to \in Stages => touch'[b][to] = touch[b][to] + 1
         /\ \A s \in Stages : s # from /\ s # to => touch'[b][s] = touch[b][s]
         /\ \A d \in Backends : d # b => touch'[d] = touch[d]
<1> DEFINE new == [s \in Stages |-> CASE s = from -> touch[b][s] - 1
                                    [] s = to   -> touch[b][s] + 1
                                    [] OTHER    -> touch[b][s]]
<1>1. touch \in [Backends -> [Stages -> Nat]]
  BY DEF BackendType
<1>2. touch[b][from] > 0 /\ touch' = [touch EXCEPT ![b] = new]
  BY DEF Stage
<1>3. /\ new[from] = touch[b][from] - 1 /\ (to \in Stages => new[to] = touch[b][to] + 1)
      /\ \A s \in Stages : s # from /\ s # to => new[s] = touch[b][s]
  OBVIOUS
<1> HIDE DEF new
<1>4. touch'[b] = new
  BY <1>1, <1>2
<1> QED
  BY <1>1, <1>2, <1>3, <1>4

(* A recount: the counters are right, apart from touch_be jobs that will   *)
(* count all the same.                                                     *)
LEMMA RecountSettles ==
  ASSUME BalancerInv, SettledInv, NEW b \in Backends, Recount(b),
         \A x \in Backends :
           /\ x # b => alive'[x] = alive[x] /\ disabled'[x] = disabled[x]
           /\ touch'[x]["alive"] = touch[x]["alive"] /\ touch'[x]["lock"] = touch[x]["lock"]
  PROVE  SettledInv'
<1> SUFFICES ASSUME NEW g \in G PROVE SettledAt(g)' /\ LoneAt(g)'
  BY DEF SettledInv
<1>1. /\ touch \in [Backends -> [Stages -> Nat]] /\ overtaken \subseteq G
      /\ act_num \in [G -> Nat] /\ sum_pri \in [G -> Nat] /\ max_pri \in [G -> Nat]
  BY DEF BalancerInv, BackendType, CounterType, RoundType
<1>2. GroupOf(b) \in G /\ \A x \in Members(g) : x \in Backends /\ GroupOf(x) = g
  BY GroupKnown, GroupOnly
<1> DEFINE h == GroupOf(b)
           act == {x \in Members(h) : ~disabled'[x] /\ alive'[x]}
           late == \E x \in Members(h) : WillCount(x)
<1>3. /\ act_num' = [act_num EXCEPT ![h] = Cardinality(act)]
      /\ sum_pri' = [sum_pri EXCEPT ![h] = Sum(h, act)]
      /\ max_pri' = [max_pri EXCEPT ![h] = Largest(act)]
      /\ overtaken' = IF late THEN overtaken \cup {h} ELSE overtaken \ {h}
  BY DEF Recount
<1>4. CASE g # h
  <2>1. \A x \in Members(g) : x # b
    BY <1>2, <1>4
  <2>2. /\ act_num'[g] = act_num[g] /\ sum_pri'[g] = sum_pri[g] /\ max_pri'[g] = max_pri[g]
        /\ g \in overtaken' <=> g \in overtaken
    <3> HIDE DEF act, late, h
    <3> QED
      BY <1>1, <1>3, <1>4
  <2> QED
    BY <1>2, <2>1, <2>2, Untouched
<1>5. CASE g = h
  <2>1. act = Act(g)'
    BY <1>5 DEF Act, backend_is_active
  <2>2. Act(g)' \in SUBSET Members(g) /\ Settled(g)' \in SUBSET Act(g)'
    BY DEF Settled, Act
  <2>3. \A x \in Members(g) : touch[x]["alive"] \in Nat /\ touch[x]["lock"] \in Nat
    BY <1>1, <1>2 DEF Stages
  <2>4. g \notin overtaken' => Settled(g)' = Act(g)' /\ LoneAt(g)'
    <3> SUFFICES ASSUME g \notin overtaken' PROVE Settled(g)' = Act(g)' /\ LoneAt(g)'
      OBVIOUS
    <3>1. ~late
      <4> HIDE DEF act, late, h
      <4> QED
        BY <1>3, <1>5
    <3>2. \A x \in Members(g) :
            /\ touch'[x]["lock"] = 0
            /\ ~disabled'[x] => touch'[x]["alive"] = 0
      BY <1>2, <1>5, <2>3, <3>1 DEF WillCount
    <3>3. Settled(g)' = Act(g)'
      BY <3>2 DEF Settled, Act, backend_is_active
    <3>4. LoneAt(g)'
      BY <3>2 DEF LoneAt
    <3> QED
      BY <3>3, <3>4
  <2>5. /\ act_num'[g] = Cardinality(Act(g)') /\ sum_pri'[g] = Sum(g, Act(g)')
        /\ max_pri'[g] = Largest(Act(g)')
    <3> HIDE DEF act, late, h
    <3> QED
      BY <1>1, <1>2, <1>3, <1>5, <2>1 DEF h
  <2> DEFINE A == Act(g)'
             S == Settled(g)'
  <2>6. /\ Cardinality(A) \in Nat /\ Sum(g, A) \in Nat /\ Largest(A) \in Nat
        /\ Cardinality(S) \in Nat /\ Sum(g, S) \in Nat /\ Largest(S) \in Nat
        /\ Cardinality(S) =< Cardinality(A) /\ Sum(g, S) =< Sum(g, A)
        /\ Largest(S) =< Largest(A)
    <3> HIDE DEF A, S
    <3>1. A \in SUBSET Members(g) /\ S \in SUBSET A /\ S \in SUBSET Members(g)
      BY <2>2 DEF A, S
    <3> QED
      BY <3>1, CountType, CountsMore
  <2>7. SettledAt(g)'
    <3>1. /\ act_num'[g] >= Cardinality(S) /\ sum_pri'[g] >= Sum(g, S)
          /\ max_pri'[g] >= Largest(S)
      <4> HIDE DEF A, S
      <4>1. act_num'[g] = Cardinality(A) /\ sum_pri'[g] = Sum(g, A) /\ max_pri'[g] = Largest(A)
        BY <2>5 DEF A
      <4> QED
        BY <2>6, <4>1
    <3>2. g \notin overtaken' => act_num'[g] = Cardinality(S) /\ sum_pri'[g] = Sum(g, S)
                                 /\ max_pri'[g] = Largest(S)
      BY <2>4, <2>5, Zenon
    <3> QED
      BY <3>1, <3>2 DEF SettledAt
  <2>8. LoneAt(g)'
    BY <2>4 DEF LoneAt
  <2> QED
    BY <2>7, <2>8
<1> QED
  BY <1>4, <1>5

(* backend_probe makes the backend alive: it is not settled until counted. *)
LEMMA ProbeSettles ==
  ASSUME BalancerInv, SettledInv, NEW b \in Backends, ProbeSucceeds(b), NEW g \in G
  PROVE  SettledAt(g)' /\ LoneAt(g)'
<1>1. BackendType /\ overtaken \subseteq G /\ SettledAt(g) /\ LoneAt(g)
  BY DEF BalancerInv, CounterType, SettledInv
<1>2. /\ Stage(b, "probe", "alive") /\ alive' = [alive EXCEPT ![b] = TRUE]
      /\ overtaken' = IF alive[b] THEN overtaken \cup {GroupOf(b)} ELSE overtaken
      /\ UNCHANGED <<disabled, act_num, sum_pri, max_pri>>
  BY DEF ProbeSucceeds
<1>3. /\ touch'[b]["alive"] = touch[b]["alive"] + 1 /\ touch'[b]["lock"] = touch[b]["lock"]
      /\ \A d \in Backends : d # b => touch'[d] = touch[d]
  BY <1>1, <1>2, StageExact DEF Stages
<1>4. alive'[b] /\ \A d \in Backends : d # b => alive'[d] = alive[d]
  BY <1>1, <1>2 DEF BackendType
<1>5. \A x \in Members(g) : x \in Backends /\ GroupOf(x) = g
  BY GroupOnly
<1>6. CASE g # GroupOf(b)
  <2>1. \A x \in Members(g) : x # b
    BY <1>5, <1>6
  <2>2. g \in overtaken' <=> g \in overtaken
    BY <1>2, <1>6
  <2> QED
    BY <1>2, <1>3, <1>4, <1>5, <2>1, <2>2, Untouched
<1>7. CASE g = GroupOf(b)
  <2>1. touch[b]["alive"] \in Nat /\ touch[b]["lock"] \in Nat
    BY <1>1 DEF BackendType, Stages
  <2>2. b \notin Settled(g)'
    BY <1>3, <2>1 DEF Settled
  <2>3. \A x \in Members(g) : x # b => (x \in Settled(g)' <=> x \in Settled(g))
    BY <1>2, <1>3, <1>4, <1>5 DEF Settled, Act, backend_is_active
  <2>4. Settled(g)' \in SUBSET Members(g) /\ Settled(g) \in SUBSET Members(g)
    BY DEF Settled, Act
  <2>5. Settled(g)' \in SUBSET Settled(g)
    BY <2>2, <2>3, <2>4
  <2>6. g \notin overtaken' => ~alive[b] /\ g \notin overtaken
    BY <1>2, <1>7
  <2>7. g \notin overtaken' => Settled(g)' = Settled(g)
    <3>1. ~alive[b] => b \notin Settled(g)
      BY DEF Settled, Act, backend_is_active
    <3> QED
      BY <2>2, <2>3, <2>4, <2>6, <3>1
  <2> DEFINE S == Settled(g)
             T == Settled(g)'
  <2>8. SettledAt(g)'
    <3>1. /\ Cardinality(S) \in Nat /\ Sum(g, S) \in Nat /\ Largest(S) \in Nat
          /\ Cardinality(T) \in Nat /\ Sum(g, T) \in Nat /\ Largest(T) \in Nat
          /\ Cardinality(T) =< Cardinality(S) /\ Sum(g, T) =< Sum(g, S)
          /\ Largest(T) =< Largest(S)
      <4> HIDE DEF S, T
      <4>1. T \in SUBSET Members(g) /\ S \in SUBSET Members(g) /\ T \in SUBSET S
        BY <2>4, <2>5 DEF S, T
      <4> QED
        BY <4>1, CountType, CountsMore
    <3>2. act_num[g] \in Nat /\ sum_pri[g] \in Nat /\ max_pri[g] \in Nat
      BY DEF BalancerInv, CounterType, RoundType
    <3>3. act_num[g] >= Cardinality(S) /\ sum_pri[g] >= Sum(g, S) /\ max_pri[g] >= Largest(S)
      BY <1>1 DEF SettledAt
    <3>4. act_num[g] >= Cardinality(T) /\ sum_pri[g] >= Sum(g, T) /\ max_pri[g] >= Largest(T)
      <4> HIDE DEF S, T
      <4> QED
        BY <3>1, <3>2, <3>3
    <3>5. g \notin overtaken' => act_num[g] = Cardinality(T) /\ sum_pri[g] = Sum(g, T)
                                 /\ max_pri[g] = Largest(T)
      BY <1>1, <2>6, <2>7, Zenon DEF SettledAt
    <3> QED
      BY <1>2, <3>4, <3>5 DEF SettledAt
  <2>9. LoneAt(g)'
    <3> SUFFICES ASSUME g \notin overtaken', NEW x \in Members(g),
                        touch'[x]["lock"] > 0 \/ (touch'[x]["alive"] > 0 /\ ~disabled'[x])
                 PROVE  /\ alive'[x] /\ ~disabled'[x]
                        /\ touch'[x]["alive"] + touch'[x]["lock"] = 1
      BY DEF LoneAt
    <3>1. touch[x]["lock"] > 0 \/ (touch[x]["alive"] > 0 /\ ~disabled[x]) =>
            alive[x] /\ ~disabled[x] /\ touch[x]["alive"] + touch[x]["lock"] = 1
      BY <1>1, <2>6 DEF LoneAt
    <3>2. CASE x # b
      BY <1>2, <1>3, <1>4, <1>5, <3>1, <3>2
    <3>3. CASE x = b
      <4>1. ~alive[b]
        BY <2>6
      <4>2. touch[b]["lock"] = 0
        BY <2>1, <3>1, <3>3, <4>1
      <4>3. ~disabled[b] /\ touch[b]["alive"] = 0
        BY <1>2, <1>3, <2>1, <3>1, <3>3, <4>1, <4>2
      <4> QED
        BY <1>2, <1>3, <1>4, <3>3, <4>2, <4>3
    <3> QED
      BY <3>2, <3>3
  <2> QED
    BY <2>8, <2>9
<1> QED
  BY <1>6, <1>7

(* A touch_be that finds its backend disabled, or goes on to count it.     *)
LEMMA DisabledSettles ==
  ASSUME BalancerInv, SettledInv, NEW b \in Backends, TouchDisabled(b), NEW g \in G
  PROVE  SettledAt(g)' /\ LoneAt(g)'
<1> DEFINE to == IF disabled[b] THEN "end" ELSE "lock"
<1>1. BackendType /\ SettledAt(g) /\ LoneAt(g)
  BY DEF BalancerInv, SettledInv
<1>2. /\ Stage(b, "alive", to)
      /\ UNCHANGED <<alive, disabled, act_num, sum_pri, max_pri, overtaken>>
  BY DEF TouchDisabled, counters
<1>3. touch[b]["alive"] \in Nat /\ touch[b]["lock"] \in Nat
  BY <1>1 DEF BackendType, Stages
<1>4. "alive" \in Stages /\ to \in Stages \cup {"end"} /\ to # "alive"
  BY DEF Stages
<1>5. /\ touch[b]["alive"] > 0 /\ touch'[b]["alive"] = touch[b]["alive"] - 1
      /\ to \in Stages => touch'[b][to] = touch[b][to] + 1
      /\ \A s \in Stages : s # "alive" /\ s # to => touch'[b][s] = touch[b][s]
      /\ \A d \in Backends : d # b => touch'[d] = touch[d]
  <2> HIDE DEF to
  <2> QED
    BY <1>1, <1>2, <1>4, StageExact
<1>6. touch'[b]["lock"] = IF disabled[b] THEN touch[b]["lock"] ELSE touch[b]["lock"] + 1
  BY <1>5 DEF Stages
<1>7. \A x \in Members(g) : x \in Backends
  BY GroupOnly
<1>8. Settled(g)' = Settled(g)
  <2>1. \A x \in Members(g) : x \in Settled(g)' <=> x \in Settled(g)
    <3> SUFFICES ASSUME NEW x \in Members(g) PROVE x \in Settled(g)' <=> x \in Settled(g)
      OBVIOUS
    <3>1. CASE x # b
      BY <1>2, <1>5, <1>7, <3>1 DEF Settled, Act, backend_is_active
    <3>2. CASE x = b
      <4>1. b \notin Settled(g)
        BY <1>3, <1>5 DEF Settled
      <4>2. b \notin Settled(g)'
        BY <1>2, <1>3, <1>6 DEF Settled, Act, backend_is_active
      <4> QED
        BY <3>2, <4>1, <4>2
    <3> QED
      BY <3>1, <3>2
  <2>2. \A x \in Settled(g)' \cup Settled(g) : x \in Members(g)
    BY DEF Settled, Act
  <2> QED
    BY <2>1, <2>2
<1>9. SettledAt(g)'
  <2> DEFINE T == Settled(g)'
  <2>1. /\ act_num[g] >= Cardinality(T) /\ sum_pri[g] >= Sum(g, T) /\ max_pri[g] >= Largest(T)
        /\ g \notin overtaken => act_num[g] = Cardinality(T) /\ sum_pri[g] = Sum(g, T)
                                 /\ max_pri[g] = Largest(T)
    BY <1>1, <1>8, Zenon DEF SettledAt
  <2> QED
    BY <1>2, <2>1 DEF SettledAt
<1>10. LoneAt(g)'
  <2> SUFFICES ASSUME g \notin overtaken', NEW x \in Members(g),
                      touch'[x]["lock"] > 0 \/ (touch'[x]["alive"] > 0 /\ ~disabled'[x])
               PROVE  /\ alive'[x] /\ ~disabled'[x]
                      /\ touch'[x]["alive"] + touch'[x]["lock"] = 1
    BY DEF LoneAt
  <2>1. touch[x]["lock"] > 0 \/ (touch[x]["alive"] > 0 /\ ~disabled[x]) =>
          alive[x] /\ ~disabled[x] /\ touch[x]["alive"] + touch[x]["lock"] = 1
    BY <1>1, <1>2 DEF LoneAt
  <2>2. CASE x # b
    BY <1>2, <1>5, <1>7, <2>1, <2>2
  <2>3. CASE x = b
    BY <1>2, <1>3, <1>5, <1>6, <2>1, <2>3
  <2> QED
    BY <2>2, <2>3
<1> QED
  BY <1>9, <1>10

(* touch_be counts its backend, the one that was missing.                  *)
LEMMA CountSettles ==
  ASSUME BalancerInv, SettledInv, NEW b \in Backends, TouchCounts(b), NEW g \in G
  PROVE  SettledAt(g)' /\ LoneAt(g)'
<1> DEFINE h == GroupOf(b)
<1>1. BackendType /\ SettledAt(g) /\ LoneAt(g)
  BY DEF BalancerInv, SettledInv
<1>2. /\ Stage(b, "lock", "end") /\ UNCHANGED <<alive, disabled, overtaken>>
      /\ act_num' = [act_num EXCEPT ![h] = @ + 1]
      /\ sum_pri' = [sum_pri EXCEPT ![h] = @ + priority[b]]
      /\ max_pri' = [max_pri EXCEPT ![h] = Max({@, priority[b]})]
  BY DEF TouchCounts
<1>3. /\ touch[b]["lock"] > 0 /\ touch'[b]["lock"] = touch[b]["lock"] - 1
      /\ touch'[b]["alive"] = touch[b]["alive"]
      /\ \A d \in Backends : d # b => touch'[d] = touch[d]
  BY <1>1, <1>2, StageExact DEF Stages
<1>4. \A x \in Members(g) : x \in Backends /\ GroupOf(x) = g
  BY GroupOnly
<1>5. act_num \in [G -> Nat] /\ sum_pri \in [G -> Nat] /\ max_pri \in [G -> Nat] /\ h \in G
  BY GroupKnown DEF BalancerInv, CounterType, RoundType
<1>6. CASE g # h
  <2>1. \A x \in Members(g) : x # b
    BY <1>4, <1>6
  <2>2. act_num'[g] = act_num[g] /\ sum_pri'[g] = sum_pri[g] /\ max_pri'[g] = max_pri[g]
    <3> HIDE DEF h
    <3> QED
      BY <1>2, <1>5, <1>6
  <2> QED
    BY <1>2, <1>3, <1>4, <2>1, <2>2, Untouched
<1>7. CASE g = h
  <2>a. priority[b] \in Nat
    BY BalancerAssumption
  <2>1. touch[b]["alive"] \in Nat /\ touch[b]["lock"] \in Nat /\ priority[b] \in Nat
    BY <1>1, <2>a DEF BackendType, Stages
  <2>2. b \in Members(g) /\ b \notin Settled(g)
    BY <1>3, <1>7, <2>1, GroupMember DEF Settled
  <2>3. \A x \in Members(g) : x # b => (x \in Settled(g)' <=> x \in Settled(g))
    BY <1>2, <1>3, <1>4 DEF Settled, Act, backend_is_active
  <2>4. Settled(g)' \in SUBSET Members(g) /\ Settled(g) \in SUBSET Members(g)
    BY DEF Settled, Act
  <2> DEFINE S == Settled(g)
             T == Settled(g)'
  <2>5. T \in SUBSET (S \cup {b})
    BY <2>2, <2>3, <2>4
  <2>6. g \notin overtaken => T = S \cup {b}
    <3> SUFFICES ASSUME g \notin overtaken PROVE b \in T
      BY <2>2, <2>3, <2>4
    <3>1. alive[b] /\ ~disabled[b] /\ touch[b]["alive"] + touch[b]["lock"] = 1
      BY <1>1, <1>3, <2>2 DEF LoneAt
    <3>2. touch'[b]["alive"] = 0 /\ touch'[b]["lock"] = 0
      BY <1>3, <2>1, <3>1
    <3> QED
      BY <1>2, <2>2, <3>1, <3>2 DEF Settled, Act, backend_is_active
  <2>7. /\ act_num'[g] = act_num[g] + 1 /\ sum_pri'[g] = sum_pri[g] + priority[b]
        /\ max_pri'[g] = Max({max_pri[g], priority[b]})
    BY <1>2, <1>5, <1>7
  <2>8. /\ Max({max_pri[g], priority[b]}) \in {max_pri[g], priority[b]}
        /\ Max({max_pri[g], priority[b]}) >= max_pri[g]
        /\ Max({max_pri[g], priority[b]}) >= priority[b]
    <3>1. max_pri[g] \in Nat
      BY <1>5
    <3> QED
      BY <2>1, <3>1 DEF Max
  <2>9. SettledAt(g)'
    <3>1. /\ act_num[g] >= Cardinality(S) /\ sum_pri[g] >= Sum(g, S) /\ max_pri[g] >= Largest(S)
          /\ g \notin overtaken => act_num[g] = Cardinality(S) /\ sum_pri[g] = Sum(g, S)
                                   /\ max_pri[g] = Largest(S)
      BY <1>1 DEF SettledAt
    <3>2. S \in SUBSET Members(g) /\ T \in SUBSET Members(g) /\ b \in Members(g) /\ b \notin S
      BY <2>2, <2>4
    <3>3. act_num[g] \in Nat /\ sum_pri[g] \in Nat /\ max_pri[g] \in Nat
      BY <1>5
    <3> HIDE DEF S, T
    <3> DEFINE U == S \cup {b}
    <3>4. /\ Cardinality(U) = Cardinality(S) + 1 /\ Sum(g, U) = Sum(g, S) + priority[b]
          /\ Largest(U) \in {Largest(S), priority[b]}
          /\ Largest(U) >= Largest(S) /\ Largest(U) >= priority[b]
      BY <3>2, CountsOneMore
    <3>5. /\ Cardinality(S) \in Nat /\ Sum(g, S) \in Nat /\ Largest(S) \in Nat
          /\ Cardinality(T) \in Nat /\ Sum(g, T) \in Nat /\ Largest(T) \in Nat
          /\ Cardinality(U) \in Nat /\ Sum(g, U) \in Nat /\ Largest(U) \in Nat
      <4>1. U \in SUBSET Members(g)
        BY <3>2
      <4> HIDE DEF U
      <4> QED
        BY <3>2, <4>1, CountType
    <3>6. Cardinality(T) =< Cardinality(U) /\ Sum(g, T) =< Sum(g, U) /\ Largest(T) =< Largest(U)
      <4>1. U \in SUBSET Members(g) /\ T \in SUBSET U
        BY <2>5, <3>2
      <4> HIDE DEF U
      <4> QED
        BY <4>1, CountsMore
    <3>7. g \notin overtaken => T = U
      BY <2>6
    <3> HIDE DEF U
    <3>8. act_num'[g] >= Cardinality(T) /\ sum_pri'[g] >= Sum(g, T) /\ max_pri'[g] >= Largest(T)
      BY <2>1, <2>7, <2>8, <3>1, <3>3, <3>4, <3>5, <3>6
    <3>9. ASSUME g \notin overtaken
          PROVE  act_num'[g] = Cardinality(U) /\ sum_pri'[g] = Sum(g, U) /\ max_pri'[g] = Largest(U)
      BY <2>1, <2>7, <2>8, <3>1, <3>3, <3>4, <3>5, <3>9
    <3>10. g \notin overtaken => act_num'[g] = Cardinality(T) /\ sum_pri'[g] = Sum(g, T)
                                 /\ max_pri'[g] = Largest(T)
      BY <3>7, <3>9
    <3> QED
      BY <1>2, <3>8, <3>10 DEF SettledAt, T
  <2>10. LoneAt(g)'
    <3> SUFFICES ASSUME g \notin overtaken', NEW x \in Members(g),
                        touch'[x]["lock"] > 0 \/ (touch'[x]["alive"] > 0 /\ ~disabled'[x])
                 PROVE  /\ alive'[x] /\ ~disabled'[x]
                        /\ touch'[x]["alive"] + touch'[x]["lock"] = 1
      BY DEF LoneAt
    <3>1. touch[x]["lock"] > 0 \/ (touch[x]["alive"] > 0 /\ ~disabled[x]) =>
            alive[x] /\ ~disabled[x] /\ touch[x]["alive"] + touch[x]["lock"] = 1
      BY <1>1, <1>2 DEF LoneAt
    <3>2. CASE x # b
      BY <1>2, <1>3, <1>4, <3>1, <3>2
    <3>3. CASE x = b
      <4>1. touch[b]["alive"] + touch[b]["lock"] = 1
        BY <1>3, <3>1, <3>3
      <4>2. touch'[b]["alive"] = 0 /\ touch'[b]["lock"] = 0
        BY <1>3, <2>1, <4>1
      <4> QED
        BY <3>3, <4>2
    <3> QED
      BY <3>2, <3>3
  <2> QED
    BY <2>9, <2>10
<1> QED
  BY <1>6, <1>7

(* Steps that concern neither a backend's state nor the end of a touch_be. *)
LEMMA OtherSettles ==
  ASSUME SettledInv, UNCHANGED <<alive, disabled, act_num, sum_pri, max_pri, overtaken>>,
         \A x \in Backends : /\ touch'[x]["alive"] = touch[x]["alive"]
                             /\ touch'[x]["lock"] = touch[x]["lock"]
  PROVE  SettledInv'
<1> SUFFICES ASSUME NEW g \in G PROVE SettledAt(g)' /\ LoneAt(g)'
  BY DEF SettledInv
<1>1. \A x \in Members(g) : x \in Backends
  BY GroupOnly
<1> QED
  BY <1>1, Untouched

(* Every step keeps what the counters say of the settled backends.         *)
LEMMA StepSettled ==
  ASSUME BalancerInv, SettledInv, [Next]_vars
  PROVE  SettledInv'
<1>0. BackendType
  BY DEF BalancerInv
<1>1. CASE get_backend \/ SpinEnds
  <2>1. PICK o : Selected(o)
    BY <1>1 DEF get_backend, SpinEnds
  <2>2. UNCHANGED <<alive, disabled, act_num, sum_pri, max_pri, overtaken, touch>>
    BY <2>1 DEF Selected, counters
  <2> QED
    BY <2>2, OtherSettles
<1>2. ASSUME NEW b \in Backends, kill_be(b) PROVE SettledInv'
  <2>1. /\ alive' = [alive EXCEPT ![b] = FALSE] /\ UNCHANGED disabled
        /\ touch' = [touch EXCEPT ![b]["armed"] = @ + 1] /\ Recount(b)
    BY <1>2 DEF kill_be, Armed
  <2>2. \A x \in Backends :
          /\ x # b => alive'[x] = alive[x] /\ disabled'[x] = disabled[x]
          /\ touch'[x]["alive"] = touch[x]["alive"] /\ touch'[x]["lock"] = touch[x]["lock"]
    BY <1>0, <2>1 DEF BackendType, Stages
  <2> QED
    BY <2>1, <2>2, RecountSettles
<1>3. ASSUME NEW b \in Backends, NEW d \in BOOLEAN, backend_disable(b, d) PROVE SettledInv'
  <2>1. /\ disabled' = [disabled EXCEPT ![b] = d] /\ UNCHANGED <<alive, touch>> /\ Recount(b)
    BY <1>3 DEF backend_disable
  <2>2. \A x \in Backends : x # b => disabled'[x] = disabled[x]
    BY <1>0, <2>1 DEF BackendType
  <2> QED
    BY <2>1, <2>2, RecountSettles
<1>4. ASSUME NEW b \in Backends, TouchStart(b) \/ ProbeFails(b) PROVE SettledInv'
  <2>1. UNCHANGED <<alive, disabled, act_num, sum_pri, max_pri, overtaken>>
    BY <1>4 DEF TouchStart, ProbeFails, counters
  <2>2. \A x \in Backends : /\ touch'[x]["alive"] = touch[x]["alive"]
                            /\ touch'[x]["lock"] = touch[x]["lock"]
    <3>1. PICK from \in {"armed", "probe"}, to \in {"armed", "probe", "end"} :
            from # to /\ Stage(b, from, to)
      BY <1>4 DEF TouchStart, ProbeFails, Reschedule
    <3>2. from \in Stages /\ to \in Stages \cup {"end"}
      BY DEF Stages
    <3>3. /\ \A s \in Stages : s # from /\ s # to => touch'[b][s] = touch[b][s]
          /\ \A d \in Backends : d # b => touch'[d] = touch[d]
      BY <1>0, <3>1, <3>2, StageExact
    <3>4. touch'[b]["alive"] = touch[b]["alive"] /\ touch'[b]["lock"] = touch[b]["lock"]
      BY <3>3 DEF Stages
    <3> QED
      BY <3>3, <3>4
  <2> QED
    BY <2>1, <2>2, OtherSettles
<1>5. ASSUME NEW b \in Backends, ProbeSucceeds(b) PROVE SettledInv'
  BY <1>5, ProbeSettles DEF SettledInv
<1>6. ASSUME NEW b \in Backends, TouchDisabled(b) PROVE SettledInv'
  BY <1>6, DisabledSettles DEF SettledInv
<1>7. ASSUME NEW b \in Backends, TouchCounts(b) PROVE SettledInv'
  BY <1>7, CountSettles DEF SettledInv
<1>8. CASE UNCHANGED vars
  <2>1. UNCHANGED <<alive, disabled, act_num, sum_pri, max_pri, overtaken, touch>>
    BY <1>8 DEF vars
  <2> QED
    BY <2>1, OtherSettles
<1> QED
  BY <1>1, <1>2, <1>3, <1>4, <1>5, <1>6, <1>7, <1>8 DEF Next

-----------------------------------------------------------------------------

(* Shares of the backends.  First weighted random balancing.               *)

(* The running sum never falls.                                            *)
LEMMA SumGrows ==
  ASSUME NEW g \in G, NEW A, NEW i \in 0 .. Len(Groups[g]), NEW j \in 0 .. Len(Groups[g]), i =< j
  PROVE  SumTo(g, A)[i] =< SumTo(g, A)[j]
<1> DEFINE n == Len(Groups[g])
           f == SumTo(g, A)
           S == {k \in 0 .. n : i =< k => f[i] =< f[k]}
<1>1. Groups[g] \in Seq(Backends) /\ priority \in [Backends -> Nat \ {0}]
  BY BalancerAssumption DEF G
<1>2. n \in Nat /\ DOMAIN Groups[g] = 1 .. n
  BY <1>1
<1>3. \A k \in 0 .. n : f[k] \in Nat
  BY RunningSum
<1>4. \A k \in 1 .. n : f[k] >= f[k - 1]
  <2> SUFFICES ASSUME NEW k \in 1 .. n PROVE f[k] >= f[k - 1]
    OBVIOUS
  <2> DEFINE w == IF Groups[g][k] \in A THEN priority[Groups[g][k]] ELSE 0
  <2>1. f[k] = f[k - 1] + w
    BY <1>2, RunningSum
  <2>2. w \in Nat
    BY <1>1, <1>2
  <2>3. f[k - 1] \in Nat
    BY <1>2, <1>3
  <2> HIDE DEF f, w
  <2> QED
    BY <2>1, <2>2, <2>3
<1> HIDE DEF n, f
<1>5. 0 \in S
  BY <1>2, <1>3
<1>6. ASSUME NEW k \in 0 .. n - 1, k \in S PROVE k + 1 \in S
  <2>1. k + 1 \in 1 .. n /\ k \in 0 .. n /\ (k + 1) - 1 = k
    BY <1>2
  <2>2. f[k + 1] >= f[k] /\ f[k] \in Nat /\ f[k + 1] \in Nat /\ f[i] \in Nat
    BY <1>3, <1>4, <2>1 DEF n
  <2>3. CASE i = k + 1
    BY <1>2, <2>1, <2>2, <2>3
  <2>4. CASE i # k + 1
    <3>1. i =< k + 1 => i =< k
      BY <1>2, <2>4
    <3> QED
      BY <1>6, <2>1, <2>2, <3>1
  <2> QED
    BY <2>3, <2>4
<1> HIDE DEF S
<1>7. \A k \in 0 .. n : k \in S
  BY <1>2, <1>5, <1>6, InductUpTo
<1> QED
  BY <1>7 DEF S, n, f

(* rand_select takes the backend at position i for the numbers that the    *)
(* running sum passes there.                                               *)
LEMMA RandRange ==
  ASSUME NEW g \in G, NEW i \in DOMAIN Groups[g], backend_is_active(Groups[g][i]),
         NEW p \in Nat
  PROVE  rand_pick(g, p) = Groups[g][i] <=>
           SumTo(g, Act(g))[i - 1] =< p /\ p < SumTo(g, Act(g))[i]
<1> DEFINE n == Len(Groups[g])
           f == SumTo(g, Act(g))
           s == FirstBeyond(g, p)
<1>1. Groups[g] \in Seq(Backends) /\ None \notin Backends
  BY BalancerAssumption DEF G
<1>2. n \in Nat /\ DOMAIN Groups[g] = 1 .. n /\ Groups[g][i] \in Backends
  BY <1>1
<1>3. \A j \in 0 .. n : f[j] \in Nat
  BY RunningSum
<1>4. s = {j \in 1 .. n : backend_is_active(Groups[g][j]) /\ f[j] > p}
  BY <1>2 DEF FirstBeyond
<1>5. rand_pick(g, p) = IF s = {} THEN None ELSE Groups[g][Min(s)]
  BY DEF rand_pick
<1>6. \A j \in 1 .. n : \A k \in 1 .. n : j =< k => f[j] =< f[k]
  BY <1>2, SumGrows
<1>7. \A j \in 1 .. n : j < i => f[j] =< f[i - 1]
  <2> SUFFICES ASSUME NEW j \in 1 .. n, j < i PROVE f[j] =< f[i - 1]
    OBVIOUS
  <2>1. i - 1 \in 0 .. n /\ j \in 0 .. n /\ j =< i - 1
    BY <1>2
  <2> QED
    BY <2>1, SumGrows
<1>8. \A j \in 1 .. n : f[j] # f[j - 1] => backend_is_active(Groups[g][j])
  <2> SUFFICES ASSUME NEW j \in 1 .. n, ~backend_is_active(Groups[g][j]) PROVE f[j] = f[j - 1]
    OBVIOUS
  <2>1. Groups[g][j] \notin Act(g)
    BY DEF Act
  <2>2. f[j] = f[j - 1] + 0
    BY <1>2, <2>1, RunningSum
  <2>3. f[j - 1] \in Nat
    BY <1>2, <1>3
  <2> QED
    BY <2>2, <2>3
<1>9. f[0] = 0
  BY RunningSum
<1>10. \A j \in DOMAIN Groups[g] : Groups[g][j] = Groups[g][i] => j = i
  BY BalancerAssumption DEF G
<1> HIDE DEF n, f, s
<1>11. s \subseteq Nat /\ s \subseteq 1 .. n
  BY <1>4
<1>12. s # {} => Min(s) \in s /\ \A y \in s : Min(s) =< y
  BY <1>11, MinLeast
<1>13. i \in 1 .. n /\ i - 1 \in 0 .. n /\ f[i - 1] \in Nat /\ f[i] \in Nat
  BY <1>2, <1>3
<1>14. ASSUME f[i - 1] =< p, p < f[i] PROVE rand_pick(g, p) = Groups[g][i]
  <2>1. i \in s
    BY <1>4, <1>13, <1>14
  <2>2. \A j \in s : ~(j < i)
    BY <1>3, <1>4, <1>7, <1>13, <1>14
  <2>3. Min(s) \in s /\ Min(s) =< i /\ s # {}
    BY <1>12, <2>1
  <2>4. Min(s) = i
    <3>1. Min(s) \in Nat /\ ~(Min(s) < i)
      BY <1>11, <2>2, <2>3
    <3> QED
      BY <1>13, <2>3, <3>1
  <2> QED
    BY <1>5, <2>3, <2>4
<1>15. ASSUME rand_pick(g, p) = Groups[g][i] PROVE f[i - 1] =< p /\ p < f[i]
  <2>1. s # {} /\ Min(s) \in s /\ Groups[g][Min(s)] = Groups[g][i]
    BY <1>1, <1>2, <1>5, <1>12, <1>15
  <2>2. Min(s) = i
    BY <1>2, <1>10, <1>11, <2>1
  <2>3. p < f[i]
    BY <1>4, <1>13, <2>1, <2>2
  <2>4. ASSUME f[i - 1] > p PROVE FALSE
    <3> DEFINE T == {j \in 0 .. n : f[j] > p}
    <3>1. i - 1 \in T /\ T \subseteq Nat
      BY <1>13, <2>4
    <3> HIDE DEF T
    <3>2. PICK j \in T : \A y \in T : j =< y
      BY <3>1, LeastNumber
    <3>3. j \in 0 .. n /\ f[j] > p /\ j =< i - 1
      BY <3>1, <3>2 DEF T
    <3>4. j # 0 /\ j \in 1 .. n /\ j - 1 \in 0 .. n /\ j - 1 < j
      BY <1>2, <1>9, <3>3
    <3>5. j - 1 \notin T
      BY <3>2, <3>4
    <3>6. ~(f[j - 1] > p)
      BY <3>4, <3>5 DEF T
    <3>7. backend_is_active(Groups[g][j])
      BY <1>8, <3>3, <3>4, <3>6
    <3>8. j \in s
      BY <1>4, <3>3, <3>4, <3>7
    <3>9. i =< j
      BY <1>12, <2>1, <2>2, <3>8
    <3> QED
      BY <1>13, <3>3, <3>4, <3>9
  <2> QED
    BY <1>13, <2>3, <2>4
<1> QED
  BY <1>14, <1>15 DEF f

(* So it takes every active backend for as many random numbers as its      *)
(* priority.                                                               *)
LEMMA RandShare == RandProportional
<1> SUFFICES ASSUME NEW g \in G, Match(g), NEW b \in Act(g)
             PROVE  Cardinality({p \in Randoms(g) : rand_pick(g, p) = b}) = priority[b]
  BY DEF RandProportional
<1> DEFINE n == Len(Groups[g])
           f == SumTo(g, Act(g))
<1>1. Groups[g] \in Seq(Backends) /\ priority \in [Backends -> Nat \ {0}]
  BY BalancerAssumption DEF G
<1>2. n \in Nat /\ DOMAIN Groups[g] = 1 .. n
  BY <1>1
<1>3. PICK i \in DOMAIN Groups[g] : Groups[g][i] = b
  BY DEF Act, Members
<1>4. backend_is_active(Groups[g][i])
  BY <1>3 DEF Act
<1>5. i \in 1 .. n /\ i \in 0 .. n /\ i - 1 \in 0 .. n /\ n \in 0 .. n /\ i =< n
  BY <1>2
<1>6. f[i] = f[i - 1] + priority[b] /\ f[i] \in Nat /\ f[i - 1] \in Nat /\ f[n] \in Nat
  BY <1>3, <1>5, RunningSum
<1>7. f[i] =< f[n]
  BY <1>5, SumGrows
<1>8. sum_pri[g] = f[n]
  BY DEF Match, Sum
<1>9. priority[b] \in Nat \ {0}
  BY <1>1, <1>3
<1>10. \A p \in Nat : rand_pick(g, p) = b <=> f[i - 1] =< p /\ p < f[i]
  BY <1>3, <1>4, RandRange
<1> HIDE DEF n, f
<1>11. Max({f[n], 1}) = f[n]
  <2>1. f[n] >= 1
    BY <1>6, <1>7, <1>9
  <2> QED
    BY <1>6, <2>1 DEF Max
<1>12. Randoms(g) = 0 .. f[n] - 1
  BY <1>8, <1>11 DEF Randoms
<1>13. {p \in Randoms(g) : rand_pick(g, p) = b} = f[i - 1] .. f[i] - 1
  BY <1>6, <1>7, <1>9, <1>10, <1>12
<1>14. Cardinality(f[i - 1] .. f[i] - 1) = priority[b]
  <2>1. f[i - 1] \in Int /\ f[i] - 1 \in Int /\ ~(f[i - 1] > f[i] - 1)
    BY <1>6, <1>9
  <2>2. Cardinality(f[i - 1] .. f[i] - 1) = (f[i] - 1) - f[i - 1] + 1
    BY <2>1, FS_Interval
  <2> QED
    BY <1>6, <1>9, <2>2
<1> QED
  BY <1>13, <1>14

-----------------------------------------------------------------------------

(* Interleaved weighted round robin.  Some arithmetic first.               *)

(* Remainders of sums.                                                     *)
LEMMA ModSum ==
  ASSUME NEW K \in Nat \ {0}, NEW a \in Nat, NEW b \in Nat
  PROVE  ((a % K) + b) % K = (a + b) % K
<1> DEFINE u == a \div K
           v == a % K
           y == v + b
           s == y \div K
           t == y % K
<1>1. v \in 0 .. K - 1 /\ u \in Nat /\ a = (u * K) + v
  BY DivisionType
<1> HIDE DEF u, v
<1>2. y \in Nat
  BY <1>1
<1> HIDE DEF y
<1>3. t \in 0 .. K - 1 /\ s \in Nat /\ y = (s * K) + t
  BY <1>2, DivisionType
<1>t. y % K = t
  OBVIOUS
<1> HIDE DEF s, t
<1>4. a + b = ((u + s) * K) + t /\ u + s \in Nat
  <2>1. y = v + b
    BY DEF y
  <2>2. (u + s) * K = (u * K) + (s * K) /\ u * K \in Nat /\ s * K \in Nat
    BY <1>1, <1>3
  <2> QED
    BY <1>1, <1>3, <2>1, <2>2
<1>5. (((u + s) * K) + t) % K = t
  BY <1>3, <1>4, Division
<1>6. (a + b) % K = t
  BY <1>4, <1>5
<1> QED
  BY <1>t, <1>6 DEF y, v

(* Among the K numbers from a on there is one for each remainder.          *)
HasResidue(K, r, a, t) == \E q \in a .. a + K - 1 : (r + q) % K = t

(* Found by the quotient of r + a.                                         *)
LEMMA ResidueFound ==
  ASSUME NEW K \in Nat \ {0}, NEW r \in Nat, NEW a \in Nat, NEW t \in 0 .. K - 1
  PROVE  HasResidue(K, r, a, t)
<1> DEFINE x == r + a
           u == x \div K
           v == x % K
<1>1. x \in Nat
  OBVIOUS
<1>x. x = r + a
  OBVIOUS
<1> HIDE DEF x
<1>2. v \in 0 .. K - 1 /\ u \in Nat /\ x = (u * K) + v
  BY <1>1, DivisionType
<1> HIDE DEF u, v
<1>3. CASE t >= v
  <2> DEFINE q == a + (t - v)
  <2>1. q \in a .. a + K - 1 /\ r + q = (u * K) + t
    <3>1. u * K \in Nat
      BY <1>2
    <3> QED
      BY <1>2, <1>3, <1>x, <3>1
  <2>2. ((u * K) + t) % K = t
    BY <1>2, Division
  <2> HIDE DEF q
  <2> QED
    BY <2>1, <2>2 DEF HasResidue
<1>4. CASE t < v
  <2> DEFINE q == a + ((K + t) - v)
  <2>1. q \in a .. a + K - 1 /\ r + q = ((u + 1) * K) + t
    <3>1. u * K \in Nat /\ (u + 1) * K = (u * K) + K
      BY <1>2
    <3> QED
      BY <1>2, <1>4, <1>x, <3>1
  <2>2. u + 1 \in Nat
    BY <1>2
  <2>3. (((u + 1) * K) + t) % K = t
    BY <2>2, Division
  <2> HIDE DEF q
  <2> QED
    BY <2>1, <2>3 DEF HasResidue
<1> QED
  BY <1>2, <1>3, <1>4

(* And only one.                                                           *)
LEMMA ResidueOnce ==
  ASSUME NEW K \in Nat \ {0}, NEW r \in Nat, NEW a \in Nat,
         NEW q \in a .. a + K - 1, NEW p \in a .. a + K - 1, (r + q) % K = (r + p) % K
  PROVE  q = p
<1> DEFINE x == r + q
           y == r + p
           u == x \div K
           s == y \div K
           v == x % K
           t == y % K
<1>1. x \in Nat /\ y \in Nat /\ x - y = q - p
  OBVIOUS
<1>v. v = t
  OBVIOUS
<1> HIDE DEF x, y
<1>2. v \in 0 .. K - 1 /\ u \in Nat /\ x = (u * K) + v
  BY <1>1, DivisionType
<1>3. t \in 0 .. K - 1 /\ s \in Nat /\ y = (s * K) + t
  BY <1>1, DivisionType
<1> HIDE DEF u, s, v, t
<1>4. x - y = (u - s) * K
  <2>1. (u - s) * K = (u * K) - (s * K) /\ u * K \in Nat /\ s * K \in Nat
    BY <1>2, <1>3
  <2> QED
    BY <1>v, <1>2, <1>3, <2>1
<1>5. q - p < K /\ p - q < K
  OBVIOUS
<1> DEFINE d == u - s
<1>6. d \in Int /\ d * K = q - p
  BY <1>1, <1>2, <1>3, <1>4
<1> HIDE DEF d
<1>7. ~(d >= 1)
  <2>1. d >= 1 => (d - 1) * K \in Nat /\ d * K = ((d - 1) * K) + K
    BY <1>6
  <2> QED
    BY <1>5, <1>6, <2>1
<1>8. ~(d =< -1)
  <2> DEFINE e == -d
  <2>1. e \in Int /\ e * K = p - q /\ (d =< -1 => e >= 1)
    BY <1>6
  <2> HIDE DEF e
  <2>2. e >= 1 => (e - 1) * K \in Nat /\ e * K = ((e - 1) * K) + K
    BY <2>1
  <2> QED
    BY <1>5, <1>6, <2>1, <2>2
<1>9. d = 0
  BY <1>6, <1>7, <1>8
<1> QED
  BY <1>6, <1>9

(* The k-th backend that iwrr_select looks at is the one at position i,    *)
(* after going back q times to the head of the list.                       *)
Looks(g, c, r, k, q, i) ==
  /\ q \in Nat /\ i \in 1 .. Len(Groups[g])
  /\ c - 1 + k = (q * Len(Groups[g])) + (i - 1) /\ PosAt(g, c, k) = i
  /\ RoundAt(g, c, r, k) = IF q = 0 THEN r ELSE (r + q) % (max_pri[g] + 1)

(* It is at some position.                                                 *)
LEMMA LookedAt ==
  ASSUME NEW g \in G, NEW c \in Nat \ {0}, NEW r, NEW k \in Nat
  PROVE  \E q, i : Looks(g, c, r, k, q, i)
<1> DEFINE n == Len(Groups[g])
           x == c - 1 + k
           q == x \div n
           j == x % n
<1>1. Groups[g] \in Seq(Backends) /\ Groups[g] # <<>>
  BY BalancerAssumption DEF G
<1>2. n \in Nat \ {0} /\ DOMAIN Groups[g] = 1 .. n /\ x \in Nat
  BY <1>1
<1>3. /\ PosAt(g, c, k) = j + 1
      /\ RoundAt(g, c, r, k) = IF q = 0 THEN r ELSE (r + q) % (max_pri[g] + 1)
  BY DEF PosAt, RoundAt
<1> HIDE DEF n, x
<1>4. j \in 0 .. n - 1 /\ q \in Nat /\ x = (q * n) + j
  BY <1>2, DivisionType
<1> HIDE DEF q, j
<1>5. j + 1 \in 1 .. n /\ (j + 1) - 1 = j
  BY <1>2, <1>4
<1>6. Looks(g, c, r, k, q, j + 1)
  BY <1>3, <1>4, <1>5 DEF n, x, Looks
<1> QED
  BY <1>6

(* And at the one that division gives.                                     *)
LEMMA LookedAtOnly ==
  ASSUME NEW g \in G, NEW c \in Nat \ {0}, NEW r, NEW k \in Nat,
         NEW q \in Nat, NEW i \in 1 .. Len(Groups[g]), c - 1 + k = (q * Len(Groups[g])) + (i - 1)
  PROVE  Looks(g, c, r, k, q, i)
<1> DEFINE n == Len(Groups[g])
           x == c - 1 + k
           j == i - 1
<1>1. Groups[g] \in Seq(Backends) /\ Groups[g] # <<>>
  BY BalancerAssumption DEF G
<1>2. n \in Nat \ {0}
  BY <1>1
<1>3. j \in 0 .. n - 1 /\ j + 1 = i
  BY <1>2
<1>4. x = (q * n) + j
  OBVIOUS
<1>5. PosAt(g, c, k) = (x % n) + 1
  BY DEF PosAt
<1>6. RoundAt(g, c, r, k) = IF x \div n = 0 THEN r ELSE (r + (x \div n)) % (max_pri[g] + 1)
  BY DEF RoundAt
<1> HIDE DEF n, x, j
<1>7. x % n = j /\ x \div n = q
  BY <1>2, <1>3, <1>4, Division
<1> QED
  BY <1>3, <1>4, <1>5, <1>6, <1>7 DEF Looks, n, x, j

(* Going on for k backends from where j backends have led to.              *)
Continues(g, c, r, j, k) ==
  /\ PosAt(g, PosAt(g, c, j), k) = PosAt(g, c, j + k)
  /\ RoundAt(g, PosAt(g, c, j), RoundAt(g, c, r, j), k) = RoundAt(g, c, r, j + k)

(* A search that goes on where an earlier one has stopped is one search.   *)
LEMMA GoesOn ==
  ASSUME NEW g \in G, NEW c \in DOMAIN Groups[g], NEW r \in Nat, max_pri[g] \in Nat,
         NEW j \in Nat, NEW k \in Nat
  PROVE  Continues(g, c, r, j, k)
<1> DEFINE n == Len(Groups[g])
           K == max_pri[g] + 1
           d == PosAt(g, c, j)
           e == RoundAt(g, c, r, j)
<1>1. Groups[g] \in Seq(Backends) /\ Groups[g] # <<>>
  BY BalancerAssumption DEF G
<1>2. n \in Nat \ {0} /\ K \in Nat \ {0} /\ c \in Nat \ {0}
  BY <1>1
<1>3. PICK q, i : Looks(g, c, r, j, q, i)
  BY <1>2, LookedAt
<1>4. /\ q \in Nat /\ i \in 1 .. n /\ c - 1 + j = (q * n) + (i - 1)
      /\ d = i /\ e = IF q = 0 THEN r ELSE (r + q) % K
  BY <1>3 DEF Looks
<1>5. d \in Nat \ {0}
  BY <1>2, <1>4
<1> HIDE DEF d, e
<1>6. PICK p, h : Looks(g, d, e, k, p, h)
  BY <1>5, LookedAt
<1>7. /\ p \in Nat /\ h \in 1 .. n /\ d - 1 + k = (p * n) + (h - 1) /\ PosAt(g, d, k) = h
      /\ RoundAt(g, d, e, k) = IF p = 0 THEN e ELSE (e + p) % K
  BY <1>6 DEF Looks
<1> HIDE DEF n, K
<1>8. c - 1 + (j + k) = ((q + p) * n) + (h - 1)
  <2>1. (q + p) * n = (q * n) + (p * n) /\ q * n \in Nat /\ p * n \in Nat
    BY <1>2, <1>4, <1>7
  <2>2. \A a, b \in Nat : c - 1 + j = a + (i - 1) /\ i - 1 + k = b + (h - 1) =>
                           c - 1 + (j + k) = (a + b) + (h - 1)
    BY <1>2, <1>4, <1>7
  <2>3. i - 1 + k = (p * n) + (h - 1)
    BY <1>4, <1>7
  <2> HIDE DEF Looks
  <2> QED
    BY <1>4, <2>1, <2>2, <2>3
<1>9. Looks(g, c, r, j + k, q + p, h)
  <2>1. j + k \in Nat /\ q + p \in Nat
    BY <1>4, <1>7
  <2> QED
    BY <1>2, <1>7, <1>8, <2>1, LookedAtOnly DEF n
<1>10. /\ PosAt(g, c, j + k) = h
       /\ RoundAt(g, c, r, j + k) = IF q + p = 0 THEN r ELSE (r + (q + p)) % K
  BY <1>9 DEF Looks, K
<1>11. RoundAt(g, c, r, j + k) = IF p = 0 THEN e ELSE (e + p) % K
  <2>1. CASE p = 0
    BY <1>4, <1>10, <2>1
  <2>2. CASE p # 0 /\ q = 0
    BY <1>4, <1>7, <1>10, <2>2
  <2>3. CASE p # 0 /\ q # 0
    <3>1. r + q \in Nat
      BY <1>4
    <3>2. (((r + q) % K) + p) % K = ((r + q) + p) % K
      BY <1>2, <1>7, <3>1, ModSum
    <3>3. (r + q) + p = r + (q + p) /\ q + p # 0
      BY <1>4, <1>7, <2>3
    <3> QED
      BY <1>4, <1>10, <2>3, <3>2, <3>3
  <2> QED
    BY <2>1, <2>2, <2>3
<1> QED
  BY <1>7, <1>10, <1>11 DEF d, e, Continues

(* Products keep the order.                                                *)
LEMMA ProductOrder ==
  ASSUME NEW n \in Nat \ {0}, NEW a \in Nat, NEW b \in Nat
  PROVE  /\ a * n \in Nat
         /\ a =< b <=> a * n =< b * n
         /\ a < b <=> a * n < b * n
<1>0. a * n \in Nat /\ b * n \in Nat
  OBVIOUS
<1>1. a =< b => a * n =< b * n
  <2>1. a =< b => b * n = (a * n) + ((b - a) * n) /\ (b - a) * n \in Nat
    OBVIOUS
  <2> QED
    BY <1>0, <2>1
<1>2. b < a => b * n < a * n
  <2>1. b < a => a * n = (b * n) + ((a - b) * n) /\ (a - b) * n = n + ((a - b - 1) * n)
                 /\ (a - b - 1) * n \in Nat
    OBVIOUS
  <2> QED
    BY <1>0, <2>1
<1>3. b =< a => b * n =< a * n
  <2>1. b =< a => a * n = (b * n) + ((a - b) * n) /\ (a - b) * n \in Nat
    OBVIOUS
  <2> QED
    BY <1>0, <2>1
<1>4. a < b => a * n < b * n
  <2>1. a < b => b * n = (a * n) + ((b - a) * n) /\ (b - a) * n = n + ((b - a - 1) * n)
                 /\ (b - a - 1) * n \in Nat
    OBVIOUS
  <2> QED
    BY <1>0, <2>1
<1> QED
  BY <1>0, <1>1, <1>2, <1>3, <1>4

(* The number of backends that iwrr_select looks at, from position c in    *)
(* round r, until every round has been used once for every position.  A    *)
(* round that is left from a higher max_pri takes nobody.                  *)
Window(g, c, r) ==
  IF r =< max_pri[g] THEN (max_pri[g] + 1) * Len(Groups[g])
  ELSE ((max_pri[g] + 2) * Len(Groups[g])) - (c - 1)
FirstPass(g, c, r, i) == IF r > max_pri[g] \/ i < c THEN 1 ELSE 0

(* A position is looked at once in every round of the window.              *)
LEMMA WindowPasses ==
  ASSUME NEW g \in G, NEW c \in 1 .. Len(Groups[g]), NEW r \in Nat, max_pri[g] \in Nat,
         NEW k \in Nat, NEW q, NEW i, Looks(g, c, r, k, q, i)
  PROVE  LET a == FirstPass(g, c, r, i)
             m == max_pri[g]
         IN  /\ q \in a .. a + m => k < Window(g, c, r) /\ RoundAt(g, c, r, k) = (r + q) % (m + 1)
             /\ k < Window(g, c, r) /\ RoundAt(g, c, r, k) =< m => q \in a .. a + m
<1> DEFINE n == Len(Groups[g])
           m == max_pri[g]
           a == FirstPass(g, c, r, i)
           N == Window(g, c, r)
           R == RoundAt(g, c, r, k)
<1>1. Groups[g] \in Seq(Backends) /\ Groups[g] # <<>>
  BY BalancerAssumption DEF G
<1>2. n \in Nat \ {0} /\ m \in Nat /\ c \in 1 .. n
  BY <1>1
<1>3. /\ q \in Nat /\ i \in 1 .. n /\ c - 1 + k = (q * n) + (i - 1)
      /\ R = IF q = 0 THEN r ELSE (r + q) % (m + 1)
  BY DEF Looks
<1>4. N = IF r =< m THEN (m + 1) * n ELSE ((m + 2) * n) - (c - 1)
  BY DEF Window
<1>5. a = IF r > m \/ i < c THEN 1 ELSE 0
  BY DEF FirstPass
<1> HIDE DEF n, m, a, N, R
<1>6. /\ q * n \in Nat /\ m * n \in Nat /\ (m + 1) * n = (m * n) + n
      /\ (m + 2) * n = (m * n) + n + n
  BY <1>2, <1>3, ProductOrder
<1>7. (q =< m <=> q * n =< m * n) /\ (q =< m + 1 <=> q * n =< (m + 1) * n)
  <2>1. m + 1 \in Nat
    BY <1>2
  <2> QED
    BY <1>2, <1>3, <2>1, ProductOrder
<1>8. (q < m + 1 <=> q * n < (m + 1) * n) /\ (q < m + 2 <=> q * n < (m + 2) * n)
  <2>1. m + 1 \in Nat /\ m + 2 \in Nat
    BY <1>2
  <2> QED
    BY <1>2, <1>3, <2>1, ProductOrder
<1>9. q = 0 => q * n = 0
  BY <1>2
<1> DEFINE x == q * n
           y == m * n
<1>10. /\ x \in Nat /\ y \in Nat /\ (q = 0 => x = 0) /\ c - 1 + k = x + (i - 1)
       /\ N = IF r =< m THEN y + n ELSE (y + n + n) - (c - 1)
       /\ (q =< m <=> x =< y) /\ (q =< m + 1 <=> x =< y + n)
       /\ (q < m + 1 <=> x < y + n) /\ (q < m + 2 <=> x < y + n + n)
  BY <1>3, <1>4, <1>6, <1>7, <1>8, <1>9
<1> HIDE DEF x, y
<1>11. ASSUME q \in a .. a + m PROVE k < N /\ R = (r + q) % (m + 1)
  <2>1. k < N
    BY <1>2, <1>3, <1>5, <1>10, <1>11
  <2>2. CASE q # 0
    BY <1>3, <2>1, <2>2
  <2>3. CASE q = 0
    <3>1. r =< m /\ r + q = r
      BY <1>2, <1>3, <1>5, <1>11, <2>3
    <3>2. r % (m + 1) = r
      <4> DEFINE K == m + 1
      <4>1. K \in Nat \ {0} /\ r \in 0 .. K - 1 /\ 0 \in Nat /\ (0 * K) + r = r
        BY <1>2, <3>1
      <4> HIDE DEF K
      <4>2. ((0 * K) + r) % K = r
        BY <4>1, Division
      <4> QED
        BY <4>1, <4>2 DEF K
    <3> QED
      BY <1>3, <2>1, <2>3, <3>1, <3>2
  <2> QED
    BY <2>2, <2>3
<1>12. ASSUME k < N, R =< m PROVE q \in a .. a + m
  <2>1. q >= a
    BY <1>2, <1>3, <1>5, <1>10, <1>12
  <2>2. CASE r > m \/ i < c
    BY <1>2, <1>3, <1>5, <1>10, <1>12, <2>1, <2>2
  <2>3. CASE ~(r > m \/ i < c)
    BY <1>2, <1>3, <1>5, <1>10, <1>12, <2>1, <2>3
  <2> QED
    BY <2>2, <2>3
<1> QED
  BY <1>11, <1>12 DEF a, m, N, R

(* A one-to-one correspondence with a finite set.                          *)
LEMMA OneToOne ==
  ASSUME NEW S, NEW T, IsFiniteSet(T), NEW f \in [S -> T],
         \A x, y \in S : f[x] = f[y] => x = y, \A t \in T : \E x \in S : f[x] = t
  PROVE  IsFiniteSet(S) /\ Cardinality(S) = Cardinality(T)
<1>1. f \in Injection(S, T)
  BY DEF Injection, IsInjective
<1>2. f \in Surjection(S, T)
  BY Zenon DEF Surjection
<1> QED
  BY <1>1, <1>2, FS_Injection

(* The backends looked at in the window, and those of them taken.          *)
Taken(g, c, r, K) == {k \in 0 .. K - 1 : Takes(g, c, r, k)}
TakenAt(g, c, r, i) == {k \in Taken(g, c, r, Window(g, c, r)) : PosAt(g, c, k) = i}

(* In the window an active backend is taken as many times as its priority: *)
(* once in each round below it.                                            *)
LEMMA TakenShare ==
  ASSUME NEW g \in G, NEW c \in 1 .. Len(Groups[g]), NEW r \in Nat, max_pri[g] \in Nat,
         NEW i \in 1 .. Len(Groups[g]), backend_is_active(Groups[g][i]),
         priority[Groups[g][i]] =< max_pri[g]
  PROVE  /\ IsFiniteSet(TakenAt(g, c, r, i))
         /\ Cardinality(TakenAt(g, c, r, i)) = priority[Groups[g][i]]
<1> DEFINE n == Len(Groups[g])
           m == max_pri[g]
           a == FirstPass(g, c, r, i)
           N == Window(g, c, r)
           T == TakenAt(g, c, r, i)
           w == priority[Groups[g][i]]
           f == [k \in T |-> RoundAt(g, c, r, k)]
<1>1. /\ Groups[g] \in Seq(Backends) /\ Groups[g] # <<>>
      /\ priority \in [Backends -> Nat \ {0}]
  BY BalancerAssumption DEF G
<1>2. /\ n \in Nat \ {0} /\ m \in Nat /\ w \in Nat \ {0} /\ w =< m /\ m + 1 \in Nat \ {0}
      /\ c \in 1 .. n /\ i \in 1 .. n /\ c \in Nat \ {0}
  <2>1. n \in Nat \ {0} /\ DOMAIN Groups[g] = 1 .. n
    BY <1>1
  <2>2. Groups[g][i] \in Backends
    BY <1>1, <2>1
  <2>3. w \in Nat \ {0}
    BY <1>1, <2>2
  <2> HIDE DEF w
  <2>4. w =< m
    BY DEF w
  <2> QED
    BY <2>1, <2>3, <2>4
<1>3. a \in {0, 1}
  BY DEF FirstPass
<1>N. N \in Int
  <2>1. N = IF r =< m THEN (m + 1) * n ELSE ((m + 2) * n) - (c - 1)
    BY DEF Window
  <2> HIDE DEF n, m, N
  <2>2. (m + 1) * n \in Nat /\ (m + 2) * n \in Nat
    BY <1>2
  <2> QED
    BY <1>2, <2>1, <2>2
<1>4. \A k \in T : /\ k \in Nat /\ k < N /\ PosAt(g, c, k) = i
                   /\ RoundAt(g, c, r, k) < w
  <2> SUFFICES ASSUME NEW k \in T
               PROVE  k \in Nat /\ k < N /\ PosAt(g, c, k) = i /\ RoundAt(g, c, r, k) < w
    OBVIOUS
  <2>1. k \in 0 .. N - 1 /\ Takes(g, c, r, k) /\ PosAt(g, c, k) = i
    BY DEF TakenAt, Taken
  <2> HIDE DEF N
  <2> QED
    BY <1>N, <2>1 DEF Takes
<1>5. \A k \in Nat : k < N /\ Takes(g, c, r, k) /\ PosAt(g, c, k) = i => k \in T
  <2>1. T = {k \in 0 .. N - 1 : Takes(g, c, r, k) /\ PosAt(g, c, k) = i}
    BY DEF TakenAt, Taken
  <2> HIDE DEF N, T
  <2> QED
    BY <1>N, <2>1
<1> HIDE DEF n, T
<1>6. ASSUME NEW k \in T
      PROVE  \E q \in a .. a + m : /\ Looks(g, c, r, k, q, i)
                                   /\ RoundAt(g, c, r, k) = (r + q) % (m + 1)
  <2>1. k \in Nat /\ k < N /\ PosAt(g, c, k) = i /\ RoundAt(g, c, r, k) < w
    BY <1>4
  <2>2. PICK q, j : Looks(g, c, r, k, q, j)
    BY <1>2, <2>1, LookedAt
  <2>3. j = i
    BY <2>1, <2>2 DEF Looks
  <2>4. RoundAt(g, c, r, k) \in Nat
    BY <1>2, <2>1, PositionInList
  <2>5. RoundAt(g, c, r, k) =< m
    BY <1>2, <2>1, <2>4
  <2>6. /\ q \in a .. a + m => RoundAt(g, c, r, k) = (r + q) % (m + 1)
        /\ k < N /\ RoundAt(g, c, r, k) =< m => q \in a .. a + m
    BY <1>2, <2>1, <2>2, <2>3, WindowPasses DEF n
  <2> HIDE DEF a, m, N
  <2>7. q \in a .. a + m /\ RoundAt(g, c, r, k) = (r + q) % (m + 1)
    BY <2>1, <2>5, <2>6
  <2> QED
    BY <2>2, <2>3, <2>7
<1> HIDE DEF a, m, N, w
<1>7. f \in [T -> 0 .. w - 1]
  <2>1. ASSUME NEW k \in T PROVE RoundAt(g, c, r, k) \in Nat
    <3>1. k \in Nat /\ c \in Nat \ {0}
      BY <1>4, <1>6
    <3> QED
      BY <3>1, PositionInList
  <2>2. \A k \in T : RoundAt(g, c, r, k) \in 0 .. w - 1
    BY <1>2, <1>4, <2>1
  <2> QED
    BY <2>2
<1>8. ASSUME NEW k \in T, NEW l \in T, f[k] = f[l] PROVE k = l
  <2>1. PICK q \in a .. a + m : Looks(g, c, r, k, q, i) /\ RoundAt(g, c, r, k) = (r + q) % (m + 1)
    BY <1>6
  <2>2. PICK p \in a .. a + m : Looks(g, c, r, l, p, i) /\ RoundAt(g, c, r, l) = (r + p) % (m + 1)
    BY <1>6
  <2>3. (r + q) % (m + 1) = (r + p) % (m + 1)
    BY <1>8, <2>1, <2>2
  <2>4. a \in Nat /\ a + m = a + (m + 1) - 1
    BY <1>2, <1>3
  <2>5. q \in a .. a + (m + 1) - 1 /\ p \in a .. a + (m + 1) - 1
    BY <2>4
  <2> DEFINE K == m + 1
  <2>6. /\ K \in Nat \ {0} /\ q \in a .. a + K - 1 /\ p \in a .. a + K - 1
        /\ (r + q) % K = (r + p) % K
    BY <1>2, <2>3, <2>5
  <2> HIDE DEF K
  <2>7. q = p
    BY <2>4, <2>6, ResidueOnce
  <2>8. k \in Nat /\ l \in Nat
    BY <1>4
  <2>9. q * n \in Nat
    <3>1. q \in Nat
      BY <1>2, <1>3
    <3> QED
      BY <1>2, <3>1
  <2>10. c - 1 + k = (q * n) + (i - 1) /\ c - 1 + l = (q * n) + (i - 1)
    BY <2>1, <2>2, <2>7 DEF Looks, n
  <2> QED
    BY <2>8, <2>9, <2>10
<1>9. ASSUME NEW t \in 0 .. w - 1 PROVE \E k \in T : f[k] = t
  <2> DEFINE K == m + 1
  <2>1. K \in Nat \ {0} /\ t \in 0 .. K - 1 /\ a \in Nat
    BY <1>2, <1>3
  <2>2. K = m + 1
    OBVIOUS
  <2> HIDE DEF K
  <2>3. PICK q \in a .. a + K - 1 : (r + q) % K = t
    <3>1. HasResidue(K, r, a, t)
      BY <2>1, ResidueFound
    <3> QED
      BY <3>1 DEF HasResidue
  <2>4. q \in a .. a + m /\ q \in Nat /\ (r + q) % (m + 1) = t
    BY <1>2, <2>1, <2>2, <2>3
  <2> DEFINE k == (q * n) + (i - 1) - (c - 1)
  <2>5. k \in Nat /\ c - 1 + k = (q * n) + (i - 1)
    <3>1. q * n \in Nat /\ (q # 0 => q * n >= n)
      <4>1. \A x \in Nat : x >= 1 => x * n >= n /\ x * n \in Nat
        <5> SUFFICES ASSUME NEW x \in Nat, x >= 1 PROVE x * n >= n /\ x * n \in Nat
          OBVIOUS
        <5>1. x * n = n + ((x - 1) * n) /\ (x - 1) * n \in Nat
          BY <1>2
        <5> QED
          BY <1>2, <5>1
      <4>2. 0 * n = 0
        BY <1>2
      <4> QED
        BY <2>4, <4>1, <4>2
    <3>2. q = 0 => i >= c
      BY <1>2, <2>1, <2>4 DEF a, FirstPass
    <3> DEFINE x == q * n
    <3>3. x \in Nat /\ (q # 0 => x >= n)
      BY <3>1
    <3> HIDE DEF x
    <3>4. x + (i - 1) - (c - 1) \in Nat /\ c - 1 + (x + (i - 1) - (c - 1)) = x + (i - 1)
      BY <1>2, <2>4, <3>2, <3>3
    <3> QED
      BY <3>4 DEF x
  <2> HIDE DEF k
  <2>6. Looks(g, c, r, k, q, i)
    <3>1. c \in Nat \ {0}
      BY <1>2
    <3> QED
      BY <1>2, <2>4, <2>5, <3>1, LookedAtOnly DEF n
  <2>7. k < N /\ RoundAt(g, c, r, k) = (r + q) % (m + 1)
    <3>1. q \in a .. a + m => k < N /\ RoundAt(g, c, r, k) = (r + q) % (m + 1)
      <4>1. /\ max_pri[g] \in Nat /\ c \in 1 .. Len(Groups[g]) /\ k \in Nat
            /\ Looks(g, c, r, k, q, i)
        BY <1>2, <2>5, <2>6 DEF m, n
      <4> HIDE DEF Looks
      <4> QED
        BY <4>1, WindowPasses DEF a, m, N
    <3> QED
      BY <2>4, <3>1
  <2>8. PosAt(g, c, k) = i
    BY <2>6 DEF Looks
  <2>9. Takes(g, c, r, k)
    BY <1>2, <2>4, <2>7, <2>8 DEF Takes, w
  <2> QED
    BY <1>5, <2>4, <2>5, <2>7, <2>8, <2>9
<1>10. (\A k, l \in T : f[k] = f[l] => k = l) /\ (\A t \in 0 .. w - 1 : \E k \in T : f[k] = t)
  BY <1>8, <1>9
<1>11. 0 \in Int /\ w - 1 \in Int /\ ~(0 > w - 1)
  BY <1>2
<1>12. IsFiniteSet(0 .. w - 1) /\ Cardinality(0 .. w - 1) = w
  <2>1. Cardinality(0 .. w - 1) = (w - 1) - 0 + 1
    BY <1>11, FS_Interval
  <2>2. IsFiniteSet(0 .. w - 1)
    BY <1>11, FS_Interval
  <2> QED
    BY <1>2, <2>1, <2>2
<1> HIDE DEF f
<1>13. IsFiniteSet(T) /\ Cardinality(T) = Cardinality(0 .. w - 1)
  BY <1>7, <1>10, <1>12, OneToOne
<1> QED
  BY <1>12, <1>13 DEF T, w

-----------------------------------------------------------------------------

(* The window is long enough for a pass through the list.                  *)
LEMMA WindowType ==
  ASSUME NEW g \in G, NEW c \in 1 .. Len(Groups[g]), NEW r \in Nat, max_pri[g] \in Nat
  PROVE  Window(g, c, r) \in Nat
<1> DEFINE n == Len(Groups[g])
           m == max_pri[g]
<1>1. Groups[g] \in Seq(Backends)
  BY BalancerAssumption DEF G
<1>2. n \in Nat /\ m \in Nat /\ c \in 1 .. n
  BY <1>1
<1>3. Window(g, c, r) = IF r =< m THEN (m + 1) * n ELSE ((m + 2) * n) - (c - 1)
  BY DEF Window
<1> HIDE DEF n, m
<1>4. (m + 1) * n \in Nat /\ (m + 2) * n = ((m + 1) * n) + n
  BY <1>2
<1> QED
  BY <1>2, <1>3, <1>4

(* All backends together are taken, in the window, as many times as the    *)
(* sum of the priorities.                                                  *)
LEMMA TakenTotal ==
  ASSUME NEW g \in G, NEW c \in 1 .. Len(Groups[g]), NEW r \in Nat, max_pri[g] \in Nat,
         \A b \in Act(g) : priority[b] =< max_pri[g]
  PROVE  Cardinality(Taken(g, c, r, Window(g, c, r))) = Sum(g, Act(g))
<1> DEFINE n == Len(Groups[g])
           N == Window(g, c, r)
           f == SumTo(g, Act(g))
           T == Taken(g, c, r, N)
           U(i) == {k \in T : PosAt(g, c, k) =< i}
           S == {i \in 0 .. n : IsFiniteSet(U(i)) /\ Cardinality(U(i)) = f[i]}
<1>1. Groups[g] \in Seq(Backends)
  BY BalancerAssumption DEF G
<1>2. n \in Nat /\ DOMAIN Groups[g] = 1 .. n /\ c \in Nat \ {0}
  BY <1>1
<1>3. N \in Nat
  BY WindowType
<1>4. \A k \in T : PosAt(g, c, k) \in 1 .. n /\ PosAt(g, c, k) \in Nat
  <2>1. \A k \in T : k \in Nat
    BY <1>3 DEF Taken
  <2> QED
    BY <1>2, <2>1, PositionInList
<1>5. f[0] = 0
  BY RunningSum
<1> HIDE DEF n, N, T, f
<1>6. 0 \in S
  <2>1. U(0) = {}
    BY <1>4
  <2>2. IsFiniteSet({}) /\ Cardinality({}) = 0
    BY FS_EmptySet
  <2> HIDE DEF U
  <2>3. IsFiniteSet(U(0)) /\ Cardinality(U(0)) = f[0]
    BY <1>5, <2>1, <2>2, Zenon
  <2>4. 0 \in 0 .. n
    BY <1>2
  <2> QED
    BY <2>3, <2>4
<1>7. ASSUME NEW i \in 0 .. n - 1, i \in S PROVE i + 1 \in S
  <2> DEFINE V == {k \in T : PosAt(g, c, k) = i + 1}
             W == U(i)
             b == Groups[g][i + 1]
  <2>1. i + 1 \in 1 .. n /\ i \in 0 .. n /\ (i + 1) - 1 = i /\ i + 1 \in 0 .. n
    BY <1>2
  <2>2. U(i + 1) = W \cup V /\ W \cap V = {}
    BY <1>4, <2>1
  <2>3. IsFiniteSet(W) /\ Cardinality(W) = f[i]
    BY <1>7
  <2>4. V = TakenAt(g, c, r, i + 1)
    BY DEF TakenAt, T, N
  <2>5. f[i + 1] = f[i] + (IF b \in Act(g) THEN priority[b] ELSE 0) /\ f[i] \in Nat
    BY <1>2, <2>1, RunningSum DEF n, f
  <2>6. IsFiniteSet(V) /\ Cardinality(V) = (IF b \in Act(g) THEN priority[b] ELSE 0)
    <3>1. CASE b \in Act(g)
      <4>1. backend_is_active(b) /\ priority[b] =< max_pri[g]
        BY <3>1 DEF Act
      <4>2. i + 1 \in 1 .. Len(Groups[g])
        BY <2>1 DEF n
      <4>3. /\ IsFiniteSet(TakenAt(g, c, r, i + 1))
            /\ Cardinality(TakenAt(g, c, r, i + 1)) = priority[Groups[g][i + 1]]
        BY <4>1, <4>2, TakenShare
      <4> QED
        BY <2>4, <3>1, <4>3
    <3>2. CASE b \notin Act(g)
      <4>1. ~backend_is_active(b)
        BY <1>2, <2>1, <3>2 DEF Act, Members
      <4>2. \A k \in T : Takes(g, c, r, k)
        BY DEF T, Taken
      <4>3. \A k \in T : PosAt(g, c, k) # i + 1
        BY <4>1, <4>2 DEF Takes
      <4>4. V = {}
        BY <4>3
      <4> QED
        BY <3>2, <4>4, FS_EmptySet
    <3> QED
      BY <3>1, <3>2
  <2> HIDE DEF V, W, b
  <2>7. /\ IsFiniteSet(W \cup V)
        /\ Cardinality(W \cup V) = Cardinality(W) + Cardinality(V) - Cardinality(W \cap V)
    BY <2>3, <2>6, FS_Union
  <2>8. Cardinality(W \cap V) = 0
    BY <2>2, FS_EmptySet
  <2>9. Cardinality(V) \in Nat
    BY <2>6, FS_CardinalityType
  <2>10. Cardinality(W \cup V) = f[i + 1]
    BY <2>3, <2>5, <2>6, <2>7, <2>8, <2>9
  <2> QED
    BY <2>1, <2>2, <2>7, <2>10
<1>8. U(n) = T
  BY <1>4
<1> HIDE DEF U
<1>9. \A i \in 0 .. n : i \in S
  <2> HIDE DEF S
  <2> QED
    BY <1>2, <1>6, <1>7, InductUpTo
<1>10. n \in S
  BY <1>2, <1>9
<1> QED
  BY <1>8, <1>10 DEF Sum, T, N, f, n

(* Whoever is taken later has more backends taken before.                  *)
LEMMA RankGrows ==
  ASSUME NEW g \in G, NEW c, NEW r, NEW k \in Nat, NEW l \in Nat, k < l, Takes(g, c, r, l)
  PROVE  /\ Cardinality(Taken(g, c, r, k + 1)) < Cardinality(Taken(g, c, r, l + 1))
         /\ Cardinality(Taken(g, c, r, k + 1)) \in Nat
<1> DEFINE A == Taken(g, c, r, k + 1)
           B == Taken(g, c, r, l + 1)
<1>1. \A x \in A : x \in Nat /\ x =< k
  BY DEF Taken
<1>2. A \cup {l} \subseteq B /\ l \notin A
  BY <1>1 DEF Taken
<1>3. \A x \in B : x \in Nat /\ x =< l
  BY DEF Taken
<1> HIDE DEF A, B
<1>4. IsFiniteSet(A) /\ IsFiniteSet(B)
  <2>1. A \in SUBSET Nat /\ B \in SUBSET Nat
    BY <1>1, <1>3
  <2> QED
    BY <1>1, <1>3, <2>1, FS_BoundedSetOfNaturals
<1>5. Cardinality(A \cup {l}) = Cardinality(A) + 1
  BY <1>2, <1>4, FS_AddElement
<1>6. Cardinality(A \cup {l}) =< Cardinality(B)
  BY <1>2, <1>4, FS_Subset
<1>7. Cardinality(A) \in Nat /\ Cardinality(B) \in Nat
  BY <1>4, FS_CardinalityType
<1> QED
  BY <1>5, <1>6, <1>7 DEF A, B

(* What iwrr_select does if a backend is active: it goes on to the first   *)
(* that it takes.                                                          *)
GoesTo(o, g, c, r, k) ==
  /\ Takes(g, c, r, k) /\ \A j \in 0 .. k - 1 : ~Takes(g, c, r, j)
  /\ o = Outcome(g, Groups[g][PosAt(g, c, k)], PosAt(g, c, k + 1), RoundAt(g, c, r, k + 1))

(* There is such a backend.                                                *)
LEMMA IwrrGoesTo ==
  ASSUME NEW g \in G, NEW c \in DOMAIN Groups[g], NEW r \in Nat, max_pri[g] \in Nat,
         Act(g) # {}
  PROVE  \E k \in Nat : GoesTo(iwrr_select(g, c, r), g, c, r, k)
<1> DEFINE N == Len(Groups[g]) * (max_pri[g] + 2)
           ks == {k \in 0 .. N : Takes(g, c, r, k)}
           k == Min(ks)
<1>1. Groups[g] \in Seq(Backends)
  BY BalancerAssumption DEF G
<1>2. PICK i \in DOMAIN Groups[g] : backend_is_active(Groups[g][i])
  BY DEF Act, Members
<1>4. ks # {}
  BY <1>2, SearchFinds
<1>5. ks \subseteq Nat
  OBVIOUS
<1>6. iwrr_select(g, c, r) = Outcome(g, Groups[g][PosAt(g, c, k)], PosAt(g, c, k + 1),
                                     RoundAt(g, c, r, k + 1))
  BY <1>4, Zenon DEF iwrr_select
<1>7. N \in Nat
  <2>1. Len(Groups[g]) \in Nat /\ max_pri[g] + 2 \in Nat
    BY <1>1
  <2>2. \A x, y \in Nat : x * y \in Nat
    OBVIOUS
  <2> QED
    BY <2>1, <2>2
<1> HIDE DEF N, ks
<1>8. k \in ks /\ \A y \in ks : k =< y
  BY <1>4, <1>5, MinLeast
<1> HIDE DEF k
<1>9. k \in 0 .. N /\ Takes(g, c, r, k)
  BY <1>8 DEF ks
<1>10. ASSUME NEW j \in 0 .. k - 1, Takes(g, c, r, j) PROVE FALSE
  <2>1. j \in 0 .. N /\ j < k
    BY <1>7, <1>9
  <2>2. j \in ks
    BY <1>10, <2>1 DEF ks
  <2> QED
    BY <1>8, <1>9, <2>1, <2>2
<1> QED
  BY <1>6, <1>9, <1>10 DEF GoesTo

(* What j selections in a row leave: K backends have been looked at, and   *)
(* the last one is the j-th that is taken.                                 *)
After(o, g, c, r, j, K) ==
  /\ o.cur = PosAt(g, c, K) /\ o.round = RoundAt(g, c, r, K)
  /\ Cardinality(Taken(g, c, r, K)) = j
  /\ j # 0 => K # 0 /\ Takes(g, c, r, K - 1) /\ o.be = Groups[g][PosAt(g, c, K - 1)]

(* The first K backends that are looked at are finitely many.              *)
LEMMA TakenFinite ==
  ASSUME NEW g \in G, NEW c, NEW r, NEW K \in Nat
  PROVE  IsFiniteSet(Taken(g, c, r, K)) /\ Cardinality(Taken(g, c, r, K)) \in Nat
<1>1. IsFiniteSet(0 .. K - 1)
  <2>1. 0 \in Int /\ K - 1 \in Int
    OBVIOUS
  <2> QED
    BY <2>1, FS_Interval
<1>2. Taken(g, c, r, K) \in SUBSET (0 .. K - 1)
  BY DEF Taken
<1>3. IsFiniteSet(Taken(g, c, r, K))
  BY <1>1, <1>2, FS_Subset
<1> QED
  BY <1>3, FS_CardinalityType

(* One more selection takes one more backend.                              *)
LEMMA NextAfter ==
  ASSUME NEW g \in G, NEW c \in DOMAIN Groups[g], NEW r \in Nat, max_pri[g] \in Nat,
         Act(g) # {}, NEW o, NEW j \in Nat, NEW K \in Nat, After(o, g, c, r, j, K)
  PROVE  \E L \in Nat : After(iwrr_select(g, o.cur, o.round), g, c, r, j + 1, L)
<1> DEFINE d == PosAt(g, c, K)
           e == RoundAt(g, c, r, K)
           s == iwrr_select(g, o.cur, o.round)
<1>1. Groups[g] \in Seq(Backends)
  BY BalancerAssumption DEF G
<1>2. o.cur = d /\ o.round = e /\ Cardinality(Taken(g, c, r, K)) = j
  BY DEF After
<1>3. c \in Nat \ {0}
  BY <1>1
<1>4. d \in DOMAIN Groups[g] /\ e \in Nat
  BY <1>3, PositionInList
<1>5. s = iwrr_select(g, d, e)
  BY <1>2
<1> HIDE DEF d, e, s
<1>6. PICK k \in Nat : GoesTo(iwrr_select(g, d, e), g, d, e, k)
  BY <1>4, IwrrGoesTo
<1>7. /\ Takes(g, d, e, k) /\ \A l \in 0 .. k - 1 : ~Takes(g, d, e, l)
      /\ s = Outcome(g, Groups[g][PosAt(g, d, k)], PosAt(g, d, k + 1), RoundAt(g, d, e, k + 1))
  BY <1>5, <1>6 DEF GoesTo
<1>8. ASSUME NEW l \in Nat
      PROVE  /\ PosAt(g, d, l) = PosAt(g, c, K + l) /\ RoundAt(g, d, e, l) = RoundAt(g, c, r, K + l)
             /\ Takes(g, d, e, l) <=> Takes(g, c, r, K + l)
  <2>1. PosAt(g, d, l) = PosAt(g, c, K + l) /\ RoundAt(g, d, e, l) = RoundAt(g, c, r, K + l)
    <3>1. Continues(g, c, r, K, l)
      BY GoesOn
    <3> QED
      BY <3>1 DEF d, e, Continues
  <2> QED
    BY <2>1 DEF Takes
<1> DEFINE L == K + k + 1
<1>9. L \in Nat /\ L # 0 /\ L - 1 = K + k /\ K + (k + 1) = L /\ k + 1 \in Nat
  BY <1>2, <1>7
<1>10. /\ s.cur = PosAt(g, c, L) /\ s.round = RoundAt(g, c, r, L)
       /\ s.be = Groups[g][PosAt(g, c, L - 1)]
  <2>1. /\ s.cur = PosAt(g, d, k + 1) /\ s.round = RoundAt(g, d, e, k + 1)
        /\ s.be = Groups[g][PosAt(g, d, k)]
    BY <1>7 DEF Outcome
  <2>2. PosAt(g, d, k + 1) = PosAt(g, c, L) /\ RoundAt(g, d, e, k + 1) = RoundAt(g, c, r, L)
    BY <1>8, <1>9
  <2>3. PosAt(g, d, k) = PosAt(g, c, L - 1)
    BY <1>7, <1>8, <1>9
  <2> QED
    BY <2>1, <2>2, <2>3
<1>11. Takes(g, c, r, L - 1)
  BY <1>7, <1>8, <1>9
<1>12. Taken(g, c, r, L) = Taken(g, c, r, K) \cup {L - 1} /\ L - 1 \notin Taken(g, c, r, K)
  <2>1. ASSUME NEW x \in K .. L - 2 PROVE ~Takes(g, c, r, x)
    <3>0. K \in Nat /\ k \in Nat /\ x \in Int /\ K =< x /\ x =< K + k + 1 - 2
      BY <1>2, <1>7
    <3>1. x - K \in 0 .. k - 1 /\ x - K \in Nat /\ K + (x - K) = x
      BY <3>0
    <3>2. ~Takes(g, d, e, x - K)
      BY <1>7, <3>1
    <3> QED
      BY <1>8, <3>1, <3>2
  <2>2. \A x \in 0 .. L - 1 : x \in 0 .. K - 1 \/ x \in K .. L - 2 \/ x = L - 1
    OBVIOUS
  <2>3. \A x \in 0 .. K - 1 : x \in 0 .. L - 1 /\ x # L - 1
    OBVIOUS
  <2>4. L - 1 \in 0 .. L - 1
    BY <1>9
  <2> HIDE DEF L
  <2>5. Taken(g, c, r, L) \subseteq Taken(g, c, r, K) \cup {L - 1}
    BY <2>1, <2>2 DEF Taken
  <2>6. Taken(g, c, r, K) \cup {L - 1} \subseteq Taken(g, c, r, L) /\ L - 1 \notin Taken(g, c, r, K)
    BY <1>11, <2>3, <2>4 DEF Taken
  <2> QED
    BY <2>5, <2>6
<1> HIDE DEF L
<1>13. Cardinality(Taken(g, c, r, L)) = j + 1
  <2> DEFINE A == Taken(g, c, r, K)
             x == L - 1
  <2>1. IsFiniteSet(A) /\ Cardinality(A) = j /\ x \notin A /\ Taken(g, c, r, L) = A \cup {x}
    BY <1>2, <1>12, TakenFinite
  <2> HIDE DEF A, x
  <2>2. Cardinality(A \cup {x}) = Cardinality(A) + 1
    BY <2>1, FS_AddElement
  <2>3. Cardinality(Taken(g, c, r, L)) = Cardinality(A \cup {x})
    BY <2>1, Zenon
  <2> QED
    BY <2>1, <2>2, <2>3
<1>14. After(s, g, c, r, j + 1, L)
  BY <1>9, <1>10, <1>11, <1>13 DEF After
<1> QED
  BY <1>9, <1>14 DEF s

(* What selections of a group by iwrr can leave.                           *)
Outcomes(g) ==
  {Outcome(g, b, d, e) : b \in Backends \cup {None}, d \in DOMAIN Groups[g], e \in Nat}

(* From one of these a selection leads to one of these.                    *)
LEMMA IwrrStays ==
  ASSUME NEW g \in G, max_pri[g] \in Nat, Act(g) # {}, NEW o \in Outcomes(g)
  PROVE  iwrr_select(g, o.cur, o.round) \in Outcomes(g)
<1>1. Groups[g] \in Seq(Backends)
  BY BalancerAssumption DEF G
<1> DEFINE d == o.cur
           e == o.round
<1>2. d \in DOMAIN Groups[g] /\ e \in Nat
  BY DEF Outcomes, Outcome
<1> HIDE DEF d, e
<1>3. PICK k \in Nat : GoesTo(iwrr_select(g, d, e), g, d, e, k)
  BY <1>2, IwrrGoesTo
<1>4. k + 1 \in Nat /\ d \in Nat \ {0}
  BY <1>1, <1>2
<1>5. PosAt(g, d, k) \in DOMAIN Groups[g] /\ RoundAt(g, d, e, k) \in Nat
  BY <1>2, <1>4, PositionInList
<1>6. PosAt(g, d, k + 1) \in DOMAIN Groups[g] /\ RoundAt(g, d, e, k + 1) \in Nat
  BY <1>2, <1>4, PositionInList
<1>7. Groups[g][PosAt(g, d, k)] \in Backends
  BY <1>1, <1>5
<1>8. iwrr_select(g, d, e) \in Outcomes(g)
  BY <1>3, <1>6, <1>7 DEF GoesTo, Outcomes
<1> QED
  BY <1>8 DEF d, e

(* Selections in a row from position c in round r.                         *)
Selections(g, c, r, n) ==
  LET f[k \in 0 .. n] == IF k = 0 THEN Outcome(g, None, c, r)
                         ELSE iwrr_select(g, f[k - 1].cur, f[k - 1].round)
  IN  f

(* There is a next selection after each, as long as a backend is active.   *)
LEMMA SelectionsExist ==
  ASSUME NEW g \in G, NEW c \in DOMAIN Groups[g], NEW r \in Nat, max_pri[g] \in Nat,
         Act(g) # {}, NEW n \in Nat
  PROVE  /\ Selections(g, c, r, n)[0] = Outcome(g, None, c, r)
         /\ \A k \in 1 .. n : Selections(g, c, r, n)[k] =
              iwrr_select(g, Selections(g, c, r, n)[k - 1].cur, Selections(g, c, r, n)[k - 1].round)
<1> DEFINE D == Outcomes(g)
           a == Outcome(g, None, c, r)
           sel(o) == iwrr_select(g, o.cur, o.round)
           F == [k \in 1 .. n |-> [o \in D |-> sel(o)]]
           f == Selections(g, c, r, n)
<1>1. a \in D
  BY DEF Outcomes
<1>2. \A o \in D : sel(o) \in D
  BY IwrrStays
<1>4. f = CHOOSE h : h = [k \in 0 .. n |-> IF k = 0 THEN a ELSE sel(h[k - 1])]
  BY DEF Selections
<1> HIDE DEF D, a, sel, f
<1>5. F \in Steps(n, D)
  BY <1>2 DEF Steps
<1>6. \A k \in 1 .. n : F[k] = [o \in D |-> sel(o)]
  OBVIOUS
<1> HIDE DEF F
<1>7. PICK h : Unfolds(h, n, D, a, F)
  BY <1>1, <1>5, BuiltUp
<1>8. h = [k \in 0 .. n |-> IF k = 0 THEN a ELSE sel(h[k - 1])]
  <2>1. h \in [0 .. n -> D] /\ h[0] = a
    BY <1>7 DEF Unfolds
  <2>2. ASSUME NEW k \in 1 .. n PROVE h[k] = sel(h[k - 1])
    <3>1. k - 1 \in 0 .. n
      OBVIOUS
    <3>2. h[k - 1] \in D
      BY <2>1, <3>1
    <3>3. h[k] = F[k][h[k - 1]]
      BY <1>7 DEF Unfolds
    <3> QED
      BY <1>6, <3>2, <3>3
  <2> QED
    BY <2>1, <2>2
<1>9. f = [k \in 0 .. n |-> IF k = 0 THEN a ELSE sel(f[k - 1])]
  BY <1>4, <1>8
<1>10. f[0] = a /\ \A k \in 1 .. n : f[k] = sel(f[k - 1])
  BY <1>9
<1> QED
  BY <1>10 DEF f, a, sel

(* Every selection of a row takes the next backend to be taken.            *)
LEMMA EachAfter ==
  ASSUME NEW g \in G, NEW c \in DOMAIN Groups[g], NEW r \in Nat, max_pri[g] \in Nat,
         Act(g) # {}, NEW n \in Nat
  PROVE  \A j \in 0 .. n : \E K \in Nat : After(Selections(g, c, r, n)[j], g, c, r, j, K)
<1> DEFINE f == Selections(g, c, r, n)
           S == {j \in 0 .. n : \E K \in Nat : After(f[j], g, c, r, j, K)}
<1>1. /\ f[0] = Outcome(g, None, c, r)
      /\ \A k \in 1 .. n : f[k] = iwrr_select(g, f[k - 1].cur, f[k - 1].round)
  BY SelectionsExist
<1> HIDE DEF f
<1>2. 0 \in S
  <2>1. Groups[g] \in Seq(Backends)
    BY BalancerAssumption DEF G
  <2>2. c \in Nat \ {0} /\ c \in 1 .. Len(Groups[g]) /\ 0 \in Nat
        /\ c - 1 + 0 = (0 * Len(Groups[g])) + (c - 1)
    BY <2>1
  <2>3. Looks(g, c, r, 0, 0, c)
    BY <2>2, LookedAtOnly
  <2>4. PosAt(g, c, 0) = c /\ RoundAt(g, c, r, 0) = r
    BY <2>3 DEF Looks
  <2>5. f[0].cur = c /\ f[0].round = r
    BY <1>1 DEF Outcome
  <2>6. Cardinality(Taken(g, c, r, 0)) = 0
    <3>1. Taken(g, c, r, 0) = {}
      BY DEF Taken
    <3>2. Cardinality({}) = 0
      BY FS_EmptySet
    <3> QED
      BY <3>1, <3>2, Zenon
  <2>7. After(f[0], g, c, r, 0, 0)
    BY <2>4, <2>5, <2>6 DEF After
  <2> QED
    BY <2>2, <2>7
<1>3. ASSUME NEW j \in 0 .. n - 1, j \in S PROVE j + 1 \in S
  <2>1. PICK K \in Nat : After(f[j], g, c, r, j, K)
    BY <1>3
  <2>2. j \in Nat /\ j + 1 \in 1 .. n /\ (j + 1) - 1 = j /\ j + 1 \in 0 .. n
    OBVIOUS
  <2>3. PICK L \in Nat : After(iwrr_select(g, f[j].cur, f[j].round), g, c, r, j + 1, L)
    BY <2>1, <2>2, NextAfter
  <2>4. f[j + 1] = iwrr_select(g, f[j].cur, f[j].round)
    BY <1>1, <2>2
  <2> QED
    BY <2>2, <2>3, <2>4
<1> HIDE DEF S
<1>4. \A j \in 0 .. n : j \in S
  BY <1>2, <1>3, InductUpTo
<1> QED
  BY <1>4 DEF S, f

(* The selections of b among as many as the sum of the priorities.         *)
Share(g, c, r, b) ==
  LET n == Sum(g, Act(g)) IN {j \in 1 .. n : Selections(g, c, r, n)[j].be = b}

(* So the backend at position i is selected as often as it is taken in the *)
(* window: the selections that take it and the places where it is taken    *)
(* correspond, the j-th selection to the j-th place.                       *)
LEMMA SelectedAsTaken ==
  ASSUME NEW g \in G, NEW c \in DOMAIN Groups[g], NEW r \in Nat, max_pri[g] \in Nat,
         \A b \in Act(g) : priority[b] =< max_pri[g], NEW i \in DOMAIN Groups[g],
         backend_is_active(Groups[g][i])
  PROVE  Cardinality(Share(g, c, r, Groups[g][i])) = priority[Groups[g][i]]
<1> DEFINE N == Window(g, c, r)
           n == Sum(g, Act(g))
           f == Selections(g, c, r, n)
           T == TakenAt(g, c, r, i)
           J == {j \in 1 .. n : f[j].be = Groups[g][i]}
           rank(k) == Cardinality(Taken(g, c, r, k + 1))
           h == [k \in T |-> rank(k)]
<1>1. Groups[g] \in Seq(Backends)
  BY BalancerAssumption DEF G
<1>2. DOMAIN Groups[g] = 1 .. Len(Groups[g]) /\ Len(Groups[g]) \in Nat
  BY <1>1
<1>3. c \in 1 .. Len(Groups[g]) /\ i \in 1 .. Len(Groups[g]) /\ c \in Nat \ {0}
  BY <1>2
<1>4. N \in Nat
  BY <1>3, WindowType
<1>5. Groups[g][i] \in Act(g)
  BY DEF Act, Members
<1>6. IsFiniteSet(T) /\ Cardinality(T) = priority[Groups[g][i]]
  BY <1>3, <1>5, TakenShare
<1>7. Cardinality(Taken(g, c, r, N)) = n
  BY <1>3, TakenTotal
<1>8. n \in Nat
  BY <1>2, RunningSum DEF Sum
<1>9. T = {k \in 0 .. N - 1 : Takes(g, c, r, k) /\ PosAt(g, c, k) = i}
  BY DEF TakenAt, Taken
<1> HIDE DEF N, n, T
<1>10. \A j \in 0 .. n : \E K \in Nat : After(f[j], g, c, r, j, K)
  BY <1>5, <1>8, EachAfter
<1> HIDE DEF f
<1>11. ASSUME NEW j \in 1 .. n
       PROVE  \E k \in Nat : /\ Takes(g, c, r, k) /\ rank(k) = j
                             /\ f[j].be = Groups[g][PosAt(g, c, k)]
  <2>1. j \in 0 .. n /\ j # 0
    BY <1>8
  <2>2. PICK K \in Nat : After(f[j], g, c, r, j, K)
    BY <1>10, <2>1
  <2> DEFINE k == K - 1
  <2>3. /\ K # 0 /\ Takes(g, c, r, k) /\ f[j].be = Groups[g][PosAt(g, c, k)]
        /\ Cardinality(Taken(g, c, r, K)) = j
    BY <2>1, <2>2 DEF After
  <2>4. k \in Nat /\ k + 1 = K
    BY <2>3
  <2> HIDE DEF k
  <2> QED
    BY <2>3, <2>4
<1>12. \A k, l \in Nat : k < l /\ Takes(g, c, r, l) => rank(k) < rank(l)
  BY RankGrows
<1>13. \A k \in Nat : rank(k) \in Nat
  <2>1. \A k \in Nat : k + 1 \in Nat
    OBVIOUS
  <2> QED
    BY <2>1, TakenFinite
<1>14. \A k \in 0 .. N - 1 : rank(k) =< n
  <2> SUFFICES ASSUME NEW k \in 0 .. N - 1 PROVE rank(k) =< n
    OBVIOUS
  <2>1. Taken(g, c, r, k + 1) \in SUBSET Taken(g, c, r, N)
    BY <1>4 DEF Taken
  <2>2. IsFiniteSet(Taken(g, c, r, N))
    BY <1>4, TakenFinite
  <2> QED
    BY <1>7, <2>1, <2>2, FS_Subset
<1>15. \A k \in Nat : Takes(g, c, r, k) => rank(k) >= 1
  <2> SUFFICES ASSUME NEW k \in Nat, Takes(g, c, r, k) PROVE rank(k) >= 1
    OBVIOUS
  <2> DEFINE A == Taken(g, c, r, k + 1)
  <2>1. k \in A
    BY DEF Taken
  <2>2. k + 1 \in Nat
    OBVIOUS
  <2>3. IsFiniteSet(A) /\ Cardinality(A) \in Nat
    BY <2>2, TakenFinite
  <2> HIDE DEF A
  <2>4. A # {}
    BY <2>1
  <2>5. Cardinality(A) # 0
    BY <2>3, <2>4, FS_EmptySet
  <2>6. Cardinality(A) >= 1
    BY <2>3, <2>5
  <2> QED
    BY <2>6 DEF A
<1>16. \A k \in Nat : Takes(g, c, r, k) /\ rank(k) =< n => k < N
  <2> SUFFICES ASSUME NEW k \in Nat, Takes(g, c, r, k), k >= N PROVE rank(k) > n
    BY <1>4, <1>8, <1>13
  <2> DEFINE A == Taken(g, c, r, N)
             B == Taken(g, c, r, k + 1)
  <2>1. k \notin A /\ A \cup {k} \in SUBSET B
    BY <1>4 DEF Taken
  <2>2. k + 1 \in Nat
    OBVIOUS
  <2>3. IsFiniteSet(A) /\ IsFiniteSet(B) /\ Cardinality(A) = n
    BY <1>4, <1>7, <2>2, TakenFinite
  <2> HIDE DEF A, B
  <2>4. Cardinality(A \cup {k}) = n + 1
    BY <2>1, <2>3, FS_AddElement
  <2>5. Cardinality(A \cup {k}) =< Cardinality(B) /\ Cardinality(B) \in Nat
    BY <2>1, <2>3, FS_Subset, FS_CardinalityType
  <2>6. Cardinality(B) > n
    BY <1>8, <2>4, <2>5
  <2> QED
    BY <2>6 DEF B
<1> HIDE DEF rank
<1>17. \A k, l \in Nat : Takes(g, c, r, k) /\ Takes(g, c, r, l) /\ rank(k) = rank(l) => k = l
  <2> SUFFICES ASSUME NEW k \in Nat, NEW l \in Nat, Takes(g, c, r, k), Takes(g, c, r, l),
                      rank(k) = rank(l)
               PROVE  k = l
    OBVIOUS
  <2>1. ~(k < l) /\ ~(l < k)
    BY <1>12, <1>13
  <2> QED
    BY <2>1
<1>18. \A k \in T : /\ k \in Nat /\ k < N /\ k \in 0 .. N - 1
                    /\ Takes(g, c, r, k) /\ PosAt(g, c, k) = i
  BY <1>4, <1>9
<1>19. h \in [T -> J]
  <2> SUFFICES ASSUME NEW k \in T PROVE rank(k) \in J
    OBVIOUS
  <2>1. rank(k) \in 1 .. n
    BY <1>8, <1>13, <1>14, <1>15, <1>18
  <2>2. PICK l \in Nat : /\ Takes(g, c, r, l) /\ rank(l) = rank(k)
                         /\ f[rank(k)].be = Groups[g][PosAt(g, c, l)]
    BY <1>11, <2>1
  <2>3. l = k
    BY <1>17, <1>18, <2>2
  <2>4. f[rank(k)].be = Groups[g][i]
    BY <1>18, <2>2, <2>3
  <2> QED
    BY <2>1, <2>4
<1>20. \A k, l \in T : h[k] = h[l] => k = l
  BY <1>17, <1>18
<1>21. ASSUME NEW j \in J PROVE \E k \in T : h[k] = j
  <2>1. j \in 1 .. n /\ f[j].be = Groups[g][i] /\ j =< n
    BY <1>8
  <2>2. PICK k \in Nat : /\ Takes(g, c, r, k) /\ rank(k) = j
                         /\ f[j].be = Groups[g][PosAt(g, c, k)]
    BY <1>11, <2>1
  <2>3. k < N
    BY <1>16, <2>1, <2>2
  <2>4. PosAt(g, c, k) \in DOMAIN Groups[g] /\ RoundAt(g, c, r, k) \in Nat
    BY <1>3, PositionInList
  <2>5. PosAt(g, c, k) = i
    <3>1. \A x \in DOMAIN Groups[g] : Groups[g][x] = Groups[g][i] => x = i
      BY BalancerAssumption DEF G
    <3>2. Groups[g][PosAt(g, c, k)] = Groups[g][i]
      BY <2>1, <2>2
    <3> QED
      BY <2>4, <3>1, <3>2
  <2>6. k \in T
    BY <1>4, <1>9, <2>2, <2>3, <2>5
  <2> QED
    BY <2>2, <2>6
<1>22. IsFiniteSet(J)
  <2>1. 1 \in Int /\ n \in Int /\ J \in SUBSET (1 .. n)
    BY <1>8
  <2>2. IsFiniteSet(1 .. n)
    BY <2>1, FS_Interval
  <2> HIDE DEF J
  <2> QED
    BY <2>1, <2>2, FS_Subset
<1>23. \A j \in J : \E k \in T : h[k] = j
  BY <1>21
<1> HIDE DEF h, J
<1>24. Cardinality(T) = Cardinality(J)
  BY <1>19, <1>20, <1>22, <1>23, OneToOne
<1>25. J = Share(g, c, r, Groups[g][i])
  BY Zenon DEF J, f, n, Share
<1> QED
  BY <1>6, <1>24, <1>25, Zenon

(* Interleaved weighted round robin gives every active backend its share.  *)
LEMMA IwrrShare == RoundType => IwrrProportional
<1> SUFFICES ASSUME RoundType, NEW g \in G, Match(g), NEW b \in Act(g)
             PROVE  Cardinality(Share(g, cur[g], round[g], b)) = priority[b]
  BY DEF IwrrProportional, Selections, Share
<1>1. cur[g] \in DOMAIN Groups[g] /\ round[g] \in Nat /\ max_pri[g] \in Nat
  BY DEF RoundType
<1>2. PICK i \in DOMAIN Groups[g] : Groups[g][i] = b
  BY DEF Act, Members
<1>3. backend_is_active(Groups[g][i])
  BY <1>2 DEF Act
<1>4. \A x \in Act(g) : priority[x] =< max_pri[g]
  <2>1. Act(g) \in SUBSET Members(g)
    BY DEF Act
  <2>2. max_pri[g] = Largest(Act(g))
    BY DEF Match
  <2> QED
    BY <2>1, <2>2, LargestTop
<1>5. Cardinality(Share(g, cur[g], round[g], Groups[g][i])) = priority[Groups[g][i]]
  BY <1>1, <1>3, <1>4, SelectedAsTaken
<1> QED
  BY <1>2, <1>5

-----------------------------------------------------------------------------

(* The inductive invariant holds throughout.                               *)
THEOREM BalancerCorrect == Spec => []BalancerInv
BY InitBalancer, StepBalancer, PTL DEF Spec

(* Every variable keeps its type; the round of a group stays within its    *)
(* top priority, though max_pri, where iwrr_select wraps it, falls and     *)
(* rises as backends die and touch_be counts them again.                   *)
THEOREM TypesKept == Spec => []TypeOK
<1>1. BalancerInv => TypeOK
  <2> SUFFICES ASSUME BalancerInv, NEW g \in G
               PROVE  round[g] \in 0 .. Largest(Members(g))
    BY DEF BalancerInv, TypeOK, BackendType, RoundType, CounterType
  <2>1. round[g] \in Nat /\ round[g] =< Largest(Members(g)) /\ Largest(Members(g)) \in Nat
    BY CountType DEF BalancerInv, RoundType, RoundBound
  <2> QED
    BY <2>1
<1> QED
  BY <1>1, BalancerCorrect, PTL

(* Active backends that no touch_be is about to count are in the counters  *)
(* of their group, however the steps of touch_be, kill_be and the control  *)
(* interface interleave, and the counters count nothing else unless a      *)
(* touch_be was overtaken.                                                 *)
THEOREM NoneUncounted == Spec => []CountersSettled
<1>1. Init => SettledInv
  BY InitSettled
<1>2. BalancerInv /\ SettledInv /\ [Next]_vars => SettledInv'
  BY StepSettled
<1>3. SettledInv => CountersSettled
  BY DEF SettledInv, SettledAt, CountersSettled
<1> QED
  BY <1>1, <1>2, <1>3, BalancerCorrect, PTL DEF Spec

(* iwrr_select comes to an end whenever a backend of the group is active,  *)
(* and only then: the loop without an exit is the only way to hang there.  *)
THEOREM SearchTerminates == Spec => []SearchEnds
<1>1. BalancerInv => SearchEnds
  BY SearchEndsIff DEF BalancerInv
<1> QED
  BY <1>1, BalancerCorrect, PTL

(* Built with dynamic backends, a dead backend always has a touch_be job   *)
(* that waits for it or probes it: no backend is dead and forgotten, in    *)
(* whatever order it is killed, probed, disabled and enabled.              *)
THEOREM NoneForgotten == Spec => []DeadAttended
<1>1. BalancerInv => DeadAttended
  BY DEF BalancerInv
<1> QED
  BY <1>1, BalancerCorrect, PTL

(* From every state that deaths, returns and administration can leave, as  *)
(* soon as the counters of a group match its backends: rand_select takes   *)
(* every active backend for as many random numbers as its priority, and    *)
(* iwrr_select, from whatever position and round, as many times in a cycle *)
(* of selections.                                                          *)
THEOREM SharesProportional == Spec => []Proportional
<1>1. BalancerInv => Proportional
  BY RandShare, IwrrShare DEF BalancerInv, Proportional
<1> QED
  BY <1>1, BalancerCorrect, PTL
=============================================================================
