------------------------------- MODULE VmmProofs -------------------------------
(***************************************************************************)
(* Proofs about two parts of the VMM that share nothing: the restart       *)
(* policy (AutoRestart), for every configuration, and the CIDs (VmCids),   *)
(* for any number of VMs, any pool and any number of restarts.             *)
(***************************************************************************)
EXTENDS AutoRestart, VmCids, WellFoundedInduction, TLAPS

-----------------------------------------------------------------------------
(* Numbers.  Induction is stated for sets, which the provers instantiate.  *)

(* A non-empty set of numbers has a lowest one.                            *)
LEMMA LowestOfSet ==
  ASSUME NEW S \in SUBSET Nat, S # {}
  PROVE  \E c \in S : \A d \in S : c <= d
<1>1. PICK x \in S : \A y \in S : <<y, x>> \notin OpToRel(<, Nat)
  BY NatLessThanWellFounded, WFMin, Zenon
<1>2. \A y \in S : ~(y < x)
  <2>1. TAKE y \in S
  <2>2. y \in Nat /\ x \in Nat
    OBVIOUS
  <2> QED BY <1>1, <2>2 DEF OpToRel
<1>3. x \in S
  OBVIOUS
<1> HIDE <1>1
<1> QED BY <1>2, <1>3

(* Induction over numbers: a set that has 0, and n + 1 with n, has all.    *)
LEMMA SetInduction ==
  ASSUME NEW S, 0 \in S, \A n \in Nat : n \in S => n + 1 \in S
  PROVE  \A n \in Nat : n \in S
<1> SUFFICES ASSUME Nat \ S # {} PROVE FALSE
  OBVIOUS
<1>1. PICK c \in Nat \ S : \A d \in Nat \ S : c <= d
  BY LowestOfSet
<1>2. c # 0
  OBVIOUS
<1>3. c - 1 \in Nat /\ ~(c <= c - 1)
  BY <1>2
<1>4. c - 1 \in S
  BY <1>1, <1>3
<1>5. (c - 1) + 1 \in S
  BY <1>3, <1>4
<1> QED BY <1>5

(* The beginnings of Pow2, the function that doubles.                      *)
Begins(g, n) == /\ g \in [0..n -> Nat] /\ g[0] = 1
                /\ \A k \in 1..n : g[k] = 2 * g[k - 1]

(* They exist for every n.                                                 *)
LEMMA BeginsExist == \A n \in Nat : \E g : Begins(g, n)
<1> DEFINE S == {n \in Nat : \E g : Begins(g, n)}
<1>1. 0 \in S
  <2>1. Begins([k \in 0..0 |-> 1], 0)
    BY DEF Begins
  <2> QED BY <2>1
<1>2. ASSUME NEW n \in Nat, n \in S PROVE n + 1 \in S
  <2>1. PICK g : Begins(g, n)
    BY <1>2
  <2> DEFINE h == [k \in 0..(n + 1) |-> IF k = n + 1 THEN 2 * g[n] ELSE g[k]]
  <2>2. Begins(h, n + 1)
    <3>1. g[n] \in Nat /\ \A k \in 0..n : g[k] \in Nat
      BY <2>1 DEF Begins
    <3>2. h \in [0..(n + 1) -> Nat]
      BY <3>1
    <3>3. h[0] = 1
      BY <2>1 DEF Begins
    <3>4. ASSUME NEW k \in 1..(n + 1) PROVE h[k] = 2 * h[k - 1]
      <4>1. CASE k = n + 1
        BY <4>1
      <4>2. CASE k \in 1..n
        BY <2>1, <4>2 DEF Begins
      <4> QED BY <4>1, <4>2
    <3> HIDE DEF h
    <3> QED BY <3>2, <3>3, <3>4 DEF Begins
  <2> HIDE DEF h
  <2> QED BY <2>2
<1> HIDE DEF S
<1>3. \A n \in Nat : n \in S
  BY <1>1, <1>2, SetInduction
<1> QED BY <1>3 DEF S

(* Two of them agree as far as both go.                                    *)
LEMMA BeginsAgree ==
  ASSUME NEW m \in Nat, NEW n \in Nat, NEW g, NEW h, Begins(g, m), Begins(h, n)
  PROVE  \A k \in Nat : k <= m /\ k <= n => g[k] = h[k]
<1> DEFINE S == {k \in Nat : k <= m /\ k <= n => g[k] = h[k]}
<1>1. 0 \in S
  BY DEF Begins
<1>2. ASSUME NEW k \in Nat, k \in S PROVE k + 1 \in S
  <2> SUFFICES ASSUME k + 1 <= m, k + 1 <= n PROVE g[k + 1] = h[k + 1]
    OBVIOUS
  <2>1. g[k] = h[k]
    BY <1>2
  <2>2. k + 1 \in 1..m /\ k + 1 \in 1..n /\ (k + 1) - 1 = k
    OBVIOUS
  <2>3. g[k + 1] = 2 * g[k]
    BY <2>2 DEF Begins
  <2>4. h[k + 1] = 2 * h[k]
    BY <2>2 DEF Begins
  <2> QED BY <2>1, <2>3, <2>4
<1> HIDE DEF S
<1>3. \A k \in Nat : k \in S
  BY <1>1, <1>2, SetInduction
<1> QED BY <1>3 DEF S

(* So the recursive definition defines a function.                         *)
LEMMA Pow2Def == Pow2 = [n \in Nat |-> IF n = 0 THEN 1 ELSE 2 * Pow2[n - 1]]
<1> DEFINE begin(n) == CHOOSE g : Begins(g, n)
           f == [n \in Nat |-> begin(n)[n]]
<1>1. \A n \in Nat : Begins(begin(n), n)
  BY BeginsExist
<1> HIDE DEF begin
<1>2. ASSUME NEW n \in Nat PROVE f[n] = IF n = 0 THEN 1 ELSE 2 * f[n - 1]
  <2>1. CASE n = 0
    BY <1>1, <2>1 DEF Begins
  <2>2. CASE n # 0
    <3>1. n - 1 \in Nat /\ n \in 1..n
      BY <2>2
    <3>2. begin(n)[n] = 2 * begin(n)[n - 1]
      BY <1>1, <3>1 DEF Begins
    <3>3. begin(n)[n - 1] = begin(n - 1)[n - 1]
      <4>1. Begins(begin(n), n) /\ Begins(begin(n - 1), n - 1)
        BY <1>1, <3>1
      <4>2. \A k \in Nat : k <= n /\ k <= n - 1 => begin(n)[k] = begin(n - 1)[k]
        BY <3>1, <4>1, BeginsAgree
      <4> QED BY <3>1, <4>2
    <3> QED BY <2>2, <3>1, <3>2, <3>3
  <2> QED BY <2>1, <2>2
<1>3. f = [n \in Nat |-> IF n = 0 THEN 1 ELSE 2 * f[n - 1]]
  <2>1. f = [n \in Nat |-> f[n]]
    OBVIOUS
  <2> HIDE DEF f
  <2> QED BY <1>2, <2>1
<1> HIDE DEF f
<1>4. \E fn : fn = [n \in Nat |-> IF n = 0 THEN 1 ELSE 2 * fn[n - 1]]
  BY <1>3
<1> QED BY <1>4 DEF Pow2

(* Every shift by one more doubles the value.                              *)
LEMMA Pow2Facts ==
  /\ Pow2[0] = 1
  /\ \A n \in Nat : Pow2[n] \in Nat /\ Pow2[n + 1] = 2 * Pow2[n] /\ Pow2[n] >= 1
<1> DEFINE S == {n \in Nat : Pow2[n] \in Nat /\ Pow2[n] >= 1}
<1>1. Pow2[0] = 1
  BY Pow2Def
<1>2. ASSUME NEW n \in Nat PROVE Pow2[n + 1] = 2 * Pow2[n]
  <2>1. n + 1 \in Nat /\ n + 1 # 0 /\ (n + 1) - 1 = n
    OBVIOUS
  <2> QED BY <2>1, Pow2Def
<1>3. 0 \in S
  BY <1>1
<1>4. \A n \in Nat : n \in S => n + 1 \in S
  BY <1>2
<1> HIDE DEF S
<1>5. \A n \in Nat : n \in S
  BY <1>3, <1>4, SetInduction
<1> QED BY <1>1, <1>2, <1>5 DEF S

(* A longer shift is not smaller.                                          *)
LEMMA Pow2Grows ==
  ASSUME NEW m \in Nat, NEW n \in Nat, m <= n
  PROVE  Pow2[m] <= Pow2[n]
<1> DEFINE S == {k \in Nat : Pow2[m] <= Pow2[m + k]}
<1>1. 0 \in S
  BY Pow2Facts
<1>2. ASSUME NEW k \in Nat, k \in S PROVE k + 1 \in S
  <2>1. m + k \in Nat /\ m + (k + 1) = (m + k) + 1
    OBVIOUS
  <2>2. Pow2[m] \in Nat /\ Pow2[m + k] \in Nat /\ Pow2[m + (k + 1)] = 2 * Pow2[m + k]
    BY <2>1, Pow2Facts
  <2> QED BY <1>2, <2>2
<1> HIDE DEF S
<1>3. \A k \in Nat : k \in S
  BY <1>1, <1>2, SetInduction
<1>4. n - m \in Nat /\ m + (n - m) = n
  OBVIOUS
<1> QED BY <1>3, <1>4 DEF S

-----------------------------------------------------------------------------
(* The restart policy.  Of the backoff most proofs need only that it is an *)
(* integer; its value is the subject of the last ones.                     *)

(* The backoff arithmetic of observe_exited yields an integer.             *)
LEMMA DelayInt ==
  ASSUME NEW n \in Nat
  PROVE  Delay(n) \in Int
<1> DEFINE p == Pow2[Least(n, Bits - 1)]
           q == Pow2[Bits] - 1
<1>1. Least(n, Bits - 1) \in Nat
  BY BoundsAssumption DEF Least
<1>2. p \in Int /\ q \in Int
  BY <1>1, BoundsAssumption, Pow2Facts
<1> HIDE DEF p, q
<1>3. Initial * p \in Int
  BY <1>2, ConfigAssumption
<1> QED BY <1>2, <1>3, ConfigAssumption DEF Delay, Saturated, Least, p, q

(* The policy starts with its whole budget.                                *)
LEMMA InitInv == Init => IInv
<1> SUFFICES ASSUME Init PROVE IInv
  OBVIOUS
<1>1. TypeOK
  BY DEF Init, TypeOK, Default
<1> QED BY <1>1, ConfigAssumption DEF Init, IInv, BudgetKept, Default

(* What leaves the policy and its history alone keeps the invariant.       *)
LEMMA KeepsInv ==
  ASSUME IInv, TypeOK', UNCHANGED <<ar, history>>
  PROVE  IInv'
  BY DEF IInv, BudgetKept, history

(* reset gives the whole budget back, whatever the state before.           *)
LEMMA ResetInv ==
  ASSUME ResetPolicy, TypeOK'
  PROVE  IInv'
  BY ConfigAssumption DEF ResetPolicy, IInv, BudgetKept, Default

(* Every decision of observe_exited keeps the invariant.                   *)
LEMMA DecisionInv ==
  ASSUME IInv, TypeOK', ReportExhausted \/ Schedule \/ Wait \/ Restart
  PROVE  IInv'
<1>1. CASE ReportExhausted
  BY <1>1 DEF ReportExhausted, IInv, TypeOK, BudgetKept
<1>2. CASE Schedule
  <2>1. count = 0
    <3>1. SUFFICES ASSUME count > 0 PROVE FALSE
      BY DEF IInv, TypeOK
    <3>2. last + Delay(count) \in Int
      BY <3>1, DelayInt DEF IInv, TypeOK
    <3> QED BY <1>2, <3>1, <3>2, BoundsAssumption DEF Schedule, IInv
  <2> QED BY <1>2, <2>1 DEF Schedule, IInv, TypeOK, BudgetKept, history
<1>3. CASE Wait
  BY <1>3 DEF Wait, IInv, TypeOK, BudgetKept, history
<1>4. CASE Restart
  <2>1. count' <= MaxRetries
    BY <1>4, ConfigAssumption DEF Restart, Exhausted, IInv, TypeOK
  <2> QED BY <1>4, <2>1 DEF Restart, IInv, TypeOK, BudgetKept
<1> QED BY <1>1, <1>2, <1>3, <1>4

(* Every step keeps the types.                                             *)
LEMMA TypeStep ==
  ASSUME TypeOK, [Next]_vars
  PROVE  TypeOK'
<1>1. CASE ListVms
  BY <1>1 DEF ListVms, TypeOK, vm, history
<1>2. CASE Sample
  <2> USE <1>2 DEF Sample, vm
  <2>1. /\ now' \in Nat /\ running' \in BOOLEAN /\ started' \in BOOLEAN
        /\ removing' \in BOOLEAN /\ listed' \in BOOLEAN \cup {None}
        /\ req' \in {"none", "start", "stop", "launching"}
    BY DEF TypeOK
  <2>2. CASE ResetPolicy /\ outage' = None /\ UNCHANGED auto
    BY <2>1, <2>2 DEF ResetPolicy, Default, TypeOK
  <2>3. CASE ObserveRunning
    <3> DEFINE since == IF ar.healthy_since = None THEN now ELSE ar.healthy_since
    <3>1. since \in Nat \cup {None}
      BY DEF TypeOK
    <3>2. CASE ResetPolicy
      BY <2>2, <2>3, <3>2 DEF ObserveRunning
    <3>3. CASE ~ResetPolicy
      <4>1. /\ ar' = [ar EXCEPT !.healthy_since = since]
            /\ UNCHANGED <<auto, count, last, reports>> /\ outage' = None
        BY <2>3, <3>3 DEF ObserveRunning
      <4> HIDE DEF since
      <4> QED BY <2>1, <3>1, <4>1 DEF TypeOK
    <3> QED BY <3>2, <3>3
  <2>4. CASE ObserveExited
    <3>1. outage' \in Nat \cup {None}
      BY <2>4 DEF ObserveExited, TypeOK
    <3> SUFFICES /\ ar' \in [attempts: Nat, next_retry: Int \cup {None},
                             healthy_since: Nat \cup {None}, exhausted_reported: BOOLEAN]
                 /\ auto' \in BOOLEAN
                 /\ count' \in Nat /\ reports' \in Nat /\ last' \in Nat \cup {None}
      BY <2>1, <3>1 DEF TypeOK
    <3> HIDE <1>2
    <3> DEFINE Policy == [attempts: Nat, next_retry: Int \cup {None},
                          healthy_since: Nat \cup {None}, exhausted_reported: BOOLEAN]
    <3>2. CASE ReportExhausted
      <4>1. ar' \in Policy
        BY <3>2, Zenon DEF ReportExhausted, TypeOK
      <4> QED BY <3>2, <4>1 DEF ReportExhausted, TypeOK
    <3>3. CASE Schedule
      <4>1. now + Initial \in Int
        BY ConfigAssumption DEF TypeOK
      <4>2. ar' \in Policy
        BY <3>3, <4>1, Zenon DEF Schedule, TypeOK
      <4> QED BY <3>3, <4>2 DEF Schedule, TypeOK, history
    <3>4. CASE Wait
      BY <3>4 DEF Wait, TypeOK, history
    <3>5. CASE Restart
      <4>1. ar.attempts + 1 \in Nat /\ now \in Nat
        BY DEF TypeOK
      <4>2. now + Delay(ar.attempts + 1) \in Int
        BY <4>1, DelayInt
      <4>3. ar' \in Policy
        BY <3>5, <4>1, <4>2, Zenon DEF Restart, TypeOK
      <4> QED BY <3>5, <4>3 DEF Restart, TypeOK
    <3> QED BY <2>4, <3>2, <3>3, <3>4, <3>5 DEF ObserveExited
  <2> QED BY <2>2, <2>3, <2>4
<1>3. CASE AutoRestarts
  BY <1>3 DEF AutoRestarts, TypeOK, history
<1>4. CASE StartVm
  BY <1>4 DEF StartVm, ResetPolicy, Default, TypeOK, vm
<1>5. CASE LaunchBegins
  BY <1>5 DEF LaunchBegins, TypeOK, history
<1>6. CASE LaunchEnds
  BY <1>6 DEF LaunchEnds, TypeOK, history
<1>7. CASE StopVm
  BY <1>7 DEF StopVm, ResetPolicy, Default, TypeOK, vm
<1>8. CASE StopTakesLock
  BY <1>8 DEF StopTakesLock, TypeOK, history
<1>9. CASE RemoveVm
  BY <1>9 DEF RemoveVm, TypeOK, history
<1>10. CASE VmExits
  BY <1>10 DEF VmExits, TypeOK, history
<1>11. CASE Tick
  BY <1>11 DEF Tick, TypeOK, vm, history
<1>12. CASE UNCHANGED vars
  BY <1>12 DEF vars, TypeOK, vm, history
<1> QED BY <1>1, <1>2, <1>3, <1>4, <1>5, <1>6, <1>7, <1>8, <1>9, <1>10, <1>11, <1>12
        DEF Next

(* Every step keeps the inductive invariant: it leaves the policy alone,   *)
(* resets it, or is a decision of observe_exited.                          *)
LEMMA StepInv ==
  ASSUME IInv, [Next]_vars
  PROVE  IInv'
<1>1. TypeOK'
  BY TypeStep DEF IInv
<1>2. CASE UNCHANGED <<ar, history>>
  BY <1>1, <1>2, KeepsInv
<1>3. CASE ResetPolicy
  BY <1>1, <1>3, ResetInv
<1>4. CASE ReportExhausted \/ Schedule \/ Wait \/ Restart
  BY <1>1, <1>4, DecisionInv
<1>5. CASE ObserveRunning
  <2>1. CASE ResetPolicy
    BY <2>1, <1>3
  <2>2. CASE ~ResetPolicy
    <3> DEFINE since == IF ar.healthy_since = None THEN now ELSE ar.healthy_since
    <3>1. ar' = [ar EXCEPT !.healthy_since = since] /\ UNCHANGED history
      BY <1>5, <2>2 DEF ObserveRunning, history
    <3> HIDE DEF since
    <3> QED BY <1>1, <3>1 DEF IInv, TypeOK, BudgetKept, history
  <2> QED BY <2>1, <2>2
<1>6. CASE Sample
  BY <1>6, <1>3, <1>4, <1>5 DEF Sample, ObserveExited
<1>7. CASE StartVm \/ StopVm
  BY <1>7, <1>3 DEF StartVm, StopVm
<1>8. CASE \/ ListVms \/ AutoRestarts \/ LaunchBegins \/ LaunchEnds
           \/ StopTakesLock \/ RemoveVm \/ VmExits \/ Tick
  BY <1>8, <1>2 DEF ListVms, AutoRestarts, LaunchBegins, LaunchEnds,
                    StopTakesLock, RemoveVm, VmExits, Tick
<1>9. CASE UNCHANGED vars
  BY <1>9, <1>2 DEF vars
<1> QED BY <1>6, <1>7, <1>8, <1>9 DEF Next

(* IInv is an invariant of the policy under any interleaving of the timer, *)
(* explicit starts, stops and removals, and exits of the VM.               *)
THEOREM InvariantHolds == Spec => []IInv
<1>1. IInv /\ [Next]_vars => IInv'
  BY StepInv
<1> QED BY InitInv, <1>1, PTL DEF Spec

(* The restart budget is never exceeded and its exhaustion is reported at  *)
(* most once, whatever the configuration of AutoRestartConfig.             *)
THEOREM BudgetKeptHolds == Spec => []BudgetKept
<1>1. IInv => BudgetKept
  BY DEF IInv
<1> QED BY InvariantHolds, <1>1, PTL

(* A restart that follows another one without a reset comes no earlier     *)
(* than the backoff observe_exited set when it decided on the former.      *)
THEOREM RestartsSpacedHolds == Spec => RestartsSpaced
<1> DEFINE Spaced == count' = count + 1 /\ count > 0 => ~(now < last + Delay(count))
<1>1. ASSUME IInv, [Next]_vars
      PROVE  Spaced \/ UNCHANGED vars
  <2> SUFFICES ASSUME count' = count + 1, count > 0
               PROVE  ~(now < last + Delay(count))
    OBVIOUS
  <2>1. count \in Nat /\ ar.next_retry = last + Delay(count)
    BY <1>1 DEF IInv, TypeOK
  <2>2. count' # count /\ count' # 0
    BY <2>1
  <2>3. Sample
    BY <1>1, <2>2 DEF Next, vars, history, ResetPolicy, ListVms, AutoRestarts, StartVm,
       LaunchBegins, LaunchEnds, StopVm, StopTakesLock, RemoveVm, VmExits, Tick
  <2>4. Restart
    BY <2>2, <2>3 DEF Sample, ObserveRunning, ObserveExited, ResetPolicy,
       ReportExhausted, Schedule, Wait, history
  <2> QED BY <2>1, <2>4 DEF Restart, Due
<1>2. IInv /\ [Next]_vars => [Spaced]_vars
  BY <1>1
<1> QED BY InvariantHolds, <1>2, PTL DEF Spec, RestartsSpaced

(* Multiplying by a number keeps the order.                                *)
LEMMA ProductGrows ==
  ASSUME NEW c \in Nat, NEW a \in Nat, NEW b \in Nat, a <= b
  PROVE  c * a <= c * b
<1>1. b - a \in Nat /\ c * b = c * a + c * (b - a)
  BY SMT
<1>2. c * (b - a) \in Nat /\ c * a \in Nat
  BY <1>1, SMT
<1> QED BY <1>1, <1>2

(* The capped shift and the saturating product compute the doubled delay:  *)
(* where the cap bites, the delay has reached max_backoff.                 *)
LEMMA DelayDoubles ==
    ASSUME NEW n \in Nat, MaxBackoff <= Pow2[Bits] - 1,
           n < Bits \/ MaxBackoff <= Initial * Pow2[Bits - 1]
    PROVE  Delay(n) = Least(Initial * Pow2[n], MaxBackoff)
<1> DEFINE cap == Least(n, Bits - 1)
           x == Initial * Pow2[cap]
           y == Initial * Pow2[n]
           m == Pow2[Bits] - 1
<1>1. Bits - 1 \in Nat /\ cap \in Nat /\ Bits \in Nat
  BY BoundsAssumption DEF Least
<1>2. Initial \in Nat /\ MaxBackoff \in Nat
  BY ConfigAssumption
<1>3. x \in Int /\ y \in Int /\ m \in Int /\ MaxBackoff <= m
  <2>1. Pow2[cap] \in Nat /\ Pow2[n] \in Nat /\ Pow2[Bits] \in Nat
    BY <1>1, Pow2Facts
  <2> QED BY <1>2, <2>1
<1>4. Delay(n) = Least(Least(x, m), MaxBackoff)
  BY DEF Delay, Saturated
<1>5. CASE n < Bits
  <2>1. cap = n
    BY <1>1, <1>5 DEF Least
  <2> QED BY <1>2, <1>3, <1>4, <2>1 DEF Least
<1>6. CASE ~(n < Bits)
  <2>1. cap = Bits - 1 /\ Bits - 1 <= n
    BY <1>1, <1>6 DEF Least
  <2>2. Pow2[cap] \in Nat /\ Pow2[n] \in Nat /\ Pow2[cap] <= Pow2[n]
    BY <1>1, <2>1, Pow2Facts, Pow2Grows
  <2>3. x <= y
    BY <1>2, <2>2, ProductGrows
  <2>4. MaxBackoff <= x
    BY <1>6, <2>1
  <2>5. Least(Least(x, m), MaxBackoff) = Least(y, MaxBackoff)
    <3> HIDE DEF x, y, m
    <3> QED BY <1>2, <1>3, <2>3, <2>4 DEF Least
  <2> QED BY <1>4, <2>5
<1> QED BY <1>5, <1>6

(* The retry that is due is the doubled delay after the last restart, for  *)
(* any number of retries: neither the capped shift nor saturating_mul of   *)
(* observe_exited loses anything against max_backoff, if that fits the     *)
(* arithmetic and is reached by the longest shift, should it be used.      *)
THEOREM BackoffDoublesHolds ==
    ASSUME MaxBackoff <= Pow2[Bits] - 1,
           MaxRetries < Bits \/ MaxBackoff <= Initial * Pow2[Bits - 1]
    PROVE  Spec => []BackoffDoubles
<1>1. IInv => BackoffDoubles
  <2> SUFFICES ASSUME IInv, count > 0
               PROVE  ar.next_retry = last + Least(Initial * Pow2[count], MaxBackoff)
    BY DEF BackoffDoubles
  <2>1. count \in Nat /\ count <= MaxRetries /\ ar.next_retry = last + Delay(count)
    BY DEF IInv, TypeOK, BudgetKept
  <2>2. count < Bits \/ MaxBackoff <= Initial * Pow2[Bits - 1]
    BY <2>1, ConfigAssumption, BoundsAssumption
  <2>3. Delay(count) = Least(Initial * Pow2[count], MaxBackoff)
    BY <2>1, <2>2, DelayDoubles
  <2> QED BY <2>1, <2>3
<1> QED BY InvariantHolds, <1>1, PTL

-----------------------------------------------------------------------------
(* The CIDs: the inductive invariant.                                      *)

(* A VM without an entry that a reload can still give one.                 *)
Loadable(i) == vms[i] = NoId /\ (i \in disk \/ i = rl.cur)

(* The CID a VM has, or gets back when it is loaded: its process's.        *)
Claim(i) == IF vms[i] # NoId THEN vms[i] ELSE IF Loadable(i) THEN proc[i] ELSE NoId

(* A process of a loaded VM has the CID of the entry.                      *)
ProcHasCid == \A i \in VMs : vms[i] # NoId => proc[i] \in {NoId, vms[i]}

(* No two VMs claim one CID, and what is claimed is occupied: this, and    *)
(* not the CIDs of entries alone, is what a reload and a restart preserve. *)
ClaimsApart == \A i, j \in VMs : i # j /\ Claim(i) # NoId => Claim(i) # Claim(j)
ClaimsReserved == \A i \in VMs : Claim(i) # NoId => Claim(i) \in pool

(* Where a reload and the start-up scan can be.                            *)
Phases == /\ rl.op = "boot" => rl.pc \in {"load", "add"}
          /\ rl.pc = "idle" => rl.op # "reload"
          /\ rl.cur # NoId <=> rl.pc = "add"

(* The list a reload works with is right about whom it can load.           *)
ListIsCurrent ==
    rl.pc \in {"rebuild", "dirs", "compare", "load", "add"} =>
        \A i \in VMs : Loadable(i) => proc[i] = rl.occ[i]

(* No directory is made between the listing and the comparison.            *)
DirsListed == rl.pc = "compare" => disk \subseteq rl.dirs

(* Removals that run during a reload are of VMs it does not load.          *)
RemovalsApart ==
    /\ rl.pc \in {"rebuild", "dirs", "compare"} \/ rl.op = "boot" => \A i \in VMs : rm[i] = "idle"
    /\ rl.pc \in {"load", "add"} => \A i \in VMs : rm[i] # "idle" => i \notin disk /\ i # rl.cur

(* What a reload may release at its end is claimed by nobody it could load.*)
HadApart ==
    rl.pc \in {"load", "add", "tidy"} => \A i \in VMs : Loadable(i) => proc[i] \notin rl.had

(* The directory of a VM with an entry is gone when a removal forgets it.  *)
MarkedGo ==
    /\ rl.again \cap disk \subseteq marked
    /\ \A i \in VMs : vms[i] # NoId =>
         /\ rm[i] \in {"stop", "delete"} /\ i \in disk => i \in marked
         /\ rm[i] = "forget" => i \notin disk

CidsIInv == /\ CidsTypeOK /\ ProcHasCid /\ ClaimsApart /\ ClaimsReserved /\ Phases
            /\ ListIsCurrent /\ DirsListed /\ RemovalsApart /\ HadApart /\ MarkedGo

-----------------------------------------------------------------------------
(* IdPool.allocate hands out a CID of the range that is not occupied.      *)
LEMMA LowestFree ==
  ASSUME FreeCids # {}
  PROVE  Lowest \in Cids /\ Lowest \notin pool
<1>1. FreeCids \in SUBSET Nat
  BY PoolAssumption DEF FreeCids, Cids
<1>2. \E c \in FreeCids : \A d \in FreeCids : c <= d
  BY <1>1, LowestOfSet
<1>3. Lowest \in FreeCids
  BY <1>2 DEF Lowest
<1> QED BY <1>3 DEF FreeCids

(* What loading a VM does: nothing, or its entry gets the CID assigned to  *)
(* it, or one that was free.                                               *)
LEMMA LoadEffect ==
  ASSUME NEW i \in VMs, NEW c \in CidOrNoId, Load(i, c)
  PROVE  \/ UNCHANGED <<vms, pool>> /\ (vms[i] # NoId \/ c = NoId)
         \/ /\ vms[i] = NoId
            /\ \E d \in Cids : /\ vms' = [vms EXCEPT ![i] = d]
                               /\ \/ d = c /\ pool' = pool
                                  \/ c = NoId /\ d \notin pool /\ pool' = pool \cup {d}
<1>1. CASE vms[i] # NoId /\ UNCHANGED <<vms, pool>>
  BY <1>1
<1>2. CASE /\ vms[i] = NoId /\ c # NoId
           /\ vms' = [vms EXCEPT ![i] = c] /\ UNCHANGED pool
  BY <1>2 DEF CidOrNoId
<1>3. CASE /\ vms[i] = NoId /\ c = NoId
           /\ IF FreeCids = {} THEN UNCHANGED <<vms, pool>>
              ELSE vms' = [vms EXCEPT ![i] = Lowest] /\ pool' = pool \cup {Lowest}
  BY <1>3, LowestFree
<1> QED BY <1>1, <1>2, <1>3 DEF Load

(* NoId is not a CID.                                                      *)
LEMMA NoIdNoCid == NoId \notin Cids
  BY PoolAssumption, NoIdAssumption DEF Cids

(* What a removal spawned for a set of VMs leaves.                         *)
LEMMA SpawnedType ==
  ASSUME CidsTypeOK, NEW S
  PROVE  /\ Spawned(S) \in [VMs -> {"idle", "stop", "delete", "forget"}]
         /\ \A i \in VMs : Spawned(S)[i] = rm[i] \/ (i \in S /\ Spawned(S)[i] = "stop")
  BY DEF CidsTypeOK, Spawned

(* The CIDs in use are CIDs.                                               *)
LEMMA UsedType ==
  ASSUME NEW f \in [VMs -> CidOrNoId]
  PROVE  Used(f) \subseteq Cids /\ \A i \in VMs : f[i] # NoId => f[i] \in Used(f)
  BY DEF Used, CidOrNoId

(* Reading one VM's files: it is loaded next, or reading failed.           *)
LEMMA ReadEffect ==
  ASSUME CidsTypeOK, NEW i \in VMs, ReloadRead(i)
  PROVE  \E again \in SUBSET VMs :
           /\ again \subseteq rl.again \cup (marked \cap {i})
           /\ \/ i \in disk /\ rl' = [rl EXCEPT !.todo = rl.todo \ {i}, !.again = again,
                                                !.pc = "add", !.cur = i]
              \/ rl' = [rl EXCEPT !.todo = rl.todo \ {i}, !.again = again,
                                  !.pc = "load", !.cur = NoId]
<1> DEFINE again == IF i \in marked THEN rl.again \cup {i} ELSE rl.again
<1>1. again \in SUBSET VMs /\ again \subseteq rl.again \cup (marked \cap {i})
  BY DEF CidsTypeOK
<1>2. PICK ok \in BOOLEAN :
        /\ ok => i \in disk
        /\ rl' = [rl EXCEPT !.todo = @ \ {i}, !.again = IF i \in marked THEN @ \cup {i} ELSE @,
                            !.pc = IF ok THEN "add" ELSE "load", !.cur = IF ok THEN i ELSE NoId]
  BY DEF ReloadRead
<1>3. \/ /\ i \in disk
         /\ rl' = [rl EXCEPT !.todo = rl.todo \ {i}, !.again = again, !.pc = "add", !.cur = i]
      \/ rl' = [rl EXCEPT !.todo = rl.todo \ {i}, !.again = again, !.pc = "load", !.cur = NoId]
  <2>1. CASE ok
    BY <1>2, <2>1
  <2>2. CASE ~ok
    BY <1>2, <2>2
  <2> QED BY <2>1, <2>2
<1> HIDE DEF again
<1> QED BY <1>1, <1>3

-----------------------------------------------------------------------------
(* Every step keeps the types.                                             *)
LEMMA CidsTypeStep ==
  ASSUME CidsTypeOK, Phases, [CidsNext]_cidsVars
  PROVE  CidsTypeOK'
<1> USE DEF CidsTypeOK
<1>1. ASSUME NEW i \in VMs, DirDeleted(i) PROVE CidsTypeOK'
  BY <1>1 DEF DirDeleted
<1>2. ASSUME NEW i \in VMs, Create(i) PROVE CidsTypeOK'
  <2>1. vms' \in [VMs -> CidOrNoId] /\ pool' \subseteq Cids
    BY <1>2, LoadEffect DEF Create, CidOrNoId
  <2> QED BY <1>2, <2>1 DEF Create
<1>3. ASSUME NEW i \in VMs, Launch(i) PROVE CidsTypeOK'
  BY <1>3 DEF Launch
<1>4. ASSUME NEW i \in VMs, Remove(i) PROVE CidsTypeOK'
  BY <1>4 DEF Remove
<1>5. ASSUME NEW i \in VMs, RmStop(i) PROVE CidsTypeOK'
  BY <1>5 DEF RmStop, CidOrNoId
<1>6. ASSUME NEW i \in VMs, RmDelete(i) PROVE CidsTypeOK'
  BY <1>6 DEF RmDelete
<1>7. ASSUME NEW i \in VMs, RmForget(i) PROVE CidsTypeOK'
  BY <1>7 DEF RmForget, CidOrNoId
<1>8. ASSUME NEW i \in VMs, ReloadRead(i) PROVE CidsTypeOK'
  <2>1. PICK again \in SUBSET VMs :
          \/ rl' = [rl EXCEPT !.todo = rl.todo \ {i}, !.again = again, !.pc = "add", !.cur = i]
          \/ rl' = [rl EXCEPT !.todo = rl.todo \ {i}, !.again = again, !.pc = "load", !.cur = NoId]
    BY <1>8, ReadEffect
  <2>2. UNCHANGED <<vms, pool, proc, disk, marked, rm, crashes>>
    BY <1>8 DEF ReloadRead
  <2>3. rl.todo \ {i} \in SUBSET VMs
    OBVIOUS
  <2>4. CASE rl' = [rl EXCEPT !.todo = rl.todo \ {i}, !.again = again, !.pc = "add", !.cur = i]
    BY <2>2, <2>3, <2>4
  <2>5. CASE rl' = [rl EXCEPT !.todo = rl.todo \ {i}, !.again = again, !.pc = "load", !.cur = NoId]
    BY <2>2, <2>3, <2>5
  <2> QED BY <2>1, <2>4, <2>5
<1>9. CASE ReloadBegin
  BY <1>9 DEF ReloadBegin, NoReload
<1>10. CASE ReloadRebuild
  <2>1. Reserved \subseteq Cids
    BY UsedType DEF Reserved
  <2> QED BY <1>10, <2>1 DEF ReloadRebuild
<1>11. CASE ReloadDirs
  BY <1>11 DEF ReloadDirs
<1>12. CASE ReloadCompare
  <2>1. Used(vms) \subseteq Cids
    BY UsedType
  <2> QED BY <1>12, <2>1, SpawnedType DEF ReloadCompare
<1>13. CASE ReloadAdd
  <2>1. rl.cur \in VMs /\ rl.occ[rl.cur] \in CidOrNoId
    BY <1>13 DEF ReloadAdd, Phases
  <2>2. vms' \in [VMs -> CidOrNoId] /\ pool' \subseteq Cids
    BY <1>13, <2>1, LoadEffect DEF ReloadAdd, CidOrNoId
  <2> QED BY <1>13, <2>2 DEF ReloadAdd
<1>14. CASE ReloadResume
  BY <1>14, SpawnedType DEF ReloadResume, NoReload, CidOrNoId
<1>15. CASE ReloadTidy
  BY <1>15 DEF ReloadTidy, NoReload, CidOrNoId
<1>16. CASE Crash
  <2>1. Used(proc) \subseteq Cids
    BY UsedType
  <2>2. crashes' \in 0..MaxCrashes
    BY <1>16, PoolAssumption DEF Crash
  <2>3. rl' = [op |-> "boot", pc |-> "load", occ |-> proc, dirs |-> {},
               had |-> {}, todo |-> disk, cur |-> NoId, again |-> {}]
    BY <1>16 DEF Crash, NoReload
  <2> QED BY <1>16, <2>1, <2>2, <2>3 DEF Crash, CidOrNoId
<1>17. CASE UNCHANGED cidsVars
  BY <1>17 DEF cidsVars
<1> QED BY <1>1, <1>2, <1>3, <1>4, <1>5, <1>6, <1>7, <1>8, <1>9, <1>10, <1>11,
            <1>12, <1>13, <1>14, <1>15, <1>16, <1>17 DEF CidsNext


-----------------------------------------------------------------------------
(* Claims that stay or go, and that the pool keeps.                        *)
LEMMA ClaimsKeep ==
  ASSUME ClaimsApart,
         \A i \in VMs : Claim(i)' \in {Claim(i), NoId},
         \A i \in VMs : Claim(i)' # NoId => Claim(i) \in pool'
  PROVE  ClaimsApart' /\ ClaimsReserved'
<1> DEFINE before(i) == Claim(i)
           after(i) == Claim(i)'
<1>1. \A i, j \in VMs : i # j /\ before(i) # NoId => before(i) # before(j)
  BY DEF ClaimsApart
<1>2. \A i \in VMs : after(i) \in {before(i), NoId}
  OBVIOUS
<1>3. \A i \in VMs : after(i) # NoId => before(i) \in pool'
  OBVIOUS
<1> HIDE DEF before, after
<1>4. \A i, j \in VMs : i # j /\ after(i) # NoId => after(i) # after(j)
  BY <1>1, <1>2
<1>5. \A i \in VMs : after(i) # NoId => after(i) \in pool'
  BY <1>2, <1>3
<1>6. ClaimsApart'
  BY <1>4 DEF after, ClaimsApart
<1>7. ClaimsReserved'
  BY <1>5 DEF after, ClaimsReserved
<1> QED BY <1>6, <1>7

(* The invariant is about what the variables hold.                         *)
LEMMA StutterInv ==
  ASSUME CidsIInv, UNCHANGED cidsVars
  PROVE  CidsIInv'
<1> USE DEF CidsIInv, cidsVars
<1>1. CidsTypeOK' /\ ProcHasCid' /\ Phases' /\ DirsListed' /\ RemovalsApart' /\ MarkedGo'
  BY DEF CidsTypeOK, ProcHasCid, Phases, DirsListed, RemovalsApart, MarkedGo
<1>2. ListIsCurrent' /\ HadApart'
  BY DEF ListIsCurrent, HadApart, Loadable
<1>3. ClaimsApart' /\ ClaimsReserved'
  BY DEF ClaimsApart, ClaimsReserved, Claim, Loadable
<1> QED BY <1>1, <1>2, <1>3

(* A directory deleted by hand only takes claims away.                     *)
LEMMA DirDeletedInv ==
  ASSUME CidsIInv, CidsTypeOK', NEW i \in VMs, DirDeleted(i)
  PROVE  CidsIInv'
<1> USE DEF CidsIInv, DirDeleted
<1>1. \A j \in VMs : Loadable(j)' => Loadable(j)
  BY DEF Loadable
<1>2. ClaimsApart' /\ ClaimsReserved'
  <2>1. \A j \in VMs : Claim(j)' \in {Claim(j), NoId}
    BY <1>1 DEF Claim
  <2>2. \A j \in VMs : Claim(j)' # NoId => Claim(j) \in pool'
    BY <1>1 DEF Claim, ClaimsReserved
  <2> QED BY <2>1, <2>2, ClaimsKeep
<1>3. ProcHasCid' /\ Phases'
  BY DEF ProcHasCid, Phases
<1>4. ListIsCurrent' /\ HadApart'
  BY <1>1 DEF ListIsCurrent, HadApart
<1>5. DirsListed' /\ RemovalsApart'
  BY DEF DirsListed, RemovalsApart
<1>6. MarkedGo'
  BY DEF MarkedGo, CidsTypeOK
<1> QED BY <1>2, <1>3, <1>4, <1>5, <1>6

(* A new VM gets a CID that nobody claims.                                 *)
LEMMA CreateInv ==
  ASSUME CidsIInv, CidsTypeOK', "overlap" \notin Ops, NEW i \in VMs, Create(i)
  PROVE  CidsIInv'
<1> USE DEF CidsIInv
<1>1. CASE UNCHANGED <<vms, pool>>
  <2>1. UNCHANGED cidsVars
    BY <1>1 DEF Create, cidsVars
  <2> QED BY <2>1, StutterInv
<1>2. CASE \E d \in Cids : /\ vms' = [vms EXCEPT ![i] = d]
                           /\ d \notin pool /\ pool' = pool \cup {d}
  <2>1. PICK d \in Cids : vms' = [vms EXCEPT ![i] = d] /\ d \notin pool /\ pool' = pool \cup {d}
    BY <1>2
  <2>2. /\ i \notin disk /\ vms[i] = NoId /\ proc[i] = NoId /\ rm[i] = "idle" /\ rl.cur # i
        /\ i \notin rl.again /\ rl.pc # "compare" /\ rl.op # "boot"
        /\ UNCHANGED <<proc, marked, rm, rl>>
    BY DEF Create, Serving
  <2>3. d # NoId /\ vms'[i] = d
    BY <2>1, NoIdNoCid DEF CidsTypeOK
  <2>4. disk' = disk \cup {i}
    BY <2>3 DEF Create
  <2>5. \A j \in VMs \ {i} : vms'[j] = vms[j] /\ (j \in disk' <=> j \in disk)
    BY <2>1, <2>4 DEF CidsTypeOK
  <2>6. \A j \in VMs : Loadable(j)' <=> Loadable(j)
    BY <2>2, <2>3, <2>5 DEF Loadable
  <2>7. Claim(i)' = d /\ Claim(i) = NoId
    BY <2>2, <2>3 DEF Claim, Loadable
  <2>8. \A j \in VMs \ {i} : Claim(j)' = Claim(j)
    BY <2>2, <2>5, <2>6 DEF Claim
  <2>9. ClaimsReserved'
    BY <2>1, <2>7, <2>8 DEF ClaimsReserved
  <2>10. ClaimsApart'
    <3>1. \A j \in VMs : Claim(j) # d
      BY <2>1, <2>3 DEF ClaimsReserved
    <3> QED BY <2>7, <2>8, <3>1 DEF ClaimsApart
  <2>11. ProcHasCid' /\ Phases'
    BY <2>2, <2>5 DEF ProcHasCid, Phases
  <2>12. ListIsCurrent' /\ HadApart'
    BY <2>2, <2>6 DEF ListIsCurrent, HadApart
  <2>13. DirsListed' /\ RemovalsApart'
    BY <2>2, <2>4 DEF DirsListed, RemovalsApart
  <2>14. MarkedGo'
    BY <2>2, <2>4, <2>5 DEF MarkedGo
  <2> QED BY <2>9, <2>10, <2>11, <2>12, <2>13, <2>14
<1> QED BY <1>1, <1>2, LoadEffect, NoIdNoCid DEF Create, CidOrNoId

(* A launched process has the CID of its entry.                            *)
LEMMA LaunchInv ==
  ASSUME CidsIInv, CidsTypeOK', NEW i \in VMs, Launch(i)
  PROVE  CidsIInv'
<1> USE DEF CidsIInv
<1>1. /\ vms[i] # NoId /\ proc' = [proc EXCEPT ![i] = vms[i]]
      /\ UNCHANGED <<vms, pool, disk, marked, rm, rl>>
  BY DEF Launch
<1>2. proc'[i] = vms[i] /\ \A j \in VMs \ {i} : proc'[j] = proc[j]
  BY <1>1 DEF CidsTypeOK
<1>3. \A j \in VMs : Loadable(j)' <=> Loadable(j)
  BY <1>1 DEF Loadable
<1>4. \A j \in VMs : Loadable(j) => proc'[j] = proc[j]
  BY <1>1, <1>2 DEF Loadable
<1>5. \A j \in VMs : Claim(j)' = Claim(j)
  BY <1>1, <1>3, <1>4 DEF Claim
<1>6. ClaimsApart' /\ ClaimsReserved'
  BY <1>1, <1>5 DEF ClaimsApart, ClaimsReserved
<1>7. ProcHasCid' /\ Phases'
  BY <1>1, <1>2 DEF ProcHasCid, Phases
<1>8. ListIsCurrent' /\ HadApart'
  BY <1>1, <1>3, <1>4 DEF ListIsCurrent, HadApart
<1>9. DirsListed' /\ RemovalsApart' /\ MarkedGo'
  BY <1>1 DEF DirsListed, RemovalsApart, MarkedGo
<1> QED BY <1>6, <1>7, <1>8, <1>9

(* What leaves entries, processes, directories, the pool and the VM being  *)
(* loaded alone leaves the claims alone.                                   *)
LEMMA ClaimsSame ==
  ASSUME CidsIInv, UNCHANGED <<vms, proc, disk, pool>>, rl'.cur = rl.cur
  PROVE  /\ \A j \in VMs : Loadable(j)' <=> Loadable(j)
         /\ ProcHasCid' /\ ClaimsApart' /\ ClaimsReserved'
<1> USE DEF CidsIInv
<1>1. \A j \in VMs : Loadable(j)' <=> Loadable(j)
  BY DEF Loadable
<1>2. \A j \in VMs : Claim(j)' = Claim(j)
  BY <1>1 DEF Claim
<1>3. ClaimsApart' /\ ClaimsReserved'
  BY <1>2 DEF ClaimsApart, ClaimsReserved
<1> QED BY <1>1, <1>3 DEF ProcHasCid

(* Removals begin between reloads, with the marker.                        *)
LEMMA RemoveInv ==
  ASSUME CidsIInv, CidsTypeOK', "overlap" \notin Ops, NEW i \in VMs, Remove(i)
  PROVE  CidsIInv'
<1> USE DEF CidsIInv
<1>1. /\ rl.pc = "idle" /\ rl.op # "boot" /\ marked' = marked \cup {i}
      /\ rm' = [rm EXCEPT ![i] = "stop"] /\ UNCHANGED <<vms, pool, proc, disk, rl>>
  BY DEF Remove, Serving
<1>2. ProcHasCid' /\ ClaimsApart' /\ ClaimsReserved'
  BY <1>1, ClaimsSame
<1>3. Phases' /\ ListIsCurrent' /\ DirsListed' /\ RemovalsApart' /\ HadApart'
  BY <1>1 DEF Phases, ListIsCurrent, DirsListed, RemovalsApart, HadApart
<1>4. MarkedGo'
  BY <1>1 DEF MarkedGo, CidsTypeOK
<1> QED BY <1>2, <1>3, <1>4

(* A removal stops no process whose CID a reload under way still needs.    *)
LEMMA RmStopInv ==
  ASSUME CidsIInv, CidsTypeOK', NEW i \in VMs, RmStop(i)
  PROVE  CidsIInv'
<1> USE DEF CidsIInv
<1>1. /\ rm[i] = "stop" /\ rm' = [rm EXCEPT ![i] = "delete"]
      /\ UNCHANGED <<vms, pool, disk, marked, rl>>
  BY DEF RmStop
<1>2. \A j \in VMs : proc'[j] = proc[j] \/ (j = i /\ proc'[j] = NoId)
  BY DEF RmStop, CidsTypeOK
<1>3. \A j \in VMs : Loadable(j)' <=> Loadable(j)
  BY <1>1 DEF Loadable
<1>4. \A j \in VMs : Claim(j)' \in {Claim(j), NoId}
  BY <1>1, <1>2, <1>3 DEF Claim
<1>5. ClaimsApart' /\ ClaimsReserved'
  <2>1. \A j \in VMs : Claim(j)' # NoId => Claim(j) \in pool'
    BY <1>1, <1>4 DEF ClaimsReserved
  <2> QED BY <1>4, <2>1, ClaimsKeep
<1>6. ProcHasCid' /\ Phases'
  BY <1>1, <1>2 DEF ProcHasCid, Phases
<1>7. ListIsCurrent'
  <2>1. rl.pc \in {"rebuild", "dirs", "compare", "load", "add"} => ~Loadable(i)
    BY <1>1 DEF RemovalsApart, Loadable
  <2> QED BY <1>1, <1>2, <1>3, <2>1 DEF ListIsCurrent
<1>8. HadApart'
  <2>1. NoId \notin rl.had
    BY NoIdNoCid DEF CidsTypeOK
  <2> QED BY <1>1, <1>2, <1>3, <2>1 DEF HadApart
<1>9. DirsListed' /\ RemovalsApart'
  BY <1>1 DEF DirsListed, RemovalsApart, CidsTypeOK
<1>10. MarkedGo'
  BY <1>1 DEF MarkedGo, CidsTypeOK
<1> QED BY <1>5, <1>6, <1>7, <1>8, <1>9, <1>10

(* The directory of a marked VM goes before its entry does.                *)
LEMMA RmDeleteInv ==
  ASSUME CidsIInv, CidsTypeOK', NEW i \in VMs, RmDelete(i)
  PROVE  CidsIInv'
<1> USE DEF CidsIInv
<1>1. /\ rm[i] = "delete" /\ rm' = [rm EXCEPT ![i] = "forget"]
      /\ disk' = disk \ (marked \cap {i}) /\ marked' = marked \ {i}
      /\ UNCHANGED <<vms, pool, proc, rl>>
  BY DEF RmDelete
<1>2. \A j \in VMs : Loadable(j)' => Loadable(j)
  BY <1>1 DEF Loadable
<1>3. ClaimsApart' /\ ClaimsReserved'
  <2>1. \A j \in VMs : Claim(j)' \in {Claim(j), NoId}
    BY <1>1, <1>2 DEF Claim
  <2>2. \A j \in VMs : Claim(j)' # NoId => Claim(j) \in pool'
    BY <1>1, <2>1 DEF ClaimsReserved
  <2> QED BY <2>1, <2>2, ClaimsKeep
<1>4. ProcHasCid' /\ Phases'
  BY <1>1 DEF ProcHasCid, Phases
<1>5. ListIsCurrent' /\ HadApart'
  BY <1>1, <1>2 DEF ListIsCurrent, HadApart
<1>6. DirsListed' /\ RemovalsApart'
  BY <1>1 DEF DirsListed, RemovalsApart, CidsTypeOK
<1>7. MarkedGo'
  BY <1>1 DEF MarkedGo, CidsTypeOK
<1> QED BY <1>3, <1>4, <1>5, <1>6, <1>7

(* A forgotten VM has no directory to be loaded from, so nobody claims the *)
(* CID that is released.                                                   *)
LEMMA RmForgetInv ==
  ASSUME CidsIInv, CidsTypeOK', NEW i \in VMs, RmForget(i)
  PROVE  CidsIInv'
<1> USE DEF CidsIInv
<1>1. /\ rm[i] = "forget" /\ rm' = [rm EXCEPT ![i] = "idle"]
      /\ vms' = [vms EXCEPT ![i] = NoId] /\ pool' = pool \ {vms[i]}
      /\ UNCHANGED <<proc, disk, marked, rl>>
  BY DEF RmForget
<1>2. vms'[i] = NoId /\ \A j \in VMs \ {i} : vms'[j] = vms[j]
  BY <1>1 DEF CidsTypeOK
<1>3. vms[i] # NoId => i \notin disk /\ i # rl.cur
  BY <1>1, NoIdAssumption DEF MarkedGo, RemovalsApart, Phases
<1>4. \A j \in VMs : Loadable(j)' <=> Loadable(j)
  BY <1>1, <1>2, <1>3 DEF Loadable
<1>5. Claim(i)' = IF vms[i] = NoId THEN Claim(i) ELSE NoId
  BY <1>1, <1>2, <1>3, <1>4 DEF Claim, Loadable
<1>6. \A j \in VMs \ {i} : Claim(j)' = Claim(j)
  BY <1>1, <1>2, <1>4 DEF Claim
<1>7. ClaimsApart' /\ ClaimsReserved'
  <2>1. \A j \in VMs : Claim(j)' \in {Claim(j), NoId}
    BY <1>5, <1>6
  <2>2. \A j \in VMs : Claim(j)' # NoId => Claim(j) # vms[i]
    <3>1. vms[i] # NoId => Claim(i) = vms[i] /\ Claim(i)' = NoId
      BY <1>5 DEF Claim
    <3> QED BY <2>1, <3>1 DEF ClaimsApart
  <2>3. \A j \in VMs : Claim(j)' # NoId => Claim(j) \in pool'
    BY <1>1, <2>1, <2>2 DEF ClaimsReserved
  <2> QED BY <2>1, <2>3, ClaimsKeep
<1>8. ProcHasCid' /\ Phases'
  BY <1>1, <1>2 DEF ProcHasCid, Phases
<1>9. ListIsCurrent' /\ HadApart'
  BY <1>1, <1>4 DEF ListIsCurrent, HadApart
<1>10. DirsListed' /\ RemovalsApart'
  BY <1>1 DEF DirsListed, RemovalsApart, CidsTypeOK
<1>11. MarkedGo'
  BY <1>1, <1>2 DEF MarkedGo, CidsTypeOK
<1> QED BY <1>7, <1>8, <1>9, <1>10, <1>11

(* Reading a VM's files changes no claim.                                  *)
LEMMA ReloadReadInv ==
  ASSUME CidsIInv, CidsTypeOK', NEW i \in VMs, ReloadRead(i)
  PROVE  CidsIInv'
<1> USE DEF CidsIInv
<1>1. rl.pc = "load" /\ rl.cur = NoId /\ UNCHANGED <<vms, pool, proc, disk, marked, rm>>
  BY DEF ReloadRead, Phases
<1>2. PICK again \in SUBSET VMs :
        /\ again \subseteq rl.again \cup (marked \cap {i})
        /\ \/ i \in disk /\ rl' = [rl EXCEPT !.todo = rl.todo \ {i}, !.again = again,
                                             !.pc = "add", !.cur = i]
           \/ rl' = [rl EXCEPT !.todo = rl.todo \ {i}, !.again = again,
                               !.pc = "load", !.cur = NoId]
  BY ReadEffect
<1>3. /\ rl'.op = rl.op /\ rl'.occ = rl.occ /\ rl'.had = rl.had /\ rl'.again = again
      /\ \/ i \in disk /\ rl'.pc = "add" /\ rl'.cur = i
         \/ rl'.pc = "load" /\ rl'.cur = NoId
  BY <1>2 DEF CidsTypeOK
<1>4. \A j \in VMs : Loadable(j)' <=> Loadable(j)
  BY <1>1, <1>3, NoIdAssumption DEF Loadable
<1>5. \A j \in VMs : Claim(j)' = Claim(j)
  BY <1>1, <1>4 DEF Claim
<1>6. ClaimsApart' /\ ClaimsReserved' /\ ProcHasCid'
  BY <1>1, <1>5 DEF ClaimsApart, ClaimsReserved, ProcHasCid
<1>7. ListIsCurrent' /\ HadApart'
  BY <1>1, <1>3, <1>4 DEF ListIsCurrent, HadApart
<1>8. Phases' /\ DirsListed'
  BY <1>1, <1>3, NoIdAssumption DEF Phases, DirsListed
<1>9. RemovalsApart'
  BY <1>1, <1>3, NoIdAssumption DEF RemovalsApart
<1>10. MarkedGo'
  BY <1>1, <1>2, <1>3 DEF MarkedGo
<1> QED BY <1>6, <1>7, <1>8, <1>9, <1>10

(* A reload starts when no removal is under way, from the present list.    *)
LEMMA ReloadBeginInv ==
  ASSUME CidsIInv, CidsTypeOK', "overlap" \notin Ops, ReloadBegin
  PROVE  CidsIInv'
<1> USE DEF CidsIInv
<1>1. /\ rl.pc = "idle" /\ rl.cur = NoId /\ \A i \in VMs : rm[i] = "idle"
      /\ UNCHANGED <<vms, pool, proc, disk, marked, rm>>
  BY DEF ReloadBegin, Phases
<1>2. /\ rl'.op = "reload" /\ rl'.pc = "rebuild" /\ rl'.occ = proc
      /\ rl'.cur = NoId /\ rl'.again = {}
  BY DEF ReloadBegin, NoReload
<1>3. ProcHasCid' /\ ClaimsApart' /\ ClaimsReserved'
  BY <1>1, <1>2, ClaimsSame
<1>4. Phases' /\ ListIsCurrent' /\ DirsListed' /\ RemovalsApart' /\ HadApart' /\ MarkedGo'
  BY <1>1, <1>2 DEF Phases, ListIsCurrent, DirsListed, RemovalsApart, HadApart, MarkedGo
<1> QED BY <1>3, <1>4

(* The rebuilt pool has the claims: those of entries, and those of listed  *)
(* processes.                                                              *)
LEMMA ReloadRebuildInv ==
  ASSUME CidsIInv, CidsTypeOK', ReloadRebuild
  PROVE  CidsIInv'
<1> USE DEF CidsIInv
<1>1. /\ rl.pc = "rebuild" /\ pool' = Used(vms) \cup Used(rl.occ)
      /\ UNCHANGED <<vms, proc, disk, marked, rm>>
  BY DEF ReloadRebuild, Reserved
<1>2. /\ rl'.op = rl.op /\ rl'.pc = "dirs" /\ rl'.occ = rl.occ
      /\ rl'.cur = rl.cur /\ rl'.again = rl.again /\ rl.op = "reload"
  BY DEF ReloadRebuild, CidsTypeOK
<1>3. \A j \in VMs : Loadable(j)' <=> Loadable(j)
  BY <1>1, <1>2 DEF Loadable
<1>4. \A j \in VMs : Claim(j)' = Claim(j)
  BY <1>1, <1>3 DEF Claim
<1>5. \A j \in VMs : Claim(j) # NoId => Claim(j) \in pool'
  <2>1. \A j \in VMs : vms[j] # NoId => vms[j] \in pool'
    BY <1>1, UsedType DEF CidsTypeOK
  <2>2. \A j \in VMs : rl.occ[j] # NoId => rl.occ[j] \in pool'
    BY <1>1, UsedType DEF CidsTypeOK
  <2>3. \A j \in VMs : Loadable(j) => proc[j] = rl.occ[j]
    BY <1>1 DEF ListIsCurrent
  <2> QED BY <2>1, <2>2, <2>3 DEF Claim
<1>6. ProcHasCid' /\ ClaimsApart' /\ ClaimsReserved'
  BY <1>1, <1>4, <1>5 DEF ProcHasCid, ClaimsApart, ClaimsReserved
<1>7. Phases' /\ ListIsCurrent' /\ DirsListed' /\ RemovalsApart' /\ HadApart' /\ MarkedGo'
  BY <1>1, <1>2, <1>3 DEF Phases, ListIsCurrent, DirsListed, RemovalsApart, HadApart, MarkedGo
<1> QED BY <1>6, <1>7

(* The directories are listed as they are.                                 *)
LEMMA ReloadDirsInv ==
  ASSUME CidsIInv, CidsTypeOK', ReloadDirs
  PROVE  CidsIInv'
<1> USE DEF CidsIInv
<1>1. rl.pc = "dirs" /\ UNCHANGED <<vms, pool, proc, disk, marked, rm>>
  BY DEF ReloadDirs
<1>2. /\ rl'.op = rl.op /\ rl'.pc = "compare" /\ rl'.occ = rl.occ /\ rl'.dirs = disk
      /\ rl'.cur = rl.cur /\ rl'.again = rl.again
  BY DEF ReloadDirs, CidsTypeOK
<1>3. /\ \A j \in VMs : Loadable(j)' <=> Loadable(j)
      /\ ProcHasCid' /\ ClaimsApart' /\ ClaimsReserved'
  BY <1>1, <1>2, ClaimsSame
<1>4. Phases' /\ ListIsCurrent' /\ DirsListed' /\ RemovalsApart' /\ HadApart' /\ MarkedGo'
  BY <1>1, <1>2, <1>3 DEF Phases, ListIsCurrent, DirsListed, RemovalsApart, HadApart, MarkedGo
<1> QED BY <1>3, <1>4

(* Removals spawned by the comparison are of VMs without a directory, and  *)
(* what entries have is claimed by nobody who may still be loaded.         *)
LEMMA ReloadCompareInv ==
  ASSUME CidsIInv, CidsTypeOK', ReloadCompare
  PROVE  CidsIInv'
<1> USE DEF CidsIInv
<1> DEFINE gone == {i \in VMs : vms[i] # NoId} \ rl.dirs
<1>1. /\ rl.pc = "compare" /\ rm' = Spawned(gone) /\ UNCHANGED <<vms, pool, proc, disk, marked>>
  BY DEF ReloadCompare
<1>2. /\ rl'.op = rl.op /\ rl'.pc = "load" /\ rl'.occ = rl.occ /\ rl'.had = Used(vms)
      /\ rl'.cur = rl.cur /\ rl'.again = rl.again /\ rl.cur = NoId /\ rl.op # "boot"
  BY <1>1 DEF ReloadCompare, CidsTypeOK, Phases
<1>3. \A i \in VMs : rm'[i] # "idle" => i \notin disk
  <2>1. gone \cap disk = {}
    BY <1>1 DEF DirsListed
  <2>2. \A i \in VMs : rm[i] = "idle"
    BY <1>1 DEF RemovalsApart
  <2> QED BY <1>1, <2>1, <2>2, SpawnedType
<1>4. /\ \A j \in VMs : Loadable(j)' <=> Loadable(j)
      /\ ProcHasCid' /\ ClaimsApart' /\ ClaimsReserved'
  BY <1>1, <1>2, ClaimsSame
<1>5. HadApart'
  <2>1. \A j \in VMs : Loadable(j) => proc[j] \notin Used(vms)
    <3> SUFFICES ASSUME NEW j \in VMs, Loadable(j), NEW k \in VMs, vms[k] # NoId
                 PROVE  proc[j] # vms[k]
      BY DEF Used
    <3>1. Claim(j) = proc[j] /\ Claim(k) = vms[k] /\ j # k
      BY DEF Claim, Loadable
    <3> QED BY <3>1 DEF ClaimsApart
  <2> QED BY <1>1, <1>2, <1>4, <2>1 DEF HadApart
<1>6. Phases' /\ ListIsCurrent' /\ DirsListed'
  BY <1>1, <1>2, <1>4 DEF Phases, ListIsCurrent, DirsListed
<1>7. RemovalsApart' /\ MarkedGo'
  BY <1>1, <1>2, <1>3, NoIdAssumption DEF RemovalsApart, MarkedGo
<1> QED BY <1>4, <1>5, <1>6, <1>7

(* Loading the VM that was read: it gets the CID it claims, or a free one. *)
LEMMA ReloadAddInv ==
  ASSUME CidsIInv, CidsTypeOK', ReloadAdd
  PROVE  CidsIInv'
<1> USE DEF CidsIInv
<1> PICK i \in VMs, c \in CidOrNoId : i = rl.cur /\ c = rl.occ[i]
  BY DEF ReloadAdd, Phases, CidsTypeOK
<1>1. rl.pc = "add" /\ Load(i, c) /\ UNCHANGED <<proc, disk, marked, rm>>
  BY DEF ReloadAdd
<1>2. /\ rl'.op = rl.op /\ rl'.pc = "load" /\ rl'.occ = rl.occ /\ rl'.had = rl.had
      /\ rl'.cur = NoId /\ rl'.again = rl.again
  BY DEF ReloadAdd, CidsTypeOK
<1>3. vms[i] = NoId => Loadable(i) /\ proc[i] = c /\ Claim(i) = c
  BY <1>1 DEF Loadable, ListIsCurrent, Claim
<1>4. rm[i] = "idle"
  BY <1>1 DEF RemovalsApart
<1>5. CASE UNCHANGED <<vms, pool>>
  <2>1. \A j \in VMs : Loadable(j)' => Loadable(j)
    BY <1>1, <1>2, <1>5, NoIdAssumption DEF Loadable
  <2>2. \A j \in VMs : Claim(j)' \in {Claim(j), NoId}
    BY <1>1, <1>5, <2>1 DEF Claim
  <2>3. \A j \in VMs : Claim(j)' # NoId => Claim(j) \in pool'
    BY <1>5, <2>2 DEF ClaimsReserved
  <2>4. ClaimsApart' /\ ClaimsReserved'
    BY <2>2, <2>3, ClaimsKeep
  <2>5. ListIsCurrent' /\ HadApart' /\ ProcHasCid'
    BY <1>1, <1>2, <1>5, <2>1 DEF ListIsCurrent, HadApart, ProcHasCid
  <2>6. Phases' /\ DirsListed' /\ RemovalsApart' /\ MarkedGo'
    BY <1>1, <1>2, <1>5, NoIdAssumption DEF Phases, DirsListed, RemovalsApart, MarkedGo
  <2> QED BY <2>4, <2>5, <2>6
<1>6. ASSUME vms[i] = NoId, NEW d \in Cids, vms' = [vms EXCEPT ![i] = d],
             \/ d = c /\ pool' = pool
             \/ c = NoId /\ d \notin pool /\ pool' = pool \cup {d}
      PROVE  CidsIInv'
  <2>1. d # NoId /\ vms'[i] = d /\ \A j \in VMs \ {i} : vms'[j] = vms[j]
    BY <1>1, <1>6, NoIdNoCid DEF CidsTypeOK
  <2>2. \A j \in VMs : Loadable(j)' <=> Loadable(j) /\ j # i
    BY <1>1, <1>2, <2>1, NoIdAssumption DEF Loadable
  <2>3. Claim(i)' = d /\ \A j \in VMs \ {i} : Claim(j)' = Claim(j)
    BY <1>1, <2>1, <2>2 DEF Claim
  <2>4. \A j \in VMs \ {i} : Claim(j) # d
    <3>1. CASE d = c
      BY <1>1, <1>3, <1>6, <2>1, <3>1 DEF ClaimsApart
    <3>2. CASE d \notin pool
      BY <2>1, <3>2 DEF ClaimsReserved
    <3> QED BY <1>6, <3>1, <3>2
  <2>5. d \in pool' /\ pool \subseteq pool'
    BY <1>1, <1>3, <1>6, <2>1 DEF ClaimsReserved
  <2>6. ClaimsApart'
    BY <1>1, <2>3, <2>4 DEF ClaimsApart
  <2>7. ClaimsReserved'
    BY <2>3, <2>5 DEF ClaimsReserved
  <2>8. ProcHasCid'
    BY <1>1, <1>3, <1>6, <2>1 DEF ProcHasCid
  <2>9. ListIsCurrent' /\ HadApart'
    BY <1>1, <1>2, <2>2 DEF ListIsCurrent, HadApart
  <2>10. Phases' /\ DirsListed' /\ RemovalsApart'
    BY <1>1, <1>2, NoIdAssumption DEF Phases, DirsListed, RemovalsApart
  <2>11. MarkedGo'
    BY <1>1, <1>2, <1>4, <2>1 DEF MarkedGo
  <2> QED BY <2>6, <2>7, <2>8, <2>9, <2>10, <2>11
<1> QED BY <1>1, <1>5, <1>6, LoadEffect

(* Resumed removals are of marked VMs, or of VMs without an entry.         *)
LEMMA ReloadResumeInv ==
  ASSUME CidsIInv, CidsTypeOK', ReloadResume
  PROVE  CidsIInv'
<1> USE DEF CidsIInv
<1> DEFINE set == rl.again \cup {i \in VMs : rl.op = "boot" /\ rl.occ[i] # NoId /\ vms[i] = NoId}
<1>1. /\ rl.pc = "load" /\ rl.cur = NoId /\ rm' = Spawned(set)
      /\ UNCHANGED <<vms, pool, proc, disk, marked>>
  BY DEF ReloadResume, Phases
<1>2. /\ rl'.cur = NoId /\ rl'.again = {}
      /\ \/ rl'.op = "none" /\ rl'.pc = "idle"
         \/ rl'.op = rl.op /\ rl.op # "boot" /\ rl'.pc = "tidy" /\ rl'.had = rl.had
  BY <1>1 DEF ReloadResume, NoReload, CidsTypeOK
<1>3. /\ \A j \in VMs : Loadable(j)' <=> Loadable(j)
      /\ ProcHasCid' /\ ClaimsApart' /\ ClaimsReserved'
  BY <1>1, <1>2, ClaimsSame
<1>4. MarkedGo'
  <2>1. \A i \in VMs : rm'[i] = rm[i] \/ (i \in set /\ rm'[i] = "stop")
    BY <1>1, SpawnedType
  <2>2. \A i \in set : i \in disk /\ vms[i] # NoId => i \in marked
    BY DEF MarkedGo
  <2> HIDE DEF set
  <2> QED BY <1>1, <1>2, <2>1, <2>2 DEF MarkedGo
<1>5. Phases' /\ ListIsCurrent' /\ DirsListed' /\ RemovalsApart'
  BY <1>2 DEF Phases, ListIsCurrent, DirsListed, RemovalsApart
<1>6. HadApart'
  BY <1>1, <1>2, <1>3 DEF HadApart
<1> QED BY <1>3, <1>4, <1>5, <1>6

(* The orphaned CIDs that are released are claimed by nobody.              *)
LEMMA ReloadTidyInv ==
  ASSUME CidsIInv, CidsTypeOK', ReloadTidy
  PROVE  CidsIInv'
<1> USE DEF CidsIInv
<1>1. /\ rl.pc = "tidy" /\ rl.cur = NoId /\ pool' = pool \ (rl.had \ Used(vms))
      /\ UNCHANGED <<vms, proc, disk, marked, rm>>
  BY DEF ReloadTidy, Orphaned, Phases
<1>2. rl'.op = "none" /\ rl'.pc = "idle" /\ rl'.cur = NoId /\ rl'.again = {}
  BY DEF ReloadTidy, NoReload
<1>3. \A j \in VMs : Loadable(j)' <=> Loadable(j)
  BY <1>1, <1>2 DEF Loadable
<1>4. \A j \in VMs : Claim(j)' = Claim(j)
  BY <1>1, <1>3 DEF Claim
<1>5. \A j \in VMs : Claim(j) # NoId => Claim(j) \in pool'
  <2>1. \A j \in VMs : vms[j] # NoId => vms[j] \in Used(vms)
    BY UsedType DEF CidsTypeOK
  <2>2. \A j \in VMs : Loadable(j) => proc[j] \notin rl.had
    BY <1>1 DEF HadApart
  <2>3. \A j \in VMs : Claim(j) # NoId => Claim(j) \notin rl.had \ Used(vms)
    BY <2>1, <2>2 DEF Claim
  <2> QED BY <1>1, <2>3 DEF ClaimsReserved
<1>6. ProcHasCid' /\ ClaimsApart' /\ ClaimsReserved'
  BY <1>1, <1>4, <1>5 DEF ProcHasCid, ClaimsApart, ClaimsReserved
<1>7. Phases' /\ ListIsCurrent' /\ DirsListed' /\ RemovalsApart' /\ HadApart' /\ MarkedGo'
  BY <1>1, <1>2 DEF Phases, ListIsCurrent, DirsListed, RemovalsApart, HadApart, MarkedGo
<1> QED BY <1>6, <1>7

(* After a restart the claims of the VMs on disk are their processes'.     *)
LEMMA CrashInv ==
  ASSUME CidsIInv, CidsTypeOK', Crash
  PROVE  CidsIInv'
<1> USE DEF CidsIInv
<1>1. /\ \A i \in VMs : vms'[i] = NoId /\ rm'[i] = "idle"
      /\ pool' = Used(proc) /\ UNCHANGED <<proc, disk, marked>>
  BY DEF Crash
<1>2. /\ rl'.op = "boot" /\ rl'.pc = "load" /\ rl'.occ = proc /\ rl'.cur = NoId
      /\ rl'.had = {} /\ rl'.again = {}
  BY DEF Crash, NoReload
<1>3. \A i \in VMs : Claim(i)' = IF i \in disk THEN proc[i] ELSE NoId
  BY <1>1, <1>2, NoIdAssumption DEF Claim, Loadable
<1>4. \A i \in VMs : i \in disk /\ proc[i] # NoId => Claim(i) = proc[i]
  BY DEF Claim, Loadable, ProcHasCid
<1>5. ClaimsApart' /\ ClaimsReserved'
  <2>1. \A i \in VMs : Claim(i)' \in {Claim(i), NoId}
    BY <1>3, <1>4
  <2>2. \A i \in VMs : Claim(i)' # NoId => Claim(i) \in pool'
    BY <1>1, <1>3, <1>4, UsedType DEF CidsTypeOK
  <2> QED BY <2>1, <2>2, ClaimsKeep
<1>6. ProcHasCid' /\ Phases' /\ ListIsCurrent' /\ DirsListed'
  BY <1>1, <1>2 DEF ProcHasCid, Phases, ListIsCurrent, DirsListed
<1>7. RemovalsApart' /\ HadApart' /\ MarkedGo'
  BY <1>1, <1>2 DEF RemovalsApart, HadApart, MarkedGo
<1> QED BY <1>5, <1>6, <1>7

-----------------------------------------------------------------------------
(* The VMM starts with nothing.                                            *)
LEMMA CidsInitInv == CidsInit => CidsIInv
<1> SUFFICES ASSUME CidsInit PROVE CidsIInv
  OBVIOUS
<1> USE DEF CidsInit, NoReload
<1>1. CidsTypeOK
  BY PoolAssumption DEF CidsTypeOK, CidOrNoId
<1>2. \A i \in VMs : vms[i] = NoId /\ proc[i] = NoId /\ Claim(i) = NoId
  BY DEF Claim
<1>3. ProcHasCid /\ ClaimsApart /\ ClaimsReserved
  BY <1>2 DEF ProcHasCid, ClaimsApart, ClaimsReserved
<1>4. Phases /\ ListIsCurrent /\ DirsListed /\ RemovalsApart /\ HadApart /\ MarkedGo
  BY DEF Phases, ListIsCurrent, DirsListed, RemovalsApart, HadApart, MarkedGo
<1> QED BY <1>1, <1>3, <1>4 DEF CidsIInv

(* Every step keeps the invariant.                                         *)
LEMMA CidsStepInv ==
  ASSUME CidsIInv, "overlap" \notin Ops, [CidsNext]_cidsVars
  PROVE  CidsIInv'
<1>1. CidsTypeOK'
  BY CidsTypeStep DEF CidsIInv
<1>2. ASSUME NEW i \in VMs, DirDeleted(i) PROVE CidsIInv'
  BY <1>1, <1>2, DirDeletedInv
<1>3. ASSUME NEW i \in VMs, Create(i) PROVE CidsIInv'
  BY <1>1, <1>3, CreateInv
<1>4. ASSUME NEW i \in VMs, Launch(i) PROVE CidsIInv'
  BY <1>1, <1>4, LaunchInv
<1>5. ASSUME NEW i \in VMs, Remove(i) PROVE CidsIInv'
  BY <1>1, <1>5, RemoveInv
<1>6. ASSUME NEW i \in VMs, RmStop(i) PROVE CidsIInv'
  BY <1>1, <1>6, RmStopInv
<1>7. ASSUME NEW i \in VMs, RmDelete(i) PROVE CidsIInv'
  BY <1>1, <1>7, RmDeleteInv
<1>8. ASSUME NEW i \in VMs, RmForget(i) PROVE CidsIInv'
  BY <1>1, <1>8, RmForgetInv
<1>9. ASSUME NEW i \in VMs, ReloadRead(i) PROVE CidsIInv'
  BY <1>1, <1>9, ReloadReadInv
<1>10. CASE ReloadBegin
  BY <1>1, <1>10, ReloadBeginInv
<1>11. CASE ReloadRebuild
  BY <1>1, <1>11, ReloadRebuildInv
<1>12. CASE ReloadDirs
  BY <1>1, <1>12, ReloadDirsInv
<1>13. CASE ReloadCompare
  BY <1>1, <1>13, ReloadCompareInv
<1>14. CASE ReloadAdd
  BY <1>1, <1>14, ReloadAddInv
<1>15. CASE ReloadResume
  BY <1>1, <1>15, ReloadResumeInv
<1>16. CASE ReloadTidy
  BY <1>1, <1>16, ReloadTidyInv
<1>17. CASE Crash
  BY <1>1, <1>17, CrashInv
<1>18. CASE UNCHANGED cidsVars
  BY <1>18, StutterInv
<1> QED BY <1>2, <1>3, <1>4, <1>5, <1>6, <1>7, <1>8, <1>9, <1>10, <1>11, <1>12,
            <1>13, <1>14, <1>15, <1>16, <1>17, <1>18 DEF CidsNext

(* The invariant holds as long as removals do not run during a reload and  *)
(* nothing is created while it compares directories with entries.          *)
THEOREM CidsInvariantHolds ==
  ASSUME "overlap" \notin Ops
  PROVE  CidsSpec => []CidsIInv
<1>1. CidsIInv /\ [CidsNext]_cidsVars => CidsIInv'
  BY CidsStepInv
<1> QED BY CidsInitInv, <1>1, PTL DEF CidsSpec

(* No two loaded VMs have the same CID, however reloads, creations, failed *)
(* reads, removals that leave a process behind and restarts of the VMM     *)
(* follow each other (load_or_update_vm, cids_to_reserve).                 *)
THEOREM CidsUniqueHolds ==
  ASSUME "overlap" \notin Ops
  PROVE  CidsSpec => []CidsUnique
<1>1. CidsIInv => CidsUnique
  <2> SUFFICES ASSUME CidsIInv, NEW i \in VMs, NEW j \in VMs, i # j, vms[i] # NoId
               PROVE  vms[i] # vms[j]
    BY DEF CidsUnique
  <2>1. Claim(i) = vms[i] /\ (vms[j] # NoId => Claim(j) = vms[j])
    BY DEF Claim
  <2> QED BY <2>1 DEF CidsIInv, ClaimsApart
<1> QED BY <1>1, CidsInvariantHolds, PTL

(* The process of a loaded VM runs with the CID of its entry, which is the *)
(* address the VMM reaches the guest at: a VM that is loaded again gets    *)
(* back the CID of its process (the assigned CID of load_or_update_vm).    *)
THEOREM ProcHasCidHolds ==
  ASSUME "overlap" \notin Ops
  PROVE  CidsSpec => []ProcHasCid
<1>1. CidsIInv => ProcHasCid
  BY DEF CidsIInv
<1> QED BY <1>1, CidsInvariantHolds, PTL

(* The CIDs of loaded VMs are occupied in the pool, although a reload      *)
(* rebuilds it from an older list and releases what it takes for orphaned. *)
THEOREM CidsReservedHolds ==
  ASSUME "overlap" \notin Ops
  PROVE  CidsSpec => []CidsReserved
<1>1. CidsIInv => CidsReserved
  <2> SUFFICES ASSUME CidsIInv, NEW i \in VMs, vms[i] # NoId
               PROVE  vms[i] \in pool
    BY DEF CidsReserved, Used
  <2>1. Claim(i) = vms[i]
    BY DEF Claim
  <2> QED BY <2>1 DEF CidsIInv, ClaimsReserved
<1> QED BY <1>1, CidsInvariantHolds, PTL
================================================================================
