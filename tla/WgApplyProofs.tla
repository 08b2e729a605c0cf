---------------------------- MODULE WgApplyProofs ----------------------------
(***************************************************************************)
(* Proofs about WgApply, for every set of peers and of callers and every   *)
(* number of faults.                                                       *)
(***************************************************************************)
EXTENDS WgApply, TLAPS

(* The invariant behind InterfaceFollows: someone still has to act, or what*)
(* is being applied is the present table, but for the keys that refused    *)
(* registrations changed since it was rendered.                            *)
WakeupLeft == \/ Requested \/ pending \/ pc \in {"batch", "backoff"}
              \/ pc = "idle" /\ (Shown \/ lost \/ stopped)
              \/ pc = "write" /\ Differ(conf, table) \subseteq unasked
              \/ pc = "sync" /\ Differ(file, table) \subseteq unasked

(* The one behind ExitKeepsFile: an apply that ended well leaves file and  *)
(* interface alike until the next one, and none is under way once the      *)
(* gateway leaves.                                                         *)
ApplyWhole == (whole /\ pc # "sync" => file = iface) /\ (stopped => pc \notin {"write", "sync"})

Inv == TypeOK /\ WakeupLeft /\ ApplyWhole

(* The state in which the gateway starts is one of the invariant.          *)
LEMMA InitInv == Init => Inv
  <1> SUFFICES ASSUME Init PROVE Inv
    OBVIOUS
  <1>1. faults \in 0..MaxFaults
    BY FaultsAssumption, SMT DEF Init
  <1>2. TypeOK
    BY <1>1, Zenon DEF Init, TypeOK
  <1>3. WakeupLeft /\ ApplyWhole
    BY DEF Init, WakeupLeft, ApplyWhole
  <1> QED
    BY <1>2, <1>3 DEF Inv

(* The count of faults stays within its bound.                             *)
LEMMA FaultsStep == faults \in 0..MaxFaults /\ [Next]_vars => faults' \in 0..MaxFaults
  BY FaultsAssumption, SMT
     DEF Next, vars, Change, RegisterFails, Request, Receive, Render, Write, Sync, Fails, Stop, InterfaceLost, Restart

(* No step changes the type of a variable.                                 *)
LEMMA TypeStep == TypeOK /\ [Next]_vars => TypeOK'
  <1> SUFFICES ASSUME TypeOK, [Next]_vars PROVE TypeOK'
    OBVIOUS
  <1>0. faults' \in 0..MaxFaults
    BY FaultsStep DEF TypeOK
  <1> USE <1>0 DEF TypeOK
  <1>1. ASSUME NEW c \in Callers, NEW new \in SUBSET Peers, Change(c, new) PROVE TypeOK'
    BY <1>1 DEF Change
  <1>11. ASSUME NEW c \in Callers, NEW old \in Peers, NEW new \in Peers, RegisterFails(c, old, new)
         PROVE  TypeOK'
    BY <1>11 DEF RegisterFails
  <1>2. ASSUME NEW c \in Callers, Request(c) PROVE TypeOK'
    BY <1>2 DEF Request
  <1>3. CASE Receive
    BY <1>3, Zenon DEF Receive
  <1>4. CASE Render
    BY <1>4, Zenon DEF Render
  <1>5. CASE Write
    BY <1>5, Zenon DEF Write, Fails, AfterFailure
  <1>6. CASE Sync
    BY <1>6, Zenon DEF Sync, Fails, AfterFailure, LeftAfterSync
  <1>7. CASE Stop
    BY <1>7, Zenon DEF Stop
  <1>8. CASE InterfaceLost
    BY <1>8, Zenon DEF InterfaceLost
  <1>9. ASSUME NEW new \in SUBSET Peers, Restart(new) PROVE TypeOK'
    BY <1>9, Zenon DEF Restart
  <1>10. CASE UNCHANGED vars
    BY <1>10, Zenon DEF vars
  <1> QED
    BY <1>1, <1>2, <1>3, <1>4, <1>5, <1>6, <1>7, <1>8, <1>9, <1>10, <1>11 DEF Next

(* No step loses the last wake-up: a change leaves its caller with a       *)
(* request to make, a consumed request is followed by a render, and what   *)
(* is rendered is the table at that moment.                                *)
LEMMA WakeupStep == TypeOK /\ WakeupLeft /\ [Next]_vars => WakeupLeft'
  <1> SUFFICES ASSUME TypeOK, WakeupLeft, [Next]_vars PROVE WakeupLeft'
    OBVIOUS
  <1> USE DEF TypeOK, WakeupLeft, Requested, Shown, Differ
  <1>1. ASSUME NEW c \in Callers, NEW new \in SUBSET Peers, Change(c, new) PROVE WakeupLeft'
    <2>1. caller'[c] = "request"
      BY <1>1 DEF Change
    <2> QED
      BY <2>1
  <1>11. ASSUME NEW c \in Callers, NEW old \in Peers, NEW new \in Peers, RegisterFails(c, old, new)
         PROVE  WakeupLeft'
    BY <1>11 DEF RegisterFails
  <1>2. ASSUME NEW c \in Callers, Request(c) PROVE WakeupLeft'
    BY <1>2 DEF Request
  <1>3. CASE Receive
    BY <1>3 DEF Receive
  <1>4. CASE Render
    BY <1>4 DEF Render
  <1>5. CASE Write
    BY <1>5 DEF Write, Fails, AfterFailure
  <1>6. CASE Sync
    <2>1. pending' = pending /\ Requested' = Requested
      BY <1>6 DEF Sync, LeftAfterSync
    <2>2. pc = "sync" /\ ((pc' = "idle" /\ iface' = file /\ UNCHANGED <<table, unasked>>) \/ pc' = "backoff")
      BY <1>6 DEF Sync, Fails, AfterFailure
    <2> QED
      BY <2>1, <2>2
  <1>7. CASE Stop
    BY <1>7 DEF Stop
  <1>8. CASE InterfaceLost
    BY <1>8 DEF InterfaceLost
  <1>9. ASSUME NEW new \in SUBSET Peers, Restart(new) PROVE WakeupLeft'
    BY <1>9 DEF Restart
  <1>10. CASE UNCHANGED vars
    BY <1>10 DEF vars
  <1> QED
    BY <1>1, <1>2, <1>3, <1>4, <1>5, <1>6, <1>7, <1>8, <1>9, <1>10, <1>11 DEF Next

(* Only an apply that runs to its end changes what file and interface say. *)
LEMMA WholeStep == TypeOK /\ ApplyWhole /\ [Next]_vars => ApplyWhole'
  <1> SUFFICES ASSUME TypeOK, ApplyWhole, [Next]_vars PROVE ApplyWhole'
    OBVIOUS
  <1> USE DEF TypeOK, ApplyWhole
  <1>1. ASSUME NEW c \in Callers, NEW new \in SUBSET Peers, Change(c, new) PROVE ApplyWhole'
    BY <1>1 DEF Change
  <1>11. ASSUME NEW c \in Callers, NEW old \in Peers, NEW new \in Peers, RegisterFails(c, old, new)
         PROVE  ApplyWhole'
    BY <1>11 DEF RegisterFails
  <1>2. ASSUME NEW c \in Callers, Request(c) PROVE ApplyWhole'
    BY <1>2 DEF Request
  <1>3. CASE Receive
    BY <1>3 DEF Receive
  <1>4. CASE Render
    BY <1>4 DEF Render
  <1>5. CASE Write
    BY <1>5 DEF Write, Fails, AfterFailure
  <1>6. CASE Sync
    BY <1>6 DEF Sync, Fails, AfterFailure
  <1>7. CASE Stop
    BY <1>7 DEF Stop, ApplyDone
  <1>8. CASE InterfaceLost
    BY <1>8 DEF InterfaceLost
  <1>9. ASSUME NEW new \in SUBSET Peers, Restart(new) PROVE ApplyWhole'
    BY <1>9 DEF Restart
  <1>10. CASE UNCHANGED vars
    BY <1>10 DEF vars
  <1> QED
    BY <1>1, <1>2, <1>3, <1>4, <1>5, <1>6, <1>7, <1>8, <1>9, <1>10, <1>11 DEF Next

(* Typing, the wake-up and whole applies together are an invariant of the  *)
(* gateway's apply worker.                                                 *)
THEOREM InvariantHolds == Spec => []Inv
  <1>1. Inv /\ [Next]_vars => Inv'
    BY TypeStep, WakeupStep, WholeStep DEF Inv
  <1> QED
    BY InitInv, <1>1, PTL DEF Spec

(* A change of the instance table never stays off the interface for want   *)
(* of a request, however the callers and the worker interleave, unless it  *)
(* is the new key of a registration that was then refused.                 *)
THEOREM InterfaceFollowsHolds == Spec => []InterfaceFollows
  <1>1. Inv => InterfaceFollows
    BY DEF Inv, WakeupLeft, InterfaceFollows
  <1> QED
    BY InvariantHolds, <1>1, PTL

(* Leaving main does not split an apply.                                   *)
THEOREM ExitKeepsFileHolds == Spec => []ExitKeepsFile
  <1>1. Inv => ExitKeepsFile
    BY DEF Inv, ApplyWhole, ExitKeepsFile
  <1> QED
    BY InvariantHolds, <1>1, PTL
=============================================================================
