---------------------------- MODULE GatewayRouting ----------------------------
(***************************************************************************)
(* What one gateway node routes to: the table of instances of an app, the  *)
(* operator's traffic gate, this node's health verdicts and the cached     *)
(* selection (top_n).                                                      *)
(*                                                                         *)
(* Registrations, removals, the reload of the table from the replicated    *)
(* store, the health poller and the selection for a connection interleave; *)
(* what each of them does under the routing lock is one step.  Other       *)
(* gateway nodes appear as writers of the store.  A WireGuard key stands   *)
(* for one boot of a CVM, as in the guest: the key is kept on tmpfs.  An   *)
(* instance has an address of this node's share ("here") or one that       *)
(* another node gave it ("there"); how addresses are shared out is in      *)
(* GatewayRegistry, what becomes of the WireGuard interface in WgApply.    *)
(***************************************************************************)
EXTENDS Naturals, FiniteSets

CONSTANTS Ids,        \* instances of the app
          MaxBoots,   \* boots of every CVM
          GatedBoots, \* the <<instance, boot>> pairs that asked for health gating
          TopN,       \* proxy.connect_top_n
          Threshold,  \* health_check.failure_threshold
          MaxChanges, \* boots, registrations, removals, gates, writes by other nodes
          MaxFaults,  \* exhausted pools and restarts
          None

ASSUME BoundsAssumption == /\ MaxBoots \in Nat \ {0} /\ TopN \in Nat \ {0}
                           /\ Threshold \in Nat \ {0}
                           /\ MaxChanges \in Nat /\ MaxFaults \in Nat
ASSUME GatedAssumption == GatedBoots \subseteq Ids \X (1..MaxBoots)

VARIABLES boot,     \* the boot every CVM is in
          inst,     \* ProxyStateMut.instances
          topn,     \* ProxyStateMut.top_n of the app: the cached selection
          store,    \* the inst/ records of the store, as this node has merged them
          gate,     \* the admin/ records: the operator's traffic gate
          dirty,    \* the watcher of the store has a change to handle
          reload,   \* what a reload has read and not yet applied
          flight,   \* the poll of every instance in this round
          failures, \* the poller's consecutive failures
          seen,     \* ghost: the boot whose answer is the current verdict
          half,     \* ghost: registrations that failed for want of an address
          changes, faults

table == <<inst, topn>>
stored == <<store, gate, dirty>>
poller == <<flight, failures>>
vars == <<boot, inst, topn, store, gate, dirty, reload, flight, failures, seen, half,
          changes, faults>>

Boots == 1..MaxBoots
Places == {"here", "there"}
States == {"unknown", "healthy", "unhealthy", "ungated"}
Entries == [boot: Boots, at: Places, gated: BOOLEAN, state: States, ready: BOOLEAN]
Records == [boot: Boots, at: Places]
Targets == [boot: Boots, at: Places, answer: {"none", "healthy", "unhealthy", "unreachable"}]
Peers == [id: Ids, boot: Boots, at: Places]
Reads == [recs: [Ids -> Records \cup {None}], gates: [Ids -> BOOLEAN]]

ASSUME NoneAssumption == None \notin Entries /\ None \notin Reads

TypeOK ==
    /\ boot \in [Ids -> Boots]
    /\ inst \in [Ids -> Entries \cup {None}]
    /\ topn \subseteq Peers
    /\ store \in [Ids -> Records \cup {None}] /\ gate \in [Ids -> BOOLEAN] /\ dirty \in BOOLEAN
    /\ reload \in Reads \cup {None}
    /\ flight \in [Ids -> Targets \cup {None}] /\ failures \in [Ids -> 0..Threshold - 1]
    /\ seen \in [Ids -> Boots \cup {None}] /\ half \subseteq Ids
    /\ changes \in 0..MaxChanges /\ faults \in 0..MaxFaults

Here == {i \in Ids : inst[i] # None}

-----------------------------------------------------------------------------
(* models.rs: the health of an instance.                                   *)
Initial(gated) == IF gated THEN "unknown" ELSE "ungated"
IsHealthy(e) == e.state \in {"healthy", "ungated"}
Gated(i, b) == <<i, b>> \in GatedBoots

(* Mutant: a reload keeps the verdict whatever the new record declares.    *)
InheritAlways(new, old) == IF old # None THEN [new EXCEPT !.state = old.state] ELSE new

(* inherit_health_from.                                                    *)
Inherit(new, old) ==
    IF old # None /\ new.gated = old.gated /\ new.boot = old.boot
    THEN [new EXCEPT !.state = old.state] ELSE new

(* Mutant: health is not an input of the selection.                        *)
RoutingInputsNoHealth(e) == IF e = None THEN <<>> ELSE <<e.boot, e.at, e.ready>>

(* routing_inputs.                                                         *)
RoutingInputs(e) == IF e = None THEN <<>> ELSE <<e.boot, e.at, e.ready, e.gated, e.state>>

(* edit_instance, add_instance, forget_instance and the reload: a cached   *)
(* selection goes when the inputs of some entry change.                    *)
Edit(new) ==
    /\ inst' = new
    /\ topn' = IF \E i \in Ids : RoutingInputs(new[i]) # RoutingInputs(inst[i]) THEN {} ELSE topn

(* The ghost follows the verdict: it goes with it.                         *)
SeenAfter(new) ==
    [i \in Ids |-> IF new[i] # None /\ new[i].state \in {"healthy", "unhealthy"}
                   THEN seen[i] ELSE None]

Change == changes < MaxChanges /\ changes' = changes + 1

-----------------------------------------------------------------------------
(* The CVM starts again: a new WireGuard key.                              *)
Boot(i) ==
    /\ Change /\ boot[i] < MaxBoots /\ boot' = [boot EXCEPT ![i] = @ + 1]
    /\ UNCHANGED <<table, stored, reload, poller, seen, half, faults>>

(* new_client_by_id: the closure of edit_instance, on an existing entry.   *)
ReRegistered(i, e) ==
    LET g == Gated(i, boot[i])
    IN  [e EXCEPT !.boot = boot[i], !.gated = g,
                  !.state = IF e.boot # boot[i] \/ e.gated # g THEN Initial(g) ELSE @]

FirstRegistered(i) ==
    [boot |-> boot[i], at |-> "here", gated |-> Gated(i, boot[i]),
     state |-> Initial(Gated(i, boot[i])), ready |-> TRUE]

(* do_register_cvm: the entry and the record in the store.  The address of *)
(* an entry from another node's share is replaced by one of this node's.   *)
Register(i) ==
    LET new == IF inst[i] = None THEN FirstRegistered(i)
               ELSE [ReRegistered(i, inst[i]) EXCEPT !.at = "here"]
    IN  /\ Change
        /\ Edit([inst EXCEPT ![i] = new]) /\ seen' = SeenAfter(inst')
        /\ store' = [store EXCEPT ![i] = [boot |-> new.boot, at |-> new.at]]
        /\ dirty' = TRUE /\ half' = half \ {i}
        /\ UNCHANGED <<boot, gate, reload, poller, faults>>

(* No address is left for it: the entry has already been edited, nothing   *)
(* is written.                                                             *)
RegisterFails(i) ==
    /\ inst[i] # None /\ inst[i].at = "there" /\ faults < MaxFaults
    /\ Edit([inst EXCEPT ![i] = ReRegistered(i, @)])
    /\ seen' = SeenAfter(inst') /\ half' = half \cup {i} /\ faults' = faults + 1
    /\ UNCHANGED <<boot, stored, reload, poller, changes>>

(* sync_delete_instance, remove_cvm and recycle: the record, the gate and  *)
(* the entry, under the lock.                                              *)
Remove(i) ==
    /\ Change /\ (inst[i] # None \/ store[i] # None)
    /\ store' = [store EXCEPT ![i] = None] /\ gate' = [gate EXCEPT ![i] = TRUE]
    /\ Edit([inst EXCEPT ![i] = None]) /\ seen' = [seen EXCEPT ![i] = None]
    /\ dirty' = TRUE /\ half' = half \ {i}
    /\ UNCHANGED <<boot, reload, poller, faults>>

(* set_ready: the entry, then the operator's own key of the store.         *)
SetReady(i) ==
    /\ Change /\ inst[i] # None
    /\ Edit([inst EXCEPT ![i].ready = ~@])
    /\ gate' = [gate EXCEPT ![i] = ~inst[i].ready] /\ dirty' = TRUE
    /\ UNCHANGED <<boot, store, reload, poller, seen, half, faults>>

-----------------------------------------------------------------------------
(* Other nodes, through the store: a registration there, a removal, a gate.*)
RemoteWrite(i) ==
    /\ Change /\ dirty' = TRUE
    /\ \/ store' = [store EXCEPT ![i] = [boot |-> boot[i], at |-> "there"]] /\ UNCHANGED gate
       \/ /\ store[i] # None
          /\ store' = [store EXCEPT ![i] = None] /\ gate' = [gate EXCEPT ![i] = TRUE]
       \/ /\ store[i] # None /\ UNCHANGED store
          /\ gate' = [gate EXCEPT ![i] = ~@]
    /\ UNCHANGED <<boot, table, reload, poller, seen, half, faults>>

(* reload_instances_from_kv_store reads before it takes the lock ...       *)
ReloadRead ==
    /\ dirty /\ reload = None
    /\ reload' = [recs |-> store, gates |-> gate] /\ dirty' = FALSE
    /\ UNCHANGED <<boot, table, store, gate, poller, seen, half, changes, faults>>

(* instance_info_from_record, with the verdict of the entry it replaces.   *)
Materialised(i) ==
    LET r == reload.recs[i]
        g == Gated(i, r.boot)
    IN  Inherit([boot |-> r.boot, at |-> r.at, gated |-> g, state |-> Initial(g),
                 ready |-> reload.gates[i]], inst[i])

(* Mutant: the change the reload was started for is acknowledged at its    *)
(* end, with those that came after its read.                               *)
UnhandledNone == FALSE

Unhandled == dirty

(* ... and materialises what it read; an entry without a record is kept    *)
(* while its registration is recent, which no clock here decides.          *)
ReloadApply ==
    /\ reload # None
    /\ \E grace \in SUBSET {i \in Here : reload.recs[i] = None} :
         LET new == [i \in Ids |-> IF reload.recs[i] # None THEN Materialised(i)
                                   ELSE IF i \in grace THEN inst[i] ELSE None]
         IN  /\ Edit(new) /\ seen' = SeenAfter(new)
             /\ half' = half \cap grace
    /\ reload' = None /\ dirty' = Unhandled
    /\ UNCHANGED <<boot, store, gate, poller, changes, faults>>

-----------------------------------------------------------------------------
(* select_top_n_hosts for the app, whose cache is empty or has expired.    *)
(* Which handshakes are fresh, and how old, is the environment's choice.   *)
Eligible(fresh) == {i \in fresh \cap Here : inst[i].ready}

(* retain_healthy: unless that would drop every candidate.                 *)
RetainHealthy(S) == IF \E i \in S : IsHealthy(inst[i]) THEN {i \in S : IsHealthy(inst[i])} ELSE S

Select ==
    /\ \E fresh \in SUBSET Here :
         LET kept == RetainHealthy(Eligible(fresh))
         IN  \E pick \in SUBSET kept :
               /\ Cardinality(pick) = IF Cardinality(kept) < TopN THEN Cardinality(kept) ELSE TopN
               /\ topn' = {[id |-> i, boot |-> inst[i].boot, at |-> inst[i].at] : i \in pick}
    /\ UNCHANGED <<boot, inst, stored, reload, poller, seen, half, changes, faults>>

-----------------------------------------------------------------------------
(* poll_round: the targets under the lock, less those whose handshake went *)
(* stale; the failures of what is no longer a target are forgotten.        *)
PollRound ==
    /\ \A i \in Ids : flight[i] = None
    /\ \E targets \in SUBSET {i \in Here : inst[i].gated} :
         /\ flight' = [i \in Ids |-> IF i \in targets
                                     THEN [boot |-> inst[i].boot, at |-> inst[i].at, answer |-> "none"]
                                     ELSE None]
         /\ failures' = [i \in Ids |-> IF i \in targets THEN failures[i] ELSE 0]
         /\ targets # {} \/ failures' # failures
    /\ UNCHANGED <<boot, table, stored, reload, seen, half, changes, faults>>

(* poll_instance: only the boot that holds the key answers.                *)
Answer(i) ==
    /\ flight[i] # None /\ flight[i].answer = "none"
    /\ \E a \in {"unreachable"} \cup (IF boot[i] = flight[i].boot THEN {"healthy", "unhealthy"} ELSE {}) :
         flight' = [flight EXCEPT ![i].answer = a]
    /\ UNCHANGED <<boot, table, stored, reload, failures, seen, half, changes, faults>>

(* Mutant: the verdict is written on whatever entry is there.              *)
SameTargetById(i) == inst[i] # None

SameTarget(i) == inst[i] # None /\ inst[i].boot = flight[i].boot /\ inst[i].at = flight[i].at

(* apply_hysteresis: a failure to reach the agent counts, and only the     *)
(* Threshold-th in a row is a verdict.  The count stops there.             *)
EnoughFailures(i) == failures[i] + 1 >= Threshold

(* record_instance_health, as the poll lands.                              *)
Land(i) ==
    /\ flight[i] # None /\ flight[i].answer # "none"
    /\ LET lost == flight[i].answer = "unreachable"
           verdict == IF ~lost THEN flight[i].answer
                      ELSE IF EnoughFailures(i) THEN "unhealthy" ELSE None
       IN  /\ failures' = [failures EXCEPT ![i] = IF ~lost THEN 0
                                                  ELSE IF EnoughFailures(i) THEN @ ELSE @ + 1]
           /\ IF verdict # None /\ SameTarget(i)
              THEN /\ Edit([inst EXCEPT ![i].state = verdict])
                   /\ seen' = [seen EXCEPT ![i] = flight[i].boot]
              ELSE UNCHANGED <<table, seen>>
    /\ flight' = [flight EXCEPT ![i] = None]
    /\ UNCHANGED <<boot, stored, reload, half, changes, faults>>

(* The round has used its interval: what has not answered is abandoned.    *)
RoundEnds ==
    /\ \E i \in Ids : flight[i] # None
    /\ flight' = [i \in Ids |-> None]
    /\ UNCHANGED <<boot, table, stored, reload, failures, seen, half, changes, faults>>

-----------------------------------------------------------------------------
(* The gateway restarts: build_state_from_kv_store.                        *)
Restart ==
    /\ faults < MaxFaults /\ faults' = faults + 1
    /\ inst' = [i \in Ids |-> IF store[i] = None THEN None
                              ELSE [boot |-> store[i].boot, at |-> store[i].at,
                                    gated |-> Gated(i, store[i].boot),
                                    state |-> Initial(Gated(i, store[i].boot)), ready |-> gate[i]]]
    /\ topn' = {} /\ reload' = None /\ dirty' = FALSE
    /\ flight' = [i \in Ids |-> None] /\ failures' = [i \in Ids |-> 0]
    /\ seen' = [i \in Ids |-> None] /\ half' = {}
    /\ UNCHANGED <<boot, store, gate, changes>>

Init ==
    /\ boot = [i \in Ids |-> 1]
    /\ inst = [i \in Ids |-> None] /\ topn = {}
    /\ store = [i \in Ids |-> None] /\ gate = [i \in Ids |-> TRUE] /\ dirty = FALSE
    /\ reload = None
    /\ flight = [i \in Ids |-> None] /\ failures = [i \in Ids |-> 0]
    /\ seen = [i \in Ids |-> None] /\ half = {}
    /\ changes = 0 /\ faults = 0

Next ==
    \/ \E i \in Ids : \/ Boot(i) \/ Register(i) \/ RegisterFails(i) \/ Remove(i) \/ SetReady(i)
                      \/ RemoteWrite(i) \/ Answer(i) \/ Land(i)
    \/ ReloadRead \/ ReloadApply \/ Select \/ PollRound \/ RoundEnds
    \/ Restart

Spec == Init /\ [][Next]_vars

-----------------------------------------------------------------------------
(* Properties.                                                             *)

(* The cached selection never outlives what it was computed from: its      *)
(* members are registered, open to traffic, at their present boot and      *)
(* address, and unhealthy ones are in it only when no member is healthy    *)
(* (edit_instance, routing_inputs, retain_healthy).                        *)
CacheFollowsTable ==
    /\ \A p \in topn : /\ inst[p.id] # None /\ inst[p.id].ready
                        /\ inst[p.id].boot = p.boot /\ inst[p.id].at = p.at
    /\ \A p, q \in topn : IsHealthy(inst[p.id]) = IsHealthy(inst[q.id])

(* A health verdict is about the boot the entry describes: no answer of an *)
(* earlier boot reaches the next one through a late poll, a registration or*)
(* a reload (record_instance_health, inherit_health_from, reset_health).   *)
VerdictOfThisBoot == \A i \in Here : seen[i] \in {None, inst[i].boot}

(* An entry is "ungated" exactly if its CVM did not ask to be gated: none  *)
(* is both held out of the rotation and out of the poll set.               *)
DeclarationAgrees == \A i \in Here : inst[i].gated = (inst[i].state # "ungated")

(* With the store read and applied the table is what the store says, gates *)
(* included, whatever registrations and removals came between a reload's   *)
(* read and its lock.  An entry without a record may linger for the grace  *)
(* period; one whose registration failed may differ.                       *)
QuietMatchesStore ==
    ~dirty /\ reload = None =>
        \A i \in Ids \ half : store[i] # None =>
            /\ inst[i] # None /\ inst[i].boot = store[i].boot /\ inst[i].at = store[i].at
            /\ inst[i].ready = gate[i]
=============================================================================
