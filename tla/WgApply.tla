------------------------------- MODULE WgApply -------------------------------
(***************************************************************************)
(* How the gateway's WireGuard interface follows the table of instances.   *)
(*                                                                         *)
(* Registrations, removals, recycling and reloads change the table under   *)
(* the routing lock and, after they have released it, put a request into a *)
(* channel of capacity one.  A single worker thread waits for a request,   *)
(* lets a batch build up, consumes what came with the batch, renders the   *)
(* table under the lock and, off the lock, writes the configuration file   *)
(* and runs `wg syncconf`; it retries after a failure.  On the way out of  *)
(* main an apply in progress is waited for and later ones are refused.     *)
(*                                                                         *)
(* One path changes the table and makes no request: a registration that    *)
(* has put a new key into a known entry and then finds no free address.    *)
(***************************************************************************)
EXTENDS Naturals

CONSTANTS Peers,     \* possible peers of the interface: a key and its address
          Callers,   \* threads and tasks that change the table
          MaxFaults  \* failed writes and applies, lost interfaces, restarts

ASSUME FaultsAssumption == MaxFaults \in Nat

VARIABLES table,   \* the peers of ProxyStateMut.instances
          caller,  \* "request": changed the table and has yet to request
          pending, \* the slot of wg_apply_tx
          pc,      \* the worker
          conf,    \* the configuration it rendered
          file,    \* wg.config_path
          iface,   \* the peers of the interface
          whole,   \* ghost: the last apply ended well
          unasked, \* ghost: peers that refused registrations changed since the last render
          lost,    \* ghost: the interface lost peers behind the gateway's back
          stopped, \* wg_apply_stopped
          faults

vars == <<table, caller, pending, pc, conf, file, iface, whole, unasked, lost, stopped, faults>>

TypeOK == /\ table \in SUBSET Peers /\ conf \in SUBSET Peers
          /\ file \in SUBSET Peers /\ iface \in SUBSET Peers /\ unasked \in SUBSET Peers
          /\ caller \in [Callers -> {"idle", "request"}]
          /\ pc \in {"idle", "batch", "backoff", "write", "sync"}
          /\ pending \in BOOLEAN /\ whole \in BOOLEAN /\ lost \in BOOLEAN /\ stopped \in BOOLEAN
          /\ faults \in 0..MaxFaults

(* start_wavekv_watch_task requests the first apply.                       *)
Init == /\ table \in SUBSET Peers /\ file \in SUBSET Peers /\ iface \in SUBSET Peers
        /\ caller = [c \in Callers |-> "idle"]
        /\ pending = TRUE /\ pc = "idle" /\ conf = {} /\ unasked = {}
        /\ whole = FALSE /\ lost = FALSE /\ stopped = FALSE /\ faults = 0

-----------------------------------------------------------------------------
(* do_register_cvm, remove_cvm, recycle and reload_instances_from_kv_store *)
(* under the routing lock.  A registration and a removal request an apply  *)
(* even if the peers are what they were.                                   *)
Change(c, new) ==
    /\ caller[c] = "idle" /\ table' = new
    /\ caller' = [caller EXCEPT ![c] = "request"]
    /\ UNCHANGED <<pending, pc, conf, file, iface, whole, unasked, lost, stopped, faults>>

(* do_register_cvm with a new key, for an entry whose address is no longer *)
(* one of this node's, when no address is free: new_client_by_id has       *)
(* replaced the key and fails, and the error leaves before the request.    *)
RegisterFails(c, old, new) ==
    /\ caller[c] = "idle" /\ old \in table /\ new \notin table
    /\ table' = (table \ {old}) \cup {new} /\ unasked' = unasked \cup {old, new}
    /\ UNCHANGED <<caller, pending, pc, conf, file, iface, whole, lost, stopped, faults>>

(* request_wg_apply: when the channel is full a request is already there.  *)
Request(c) ==
    /\ caller[c] = "request" /\ caller' = [caller EXCEPT ![c] = "idle"]
    /\ pending' = TRUE
    /\ UNCHANGED <<table, pc, conf, file, iface, whole, unasked, lost, stopped, faults>>

-----------------------------------------------------------------------------
(* wg_apply::run, rx.recv() and the batch window.                          *)
Receive ==
    /\ pc = "idle" /\ pending
    /\ pending' = FALSE /\ pc' = "batch"
    /\ UNCHANGED <<table, caller, conf, file, iface, whole, unasked, lost, stopped, faults>>

(* Mutant: what came during the apply is consumed after it.                *)
LeftAfterSyncNone == FALSE

(* try_recv before rendering, never after: a request that came with the    *)
(* batch or the backoff is consumed, a later one is left.                  *)
LeftAfterSync == pending

(* reconfigure_wg: the table under the routing lock, unless stopped.       *)
Render ==
    /\ pc \in {"batch", "backoff"} /\ pending' = FALSE
    /\ IF stopped THEN pc' = "idle" /\ UNCHANGED <<conf, unasked>>
                  ELSE pc' = "write" /\ conf' = table /\ unasked' = {}
    /\ UNCHANGED <<table, caller, file, iface, whole, lost, stopped, faults>>

(* Mutant: the worker reports the failure and waits for a request.         *)
AfterFailureWait == "idle"

(* The backoff: the next round needs no request.                           *)
AfterFailure == "backoff"

Fails == faults < MaxFaults /\ faults' = faults + 1 /\ pc' = AfterFailure /\ whole' = FALSE

(* apply_wg_config: the file is replaced, then `wg syncconf` reads it.     *)
Write ==
    /\ pc = "write"
    /\ \/ file' = conf /\ pc' = "sync" /\ UNCHANGED <<whole, faults>>
       \/ Fails /\ UNCHANGED file
    /\ UNCHANGED <<table, caller, pending, conf, iface, unasked, lost, stopped>>

Sync ==
    /\ pc = "sync" /\ pending' = LeftAfterSync
    /\ \/ iface' = file /\ pc' = "idle" /\ whole' = TRUE /\ lost' = FALSE /\ UNCHANGED faults
       \/ Fails /\ UNCHANGED <<iface, lost>>
    /\ UNCHANGED <<table, caller, conf, file, unasked, stopped>>

-----------------------------------------------------------------------------
(* Mutant: the flag is set without waiting for an apply in progress.       *)
ApplyDoneAlways == TRUE

(* The mutex that reconfigure_wg holds from the flag to the end.           *)
ApplyDone == pc \notin {"write", "sync"}

(* stop_wg_apply, dropped on the way out of main.                          *)
Stop ==
    /\ ~stopped /\ ApplyDone /\ stopped' = TRUE
    /\ UNCHANGED <<table, caller, pending, pc, conf, file, iface, whole, unasked, lost, faults>>

(* The process ends, by main returning or by a crash at any step, and is   *)
(* started again: the table comes from the store.                          *)
Restart(new) ==
    /\ faults < MaxFaults /\ faults' = faults + 1
    /\ table' = new /\ caller' = [c \in Callers |-> "idle"]
    /\ pending' = TRUE /\ pc' = "idle" /\ conf' = {} /\ stopped' = FALSE /\ whole' = FALSE
    /\ unasked' = {} /\ UNCHANGED <<file, iface, lost>>

(* Something outside the gateway takes peers off the interface, the case a *)
(* guest repairs by registering again.                                     *)
InterfaceLost ==
    /\ faults < MaxFaults /\ faults' = faults + 1
    /\ iface' = {} /\ lost' = TRUE /\ whole' = FALSE
    /\ UNCHANGED <<table, caller, pending, pc, conf, file, unasked, stopped>>

Next == \/ \E c \in Callers : \/ Request(c) \/ \E new \in SUBSET Peers : Change(c, new)
                             \/ \E old, new \in Peers : RegisterFails(c, old, new)
        \/ Receive \/ Render \/ Write \/ Sync \/ Stop \/ InterfaceLost
        \/ \E new \in SUBSET Peers : Restart(new)

Spec == Init /\ [][Next]_vars

(* A caller that returned from the lock runs its last statement, and the   *)
(* worker is a thread of its own.                                          *)
FairSpec == /\ Spec
            /\ \A c \in Callers : WF_vars(Request(c))
            /\ WF_vars(Receive) /\ WF_vars(Render) /\ WF_vars(Write) /\ WF_vars(Sync)

-----------------------------------------------------------------------------
(* Properties.                                                             *)

Requested == \E c \in Callers : caller[c] = "request"

Differ(a, b) == (a \ b) \cup (b \ a)

(* The interface shows the table, but for peers that a refused registration*)
(* changed after the table was rendered.                                   *)
Shown == Differ(iface, table) \subseteq unasked

(* Whatever the order of changes, requests, batches and retries, a table   *)
(* that the interface does not show has a wake-up left to show it: with    *)
(* none outstanding, interface and table differ in the keys that refused   *)
(* registrations left behind and in no other peer.                         *)
InterfaceFollows == pc = "idle" /\ ~pending /\ ~Requested => Shown \/ lost \/ stopped

(* The same without the exception for refused registrations: the code does *)
(* not keep it (README, section 6).                                        *)
NoPeerLeftBehind ==
    pc = "idle" /\ ~pending /\ ~Requested => iface = table \/ lost \/ stopped

(* An exit does not split an apply: when the process is told to go after   *)
(* an apply that ended well, file and interface agree.                     *)
ExitKeepsFile == stopped /\ whole => file = iface

(* Once the table stops changing, the interface gets its peers after any   *)
(* number of failures, unless the gateway is leaving - again but for the   *)
(* keys of refused registrations.                                          *)
InterfaceConverges == <>[][table' = table]_vars => <>[](Shown \/ lost \/ stopped)

(* A registration repairs an interface that lost its peers.                *)
RegistrationRepairs == Requested ~> (~lost \/ stopped)
=============================================================================
