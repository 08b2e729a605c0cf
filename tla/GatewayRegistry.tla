--------------------------- MODULE GatewayRegistry ---------------------------
(***************************************************************************)
(* The registration of CVMs with a cluster of gateway nodes: the table and *)
(* the address pool of every node, and the inst/ records of the replicated *)
(* store.                                                                  *)
(*                                                                         *)
(* Every node allocates from its own share of the addresses.  A record     *)
(* reaches the other nodes through the store, whose last writer wins; a    *)
(* node that learns of a change reloads its table from the store: it reads *)
(* and filters the records first, and applies them under the routing lock  *)
(* later.  Recycling likewise decides first and removes later.  What a     *)
(* node does under its routing lock is one step.  A CVM may register with  *)
(* any node at any time.                                                   *)
(***************************************************************************)
EXTENDS LwwStore, FiniteSets

CONSTANTS Nodes,     \* numbers: they break ties between writes, 0 among them
          Ids,       \* instances, a set of numbers: their order breaks ties
          Share,     \* client_ip_range of every node, as sets of numbers
          Grace,     \* LOCAL_REGISTRATION_GRACE
          Timeout,   \* recycle.timeout
          MaxClock, MaxWrites, \* bounds of the clock and of the writes to the store
          None

ASSUME NodesAssumption == Nodes \subseteq Nat /\ 0 \in Nodes
ASSUME ShareAssumption == /\ Ids \subseteq Nat /\ Share \in [Nodes -> SUBSET Nat]
                          /\ \A m, n \in Nodes : m # n => Share[m] \cap Share[n] = {}
ASSUME TimeAssumption == Grace \in Nat /\ Timeout \in Nat /\ MaxClock \in Nat /\ MaxWrites \in Nat

VARIABLES clock, writes,
          table,   \* instances: the address and reg_time of every instance
          pool,    \* allocated_addresses
          db,      \* the store of every node: a version and a record, None if deleted
          dirty,   \* the watcher of inst/ has a change to handle
          reload,  \* the accepted records that a reload has read
          stale,   \* the instances that recycling found stale, with their reg_time
          behind   \* ghost: some node has acted on records that had been overtaken

vars == <<clock, writes, table, pool, db, dirty, reload, stale, behind>>

Ips == UNION {Share[n] : n \in Nodes}
Entries == [ip: Ips, reg: 0..MaxClock]
Tables == [Ids -> Entries \cup {None}]

ASSUME NoneAssumption == None \notin Entries /\ None \notin Tables

TypeOK ==
    /\ clock \in 0..MaxClock /\ writes \in 0..MaxWrites
    /\ table \in [Nodes -> Tables] /\ pool \in [Nodes -> SUBSET Ips]
    /\ db \in [Nodes -> [Ids -> [stamp: 0..MaxWrites, by: Nodes, val: Entries \cup {None}]]]
    /\ dirty \in [Nodes -> BOOLEAN] /\ reload \in [Nodes -> Tables \cup {None}]
    /\ stale \in [Nodes -> SUBSET (Ids \X (0..MaxClock))]
    /\ behind \in BOOLEAN

Init ==
    /\ clock = 0 /\ writes = 0
    /\ table = [n \in Nodes |-> [i \in Ids |-> None]] /\ pool = [n \in Nodes |-> {}]
    /\ db = [n \in Nodes |-> [i \in Ids |-> Unwritten(None)]]
    /\ dirty = [n \in Nodes |-> FALSE] /\ reload = [n \in Nodes |-> None]
    /\ stale = [n \in Nodes |-> {}] /\ behind = FALSE

-----------------------------------------------------------------------------
(* Some node has a version of the record that n has not seen.              *)
Overtaken(n, i) == \E m \in Nodes : Later(db[m][i], db[n][i])

(* The record names another node's address, and is not the one in n's own  *)
(* store: the entry it is written from is older.                           *)
Revived(n, i, rec) ==
    /\ rec # None /\ rec.ip \notin Share[n]
    /\ db[n][i].val # None => db[n][i].val.ip # rec.ip

(* sync_instance and the tombstone of sync_delete_instance.  A write wakes *)
(* the node's own watcher too.                                             *)
PutAll(n, S, rec(_)) ==
    /\ writes + Cardinality(S) <= MaxWrites /\ writes' = writes + Cardinality(S)
    /\ db' = [db EXCEPT ![n] = [i \in Ids |-> IF i \notin S THEN @[i]
                                ELSE Written(@[i], n, rec(i))]]
    /\ dirty' = [dirty EXCEPT ![n] = @ \/ S # {}]
    /\ behind' = (behind \/ \E i \in S : Overtaken(n, i) \/ Revived(n, i, rec(i)))

Put(n, i, rec) == PutAll(n, {i}, LAMBDA j : rec)

(* A sync round: n takes what m has newer.                                 *)
Sync(n, m) ==
    /\ \E i \in Ids : Later(db[m][i], db[n][i])
    /\ db' = [db EXCEPT ![n] = [i \in Ids |-> Newest(db[m][i], db[n][i])]]
    /\ dirty' = [dirty EXCEPT ![n] = TRUE]
    /\ UNCHANGED <<writes, clock, table, pool, reload, stale, behind>>

(* accept_instances: of two records with one address the older is kept.    *)
Older(r, i, s, j) == r.reg < s.reg \/ (r.reg = s.reg /\ i < j)

Accepted(n) ==
    LET rec(i) == db[n][i].val
        Lost(i) == \E j \in Ids \ {i} : /\ rec(j) # None /\ rec(j).ip = rec(i).ip
                                        /\ Older(rec(j), j, rec(i), i)
    IN  [i \in Ids |-> IF rec(i) = None THEN None ELSE IF Lost(i) THEN None ELSE rec(i)]

-----------------------------------------------------------------------------
(* alloc_ip: the lowest free address of the node's own share.              *)
FreeIps(n) == Share[n] \ pool[n]

(* valid_ip, of a registered instance.                                     *)
Own(n, i) == table[n][i] # None /\ table[n][i].ip \in Share[n]

(* forget_instance, for a set of instances.                                *)
Forgotten(n, S) == [i \in Ids |-> IF i \in S THEN None ELSE table[n][i]]

(* Mutant: the addresses stay allocated.                                   *)
PoolWithoutKept(n, S) == pool[n]

PoolWithout(n, S) == pool[n] \ {table[n][i].ip : i \in {j \in S : table[n][j] # None}}

(* new_client_by_id.  An entry with an address of this node's share is     *)
(* written again as it is; a CVM that rebooted has a new key, and only     *)
(* then a new reg_time.                                                    *)
RegisterKnown(n, i) ==
    /\ Own(n, i)
    /\ \E reg \in {table[n][i].reg, clock} :
         /\ table' = [table EXCEPT ![n][i].reg = reg]
         /\ Put(n, i, [ip |-> table[n][i].ip, reg |-> reg])
    /\ UNCHANGED <<clock, pool, reload, stale>>

(* A new instance, or one whose address another node gave it: it gets an   *)
(* address of this node's share.                                           *)
RegisterNew(n, i) ==
    /\ ~Own(n, i)
    /\ \E ip \in FreeIps(n) :
         /\ \A a \in FreeIps(n) : ip <= a
         /\ table' = [table EXCEPT ![n][i] = [ip |-> ip, reg |-> clock]]
         /\ pool' = [pool EXCEPT ![n] = PoolWithout(n, {i}) \cup {ip}]
         /\ Put(n, i, [ip |-> ip, reg |-> clock])
    /\ UNCHANGED <<clock, reload, stale>>

(* No address is left: an entry from another node's share has lost its     *)
(* place in the pool and may keep a new reg_time, unwritten.               *)
RegisterRefused(n, i) ==
    /\ table[n][i] # None /\ ~Own(n, i) /\ FreeIps(n) = {}
    /\ \E reg \in {table[n][i].reg, clock} : table' = [table EXCEPT ![n][i].reg = reg]
    /\ pool' = [pool EXCEPT ![n] = PoolWithout(n, {i})]
    /\ UNCHANGED <<writes, clock, db, dirty, reload, stale, behind>>

(* remove_cvm: whether or not there is a record, or an entry.              *)
Remove(n, i) ==
    /\ table[n][i] # None \/ db[n][i].val # None
    /\ table' = [table EXCEPT ![n] = Forgotten(n, {i})]
    /\ pool' = [pool EXCEPT ![n] = PoolWithout(n, {i})]
    /\ Put(n, i, None)
    /\ UNCHANGED <<clock, reload, stale>>

(* update_instance_port_policy: the answer of a CVM about its ports is     *)
(* written with the rest of the entry, as this node knows it.              *)
PolicyFetched(n, i) ==
    /\ table[n][i] # None
    /\ Put(n, i, table[n][i])
    /\ UNCHANGED <<clock, table, pool, reload, stale>>

-----------------------------------------------------------------------------
(* recycle: candidates by reg_time under the lock; their last handshake,   *)
(* which any node may have seen, off it.                                   *)
RecycleScan(n) ==
    /\ stale[n] = {}
    /\ \E S \in SUBSET {i \in Ids : table[n][i] # None /\ clock - table[n][i].reg > Timeout} :
         S # {} /\ stale' = [stale EXCEPT ![n] = {<<i, table[n][i].reg>> : i \in S}]
    /\ UNCHANGED <<writes, clock, table, pool, db, dirty, reload, behind>>

StillStale(n, i, reg) == table[n][i] # None /\ table[n][i].reg = reg

(* Then, under the lock, one removal for every entry that is still the one *)
(* the decision was about.                                                 *)
RecycleRemove(n) ==
    LET S == {i \in Ids : \E s \in stale[n] : s[1] = i /\ StillStale(n, i, s[2])}
    IN  /\ stale[n] # {} /\ stale' = [stale EXCEPT ![n] = {}]
        /\ table' = [table EXCEPT ![n] = Forgotten(n, S)]
        /\ pool' = [pool EXCEPT ![n] = PoolWithout(n, S)]
        /\ PutAll(n, S, LAMBDA i : None)
        /\ UNCHANGED <<clock, reload>>

-----------------------------------------------------------------------------
(* reload_instances_from_kv_store: the accepted records, before the lock.  *)
ReloadRead(n) ==
    /\ dirty[n] /\ reload[n] = None
    /\ dirty' = [dirty EXCEPT ![n] = FALSE] /\ reload' = [reload EXCEPT ![n] = Accepted(n)]
    /\ UNCHANGED <<writes, clock, table, pool, db, stale, behind>>

(* Instances without a record go, unless they registered within the grace  *)
(* period.                                                                 *)
Dropped(n) == {i \in Ids : /\ table[n][i] # None /\ reload[n][i] = None
                           /\ clock - table[n][i].reg > Grace}

(* The records are applied in the order of their ids: each takes its old   *)
(* address out of the pool, if it changed, and puts its new one in.  What  *)
(* decides is the last of these for an address.                            *)
(* Mutant: the old address is taken out whether or not it changed, and an  *)
(* address put in only for an instance that is new here.                   *)
PoolAfterReloadNew(n) ==
    LET New == {i \in Ids : reload[n][i] # None /\ table[n][i] = None}
    IN  PoolWithout(n, Dropped(n) \cup {i \in Ids : reload[n][i] # None})
            \cup {reload[n][i].ip : i \in New}

PoolAfterReload(n) ==
    LET Enters(a) == {i \in Ids : reload[n][i] # None /\ reload[n][i].ip = a}
        Leaves(a) == {i \in Ids : /\ reload[n][i] # None /\ table[n][i] # None
                                  /\ table[n][i].ip = a /\ reload[n][i].ip # a}
    IN  {a \in Ips : IF Enters(a) = {} THEN a \in PoolWithout(n, Dropped(n)) /\ Leaves(a) = {}
                     ELSE \E i \in Enters(a) : \A j \in Leaves(a) : j < i}

(* Mutant: the wake-ups that came during the reload count as handled.      *)
ReloadApplyForgets(n) ==
    /\ reload[n] # None /\ reload' = [reload EXCEPT ![n] = None]
    /\ table' = [table EXCEPT ![n] = [i \in Ids |-> IF reload[n][i] # None THEN reload[n][i]
                                                    ELSE Forgotten(n, Dropped(n))[i]]]
    /\ pool' = [pool EXCEPT ![n] = PoolAfterReload(n)]
    /\ behind' = (behind \/ reload[n] # Accepted(n))
    /\ dirty' = [dirty EXCEPT ![n] = FALSE]
    /\ UNCHANGED <<writes, clock, db, stale>>

ReloadApply(n) ==
    /\ reload[n] # None /\ reload' = [reload EXCEPT ![n] = None]
    /\ table' = [table EXCEPT ![n] = [i \in Ids |-> IF reload[n][i] # None THEN reload[n][i]
                                                    ELSE Forgotten(n, Dropped(n))[i]]]
    /\ pool' = [pool EXCEPT ![n] = PoolAfterReload(n)]
    /\ behind' = (behind \/ reload[n] # Accepted(n))
    /\ UNCHANGED <<writes, clock, db, dirty, stale>>

(* The gateway restarts: build_state_from_kv_store.                        *)
Restart(n) ==
    /\ table' = [table EXCEPT ![n] = Accepted(n)]
    /\ pool' = [pool EXCEPT ![n] = {Accepted(n)[i].ip : i \in {j \in Ids : Accepted(n)[j] # None}}]
    /\ dirty' = [dirty EXCEPT ![n] = FALSE] /\ reload' = [reload EXCEPT ![n] = None]
    /\ stale' = [stale EXCEPT ![n] = {}]
    /\ UNCHANGED <<writes, clock, db, behind>>

Tick == clock < MaxClock /\ clock' = clock + 1 /\ UNCHANGED <<writes, table, pool, db, dirty, reload, stale, behind>>

Next ==
    \/ Tick
    \/ \E n \in Nodes :
         \/ \E m \in Nodes : Sync(n, m)
         \/ \E i \in Ids : \/ RegisterKnown(n, i) \/ RegisterNew(n, i) \/ RegisterRefused(n, i)
                           \/ Remove(n, i) \/ PolicyFetched(n, i)
         \/ RecycleScan(n) \/ RecycleRemove(n) \/ ReloadRead(n) \/ ReloadApply(n) \/ Restart(n)

Spec == Init /\ [][Next]_vars

-----------------------------------------------------------------------------
(* Properties.                                                             *)

(* The address of an entry is allocated, so that alloc_ip cannot give it   *)
(* to another instance - as long as no node acted on records that had been *)
(* overtaken: a reload that applied what it read before a registration, a  *)
(* write over another node's newer one, or a port policy written with an   *)
(* address its own store no longer has for the instance.  Moves of an      *)
(* instance from one node to another, restarts and exhausted shares do not *)
(* break it.                                                               *)
PoolCovers ==
    ~behind => \A n \in Nodes, i \in Ids : Own(n, i) => table[n][i].ip \in pool[n]

(* An allocated address belongs to an entry: no sequence of registrations, *)
(* reloads, removals and recycling loses an address of the share for good. *)
NoLeak ==
    \A n \in Nodes : \A a \in pool[n] : \E i \in Ids : table[n][i] # None /\ table[n][i].ip = a

Quiet(n) == ~dirty[n] /\ reload[n] = None

(* A node that has handled every change has the records the store accepts, *)
(* whatever registrations and removals crossed its reload.                 *)
QuietMatchesStore ==
    \A n \in Nodes : Quiet(n) =>
        \A i \in Ids : Accepted(n)[i] # None => table[n][i] # None /\ table[n][i].ip = Accepted(n)[i].ip

(* PoolCovers for a quiet node, without the exception: the code does not   *)
(* keep it (README, section 6).                                            *)
QuietPoolCovers ==
    \A n \in Nodes : Quiet(n) => \A i \in Ids : Own(n, i) => table[n][i].ip \in pool[n]

(* "the loser has to stop being routable": what a quiet node routes to     *)
(* beyond the accepted records is within the grace period.  The code does  *)
(* not keep it: nothing looks again when the period ends.                  *)
LoserNotRouted ==
    \A n \in Nodes : Quiet(n) =>
        \A i \in Ids : table[n][i] # None /\ clock - table[n][i].reg > Grace => Accepted(n)[i] # None
=============================================================================
