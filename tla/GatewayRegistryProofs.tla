------------------------ MODULE GatewayRegistryProofs ------------------------
(***************************************************************************)
(* Proofs about GatewayRegistry, for any nodes, instances and shares of    *)
(* the addresses: no address is lost from the pool of a node, none in use  *)
(* is missing from it, and a node at rest has the records of its store.    *)
(***************************************************************************)
EXTENDS GatewayRegistry, TLAPS

Versions == [stamp: Nat, by: Nodes, val: Entries \cup {None}]

(* The types that the argument needs: what the store and a reload hold can *)
(* become entries.                                                         *)
Types == /\ clock \in 0..MaxClock
         /\ table \in [Nodes -> Tables] /\ pool \in [Nodes -> SUBSET Ips]
         /\ db \in [Nodes -> [Ids -> Versions]]
         /\ reload \in [Nodes -> Tables \cup {None}]

Inv == Types /\ NoLeak

-----------------------------------------------------------------------------
(* The records that a node accepts are a table.                            *)
LEMMA AcceptedType ==
    ASSUME Types, NEW n \in Nodes PROVE Accepted(n) \in Tables
  <1>1. \A i \in Ids : db[n][i].val \in Entries \cup {None}
    BY DEF Types, Versions
  <1> QED
    BY <1>1, Zenon DEF Accepted, Tables

(* A write of an entry, or of a tombstone, keeps the type of the store.    *)
LEMMA PutType ==
    ASSUME Types, NEW n \in Nodes, NEW i \in Ids, NEW r \in Entries \cup {None}, Put(n, i, r)
    PROVE  db' \in [Nodes -> [Ids -> Versions]]
  <1>1. Written(db[n][i], n, r) \in Versions
    BY DEF Types, Versions, Written
  <1> QED
    BY <1>1 DEF Types, Put, PutAll

LEMMA DeleteType ==
    ASSUME Types, NEW n \in Nodes, NEW S \in SUBSET Ids, PutAll(n, S, LAMBDA i : None)
    PROVE  db' \in [Nodes -> [Ids -> Versions]]
  <1>1. \A i \in Ids : Written(db[n][i], n, None) \in Versions
    BY DEF Types, Versions, Written
  <1> QED
    BY <1>1 DEF Types, PutAll

(* Forgetting instances leaves a table, and a part of the pool.            *)
LEMMA ForgottenType ==
    ASSUME Types, NEW n \in Nodes, NEW S
    PROVE  Forgotten(n, S) \in Tables /\ PoolWithout(n, S) \in SUBSET Ips
  BY DEF Types, Forgotten, PoolWithout, Tables

LEMMA InitTypes == Init => Types
  <1> SUFFICES ASSUME Init PROVE Types
    OBVIOUS
  <1>1. Unwritten(None) \in Versions
    BY NodesAssumption DEF Unwritten, Versions
  <1>2. clock \in 0..MaxClock
    BY TimeAssumption DEF Init
  <1> QED
    BY <1>1, <1>2 DEF Init, Types, Tables

(* No step changes the types.                                              *)
LEMMA TypesStep == Types /\ [Next]_vars => Types'
  <1> SUFFICES ASSUME Types, [Next]_vars PROVE Types'
    OBVIOUS
  <1>1. CASE Tick
    BY <1>1, TimeAssumption DEF Tick, Types
  <1>2. ASSUME NEW n \in Nodes, NEW m \in Nodes, Sync(n, m) PROVE Types'
    <2>1. \A i \in Ids : Newest(db[m][i], db[n][i]) \in Versions
      BY DEF Newest, Types
    <2> QED
      BY <1>2, <2>1 DEF Sync, Types
  <1>3. ASSUME NEW n \in Nodes, NEW i \in Ids, RegisterKnown(n, i) PROVE Types'
    <2>1. PICK reg \in {table[n][i].reg, clock} :
             /\ table' = [table EXCEPT ![n][i].reg = reg]
             /\ Put(n, i, [ip |-> table[n][i].ip, reg |-> reg])
      BY <1>3 DEF RegisterKnown
    <2>2. table[n][i] \in Entries /\ reg \in 0..MaxClock
      BY <1>3, <2>1 DEF RegisterKnown, Own, Types, Tables, Entries
    <2>3. [ip |-> table[n][i].ip, reg |-> reg] \in Entries
      BY <2>2 DEF Entries
    <2>4. [table[n][i] EXCEPT !.reg = reg] \in Entries
      BY <2>2 DEF Entries
    <2>5. table' \in [Nodes -> Tables]
      BY <2>1, <2>4 DEF Types, Tables
    <2> QED
      BY <1>3, <2>1, <2>3, <2>5, PutType DEF RegisterKnown, Types
  <1>4. ASSUME NEW n \in Nodes, NEW i \in Ids, RegisterNew(n, i) PROVE Types'
    <2>1. PICK ip \in FreeIps(n) :
             /\ table' = [table EXCEPT ![n][i] = [ip |-> ip, reg |-> clock]]
             /\ pool' = [pool EXCEPT ![n] = PoolWithout(n, {i}) \cup {ip}]
             /\ Put(n, i, [ip |-> ip, reg |-> clock])
      BY <1>4 DEF RegisterNew
    <2>2. ip \in Ips
      BY DEF FreeIps, Ips
    <2>3. [ip |-> ip, reg |-> clock] \in Entries
      BY <2>2 DEF Entries, Types
    <2>4. PoolWithout(n, {i}) \cup {ip} \in SUBSET Ips
      BY <2>2, ForgottenType
    <2> QED
      BY <1>4, <2>1, <2>3, <2>4, PutType DEF RegisterNew, Types, Tables
  <1>5. ASSUME NEW n \in Nodes, NEW i \in Ids, RegisterRefused(n, i) PROVE Types'
    <2>1. PICK reg \in {table[n][i].reg, clock} : table' = [table EXCEPT ![n][i].reg = reg]
      BY <1>5 DEF RegisterRefused
    <2>2. table[n][i] \in Entries /\ reg \in 0..MaxClock
      BY <1>5, <2>1 DEF RegisterRefused, Types, Tables, Entries
    <2>3. [table[n][i] EXCEPT !.reg = reg] \in Entries
      BY <2>2 DEF Entries
    <2> QED
      BY <1>5, <2>1, <2>3, ForgottenType DEF RegisterRefused, Types, Tables
  <1>6. ASSUME NEW n \in Nodes, NEW i \in Ids, Remove(n, i) PROVE Types'
    BY <1>6, ForgottenType, PutType DEF Remove, Types
  <1>7. ASSUME NEW n \in Nodes, NEW i \in Ids, PolicyFetched(n, i) PROVE Types'
    BY <1>7, PutType DEF PolicyFetched, Types, Tables
  <1>8. ASSUME NEW n \in Nodes, RecycleScan(n) PROVE Types'
    BY <1>8 DEF RecycleScan, Types
  <1>9. ASSUME NEW n \in Nodes, RecycleRemove(n) PROVE Types'
    <2> DEFINE S == {i \in Ids : \E s \in stale[n] : s[1] = i /\ StillStale(n, i, s[2])}
    <2>1. /\ table' = [table EXCEPT ![n] = Forgotten(n, S)]
          /\ pool' = [pool EXCEPT ![n] = PoolWithout(n, S)]
          /\ PutAll(n, S, LAMBDA i : None)
          /\ UNCHANGED <<clock, reload>>
      BY <1>9 DEF RecycleRemove
    <2>2. S \in SUBSET Ids
      OBVIOUS
    <2> HIDE DEF S
    <2> QED
      BY <2>1, <2>2, ForgottenType, DeleteType DEF Types
  <1>10. ASSUME NEW n \in Nodes, ReloadRead(n) PROVE Types'
    BY <1>10, AcceptedType DEF ReloadRead, Types
  <1>11. ASSUME NEW n \in Nodes, ReloadApply(n) PROVE Types'
    <2>1. [i \in Ids |-> IF reload[n][i] # None THEN reload[n][i]
                         ELSE Forgotten(n, Dropped(n))[i]] \in Tables
      BY <1>11, ForgottenType DEF ReloadApply, Types, Tables
    <2>2. PoolAfterReload(n) \in SUBSET Ips
      BY DEF PoolAfterReload
    <2> QED
      BY <1>11, <2>1, <2>2 DEF ReloadApply, Types
  <1>12. ASSUME NEW n \in Nodes, Restart(n) PROVE Types'
    <2>1. {Accepted(n)[i].ip : i \in {j \in Ids : Accepted(n)[j] # None}} \in SUBSET Ips
      BY AcceptedType DEF Tables, Entries
    <2> QED
      BY <1>12, <2>1, AcceptedType DEF Restart, Types
  <1>13. CASE UNCHANGED vars
    BY <1>13 DEF vars, Types
  <1> QED
    BY <1>1, <1>2, <1>3, <1>4, <1>5, <1>6, <1>7, <1>8, <1>9, <1>10, <1>11, <1>12, <1>13 DEF Next

-----------------------------------------------------------------------------
(* Every address of a pool is that of an entry.                            *)
Covered(T, P) == \A a \in P : \E i \in Ids : T[i] # None /\ T[i].ip = a

(* NoLeak looks at one node at a time, and a step changes one.             *)
LEMMA OneNode ==
    ASSUME Types, NoLeak, NEW n \in Nodes, NEW T, NEW P, Covered(T, P),
           table' = [table EXCEPT ![n] = T], pool' = [pool EXCEPT ![n] = P]
    PROVE  NoLeak'
  <1>1. ASSUME NEW m \in Nodes PROVE Covered(table'[m], pool'[m])
    <2>1. CASE m = n
      BY <2>1 DEF Types
    <2>2. CASE m # n
      BY <2>2 DEF Types, NoLeak, Covered
    <2> QED
      BY <2>1, <2>2
  <1> QED
    BY <1>1 DEF NoLeak, Covered

(* What is left when instances are forgotten still has its entries.        *)
LEMMA ForgottenCovered ==
    ASSUME Types, NoLeak, NEW n \in Nodes, NEW S
    PROVE  Covered(Forgotten(n, S), PoolWithout(n, S))
  <1> SUFFICES ASSUME NEW a \in PoolWithout(n, S)
               PROVE  \E i \in Ids : Forgotten(n, S)[i] # None /\ Forgotten(n, S)[i].ip = a
    BY DEF Covered
  <1>1. PICK i \in Ids : table[n][i] # None /\ table[n][i].ip = a
    BY DEF NoLeak, PoolWithout
  <1>2. i \notin S
    BY <1>1 DEF PoolWithout
  <1> QED
    BY <1>1, <1>2 DEF Forgotten

(* A reload: an address that entered with a record has that record's       *)
(* entry; one that stayed was not dropped and did not leave.               *)
LEMMA ReloadCovered ==
    ASSUME Types, NoLeak, NEW n \in Nodes, reload[n] # None
    PROVE  Covered([i \in Ids |-> IF reload[n][i] # None THEN reload[n][i]
                                  ELSE Forgotten(n, Dropped(n))[i]], PoolAfterReload(n))
  <1> DEFINE T == [i \in Ids |-> IF reload[n][i] # None THEN reload[n][i]
                                 ELSE Forgotten(n, Dropped(n))[i]]
             Enters(a) == {i \in Ids : reload[n][i] # None /\ reload[n][i].ip = a}
             Leaves(a) == {i \in Ids : /\ reload[n][i] # None /\ table[n][i] # None
                                       /\ table[n][i].ip = a /\ reload[n][i].ip # a}
  <1> SUFFICES ASSUME NEW a \in PoolAfterReload(n) PROVE \E i \in Ids : T[i] # None /\ T[i].ip = a
    BY DEF Covered
  <1>1. CASE Enters(a) # {}
    <2>1. PICK i \in Ids : reload[n][i] # None /\ reload[n][i].ip = a
      BY <1>1
    <2> QED
      BY <2>1
  <1>2. CASE Enters(a) = {}
    <2>1. a \in PoolWithout(n, Dropped(n)) /\ Leaves(a) = {}
      BY <1>2 DEF PoolAfterReload
    <2>2. PICK i \in Ids : /\ Forgotten(n, Dropped(n))[i] # None
                           /\ Forgotten(n, Dropped(n))[i].ip = a
      BY <2>1, ForgottenCovered DEF Covered
    <2>3. table[n][i] # None /\ table[n][i].ip = a
      BY <2>2 DEF Forgotten
    <2>4. reload[n][i] = None
      BY <1>2, <2>1, <2>3
    <2> QED
      BY <2>2, <2>4
  <1> QED
    BY <1>1, <1>2

(* A new reg_time leaves the address of an entry.                          *)
LEMMA RetimedCovered ==
    ASSUME Types, NoLeak, NEW n \in Nodes, NEW i \in Ids, table[n][i] # None,
           NEW reg \in {table[n][i].reg, clock}
    PROVE  Covered([table[n] EXCEPT ![i].reg = reg], pool[n])
  <1> DEFINE T == [table[n] EXCEPT ![i].reg = reg]
  <1>1. table[n][i] \in Entries /\ reg \in 0..MaxClock
    BY DEF Types, Tables, Entries
  <1>2. T[i] \in Entries /\ T[i].ip = table[n][i].ip
    BY <1>1 DEF Types, Tables, Entries
  <1>3. \A j \in Ids \ {i} : T[j] = table[n][j]
    BY DEF Types, Tables
  <1>4. T[i] # None
    BY <1>2, NoneAssumption
  <1> SUFFICES ASSUME NEW a \in pool[n] PROVE \E j \in Ids : T[j] # None /\ T[j].ip = a
    BY DEF Covered
  <1>5. PICK j \in Ids : table[n][j] # None /\ table[n][j].ip = a
    BY DEF NoLeak
  <1> HIDE DEF T
  <1> QED
    BY <1>2, <1>3, <1>4, <1>5

(* No step takes the entry of an allocated address away.                   *)
LEMMA NoLeakStep == Inv /\ [Next]_vars => NoLeak'
  <1> SUFFICES ASSUME Types, NoLeak, [Next]_vars PROVE NoLeak'
    BY DEF Inv
  <1>1. CASE UNCHANGED <<table, pool>>
    BY <1>1 DEF NoLeak
  <1>2. ASSUME NEW n \in Nodes, NEW i \in Ids, RegisterKnown(n, i) PROVE NoLeak'
    <2>1. PICK reg \in {table[n][i].reg, clock} : table' = [table EXCEPT ![n][i].reg = reg]
      BY <1>2 DEF RegisterKnown
    <2>2. Covered([table[n] EXCEPT ![i].reg = reg], pool[n])
      BY <1>2, RetimedCovered DEF RegisterKnown, Own
    <2>3. table' = [table EXCEPT ![n] = [table[n] EXCEPT ![i].reg = reg]]
      BY <2>1
    <2>4. pool' = [pool EXCEPT ![n] = pool[n]]
      BY <1>2 DEF RegisterKnown, Types
    <2> QED
      BY <2>2, <2>3, <2>4, OneNode
  <1>3. ASSUME NEW n \in Nodes, NEW i \in Ids, RegisterNew(n, i) PROVE NoLeak'
    <2>1. PICK ip \in FreeIps(n) :
             /\ table' = [table EXCEPT ![n][i] = [ip |-> ip, reg |-> clock]]
             /\ pool' = [pool EXCEPT ![n] = PoolWithout(n, {i}) \cup {ip}]
      BY <1>3 DEF RegisterNew
    <2> DEFINE e == [ip |-> ip, reg |-> clock]
               T == [table[n] EXCEPT ![i] = e]
    <2>2. e \in Entries
      BY DEF Types, Entries, FreeIps, Ips
    <2>3. e # None /\ e.ip = ip
      BY <2>2, NoneAssumption
    <2>4. T[i] = e /\ \A j \in Ids \ {i} : T[j] = table[n][j]
      BY DEF Types, Tables
    <2>5. Covered(T, PoolWithout(n, {i}) \cup {ip})
      <3> HIDE DEF e, T
      <3> SUFFICES ASSUME NEW a \in PoolWithout(n, {i}) \cup {ip}
                   PROVE  \E j \in Ids : T[j] # None /\ T[j].ip = a
        BY DEF Covered
      <3>1. CASE a = ip
        BY <3>1, <2>3, <2>4
      <3>2. CASE a \in PoolWithout(n, {i})
        <4>1. PICK j \in Ids : /\ Forgotten(n, {i})[j] # None
                               /\ Forgotten(n, {i})[j].ip = a
          BY <3>2, ForgottenCovered DEF Covered
        <4>2. j # i /\ table[n][j] # None /\ table[n][j].ip = a
          BY <4>1 DEF Forgotten
        <4> QED
          BY <4>2, <2>4
      <3> QED
        BY <3>1, <3>2
    <2>6. table' = [table EXCEPT ![n] = T]
      BY <2>1
    <2> QED
      BY <2>1, <2>5, <2>6, OneNode
  <1>4. ASSUME NEW n \in Nodes, NEW i \in Ids, RegisterRefused(n, i) PROVE NoLeak'
    <2>1. PICK reg \in {table[n][i].reg, clock} : table' = [table EXCEPT ![n][i].reg = reg]
      BY <1>4 DEF RegisterRefused
    <2>2. Covered([table[n] EXCEPT ![i].reg = reg], pool[n])
      BY <1>4, RetimedCovered DEF RegisterRefused
    <2>3. Covered([table[n] EXCEPT ![i].reg = reg], PoolWithout(n, {i}))
      BY <2>2 DEF Covered, PoolWithout
    <2>4. table' = [table EXCEPT ![n] = [table[n] EXCEPT ![i].reg = reg]]
      BY <2>1
    <2> QED
      BY <1>4, <2>3, <2>4, OneNode DEF RegisterRefused
  <1>5. ASSUME NEW n \in Nodes, NEW i \in Ids, Remove(n, i) PROVE NoLeak'
    BY <1>5, ForgottenCovered, OneNode DEF Remove
  <1>6. ASSUME NEW n \in Nodes, RecycleRemove(n) PROVE NoLeak'
    BY <1>6, ForgottenCovered, OneNode DEF RecycleRemove
  <1>7. ASSUME NEW n \in Nodes, ReloadApply(n) PROVE NoLeak'
    BY <1>7, ReloadCovered, OneNode DEF ReloadApply
  <1>8. ASSUME NEW n \in Nodes, Restart(n) PROVE NoLeak'
    <2>1. Covered(Accepted(n), {Accepted(n)[i].ip : i \in {j \in Ids : Accepted(n)[j] # None}})
      BY DEF Covered
    <2> QED
      BY <1>8, <2>1, OneNode DEF Restart
  <1>9. CASE UNCHANGED vars
    BY <1>9, <1>1 DEF vars
  <1>10. CASE Tick
    BY <1>10, <1>1 DEF Tick
  <1>11. ASSUME NEW n \in Nodes, NEW m \in Nodes, Sync(n, m) PROVE NoLeak'
    BY <1>11, <1>1 DEF Sync
  <1>12. ASSUME NEW n \in Nodes, NEW i \in Ids, PolicyFetched(n, i) PROVE NoLeak'
    BY <1>12, <1>1 DEF PolicyFetched
  <1>13. ASSUME NEW n \in Nodes, RecycleScan(n) \/ ReloadRead(n) PROVE NoLeak'
    BY <1>13, <1>1 DEF RecycleScan, ReloadRead
  <1>14. ASSUME Next PROVE NoLeak'
    <2>1. SUFFICES ASSUME ~Tick PROVE NoLeak'
      BY <1>10
    <2>2. PICK n \in Nodes :
            \/ \E m \in Nodes : Sync(n, m)
            \/ \E i \in Ids : \/ RegisterKnown(n, i) \/ RegisterNew(n, i) \/ RegisterRefused(n, i)
                              \/ Remove(n, i) \/ PolicyFetched(n, i)
            \/ RecycleScan(n) \/ RecycleRemove(n) \/ ReloadRead(n) \/ ReloadApply(n) \/ Restart(n)
      BY <1>14, <2>1, Zenon DEF Next
    <2>3. CASE \E m \in Nodes : Sync(n, m)
      BY <2>3, <1>11
    <2>4. CASE \E i \in Ids : \/ RegisterKnown(n, i) \/ RegisterNew(n, i) \/ RegisterRefused(n, i)
                             \/ Remove(n, i) \/ PolicyFetched(n, i)
      BY <2>4, <1>2, <1>3, <1>4, <1>5, <1>12, Zenon
    <2> QED
      BY <2>2, <2>3, <2>4, <1>6, <1>7, <1>8, <1>13, Zenon
  <1> QED
    BY <1>9, <1>14

-----------------------------------------------------------------------------
(* What the store and the reloads hold are entries with addresses of some  *)
(* node's share, and no address is lost.                                   *)
THEOREM InvariantHolds == Spec => []Inv
  <1>1. Init => Inv
    BY InitTypes DEF Init, Inv, NoLeak
  <1>2. Inv /\ [Next]_vars => Inv'
    BY TypesStep, NoLeakStep DEF Inv
  <1> QED
    BY <1>1, <1>2, PTL DEF Spec

(* No sequence of registrations, moves, refusals, removals, recycling,     *)
(* reloads over older records and restarts loses an address of the pool:   *)
(* every allocated address belongs to an entry (alloc_ip never runs out    *)
(* while addresses are unused).                                            *)
THEOREM NoLeakHolds == Spec => []NoLeak
  BY InvariantHolds, PTL DEF Inv

-----------------------------------------------------------------------------
(* The addresses in use.  As long as nobody acts on what was overtaken,    *)
(* the versions of a record form a chain, and an address is only ever      *)
(* given out by the node whose share it is in.                             *)
Names(e, a) == e # None /\ e.ip = a
Newer(k, l, i) == db[k][i].stamp >= db[l][i].stamp

Chained == \A k, l \in Nodes, i \in Ids : db[k][i].stamp = db[l][i].stamp => db[k][i] = db[l][i]

(* Once a node has given an address of its share to an instance, every     *)
(* version between its own and the last that names it names it too.        *)
LastGiver ==
    \A n, k, l \in Nodes, i \in Ids : \A a \in Share[n] :
        Newer(k, l, i) /\ Newer(l, n, i) /\ Names(db[k][i].val, a) => Names(db[l][i].val, a)

(* What the store may bring back to a node is in the node's table.         *)
Given(n, T) ==
    \A k \in Nodes, i \in Ids : \A a \in Share[n] :
        Newer(k, n, i) /\ Names(db[k][i].val, a) => Names(T[i], a)

(* The addresses of the node's share are in the pool, once each.           *)
Apart(n, T, P) ==
    \A a \in Share[n], i \in Ids :
        Names(T[i], a) => a \in P /\ \A j \in Ids : Names(T[j], a) => j = i

AllGiven == \A n \in Nodes : Given(n, table[n])
AllApart == \A n \in Nodes : Apart(n, table[n], pool[n])
StoreOK == Chained /\ LastGiver
AddressOK == StoreOK /\ AllGiven /\ AllApart
AddressInv == Types /\ (~behind => AddressOK)

(* A node that has no change to handle is about to apply what its store    *)
(* accepts, or has done so.                                                *)
Matches(n) == \A i \in Ids : Accepted(n)[i] # None => Names(table[n][i], Accepted(n)[i].ip)
HandledAt(n) == ~dirty[n] => reload[n] = Accepted(n) \/ (reload[n] = None /\ Matches(n))
Handled == \A n \in Nodes : HandledAt(n)
HandledInv == Types /\ dirty \in [Nodes -> BOOLEAN] /\ Handled

(* n writes R[i] for every i in S, having seen the last version of each.   *)
Wrote(n, S, R) ==
    /\ \A k \in Nodes, i \in Ids : ~(k = n /\ i \in S) => db'[k][i] = db[k][i]
    /\ \A i \in S : /\ db'[n][i].stamp = db[n][i].stamp + 1 /\ db'[n][i].val = R[i]
                     /\ \A k \in Nodes : Newer(n, k, i)
                     /\ \A a : a \notin Share[n] /\ Names(R[i], a) => Names(db[n][i].val, a)

LEMMA Stamps == Types => \A k \in Nodes, i \in Ids : db[k][i].stamp \in Nat /\ db[k][i].by \in Nat
  BY NodesAssumption DEF Types, Versions

Writes(n, S, R) ==
    db' = [db EXCEPT ![n] = [i \in Ids |-> IF i \notin S THEN db[n][i]
                                            ELSE Written(db[n][i], n, R[i])]]
UpToDate(n, S, R) == \A i \in S : ~Overtaken(n, i) /\ ~Revived(n, i, R[i])

LEMMA WroteAll ==
    ASSUME Types, NEW n \in Nodes, NEW S \in SUBSET Ids, NEW R,
           Writes(n, S, R), UpToDate(n, S, R)
    PROVE  Wrote(n, S, R)
  <1>1. \A k \in Nodes, i \in Ids : ~(k = n /\ i \in S) => db'[k][i] = db[k][i]
    BY DEF Types, Writes
  <1> SUFFICES ASSUME NEW i \in S
               PROVE  /\ db'[n][i].stamp = db[n][i].stamp + 1 /\ db'[n][i].val = R[i]
                      /\ \A k \in Nodes : Newer(n, k, i)
                      /\ \A a : a \notin Share[n] /\ Names(R[i], a) => Names(db[n][i].val, a)
    BY <1>1 DEF Wrote
  <1>2. db'[n][i] = Written(db[n][i], n, R[i])
    BY DEF Types, Writes
  <1>3. \A k \in Nodes : Newer(n, k, i)
    BY Stamps DEF UpToDate, Overtaken, Later, Newer
  <1> QED
    BY <1>2, <1>3 DEF UpToDate, Written, Revived, Names

(* The new versions are the last of their chains.                          *)
LEMMA WriteStore ==
    ASSUME Types, StoreOK, NEW n \in Nodes, NEW S \in SUBSET Ids, NEW R, Wrote(n, S, R)
    PROVE  StoreOK'
  <1>1. ASSUME NEW k \in Nodes, NEW l \in Nodes, NEW i \in Ids, db'[k][i].stamp = db'[l][i].stamp
        PROVE  db'[k][i] = db'[l][i]
    BY <1>1, Stamps DEF Wrote, Newer, StoreOK, Chained
  <1>2. ASSUME NEW m \in Nodes, NEW k \in Nodes, NEW l \in Nodes, NEW i \in Ids, NEW a \in Share[m],
               db'[k][i].stamp >= db'[l][i].stamp, db'[l][i].stamp >= db'[m][i].stamp,
               Names(db'[k][i].val, a)
        PROVE  Names(db'[l][i].val, a)
    <2>1. CASE i \notin S
      BY <1>2, <2>1 DEF Wrote, Newer, StoreOK, LastGiver
    <2>2. CASE i \in S /\ k # n
      BY <1>2, <2>2, Stamps DEF Wrote, Newer, StoreOK, LastGiver
    <2>3. CASE i \in S /\ k = n /\ l # n
      <3>1. m # n
        BY <1>2, <2>3, Stamps DEF Wrote, Newer
      <3>2. a \notin Share[n]
        BY <3>1, ShareAssumption
      <3>3. Names(db[n][i].val, a)
        BY <1>2, <2>3, <3>2 DEF Wrote
      <3> QED
        BY <1>2, <2>3, <3>1, <3>3 DEF Wrote, Newer, StoreOK, LastGiver
    <2>4. CASE k = n /\ l = n
      BY <1>2, <2>4
    <2> QED
      BY <2>1, <2>2, <2>3, <2>4
  <1> QED
    BY <1>1, <1>2 DEF StoreOK, Chained, LastGiver, Newer

(* What a write leaves to be known by the tables.                          *)
Keeps(n, S, R, T) ==
    \A i \in Ids : \A a \in Share[n] :
        Names(IF i \in S THEN R[i] ELSE table[n][i], a) => Names(T[i], a)

LEMMA WriteGiven ==
    ASSUME Types, NEW n \in Nodes, NEW S \in SUBSET Ids, NEW R, Wrote(n, S, R),
           AllGiven, NEW T, table' = [table EXCEPT ![n] = T], Keeps(n, S, R, T)
    PROVE  AllGiven'
  <1> SUFFICES ASSUME NEW m \in Nodes, NEW k \in Nodes, NEW i \in Ids, NEW a \in Share[m],
                      db'[k][i].stamp >= db'[m][i].stamp, Names(db'[k][i].val, a)
               PROVE  Names(table'[m][i], a)
    BY DEF AllGiven, Given, Newer
  <1>0. table'[n] = T /\ \A j \in Nodes \ {n} : table'[j] = table[j]
    BY DEF Types
  <1>1. CASE i \notin S
    <2>1. Names(table[m][i], a)
      BY <1>1 DEF Wrote, AllGiven, Given, Newer
    <2> QED
      BY <1>0, <1>1, <2>1 DEF Keeps
  <1>2. CASE i \in S /\ k # n
    <2>1. m # n
      BY <1>2, Stamps DEF Wrote, Newer
    <2> QED
      BY <1>0, <1>2, <2>1 DEF Wrote, AllGiven, Given, Newer
  <1>3. CASE i \in S /\ k = n /\ m # n
    <2>1. a \notin Share[n]
      BY <1>3, ShareAssumption
    <2>2. Names(db[n][i].val, a)
      BY <1>3, <2>1 DEF Wrote
    <2> QED
      BY <1>0, <1>3, <2>2 DEF Wrote, AllGiven, Given
  <1>4. CASE i \in S /\ k = n /\ m = n
    BY <1>0, <1>4 DEF Wrote, Keeps
  <1> QED
    BY <1>1, <1>2, <1>3, <1>4

(* The addresses of one node at a time.                                    *)
LEMMA ApartStep ==
    ASSUME Types, AllApart,
           NEW n \in Nodes, NEW T, NEW P, Apart(n, T, P),
           table' = [table EXCEPT ![n] = T], pool' = [pool EXCEPT ![n] = P]
    PROVE  AllApart'
  <1> SUFFICES ASSUME NEW m \in Nodes PROVE Apart(m, table'[m], pool'[m])
    BY DEF AllApart, Apart
  <1>1. CASE m = n
    BY <1>1 DEF Types
  <1>2. CASE m # n
    BY <1>2 DEF Types, AllApart
  <1> QED
    BY <1>1, <1>2

(* A node forgets instances: the others keep their own addresses.          *)
LEMMA ForgottenApart ==
    ASSUME Types, NEW n \in Nodes, NEW S \in SUBSET Ids, Apart(n, table[n], pool[n])
    PROVE  Apart(n, Forgotten(n, S), PoolWithout(n, S))
  <1> SUFFICES ASSUME NEW a \in Share[n], NEW i \in Ids, Names(Forgotten(n, S)[i], a)
               PROVE  /\ a \in PoolWithout(n, S)
                      /\ \A j \in Ids : Names(Forgotten(n, S)[j], a) => j = i
    BY DEF Apart
  <1>1. i \notin S /\ Names(table[n][i], a)
    BY DEF Forgotten, Names
  <1>2. \A j \in Ids : Names(Forgotten(n, S)[j], a) => Names(table[n][j], a)
    BY DEF Forgotten, Names
  <1>3. a \in pool[n] /\ \A j \in Ids : Names(table[n][j], a) => j = i
    BY <1>1 DEF Apart
  <1>4. \A j \in S : table[n][j] # None => table[n][j].ip # a
    BY <1>1, <1>3 DEF Names
  <1> QED
    BY <1>2, <1>3, <1>4 DEF PoolWithout

-----------------------------------------------------------------------------
(* The steps of AddressInv, one action at a time.                          *)
LEMMA PutWrote ==
    ASSUME Types, NEW n \in Nodes, NEW i \in Ids, NEW e, Put(n, i, e), ~behind'
    PROVE  Wrote(n, {i}, [j \in Ids |-> e])
  <1> DEFINE R == [j \in Ids |-> e]
  <1>1. R[i] = e
    OBVIOUS
  <1>2. Writes(n, {i}, R)
    BY DEF Put, PutAll, Types, Writes
  <1>3. UpToDate(n, {i}, R)
    BY <1>1 DEF Put, PutAll, UpToDate
  <1>4. {i} \in SUBSET Ids
    OBVIOUS
  <1> HIDE DEF R
  <1>5. Wrote(n, {i}, R)
    BY <1>2, <1>3, <1>4, WroteAll
  <1> QED
    BY <1>5 DEF R

(* An entry with a new reg_time, or as it was, is written.                 *)
LEMMA RewriteOK ==
    ASSUME Types, AddressOK, ~behind', NEW n \in Nodes, NEW i \in Ids, table[n][i] # None,
           NEW reg \in 0..MaxClock, table' = [table EXCEPT ![n] = [table[n] EXCEPT ![i].reg = reg]],
           pool' = pool, Put(n, i, [ip |-> table[n][i].ip, reg |-> reg])
    PROVE  AddressOK'
  <1> DEFINE T == [table[n] EXCEPT ![i].reg = reg]
             e == [ip |-> table[n][i].ip, reg |-> reg]
             R == [j \in Ids |-> e]
  <1>1. table[n][i] \in Entries
    BY DEF Types, Tables
  <1>2. T[i] \in Entries /\ T[i].ip = table[n][i].ip
    BY <1>1 DEF Types, Tables, Entries
  <1>3. \A j \in Ids : \A a : Names(T[j], a) <=> Names(table[n][j], a)
    <2>1. \A j \in Ids \ {i} : T[j] = table[n][j]
      BY DEF Types, Tables
    <2> HIDE DEF T
    <2> QED
      BY <1>2, <2>1, NoneAssumption DEF Names
  <1>4. \A a : Names(R[i], a) => Names(T[i], a)
    BY <1>2, NoneAssumption DEF Names
  <1>5. Wrote(n, {i}, R)
    BY PutWrote
  <1>6. Apart(n, T, pool[n])
    BY <1>3 DEF AddressOK, AllApart, Apart
  <1>7. pool' = [pool EXCEPT ![n] = pool[n]]
    BY DEF Types
  <1> HIDE DEF T, R
  <1>8. StoreOK'
    BY <1>5, WriteStore DEF AddressOK
  <1>9. AllGiven'
    <2>1. Keeps(n, {i}, R, T)
      BY <1>3, <1>4 DEF Keeps
    <2>2. {i} \in SUBSET Ids
      OBVIOUS
    <2> QED
      BY <1>5, <2>1, <2>2, WriteGiven DEF AddressOK, T
  <1>10. AllApart'
    BY <1>6, <1>7, ApartStep DEF AddressOK, T
  <1> QED
    BY <1>8, <1>9, <1>10 DEF AddressOK

LEMMA RegisterKnownOK ==
    ASSUME Types, AddressOK, ~behind', NEW n \in Nodes, NEW i \in Ids, RegisterKnown(n, i)
    PROVE  AddressOK'
  <1>1. PICK reg \in {table[n][i].reg, clock} :
           /\ table' = [table EXCEPT ![n][i].reg = reg]
           /\ Put(n, i, [ip |-> table[n][i].ip, reg |-> reg])
    BY DEF RegisterKnown
  <1>2. table[n][i] # None /\ pool' = pool
    BY DEF RegisterKnown, Own
  <1>3. reg \in 0..MaxClock
    BY <1>2 DEF Types, Tables, Entries
  <1>4. table' = [table EXCEPT ![n] = [table[n] EXCEPT ![i].reg = reg]]
    BY <1>1
  <1> QED
    BY <1>1, <1>2, <1>3, <1>4, RewriteOK

LEMMA PolicyFetchedOK ==
    ASSUME Types, AddressOK, ~behind', NEW n \in Nodes, NEW i \in Ids, PolicyFetched(n, i)
    PROVE  AddressOK'
  <1> DEFINE reg == table[n][i].reg
  <1>1. table[n][i] \in Entries /\ table[n][i] # None /\ pool' = pool
    BY DEF PolicyFetched, Types, Tables
  <1>2. reg \in 0..MaxClock /\ table[n][i] = [ip |-> table[n][i].ip, reg |-> reg]
    BY <1>1 DEF Entries
  <1>3. [table[n] EXCEPT ![i].reg = reg] = table[n]
    BY <1>1 DEF Types, Tables, Entries
  <1>4. table' = [table EXCEPT ![n] = [table[n] EXCEPT ![i].reg = reg]]
    BY <1>3 DEF PolicyFetched, Types
  <1>5. Put(n, i, [ip |-> table[n][i].ip, reg |-> reg])
    BY <1>2 DEF PolicyFetched
  <1> HIDE DEF reg
  <1> QED
    BY <1>1, <1>2, <1>4, <1>5, RewriteOK

LEMMA RegisterNewOK ==
    ASSUME Types, AddressOK, ~behind', NEW n \in Nodes, NEW i \in Ids, RegisterNew(n, i)
    PROVE  AddressOK'
  <1>1. PICK ip \in FreeIps(n) :
           /\ table' = [table EXCEPT ![n][i] = [ip |-> ip, reg |-> clock]]
           /\ pool' = [pool EXCEPT ![n] = PoolWithout(n, {i}) \cup {ip}]
           /\ Put(n, i, [ip |-> ip, reg |-> clock])
    BY DEF RegisterNew
  <1> DEFINE e == [ip |-> ip, reg |-> clock]
             T == [table[n] EXCEPT ![i] = e]
             R == [j \in Ids |-> e]
  <1>2. ip \in Share[n] /\ ip \notin pool[n]
    BY DEF FreeIps
  <1>3. e # None /\ e.ip = ip
    <2>1. e \in Entries
      BY <1>2 DEF Types, Entries, Ips
    <2> QED
      BY <2>1, NoneAssumption
  <1>4. T[i] = e /\ \A j \in Ids \ {i} : T[j] = table[n][j]
    BY DEF Types, Tables
  <1>5. R[i] = e
    OBVIOUS
  <1>6. Wrote(n, {i}, R)
    BY <1>1, PutWrote
  <1>7. table' = [table EXCEPT ![n] = T]
    BY <1>1
  <1>8. \A a \in Share[n] : ~Names(table[n][i], a)
    BY DEF RegisterNew, Own, Names
  <1> HIDE DEF e, T, R
  <1>9. Apart(n, T, PoolWithout(n, {i}) \cup {ip})
    <2> SUFFICES ASSUME NEW a \in Share[n], NEW j \in Ids, Names(T[j], a)
                 PROVE  /\ a \in PoolWithout(n, {i}) \cup {ip}
                        /\ \A k \in Ids : Names(T[k], a) => k = j
      BY DEF Apart
    <2>1. \A k \in Ids : Names(table[n][k], a)
             => a \in pool[n] /\ \A l \in Ids : Names(table[n][l], a) => l = k
      BY DEF AddressOK, AllApart, Apart
    <2>2. Names(T[i], a) <=> a = ip
      BY <1>3, <1>4 DEF Names
    <2>3. CASE a = ip
      <3>1. \A k \in Ids : ~Names(table[n][k], a)
        BY <1>2, <2>1, <2>3
      <3> QED
        BY <1>4, <2>3, <3>1
    <2>4. CASE a # ip
      <3>1. j # i /\ Names(table[n][j], a)
        BY <1>4, <2>2, <2>4
      <3>2. a \in PoolWithout(n, {i})
        BY <2>1, <3>1, <1>8 DEF PoolWithout, Names
      <3> QED
        BY <1>4, <2>1, <2>2, <2>4, <3>1, <3>2
    <2> QED
      BY <2>3, <2>4
  <1>10. StoreOK'
    BY <1>6, WriteStore DEF AddressOK
  <1>11. AllGiven'
    <2>1. Keeps(n, {i}, R, T)
      BY <1>4, <1>5 DEF Keeps
    <2>2. {i} \in SUBSET Ids
      OBVIOUS
    <2> QED
      BY <1>6, <1>7, <2>1, <2>2, WriteGiven DEF AddressOK
  <1>12. AllApart'
    BY <1>1, <1>7, <1>9, ApartStep DEF AddressOK
  <1> QED
    BY <1>10, <1>11, <1>12 DEF AddressOK

(* Instances are forgotten and their tombstones written.                   *)
LEMMA ForgetOK ==
    ASSUME Types, AddressOK, NEW n \in Nodes, NEW S \in SUBSET Ids, NEW R,
           Wrote(n, S, R), \A i \in S : R[i] = None,
           table' = [table EXCEPT ![n] = Forgotten(n, S)],
           pool' = [pool EXCEPT ![n] = PoolWithout(n, S)]
    PROVE  AddressOK'
  <1>1. StoreOK'
    BY WriteStore DEF AddressOK
  <1>2. \A i \in Ids \ S : Forgotten(n, S)[i] = table[n][i]
    BY DEF Forgotten
  <1>3. \A i \in S : \A a \in Share[n] : ~Names(R[i], a)
    BY DEF Names
  <1>4. AllGiven'
    <2>1. Keeps(n, S, R, Forgotten(n, S))
      BY <1>2, <1>3 DEF Keeps
    <2> QED
      BY <2>1, WriteGiven DEF AddressOK
  <1>5. Apart(n, Forgotten(n, S), PoolWithout(n, S))
    BY ForgottenApart DEF AddressOK, AllApart
  <1>6. AllApart'
    BY <1>5, ApartStep DEF AddressOK
  <1> QED
    BY <1>1, <1>4, <1>6 DEF AddressOK

LEMMA RemoveOK ==
    ASSUME Types, AddressOK, ~behind', NEW n \in Nodes, NEW i \in Ids, Remove(n, i)
    PROVE  AddressOK'
  <1> DEFINE R == [j \in Ids |-> None]
  <1>1. Wrote(n, {i}, R)
    BY PutWrote DEF Remove
  <1>2. \A j \in {i} : R[j] = None
    OBVIOUS
  <1> HIDE DEF R
  <1>3. {i} \in SUBSET Ids
    OBVIOUS
  <1> QED
    BY <1>1, <1>2, <1>3, ForgetOK DEF Remove

LEMMA RecycleRemoveOK ==
    ASSUME Types, AddressOK, ~behind', NEW n \in Nodes, RecycleRemove(n)
    PROVE  AddressOK'
  <1> DEFINE S == {i \in Ids : \E s \in stale[n] : s[1] = i /\ StillStale(n, i, s[2])}
             R == [j \in Ids |-> None]
  <1>1. /\ table' = [table EXCEPT ![n] = Forgotten(n, S)]
        /\ pool' = [pool EXCEPT ![n] = PoolWithout(n, S)]
        /\ PutAll(n, S, LAMBDA i : None)
    BY DEF RecycleRemove
  <1>2. S \in SUBSET Ids /\ \A j \in Ids : R[j] = None
    OBVIOUS
  <1> HIDE DEF S, R
  <1>3. Writes(n, S, R)
    BY <1>1, <1>2 DEF PutAll, Types, Writes
  <1>4. UpToDate(n, S, R)
    BY <1>1, <1>2 DEF PutAll, Revived, UpToDate
  <1>5. Wrote(n, S, R)
    BY <1>2, <1>3, <1>4, WroteAll
  <1> QED
    BY <1>1, <1>2, <1>5, ForgetOK

(* No address is left for an entry of another node's share.                *)
LEMMA RegisterRefusedOK ==
    ASSUME Types, AddressOK, NEW n \in Nodes, NEW i \in Ids, RegisterRefused(n, i)
    PROVE  AddressOK'
  <1>1. PICK reg \in {table[n][i].reg, clock} : table' = [table EXCEPT ![n][i].reg = reg]
    BY DEF RegisterRefused
  <1> DEFINE T == [table[n] EXCEPT ![i].reg = reg]
  <1>2. table[n][i] \in Entries /\ reg \in 0..MaxClock
    BY DEF RegisterRefused, Types, Tables, Entries
  <1>3. \A j \in Ids : \A a : Names(T[j], a) <=> Names(table[n][j], a)
    <2>1. T[i] \in Entries /\ T[i].ip = table[n][i].ip
      BY <1>2 DEF Types, Tables, Entries
    <2>2. \A j \in Ids \ {i} : T[j] = table[n][j]
      BY DEF Types, Tables
    <2> HIDE DEF T
    <2> QED
      BY <1>2, <2>1, <2>2, NoneAssumption DEF Names
  <1>4. \A a \in Share[n] : ~Names(table[n][i], a)
    BY DEF RegisterRefused, Own, Names
  <1>5. table' = [table EXCEPT ![n] = T]
    BY <1>1
  <1>6. db' = db /\ pool' = [pool EXCEPT ![n] = PoolWithout(n, {i})]
    BY DEF RegisterRefused
  <1> HIDE DEF T
  <1>7. Apart(n, T, PoolWithout(n, {i}))
    <2>1. \A a \in Share[n] : a \in pool[n] => a \in PoolWithout(n, {i})
      BY <1>4 DEF PoolWithout, Names
    <2> QED
      BY <1>3, <2>1 DEF AddressOK, AllApart, Apart
  <1>8. AllApart'
    BY <1>5, <1>6, <1>7, ApartStep DEF AddressOK
  <1>9. AllGiven'
    <2> SUFFICES ASSUME NEW m \in Nodes, NEW j \in Ids, NEW a, Names(table[m][j], a)
                 PROVE  Names(table'[m][j], a)
      BY <1>6 DEF AddressOK, AllGiven, Given, Newer
    <2>1. CASE m = n
      BY <1>3, <1>5, <2>1 DEF Types
    <2>2. CASE m # n
      BY <1>5, <2>2 DEF Types
    <2> QED
      BY <2>1, <2>2
  <1> QED
    BY <1>6, <1>8, <1>9 DEF AddressOK, StoreOK, Chained, LastGiver, Newer

(* A merge moves a node along the chain of a record.                       *)
LEMMA SyncOK ==
    ASSUME Types, AddressOK, NEW n \in Nodes, NEW m \in Nodes, Sync(n, m)
    PROVE  AddressOK'
  <1>1. \A k \in Nodes, i \in Ids :
           \E o \in Nodes : db'[k][i] = db[o][i] /\ Newer(o, k, i)
    <2> SUFFICES ASSUME NEW k \in Nodes, NEW i \in Ids
                 PROVE  \E o \in Nodes : db'[k][i] = db[o][i] /\ Newer(o, k, i)
      OBVIOUS
    <2>1. CASE k = n /\ Later(db[m][i], db[n][i])
      <3>1. db'[k][i] = db[m][i]
        BY <2>1 DEF Sync, Types, Newest
      <3>2. Newer(m, k, i)
        BY <2>1, Stamps DEF Newer, Later
      <3> QED
        BY <3>1, <3>2
    <2>2. CASE ~(k = n /\ Later(db[m][i], db[n][i]))
      <3>1. db'[k][i] = db[k][i]
        BY <2>2 DEF Sync, Types, Newest
      <3>2. Newer(k, k, i)
        BY Stamps DEF Newer
      <3> QED
        BY <3>1, <3>2
    <2> QED
      BY <2>1, <2>2
  <1>2. table' = table /\ pool' = pool
    BY DEF Sync
  <1>3. Chained'
    BY <1>1 DEF AddressOK, StoreOK, Chained
  <1>4. LastGiver'
    <2> SUFFICES ASSUME NEW h \in Nodes, NEW k \in Nodes, NEW l \in Nodes, NEW i \in Ids,
                        NEW a \in Share[h], Newer(k, l, i)', Newer(l, h, i)',
                        Names(db'[k][i].val, a)
                 PROVE  Names(db'[l][i].val, a)
      BY DEF LastGiver
    <2>1. PICK o \in Nodes : db'[k][i] = db[o][i]
      BY <1>1
    <2>2. PICK p \in Nodes : db'[l][i] = db[p][i]
      BY <1>1
    <2>3. PICK q \in Nodes : db'[h][i] = db[q][i] /\ Newer(q, h, i)
      BY <1>1
    <2>4. Newer(o, p, i) /\ Newer(p, h, i)
      BY <2>1, <2>2, <2>3, Stamps DEF Newer
    <2> QED
      BY <2>1, <2>2, <2>4 DEF AddressOK, StoreOK, LastGiver
  <1>5. AllGiven'
    <2> SUFFICES ASSUME NEW h \in Nodes, NEW k \in Nodes, NEW i \in Ids, NEW a \in Share[h],
                        Newer(k, h, i)', Names(db'[k][i].val, a)
                 PROVE  Names(table'[h][i], a)
      BY DEF AllGiven, Given
    <2>1. PICK o \in Nodes : db'[k][i] = db[o][i]
      BY <1>1
    <2>2. PICK q \in Nodes : db'[h][i] = db[q][i] /\ Newer(q, h, i)
      BY <1>1
    <2>3. Newer(o, h, i)
      BY <2>1, <2>2, Stamps DEF Newer
    <2> QED
      BY <1>2, <2>1, <2>3 DEF AddressOK, AllGiven, Given
  <1> QED
    BY <1>2, <1>3, <1>4, <1>5 DEF AddressOK, StoreOK, AllApart, Apart

(* The records a node accepts name its own addresses as its table does,    *)
(* and no record of an own address that may come back is refused.          *)
LEMMA AcceptedOwn ==
    ASSUME Types, AddressOK, NEW n \in Nodes
    PROVE  /\ \A i \in Ids : \A a \in Share[n] : Names(Accepted(n)[i], a) => Names(table[n][i], a)
           /\ Given(n, Accepted(n))
  <1>1. \A i \in Ids : Accepted(n)[i] # None => Accepted(n)[i] = db[n][i].val
    BY Zenon DEF Accepted
  <1>2. \A i \in Ids : Newer(n, n, i)
    BY Stamps DEF Newer
  <1>3. \A i \in Ids : \A a \in Share[n] : Names(db[n][i].val, a) => Names(table[n][i], a)
    BY <1>2 DEF AddressOK, AllGiven, Given
  <1>4. ASSUME NEW k \in Nodes, NEW i \in Ids, NEW a \in Share[n], Newer(k, n, i),
               Names(db[k][i].val, a)
        PROVE  Names(Accepted(n)[i], a)
    <2>1. Names(db[n][i].val, a)
      BY <1>2, <1>4 DEF AddressOK, StoreOK, LastGiver
    <2>2. \A j \in Ids \ {i} : ~Names(db[n][j].val, a)
      BY <1>3, <2>1 DEF AddressOK, AllApart, Apart
    <2>3. Accepted(n)[i] = db[n][i].val
      BY <2>1, <2>2 DEF Accepted, Names
    <2> QED
      BY <2>1, <2>3
  <1> QED
    BY <1>1, <1>3, <1>4 DEF Given, Names

(* Both ways to take over the store: entries with own addresses are only   *)
(* kept, and what the store may bring back is there.                       *)
LEMMA TakeOverOK ==
    ASSUME Types, AddressOK, NEW n \in Nodes, NEW T, NEW P, Given(n, T), Apart(n, T, P),
           table' = [table EXCEPT ![n] = T], pool' = [pool EXCEPT ![n] = P], db' = db
    PROVE  AddressOK'
  <1>1. AllApart'
    BY ApartStep DEF AddressOK
  <1>2. AllGiven'
    <2> SUFFICES ASSUME NEW m \in Nodes PROVE Given(m, table'[m])
      BY DEF AllGiven, Given, Newer
    <2>1. CASE m = n
      BY <2>1 DEF Types
    <2>2. CASE m # n
      BY <2>2 DEF Types, AddressOK, AllGiven
    <2> QED
      BY <2>1, <2>2
  <1> QED
    BY <1>1, <1>2 DEF AddressOK, StoreOK, Chained, LastGiver, Newer

LEMMA ReloadApplyOK ==
    ASSUME Types, AddressOK, ~behind', NEW n \in Nodes, ReloadApply(n)
    PROVE  AddressOK'
  <1> DEFINE T == [i \in Ids |-> IF reload[n][i] # None THEN reload[n][i]
                                 ELSE Forgotten(n, Dropped(n))[i]]
             Enters(a) == {i \in Ids : reload[n][i] # None /\ reload[n][i].ip = a}
             Leaves(a) == {i \in Ids : /\ reload[n][i] # None /\ table[n][i] # None
                                       /\ table[n][i].ip = a /\ reload[n][i].ip # a}
  <1>1. reload[n] = Accepted(n)
    BY DEF ReloadApply
  <1>2. /\ \A i \in Ids : \A a \in Share[n] : Names(reload[n][i], a) => Names(table[n][i], a)
        /\ Given(n, reload[n])
    BY <1>1, AcceptedOwn
  <1>3. Given(n, T)
    BY <1>2 DEF Given, Names
  <1>4. \A i \in Ids : \A a \in Share[n] : Names(T[i], a) => Names(table[n][i], a)
    BY <1>2 DEF Forgotten, Names
  <1>5. ASSUME NEW a \in Share[n], NEW i \in Ids, Names(T[i], a)
        PROVE  a \in PoolAfterReload(n)
    <2>1. Names(table[n][i], a)
      BY <1>4, <1>5
    <2>2. a \in pool[n] /\ \A j \in Ids : Names(table[n][j], a) => j = i
      BY <2>1 DEF AddressOK, AllApart, Apart
    <2>3. a \in Ips
      BY DEF Ips
    <2>4. Enters(a) \subseteq {i} /\ Leaves(a) \subseteq {i}
      BY <1>2, <2>2 DEF Names
    <2>5. CASE reload[n][i] # None
      <3>1. i \in Enters(a) /\ i \notin Leaves(a)
        BY <1>5, <2>5 DEF Names
      <3>2. Leaves(a) = {}
        BY <2>4, <3>1
      <3> QED
        BY <2>3, <3>1, <3>2 DEF PoolAfterReload
    <2>6. CASE reload[n][i] = None
      <3>1. Enters(a) = {} /\ Leaves(a) = {}
        BY <2>4, <2>6
      <3>2. i \notin Dropped(n)
        BY <1>5, <2>6 DEF Forgotten, Names
      <3>3. a \in PoolWithout(n, Dropped(n))
        BY <2>2, <3>2 DEF PoolWithout, Names, Dropped
      <3> QED
        BY <2>3, <3>1, <3>3 DEF PoolAfterReload
    <2> QED
      BY <2>5, <2>6
  <1>6. Apart(n, T, PoolAfterReload(n))
    BY <1>4, <1>5 DEF AddressOK, AllApart, Apart
  <1> QED
    BY <1>3, <1>6, TakeOverOK DEF ReloadApply

LEMMA RestartOK ==
    ASSUME Types, AddressOK, NEW n \in Nodes, Restart(n)
    PROVE  AddressOK'
  <1> DEFINE P == {Accepted(n)[i].ip : i \in {j \in Ids : Accepted(n)[j] # None}}
  <1>1. Apart(n, Accepted(n), P)
    BY AcceptedOwn DEF AddressOK, AllApart, Apart, Names
  <1>2. Given(n, Accepted(n))
    BY AcceptedOwn
  <1> QED
    BY <1>1, <1>2, TakeOverOK DEF Restart

LEMMA InitAddress == Init => AddressInv
  <1> SUFFICES ASSUME Init PROVE AddressOK
    BY InitTypes DEF AddressInv
  <1>1. \A k \in Nodes, i \in Ids : db[k][i] = Unwritten(None) /\ table[k][i] = None
    BY DEF Init
  <1> QED
    BY <1>1 DEF AddressOK, StoreOK, Chained, LastGiver, AllGiven, Given, AllApart, Apart, Names,
                Unwritten

LEMMA AddressStep == AddressInv /\ [Next]_vars => AddressInv'
  <1> SUFFICES ASSUME Types, ~behind => AddressOK, [Next]_vars, ~behind' PROVE AddressOK'
    BY TypesStep DEF AddressInv
  <1>1. ASSUME AddressOK, UNCHANGED <<table, pool, db>> PROVE AddressOK'
    BY <1>1 DEF AddressOK, StoreOK, Chained, LastGiver, AllGiven, Given, AllApart, Apart, Newer
  <1>2. AddressOK
    <2>1. CASE Tick \/ UNCHANGED vars
      BY <2>1 DEF Tick, vars
    <2>2. ASSUME NEW n \in Nodes, NEW m \in Nodes, Sync(n, m) PROVE ~behind
      BY <2>2 DEF Sync
    <2>3. ASSUME NEW n \in Nodes, NEW i \in Ids, NEW e, Put(n, i, e) PROVE ~behind
      BY <2>3 DEF Put, PutAll
    <2>4. ASSUME NEW n \in Nodes, NEW i \in Ids,
                 \/ RegisterKnown(n, i) \/ RegisterNew(n, i) \/ RegisterRefused(n, i)
                 \/ Remove(n, i) \/ PolicyFetched(n, i)
          PROVE  ~behind
      BY <2>3, <2>4 DEF RegisterKnown, RegisterNew, RegisterRefused, Remove, PolicyFetched
    <2>5. ASSUME NEW n \in Nodes, \/ RecycleScan(n) \/ RecycleRemove(n) \/ ReloadRead(n)
                                  \/ ReloadApply(n) \/ Restart(n)
          PROVE  ~behind
      BY <2>5 DEF RecycleScan, RecycleRemove, PutAll, ReloadRead, ReloadApply, Restart
    <2> QED
      BY <2>1, <2>2, <2>4, <2>5, Zenon DEF Next
  <1>3. CASE Tick \/ UNCHANGED vars
    BY <1>1, <1>2, <1>3 DEF Tick, vars
  <1>4. ASSUME NEW n \in Nodes, RecycleScan(n) \/ ReloadRead(n) PROVE AddressOK'
    BY <1>1, <1>2, <1>4 DEF RecycleScan, ReloadRead
  <1>5. ASSUME NEW n \in Nodes, NEW m \in Nodes, Sync(n, m) PROVE AddressOK'
    BY <1>2, <1>5, SyncOK
  <1>6. ASSUME NEW n \in Nodes, NEW i \in Ids,
               \/ RegisterKnown(n, i) \/ RegisterNew(n, i) \/ RegisterRefused(n, i)
               \/ Remove(n, i) \/ PolicyFetched(n, i)
        PROVE  AddressOK'
    BY <1>2, <1>6, RegisterKnownOK, RegisterNewOK, RegisterRefusedOK, RemoveOK, PolicyFetchedOK
  <1>7. ASSUME NEW n \in Nodes, RecycleRemove(n) \/ ReloadApply(n) \/ Restart(n) PROVE AddressOK'
    BY <1>2, <1>7, RecycleRemoveOK, ReloadApplyOK, RestartOK
  <1> QED
    BY <1>3, <1>4, <1>5, <1>6, <1>7, Zenon DEF Next

-----------------------------------------------------------------------------
(* The steps of HandledInv.                                                *)

(* The accepted records are a function of the node's own store.            *)
LEMMA AcceptedSame ==
    ASSUME NEW m \in Nodes, db'[m] = db[m] PROVE Accepted(m)' = Accepted(m)
  BY DEF Accepted

(* A node whose store, flag and reload are left alone, and whose entries   *)
(* keep their addresses.                                                   *)
LEMMA Untouched ==
    ASSUME NEW m \in Nodes, HandledAt(m), db'[m] = db[m], dirty'[m] = dirty[m],
           reload'[m] = reload[m],
           \A i \in Ids : \A a : Names(table[m][i], a) => Names(table'[m][i], a)
    PROVE  HandledAt(m)'
  <1>1. Accepted(m)' = Accepted(m)
    BY AcceptedSame
  <1>2. Matches(m) => Matches(m)'
    BY <1>1 DEF Matches
  <1> QED
    BY <1>1, <1>2 DEF HandledAt

(* A write leaves a change to handle, and the other nodes alone.           *)
LEMMA Others ==
    ASSUME HandledInv, NEW n \in Nodes, [Next]_vars, HandledAt(n)',
           \A m \in Nodes \ {n} : /\ db'[m] = db[m] /\ dirty'[m] = dirty[m]
                                   /\ reload'[m] = reload[m] /\ table'[m] = table[m],
           dirty' \in [Nodes -> BOOLEAN]
    PROVE  HandledInv'
  <1>1. ASSUME NEW m \in Nodes \ {n} PROVE HandledAt(m)'
    BY <1>1, Untouched DEF HandledInv, Handled
  <1>2. Types'
    BY TypesStep DEF HandledInv
  <1> QED
    BY <1>1, <1>2 DEF HandledInv, Handled

LEMMA PutHandled ==
    ASSUME HandledInv, [Next]_vars, NEW n \in Nodes, NEW i \in Ids,
           \/ RegisterKnown(n, i) \/ RegisterNew(n, i) \/ Remove(n, i) \/ PolicyFetched(n, i)
    PROVE  HandledInv'
  <1>1. dirty' = [dirty EXCEPT ![n] = TRUE]
    BY DEF RegisterKnown, RegisterNew, Remove, PolicyFetched, Put, PutAll, HandledInv
  <1>2. \A m \in Nodes \ {n} : /\ db'[m] = db[m] /\ dirty'[m] = dirty[m]
                                /\ reload'[m] = reload[m] /\ table'[m] = table[m]
    BY <1>1 DEF RegisterKnown, RegisterNew, Remove, PolicyFetched, Put, PutAll, HandledInv, Types
  <1>3. HandledAt(n)'
    BY <1>1 DEF HandledAt, HandledInv
  <1>4. dirty' \in [Nodes -> BOOLEAN]
    BY <1>1 DEF HandledInv
  <1> QED
    BY <1>2, <1>3, <1>4, Others

LEMMA SyncHandled ==
    ASSUME HandledInv, [Next]_vars, NEW n \in Nodes, NEW k \in Nodes, Sync(n, k)
    PROVE  HandledInv'
  <1>1. dirty' = [dirty EXCEPT ![n] = TRUE]
    BY DEF Sync
  <1>2. \A m \in Nodes \ {n} : /\ db'[m] = db[m] /\ dirty'[m] = dirty[m]
                                /\ reload'[m] = reload[m] /\ table'[m] = table[m]
    BY <1>1 DEF Sync, HandledInv, Types
  <1>3. HandledAt(n)'
    BY <1>1 DEF HandledAt, HandledInv
  <1>4. dirty' \in [Nodes -> BOOLEAN]
    BY <1>1 DEF HandledInv
  <1> QED
    BY <1>2, <1>3, <1>4, Others

LEMMA RefusedHandled ==
    ASSUME HandledInv, [Next]_vars, NEW n \in Nodes, NEW i \in Ids, RegisterRefused(n, i)
    PROVE  HandledInv'
  <1>1. PICK reg \in {table[n][i].reg, clock} : table' = [table EXCEPT ![n][i].reg = reg]
    BY DEF RegisterRefused
  <1>2. UNCHANGED <<db, dirty, reload>> /\ table[n][i] # None
    BY DEF RegisterRefused
  <1>3. table[n][i] \in Entries /\ reg \in 0..MaxClock
    BY <1>2 DEF HandledInv, Types, Tables, Entries
  <1>4. table'[n][i] \in Entries /\ table'[n][i].ip = table[n][i].ip
    BY <1>1, <1>3 DEF HandledInv, Types, Tables, Entries
  <1>5. \A j \in Ids \ {i} : table'[n][j] = table[n][j]
    BY <1>1 DEF HandledInv, Types, Tables
  <1>6. \A j \in Ids : \A a : Names(table[n][j], a) => Names(table'[n][j], a)
    BY <1>4, <1>5, NoneAssumption DEF Names
  <1>7. HandledAt(n)'
    BY <1>2, <1>6, Untouched DEF HandledInv, Handled
  <1>8. \A m \in Nodes \ {n} : /\ db'[m] = db[m] /\ dirty'[m] = dirty[m]
                                /\ reload'[m] = reload[m] /\ table'[m] = table[m]
    BY <1>1, <1>2 DEF HandledInv, Types
  <1> QED
    BY <1>2, <1>7, <1>8, Others DEF HandledInv

LEMMA RecycleHandled ==
    ASSUME HandledInv, [Next]_vars, NEW n \in Nodes, RecycleRemove(n)
    PROVE  HandledInv'
  <1> DEFINE S == {i \in Ids : \E s \in stale[n] : s[1] = i /\ StillStale(n, i, s[2])}
  <1>1. /\ table' = [table EXCEPT ![n] = Forgotten(n, S)]
        /\ PutAll(n, S, LAMBDA i : None) /\ reload' = reload
    BY DEF RecycleRemove
  <1>2. S \subseteq Ids
    OBVIOUS
  <1> HIDE DEF S
  <1>3. dirty' = [dirty EXCEPT ![n] = dirty[n] \/ S # {}]
    BY <1>1 DEF PutAll
  <1>4. dirty' \in [Nodes -> BOOLEAN]
    BY <1>3 DEF HandledInv
  <1>5. \A m \in Nodes \ {n} : /\ db'[m] = db[m] /\ dirty'[m] = dirty[m]
                                /\ reload'[m] = reload[m] /\ table'[m] = table[m]
    BY <1>1, <1>3 DEF PutAll, HandledInv, Types
  <1>6. HandledAt(n)'
    <2>1. CASE S # {}
      BY <1>3, <2>1 DEF HandledAt, HandledInv
    <2>2. CASE S = {}
      <3>1. db'[n] = db[n]
        <4>1. db'[n] = [i \in Ids |-> IF i \notin S THEN db[n][i] ELSE Written(db[n][i], n, None)]
          BY <1>1 DEF PutAll, HandledInv, Types
        <4>2. db[n] \in [Ids -> Versions]
          BY DEF HandledInv, Types
        <4> QED
          BY <2>2, <4>1, <4>2
      <3>2. dirty'[n] = dirty[n]
        BY <1>3, <2>2 DEF HandledInv
      <3>3. \A i \in Ids : table'[n][i] = table[n][i]
        BY <1>1, <2>2 DEF Forgotten, HandledInv, Types
      <3> QED
        BY <1>1, <3>1, <3>2, <3>3, Untouched DEF HandledInv, Handled
    <2> QED
      BY <2>1, <2>2
  <1> QED
    BY <1>4, <1>5, <1>6, Others

LEMMA ReloadHandled ==
    ASSUME HandledInv, [Next]_vars, NEW n \in Nodes, ReloadRead(n) \/ ReloadApply(n) \/ Restart(n)
    PROVE  HandledInv'
  <1>1. Accepted(n)' = Accepted(n)
    BY AcceptedSame DEF ReloadRead, ReloadApply, Restart
  <1>2. dirty' \in [Nodes -> BOOLEAN]
    BY DEF HandledInv, ReloadRead, ReloadApply, Restart
  <1>3. \A m \in Nodes \ {n} : /\ db'[m] = db[m] /\ dirty'[m] = dirty[m]
                                /\ reload'[m] = reload[m] /\ table'[m] = table[m]
    BY DEF HandledInv, Types, ReloadRead, ReloadApply, Restart
  <1>4. CASE ReloadRead(n)
    <2>1. reload'[n] = Accepted(n)'
      BY <1>1, <1>4 DEF ReloadRead, HandledInv, Types
    <2> QED
      BY <1>2, <1>3, <2>1, Others DEF HandledAt
  <1>5. CASE ReloadApply(n)
    <2>1. reload'[n] = None /\ dirty'[n] = dirty[n]
      BY <1>5 DEF ReloadApply, HandledInv, Types
    <2>2. \A i \in Ids : reload[n][i] # None => table'[n][i] = reload[n][i]
      BY <1>5 DEF ReloadApply, HandledInv, Types
    <2>3. ~dirty[n] => reload[n] = Accepted(n)
      BY <1>5 DEF ReloadApply, HandledInv, Handled, HandledAt
    <2>4. ~dirty[n] => Matches(n)'
      BY <1>1, <2>2, <2>3 DEF Matches, Names
    <2> QED
      BY <1>2, <1>3, <2>1, <2>4, Others DEF HandledAt
  <1>6. CASE Restart(n)
    <2>1. reload'[n] = None /\ table'[n] = Accepted(n)
      BY <1>6 DEF Restart, HandledInv, Types
    <2>2. Matches(n)'
      BY <1>1, <2>1 DEF Matches, Names
    <2> QED
      BY <1>2, <1>3, <2>1, <2>2, Others DEF HandledAt
  <1> QED
    BY <1>4, <1>5, <1>6

LEMMA HandledStep == HandledInv /\ [Next]_vars => HandledInv'
  <1> SUFFICES ASSUME HandledInv, [Next]_vars PROVE HandledInv'
    OBVIOUS
  <1>1. ASSUME UNCHANGED <<table, db, dirty, reload>> PROVE HandledInv'
    <2>1. Types'
      BY TypesStep DEF HandledInv
    <2>2. \A m \in Nodes : HandledAt(m)'
      BY <1>1, Untouched DEF HandledInv, Handled
    <2> QED
      BY <1>1, <2>1, <2>2 DEF HandledInv, Handled
  <1>2. CASE Tick \/ UNCHANGED vars
    BY <1>1, <1>2 DEF Tick, vars
  <1>3. ASSUME NEW n \in Nodes, RecycleScan(n) PROVE HandledInv'
    BY <1>1, <1>3 DEF RecycleScan
  <1> QED
    BY <1>2, <1>3, SyncHandled, PutHandled, RefusedHandled, RecycleHandled, ReloadHandled, Zenon
       DEF Next

-----------------------------------------------------------------------------
(* As long as no node acts on records that were overtaken, the address of  *)
(* every entry of a node's own share is allocated, whatever registrations, *)
(* moves between nodes, refusals, removals, recycling, reloads, merges and *)
(* restarts interleave (alloc_ip, valid_ip, reload_instances_from_kv_store).*)
THEOREM PoolCoversHolds == Spec => []PoolCovers
  <1>1. AddressInv => PoolCovers
    BY DEF AddressInv, AddressOK, AllApart, Apart, Names, PoolCovers, Own
  <1> QED
    BY <1>1, InitAddress, AddressStep, PTL DEF Spec

(* A node that has handled every change has the records that its store     *)
(* accepts, although a reload reads them before it takes the lock and      *)
(* registrations, removals and merges come between.                        *)
THEOREM QuietMatchesStoreHolds == Spec => []QuietMatchesStore
  <1>1. Init => HandledInv
    <2> SUFFICES ASSUME Init PROVE HandledInv
      OBVIOUS
    <2>1. \A n \in Nodes : \A i \in Ids : Accepted(n)[i] = None
      BY DEF Init, Accepted, Unwritten
    <2> QED
      BY <2>1, InitTypes DEF Init, HandledInv, Handled, HandledAt, Matches
  <1>2. HandledInv => QuietMatchesStore
    <2> SUFFICES ASSUME HandledInv, NEW n \in Nodes, Quiet(n) PROVE Matches(n)
      BY DEF QuietMatchesStore, Matches, Names
    <2>1. Accepted(n) \in Tables
      BY AcceptedType DEF HandledInv
    <2> QED
      BY <2>1, NoneAssumption DEF HandledInv, Handled, HandledAt, Quiet
  <1> QED
    BY <1>1, <1>2, HandledStep, PTL DEF Spec
=============================================================================
