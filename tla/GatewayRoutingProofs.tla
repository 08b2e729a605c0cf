------------------------- MODULE GatewayRoutingProofs -------------------------
(***************************************************************************)
(* Proofs about GatewayRouting, for any instances, boots, thresholds and   *)
(* numbers of changes.                                                     *)
(***************************************************************************)
EXTENDS GatewayRouting, TLAPS

(* What an entry declares is what its boot asked for, and only boots that  *)
(* asked for it are polled.                                                *)
DeclaredByBoot ==
    \A i \in Ids : /\ inst[i] # None => inst[i].gated = Gated(i, inst[i].boot)
                   /\ flight[i] # None => Gated(i, flight[i].boot)

(* A reload with nothing new to handle has read what the store holds.      *)
ReadIsCurrent == reload # None /\ ~dirty => reload.recs = store /\ reload.gates = gate

Inv == /\ TypeOK /\ DeclaredByBoot /\ ReadIsCurrent
       /\ CacheFollowsTable /\ VerdictOfThisBoot /\ DeclarationAgrees /\ QuietMatchesStore

-----------------------------------------------------------------------------
(* The operators of the table.                                             *)

(* Equal inputs of the selection are inputs of equal entries, as far as    *)
(* the selection can tell.                                                 *)
LEMMA InputsTell ==
    ASSUME NEW e \in Entries, NEW f \in Entries \cup {None}, RoutingInputs(f) = RoutingInputs(e)
    PROVE  f \in Entries /\ f.boot = e.boot /\ f.at = e.at /\ f.ready = e.ready /\ f.state = e.state
BY NoneAssumption DEF RoutingInputs

(* Whatever is written to the table through Edit, the cached selection     *)
(* follows it.                                                             *)
LEMMA EditCache ==
    ASSUME TypeOK, CacheFollowsTable, NEW new \in [Ids -> Entries \cup {None}], Edit(new)
    PROVE  CacheFollowsTable'
<1>1. CASE \E i \in Ids : RoutingInputs(new[i]) # RoutingInputs(inst[i])
  BY <1>1 DEF Edit, CacheFollowsTable
<1>2. CASE \A i \in Ids : RoutingInputs(new[i]) = RoutingInputs(inst[i])
  <2>1. inst' = new /\ topn' = topn /\ topn \subseteq Peers
    BY <1>2 DEF Edit, TypeOK
  <2>2. ASSUME NEW p \in topn
        PROVE  /\ new[p.id] # None
               /\ new[p.id].boot = inst[p.id].boot /\ new[p.id].at = inst[p.id].at
               /\ new[p.id].ready = inst[p.id].ready /\ new[p.id].state = inst[p.id].state
    <3>1. p.id \in Ids
      BY <2>1 DEF Peers
    <3>2. inst[p.id] \in Entries
      BY <3>1 DEF CacheFollowsTable, TypeOK
    <3>3. new[p.id] \in Entries \cup {None} /\ RoutingInputs(new[p.id]) = RoutingInputs(inst[p.id])
      BY <3>1, <1>2
    <3> QED
      BY <3>2, <3>3, InputsTell, NoneAssumption
  <2>3. \A p \in topn : /\ new[p.id] # None /\ new[p.id].ready
                        /\ new[p.id].boot = p.boot /\ new[p.id].at = p.at
    BY <2>2 DEF CacheFollowsTable
  <2>4. \A p, q \in topn : IsHealthy(new[p.id]) = IsHealthy(new[q.id])
    BY <2>2 DEF CacheFollowsTable, IsHealthy
  <2> QED
    BY <2>1, <2>3, <2>4 DEF CacheFollowsTable
<1> QED
  BY <1>1, <1>2

(* The entries that the registrations and the reload write.                *)
LEMMA InitialState ==
    ASSUME NEW g \in BOOLEAN
    PROVE  Initial(g) \in States /\ Initial(g) \notin {"healthy", "unhealthy"}
           /\ g = (Initial(g) # "ungated")
BY DEF Initial, States

LEMMA ReRegisteredEntry ==
    ASSUME TypeOK, NEW i \in Ids, NEW e \in Entries,
           e.gated = (e.state # "ungated")
    PROVE  LET n == ReRegistered(i, e) IN
           /\ n \in Entries /\ n.boot = boot[i] /\ n.gated = Gated(i, boot[i])
           /\ n.gated = (n.state # "ungated")
           /\ n.at = e.at /\ n.ready = e.ready
           /\ n.state \in {"healthy", "unhealthy"} => n.state = e.state /\ e.boot = boot[i]
<1>1. Gated(i, boot[i]) \in BOOLEAN /\ boot[i] \in Boots
  BY DEF Gated, TypeOK
<1> QED
  BY <1>1, InitialState DEF ReRegistered, Entries

LEMMA FirstRegisteredEntry ==
    ASSUME TypeOK, NEW i \in Ids
    PROVE  LET n == FirstRegistered(i) IN
           /\ n \in Entries /\ n.boot = boot[i] /\ n.gated = Gated(i, boot[i])
           /\ n.gated = (n.state # "ungated")
           /\ n.at = "here" /\ n.ready = TRUE
           /\ n.state \notin {"healthy", "unhealthy"}
<1>1. Gated(i, boot[i]) \in BOOLEAN /\ boot[i] \in Boots
  BY DEF Gated, TypeOK
<1> QED
  BY <1>1, InitialState DEF FirstRegistered, Entries, Places

LEMMA MaterialisedEntry ==
    ASSUME TypeOK, DeclarationAgrees, reload # None, NEW i \in Ids, reload.recs[i] # None
    PROVE  LET n == Materialised(i) IN
           /\ n \in Entries /\ n.boot = reload.recs[i].boot /\ n.at = reload.recs[i].at
           /\ n.gated = Gated(i, n.boot) /\ n.ready = reload.gates[i]
           /\ n.gated = (n.state # "ungated")
           /\ n.state \in {"healthy", "unhealthy"} =>
                inst[i] # None /\ inst[i].boot = n.boot
<1> DEFINE r == reload.recs[i]
           fresh == [boot |-> r.boot, at |-> r.at, gated |-> Gated(i, r.boot),
                     state |-> Initial(Gated(i, r.boot)), ready |-> reload.gates[i]]
<1>1. r \in Records /\ reload.gates[i] \in BOOLEAN
  BY DEF TypeOK, Reads
<1>2. Gated(i, r.boot) \in BOOLEAN
  BY DEF Gated
<1>3. fresh \in Entries /\ fresh.gated = (fresh.state # "ungated")
      /\ fresh.state \notin {"healthy", "unhealthy"}
  BY <1>1, <1>2, InitialState DEF Entries, Records
<1>4. Materialised(i) = Inherit(fresh, inst[i])
  BY DEF Materialised
<1>5. CASE inst[i] # None /\ fresh.gated = inst[i].gated /\ fresh.boot = inst[i].boot
  <2>1. inst[i] \in Entries /\ inst[i].gated = (inst[i].state # "ungated")
    BY <1>5 DEF TypeOK, DeclarationAgrees, Here
  <2>2. Materialised(i) = [fresh EXCEPT !.state = inst[i].state]
    BY <1>4, <1>5 DEF Inherit
  <2> QED
    BY <1>3, <1>5, <2>1, <2>2 DEF Entries
<1>6. CASE ~(inst[i] # None /\ fresh.gated = inst[i].gated /\ fresh.boot = inst[i].boot)
  <2>1. Materialised(i) = fresh
    BY <1>4, <1>6 DEF Inherit
  <2> QED
    BY <1>3, <2>1
<1> QED
  BY <1>5, <1>6

-----------------------------------------------------------------------------
(* The entries after a step: typed, declared as their boot asked, and with *)
(* no verdict of another boot.                                             *)
EntryOK(i) ==
    inst[i] # None => /\ inst[i].gated = Gated(i, inst[i].boot)
                      /\ inst[i].gated = (inst[i].state # "ungated")
                      /\ seen[i] \in {None, inst[i].boot}

TableOK == /\ inst \in [Ids -> Entries \cup {None}]
           /\ seen \in [Ids -> Boots \cup {None}]
           /\ \A i \in Ids : EntryOK(i)
           /\ CacheFollowsTable

LEMMA InvTable ==
    ASSUME Inv
    PROVE  TableOK
BY DEF Inv, TableOK, EntryOK, TypeOK, DeclaredByBoot, VerdictOfThisBoot, DeclarationAgrees, Here

(* A step that leaves the table alone.                                     *)
LEMMA TableKept ==
    ASSUME TableOK, UNCHANGED <<inst, topn, seen>>
    PROVE  TableOK'
BY DEF TableOK, EntryOK, CacheFollowsTable, IsHealthy

LEMMA SeenAfterType ==
    ASSUME TypeOK, NEW new, seen' = SeenAfter(new)
    PROVE  seen' \in [Ids -> Boots \cup {None}]
BY DEF TypeOK, SeenAfter

LEMMA RegisterTable ==
    ASSUME Inv, NEW i \in Ids, Register(i)
    PROVE  /\ TableOK'
           /\ inst'[i] # None /\ inst'[i].boot = store'[i].boot /\ inst'[i].at = store'[i].at
           /\ store' \in [Ids -> Records \cup {None}]
<1> DEFINE new == IF inst[i] = None THEN FirstRegistered(i)
                  ELSE [ReRegistered(i, inst[i]) EXCEPT !.at = "here"]
<1>1. Edit([inst EXCEPT ![i] = new]) /\ seen' = SeenAfter(inst')
      /\ store' = [store EXCEPT ![i] = [boot |-> new.boot, at |-> new.at]]
  BY DEF Register
<1>2. TypeOK /\ CacheFollowsTable /\ TableOK
  BY InvTable DEF Inv
<1>3. /\ new \in Entries /\ new.gated = Gated(i, new.boot)
      /\ new.gated = (new.state # "ungated")
      /\ new.state \in {"healthy", "unhealthy"} => inst[i] # None /\ inst[i].boot = new.boot
  <2>1. CASE inst[i] = None
    BY <1>2, <2>1, FirstRegisteredEntry
  <2>2. CASE inst[i] # None
    <3>1. inst[i] \in Entries /\ inst[i].gated = (inst[i].state # "ungated")
      BY <1>2, <2>2 DEF TableOK, EntryOK
    <3> HIDE DEF new
    <3>2. new = [ReRegistered(i, inst[i]) EXCEPT !.at = "here"]
      BY <2>2 DEF new
    <3>3. ReRegistered(i, inst[i]) \in Entries
      BY <1>2, <3>1, ReRegisteredEntry
    <3>4. new \in Entries /\ new.boot = ReRegistered(i, inst[i]).boot
          /\ new.gated = ReRegistered(i, inst[i]).gated
          /\ new.state = ReRegistered(i, inst[i]).state
      BY <3>2, <3>3 DEF Entries, Places
    <3> QED
      BY <1>2, <2>2, <3>1, <3>4, ReRegisteredEntry
  <2> QED
    BY <2>1, <2>2
<1> HIDE DEF new
<1>4. inst' = [inst EXCEPT ![i] = new] /\ inst' \in [Ids -> Entries \cup {None}]
  BY <1>1, <1>2, <1>3 DEF Edit, TypeOK
<1>5. CacheFollowsTable'
  BY <1>1, <1>2, <1>4, EditCache
<1>6. ASSUME NEW j \in Ids
      PROVE  EntryOK(j)'
  <2>1. seen'[j] \in {None, seen[j]}
        /\ (seen'[j] # None => inst'[j].state \in {"healthy", "unhealthy"})
    BY <1>1 DEF SeenAfter
  <2> QED
    BY <1>2, <1>3, <1>4, <2>1 DEF TableOK, EntryOK, TypeOK
<1>7. seen' \in [Ids -> Boots \cup {None}]
  BY <1>1, <1>2, SeenAfterType
<1>8. inst'[i] = new /\ store'[i] = [boot |-> new.boot, at |-> new.at]
  BY <1>1, <1>2, <1>4 DEF TypeOK
<1>9. store' \in [Ids -> Records \cup {None}]
  BY <1>1, <1>2, <1>3 DEF TypeOK, Records, Entries
<1>10. TableOK'
  BY <1>4, <1>5, <1>6, <1>7 DEF TableOK
<1>11. inst'[i] # None /\ inst'[i].boot = store'[i].boot /\ inst'[i].at = store'[i].at
  BY <1>3, <1>8, NoneAssumption
<1> QED
  BY <1>9, <1>10, <1>11

LEMMA RegisterFailsTable ==
    ASSUME Inv, NEW i \in Ids, RegisterFails(i)
    PROVE  /\ TableOK'
           /\ \A j \in Ids \ {i} : inst'[j] = inst[j]
<1> DEFINE new == ReRegistered(i, inst[i])
<1>1. TypeOK /\ CacheFollowsTable /\ TableOK
  BY InvTable DEF Inv
<1>2. Edit([inst EXCEPT ![i] = new]) /\ seen' = SeenAfter(inst') /\ inst[i] # None
  BY DEF RegisterFails
<1>3. inst[i] \in Entries /\ inst[i].gated = (inst[i].state # "ungated")
  BY <1>1, <1>2 DEF TableOK, EntryOK
<1>4. /\ new \in Entries /\ new.gated = Gated(i, new.boot)
      /\ new.gated = (new.state # "ungated")
      /\ new.state \in {"healthy", "unhealthy"} => inst[i].boot = new.boot
  BY <1>1, <1>3, ReRegisteredEntry
<1> HIDE DEF new
<1>5. inst' = [inst EXCEPT ![i] = new] /\ inst' \in [Ids -> Entries \cup {None}]
  BY <1>1, <1>2, <1>4 DEF Edit, TypeOK
<1>6. CacheFollowsTable'
  BY <1>1, <1>2, <1>5, EditCache
<1>7. ASSUME NEW j \in Ids
      PROVE  EntryOK(j)'
  <2>1. seen'[j] \in {None, seen[j]}
        /\ (seen'[j] # None => inst'[j].state \in {"healthy", "unhealthy"})
    BY <1>2 DEF SeenAfter
  <2> QED
    BY <1>1, <1>2, <1>4, <1>5, <2>1 DEF TableOK, EntryOK, TypeOK
<1>8. seen' \in [Ids -> Boots \cup {None}]
  BY <1>1, <1>2, SeenAfterType
<1> QED
  BY <1>1, <1>5, <1>6, <1>7, <1>8 DEF TableOK, TypeOK

LEMMA RemoveTable ==
    ASSUME Inv, NEW i \in Ids, Remove(i)
    PROVE  TableOK'
<1>1. TypeOK /\ CacheFollowsTable /\ TableOK
  BY InvTable DEF Inv
<1>2. Edit([inst EXCEPT ![i] = None]) /\ seen' = [seen EXCEPT ![i] = None]
  BY DEF Remove
<1>3. inst' = [inst EXCEPT ![i] = None] /\ inst' \in [Ids -> Entries \cup {None}]
      /\ seen' \in [Ids -> Boots \cup {None}]
  BY <1>1, <1>2 DEF Edit, TypeOK
<1>4. CacheFollowsTable'
  BY <1>1, <1>2, <1>3, EditCache
<1>5. \A j \in Ids : EntryOK(j)'
  BY <1>1, <1>2, <1>3 DEF TableOK, EntryOK, TypeOK
<1> QED
  BY <1>3, <1>4, <1>5 DEF TableOK

LEMMA SetReadyTable ==
    ASSUME Inv, NEW i \in Ids, SetReady(i)
    PROVE  TableOK'
<1>1. TypeOK /\ CacheFollowsTable /\ TableOK
  BY InvTable DEF Inv
<1>2. Edit([inst EXCEPT ![i].ready = ~@]) /\ seen' = seen /\ inst[i] # None
  BY DEF SetReady
<1>3. inst[i] \in Entries /\ inst' = [inst EXCEPT ![i].ready = ~@]
  BY <1>1, <1>2 DEF Edit, TypeOK
<1>4. inst' = [inst EXCEPT ![i] = [inst[i] EXCEPT !.ready = ~inst[i].ready]]
      /\ [inst[i] EXCEPT !.ready = ~inst[i].ready] \in Entries
  BY <1>1, <1>3 DEF TypeOK, Entries
<1>5. inst' \in [Ids -> Entries \cup {None}]
  BY <1>1, <1>4 DEF TypeOK
<1>6. CacheFollowsTable'
  BY <1>1, <1>2, <1>3, <1>5, EditCache
<1>7. \A j \in Ids : EntryOK(j)'
  BY <1>1, <1>2, <1>3, <1>4 DEF TableOK, EntryOK, TypeOK, Entries
<1> QED
  BY <1>1, <1>2, <1>5, <1>6, <1>7 DEF TableOK

LEMMA ReloadApplyTable ==
    ASSUME Inv, ReloadApply
    PROVE  /\ TableOK' /\ half' \subseteq Ids
           /\ \A i \in Ids : reload.recs[i] # None =>
                /\ inst'[i] # None /\ inst'[i].boot = reload.recs[i].boot
                /\ inst'[i].at = reload.recs[i].at /\ inst'[i].ready = reload.gates[i]
<1>1. TypeOK /\ CacheFollowsTable /\ TableOK /\ DeclarationAgrees /\ reload # None
  BY InvTable DEF Inv, ReloadApply
<1>2. PICK grace \in SUBSET {i \in Here : reload.recs[i] = None} :
        LET new == [i \in Ids |-> IF reload.recs[i] # None THEN Materialised(i)
                                  ELSE IF i \in grace THEN inst[i] ELSE None]
        IN  Edit(new) /\ seen' = SeenAfter(new) /\ half' = half \cap grace
  BY Zenon DEF ReloadApply
<1> DEFINE new == [i \in Ids |-> IF reload.recs[i] # None THEN Materialised(i)
                                 ELSE IF i \in grace THEN inst[i] ELSE None]
<1>3. Edit(new) /\ seen' = SeenAfter(new) /\ half' = half \cap grace
  BY <1>2
<1>4. \A i \in Ids : /\ reload.recs[i] # None => new[i] = Materialised(i)
                     /\ reload.recs[i] = None => new[i] \in {inst[i], None}
  OBVIOUS
<1>5. new \in [Ids -> Entries \cup {None}]
  BY <1>1, MaterialisedEntry DEF TypeOK
<1> HIDE DEF new
<1>6. inst' = new
  BY <1>3 DEF Edit
<1>7. CacheFollowsTable'
  BY <1>1, <1>3, <1>5, EditCache
<1>8. ASSUME NEW i \in Ids
      PROVE  EntryOK(i)'
  <2>1. seen'[i] \in {None, seen[i]}
        /\ (seen'[i] # None => inst'[i].state \in {"healthy", "unhealthy"})
    BY <1>3, <1>6 DEF SeenAfter
  <2>2. CASE reload.recs[i] # None
    <3>1. inst'[i] = Materialised(i)
      BY <1>4, <1>6, <2>2
    <3>2. inst'[i].gated = Gated(i, inst'[i].boot) /\ inst'[i].gated = (inst'[i].state # "ungated")
      BY <1>1, <2>2, <3>1, MaterialisedEntry
    <3>3. seen'[i] # None => inst[i] # None /\ inst[i].boot = inst'[i].boot
      BY <1>1, <2>1, <2>2, <3>1, MaterialisedEntry
    <3>4. seen'[i] \in {None, inst'[i].boot}
      BY <1>1, <2>1, <3>3 DEF TableOK, EntryOK
    <3> QED
      BY <3>2, <3>4 DEF EntryOK
  <2>3. CASE reload.recs[i] = None
    <3>1. inst'[i] = inst[i] \/ inst'[i] = None
      BY <1>4, <1>6, <2>3
    <3> QED
      BY <1>1, <2>1, <3>1 DEF TableOK, EntryOK
  <2> QED
    BY <2>2, <2>3
<1>9. seen' \in [Ids -> Boots \cup {None}]
  BY <1>1, <1>3, SeenAfterType
<1>10. TableOK'
  BY <1>5, <1>6, <1>7, <1>8, <1>9 DEF TableOK
<1>11. ASSUME NEW i \in Ids, reload.recs[i] # None
       PROVE  /\ inst'[i] # None /\ inst'[i].boot = reload.recs[i].boot
              /\ inst'[i].at = reload.recs[i].at /\ inst'[i].ready = reload.gates[i]
  <2>1. inst'[i] = Materialised(i)
    BY <1>4, <1>6, <1>11
  <2> QED
    BY <1>1, <1>11, <2>1, MaterialisedEntry, NoneAssumption
<1>12. half' \subseteq Ids
  BY <1>1, <1>3 DEF TypeOK
<1> QED
  BY <1>10, <1>11, <1>12

LEMMA LandTable ==
    ASSUME Inv, NEW i \in Ids, Land(i)
    PROVE  /\ TableOK'
           /\ \A j \in Ids : /\ inst'[j] = None <=> inst[j] = None
                             /\ inst[j] # None => /\ inst'[j].boot = inst[j].boot
                                                  /\ inst'[j].at = inst[j].at
                                                  /\ inst'[j].ready = inst[j].ready
<1>1. TypeOK /\ CacheFollowsTable /\ TableOK /\ DeclaredByBoot
  BY InvTable DEF Inv
<1>2. CASE UNCHANGED <<inst, topn, seen>>
  BY <1>1, <1>2, TableKept
<1>3. ASSUME NEW verdict \in {"healthy", "unhealthy"},
             SameTarget(i), Edit([inst EXCEPT ![i].state = verdict]),
             seen' = [seen EXCEPT ![i] = flight[i].boot]
      PROVE  /\ TableOK'
             /\ \A j \in Ids : /\ inst'[j] = None <=> inst[j] = None
                               /\ inst[j] # None => /\ inst'[j].boot = inst[j].boot
                                                    /\ inst'[j].at = inst[j].at
                                                    /\ inst'[j].ready = inst[j].ready
  <2> DEFINE new == [inst[i] EXCEPT !.state = verdict]
  <2>1. inst[i] \in Entries /\ inst[i].boot = flight[i].boot /\ flight[i] # None
    BY <1>1, <1>3 DEF SameTarget, TypeOK, Land
  <2>2. /\ new \in Entries /\ new.boot = inst[i].boot /\ new.at = inst[i].at
        /\ new.ready = inst[i].ready /\ new.gated = inst[i].gated /\ new.state = verdict
    BY <2>1 DEF Entries, States
  <2>3. inst[i].gated = Gated(i, inst[i].boot) /\ Gated(i, flight[i].boot)
    BY <1>1, <2>1, NoneAssumption DEF DeclaredByBoot
  <2>4. inst' = [inst EXCEPT ![i] = new]
    BY <1>3 DEF Edit
  <2> HIDE DEF new
  <2>5. inst' \in [Ids -> Entries \cup {None}] /\ seen' \in [Ids -> Boots \cup {None}]
    BY <1>1, <1>3, <2>1, <2>2, <2>4 DEF TypeOK, Entries
  <2>6. CacheFollowsTable'
    BY <1>1, <1>3, <2>4, <2>5, EditCache DEF Edit
  <2>7. ASSUME NEW j \in Ids
        PROVE  EntryOK(j)'
    BY <1>1, <1>3, <2>1, <2>2, <2>3, <2>4 DEF TableOK, EntryOK, TypeOK
  <2>8. TableOK'
    BY <2>5, <2>6, <2>7 DEF TableOK
  <2>9. ASSUME NEW j \in Ids
        PROVE  /\ inst'[j] = None <=> inst[j] = None
               /\ inst[j] # None => /\ inst'[j].boot = inst[j].boot
                                    /\ inst'[j].at = inst[j].at
                                    /\ inst'[j].ready = inst[j].ready
    BY <1>1, <2>1, <2>2, <2>4, NoneAssumption DEF TypeOK
  <2> QED
    BY <2>8, <2>9
<1>4. UNCHANGED <<inst, topn, seen>>
      \/ \E verdict \in {"healthy", "unhealthy"} :
           /\ SameTarget(i) /\ Edit([inst EXCEPT ![i].state = verdict])
           /\ seen' = [seen EXCEPT ![i] = flight[i].boot]
  <2>1. flight[i].answer \in {"healthy", "unhealthy", "unreachable"}
    BY <1>1 DEF Land, TypeOK, Targets
  <2> QED
    BY <2>1 DEF Land, table
<1> QED
  BY <1>2, <1>3, <1>4

LEMMA RestartTable ==
    ASSUME Inv, Restart
    PROVE  TableOK'
<1>1. TypeOK
  BY DEF Inv
<1>2. ASSUME NEW i \in Ids, store[i] # None
      PROVE  [boot |-> store[i].boot, at |-> store[i].at, gated |-> Gated(i, store[i].boot),
              state |-> Initial(Gated(i, store[i].boot)), ready |-> gate[i]] \in Entries
             /\ Gated(i, store[i].boot) = (Initial(Gated(i, store[i].boot)) # "ungated")
  <2>1. Gated(i, store[i].boot) \in BOOLEAN /\ store[i] \in Records /\ gate[i] \in BOOLEAN
    BY <1>1, <1>2 DEF Gated, TypeOK
  <2> QED
    BY <2>1, InitialState DEF Entries, Records
<1>3. inst' \in [Ids -> Entries \cup {None}]
  BY <1>2 DEF Restart
<1>4. seen' \in [Ids -> Boots \cup {None}] /\ topn' = {} /\ \A i \in Ids : seen'[i] = None
  BY DEF Restart
<1>5. \A i \in Ids : EntryOK(i)'
  BY <1>2, <1>4 DEF Restart, EntryOK
<1> QED
  BY <1>3, <1>4, <1>5 DEF TableOK, CacheFollowsTable

LEMMA SelectTable ==
    ASSUME Inv, Select
    PROVE  TableOK' /\ topn' \subseteq Peers
<1>1. TypeOK /\ TableOK /\ UNCHANGED <<inst, seen>>
  BY InvTable DEF Inv, Select
<1>2. PICK fresh \in SUBSET Here :
        \E pick \in SUBSET RetainHealthy(Eligible(fresh)) :
          topn' = {[id |-> i, boot |-> inst[i].boot, at |-> inst[i].at] : i \in pick}
  BY DEF Select
<1>3. PICK pick \in SUBSET RetainHealthy(Eligible(fresh)) :
        topn' = {[id |-> i, boot |-> inst[i].boot, at |-> inst[i].at] : i \in pick}
  BY <1>2
<1>4. \A i \in pick : i \in Ids /\ inst[i] \in Entries /\ inst[i] # None /\ inst[i].ready
  BY <1>1 DEF RetainHealthy, Eligible, Here, TypeOK
<1>5. \A i, j \in pick : IsHealthy(inst[i]) = IsHealthy(inst[j])
  BY DEF RetainHealthy, IsHealthy
<1>6. \A p \in topn' : /\ p.id \in pick /\ p.boot = inst[p.id].boot /\ p.at = inst[p.id].at
                       /\ p \in Peers
  BY <1>3, <1>4 DEF Peers, Entries
<1>7. CacheFollowsTable'
  <2>1. \A p \in topn' : /\ inst'[p.id] # None /\ inst'[p.id].ready
                         /\ inst'[p.id].boot = p.boot /\ inst'[p.id].at = p.at
    BY <1>1, <1>4, <1>6
  <2>2. \A p, q \in topn' : IsHealthy(inst'[p.id]) = IsHealthy(inst'[q.id])
    BY <1>1, <1>5, <1>6
  <2> QED
    BY <2>1, <2>2 DEF CacheFollowsTable, IsHealthy
<1>8. \A i \in Ids : EntryOK(i)'
  BY <1>1 DEF TableOK, EntryOK
<1> QED
  BY <1>1, <1>6, <1>7, <1>8 DEF TableOK

-----------------------------------------------------------------------------
(* The rest of the state.                                                  *)
FlightOK == /\ flight \in [Ids -> Targets \cup {None}]
            /\ \A i \in Ids : flight[i] # None => Gated(i, flight[i].boot)

Rest == /\ boot \in [Ids -> Boots] /\ topn \subseteq Peers
        /\ store \in [Ids -> Records \cup {None}] /\ gate \in [Ids -> BOOLEAN] /\ dirty \in BOOLEAN
        /\ reload \in Reads \cup {None}
        /\ FlightOK /\ failures \in [Ids -> 0..Threshold - 1] /\ half \subseteq Ids
        /\ changes \in 0..MaxChanges /\ faults \in 0..MaxFaults

LEMMA InvRest ==
    ASSUME Inv
    PROVE  Rest /\ ReadIsCurrent /\ QuietMatchesStore
BY DEF Inv, TypeOK, Rest, DeclaredByBoot, FlightOK

LEMMA InvFromParts ==
    ASSUME TableOK', Rest', ReadIsCurrent', QuietMatchesStore'
    PROVE  Inv'
BY DEF Inv, TypeOK, Rest, FlightOK, TableOK, EntryOK, DeclaredByBoot, VerdictOfThisBoot,
       DeclarationAgrees, Here

(* An edited cache is the old one or nothing.                              *)
LEMMA EditPeers ==
    ASSUME Rest, NEW new, Edit(new)
    PROVE  topn' \subseteq Peers
BY DEF Edit, Rest

LEMMA CountSteps ==
    ASSUME Rest
    PROVE  /\ Change => changes' \in 0..MaxChanges
           /\ faults < MaxFaults /\ faults' = faults + 1 => faults' \in 0..MaxFaults
BY BoundsAssumption DEF Rest, Change

LEMMA PollRoundFlight ==
    ASSUME Inv, PollRound
    PROVE  FlightOK' /\ failures' \in [Ids -> 0..Threshold - 1]
<1>1. TypeOK /\ DeclaredByBoot
  BY DEF Inv
<1>2. PICK targets \in SUBSET {i \in Here : inst[i].gated} :
        /\ flight' = [i \in Ids |-> IF i \in targets
                                    THEN [boot |-> inst[i].boot, at |-> inst[i].at, answer |-> "none"]
                                    ELSE None]
        /\ failures' = [i \in Ids |-> IF i \in targets THEN failures[i] ELSE 0]
  BY DEF PollRound
<1>3. \A i \in targets : /\ i \in Ids /\ inst[i] \in Entries /\ inst[i].gated
                         /\ Gated(i, inst[i].boot)
  BY <1>1 DEF Here, TypeOK, DeclaredByBoot
<1>4. \A i \in targets :
        [boot |-> inst[i].boot, at |-> inst[i].at, answer |-> "none"] \in Targets
  BY <1>3 DEF Targets, Entries
<1>5. FlightOK'
  BY <1>2, <1>3, <1>4 DEF FlightOK
<1>6. failures' \in [Ids -> 0..Threshold - 1]
  BY <1>1, <1>2, BoundsAssumption DEF TypeOK
<1> QED
  BY <1>5, <1>6

LEMMA AnswerFlight ==
    ASSUME FlightOK, NEW i \in Ids, Answer(i)
    PROVE  FlightOK'
<1>1. flight[i] \in Targets
  BY DEF FlightOK, Answer
<1>2. PICK a \in {"healthy", "unhealthy", "unreachable"} :
        flight' = [flight EXCEPT ![i].answer = a]
  BY DEF Answer
<1>3. [flight[i] EXCEPT !.answer = a] \in Targets
      /\ [flight[i] EXCEPT !.answer = a].boot = flight[i].boot
  BY <1>1 DEF Targets
<1> QED
  BY <1>1, <1>2, <1>3 DEF FlightOK, Answer

LEMMA LandFlight ==
    ASSUME Rest, NEW i \in Ids, Land(i)
    PROVE  FlightOK' /\ failures' \in [Ids -> 0..Threshold - 1]
<1>1. FlightOK'
  BY DEF Rest, FlightOK, Land
<1>2. failures' = [failures EXCEPT ![i] = IF flight[i].answer # "unreachable" THEN 0
                                          ELSE IF EnoughFailures(i) THEN @ ELSE @ + 1]
  BY DEF Land
<1>3. failures[i] \in 0..Threshold - 1
  BY DEF Rest
<1> QED
  BY <1>1, <1>2, <1>3, BoundsAssumption DEF Rest, EnoughFailures

-----------------------------------------------------------------------------
(* Initially, and after every step.                                        *)
LEMMA InitInv ==
    ASSUME Init
    PROVE  Inv
<1>1. TableOK
  BY DEF Init, TableOK, EntryOK, CacheFollowsTable
<1>2. Rest
  <2>1. boot \in [Ids -> Boots] /\ failures \in [Ids -> 0..Threshold - 1]
        /\ changes \in 0..MaxChanges /\ faults \in 0..MaxFaults
    BY BoundsAssumption DEF Init, Boots
  <2>2. gate \in [Ids -> BOOLEAN] /\ dirty \in BOOLEAN
    BY Zenon DEF Init
  <2>3. FlightOK
    BY DEF Init, FlightOK
  <2>4. store \in [Ids -> Records \cup {None}] /\ reload \in Reads \cup {None}
        /\ topn \subseteq Peers /\ half \subseteq Ids
    BY DEF Init
  <2> QED
    BY <2>1, <2>2, <2>3, <2>4 DEF Rest
<1>3. ReadIsCurrent /\ QuietMatchesStore
  BY DEF Init, ReadIsCurrent, QuietMatchesStore
<1> QED
  BY <1>1, <1>2, <1>3
  DEF Inv, TypeOK, Rest, FlightOK, TableOK, EntryOK, DeclaredByBoot, VerdictOfThisBoot,
      DeclarationAgrees, Here

(* Writers of the store leave a change for the watcher to handle.          *)
LEMMA DirtyIsNotQuiet ==
    ASSUME dirty'
    PROVE  ReadIsCurrent' /\ QuietMatchesStore'
BY DEF ReadIsCurrent, QuietMatchesStore

LEMMA RegisterInv ==
    ASSUME Inv, NEW i \in Ids, Register(i)
    PROVE  Inv'
<1>1. Rest
  BY InvRest
<1>2. Rest'
  <2>1. store' \in [Ids -> Records \cup {None}]
    BY RegisterTable
  <2>2. topn' \subseteq Peers
    BY <1>1, EditPeers DEF Register
  <2>3. Change
    BY DEF Register
  <2> QED
    BY <1>1, <2>1, <2>2, <2>3, CountSteps DEF Rest, FlightOK, Register, poller
<1>3. dirty'
  BY DEF Register
<1> QED
  BY <1>2, <1>3, DirtyIsNotQuiet, RegisterTable, InvFromParts

LEMMA RegisterFailsInv ==
    ASSUME Inv, NEW i \in Ids, RegisterFails(i)
    PROVE  Inv'
<1>1. Rest /\ ReadIsCurrent /\ QuietMatchesStore
  BY InvRest
<1>2. Rest'
  <2>1. topn' \subseteq Peers
    BY <1>1, EditPeers DEF RegisterFails
  <2>2. faults' \in 0..MaxFaults
    BY <1>1, CountSteps DEF RegisterFails
  <2> QED
    BY <1>1, <2>1, <2>2 DEF Rest, FlightOK, RegisterFails, poller, stored
<1>3. ReadIsCurrent'
  BY <1>1 DEF ReadIsCurrent, RegisterFails, stored
<1>4. QuietMatchesStore'
  <2>1. half' = half \cup {i} /\ UNCHANGED <<store, gate, dirty, reload>>
    BY DEF RegisterFails, stored
  <2> QED
    BY <1>1, <2>1, RegisterFailsTable DEF QuietMatchesStore
<1> QED
  BY <1>2, <1>3, <1>4, RegisterFailsTable, InvFromParts

LEMMA RemoveInv ==
    ASSUME Inv, NEW i \in Ids, Remove(i)
    PROVE  Inv'
<1>1. Rest
  BY InvRest
<1>2. Rest'
  <2>1. topn' \subseteq Peers
    BY <1>1, EditPeers DEF Remove
  <2>2. Change
    BY DEF Remove
  <2>3. store' \in [Ids -> Records \cup {None}] /\ gate' \in [Ids -> BOOLEAN]
    BY <1>1 DEF Remove, Rest
  <2> QED
    BY <1>1, <2>1, <2>2, <2>3, CountSteps DEF Rest, FlightOK, Remove, poller
<1>3. dirty'
  BY DEF Remove
<1> QED
  BY <1>2, <1>3, DirtyIsNotQuiet, RemoveTable, InvFromParts

LEMMA SetReadyInv ==
    ASSUME Inv, NEW i \in Ids, SetReady(i)
    PROVE  Inv'
<1>1. Rest
  BY InvRest
<1>2. Rest'
  <2>1. topn' \subseteq Peers
    BY <1>1, EditPeers DEF SetReady
  <2>2. Change
    BY DEF SetReady
  <2>3. (~inst[i].ready) \in BOOLEAN
    OBVIOUS
  <2>4. gate' \in [Ids -> BOOLEAN]
    BY <1>1, <2>3, Zenon DEF SetReady, Rest
  <2>5. changes' \in 0..MaxChanges
    BY <1>1, <2>2, CountSteps
  <2>6. dirty' = TRUE /\ UNCHANGED <<boot, store, reload, flight, failures, half, faults>>
    BY DEF SetReady, poller
  <2> QED
    BY <1>1, <2>1, <2>4, <2>5, <2>6 DEF Rest, FlightOK
<1>3. dirty'
  BY DEF SetReady
<1> QED
  BY <1>2, <1>3, DirtyIsNotQuiet, SetReadyTable, InvFromParts

LEMMA RemoteWriteInv ==
    ASSUME Inv, NEW i \in Ids, RemoteWrite(i)
    PROVE  Inv'
<1>1. Rest /\ TableOK
  BY InvRest, InvTable
<1>2. Change /\ dirty' /\ dirty' = TRUE
      /\ UNCHANGED <<boot, inst, topn, reload, flight, failures, seen, half, faults>>
  BY DEF RemoteWrite, table, poller
<1>3. store' \in [Ids -> Records \cup {None}] /\ gate' \in [Ids -> BOOLEAN]
  <2>1. [boot |-> boot[i], at |-> "there"] \in Records
    BY <1>1 DEF Rest, Records, Places
  <2>2. (~gate[i]) \in BOOLEAN
    OBVIOUS
  <2>3. CASE store' = [store EXCEPT ![i] = [boot |-> boot[i], at |-> "there"]] /\ gate' = gate
    BY <1>1, <2>1, <2>3 DEF Rest
  <2>4. CASE store' = [store EXCEPT ![i] = None] /\ gate' = [gate EXCEPT ![i] = TRUE]
    BY <1>1, <2>4 DEF Rest
  <2>5. CASE store' = store /\ gate' = [gate EXCEPT ![i] = ~@]
    BY <1>1, <2>2, <2>5, Zenon DEF Rest
  <2> QED
    BY <2>3, <2>4, <2>5 DEF RemoteWrite
<1>4. Rest'
  BY <1>1, <1>2, <1>3, CountSteps DEF Rest, FlightOK
<1> QED
  BY <1>1, <1>2, <1>4, TableKept, DirtyIsNotQuiet, InvFromParts

LEMMA ReloadInv ==
    ASSUME Inv, ReloadRead \/ ReloadApply
    PROVE  Inv'
<1>1. Rest /\ TableOK /\ ReadIsCurrent /\ QuietMatchesStore
  BY InvRest, InvTable
<1>2. CASE ReloadRead
  <2>1. /\ reload' = [recs |-> store, gates |-> gate] /\ dirty' = FALSE
        /\ UNCHANGED <<boot, inst, topn, store, gate, flight, failures, seen, half, changes, faults>>
    BY <1>2 DEF ReloadRead, table, poller
  <2>2. reload' \in Reads /\ reload' # None
    BY <1>1, <2>1, NoneAssumption DEF Rest, Reads
  <2>3. Rest'
    BY <1>1, <2>1, <2>2 DEF Rest, FlightOK
  <2>4. ReadIsCurrent' /\ QuietMatchesStore'
    BY <2>1, <2>2 DEF ReadIsCurrent, QuietMatchesStore
  <2> QED
    BY <1>1, <2>1, <2>3, <2>4, TableKept, InvFromParts
<1>3. CASE ReloadApply
  <2>1. /\ reload # None /\ reload' = None /\ dirty' = dirty
        /\ UNCHANGED <<boot, store, gate, flight, failures, changes, faults>>
    BY <1>3 DEF ReloadApply, poller, Unhandled
  <2>2. topn' \subseteq Peers
    BY <1>1, <1>3, EditPeers DEF ReloadApply
  <2>3. Rest'
    BY <1>1, <1>3, <2>1, <2>2, ReloadApplyTable DEF Rest, FlightOK
  <2>4. ReadIsCurrent'
    BY <2>1 DEF ReadIsCurrent
  <2>5. QuietMatchesStore'
    BY <1>1, <1>3, <2>1, ReloadApplyTable DEF ReadIsCurrent, QuietMatchesStore
  <2> QED
    BY <1>3, <2>3, <2>4, <2>5, ReloadApplyTable, InvFromParts
<1> QED
  BY <1>2, <1>3

LEMMA SelectInv ==
    ASSUME Inv, Select
    PROVE  Inv'
<1>1. Rest /\ ReadIsCurrent /\ QuietMatchesStore
  BY InvRest
<1>2. UNCHANGED <<boot, inst, store, gate, dirty, reload, flight, failures, half, changes, faults>>
  BY DEF Select, stored, poller
<1>3. Rest'
  BY <1>1, <1>2, SelectTable DEF Rest, FlightOK
<1>4. ReadIsCurrent' /\ QuietMatchesStore'
  BY <1>1, <1>2 DEF ReadIsCurrent, QuietMatchesStore
<1> QED
  BY <1>3, <1>4, SelectTable, InvFromParts

(* The steps of the poller other than the landing of an answer, and the    *)
(* boot of a CVM, leave the table and the store alone.                     *)
LEMMA PollInv ==
    ASSUME Inv, PollRound \/ RoundEnds \/ \E i \in Ids : Answer(i) \/ Boot(i)
    PROVE  Inv'
<1>1. Rest /\ TableOK /\ ReadIsCurrent /\ QuietMatchesStore
  BY InvRest, InvTable
<1>2. UNCHANGED <<inst, topn, store, gate, dirty, reload, seen, half, faults>>
  BY DEF PollRound, RoundEnds, Answer, Boot, table, stored
<1>3. ReadIsCurrent' /\ QuietMatchesStore'
  BY <1>1, <1>2 DEF ReadIsCurrent, QuietMatchesStore
<1>4. Rest'
  <2>1. CASE PollRound
    BY <1>1, <1>2, <2>1, PollRoundFlight DEF Rest, PollRound
  <2>2. CASE RoundEnds
    BY <1>1, <1>2, <2>2 DEF Rest, RoundEnds, FlightOK
  <2>3. ASSUME NEW i \in Ids, Answer(i)
        PROVE  Rest'
    BY <1>1, <1>2, <2>3, AnswerFlight DEF Rest, Answer
  <2>4. ASSUME NEW i \in Ids, Boot(i)
        PROVE  Rest'
    <3>1. changes' \in 0..MaxChanges /\ boot' = [boot EXCEPT ![i] = @ + 1] /\ boot[i] < MaxBoots
          /\ flight' = flight /\ failures' = failures
      BY <1>1, <2>4, CountSteps DEF Boot, poller
    <3>2. boot' \in [Ids -> Boots]
      BY <1>1, <3>1, BoundsAssumption DEF Rest, Boots
    <3> QED
      BY <1>1, <1>2, <3>1, <3>2 DEF Rest, FlightOK
  <2> QED
    BY <2>1, <2>2, <2>3, <2>4
<1> QED
  BY <1>1, <1>2, <1>3, <1>4, TableKept, InvFromParts

LEMMA LandInv ==
    ASSUME Inv, NEW i \in Ids, Land(i)
    PROVE  Inv'
<1>1. Rest /\ ReadIsCurrent /\ QuietMatchesStore
  BY InvRest
<1>2. UNCHANGED <<boot, store, gate, dirty, reload, half, changes, faults>>
  BY DEF Land, stored
<1>3. topn' \subseteq Peers
  BY <1>1, EditPeers DEF Land, table, Rest
<1>4. Rest'
  BY <1>1, <1>2, <1>3, LandFlight DEF Rest
<1>5. ReadIsCurrent'
  BY <1>1, <1>2 DEF ReadIsCurrent
<1>6. QuietMatchesStore'
  BY <1>1, <1>2, LandTable DEF QuietMatchesStore
<1> QED
  BY <1>4, <1>5, <1>6, LandTable, InvFromParts

LEMMA RestartInv ==
    ASSUME Inv, Restart
    PROVE  Inv'
<1>1. Rest
  BY InvRest
<1>2. Rest'
  <2>1. faults' \in 0..MaxFaults
    BY <1>1, CountSteps DEF Restart
  <2>2. FlightOK' /\ failures' \in [Ids -> 0..Threshold - 1]
    BY BoundsAssumption DEF Restart, FlightOK
  <2> QED
    BY <1>1, <2>1, <2>2 DEF Restart, Rest
<1>3. ReadIsCurrent'
  BY DEF Restart, ReadIsCurrent
<1>4. QuietMatchesStore'
  <2>1. ASSUME NEW i \in Ids, store[i] # None
        PROVE  /\ inst'[i] # None /\ inst'[i].boot = store[i].boot /\ inst'[i].at = store[i].at
               /\ inst'[i].ready = gate[i]
    <3>1. inst'[i] = [boot |-> store[i].boot, at |-> store[i].at,
                      gated |-> Gated(i, store[i].boot),
                      state |-> Initial(Gated(i, store[i].boot)), ready |-> gate[i]]
      BY <2>1 DEF Restart
    <3>2. store[i] \in Records /\ gate[i] \in BOOLEAN /\ Gated(i, store[i].boot) \in BOOLEAN
      BY <1>1, <2>1 DEF Rest, Gated
    <3>3. inst'[i] \in Entries
      BY <3>1, <3>2, InitialState DEF Entries, Records
    <3> QED
      BY <3>1, <3>3, NoneAssumption
  <2> QED
    BY <2>1 DEF Restart, QuietMatchesStore
<1> QED
  BY <1>2, <1>3, <1>4, RestartTable, InvFromParts

LEMMA StutterInv ==
    ASSUME Inv, UNCHANGED vars
    PROVE  Inv'
<1>1. Rest /\ TableOK /\ ReadIsCurrent /\ QuietMatchesStore
  BY InvRest, InvTable
<1>2. Rest' /\ ReadIsCurrent' /\ QuietMatchesStore'
  BY <1>1 DEF vars, Rest, FlightOK, ReadIsCurrent, QuietMatchesStore
<1>3. TableOK'
  BY <1>1, TableKept DEF vars
<1> QED
  BY <1>2, <1>3, InvFromParts

(* The types of the table, the store and the poller, with every fact that  *)
(* the properties below rest on: in every reachable state of any cluster.  *)
THEOREM InvariantHolds == Spec => []Inv
<1>1. Inv /\ [Next]_vars => Inv'
  BY RegisterInv, RegisterFailsInv, RemoveInv, SetReadyInv, RemoteWriteInv, ReloadInv, SelectInv,
     PollInv, LandInv, RestartInv, StutterInv, Zenon DEF Next
<1> QED
  BY <1>1, InitInv, PTL DEF Spec

(* The cached selection follows the table, whatever edits, reloads and     *)
(* polls come after it was computed (edit_instance, retain_healthy).       *)
THEOREM CacheFollowsTableHolds == Spec => []CacheFollowsTable
<1>1. Inv => CacheFollowsTable
  BY DEF Inv
<1> QED
  BY <1>1, InvariantHolds, PTL

(* A verdict is about the boot that the entry describes (SameTarget,       *)
(* inherit_health_from, the reset on a new key).                           *)
THEOREM VerdictOfThisBootHolds == Spec => []VerdictOfThisBoot
<1>1. Inv => VerdictOfThisBoot
  BY DEF Inv
<1> QED
  BY <1>1, InvariantHolds, PTL

(* An entry is held to the poll's verdict exactly if its CVM asked for it. *)
THEOREM DeclarationAgreesHolds == Spec => []DeclarationAgrees
<1>1. Inv => DeclarationAgrees
  BY DEF Inv
<1> QED
  BY <1>1, InvariantHolds, PTL

(* Once every change is handled the table is what the store says, although *)
(* a reload reads the store before it takes the lock.                      *)
THEOREM QuietMatchesStoreHolds == Spec => []QuietMatchesStore
<1>1. Inv => QuietMatchesStore
  BY DEF Inv
<1> QED
  BY <1>1, InvariantHolds, PTL
=============================================================================
