-------------------------- MODULE GatewayPeersProofs --------------------------
(***************************************************************************)
(* Proofs about GatewayPeers, for any nodes, writes and crashes: a deleted *)
(* record does not come back from a removed node, and a node marked as     *)
(* removed is not kept as a sync peer.                                     *)
(***************************************************************************)
EXTENDS GatewayPeers, TLAPS

Versions == [stamp: Nat, by: Nat, val: {"none", "live", "dead"}]

Types == /\ db \in [Nodes -> [Keys -> Versions]]
         /\ known \in [Nodes -> [Keys -> SUBSET Nodes]]
         /\ peers \in [Nodes -> SUBSET Nodes]
         /\ dirty \in [Nodes -> BOOLEAN]
         /\ admin \in [Nodes -> {"idle", "drop", "delete", "address", "add"}]
         /\ boot \in [Nodes -> {"idle", "listed", "address", "add"}]
         /\ ended \subseteq Nodes

(* The marker before Victim comes back: it is not deleted, so that whoever    *)
(* has it keeps it; and whoever dropped Victim, or knows of the end of its *)
(* address, has the marker.                                                *)
Marked ==
    \A n \in Nodes :
        /\ admin[n] \notin {"address", "add"}
        /\ db[n]["removed"].val # "dead"
        /\ db[n]["removed"].val = "none" => db[n]["removed"].stamp = 0
        /\ db[n]["removed"].val = "live" => db[n]["removed"].stamp > 0
        /\ db[n]["addr"].val = "dead" => Removed(n)
        /\ admin[n] \in {"drop", "delete"} => Removed(n)
        /\ n \in Members /\ Victim \notin peers[n] => Removed(n)
        /\ n \in Members => Members \ {n} \subseteq peers[n]

(* The record before Victim comes back: its tombstone beats it; who has not   *)
(* seen the deletion has the record, and so have no peers of a node that   *)
(* has collected the tombstone; Victim does not collect.                   *)
Deleted ==
    \A n \in Nodes :
        /\ db[n]["inst"].val = "none" => db[n]["inst"].stamp = 0
        /\ db[n]["inst"].val = "live" => db[n]["inst"].stamp = 1
        /\ db[n]["inst"].val = "dead" => db[n]["inst"].stamp > 1
        /\ (n \notin ended) = (db[n]["inst"].val = "live")
        /\ known[n]["inst"] \subseteq ended
        /\ db[n]["inst"].val = "none" => n # Victim /\ peers[n] \subseteq ended

(* A member that has handled every change and has the marker has dropped   *)
(* Victim, or its discovery task is about to cause a change.               *)
Dropped ==
    \A n \in Members :
        ~dirty[n] /\ boot[n] # "address" /\ Removed(n) => Victim \notin peers[n]

Inv == /\ Types
       /\ again = "no" => Marked /\ Deleted
       /\ again # "crossed" => Dropped

-----------------------------------------------------------------------------
LEMMA InitInv == Init => Inv
  <1> SUFFICES ASSUME Init PROVE Inv
    OBVIOUS
  <1> DEFINE live == Written(Unwritten("none"), 0, "live")
  <1>1. /\ live \in Versions /\ live.val = "live" /\ live.stamp = 1
        /\ Unwritten("none") \in Versions /\ Unwritten("none").val = "none" /\ Unwritten("none").stamp = 0
    BY DEF Written, Unwritten, Versions
  <1>2. \A n \in Nodes : /\ db[n] \in [Keys -> Versions]
                         /\ db[n]["inst"] = live /\ db[n]["addr"] = live
                         /\ db[n]["removed"] = Unwritten("none")
    BY <1>1 DEF Init, Keys
  <1>3. Types
    BY <1>2, VictimAssumption DEF Init, Types
  <1>4. again = "no" /\ \A n \in Nodes : ~Removed(n)
    BY <1>1, <1>2 DEF Init, Removed
  <1>5. Marked
    BY <1>1, <1>2, <1>4, VictimAssumption DEF Init, Marked, Members
  <1>6. Deleted
    BY <1>1, <1>2 DEF Init, Deleted, Keys
  <1>7. Dropped
    BY <1>4 DEF Dropped, Members
  <1> QED
    BY <1>3, <1>4, <1>5, <1>6, <1>7 DEF Inv

(* One key of one node is written.                                         *)
LEMMA StoreEffect ==
    ASSUME Types, NEW n \in Nodes, NEW k \in Keys, NEW val \in {"none", "live", "dead"},
           Store(n, k, val)
    PROVE  /\ db' \in [Nodes -> [Keys -> Versions]]
           /\ known' \in [Nodes -> [Keys -> SUBSET Nodes]]
           /\ dirty' \in [Nodes -> BOOLEAN]
           /\ \A m \in Nodes, j \in Keys :
                IF m = n /\ j = k
                THEN /\ db'[m][j].val = val /\ db'[m][j].stamp = db[m][j].stamp + 1
                     /\ known'[m][j] = {}
                ELSE db'[m][j] = db[m][j] /\ known'[m][j] = known[m][j]
           /\ \A m \in Nodes : dirty[m] => dirty'[m]
           /\ n # Victim /\ k \in Watched => dirty'[n]
  <1> DEFINE w == Written(db[n][k], n, val)
  <1>1. w \in Versions /\ w.val = val /\ w.stamp = db[n][k].stamp + 1
    BY VictimAssumption DEF Types, Written, Versions
  <1>2. db' = [db EXCEPT ![n][k] = w]
    BY DEF Store
  <1> HIDE DEF w
  <1>3. /\ db' \in [Nodes -> [Keys -> Versions]]
        /\ \A m \in Nodes, j \in Keys : db'[m][j] = IF m = n /\ j = k THEN w ELSE db[m][j]
    BY <1>1, <1>2 DEF Types
  <1>4. /\ known' \in [Nodes -> [Keys -> SUBSET Nodes]]
        /\ \A m \in Nodes, j \in Keys : known'[m][j] = IF m = n /\ j = k THEN {} ELSE known[m][j]
    BY DEF Types, Store
  <1>5. /\ dirty' \in [Nodes -> BOOLEAN] /\ \A m \in Nodes : dirty[m] => dirty'[m]
        /\ n # Victim /\ k \in Watched => dirty'[n]
    BY DEF Types, Store
  <1> QED
    BY <1>1, <1>3, <1>4, <1>5

(* What an exchange leaves on both sides.                                  *)
Merge(n, m) == [k \in Keys |-> Newest(db[m][k], db[n][k])]

LEMMA ExchangeEffect ==
    ASSUME Types, NEW n \in Nodes, NEW m \in Nodes \ {n}, Exchange(n, m)
    PROVE  /\ db' \in [Nodes -> [Keys -> Versions]]
           /\ known' \in [Nodes -> [Keys -> SUBSET Nodes]]
           /\ dirty' \in [Nodes -> BOOLEAN] /\ ended' \subseteq Nodes
           /\ \A k \in Keys : Merge(n, m)[k] \in {db[n][k], db[m][k]}
           /\ \A a \in Nodes, k \in Keys :
                /\ db'[a][k] = IF a \in {n, m} THEN Merge(n, m)[k] ELSE db[a][k]
                /\ a \notin {n, m} => known'[a][k] = known[a][k]
                /\ a \in {n, m} =>
                     /\ known'[a][k] \subseteq known[a][k] \cup {n, m}
                     /\ Merge(n, m)[k].val # "dead" => known'[a][k] = {}
           /\ \A a \in Members : ~dirty'[a] => ~dirty[a] /\ \A k \in Watched : db'[a][k] = db[a][k]
           /\ ended' = IF Merge(n, m)["inst"].val = "dead" THEN ended \cup {n, m} ELSE ended
  <1> DEFINE Knows(a, b) == [k \in Keys |-> IF Merge(n, m)[k].val # "dead" THEN {}
                                            ELSE IF Merge(n, m)[k] = db[a][k] THEN known[a][k] \cup {b} ELSE {b}]
  <1>1. /\ db' = [db EXCEPT ![n] = Merge(n, m), ![m] = Merge(n, m)]
        /\ known' = [known EXCEPT ![n] = Knows(n, m), ![m] = Knows(m, n)]
        /\ dirty' = [a \in Nodes |-> dirty[a] \/ (a \in {n, m} \ {Victim} /\ \E k \in Watched : Merge(n, m)[k] # db[a][k])]
        /\ ended' = IF Merge(n, m)["inst"].val = "dead" THEN ended \cup {n, m} ELSE ended
    BY DEF Exchange, Merge
  <1>2. \A k \in Keys : Merge(n, m)[k] \in {db[n][k], db[m][k]}
    BY DEF Merge, Newest
  <1>3. Merge(n, m) \in [Keys -> Versions]
    BY <1>2 DEF Types, Merge, Newest
  <1>4. \A a, b \in {n, m} : /\ Knows(a, b) \in [Keys -> SUBSET Nodes]
                             /\ \A k \in Keys : /\ Knows(a, b)[k] \subseteq known[a][k] \cup {n, m}
                                                /\ Merge(n, m)[k].val # "dead" => Knows(a, b)[k] = {}
    BY DEF Types
  <1> HIDE DEF Knows
  <1>5. /\ db' \in [Nodes -> [Keys -> Versions]]
        /\ \A a \in Nodes : db'[a] = IF a \in {n, m} THEN Merge(n, m) ELSE db[a]
    BY <1>1, <1>3 DEF Types
  <1>6. /\ known' \in [Nodes -> [Keys -> SUBSET Nodes]]
        /\ \A a \in Nodes \ {n, m} : known'[a] = known[a]
        /\ known'[m] = Knows(m, n) /\ known'[n] = Knows(n, m)
    BY <1>1, <1>4 DEF Types
  <1>7. dirty' \in [Nodes -> BOOLEAN]
    BY <1>1
  <1>8. \A a \in Members : ~dirty'[a] => ~dirty[a] /\ \A k \in Watched : db'[a][k] = db[a][k]
    BY <1>1, <1>5 DEF Members
  <1>9. ended' \subseteq Nodes
    BY <1>1 DEF Types
  <1>10. \A a \in Nodes, k \in Keys : a \in {n, m} =>
                                     /\ known'[a][k] \subseteq known[a][k] \cup {n, m}
                                     /\ Merge(n, m)[k].val # "dead" => known'[a][k] = {}
    BY <1>4, <1>6
  <1>11. \A a \in Nodes, k \in Keys :
           /\ db'[a][k] = IF a \in {n, m} THEN Merge(n, m)[k] ELSE db[a][k]
           /\ a \notin {n, m} => known'[a][k] = known[a][k]
    BY <1>5, <1>6
  <1>12. ended' = IF Merge(n, m)["inst"].val = "dead" THEN ended \cup {n, m} ELSE ended
    BY <1>1
  <1>13. \A a \in Nodes, k \in Keys :
                /\ db'[a][k] = IF a \in {n, m} THEN Merge(n, m)[k] ELSE db[a][k]
                /\ a \notin {n, m} => known'[a][k] = known[a][k]
                /\ a \in {n, m} =>
                     /\ known'[a][k] \subseteq known[a][k] \cup {n, m}
                     /\ Merge(n, m)[k].val # "dead" => known'[a][k] = {}
    BY <1>10, <1>11
  <1>14. /\ db' \in [Nodes -> [Keys -> Versions]]
           /\ known' \in [Nodes -> [Keys -> SUBSET Nodes]]
           /\ dirty' \in [Nodes -> BOOLEAN] /\ ended' \subseteq Nodes
    BY <1>5, <1>6, <1>7, <1>9
  <1> QED
    BY <1>2, <1>8, <1>12, <1>13, <1>14

(* Tombstones that may be collected are forgotten.                         *)
LEMMA CollectEffect ==
    ASSUME Types, NEW n \in Nodes, Collect(n)
    PROVE  /\ db' \in [Nodes -> [Keys -> Versions]]
           /\ known' \in [Nodes -> [Keys -> SUBSET Nodes]]
           /\ \A a \in Nodes, k \in Keys :
                IF a = n /\ Collectable(n, k)
                THEN db'[a][k].val = "none" /\ db'[a][k].stamp = 0 /\ known'[a][k] = {}
                ELSE db'[a][k] = db[a][k] /\ known'[a][k] = known[a][k]
  <1>1. Unwritten("none") \in Versions /\ Unwritten("none").val = "none" /\ Unwritten("none").stamp = 0
    BY DEF Unwritten, Versions
  <1>2. /\ db' = [db EXCEPT ![n] = [k \in Keys |-> IF Collectable(n, k) THEN Unwritten("none") ELSE db[n][k]]]
        /\ known' = [known EXCEPT ![n] = [k \in Keys |-> IF Collectable(n, k) THEN {} ELSE known[n][k]]]
    BY DEF Collect
  <1>3. /\ db' \in [Nodes -> [Keys -> Versions]]
        /\ \A a \in Nodes, k \in Keys :
             db'[a][k] = IF a = n /\ Collectable(n, k) THEN Unwritten("none") ELSE db[a][k]
    BY <1>1, <1>2 DEF Types
  <1>4. /\ known' \in [Nodes -> [Keys -> SUBSET Nodes]]
        /\ \A a \in Nodes, k \in Keys :
             known'[a][k] = IF a = n /\ Collectable(n, k) THEN {} ELSE known[a][k]
    BY <1>2 DEF Types
  <1> QED
    BY <1>1, <1>3, <1>4

-----------------------------------------------------------------------------
(* No step changes the types.                                              *)
LEMMA TypesStep ==
    ASSUME Types, [Next]_vars
    PROVE  Types'
  <1>1. ASSUME NEW n \in Members, DeleteInstance(n) PROVE Types'
    BY <1>1, StoreEffect DEF DeleteInstance, Put, Keys, Types, Members
  <1>2. ASSUME NEW n \in Members, Mark(n) PROVE Types'
    BY <1>2, StoreEffect DEF Mark, Put, Keys, Types, Members
  <1>3. ASSUME NEW n \in Members, DropPeer(n) PROVE Types'
    BY <1>3 DEF DropPeer, Types
  <1>4. ASSUME NEW n \in Members, DeleteAddress(n) PROVE Types'
    BY <1>4, StoreEffect DEF DeleteAddress, Put, Keys, Types, Members
  <1>5. ASSUME NEW n \in Members, ClearMark(n) PROVE Types'
    BY <1>5, StoreEffect DEF ClearMark, Put, Keys, Types, Members
  <1>6. ASSUME NEW n \in Members, PutAddress(n) PROVE Types'
    BY <1>6, StoreEffect DEF PutAddress, Put, Keys, Types, Members
  <1>7. ASSUME NEW n \in Members, AddPeer(n) PROVE Types'
    BY <1>7, VictimAssumption DEF AddPeer, Types
  <1>8. ASSUME NEW n \in Members, Collect(n) PROVE Types'
    BY <1>8, CollectEffect DEF Collect, Types, Members
  <1>9. ASSUME NEW n \in Members, Prune(n) PROVE Types'
    BY <1>9 DEF Prune, Types
  <1>10. ASSUME NEW n \in Nodes, Crash(n) PROVE Types'
    <2>0. /\ admin' \in [Nodes -> {"idle", "drop", "delete", "address", "add"}]
          /\ boot' \in [Nodes -> {"idle", "listed", "address", "add"}]
          /\ peers' \in [Nodes -> SUBSET Nodes] /\ UNCHANGED ended
      BY <1>10, VictimAssumption DEF Crash, Types
    <2>1. CASE Store(n, "addr", "live")
      BY <2>0, <2>1, StoreEffect DEF Keys, Types
    <2>2. CASE dirty' = [dirty EXCEPT ![n] = TRUE] /\ UNCHANGED <<db, known>>
      BY <2>0, <2>2 DEF Types
    <2> QED
      BY <1>10, <2>1, <2>2 DEF Crash
  <1>11. ASSUME NEW n \in Nodes, NEW m \in Nodes \ {n}, Exchange(n, m) PROVE Types'
    <2>1. peers' \in [Nodes -> SUBSET Nodes] /\ UNCHANGED <<admin, boot>>
      BY <1>11 DEF Exchange, Types
    <2> QED
      BY <1>11, <2>1, ExchangeEffect DEF Types
  <1>12. CASE UNCHANGED vars
    BY <1>12 DEF vars, Types
  <1>13. ASSUME NEW n \in Members, Discover(n) PROVE Types'
    BY <1>13 DEF Discover, Types
  <1>14. ASSUME NEW n \in Members, AddListed(n) PROVE Types'
    BY <1>14, VictimAssumption DEF AddListed, Types
  <1>15. ASSUME NEW n \in Members, PutListed(n) PROVE Types'
    <2>1. boot' \in [Nodes -> {"idle", "listed", "address", "add"}] /\ UNCHANGED <<peers, admin, ended>>
      BY <1>15 DEF PutListed, Types
    <2> QED
      BY <1>15, <2>1, StoreEffect DEF PutListed, Keys, Types, Members
  <1>16. ASSUME NEW n \in Members, AddListedAgain(n) PROVE Types'
    BY <1>16, VictimAssumption DEF AddListedAgain, Types
  <1> QED
    BY <1>1, <1>2, <1>3, <1>4, <1>5, <1>6, <1>7, <1>8, <1>9, <1>10, <1>11, <1>12, <1>13, <1>14, <1>15, <1>16,
       AdminsAssumption, Zenon DEF Next, Members

(* What becomes of the markers when one node writes a key: peers and the   *)
(* discovery change where the watchers have a change to handle.            *)
LEMMA DroppedByStore ==
    ASSUME Types, Dropped, NEW n \in Nodes, NEW k \in Keys, NEW val \in {"none", "live", "dead"},
           Store(n, k, val),
           \A m \in Members : dirty'[m] \/ (boot'[m] = boot[m] /\ peers'[m] = peers[m])
    PROVE  Dropped'
  <1> SUFFICES ASSUME NEW m \in Members, ~dirty'[m], boot'[m] # "address", Removed(m)'
               PROVE  Victim \notin peers'[m]
    BY DEF Dropped
  <1>1. m \in Nodes /\ m # Victim /\ "removed" \in Keys /\ "removed" \in Watched
    BY DEF Members, Keys, Watched
  <1>2. ~dirty[m] /\ ~(m = n /\ k = "removed")
    BY <1>1, StoreEffect
  <1>3. db'[m]["removed"] = db[m]["removed"]
    BY <1>1, <1>2, StoreEffect
  <1> QED
    BY <1>2, <1>3 DEF Dropped, Removed

(* Victim enters the peer set of n again.                                  *)
LEMMA DroppedByAdding ==
    ASSUME Types, Dropped, NEW n \in Members, UNCHANGED <<db, dirty>>,
           peers' = [peers EXCEPT ![n] = @ \cup {Victim}],
           \A m \in Members \ {n} : boot'[m] = boot[m],
           boot'[n] = "address" \/ ~Removed(n) \/ dirty[n]
    PROVE  Dropped'
  <1>1. \A m \in Members \ {n} : peers'[m] = peers[m]
    BY DEF Types, Members
  <1> QED
    BY <1>1 DEF Dropped, Removed

(* No step but the crossing one leaves a marked node among the peers of a  *)
(* node at rest.                                                           *)
LEMMA DroppedStep ==
    ASSUME Types, again # "crossed" => Dropped, again' # "crossed", [Next]_vars
    PROVE  Dropped'
  <1>1. ASSUME NEW n \in Members, DeleteInstance(n) PROVE Dropped'
    BY <1>1, DroppedByStore DEF DeleteInstance, Put, Keys, Members
  <1>2. ASSUME NEW n \in Members, Mark(n) PROVE Dropped'
    BY <1>2, DroppedByStore DEF Mark, Put, Keys, Members
  <1>3. ASSUME NEW n \in Members, DropPeer(n) PROVE Dropped'
    BY <1>3 DEF DropPeer, Dropped, Removed, Types, Members
  <1>4. ASSUME NEW n \in Members, DeleteAddress(n) PROVE Dropped'
    BY <1>4, DroppedByStore DEF DeleteAddress, Put, Keys, Members
  <1>5. ASSUME NEW n \in Members, ClearMark(n) PROVE Dropped'
    BY <1>5, DroppedByStore DEF ClearMark, Put, Keys, Members
  <1>6. ASSUME NEW n \in Members, PutAddress(n) PROVE Dropped'
    BY <1>6, DroppedByStore DEF PutAddress, Put, Keys, Members
  <1>7. ASSUME NEW n \in Members, AddPeer(n) PROVE Dropped'
    <2>1. (~Removed(n) \/ dirty[n]) /\ again # "crossed"
      BY <1>7 DEF AddPeer, Crossed, Relisted
    <2> QED
      BY <1>7, <2>1, DroppedByAdding DEF AddPeer
  <1>8. ASSUME NEW n \in Members, Collect(n) PROVE Dropped'
    <2> SUFFICES ASSUME NEW m \in Members, ~dirty[m], boot[m] # "address", Removed(m)'
                 PROVE  Victim \notin peers[m]
      BY <1>8 DEF Collect, Dropped
    <2>1. Removed(m)
      BY <1>8, CollectEffect DEF Members, Keys, Removed
    <2> QED
      BY <1>8, <2>1 DEF Collect, Dropped
  <1>9. ASSUME NEW n \in Members, Prune(n) PROVE Dropped'
    BY <1>9 DEF Prune, PruneDue, Dropped, Removed, Types, Members
  <1>10. ASSUME NEW n \in Nodes, Crash(n) PROVE Dropped'
    <2>0. \A m \in Nodes \ {n} : boot'[m] = boot[m] /\ peers'[m] = peers[m]
      BY <1>10 DEF Crash, Types
    <2>1. CASE Store(n, "addr", "live")
      <3>1. Dropped
        BY <1>10 DEF Crash, Relisted
      <3>2. n # Victim => dirty'[n]
        BY <2>1, StoreEffect DEF Keys, Watched
      <3>3. \A m \in Members : dirty'[m] \/ (boot'[m] = boot[m] /\ peers'[m] = peers[m])
        BY <2>0, <3>2 DEF Members
      <3> QED
        BY <2>1, <3>1, <3>3, DroppedByStore DEF Keys
    <2>2. CASE n # Victim /\ dirty' = [dirty EXCEPT ![n] = TRUE] /\ UNCHANGED <<db, known, peers, again>>
      BY <2>0, <2>2 DEF Dropped, Removed, Types, Members
    <2> QED
      BY <1>10, <2>1, <2>2 DEF Crash
  <1>11. ASSUME NEW n \in Nodes, NEW m \in Nodes \ {n}, Exchange(n, m) PROVE Dropped'
    <2> SUFFICES ASSUME NEW a \in Members, ~dirty'[a], boot[a] # "address", Removed(a)'
                 PROVE  Victim \notin peers'[a]
      BY <1>11 DEF Exchange, Dropped
    <2>1. ~dirty[a] /\ db'[a]["removed"] = db[a]["removed"]
      BY <1>11, ExchangeEffect DEF Watched
    <2>2. Victim \notin peers[a] /\ Removed(a)
      BY <1>11, <2>1 DEF Exchange, Dropped, Removed
    <2>3. /\ peers'[a] = IF a = m THEN peers[a] \cup {n} ELSE peers[a]
          /\ ~Refused(m, n)
      BY <1>11 DEF Exchange, Types, Members
    <2> QED
      BY <2>2, <2>3 DEF Refused
  <1>12. CASE UNCHANGED vars
    BY <1>12 DEF vars, Dropped, Removed
  <1>13. ASSUME NEW n \in Members, Discover(n) PROVE Dropped'
    BY <1>13 DEF Discover, Dropped, Removed, Types, Members
  <1>14. ASSUME NEW n \in Members, AddListed(n) PROVE Dropped'
    <2>1. boot'[n] = "address" /\ \A m \in Members \ {n} : boot'[m] = boot[m]
      BY <1>14 DEF AddListed, Types, Members
    <2>2. again # "crossed"
      BY <1>14 DEF AddListed, Relisted
    <2> QED
      BY <1>14, <2>1, <2>2, DroppedByAdding DEF AddListed
  <1>15. ASSUME NEW n \in Members, PutListed(n) PROVE Dropped'
    <2>1. n \in Nodes /\ n # Victim /\ "addr" \in Keys /\ Store(n, "addr", "live") /\ again # "crossed"
      BY <1>15 DEF PutListed, Members, Keys
    <2>2. dirty'[n]
      BY <2>1, StoreEffect DEF Watched
    <2>3. \A m \in Members \ {n} : boot'[m] = boot[m] /\ peers'[m] = peers[m]
      BY <1>15 DEF PutListed, Types, Members
    <2> QED
      BY <2>1, <2>2, <2>3, DroppedByStore
  <1>16. ASSUME NEW n \in Members, AddListedAgain(n) PROVE Dropped'
    <2>1. (~Removed(n) \/ dirty[n]) /\ again # "crossed"
      BY <1>16 DEF AddListedAgain, Crossed, Relisted
    <2>2. \A m \in Members \ {n} : boot'[m] = boot[m]
      BY <1>16 DEF AddListedAgain, Types, Members
    <2> QED
      BY <1>16, <2>1, <2>2, DroppedByAdding DEF AddListedAgain
  <1> QED
    BY <1>1, <1>2, <1>3, <1>4, <1>5, <1>6, <1>7, <1>8, <1>9, <1>10, <1>11, <1>12,
       <1>13, <1>14, <1>15, <1>16, AdminsAssumption, Zenon DEF Next, Members

-----------------------------------------------------------------------------
(* Before a re-admission nobody who has the marker loses it.               *)
LEMMA MarkerStays ==
    ASSUME Types, Marked, NEW n \in Nodes, NEW m \in Nodes
    PROVE  LET v == Newest(db[m]["removed"], db[n]["removed"])
           IN  /\ v \in {db[n]["removed"], db[m]["removed"]}
               /\ (v.val = "live") = (Removed(n) \/ Removed(m))
  <1>1. /\ db[n]["removed"] \in Versions /\ db[m]["removed"] \in Versions
    BY DEF Types, Keys
  <1> QED
    BY <1>1 DEF Marked, Newest, Later, Removed, Versions

LEMMA MarkedStep ==
    ASSUME Types, again = "no", Marked, again' = "no", [Next]_vars
    PROVE  Marked'
  <1> USE DEF Marked, Removed
  <1>0. /\ {"inst", "addr", "removed"} = Keys /\ Members \subseteq Nodes
        /\ \A n \in Nodes, k \in Keys : db[n][k].stamp \in Nat
    BY DEF Keys, Members, Types, Versions
  <1>1. ASSUME NEW n \in Members, DeleteInstance(n) PROVE Marked'
    <2>1. \A m \in Nodes : db'[m]["addr"] = db[m]["addr"] /\ db'[m]["removed"] = db[m]["removed"]
      BY <1>0, <1>1, StoreEffect DEF DeleteInstance, Put
    <2> QED
      BY <1>1, <2>1 DEF DeleteInstance
  <1>2. ASSUME NEW n \in Members, Mark(n) PROVE Marked'
    <2>1. \A m \in Nodes : admin'[m] = IF m = n THEN "drop" ELSE admin[m]
      BY <1>2 DEF Mark, Types
    <2>2. \A m \in Nodes : /\ db'[m]["addr"] = db[m]["addr"]
                           /\ m # n => db'[m]["removed"] = db[m]["removed"]
      BY <1>0, <1>2, StoreEffect DEF Mark, Put
    <2>3. db'[n]["removed"].val = "live" /\ db'[n]["removed"].stamp = db[n]["removed"].stamp + 1
      BY <1>0, <1>2, StoreEffect DEF Mark, Put
    <2> QED
      BY <1>0, <1>2, <2>1, <2>2, <2>3 DEF Mark
  <1>3. ASSUME NEW n \in Members, DropPeer(n) PROVE Marked'
    BY <1>3, <1>0 DEF DropPeer, Types, Members
  <1>4. ASSUME NEW n \in Members, DeleteAddress(n) PROVE Marked'
    <2>1. \A m \in Nodes : admin'[m] = IF m = n THEN "idle" ELSE admin[m]
      BY <1>4 DEF DeleteAddress, Types
    <2>2. \A m \in Nodes : /\ m # n => db'[m]["addr"] = db[m]["addr"]
                           /\ db'[m]["removed"] = db[m]["removed"]
      BY <1>0, <1>4, StoreEffect DEF DeleteAddress, Put
    <2> QED
      BY <1>0, <1>4, <2>1, <2>2 DEF DeleteAddress
  <1>5. ASSUME NEW n \in Members, ClearMark(n) PROVE Marked'
    BY <1>5 DEF ClearMark
  <1>6. ASSUME NEW n \in Members, PutAddress(n) PROVE Marked'
    BY <1>0, <1>6 DEF PutAddress
  <1>7. ASSUME NEW n \in Members, AddPeer(n) PROVE Marked'
    BY <1>0, <1>7 DEF AddPeer
  <1>8. ASSUME NEW n \in Members, Collect(n) PROVE Marked'
    <2>1. \A m \in Nodes : /\ db'[m]["removed"] = db[m]["removed"]
                           /\ db'[m]["addr"].val = "dead" => db[m]["addr"].val = "dead"
      BY <1>0, <1>8, CollectEffect DEF Collectable
    <2> QED
      BY <1>8, <2>1 DEF Collect
  <1>9. ASSUME NEW n \in Members, Prune(n) PROVE Marked'
    BY <1>9, <1>0 DEF Prune, PruneDue, Types, Members
  <1>10. ASSUME NEW n \in Nodes, Crash(n) PROVE Marked'
    <2>1. \A m \in Nodes : admin'[m] = IF m = n THEN "idle" ELSE admin[m]
      BY <1>10 DEF Crash, Types
    <2>2. \A m \in Nodes : peers'[m] = peers[m] \/ peers'[m] = peers[m] \cup {Victim}
      BY <1>10 DEF Crash, Types
    <2>3. CASE Store(n, "addr", "live")
      <3>1. \A m \in Nodes : /\ db'[m]["addr"].val = "dead" => db[m]["addr"].val = "dead"
                             /\ db'[m]["removed"] = db[m]["removed"]
        BY <1>0, <2>3, StoreEffect
      <3> QED
        BY <1>0, <2>1, <2>2, <3>1
    <2>4. CASE UNCHANGED db
      BY <1>0, <2>1, <2>2, <2>4
    <2> QED
      BY <1>10, <2>3, <2>4 DEF Crash
  <1>11. ASSUME NEW n \in Nodes, NEW m \in Nodes \ {n}, Exchange(n, m) PROVE Marked'
    <2>1. \A a \in Nodes, k \in Keys : db'[a][k] = IF a \in {n, m} THEN Merge(n, m)[k] ELSE db[a][k]
      BY <1>11, ExchangeEffect
    <2>2. \A k \in Keys : Merge(n, m)[k] = Newest(db[m][k], db[n][k])
      BY DEF Merge
    <2>3. Merge(n, m)["addr"] \in {db[n]["addr"], db[m]["addr"]}
      BY <1>0, <2>2 DEF Newest
    <2>4. /\ Merge(n, m)["removed"] \in {db[n]["removed"], db[m]["removed"]}
          /\ (Merge(n, m)["removed"].val = "live") = (Removed(n) \/ Removed(m))
      BY <1>0, <2>2, MarkerStays
    <2>5. \A a \in Nodes : peers[a] \subseteq peers'[a]
      BY <1>11 DEF Exchange, Types
    <2>6. /\ UNCHANGED admin
          /\ \A a \in Nodes : /\ db'[a]["addr"] = IF a \in {n, m} THEN Merge(n, m)["addr"] ELSE db[a]["addr"]
                              /\ db'[a]["removed"] = IF a \in {n, m} THEN Merge(n, m)["removed"]
                                                     ELSE db[a]["removed"]
      BY <1>0, <1>11, <2>1 DEF Exchange
    <2>7. ASSUME NEW a \in {n, m} PROVE /\ db'[a]["removed"].val = "live" <=> Removed(n) \/ Removed(m)
                                       /\ db'[a]["addr"].val = "dead" => Removed(n) \/ Removed(m)
      BY <2>3, <2>4, <2>6
    <2> QED
      BY <1>0, <2>4, <2>5, <2>6, <2>7
  <1>12. CASE UNCHANGED vars
    BY <1>12 DEF vars
  <1>13. ASSUME NEW n \in Members, Discover(n) PROVE Marked'
    BY <1>13 DEF Discover
  <1>14. ASSUME NEW n \in Members, AddListed(n) PROVE Marked'
    BY <1>0, <1>14 DEF AddListed, Types
  <1>15. ASSUME NEW n \in Members, PutListed(n) PROVE Marked'
    <2>0. n \in Nodes /\ Store(n, "addr", "live")
      BY <1>15 DEF PutListed, Members
    <2>1. \A m \in Nodes : /\ db'[m]["addr"].val = "dead" => db[m]["addr"].val = "dead"
                           /\ db'[m]["removed"] = db[m]["removed"]
      BY <1>0, <2>0, StoreEffect
    <2>2. UNCHANGED <<peers, admin>>
      BY <1>15 DEF PutListed
    <2> QED
      BY <1>0, <2>1, <2>2
  <1>16. ASSUME NEW n \in Members, AddListedAgain(n) PROVE Marked'
    BY <1>0, <1>16 DEF AddListedAgain, Types
  <1> QED
    BY <1>1, <1>2, <1>3, <1>4, <1>5, <1>6, <1>7, <1>8, <1>9, <1>10, <1>11, <1>12,
       <1>13, <1>14, <1>15, <1>16, AdminsAssumption, Zenon DEF Next, Members

(* The record and what is known of its tombstone stay as they are, and no  *)
(* node that has collected the tombstone gains a peer.                     *)
LEMMA DeletedSame ==
    ASSUME Deleted, UNCHANGED ended,
           \A n \in Nodes : /\ db'[n]["inst"] = db[n]["inst"]
                            /\ known'[n]["inst"] = known[n]["inst"]
                            /\ peers'[n] \subseteq peers[n]
    PROVE  Deleted'
  BY DEF Deleted

(* A merge brings the record back to nobody who has seen its deletion: two *)
(* sides of which one has it and the other has collected its tombstone do  *)
(* not meet, because the one with the record would have to be Victim, and  *)
(* the other has the marker.                                               *)
LEMMA NoMeeting ==
    ASSUME Types, Marked, Deleted, NEW n \in Nodes, NEW m \in Nodes \ {n}, Exchange(n, m)
    PROVE  ~({db[n]["inst"].val, db[m]["inst"].val} = {"live", "none"})
  <1> SUFFICES ASSUME NEW a \in {n, m}, NEW b \in {n, m}, a # b,
                      db[a]["inst"].val = "none", db[b]["inst"].val = "live"
               PROVE  FALSE
    OBVIOUS
  <1>1. a \in Members /\ b \notin ended /\ b \notin peers[a]
    BY DEF Deleted, Members
  <1>2. b = Victim
    BY <1>1 DEF Marked, Members
  <1>3. Removed(a)
    BY <1>1, <1>2 DEF Marked
  <1>4. m \in peers[n] /\ ~Refused(m, n)
    BY DEF Exchange
  <1> QED
    BY <1>1, <1>2, <1>3, <1>4 DEF Refused

(* As long as Victim has not come back, a list adds nobody who is not a    *)
(* peer already.                                                           *)
LEMMA SamePeers ==
    ASSUME Types, Marked, again = "no", again' = "no", NEW n \in Members,
           peers' = [peers EXCEPT ![n] = @ \cup {Victim}],
           again' = Relisted(n) \/ again' = Crossed(n)
    PROVE  UNCHANGED peers
  <1>1. ~Removed(n)
    BY DEF Relisted, Crossed
  <1>2. Victim \in peers[n] /\ n \in Nodes
    BY <1>1 DEF Marked, Members
  <1> QED
    BY <1>2 DEF Types

LEMMA DeletedStep ==
    ASSUME Types, again = "no", Marked, Deleted, again' = "no", [Next]_vars
    PROVE  Deleted'
  <1>0. /\ {"inst", "addr", "removed"} = Keys /\ Members \subseteq Nodes
        /\ \A n \in Nodes, k \in Keys : /\ db[n][k].stamp \in Nat
                                        /\ db[n][k].val \in {"none", "live", "dead"}
    BY DEF Keys, Members, Types, Versions
  <1>1. ASSUME NEW n \in Members, DeleteInstance(n) PROVE Deleted'
    <2>1. /\ db'[n]["inst"].val = "dead" /\ db'[n]["inst"].stamp = db[n]["inst"].stamp + 1
          /\ known'[n]["inst"] = {}
      BY <1>0, <1>1, StoreEffect DEF DeleteInstance, Put
    <2>2. \A m \in Nodes \ {n} : db'[m]["inst"] = db[m]["inst"] /\ known'[m]["inst"] = known[m]["inst"]
      BY <1>0, <1>1, StoreEffect DEF DeleteInstance, Put
    <2>3. db[n]["inst"].val = "live" /\ ended' = ended \cup {n} /\ UNCHANGED peers
      BY <1>1 DEF DeleteInstance
    <2> QED
      BY <1>0, <2>1, <2>2, <2>3 DEF Deleted
  <1>2. ASSUME NEW n \in Members, Mark(n) PROVE Deleted'
    <2>1. \A m \in Nodes : db'[m]["inst"] = db[m]["inst"] /\ known'[m]["inst"] = known[m]["inst"]
      BY <1>0, <1>2, StoreEffect DEF Mark, Put
    <2> QED
      BY <1>2, <2>1, DeletedSame DEF Mark
  <1>3. ASSUME NEW n \in Members, DropPeer(n) PROVE Deleted'
    BY <1>3, DeletedSame DEF DropPeer, Types
  <1>4. ASSUME NEW n \in Members, DeleteAddress(n) PROVE Deleted'
    <2>1. \A m \in Nodes : db'[m]["inst"] = db[m]["inst"] /\ known'[m]["inst"] = known[m]["inst"]
      BY <1>0, <1>4, StoreEffect DEF DeleteAddress, Put
    <2> QED
      BY <1>4, <2>1, DeletedSame DEF DeleteAddress
  <1>5. ASSUME NEW n \in Members, ClearMark(n) PROVE Deleted'
    BY <1>5 DEF ClearMark
  <1>6. ASSUME NEW n \in Members, PutAddress(n) PROVE Deleted'
    BY <1>0, <1>6 DEF PutAddress, Marked
  <1>7. ASSUME NEW n \in Members, AddPeer(n) PROVE Deleted'
    BY <1>0, <1>7 DEF AddPeer, Marked
  <1>8. ASSUME NEW n \in Members, Collect(n) PROVE Deleted'
    <2>1. \A m \in Nodes :
            IF m = n /\ Collectable(n, "inst")
            THEN db'[m]["inst"].val = "none" /\ db'[m]["inst"].stamp = 0 /\ known'[m]["inst"] = {}
            ELSE db'[m]["inst"] = db[m]["inst"] /\ known'[m]["inst"] = known[m]["inst"]
      BY <1>0, <1>8, CollectEffect
    <2>2. Collectable(n, "inst") => db[n]["inst"].val = "dead" /\ peers[n] \subseteq ended
      BY <1>0 DEF Collectable, Deleted
    <2>3. n # Victim /\ UNCHANGED <<peers, ended>>
      BY <1>8 DEF Members, Collect
    <2> QED
      BY <1>0, <2>1, <2>2, <2>3 DEF Deleted
  <1>9. ASSUME NEW n \in Members, Prune(n) PROVE Deleted'
    BY <1>9, DeletedSame DEF Prune, Types
  <1>10. ASSUME NEW n \in Nodes, Crash(n) PROVE Deleted'
    <2>1. CASE Store(n, "addr", "live")
      <3>1. \A m \in Nodes : db'[m]["inst"] = db[m]["inst"] /\ known'[m]["inst"] = known[m]["inst"]
        BY <1>0, <2>1, StoreEffect
      <3>2. UNCHANGED peers
        BY <1>10, SamePeers DEF Crash, Members
      <3> QED
        BY <1>10, <3>1, <3>2, DeletedSame DEF Crash
    <2>2. CASE UNCHANGED <<db, known, peers, again>>
      BY <1>10, <2>2, DeletedSame DEF Crash
    <2> QED
      BY <1>10, <2>1, <2>2 DEF Crash
  <1>11. ASSUME NEW n \in Nodes, NEW m \in Nodes \ {n}, Exchange(n, m) PROVE Deleted'
    <2> DEFINE v == Merge(n, m)["inst"]
    <2>1. v = Newest(db[m]["inst"], db[n]["inst"])
      BY <1>0 DEF Merge
    <2>2. \A a \in Nodes : db'[a]["inst"] = IF a \in {n, m} THEN v ELSE db[a]["inst"]
      BY <1>0, <1>11, ExchangeEffect
    <2>3. \A a \in Nodes : /\ a \notin {n, m} => known'[a]["inst"] = known[a]["inst"]
                           /\ a \in {n, m} => /\ known'[a]["inst"] \subseteq known[a]["inst"] \cup {n, m}
                                              /\ v.val # "dead" => known'[a]["inst"] = {}
      BY <1>0, <1>11, ExchangeEffect
    <2>4. ended' = IF v.val = "dead" THEN ended \cup {n, m} ELSE ended
      BY <1>11, ExchangeEffect
    <2>5. \A a \in Nodes : peers'[a] = IF a = m THEN peers[a] \cup {n} ELSE peers[a]
      BY <1>11 DEF Exchange, Types
    <2>6. v \in {db[n]["inst"], db[m]["inst"]}
      BY <2>1 DEF Newest
    <2> HIDE DEF v
    <2>7. v.val = "dead" <=> db[n]["inst"].val = "dead" \/ db[m]["inst"].val = "dead"
      BY <1>0, <2>1 DEF Newest, Later, Deleted
    <2>8. v.val # "dead" => v.val = db[n]["inst"].val /\ v.val = db[m]["inst"].val
      BY <1>0, <1>11, <2>6, <2>7, NoMeeting
    <2>9. ASSUME NEW a \in Nodes
          PROVE  /\ db'[a]["inst"].val = "none" => db'[a]["inst"].stamp = 0
                 /\ db'[a]["inst"].val = "live" => db'[a]["inst"].stamp = 1
                 /\ db'[a]["inst"].val = "dead" => db'[a]["inst"].stamp > 1
                 /\ (a \notin ended') = (db'[a]["inst"].val = "live")
      BY <2>2, <2>4, <2>6, <2>8 DEF Deleted
    <2>10. ASSUME NEW a \in Nodes
           PROVE  /\ known'[a]["inst"] \subseteq ended'
                  /\ db'[a]["inst"].val = "none" => a # Victim /\ peers'[a] \subseteq ended'
      <3>1. known'[a]["inst"] \subseteq ended'
        BY <2>3, <2>4, <2>8 DEF Deleted
      <3>2. ASSUME db'[a]["inst"].val = "none" PROVE a # Victim /\ peers[a] \subseteq ended'
        BY <2>2, <2>4, <2>8, <3>2 DEF Deleted
      <3>3. db'[a]["inst"].val = "none" /\ a = m => n \in ended'
        BY <2>2, <2>4, <2>8 DEF Deleted
      <3> QED
        BY <2>5, <3>1, <3>2, <3>3
    <2> QED
      BY <2>9, <2>10 DEF Deleted
  <1>12. CASE UNCHANGED vars
    BY <1>12, DeletedSame DEF vars
  <1>13. ASSUME NEW n \in Members, Discover(n) PROVE Deleted'
    BY <1>13, DeletedSame DEF Discover
  <1>14. ASSUME NEW n \in Members, AddListed(n) PROVE Deleted'
    <2>1. UNCHANGED peers
      BY <1>14, SamePeers DEF AddListed
    <2> QED
      BY <1>14, <2>1, DeletedSame DEF AddListed
  <1>15. ASSUME NEW n \in Members, PutListed(n) PROVE Deleted'
    <2>1. \A m \in Nodes : db'[m]["inst"] = db[m]["inst"] /\ known'[m]["inst"] = known[m]["inst"]
      BY <1>0, <1>15, StoreEffect DEF PutListed
    <2> QED
      BY <1>15, <2>1, DeletedSame DEF PutListed
  <1>16. ASSUME NEW n \in Members, AddListedAgain(n) PROVE Deleted'
    <2>1. UNCHANGED peers
      BY <1>16, SamePeers DEF AddListedAgain
    <2> QED
      BY <1>16, <2>1, DeletedSame DEF AddListedAgain
  <1> QED
    BY <1>1, <1>2, <1>3, <1>4, <1>5, <1>6, <1>7, <1>8, <1>9, <1>10, <1>11, <1>12,
       <1>13, <1>14, <1>15, <1>16, AdminsAssumption, Zenon DEF Next, Members

-----------------------------------------------------------------------------
(* Victim's first return is not undone: "again" stays "no" only from "no", *)
(* and "crossed" stays.                                                    *)
LEMMA AgainStep ==
    ASSUME [Next]_vars
    PROVE  (again' = "no" => again = "no") /\ (again' # "crossed" => again # "crossed")
  BY DEF Next, vars, DeleteInstance, Mark, DropPeer, DeleteAddress, ClearMark, PutAddress, AddPeer,
         Discover, AddListed, PutListed, AddListedAgain, Relisted, Crossed, Collect, Prune, Crash, Exchange

(* The marker is kept, the deletion is final among those who have seen it, *)
(* and a marked node is dropped, over every interleaving of removals,      *)
(* merges, collections, prunings and crashes.                              *)
THEOREM InvariantHolds == Spec => []Inv
  <1>1. Inv /\ [Next]_vars => Inv'
    BY TypesStep, MarkedStep, DeletedStep, DroppedStep, AgainStep DEF Inv
  <1> QED
    BY InitInv, <1>1, PTL DEF Spec

(* A deleted record does not come back on a member that knew of the        *)
(* deletion before the removed node is re-admitted or a bootnode's list    *)
(* brings it to a member that has the marker.                              *)
THEOREM NoResurrectionHolds == Spec => []NoResurrection
  <1>1. Inv => NoResurrection
    BY DEF Inv, Deleted, NoResurrection, Stays, Members
  <1> QED
    BY <1>1, InvariantHolds, PTL

(* A node whose watchers are at rest does not sync to a node it has marked *)
(* as removed, with lists of bootnodes at every start and in the discovery *)
(* task, unless a register_peer_url crossed the marker.                    *)
THEOREM RemovedStaysOutHolds == Spec => []RemovedStaysOut
  <1>1. Inv => RemovedStaysOut
    BY DEF Inv, Dropped, RemovedStaysOut, MarkedNotPeer
  <1> QED
    BY <1>1, InvariantHolds, PTL
=============================================================================
