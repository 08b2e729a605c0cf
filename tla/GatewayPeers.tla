---------------------------- MODULE GatewayPeers ----------------------------
(***************************************************************************)
(* Membership of the gateway cluster: removing a node, re-admitting it,    *)
(* and collecting tombstones, which is what makes a removed node that      *)
(* comes back with its old data dangerous.                                 *)
(*                                                                         *)
(* Every node has a replica of the keys, a set of sync peers and watchers  *)
(* that prune that set.  The store itself (wavekv) is modelled from how    *)
(* the gateway uses it: an exchange merges both replicas, last writer      *)
(* wins, and a tombstone may be collected once every sync peer is known to *)
(* have it.  The node an operator removes is Victim; it is not told, and   *)
(* keeps running or restarts with the data it had.                         *)
(*                                                                         *)
(* A node that starts fetches the list of nodes from a bootnode and adds   *)
(* whom it finds there; while it knows of no other node's status it asks   *)
(* again every ten seconds.  Neither looks at the removal markers.         *)
(***************************************************************************)
EXTENDS LwwStore

CONSTANTS Nodes,   \* numbers: they break ties between writes, 0 among them
          Victim,  \* the node that is removed
          Admins,  \* the members an operator uses
          Bootnodes, \* the nodes some node has as its bootnode
          Statuses,  \* the members with a status record: one that was removed and
                     \* re-admitted has none before it restarts
          MaxWrites, MaxCrashes \* bounds: operators' writes; crashes and lists of the discovery

ASSUME VictimAssumption == Nodes \subseteq Nat /\ Victim \in Nodes
ASSUME AdminsAssumption == Admins \subseteq Nodes \ {Victim}
ASSUME BootnodesAssumption == Bootnodes \subseteq Nodes /\ Statuses \subseteq Nodes \ {Victim}
ASSUME BoundsAssumption == MaxWrites \in Nat /\ MaxCrashes \in Nat

VARIABLES db,     \* every node's version of every key
          known,  \* the peers a node knows to have its tombstone of a key
          peers,  \* the sync peers of every node
          dirty,  \* the watchers of addresses and of removal markers have a change to handle
          admin,  \* what RemoveNode or SetNodeUrl of a node does next
          boot,   \* what the discovery task of a node does next
          writes, crashes,
          ended,  \* ghost: the nodes that have seen the instance's deletion
          again   \* ghost: how Victim came back: "listed", a bootnode's list brought it to a
                  \* node with the marker; "yes", it was re-admitted; "crossed", and that or
                  \* a list went over a marker that had been pruned for

vars == <<db, known, peers, dirty, admin, boot, writes, crashes, ended, again>>

Members == Nodes \ {Victim}
(* An instance's record; Victim's address; the marker of Victim's removal. *)
Keys == {"inst", "addr", "removed"}

TypeOK ==
    /\ \A n \in Nodes, k \in Keys : db[n][k].val \in {"none", "live", "dead"}
    /\ known \in [Nodes -> [Keys -> SUBSET Nodes]] /\ peers \in [Nodes -> SUBSET Nodes]
    /\ dirty \in [Nodes -> BOOLEAN] /\ writes \in 0..MaxWrites /\ crashes \in 0..MaxCrashes
    /\ admin \in [Nodes -> {"idle", "drop", "delete", "address", "add"}]
    /\ boot \in [Nodes -> {"idle", "listed", "address", "add"}]
    /\ ended \subseteq Nodes /\ again \in {"no", "listed", "yes", "crossed"}

(* A cluster at rest, with one registered instance.                        *)
Init ==
    LET live == Written(Unwritten("none"), 0, "live")
    IN  /\ db = [n \in Nodes |-> [k \in Keys |-> IF k = "removed" THEN Unwritten("none") ELSE live]]
        /\ known = [n \in Nodes |-> [k \in Keys |-> {}]]
        /\ peers = [n \in Nodes |-> Nodes \ {n}]
        /\ dirty = [n \in Nodes |-> FALSE] /\ admin = [n \in Nodes |-> "idle"]
        /\ boot = [n \in Nodes |-> "idle"]
        /\ writes = 0 /\ crashes = 0 /\ ended = {} /\ again = "no"

-----------------------------------------------------------------------------
Watched == {"addr", "removed"}

Store(n, k, val) ==
    /\ db' = [db EXCEPT ![n][k] = Written(@, n, val)]
    /\ known' = [known EXCEPT ![n][k] = {}]
    /\ dirty' = [dirty EXCEPT ![n] = @ \/ (n # Victim /\ k \in Watched)]

Put(n, k, val) == writes < MaxWrites /\ writes' = writes + 1 /\ Store(n, k, val)

(* is_peer_removed.                                                        *)
Removed(n) == db[n]["removed"].val = "live"

(* sync_delete_instance, on a member.                                      *)
DeleteInstance(n) ==
    /\ db[n]["inst"].val = "live" /\ Put(n, "inst", "dead") /\ ended' = ended \cup {n}
    /\ UNCHANGED <<peers, admin, boot, crashes, again>>

-----------------------------------------------------------------------------
(* remove_node: the marker first, then the peer set of this node, then the *)
(* tombstones.                                                             *)
Mark(n) ==
    /\ admin[n] = "idle" /\ Put(n, "removed", "live")
    /\ admin' = [admin EXCEPT ![n] = "drop"]
    /\ UNCHANGED <<peers, boot, crashes, ended, again>>

DropPeer(n) ==
    /\ admin[n] = "drop" /\ admin' = [admin EXCEPT ![n] = "delete"]
    /\ peers' = [peers EXCEPT ![n] = @ \ {Victim}]
    /\ UNCHANGED <<db, known, dirty, boot, writes, crashes, ended, again>>

(* sync_remove_node.                                                       *)
DeleteAddress(n) ==
    /\ admin[n] = "delete" /\ Put(n, "addr", "dead") /\ admin' = [admin EXCEPT ![n] = "idle"]
    /\ UNCHANGED <<peers, boot, crashes, ended, again>>

(* set_node_url: clear_peer_removed, then register_peer_url, which writes  *)
(* the address and adds the peer.                                          *)
ClearMark(n) ==
    /\ admin[n] = "idle" /\ Put(n, "removed", "dead")
    /\ again' = IF again \in {"no", "listed"} THEN "yes" ELSE again
    /\ admin' = [admin EXCEPT ![n] = "address"]
    /\ UNCHANGED <<peers, boot, crashes, ended>>

PutAddress(n) ==
    /\ admin[n] = "address" /\ Put(n, "addr", "live") /\ admin' = [admin EXCEPT ![n] = "add"]
    /\ UNCHANGED <<peers, boot, crashes, ended, again>>

(* Victim enters the peer set of a node that has the marker: the watchers  *)
(* have a change to handle and will prune it, or they have none.           *)
Relisted(n) == IF Removed(n) /\ again = "no" THEN "listed" ELSE again
Crossed(n) == IF Removed(n) /\ ~dirty[n] THEN "crossed" ELSE Relisted(n)

AddPeer(n) ==
    /\ admin[n] = "add" /\ admin' = [admin EXCEPT ![n] = "idle"]
    /\ peers' = [peers EXCEPT ![n] = @ \cup {Victim}] /\ again' = Crossed(n)
    /\ UNCHANGED <<db, known, dirty, boot, writes, crashes, ended>>

-----------------------------------------------------------------------------
(* get_peers of the bootnode lists Victim: its address is not deleted.     *)
Listed(n) == \E b \in Bootnodes \ {n} : db[b]["addr"].val = "live"

(* start_bootnode_discovery_task asks while it finds no status of another  *)
(* node.  Victim's, which RemoveNode deletes with its address, is left out.*)
Alone(n) == Statuses \subseteq {n}

(* fetch_peers_from_bootnode: the answer, add_peer, and register_peer_url, *)
(* which writes the address and adds the peer once more.  The watchers of  *)
(* the node run meanwhile.                                                 *)
Discover(n) ==
    /\ boot[n] = "idle" /\ Alone(n) /\ Listed(n) /\ boot' = [boot EXCEPT ![n] = "listed"]
    /\ crashes < MaxCrashes /\ crashes' = crashes + 1
    /\ UNCHANGED <<db, known, peers, dirty, admin, writes, ended, again>>

AddListed(n) ==
    /\ boot[n] = "listed" /\ boot' = [boot EXCEPT ![n] = "address"]
    /\ peers' = [peers EXCEPT ![n] = @ \cup {Victim}] /\ again' = Relisted(n)
    /\ UNCHANGED <<db, known, dirty, admin, writes, crashes, ended>>

PutListed(n) ==
    /\ boot[n] = "address" /\ boot' = [boot EXCEPT ![n] = "add"] /\ Store(n, "addr", "live")
    /\ UNCHANGED <<peers, admin, writes, crashes, ended, again>>

AddListedAgain(n) ==
    /\ boot[n] = "add" /\ boot' = [boot EXCEPT ![n] = "idle"]
    /\ peers' = [peers EXCEPT ![n] = @ \cup {Victim}] /\ again' = Crossed(n)
    /\ UNCHANGED <<db, known, dirty, admin, writes, crashes, ended>>

-----------------------------------------------------------------------------
(* prune_removed_peers, by the watcher of addresses or of markers.         *)
(* Mutant: the address tombstone alone says that a node was removed.       *)
PruneDueByAddress(n) == db[n]["addr"].val = "dead"

PruneDue(n) == db[n]["addr"].val = "dead" \/ Removed(n)

Prune(n) ==
    /\ dirty[n] /\ dirty' = [dirty EXCEPT ![n] = FALSE]
    /\ peers' = [peers EXCEPT ![n] = IF PruneDue(n) THEN @ \ {Victim} ELSE @]
    /\ UNCHANGED <<db, known, admin, boot, writes, crashes, ended, again>>

-----------------------------------------------------------------------------
(* handle_sync, handle_push: a removed sender is refused at the door.      *)
(* Mutant: only the peer set is looked at, and for targets only.           *)
RefusedNever(m, n) == FALSE

Refused(m, n) == n = Victim /\ Removed(m)

(* n initiates a sync round with its peer m, whose address it has to know; *)
(* both merge what the other has, and m has n as a peer from then on.      *)
Exchange(n, m) ==
    LET new == [k \in Keys |-> Newest(db[m][k], db[n][k])]
        Knows(a, b) == [k \in Keys |-> IF new[k].val # "dead" THEN {}
                                       ELSE IF new[k] = db[a][k] THEN known[a][k] \cup {b} ELSE {b}]
    IN  /\ m \in peers[n] /\ (m = Victim => db[n]["addr"].val = "live") /\ ~Refused(m, n)
        /\ peers' = [peers EXCEPT ![m] = @ \cup {n}]
        /\ db' = [db EXCEPT ![n] = new, ![m] = new]
        /\ known' = [known EXCEPT ![n] = Knows(n, m), ![m] = Knows(m, n)]
        /\ dirty' = [a \in Nodes |-> dirty[a] \/ (a \in {n, m} \ {Victim} /\ \E k \in Watched : new[k] # db[a][k])]
        /\ ended' = IF new["inst"].val = "dead" THEN ended \cup {n, m} ELSE ended
        /\ UNCHANGED <<admin, boot, writes, crashes, again>>

(* collect_tombstone_garbage: the tombstones every sync peer is known to   *)
(* have are forgotten.                                                     *)
Collectable(n, k) == db[n][k].val = "dead" /\ peers[n] \subseteq known[n][k]

Collect(n) ==
    /\ \E k \in Keys : Collectable(n, k)
    /\ db' = [db EXCEPT ![n] = [k \in Keys |-> IF Collectable(n, k) THEN Unwritten("none") ELSE @[k]]]
    /\ known' = [known EXCEPT ![n] = [k \in Keys |-> IF Collectable(n, k) THEN {} ELSE @[k]]]
    /\ UNCHANGED <<peers, dirty, admin, boot, writes, crashes, ended, again>>

(* A node stops and starts: operations in progress are cut off; it fetches *)
(* the list of its bootnode, if that answers, before it talks to anybody;  *)
(* the watch task, which comes after the first sync rounds, prunes once.   *)
(* The removed node writes its own address again.                          *)
Crash(n) ==
    /\ crashes < MaxCrashes /\ crashes' = crashes + 1
    /\ admin' = [admin EXCEPT ![n] = "idle"] /\ boot' = [boot EXCEPT ![n] = "idle"]
    /\ \/ n = Victim /\ Store(n, "addr", "live") /\ UNCHANGED <<peers, again>>
       \/ /\ n # Victim /\ Listed(n) /\ Store(n, "addr", "live")
          /\ peers' = [peers EXCEPT ![n] = @ \cup {Victim}] /\ again' = Relisted(n)
       \/ /\ n # Victim /\ dirty' = [dirty EXCEPT ![n] = TRUE]
          /\ UNCHANGED <<db, known, peers, again>>
    /\ UNCHANGED <<writes, ended>>

Next ==
    \/ \E n \in Admins : \/ DeleteInstance(n) \/ Mark(n) \/ DropPeer(n) \/ DeleteAddress(n)
                         \/ ClearMark(n) \/ PutAddress(n) \/ AddPeer(n)
    \/ \E n \in Members : \/ Discover(n) \/ AddListed(n) \/ PutListed(n) \/ AddListedAgain(n)
                          \/ Collect(n) \/ Prune(n)
    \/ \E n \in Nodes : Crash(n) \/ \E m \in Nodes \ {n} : Exchange(n, m)

(* Sync rounds and watchers keep running between members (the rounds that  *)
(* one of two members begins are enough), and so do a call of the operator *)
(* up to its next write and a list that has arrived.                       *)
Fairness ==
    /\ \A n \in Admins : WF_vars(DropPeer(n) \/ AddPeer(n))
    /\ \A n \in Members : /\ WF_vars(Prune(n))
                          /\ Alone(n) => WF_vars(AddListed(n) \/ PutListed(n) \/ AddListedAgain(n))
    /\ \A n, m \in Members : n < m => WF_vars(Exchange(n, m))

Spec == Init /\ [][Next]_vars /\ Fairness

-----------------------------------------------------------------------------
(* Properties.                                                             *)

(* A deleted record does not come back on a member that knew of the        *)
(* deletion, although it and others have forgotten the tombstone and the   *)
(* removed node still has the record: the marker keeps that node out, and  *)
(* a lagging member keeps the tombstone alive - until the removed node is  *)
(* re-admitted, or a bootnode that still has its address lists it to a     *)
(* member that has the marker.                                             *)
Stays == \A n \in Members \cap ended : db[n]["inst"].val # "live"

NoResurrection == again = "no" => Stays

(* "Re-admission is an explicit operator decision": the record comes back  *)
(* by that only.  The code does not keep it: a bootnode's list is enough   *)
(* (README, section 6).                                                    *)
OperatorReadmits == again \in {"no", "listed"} => Stays

(* A node whose watchers are at rest does not sync to a node it has marked *)
(* as removed, whichever of the removal's steps it saw, in whatever order  *)
(* with the victim's own restart, and although a list, at a start or later,*)
(* puts the node back for a while.                                         *)
MarkedNotPeer ==
    \A n \in Members : ~dirty[n] /\ boot[n] = "idle" /\ Removed(n) => Victim \notin peers[n]

(* It holds but for one case: a marker that arrives, and is pruned for,    *)
(* between the write of the address and the second change of the peer set  *)
(* by register_peer_url, of a SetNodeUrl or of the discovery task.  It     *)
(* comes from an operator's RemoveNode, or back from the victim when the   *)
(* tombstone of ClearMark has been collected (README, section 6).          *)
RemovedStaysOut == again # "crossed" => MarkedNotPeer

(* The removal reaches every member, also when the node that made it       *)
(* stopped half way: unless the victim is re-admitted, no member has it as *)
(* a sync peer in the end.                                                 *)
RemovalSpreads ==
    (\E n \in Members : Removed(n)) ~>
        (again \in {"yes", "crossed"} \/ \A n \in Members : Victim \notin peers[n])

(* "A node removed by mistake rejoins when it restarts": the code does not *)
(* let it (README, section 6).                                             *)
RestartRejoins ==
    \A n \in Members : db[n]["addr"].val = "live" /\ db[n]["addr"].by = Victim => ~Refused(n, Victim)
=============================================================================
