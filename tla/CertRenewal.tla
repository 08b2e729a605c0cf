----------------------------- MODULE CertRenewal -----------------------------
(***************************************************************************)
(* Certificates of a cluster of gateway nodes: renewals under a lease per  *)
(* domain, the shared ACME account under a lease of its own, and what each *)
(* node's TLS resolver serves.                                             *)
(*                                                                         *)
(* Leases, certificates and the account are keys of the replicated store,  *)
(* whose last writer wins.  A lease is taken and released under the write  *)
(* guard of the node's own replica, so each of these is one step; every    *)
(* await of a renewal is a step boundary.  A task is the periodic renewal, *)
(* the watcher of new domains or an admin request.                         *)
(***************************************************************************)
EXTENDS LwwStore

CONSTANTS Nodes,      \* numbers: they break ties between writes, 0 among them
          Domains, Acme, \* what a lease guards: a domain, or the ACME account
          Tasks, NodeOf, \* the tasks, and the node each of them runs on
          Scenarios,  \* bound: the operations, the tasks, the kinds of faults and whether there
                      \* is an account at first
          Reloaders,  \* who rebuilds the resolver: the watcher, the admin
          RenewAfter, \* age at which a certificate is renewed
          Life,       \* age at which it has expired
          Timeout,    \* RENEW_LOCK_TIMEOUT_SECS, ROTATION_LOCK_TIMEOUT_SECS
          MaxClock, MaxOps, MaxFaults, \* bounds: time, operations, failures and forced releases
          None

ASSUME TasksAssumption == Nodes \subseteq Nat /\ NodeOf \in [Tasks -> Nodes]
ASSUME LeasesAssumption == Acme \notin Domains
ASSUME ScenariosAssumption == \A s \in Scenarios : s.tasks \subseteq Tasks
ASSUME BoundsAssumption == /\ {RenewAfter, MaxClock, MaxOps, MaxFaults} \subseteq Nat
                           /\ {Life, Timeout} \subseteq Nat \ {0}

VARIABLES clock, ops, faults, scenario,
          issued,  \* number of accounts and certificates the CA has given out
          db,      \* per node: the version and the value of each lock and each datum
          served,  \* the certificates in each node's resolver
          dirty,   \* the watcher of cert/ has a change to handle ("yes"), or has missed one
          reload,  \* the certificates that a reload has loaded and found valid
          task,    \* what each task does
          weak,    \* ghost: locks written by a node that had not seen the latest version
          overrun  \* ghost: the account's lease was taken from a task still at work, or
                   \* before what its last holder published arrived

vars == <<clock, ops, issued, faults, scenario, db, served, dirty, reload, task, weak, overrun>>

Leases == Domains \cup {Acme}
Data == [no: 1..(2 * MaxOps + 1), at: 0..MaxClock]
Locks == [at: 0..MaxClock, by: Nodes]
Steps == {"idle", "decided", "locked", "register", "adopt", "publish", "free account",
          "order", "attest", "update", "swap", "save", "release"}

ASSUME NoneAssumption ==
    None \notin Locks /\ None \notin [Domains -> [no: Nat, at: Nat] \cup {None}]

Idle == [pc |-> "idle", op |-> "renew", dom |-> None, forced |-> FALSE, lock |-> None,
         alock |-> None, new |-> None, seen |-> None,
         ok |-> TRUE, own |-> FALSE]

TypeOK ==
    /\ clock \in 0..MaxClock /\ ops \in 0..MaxOps /\ issued \in 1..(2 * MaxOps + 1) /\ faults \in 0..MaxFaults
    /\ \A n \in Nodes, x \in Leases :
         db[n].lock[x].val \in Locks \cup {None} /\ db[n].data[x].val \in Data \cup {None}
    /\ served \in [Nodes -> [Domains -> Data \cup {None}]]
    /\ dirty \in [Nodes -> {"no", "yes", "missed"}] /\ weak \subseteq Leases /\ overrun \in BOOLEAN
    /\ \A t \in Tasks : /\ task[t].pc \in Steps /\ task[t].dom \in Domains \cup {None}
                        /\ task[t].lock \in Locks \cup {None} /\ task[t].alock \in Locks \cup {None}

(* The nodes have no certificates; the cluster has an account, or has none *)
(* yet and the first operation that needs one registers it.                *)
Init ==
    LET account == [no |-> 1, at |-> 0]
        fresh == [x \in Leases |-> Unwritten(None)]
        known == [x \in Leases |-> Unwritten(IF x = Acme /\ scenario.account THEN account ELSE None)]
    IN  /\ scenario \in Scenarios
        /\ clock = 0 /\ ops = 0 /\ issued = 1 /\ faults = 0
        /\ db = [n \in Nodes |-> [lock |-> fresh, data |-> known]]
        /\ served = [n \in Nodes |-> [d \in Domains |-> None]]
        /\ dirty = [n \in Nodes |-> "no"] /\ reload = [n \in Nodes |-> [r \in Reloaders |-> None]]
        /\ task = [t \in Tasks |-> Idle] /\ weak = {} /\ overrun = FALSE

-----------------------------------------------------------------------------
(* Writes to the store.  Only the keys of domains are watched.             *)
Put(n, kind, x, val) ==
    /\ db' = [db EXCEPT ![n][kind][x] = Written(@, n, val)]
    /\ dirty' = [dirty EXCEPT ![n] = IF x \in Domains THEN "yes" ELSE @]
    /\ weak' = IF kind = "lock" /\ \E m \in Nodes : Later(db[m].lock[x], db[n].lock[x])
               THEN weak \cup {x} ELSE weak

Read(n, kind, x) == db[n][kind][x].val

Merged(n, m) == [k \in {"lock", "data"} |-> [x \in Leases |-> Newest(db[m][k][x], db[n][k][x])]]
Differ(a, b) == \E x \in Domains : a.lock[x] # b.lock[x] \/ a.data[x] # b.data[x]

Sync(n, m) ==
    LET new == Merged(n, m)
    IN  /\ new # db[n] /\ db' = [db EXCEPT ![n] = new]
        /\ dirty' = [dirty EXCEPT ![n] = IF Differ(new, db[n]) THEN "yes" ELSE @]
        /\ UNCHANGED <<clock, ops, scenario, issued, faults, served, reload, task, weak, overrun>>

(* try_acquire_lock: free, or held for longer than the timeout.            *)
Free(n, x) == Read(n, "lock", x) # None => clock >= Read(n, "lock", x).at + Timeout

Acquire(n, x) == Put(n, "lock", x, [at |-> clock, by |-> n])

(* release_lock: refused when the key holds another value; a missing lock  *)
(* is deleted once more.                                                   *)
(* Mutant: the lock is deleted whoever holds it.                           *)
MayReleaseAny(n, x, lock) == TRUE

MayRelease(n, x, lock) == Read(n, "lock", x) \in {None, lock}

Release(n, x, lock) ==
    IF MayRelease(n, x, lock) THEN Put(n, "lock", x, None) ELSE UNCHANGED <<db, dirty, weak>>

-----------------------------------------------------------------------------
(* Steps of a task.  n is its node, s its state.                           *)
Do(t, pc) == task' = [task EXCEPT ![t].pc = pc]
At(t, pc) == task[t].pc = pc
Starts(t, op) == At(t, "idle") /\ op \in scenario.ops /\ t \in scenario.tasks
Same == UNCHANGED <<clock, ops, scenario, served, reload, overrun>>
Start == ops < MaxOps /\ ops' = ops + 1 /\ UNCHANGED <<clock, scenario, served, reload, overrun>>

(* A failure of one kind: the CA or the attestation, the operator's forced *)
(* release, or a crash.                                                    *)
Fault(kind) == kind \in scenario.faults /\ faults < MaxFaults /\ faults' = faults + 1
NoFault == faults' = faults

(* try_renew: the certificate is looked at before the lock is taken.       *)
Due(n, d) == Read(n, "data", d) # None => clock >= Read(n, "data", d).at + RenewAfter

Decide(t, d, forced) ==
    /\ Starts(t, "renew") /\ (~forced => Due(NodeOf[t], d))
    /\ task' = [task EXCEPT ![t].pc = "decided", ![t].dom = d, ![t].forced = ~Due(NodeOf[t], d)]
    /\ Start /\ UNCHANGED <<db, dirty, weak, issued, faults>>

(* try_acquire_cert_lock, or another node is renewing.                     *)
TakeLock(t) ==
    LET n == NodeOf[t]  d == task[t].dom
    IN  /\ At(t, "decided")
        /\ IF Free(n, d)
           THEN /\ Acquire(n, d)
                /\ task' = [task EXCEPT ![t].pc = "locked", ![t].lock = [at |-> clock, by |-> n]]
           ELSE task' = [task EXCEPT ![t] = Idle] /\ UNCHANGED <<db, dirty, weak>>
        /\ Same /\ UNCHANGED <<issued, faults>>

(* get_or_create_acme_client: the stored account, or one to be registered. *)
Client(t) ==
    /\ At(t, "locked")
    /\ Do(t, IF Read(NodeOf[t], "data", Acme) # None THEN "order" ELSE "register")
    /\ Same /\ UNCHANGED <<db, dirty, weak, issued, faults>>

(* rotate_acme_credentials, and set_caa_all, which first registers an      *)
(* account if there is none.                                               *)
Admin(t, op) ==
    /\ Starts(t, op)
    /\ op \in {"ensure", "caa"} => (op = "caa") = (Read(NodeOf[t], "data", Acme) # None)
    /\ task' = [task EXCEPT ![t].pc = "register", ![t].op = op]
    /\ Start /\ UNCHANGED <<db, dirty, weak, issued, faults>>

(* acquire_acme_lock, which fails the operation when it is held.           *)
TakeAccount(t) ==
    LET n == NodeOf[t]
        next == [renew |-> "adopt", ensure |-> "adopt", rotate |-> "publish", caa |-> "free account"]
    IN  /\ At(t, "register")
        /\ IF Free(n, Acme)
           THEN /\ Acquire(n, Acme)
                /\ task' = [task EXCEPT ![t].pc = next[task[t].op], ![t].alock = [at |-> clock, by |-> n]]
                /\ overrun' = \/ overrun \/ \E u \in Tasks : task[u].alock # None
                              \/ \E m \in Nodes : Later(db[m].data[Acme], db[n].data[Acme])
           ELSE /\ task' = [task EXCEPT ![t].pc = "release", ![t].ok = FALSE]
                /\ UNCHANGED <<db, dirty, weak, overrun>>
        /\ UNCHANGED <<clock, ops, scenario, issued, faults, served, reload>>

(* register_or_adopt_account: the record is read again under the lock.     *)
(* Mutant: it is not.                                                      *)
AdoptedNever(n) == FALSE

Adopted(n) == Read(n, "data", Acme) # None

Adopt(t) ==
    /\ At(t, "adopt") /\ Do(t, IF Adopted(NodeOf[t]) THEN "free account" ELSE "publish")
    /\ Same /\ UNCHANGED <<db, dirty, weak, issued, faults>>

(* The CA registers an account, or does not, and the account is published, *)
(* for a first use and, in the midst of its other work, for a rotation.    *)
NewAccount(t) ==
    \/ /\ issued' = issued + 1 /\ NoFault
       /\ Put(NodeOf[t], "data", Acme, [no |-> issued', at |-> clock])
       /\ task' = [task EXCEPT ![t].pc = "free account", ![t].own = TRUE]
    \/ /\ Fault("CA") /\ issued' = issued
       /\ task' = [task EXCEPT ![t].pc = "free account", ![t].ok = FALSE]
       /\ UNCHANGED <<db, dirty, weak>>

Publish(t) == At(t, "publish") /\ NewAccount(t) /\ Same

(* generate_and_save_acme_attestation, whose failure fails a first-use     *)
(* registration and not a rotation, and release_rotation_lock in any case. *)
FreeAccount(t) ==
    LET first == task[t].op \in {"renew", "ensure"}
    IN  /\ At(t, "free account")
        /\ Release(NodeOf[t], Acme, task[t].alock)
        /\ \/ /\ first /\ task[t].ok /\ NoFault
              /\ LET again == task[t].op = "ensure"
                 IN  task' = [task EXCEPT ![t].alock = None,
                                          ![t].pc = IF again THEN "register" ELSE "order",
                                          ![t].op = IF again THEN "caa" ELSE @]
           \/ /\ IF first /\ task[t].ok THEN task[t].own /\ Fault("CA") ELSE NoFault
              /\ task' = [task EXCEPT ![t].pc = "release", ![t].alock = None]
        /\ Same /\ UNCHANGED issued

(* do_renew, do_request_new: an order at the CA, which fails, times out or *)
(* gives a certificate; save_cert_to_kvstore follows without an await.     *)
Order(t) ==
    /\ At(t, "order")
    /\ \/ /\ issued' = issued + 1 /\ NoFault
          /\ task' = [task EXCEPT ![t].pc = "attest", ![t].new = [no |-> issued', at |-> clock]]
          /\ Put(NodeOf[t], "data", task[t].dom, [no |-> issued', at |-> clock])
       \/ Fault("CA") /\ issued' = issued /\ Do(t, "release") /\ UNCHANGED <<db, dirty, weak>>
    /\ Same

(* generate_and_save_attestation; on an error the resolver is not updated. *)
Attest(t) ==
    /\ At(t, "attest")
    /\ \/ NoFault /\ Do(t, "update")
       \/ Fault("CA") /\ Do(t, "release")
    /\ Same /\ UNCHANGED <<db, dirty, weak, issued>>

(* CertStoreBuilder::add_cert refuses a certificate that has expired.  Its *)
(* other refusals, of a chain or a key it cannot parse and of a key that   *)
(* is not the chain's, meet imports alone, which are refused in the same   *)
(* way before they are stored.                                             *)
Accepts(cert) == cert # None /\ clock < cert.at + Life

(* The store that a reload or a start builds from scratch.                 *)
Built(n) == [d \in Domains |-> IF Accepts(Read(n, "data", d)) THEN Read(n, "data", d) ELSE None]

(* CertResolver::update_cert: under its mutex it copies the store it found *)
(* as it is, expired certificates of other domains included, and swaps in  *)
(* the copy with the one certificate changed, if add_cert takes it; else   *)
(* the renewal fails, and the import before anything is stored.  A reload  *)
(* does not take that mutex.                                               *)
Update(t) ==
    /\ At(t, "update") /\ \A u \in Tasks : NodeOf[u] = NodeOf[t] => ~At(u, "swap")
    /\ \/ /\ Accepts(task[t].new)
          /\ task' = [task EXCEPT ![t].pc = "swap", ![t].seen = served[NodeOf[t]]]
       \/ /\ ~Accepts(task[t].new)
          /\ IF task[t].op = "import" THEN task' = [task EXCEPT ![t] = Idle] ELSE Do(t, "release")
    /\ Same /\ UNCHANGED <<db, dirty, weak, issued, faults>>

Swap(t) ==
    /\ At(t, "swap")
    /\ served' = [served EXCEPT ![NodeOf[t]] = [task[t].seen EXCEPT ![task[t].dom] = task[t].new]]
    /\ task' = [task EXCEPT ![t].pc = IF task[t].op = "import" THEN "save" ELSE "release", ![t].seen = None]
    /\ UNCHANGED <<clock, ops, scenario, reload, db, dirty, weak, overrun, issued, faults>>

(* Admin.ImportCert takes no lease: a certificate from elsewhere, of any   *)
(* age, goes into the resolver and then into the store.                    *)
Import(t, d, at) ==
    /\ Starts(t, "import") /\ issued' = issued + 1
    /\ task' = [task EXCEPT ![t] = [Idle EXCEPT !.pc = "update", !.op = "import", !.dom = d,
                                               !.new = [no |-> issued', at |-> at]]]
    /\ Start /\ UNCHANGED <<db, dirty, weak, faults>>

Save(t) ==
    /\ At(t, "save") /\ task' = [task EXCEPT ![t] = Idle]
    /\ Put(NodeOf[t], "data", task[t].dom, task[t].new)
    /\ Same /\ UNCHANGED <<issued, faults>>

(* release_cert_lock regardless of the result.                             *)
Finish(t) ==
    /\ At(t, "release") /\ task' = [task EXCEPT ![t] = Idle]
    /\ IF task[t].lock # None THEN Release(NodeOf[t], task[t].dom, task[t].lock)
       ELSE UNCHANGED <<db, dirty, weak>>
    /\ Same /\ UNCHANGED <<issued, faults>>

-----------------------------------------------------------------------------
(* Admin.ForceReleaseCertLock, on a lock that is there.                    *)
ForceRelease(n, d) ==
    /\ Read(n, "lock", d) # None /\ Fault("operator")
    /\ db' = [db EXCEPT ![n].lock[d] = Written(@, n, None)]
    /\ dirty' = [dirty EXCEPT ![n] = "yes"] /\ weak' = weak \cup {d}
    /\ UNCHANGED <<clock, ops, scenario, issued, served, reload, task, overrun>>

(* reload_all_certs_from_kvstore: woken by a change, or asked by the admin *)
(* (ReloadCert), it loads every certificate, skips those that add_cert     *)
(* refuses, and then replaces the store.                                   *)
ReloadLoad(n, r) ==
    /\ reload[n][r] = None /\ (r = "watcher" => dirty[n] = "yes")
    /\ dirty' = [dirty EXCEPT ![n] = IF r = "admin" /\ @ = "yes" THEN @ ELSE "no"]
    /\ reload' = [reload EXCEPT ![n][r] = Built(n)]
    /\ UNCHANGED <<clock, ops, scenario, issued, faults, db, served, task, weak, overrun>>

(* Mutant: the changes that came while it loaded count as handled.         *)
ReloadSetForgets(n, r) ==
    /\ reload[n][r] # None /\ reload' = [reload EXCEPT ![n][r] = None]
    /\ served' = [served EXCEPT ![n] = reload[n][r]] /\ dirty' = [dirty EXCEPT ![n] = "no"]
    /\ UNCHANGED <<clock, ops, scenario, issued, faults, db, task, weak, overrun>>

ReloadSet(n, r) ==
    /\ reload[n][r] # None /\ reload' = [reload EXCEPT ![n][r] = None]
    /\ served' = [served EXCEPT ![n] = reload[n][r]]
    /\ UNCHANGED <<clock, ops, scenario, issued, faults, db, dirty, task, weak, overrun>>

(* A node stops at any point and starts again with the certificates of its *)
(* replica that add_cert takes; the locks of its tasks stay.               *)
Restarted(n) ==
    /\ task' = [t \in Tasks |-> IF NodeOf[t] = n THEN Idle ELSE task[t]]
    /\ served' = [served EXCEPT ![n] = Built(n)]
    /\ reload' = [reload EXCEPT ![n] = [r \in Reloaders |-> None]]
    /\ UNCHANGED <<clock, ops, scenario, issued, weak, overrun>>

Restart(n) ==
    /\ IF \A t \in Tasks : NodeOf[t] = n => At(t, "idle") THEN NoFault ELSE Fault("crash")
    /\ Restarted(n) /\ dirty' = [dirty EXCEPT ![n] = "no"] /\ UNCHANGED db

(* The certificates are loaded first, then the sync tasks start, then the  *)
(* watcher subscribes: it does not hear of a merge before that.            *)
RestartMisses(n, m) ==
    /\ Fault("crash") /\ Restarted(n) /\ Differ(Merged(n, m), db[n])
    /\ db' = [db EXCEPT ![n] = Merged(n, m)] /\ dirty' = [dirty EXCEPT ![n] = "missed"]

Tick == clock < MaxClock /\ clock' = clock + 1
        /\ UNCHANGED <<ops, scenario, issued, faults, db, served, dirty, reload, task, weak, overrun>>

(* The nodes of the scenario.                                              *)
Up == {NodeOf[t] : t \in scenario.tasks}

Step(t) ==
    \/ TakeLock(t) \/ Client(t) \/ TakeAccount(t) \/ Adopt(t) \/ Publish(t) \/ FreeAccount(t)
    \/ Order(t) \/ Attest(t) \/ Update(t) \/ Swap(t) \/ Save(t) \/ Finish(t)

Next ==
    \/ Tick
    \/ \E t \in Tasks : \/ Step(t)
                        \/ \E d \in Domains, forced \in BOOLEAN : Decide(t, d, forced)
                        \/ \E d \in Domains, at \in 0..clock : Import(t, d, at)
                        \/ \E op \in {"rotate", "ensure", "caa"} : Admin(t, op)
    \/ \E n \in Up : \/ \E m \in Up : Sync(n, m) \/ RestartMisses(n, m)
                     \/ \E d \in Domains : ForceRelease(n, d)
                     \/ \E r \in Reloaders : ReloadLoad(n, r) \/ ReloadSet(n, r)
                     \/ Restart(n)

Spec == Init /\ [][Next]_vars

-----------------------------------------------------------------------------
(* Properties.                                                             *)

Unexpired(lock) == lock # None /\ clock < lock.at + Timeout
Holds(t, x) == IF x = Acme THEN task[t].alock ELSE IF task[t].dom = x THEN task[t].lock ELSE None

(* Until its lease expires, the lease of a working task is the one in its  *)
(* node's replica, so no other task that sees the replica takes it: late   *)
(* holders on any node, crashes and restarts do not delete it.  A node     *)
(* that writes a lock before it has seen the latest version of it, and the *)
(* admin's forced release, may.                                            *)
HolderKeepsLock ==
    \A t \in Tasks, x \in Leases \ weak :
        Unexpired(Holds(t, x)) => Read(NodeOf[t], "lock", x) = Holds(t, x)

(* A task that registers the first account of the cluster finds none when  *)
(* it publishes it, so no registration is lost and none is spent twice -   *)
(* unless a task outlived its lease of the account, or the lease was taken *)
(* in a replication gap.                                                   *)
FirstUseIsFirst ==
    \A t \in Tasks :
        At(t, "publish") /\ task[t].op # "rotate" /\ Acme \notin weak /\ ~overrun
            => Read(NodeOf[t], "data", Acme) = None

(* No renewal, reload or lease of a domain is under way on n.              *)
AtRest(n) ==
    /\ \A r \in Reloaders : reload[n][r] = None
    /\ \A t \in Tasks : NodeOf[t] = n => At(t, "idle")
    /\ \A d \in Domains : Read(n, "lock", d) = None

(* The certificates of n's replica, of which the expired may be missing.   *)
AsStored(n, certs) ==
    \A d \in Domains : \/ certs[d] = Read(n, "data", d)
                       \/ certs[d] = None /\ ~Accepts(Read(n, "data", d))

ServesStored(n) == AsStored(n, served[n])

(* A node at rest whose watcher has handled every change serves each       *)
(* certificate its replica holds and no other, whatever the order in which *)
(* renewals, imports, merges, reloads, restarts and refusals of add_cert   *)
(* took place; one that it does not serve has expired.                     *)
ServedIsStored == \A n \in Nodes : AtRest(n) /\ dirty[n] = "no" => ServesStored(n)

(* The same without the exception for a change the watcher missed: the     *)
(* code does not keep it (README, section 6).                              *)
ServedAfterStart == \A n \in Nodes : AtRest(n) /\ dirty[n] # "yes" => ServesStored(n)

(* "Try to renew certificate for a specific domain if needed": an order    *)
(* that nobody forced is for a certificate that is due.  The code does not *)
(* keep it: the need is decided before the lock (README, section 6).       *)
OrderedIfDue ==
    \A t \in Tasks : At(t, "order") /\ ~task[t].forced => Due(NodeOf[t], task[t].dom)

(* "mutual exclusion within a node": no two tasks of one node hold an      *)
(* unexpired lease of one domain that nobody force-released.  The code     *)
(* does not keep it when another node took the lock in a replication gap.  *)
NodeExclusive ==
    \A t, u \in Tasks, d \in Domains :
        t # u /\ NodeOf[t] = NodeOf[u] => ~(Unexpired(Holds(t, d)) /\ Unexpired(Holds(u, d)))
=============================================================================
