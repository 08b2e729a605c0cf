-------------------------- MODULE CertRenewalProofs --------------------------
(***************************************************************************)
(* Proofs about CertRenewal, for any nodes, domains, tasks, scenarios,     *)
(* lease times and numbers of failures.                                    *)
(***************************************************************************)
EXTENDS CertRenewal, TLAPS

Fields == {"pc", "op", "dom", "forced", "lock", "alock", "new", "seen", "ok", "own"}
Ops == {"renew", "import", "rotate", "ensure", "caa"}
Published == [no: Nat, at: Nat]
Versions(S) == [stamp: Nat, by: Nat, val: S \cup {None}]
Replicas == [lock: [Leases -> Versions(Locks)], data: [Leases -> Versions(Published)]]

(* What a task holds, and where in its life it can be.                     *)
TaskOK(t) ==
    /\ DOMAIN task[t] = Fields
    /\ task[t].pc \in Steps /\ task[t].op \in Ops
    /\ task[t].lock \in Locks \cup {None} /\ task[t].alock \in Locks \cup {None}
    /\ task[t].new \in Published \cup {None}
    /\ task[t].lock # None => task[t].lock.by = NodeOf[t]
    /\ task[t].alock # None => task[t].alock.by = NodeOf[t]
    /\ At(t, "idle") => task[t] = Idle
    /\ At(t, "decided") => task[t].lock = None
    /\ task[t].pc \in {"adopt", "publish", "free account"} => task[t].alock # None
    /\ task[t].op = "import" => task[t].pc \in {"update", "swap", "save"}
    /\ task[t].pc \in {"decided", "locked", "order", "attest", "update", "swap", "save"} =>
         task[t].op \in {"renew", "import"}
    /\ task[t].op \in {"renew", "import"} /\ ~At(t, "idle") => task[t].dom \in Domains
    /\ task[t].lock # None => task[t].dom \in Domains
    /\ task[t].op = "renew" => task[t].pc \in {"idle", "decided"} \/ task[t].lock # None

Types ==
    /\ clock \in 0..MaxClock /\ issued \in Nat /\ scenario \in Scenarios
    /\ db \in [Nodes -> Replicas]
    /\ DOMAIN task = Tasks

LockAt(n, x) == db[n].lock[x]
Account(n) == db[n].data[Acme]

(* Versions with one stamp are one version; an unexpired lease is in its   *)
(* holder's replica, no node has a later version, and it is nobody else's. *)
OneVersion(x) ==
    \A n, m \in Nodes : LockAt(n, x).stamp = LockAt(m, x).stamp => LockAt(n, x) = LockAt(m, x)

HeldByOne(x) ==
    \A t \in Tasks : Unexpired(Holds(t, x)) =>
        /\ LockAt(NodeOf[t], x).val = Holds(t, x)
        /\ \A m \in Nodes : LockAt(m, x).stamp <= LockAt(NodeOf[t], x).stamp
        /\ \A u \in Tasks \ {t} : Holds(u, x) # Holds(t, x)

LeaseOK(x) == x \notin weak => OneVersion(x) /\ HeldByOne(x)

(* One task at a time is between taking the account's lease and giving it  *)
(* back; until it publishes, no replica has a later account than its own.  *)
AccountOK ==
    ~overrun =>
        /\ \A t, u \in Tasks : task[t].alock # None /\ task[u].alock # None => t = u
        /\ \A t \in Tasks : task[t].pc \in {"adopt", "publish"} =>
             \A m \in Nodes : ~Later(Account(m), Account(NodeOf[t]))
        /\ \A t \in Tasks : At(t, "publish") /\ task[t].op # "rotate" => Account(NodeOf[t]).val = None

Inv == /\ Types /\ AccountOK
       /\ \A t \in Tasks : TaskOK(t)
       /\ \A x \in Leases : LeaseOK(x)

-----------------------------------------------------------------------------
(* The operators of the leases.                                            *)
LEMMA HoldsType ==
    ASSUME NEW t \in Tasks, TaskOK(t), NEW x \in Leases
    PROVE  /\ Holds(t, x) \in Locks \cup {None}
           /\ Holds(t, x) # None => Holds(t, x).by = NodeOf[t]
BY DEF TaskOK, Holds

LEMMA LockTypes ==
    ASSUME Types
    PROVE  \A n \in Nodes, x \in Leases : LockAt(n, x) \in Versions(Locks)
BY DEF Types, LockAt, Replicas

(* Time passes, and leases are dropped, without harm to the others.        *)
LEMMA LeaseKept ==
    ASSUME Types, clock' \in 0..MaxClock, clock' >= clock, NEW x \in Leases, LeaseOK(x),
           \A t \in Tasks : TaskOK(t),
           \A n \in Nodes : LockAt(n, x)' = LockAt(n, x),
           weak \subseteq weak',
           \A t \in Tasks : Holds(t, x)' \in {Holds(t, x), None}
    PROVE  LeaseOK(x)'
<1> SUFFICES ASSUME x \notin weak'
             PROVE  OneVersion(x)' /\ HeldByOne(x)'
  BY DEF LeaseOK
<1>1. OneVersion(x) /\ HeldByOne(x)
  BY DEF LeaseOK
<1>2. OneVersion(x)'
  BY <1>1 DEF OneVersion
<1>3. ASSUME NEW t \in Tasks, Unexpired(Holds(t, x))'
      PROVE  Holds(t, x)' = Holds(t, x) /\ Unexpired(Holds(t, x))
  <2>1. Holds(t, x)' = Holds(t, x) /\ Holds(t, x) # None /\ clock' < Holds(t, x).at + Timeout
    BY <1>3 DEF Unexpired
  <2>2. Holds(t, x) \in Locks
    BY <2>1, HoldsType
  <2> QED
    BY <2>1, <2>2, BoundsAssumption DEF Unexpired, Types, Locks
<1>4. HeldByOne(x)'
  <2>1. ASSUME NEW t \in Tasks, Unexpired(Holds(t, x))'
        PROVE  /\ LockAt(NodeOf[t], x)'.val = Holds(t, x)'
               /\ \A m \in Nodes : LockAt(m, x)'.stamp <= LockAt(NodeOf[t], x)'.stamp
               /\ \A u \in Tasks \ {t} : Holds(u, x)' # Holds(t, x)'
    <3>1. Holds(t, x)' = Holds(t, x) /\ Unexpired(Holds(t, x)) /\ Holds(t, x) # None
      BY <1>3, <2>1 DEF Unexpired
    <3>2. NodeOf[t] \in Nodes
      BY TasksAssumption
    <3> QED
      BY <1>1, <3>1, <3>2 DEF HeldByOne
  <2> QED
    BY <2>1 DEF HeldByOne
<1> QED
  BY <1>2, <1>4

(* A write of a lock by a node that no node is ahead of.                   *)
LEMMA LockWritten ==
    ASSUME Types, NEW n \in Nodes, NEW x \in Leases, NEW val \in Locks \cup {None},
           Put(n, "lock", x, val)
    PROVE  /\ db' \in [Nodes -> Replicas]
           /\ LockAt(n, x)' = [stamp |-> LockAt(n, x).stamp + 1, by |-> n, val |-> val]
           /\ \A m \in Nodes, y \in Leases : m # n \/ y # x => LockAt(m, y)' = LockAt(m, y)
           /\ \A m \in Nodes : db'[m].data = db[m].data
<1>1. db[n].lock[x] \in Versions(Locks)
  BY LockTypes DEF LockAt
<1>2. Written(db[n].lock[x], n, val) \in Versions(Locks)
  BY <1>1, TasksAssumption DEF Written, Versions
<1> QED
  BY <1>2 DEF Types, Replicas, LockAt, Written, Put

LEMMA WrittenOneVersion ==
    ASSUME Types, NEW n \in Nodes, NEW x \in Leases, OneVersion(x), NEW val,
           LockAt(n, x)' = [stamp |-> LockAt(n, x).stamp + 1, by |-> n, val |-> val],
           \A m \in Nodes : m # n => LockAt(m, x)' = LockAt(m, x),
           \A m \in Nodes : ~Later(LockAt(m, x), LockAt(n, x))
    PROVE  /\ OneVersion(x)'
           /\ \A m \in Nodes : LockAt(m, x)'.stamp <= LockAt(n, x)'.stamp
<1>1. \A m \in Nodes : LockAt(m, x) \in Versions(Locks)
  BY LockTypes
<1>2. \A m \in Nodes : LockAt(m, x).stamp <= LockAt(n, x).stamp
  BY <1>1 DEF Later, Versions
<1>3. \A m \in Nodes : m # n => LockAt(m, x)'.stamp < LockAt(n, x)'.stamp
  BY <1>1, <1>2 DEF Versions
<1>4. OneVersion(x)'
  BY <1>1, <1>3 DEF OneVersion, Versions
<1>5. \A m \in Nodes : LockAt(m, x)'.stamp <= LockAt(n, x)'.stamp
  BY <1>1, <1>2, <1>3 DEF Versions
<1> QED
  BY <1>4, <1>5

(* The node of an unexpired holder has the newest version, and so has any  *)
(* node that writes the lock without having missed one.                    *)
LEMMA WriterSeesHolder ==
    ASSUME Types, NEW n \in Nodes, NEW x \in Leases, OneVersion(x), HeldByOne(x),
           \A m \in Nodes : ~Later(LockAt(m, x), LockAt(n, x)),
           NEW t \in Tasks, Unexpired(Holds(t, x))
    PROVE  LockAt(n, x).val = Holds(t, x)
<1>1. \A m \in Nodes : LockAt(m, x) \in Versions(Locks)
  BY LockTypes
<1>2. NodeOf[t] \in Nodes
  BY TasksAssumption
<1>3. LockAt(NodeOf[t], x).stamp = LockAt(n, x).stamp
  BY <1>1, <1>2 DEF HeldByOne, Later, Versions
<1> QED
  BY <1>2, <1>3 DEF HeldByOne, OneVersion

(* A task takes a lease.                                                   *)
LEMMA LeaseTaken ==
    ASSUME Types, NEW n \in Nodes, NEW x \in Leases, LeaseOK(x), \A u \in Tasks : TaskOK(u),
           Free(n, x), Acquire(n, x), clock' = clock,
           NEW t \in Tasks, NodeOf[t] = n, Holds(t, x)' = [at |-> clock, by |-> n],
           \A u \in Tasks \ {t} : Holds(u, x)' = Holds(u, x)
    PROVE  LeaseOK(x)'
<1> DEFINE L == [at |-> clock, by |-> n]
<1> SUFFICES ASSUME x \notin weak'
             PROVE  OneVersion(x)' /\ HeldByOne(x)'
  BY DEF LeaseOK
<1>1. /\ x \notin weak
      /\ \A m \in Nodes : ~Later(LockAt(m, x), LockAt(n, x))
      /\ Put(n, "lock", x, L)
  BY DEF Acquire, Put, LockAt
<1>2. L \in Locks
  BY DEF Locks, Types
<1>3. OneVersion(x) /\ HeldByOne(x)
  BY <1>1 DEF LeaseOK
<1>4. /\ LockAt(n, x)' = [stamp |-> LockAt(n, x).stamp + 1, by |-> n, val |-> L]
      /\ \A m \in Nodes : m # n => LockAt(m, x)' = LockAt(m, x)
  BY <1>1, <1>2, LockWritten
<1>5. OneVersion(x)' /\ \A m \in Nodes : LockAt(m, x)'.stamp <= LockAt(n, x)'.stamp
  BY <1>1, <1>3, <1>4, WrittenOneVersion
<1>6. ASSUME NEW u \in Tasks, Unexpired(Holds(u, x))
      PROVE  FALSE
  <2>1. LockAt(n, x).val = Holds(u, x) /\ Holds(u, x) # None
    BY <1>1, <1>3, <1>6, WriterSeesHolder DEF Unexpired
  <2>2. Holds(u, x) \in Locks
    BY <2>1, HoldsType
  <2> QED
    BY <1>6, <2>1, <2>2, BoundsAssumption DEF Unexpired, Free, Read, LockAt, Types, Locks
<1>7. ASSUME NEW u \in Tasks \ {t}
      PROVE  Holds(u, x) # L
  <2>1. SUFFICES ASSUME Holds(u, x) = L PROVE FALSE
    OBVIOUS
  <2>2. Unexpired(Holds(u, x))
    BY <1>2, <2>1, NoneAssumption, BoundsAssumption DEF Unexpired, Types
  <2> QED
    BY <1>6, <2>2
<1>8. ASSUME NEW u \in Tasks, Unexpired(Holds(u, x))'
      PROVE  u = t
  <2>1. SUFFICES ASSUME u # t PROVE FALSE
    OBVIOUS
  <2>2. Unexpired(Holds(u, x))
    BY <1>8, <2>1 DEF Unexpired
  <2> QED
    BY <1>6, <2>2
<1>9. HeldByOne(x)'
  BY <1>4, <1>5, <1>7, <1>8 DEF HeldByOne
<1> QED
  BY <1>5, <1>9

(* A task gives a lease back, or finds that it is another's.               *)
LEMMA LeaseReleased ==
    ASSUME Types, NEW x \in Leases, LeaseOK(x), \A u \in Tasks : TaskOK(u),
           NEW t \in Tasks, NEW lock \in {None, Holds(t, x)},
           Release(NodeOf[t], x, lock), clock' = clock,
           Holds(t, x)' = None,
           \A u \in Tasks \ {t} : Holds(u, x)' = Holds(u, x)
    PROVE  LeaseOK(x)'
<1> DEFINE n == NodeOf[t]
<1>1. n \in Nodes
  BY TasksAssumption
<1>2. CASE ~MayRelease(n, x, lock)
  <2>1. UNCHANGED <<db, weak>>
    BY <1>2 DEF Release
  <2>2. \A m \in Nodes : LockAt(m, x)' = LockAt(m, x)
    BY <2>1 DEF LockAt
  <2>3. clock' \in 0..MaxClock /\ clock' >= clock /\ weak \subseteq weak'
    BY <2>1 DEF Types
  <2> QED
    BY <2>2, <2>3, LeaseKept
<1>3. CASE MayRelease(n, x, lock)
  <2> SUFFICES ASSUME x \notin weak'
               PROVE  OneVersion(x)' /\ HeldByOne(x)'
    BY DEF LeaseOK
  <2>1. /\ x \notin weak
        /\ \A m \in Nodes : ~Later(LockAt(m, x), LockAt(n, x))
        /\ Put(n, "lock", x, None)
    BY <1>3 DEF Release, Put, LockAt
  <2>2. OneVersion(x) /\ HeldByOne(x)
    BY <2>1 DEF LeaseOK
  <2>3. /\ LockAt(n, x)' = [stamp |-> LockAt(n, x).stamp + 1, by |-> n, val |-> None]
        /\ \A m \in Nodes : m # n => LockAt(m, x)' = LockAt(m, x)
    BY <1>1, <2>1, LockWritten
  <2>4. OneVersion(x)'
    BY <1>1, <2>1, <2>2, <2>3, WrittenOneVersion
  <2>5. ASSUME NEW u \in Tasks, Unexpired(Holds(u, x))'
        PROVE  FALSE
    <3>1. u # t
      BY <2>5 DEF Unexpired
    <3>2. Unexpired(Holds(u, x)) /\ Holds(u, x) # None
      BY <2>5, <3>1 DEF Unexpired
    <3>3. LockAt(n, x).val = Holds(u, x)
      BY <1>1, <2>1, <2>2, <3>2, WriterSeesHolder
    <3>4. LockAt(n, x).val \in {None, lock}
      BY <1>3 DEF MayRelease, Read, LockAt
    <3>5. Holds(t, x) # Holds(u, x)
      BY <2>2, <3>1, <3>2 DEF HeldByOne
    <3> QED
      BY <3>2, <3>3, <3>4, <3>5
  <2> QED
    BY <2>4, <2>5 DEF HeldByOne
<1> QED
  BY <1>2, <1>3

(* A merge moves versions from one node to another.                        *)
LEMMA MergedReplicas ==
    ASSUME Types, NEW n \in Nodes, NEW m \in Nodes, db' = [db EXCEPT ![n] = Merged(n, m)]
    PROVE  /\ db' \in [Nodes -> Replicas]
           /\ \A x \in Leases : LockAt(n, x)' = Newest(LockAt(m, x), LockAt(n, x))
           /\ Account(n)' = Newest(Account(m), Account(n))
           /\ \A k \in Nodes \ {n} : db'[k] = db[k]
<1>1. \A x \in Leases : /\ Newest(db[m].lock[x], db[n].lock[x]) \in Versions(Locks)
                        /\ Newest(db[m].data[x], db[n].data[x]) \in Versions(Published)
  BY DEF Types, Replicas, Newest
<1>2. Merged(n, m) \in Replicas
  BY <1>1 DEF Merged, Replicas
<1> QED
  BY <1>2 DEF Types, Merged, LockAt, Account, Leases

LEMMA LeaseMerged ==
    ASSUME Types, NEW n \in Nodes, NEW m \in Nodes, db' = [db EXCEPT ![n] = Merged(n, m)],
           NEW x \in Leases, LeaseOK(x), \A t \in Tasks : TaskOK(t),
           clock' = clock, weak' = weak,
           \A t \in Tasks : Holds(t, x)' \in {Holds(t, x), None}
    PROVE  LeaseOK(x)'
<1> SUFFICES ASSUME x \notin weak'
             PROVE  OneVersion(x)' /\ HeldByOne(x)'
  BY DEF LeaseOK
<1>1. OneVersion(x) /\ HeldByOne(x)
  BY DEF LeaseOK
<1>2. \A k \in Nodes : LockAt(k, x) \in Versions(Locks)
  BY LockTypes
<1>3. /\ LockAt(n, x)' = LockAt(n, x) \/ LockAt(n, x)' = LockAt(m, x)
      /\ LockAt(n, x)' = LockAt(m, x) => LockAt(m, x).stamp >= LockAt(n, x).stamp
      /\ \A k \in Nodes \ {n} : LockAt(k, x)' = LockAt(k, x)
  <2>1. LockAt(n, x)' = Newest(LockAt(m, x), LockAt(n, x))
    BY MergedReplicas
  <2>2. \A k \in Nodes \ {n} : db'[k] = db[k]
    BY MergedReplicas
  <2> QED
    BY <1>2, <2>1, <2>2 DEF Newest, Later, LockAt, Versions
<1>4. OneVersion(x)'
  BY <1>1, <1>2, <1>3 DEF OneVersion, Versions
<1>5. ASSUME NEW t \in Tasks, Unexpired(Holds(t, x))'
      PROVE  /\ LockAt(NodeOf[t], x)'.val = Holds(t, x)'
             /\ \A k \in Nodes : LockAt(k, x)'.stamp <= LockAt(NodeOf[t], x)'.stamp
             /\ \A u \in Tasks \ {t} : Holds(u, x)' # Holds(t, x)'
  <2>1. Holds(t, x)' = Holds(t, x) /\ Unexpired(Holds(t, x)) /\ Holds(t, x) # None
    BY <1>5 DEF Unexpired
  <2>2. NodeOf[t] \in Nodes
    BY TasksAssumption
  <2>3. /\ LockAt(NodeOf[t], x).val = Holds(t, x)
        /\ \A k \in Nodes : LockAt(k, x).stamp <= LockAt(NodeOf[t], x).stamp
        /\ \A u \in Tasks \ {t} : Holds(u, x) # Holds(t, x)
    BY <1>1, <2>1 DEF HeldByOne
  <2>4. LockAt(NodeOf[t], x)' = LockAt(NodeOf[t], x)
    <3>1. CASE NodeOf[t] # n
      BY <1>3, <2>2, <3>1
    <3>2. CASE NodeOf[t] = n /\ LockAt(n, x)' = LockAt(m, x)
      <4>1. LockAt(m, x).stamp = LockAt(n, x).stamp
        BY <1>2, <1>3, <2>3, <3>2 DEF Versions
      <4> QED
        BY <1>1, <3>2, <4>1 DEF OneVersion
    <3> QED
      BY <1>3, <3>1, <3>2
  <2>5. \A k \in Nodes : LockAt(k, x)'.stamp <= LockAt(NodeOf[t], x)'.stamp
    BY <1>3, <2>3, <2>4
  <2> QED
    BY <2>1, <2>3, <2>4, <2>5
<1> QED
  BY <1>4, <1>5 DEF HeldByOne

(* A certificate or an account is written.                                 *)
LEMMA DataWritten ==
    ASSUME Types, NEW n \in Nodes, NEW x \in Leases, NEW val \in Published \cup {None},
           Put(n, "data", x, val)
    PROVE  /\ db' \in [Nodes -> Replicas] /\ weak' = weak
           /\ \A m \in Nodes : db'[m].lock = db[m].lock
           /\ \A m \in Nodes, y \in Leases : m # n \/ y # x => db'[m].data[y] = db[m].data[y]
<1>1. db[n].data[x] \in Versions(Published)
  BY DEF Types, Replicas
<1>2. Written(db[n].data[x], n, val) \in Versions(Published)
  BY <1>1, TasksAssumption DEF Written, Versions
<1> QED
  BY <1>2 DEF Types, Replicas, Put

-----------------------------------------------------------------------------
(* Steps of one task.                                                      *)
Others(t) == DOMAIN task' = Tasks /\ \A u \in Tasks \ {t} : task'[u] = task[u]

LEMMA OthersKept ==
    ASSUME NEW t \in Tasks, Others(t), \A u \in Tasks : TaskOK(u)
    PROVE  \A u \in Tasks \ {t} : TaskOK(u)' /\ \A x \in Leases : Holds(u, x)' = Holds(u, x)
<1> SUFFICES ASSUME NEW u \in Tasks \ {t}
             PROVE  TaskOK(u)' /\ \A x \in Leases : Holds(u, x)' = Holds(u, x)
  OBVIOUS
<1>1. task'[u] = task[u] /\ TaskOK(u)
  BY DEF Others
<1>2. TaskOK(u)'
  BY <1>1 DEF TaskOK, At
<1>3. \A x \in Leases : Holds(u, x)' = Holds(u, x)
  BY <1>1 DEF Holds
<1> QED
  BY <1>2, <1>3

(* The task keeps its leases, and no lock is written.                      *)
LEMMA LeasesKept ==
    ASSUME Inv, clock' = clock, weak' = weak, \A n \in Nodes : db'[n].lock = db[n].lock,
           NEW t \in Tasks, Others(t),
           task'[t].lock = task[t].lock, task'[t].alock = task[t].alock,
           task[t].lock # None => task'[t].dom = task[t].dom
    PROVE  \A x \in Leases : LeaseOK(x)'
<1> SUFFICES ASSUME NEW x \in Leases PROVE LeaseOK(x)'
  OBVIOUS
<1>1. Types /\ LeaseOK(x) /\ \A u \in Tasks : TaskOK(u)
  BY DEF Inv
<1>2. \A u \in Tasks : Holds(u, x)' \in {Holds(u, x), None}
  <2>1. Holds(t, x)' \in {Holds(t, x), None}
    BY DEF Holds
  <2> QED
    BY <1>1, <2>1, OthersKept
<1>3. \A n \in Nodes : LockAt(n, x)' = LockAt(n, x)
  BY DEF LockAt
<1>4. clock' \in 0..MaxClock /\ clock' >= clock /\ weak \subseteq weak'
  BY <1>1 DEF Types
<1> QED
  BY <1>1, <1>2, <1>3, <1>4, LeaseKept

(* A step that no registration of an account depends on.                   *)
LEMMA AccountKept ==
    ASSUME AccountOK, overrun' = overrun, \A n \in Nodes : Account(n)' = Account(n),
           NEW t \in Tasks, Others(t),
           task'[t].alock \in {task[t].alock, None},
           task'[t].pc \notin {"adopt", "publish"}
    PROVE  AccountOK'
<1> SUFFICES ASSUME ~overrun' PROVE AccountOK'
  BY DEF AccountOK
<1>1. \A u, v \in Tasks : task'[u].alock # None /\ task'[v].alock # None => u = v
  BY DEF AccountOK, Others
<1>2. \A u \in Tasks : task'[u].pc \in {"adopt", "publish"} => u # t /\ task'[u] = task[u]
  BY DEF Others
<1>3. \A u \in Tasks : NodeOf[u] \in Nodes
  BY TasksAssumption
<1>4. \A u \in Tasks : task'[u].pc \in {"adopt", "publish"} =>
        \A m \in Nodes : ~Later(Account(m)', Account(NodeOf[u])')
  BY <1>2, <1>3 DEF AccountOK, Later
<1>5. \A u \in Tasks : task'[u].pc = "publish" /\ task'[u].op # "rotate" =>
        Account(NodeOf[u])'.val = None
  BY <1>2, <1>3 DEF AccountOK, At
<1> QED
  BY <1>1, <1>4, <1>5 DEF AccountOK, At, Later

(* Most steps of a task touch no lock and not the account.                 *)
LEMMA LocalStep ==
    ASSUME Inv, clock' = clock, scenario' = scenario, overrun' = overrun, weak' = weak,
           issued' \in Nat, db' \in [Nodes -> Replicas],
           \A n \in Nodes : db'[n].lock = db[n].lock,
           \A n \in Nodes : Account(n)' = Account(n),
           NEW t \in Tasks, Others(t), TaskOK(t)',
           task'[t].lock = task[t].lock, task'[t].alock = task[t].alock,
           task[t].lock # None => task'[t].dom = task[t].dom,
           task'[t].pc \notin {"adopt", "publish"}
    PROVE  Inv'
<1>1. Types'
  BY DEF Inv, Types, Others
<1>2. \A u \in Tasks : TaskOK(u)'
  BY OthersKept DEF Inv
<1>3. \A x \in Leases : LeaseOK(x)'
  BY LeasesKept
<1>4. AccountOK'
  BY AccountKept DEF Inv
<1> QED
  BY <1>1, <1>2, <1>3, <1>4 DEF Inv

LEMMA DecideInv ==
    ASSUME Inv, NEW t \in Tasks, NEW d \in Domains, NEW forced, Decide(t, d, forced)
    PROVE  Inv'
<1>1. Types /\ TaskOK(t)
  BY DEF Inv
<1>2. task[t] = Idle /\ UNCHANGED <<db, weak, clock, scenario, overrun, issued>>
  BY <1>1 DEF Decide, Starts, Start, TaskOK
<1>3. \E f : task' = [task EXCEPT ![t].pc = "decided", ![t].dom = d, ![t].forced = f]
  BY DEF Decide
<1>4. PICK f : task' = [task EXCEPT ![t].pc = "decided", ![t].dom = d, ![t].forced = f]
  BY <1>3
<1>5. Others(t)
  BY <1>1, <1>4 DEF Others, Types
<1>6. /\ DOMAIN task'[t] = Fields /\ task'[t].pc = "decided" /\ task'[t].dom = d
      /\ task'[t].op = "renew" /\ task'[t].lock = None /\ task'[t].alock = None
      /\ task'[t].new = None
  BY <1>1, <1>2, <1>4 DEF Types, Idle, Fields
<1>7. TaskOK(t)'
  BY <1>6 DEF TaskOK, At, Steps, Ops
<1>8. task[t].lock = None /\ task[t].alock = None
  BY <1>2 DEF Idle
<1> QED
  BY <1>1, <1>2, <1>5, <1>6, <1>7, <1>8, LocalStep DEF Types, Account

LEMMA AdminInv ==
    ASSUME Inv, NEW t \in Tasks, NEW op \in {"rotate", "ensure", "caa"}, Admin(t, op)
    PROVE  Inv'
<1>1. Types /\ TaskOK(t)
  BY DEF Inv
<1>2. task[t] = Idle /\ UNCHANGED <<db, weak, clock, scenario, overrun, issued>>
  BY <1>1 DEF Admin, Starts, Start, TaskOK
<1>3. task' = [task EXCEPT ![t].pc = "register", ![t].op = op]
  BY DEF Admin
<1>4. Others(t)
  BY <1>1, <1>3 DEF Others, Types
<1>5. /\ DOMAIN task'[t] = Fields /\ task'[t].pc = "register" /\ task'[t].op = op
      /\ task'[t].lock = None /\ task'[t].alock = None /\ task'[t].new = None
  BY <1>1, <1>2, <1>3 DEF Types, Idle, Fields
<1>6. TaskOK(t)'
  BY <1>5 DEF TaskOK, At, Steps, Ops
<1>7. task[t].lock = None /\ task[t].alock = None
  BY <1>2 DEF Idle
<1> QED
  BY <1>1, <1>2, <1>4, <1>5, <1>6, <1>7, LocalStep DEF Types, Account

LEMMA ImportInv ==
    ASSUME Inv, NEW t \in Tasks, NEW d \in Domains, NEW at \in 0..clock, Import(t, d, at)
    PROVE  Inv'
<1>1. Types /\ TaskOK(t)
  BY DEF Inv
<1>2. task[t] = Idle /\ UNCHANGED <<db, weak, clock, scenario, overrun>> /\ issued' = issued + 1
  BY <1>1 DEF Import, Starts, Start, TaskOK
<1>3. task' = [task EXCEPT ![t] = [Idle EXCEPT !.pc = "update", !.op = "import", !.dom = d,
                                               !.new = [no |-> issued', at |-> at]]]
  BY DEF Import
<1>4. [no |-> issued', at |-> at] \in Published
  BY <1>1, <1>2 DEF Types, Published
<1>5. Others(t)
  BY <1>1, <1>3 DEF Others, Types
<1>6. /\ DOMAIN task'[t] = Fields /\ task'[t].pc = "update" /\ task'[t].op = "import"
      /\ task'[t].dom = d /\ task'[t].lock = None /\ task'[t].alock = None
      /\ task'[t].new \in Published
  BY <1>1, <1>3, <1>4 DEF Types, Idle, Fields
<1>7. TaskOK(t)'
  BY <1>6 DEF TaskOK, At, Steps, Ops
<1>8. task[t].lock = None /\ task[t].alock = None /\ issued' \in Nat
  BY <1>1, <1>2 DEF Idle, Types
<1> QED
  BY <1>1, <1>2, <1>5, <1>6, <1>7, <1>8, LocalStep DEF Types, Account

(* Steps that only move the task on.                                       *)
LEMMA MoveInv ==
    ASSUME Inv, NEW t \in Tasks,
           Client(t) \/ Attest(t) \/ (Update(t) /\ task'[t] # Idle) \/ Swap(t)
    PROVE  Inv'
<1>1. Types /\ TaskOK(t)
  BY DEF Inv
<1>2. UNCHANGED <<db, weak, clock, scenario, overrun, issued>>
  BY DEF Client, Attest, Update, Swap, Same
<1>3. /\ Others(t) /\ DOMAIN task'[t] = Fields
      /\ \A f \in {"op", "dom", "lock", "alock", "new"} : task'[t][f] = task[t][f]
      /\ \/ task[t].pc = "locked" /\ task'[t].pc \in {"order", "register"}
         \/ task[t].pc = "attest" /\ task'[t].pc \in {"update", "release"}
         \/ task[t].pc = "update" /\ task'[t].pc = "swap"
         \/ task[t].pc = "update" /\ task'[t].pc = "release" /\ task[t].op # "import"
         \/ task[t].pc = "swap" /\ task'[t].pc = IF task[t].op = "import" THEN "save" ELSE "release"
  <2>1. DOMAIN task = Tasks /\ DOMAIN task[t] = Fields
    BY <1>1 DEF Types, TaskOK
  <2>2. CASE Client(t)
    BY <2>1, <2>2 DEF Client, Do, At, Others, Fields
  <2>3. CASE Attest(t)
    BY <2>1, <2>3 DEF Attest, Do, At, Others, Fields
  <2>4. CASE Update(t) /\ task'[t] # Idle
    BY <2>1, <2>4 DEF Update, Do, At, Others, Fields
  <2>5. CASE Swap(t)
    BY <2>1, <2>5 DEF Swap, At, Others, Fields
  <2> QED
    BY <2>2, <2>3, <2>4, <2>5
<1>4. /\ task'[t].op = task[t].op /\ task'[t].dom = task[t].dom /\ task'[t].lock = task[t].lock
      /\ task'[t].alock = task[t].alock /\ task'[t].new = task[t].new
  BY <1>3
<1>5. TaskOK(t)'
  BY <1>1, <1>3, <1>4 DEF TaskOK, At, Steps
<1> QED
  BY <1>1, <1>2, <1>3, <1>4, <1>5, LocalStep DEF Types, Account

(* A certificate is saved: the account and the locks are other keys.       *)
LEMMA OrderInv ==
    ASSUME Inv, NEW t \in Tasks, Order(t)
    PROVE  Inv'
<1>1. Types /\ TaskOK(t) /\ NodeOf[t] \in Nodes
  BY TasksAssumption DEF Inv
<1>2. UNCHANGED <<clock, scenario, overrun>> /\ task[t].pc = "order"
  BY DEF Order, Same, At
<1>3. task[t].op = "renew" /\ task[t].dom \in Domains
  BY <1>1, <1>2 DEF TaskOK, At
<1>4. DOMAIN task = Tasks /\ DOMAIN task[t] = Fields
  BY <1>1 DEF Types, TaskOK
<1>5. CASE /\ issued' = issued + 1
           /\ task' = [task EXCEPT ![t].pc = "attest", ![t].new = [no |-> issued', at |-> clock]]
           /\ Put(NodeOf[t], "data", task[t].dom, [no |-> issued', at |-> clock])
  <2>1. [no |-> issued', at |-> clock] \in Published /\ issued' \in Nat
    BY <1>1, <1>5 DEF Types, Published
  <2>2. /\ Others(t) /\ DOMAIN task'[t] = Fields /\ task'[t].pc = "attest"
        /\ task'[t].new \in Published /\ task'[t].op = task[t].op /\ task'[t].dom = task[t].dom
        /\ task'[t].lock = task[t].lock /\ task'[t].alock = task[t].alock
    BY <1>4, <1>5, <2>1 DEF Others, Fields
  <2>3. TaskOK(t)'
    BY <1>1, <1>2, <1>3, <2>2 DEF TaskOK, At, Steps, Ops
  <2>4. /\ db' \in [Nodes -> Replicas] /\ weak' = weak
        /\ \A m \in Nodes : db'[m].lock = db[m].lock /\ Account(m)' = Account(m)
    BY <1>1, <1>3, <1>5, <2>1, DataWritten, LeasesAssumption DEF Leases, Account
  <2> QED
    BY <1>2, <2>1, <2>2, <2>3, <2>4, LocalStep
<1>6. CASE issued' = issued /\ Do(t, "release") /\ UNCHANGED <<db, dirty, weak>>
  <2>1. /\ Others(t) /\ DOMAIN task'[t] = Fields /\ task'[t].pc = "release"
        /\ task'[t].new = task[t].new /\ task'[t].op = task[t].op /\ task'[t].dom = task[t].dom
        /\ task'[t].lock = task[t].lock /\ task'[t].alock = task[t].alock
    BY <1>4, <1>6 DEF Others, Fields, Do
  <2>2. TaskOK(t)'
    BY <1>1, <1>2, <1>3, <2>1 DEF TaskOK, At, Steps, Ops
  <2> QED
    BY <1>1, <1>2, <1>6, <2>1, <2>2, LocalStep DEF Types, Account
<1> QED
  BY <1>5, <1>6 DEF Order

LEMMA IdleOK ==
    ASSUME NEW t \in Tasks, task'[t] = Idle
    PROVE  TaskOK(t)' /\ \A x \in Leases : Holds(t, x)' = None
BY DEF TaskOK, At, Idle, Fields, Steps, Ops, Holds

(* A task ends without writing a lock or the account.                      *)
LEMMA EndInv ==
    ASSUME Inv, UNCHANGED <<clock, scenario, overrun, issued, weak>>, db' \in [Nodes -> Replicas],
           \A m \in Nodes : db'[m].lock = db[m].lock /\ Account(m)' = Account(m),
           NEW t \in Tasks, Others(t), task'[t] = Idle
    PROVE  Inv'
<1>1. Types /\ \A u \in Tasks : TaskOK(u)
  BY DEF Inv
<1>2. Types'
  BY <1>1 DEF Types, Others
<1>3. \A u \in Tasks : TaskOK(u)'
  BY <1>1, OthersKept, IdleOK
<1>4. AccountOK'
  BY AccountKept DEF Inv, Idle
<1>5. ASSUME NEW x \in Leases
      PROVE  LeaseOK(x)'
  <2>1. \A u \in Tasks : Holds(u, x)' \in {Holds(u, x), None}
    BY <1>1, OthersKept, IdleOK
  <2>2. \A n \in Nodes : LockAt(n, x)' = LockAt(n, x)
    BY DEF LockAt
  <2>3. LeaseOK(x) /\ clock' \in 0..MaxClock /\ clock' >= clock /\ weak \subseteq weak'
    BY <1>1 DEF Inv, Types
  <2> QED
    BY <1>1, <2>1, <2>2, <2>3, LeaseKept
<1> QED
  BY <1>2, <1>3, <1>4, <1>5 DEF Inv

LEMMA SaveInv ==
    ASSUME Inv, NEW t \in Tasks, Save(t)
    PROVE  Inv'
<1>1. Types /\ TaskOK(t) /\ NodeOf[t] \in Nodes
  BY TasksAssumption DEF Inv
<1>2. /\ UNCHANGED <<clock, scenario, overrun, issued>> /\ task[t].pc = "save"
      /\ task' = [task EXCEPT ![t] = Idle]
      /\ Put(NodeOf[t], "data", task[t].dom, task[t].new)
  BY DEF Save, Same, At
<1>3. task[t].dom \in Domains /\ task[t].new \in Published \cup {None}
  BY <1>1, <1>2 DEF TaskOK, At
<1>4. Others(t) /\ task'[t] = Idle
  BY <1>1, <1>2 DEF Others, Types
<1>5. /\ db' \in [Nodes -> Replicas] /\ weak' = weak
      /\ \A m \in Nodes : db'[m].lock = db[m].lock /\ Account(m)' = Account(m)
  BY <1>1, <1>2, <1>3, DataWritten, LeasesAssumption DEF Leases, Account
<1> QED
  BY <1>2, <1>4, <1>5, EndInv

(* The resolver takes the certificate, or refuses it: an import ends.      *)
LEMMA UpdateInv ==
    ASSUME Inv, NEW t \in Tasks, Update(t)
    PROVE  Inv'
<1>1. CASE task'[t] # Idle
  BY <1>1, MoveInv
<1>2. CASE task'[t] = Idle
  <2>1. UNCHANGED <<clock, scenario, overrun, issued, weak, db>> /\ Types
    BY DEF Update, Same, Inv
  <2>2. Others(t)
    BY <2>1 DEF Update, Do, Others, Types
  <2> QED
    BY <1>2, <2>1, <2>2, EndInv DEF Types, Account
<1> QED
  BY <1>1, <1>2

(* A lease is taken: that of a domain.                                     *)
LEMMA TakeLockInv ==
    ASSUME Inv, NEW t \in Tasks, TakeLock(t)
    PROVE  Inv'
<1> DEFINE n == NodeOf[t]
           L == [at |-> clock, by |-> n]
<1>1. Types /\ TaskOK(t) /\ n \in Nodes /\ \A u \in Tasks : TaskOK(u)
  BY TasksAssumption DEF Inv
<1>2. UNCHANGED <<clock, scenario, overrun, issued>> /\ task[t].pc = "decided"
  BY DEF TakeLock, Same, At
<1>3. PICK d \in Domains : task[t].dom = d /\ task[t].op = "renew" /\ task[t].lock = None
  BY <1>1, <1>2 DEF TaskOK, At
<1>4. DOMAIN task = Tasks /\ DOMAIN task[t] = Fields
  BY <1>1 DEF Types, TaskOK
<1>5. CASE Free(n, d)
  <2>1. Acquire(n, d) /\ task' = [task EXCEPT ![t].pc = "locked", ![t].lock = L]
    BY <1>3, <1>5 DEF TakeLock
  <2>2. L \in Locks /\ L.by = NodeOf[t] /\ L # None
    BY <1>1, NoneAssumption DEF Types, Locks
  <2>3. /\ Others(t) /\ DOMAIN task'[t] = Fields /\ task'[t].pc = "locked" /\ task'[t].lock = L
        /\ task'[t].new = task[t].new /\ task'[t].op = task[t].op /\ task'[t].dom = task[t].dom
        /\ task'[t].alock = task[t].alock
    BY <1>4, <2>1 DEF Others, Fields
  <2>4. TaskOK(t)'
    <3> HIDE DEF L
    <3> QED
      BY <1>1, <1>3, <2>2, <2>3 DEF TaskOK, At, Steps, Ops
  <2>5. Put(n, "lock", d, L) /\ d \in Leases
    BY <1>3, <2>1 DEF Acquire, Leases
  <2>6. /\ db' \in [Nodes -> Replicas]
        /\ \A m \in Nodes, y \in Leases : y # d => LockAt(m, y)' = LockAt(m, y)
        /\ \A m \in Nodes : Account(m)' = Account(m)
    BY <1>1, <2>2, <2>5, LockWritten DEF Account
  <2>7. \A u \in Tasks \ {t}, x \in Leases : Holds(u, x)' = Holds(u, x)
    BY <1>1, <2>3, OthersKept
  <2>8. LeaseOK(d)'
    <3>1. Holds(t, d)' = L
      BY <1>3, <2>3, LeasesAssumption DEF Holds
    <3>2. LeaseOK(d)
      BY <2>5 DEF Inv
    <3> QED
      BY <1>1, <1>2, <1>5, <2>1, <2>5, <2>7, <3>1, <3>2, LeaseTaken
  <2>9. ASSUME NEW x \in Leases \ {d}
        PROVE  LeaseOK(x)'
    <3>1. Holds(t, x)' = Holds(t, x)
      BY <1>3, <2>3 DEF Holds
    <3>2. LeaseOK(x) /\ clock' \in 0..MaxClock /\ clock' >= clock /\ weak \subseteq weak'
      BY <1>1, <1>2, <2>5 DEF Inv, Types, Put
    <3> QED
      BY <1>1, <2>6, <2>7, <3>1, <3>2, LeaseKept
  <2>10. Types'
    BY <1>1, <1>2, <2>3, <2>6 DEF Types, Others
  <2>11. \A u \in Tasks : TaskOK(u)'
    BY <1>1, <2>3, <2>4, OthersKept
  <2>12. AccountOK'
    BY <1>2, <2>3, <2>6, AccountKept DEF Inv
  <2> QED
    BY <2>8, <2>9, <2>10, <2>11, <2>12 DEF Inv
<1>6. CASE ~Free(n, d)
  <2>1. task' = [task EXCEPT ![t] = Idle] /\ UNCHANGED <<db, weak>>
    BY <1>3, <1>6 DEF TakeLock
  <2>2. Others(t) /\ task'[t] = Idle
    BY <1>4, <2>1 DEF Others
  <2>3. Types'
    BY <1>1, <1>2, <2>1, <2>2 DEF Types, Others
  <2>4. \A u \in Tasks : TaskOK(u)'
    BY <1>1, <2>2, OthersKept, IdleOK
  <2>5. AccountOK'
    BY <1>2, <2>1, <2>2, AccountKept DEF Inv, Idle, Account
  <2>6. ASSUME NEW x \in Leases
        PROVE  LeaseOK(x)'
    <3>1. \A u \in Tasks : Holds(u, x)' \in {Holds(u, x), None}
      BY <1>1, <2>2, OthersKept, IdleOK
    <3>2. \A m \in Nodes : LockAt(m, x)' = LockAt(m, x)
      BY <2>1 DEF LockAt
    <3>3. LeaseOK(x) /\ clock' \in 0..MaxClock /\ clock' >= clock /\ weak \subseteq weak'
      BY <1>1, <1>2, <2>1 DEF Inv, Types
    <3> QED
      BY <1>1, <3>1, <3>2, <3>3, LeaseKept
  <2> QED
    BY <2>3, <2>4, <2>5, <2>6 DEF Inv
<1> QED
  BY <1>5, <1>6

(* A lease is taken: that of the account.                                  *)
LEMMA TakeAccountInv ==
    ASSUME Inv, NEW t \in Tasks, TakeAccount(t)
    PROVE  Inv'
<1> DEFINE n == NodeOf[t]
           L == [at |-> clock, by |-> n]
           next == [renew |-> "adopt", ensure |-> "adopt", rotate |-> "publish",
                    caa |-> "free account"]
<1>1. Types /\ TaskOK(t) /\ n \in Nodes /\ Acme \in Leases /\ \A u \in Tasks : TaskOK(u)
  BY TasksAssumption DEF Inv, Leases
<1>2. UNCHANGED <<clock, scenario, issued>> /\ task[t].pc = "register"
  BY DEF TakeAccount, At
<1>3. task[t].op \in {"renew", "rotate", "ensure", "caa"}
  BY <1>1, <1>2 DEF TaskOK, Ops
<1>4. DOMAIN task = Tasks /\ DOMAIN task[t] = Fields
  BY <1>1 DEF Types, TaskOK
<1>5. CASE Free(n, Acme)
  <2>1. /\ Acquire(n, Acme)
        /\ task' = [task EXCEPT ![t].pc = next[task[t].op], ![t].alock = L]
        /\ overrun' = \/ overrun \/ \E u \in Tasks : task[u].alock # None
                      \/ \E m \in Nodes : Later(db[m].data[Acme], db[n].data[Acme])
    BY <1>5 DEF TakeAccount
  <2>2. L \in Locks /\ L.by = NodeOf[t] /\ L # None
    BY <1>1, NoneAssumption DEF Types, Locks
  <2>3. /\ next[task[t].op] \in {"adopt", "publish", "free account"}
        /\ next[task[t].op] = "publish" => task[t].op = "rotate"
    <3>1. CASE task[t].op = "renew"
      BY <3>1
    <3>2. CASE task[t].op = "ensure"
      BY <3>2
    <3>3. CASE task[t].op = "rotate"
      BY <3>3
    <3>4. CASE task[t].op = "caa"
      BY <3>4
    <3> QED
      BY <1>3, <3>1, <3>2, <3>3, <3>4
  <2> HIDE DEF L, next
  <2>4. /\ Others(t) /\ DOMAIN task'[t] = Fields /\ task'[t].pc = next[task[t].op]
        /\ task'[t].alock = L /\ task'[t].lock = task[t].lock
        /\ task'[t].new = task[t].new /\ task'[t].op = task[t].op /\ task'[t].dom = task[t].dom
    BY <1>4, <2>1 DEF Others, Fields
  <2>5. TaskOK(t)'
    BY <1>1, <1>2, <1>3, <2>2, <2>3, <2>4 DEF TaskOK, At, Steps, Ops
  <2>6. Put(n, "lock", Acme, L)
    BY <2>1 DEF Acquire, L
  <2>7. /\ db' \in [Nodes -> Replicas]
        /\ \A m \in Nodes, y \in Leases : y # Acme => LockAt(m, y)' = LockAt(m, y)
        /\ \A m \in Nodes : Account(m)' = Account(m)
    BY <1>1, <2>2, <2>6, LockWritten DEF Account
  <2>8. \A u \in Tasks \ {t}, x \in Leases : Holds(u, x)' = Holds(u, x)
    BY <1>1, <2>4, OthersKept
  <2>9. LeaseOK(Acme)'
    <3>1. Holds(t, Acme)' = [at |-> clock, by |-> n]
      BY <2>4 DEF Holds, L
    <3>2. LeaseOK(Acme)
      BY <1>1 DEF Inv
    <3> QED
      BY <1>1, <1>2, <1>5, <2>1, <2>8, <3>1, <3>2, LeaseTaken
  <2>10. ASSUME NEW x \in Leases \ {Acme}
         PROVE  LeaseOK(x)'
    <3>1. Holds(t, x)' = Holds(t, x)
      BY <2>4 DEF Holds
    <3>2. LeaseOK(x) /\ clock' \in 0..MaxClock /\ clock' >= clock /\ weak \subseteq weak'
      BY <1>1, <1>2, <2>6 DEF Inv, Types, Put
    <3> QED
      BY <1>1, <2>7, <2>8, <3>1, <3>2, LeaseKept
  <2>11. Types'
    BY <1>1, <1>2, <2>4, <2>7 DEF Types, Others
  <2>12. \A u \in Tasks : TaskOK(u)'
    BY <1>1, <2>4, <2>5, OthersKept
  <2>13. AccountOK'
    <3> SUFFICES ASSUME ~overrun' PROVE AccountOK'
      BY DEF AccountOK
    <3>1. /\ \A u \in Tasks : task[u].alock = None
          /\ \A m \in Nodes : ~Later(Account(m), Account(n))
      BY <2>1 DEF Account
    <3>2. \A u \in Tasks : u # t => task'[u].alock = None
                                    /\ task'[u].pc \notin {"adopt", "publish", "free account"}
      BY <1>1, <2>4, <3>1 DEF Others, TaskOK
    <3>3. \A m \in Nodes : ~Later(Account(m)', Account(n)')
      BY <1>1, <2>7, <3>1 DEF Later
    <3>4. \A u, v \in Tasks : task'[u].alock # None /\ task'[v].alock # None => u = v
      BY <3>2
    <3>5. \A u \in Tasks : task'[u].pc \in {"adopt", "publish"} =>
            \A m \in Nodes : ~Later(Account(m)', Account(NodeOf[u])')
      BY <3>2, <3>3
    <3>6. \A u \in Tasks : ~(task'[u].pc = "publish" /\ task'[u].op # "rotate")
      BY <2>3, <2>4, <3>2
    <3> QED
      BY <3>4, <3>5, <3>6 DEF AccountOK, At, Later
  <2> QED
    BY <2>9, <2>10, <2>11, <2>12, <2>13 DEF Inv
<1>6. CASE ~Free(n, Acme)
  <2>1. task' = [task EXCEPT ![t].pc = "release", ![t].ok = FALSE] /\ UNCHANGED <<db, weak, overrun>>
    BY <1>6 DEF TakeAccount
  <2>2. /\ Others(t) /\ DOMAIN task'[t] = Fields /\ task'[t].pc = "release"
        /\ task'[t].new = task[t].new /\ task'[t].op = task[t].op /\ task'[t].dom = task[t].dom
        /\ task'[t].lock = task[t].lock /\ task'[t].alock = task[t].alock
    BY <1>4, <2>1 DEF Others, Fields
  <2>3. TaskOK(t)'
    BY <1>1, <1>2, <1>3, <2>2 DEF TaskOK, At, Steps, Ops
  <2> QED
    BY <1>1, <1>2, <2>1, <2>2, <2>3, LocalStep DEF Types, Account
<1> QED
  BY <1>5, <1>6

(* Under the lease the account is read again.                              *)
LEMMA AdoptInv ==
    ASSUME Inv, NEW t \in Tasks, Adopt(t)
    PROVE  Inv'
<1>1. Types /\ TaskOK(t) /\ NodeOf[t] \in Nodes /\ \A u \in Tasks : TaskOK(u)
  BY TasksAssumption DEF Inv
<1>2. /\ UNCHANGED <<db, weak, clock, scenario, overrun, issued>> /\ task[t].pc = "adopt"
      /\ Do(t, IF Adopted(NodeOf[t]) THEN "free account" ELSE "publish")
  BY DEF Adopt, Same, At
<1>3. DOMAIN task = Tasks /\ DOMAIN task[t] = Fields
  BY <1>1 DEF Types, TaskOK
<1>4. /\ Others(t) /\ DOMAIN task'[t] = Fields
      /\ task'[t].pc = IF Adopted(NodeOf[t]) THEN "free account" ELSE "publish"
      /\ task'[t].new = task[t].new /\ task'[t].op = task[t].op /\ task'[t].dom = task[t].dom
      /\ task'[t].lock = task[t].lock /\ task'[t].alock = task[t].alock
  BY <1>2, <1>3 DEF Others, Fields, Do
<1>5. TaskOK(t)'
  BY <1>1, <1>2, <1>4 DEF TaskOK, At, Steps, Ops
<1>6. \A u \in Tasks : TaskOK(u)'
  BY <1>1, <1>4, <1>5, OthersKept
<1>7. Types'
  BY <1>1, <1>2, <1>4 DEF Types, Others
<1>8. \A x \in Leases : LeaseOK(x)'
  BY <1>2, <1>4, LeasesKept
<1>9. AccountOK'
  <2> SUFFICES ASSUME ~overrun' PROVE AccountOK'
    BY DEF AccountOK
  <2>1. ~overrun /\ AccountOK /\ \A m \in Nodes : Account(m)' = Account(m)
    BY <1>2 DEF Inv, Account
  <2>2. \A u \in Tasks : NodeOf[u] \in Nodes
    BY TasksAssumption
  <2>3. \A u, v \in Tasks : task'[u].alock # None /\ task'[v].alock # None => u = v
    <3>1. \A u \in Tasks : task'[u].alock = task[u].alock
      BY <1>4 DEF Others
    <3> QED
      BY <2>1, <3>1 DEF AccountOK
  <2>4. \A u \in Tasks : task'[u].pc \in {"adopt", "publish"} => task[u].pc \in {"adopt", "publish"}
    BY <1>2, <1>4 DEF Others
  <2>5. \A u \in Tasks : task'[u].pc \in {"adopt", "publish"} =>
          \A m \in Nodes : ~Later(Account(m)', Account(NodeOf[u])')
    BY <2>1, <2>2, <2>4 DEF AccountOK, Later
  <2>6. task'[t].pc = "publish" => Account(NodeOf[t])'.val = None
    BY <1>1, <1>4, <2>1 DEF Adopted, Read, Account
  <2>7. \A u \in Tasks : task'[u].pc = "publish" /\ task'[u].op # "rotate" =>
          Account(NodeOf[u])'.val = None
    BY <1>4, <2>1, <2>2, <2>6 DEF AccountOK, Others, At
  <2> QED
    BY <2>3, <2>5, <2>7 DEF AccountOK, At, Later
<1> QED
  BY <1>6, <1>7, <1>8, <1>9 DEF Inv

(* The holder of the account's lease publishes; nobody else is about to.   *)
LEMMA PublishInv ==
    ASSUME Inv, NEW t \in Tasks, Publish(t)
    PROVE  Inv'
<1>1. Types /\ TaskOK(t) /\ NodeOf[t] \in Nodes /\ Acme \in Leases /\ \A u \in Tasks : TaskOK(u)
  BY TasksAssumption DEF Inv, Leases
<1>2. UNCHANGED <<clock, scenario, overrun>> /\ task[t].pc = "publish"
  BY DEF Publish, NewAccount, Same, At
<1>3. DOMAIN task = Tasks /\ DOMAIN task[t] = Fields
  BY <1>1 DEF Types, TaskOK
<1>4. CASE /\ issued' = issued + 1
           /\ Put(NodeOf[t], "data", Acme, [no |-> issued', at |-> clock])
           /\ task' = [task EXCEPT ![t].pc = "free account", ![t].own = TRUE]
  <2>1. [no |-> issued', at |-> clock] \in Published /\ issued' \in Nat
    <3>1. issued' = issued + 1
      BY <1>4, Zenon
    <3> QED
      BY <1>1, <3>1 DEF Types, Published
  <2>2. /\ Others(t) /\ DOMAIN task'[t] = Fields /\ task'[t].pc = "free account"
        /\ task'[t].new = task[t].new /\ task'[t].op = task[t].op /\ task'[t].dom = task[t].dom
        /\ task'[t].lock = task[t].lock /\ task'[t].alock = task[t].alock
    BY <1>3, <1>4 DEF Others, Fields
  <2>3. TaskOK(t)'
    BY <1>1, <1>2, <2>2 DEF TaskOK, At, Steps, Ops
  <2>4. /\ db' \in [Nodes -> Replicas] /\ weak' = weak
        /\ \A m \in Nodes : db'[m].lock = db[m].lock
    BY <1>1, <1>4, <2>1, DataWritten
  <2>5. Types'
    BY <1>1, <1>2, <2>1, <2>2, <2>4 DEF Types, Others
  <2>6. \A u \in Tasks : TaskOK(u)'
    BY <1>1, <2>2, <2>3, OthersKept
  <2>7. \A x \in Leases : LeaseOK(x)'
    BY <1>2, <2>2, <2>4, LeasesKept
  <2>8. AccountOK'
    <3> SUFFICES ASSUME ~overrun' PROVE AccountOK'
      BY DEF AccountOK
    <3>1. ~overrun /\ AccountOK
      BY <1>2 DEF Inv
    <3>2. \A u \in Tasks : task[u].pc \in {"adopt", "publish"} => u = t
      BY <1>1, <1>2, <3>1 DEF AccountOK, TaskOK
    <3>3. \A u \in Tasks : task'[u].pc \notin {"adopt", "publish"}
      BY <2>2, <3>2 DEF Others
    <3>4. \A u, v \in Tasks : task'[u].alock # None /\ task'[v].alock # None => u = v
      <4>1. \A u \in Tasks : task'[u].alock = task[u].alock
        BY <2>2 DEF Others
      <4> QED
        BY <3>1, <4>1 DEF AccountOK
    <3> QED
      BY <3>3, <3>4 DEF AccountOK, At
  <2> QED
    BY <2>5, <2>6, <2>7, <2>8 DEF Inv
<1>5. CASE /\ issued' = issued /\ UNCHANGED <<db, dirty, weak>>
           /\ task' = [task EXCEPT ![t].pc = "free account", ![t].ok = FALSE]
  <2>1. /\ Others(t) /\ DOMAIN task'[t] = Fields /\ task'[t].pc = "free account"
        /\ task'[t].new = task[t].new /\ task'[t].op = task[t].op /\ task'[t].dom = task[t].dom
        /\ task'[t].lock = task[t].lock /\ task'[t].alock = task[t].alock
    BY <1>3, <1>5 DEF Others, Fields
  <2>2. TaskOK(t)'
    BY <1>1, <1>2, <2>1 DEF TaskOK, At, Steps, Ops
  <2> QED
    BY <1>1, <1>2, <1>5, <2>1, <2>2, LocalStep DEF Types, Account
<1> QED
  BY <1>4, <1>5 DEF Publish, NewAccount

(* What a release writes, whether or not it is refused.                    *)
LEMMA ReleaseWrites ==
    ASSUME Types, NEW n \in Nodes, NEW x \in Leases, NEW lock, Release(n, x, lock)
    PROVE  /\ db' \in [Nodes -> Replicas] /\ weak \subseteq weak'
           /\ \A m \in Nodes, y \in Leases : y # x => LockAt(m, y)' = LockAt(m, y)
           /\ \A m \in Nodes : Account(m)' = Account(m)
<1>1. CASE MayRelease(n, x, lock)
  <2>1. Put(n, "lock", x, None)
    BY <1>1 DEF Release
  <2>2. weak \subseteq weak'
    BY <2>1 DEF Put
  <2> QED
    BY <2>1, <2>2, LockWritten DEF Account
<1>2. CASE ~MayRelease(n, x, lock)
  BY <1>2 DEF Release, Types, LockAt, Account
<1> QED
  BY <1>1, <1>2

(* The account's lease is given back.                                      *)
LEMMA FreeAccountInv ==
    ASSUME Inv, NEW t \in Tasks, FreeAccount(t)
    PROVE  Inv'
<1>1. Types /\ TaskOK(t) /\ NodeOf[t] \in Nodes /\ Acme \in Leases /\ \A u \in Tasks : TaskOK(u)
  BY TasksAssumption DEF Inv, Leases
<1>2. /\ UNCHANGED <<clock, scenario, overrun, issued>> /\ task[t].pc = "free account"
      /\ Release(NodeOf[t], Acme, task[t].alock)
  BY DEF FreeAccount, Same, At
<1>3. DOMAIN task = Tasks /\ DOMAIN task[t] = Fields
  BY <1>1 DEF Types, TaskOK
<1>4. /\ Others(t) /\ DOMAIN task'[t] = Fields /\ task'[t].alock = None
      /\ task'[t].new = task[t].new /\ task'[t].dom = task[t].dom /\ task'[t].lock = task[t].lock
      /\ \/ task[t].op = "renew" /\ task'[t].op = "renew" /\ task'[t].pc = "order"
         \/ task'[t].op = "caa" /\ task'[t].pc = "register"
         \/ task'[t].op = task[t].op /\ task'[t].pc = "release"
  <2>1. CASE task[t].op = "ensure"
             /\ task' = [task EXCEPT ![t].alock = None, ![t].pc = "register", ![t].op = "caa"]
    BY <1>3, <2>1 DEF Others, Fields
  <2>2. CASE task[t].op = "renew"
             /\ task' = [task EXCEPT ![t].alock = None, ![t].pc = "order", ![t].op = @]
    BY <1>3, <2>2 DEF Others, Fields
  <2>3. CASE task' = [task EXCEPT ![t].pc = "release", ![t].alock = None]
    BY <1>3, <2>3 DEF Others, Fields
  <2> QED
    BY <2>1, <2>2, <2>3 DEF FreeAccount
<1>5. TaskOK(t)'
  BY <1>1, <1>2, <1>4 DEF TaskOK, At, Steps, Ops
<1>6. \A u \in Tasks : TaskOK(u)'
  BY <1>1, <1>4, <1>5, OthersKept
<1>7. /\ db' \in [Nodes -> Replicas] /\ weak \subseteq weak'
      /\ \A m \in Nodes, y \in Leases : y # Acme => LockAt(m, y)' = LockAt(m, y)
      /\ \A m \in Nodes : Account(m)' = Account(m)
  BY <1>1, <1>2, ReleaseWrites
<1>8. Types'
  BY <1>1, <1>2, <1>4, <1>7 DEF Types, Others
<1>9. \A u \in Tasks \ {t}, x \in Leases : Holds(u, x)' = Holds(u, x)
  BY <1>1, <1>4, OthersKept
<1>10. LeaseOK(Acme)'
  <2>1. PICK lock : lock = task[t].alock
    OBVIOUS
  <2>2. Holds(t, Acme)' = None /\ lock = Holds(t, Acme)
    BY <1>4, <2>1 DEF Holds
  <2>3. LeaseOK(Acme)
    BY <1>1 DEF Inv
  <2> QED
    BY <1>1, <1>2, <1>9, <2>1, <2>2, <2>3, LeaseReleased
<1>11. ASSUME NEW x \in Leases \ {Acme}
       PROVE  LeaseOK(x)'
  <2>1. Holds(t, x)' = Holds(t, x)
    BY <1>4 DEF Holds
  <2>2. clock' \in 0..MaxClock /\ clock' >= clock
    <3>1. clock' = clock
      BY <1>2
    <3> QED
      BY <1>1, <3>1 DEF Types
  <2>3. LeaseOK(x)
    BY DEF Inv
  <2> QED
    BY <1>1, <1>7, <1>9, <2>1, <2>2, <2>3, LeaseKept
<1>12. AccountOK'
  BY <1>2, <1>4, <1>7, AccountKept DEF Inv
<1> QED
  BY <1>6, <1>8, <1>10, <1>11, <1>12 DEF Inv

(* The end of a renewal: the domain's lease is given back.                 *)
LEMMA FinishInv ==
    ASSUME Inv, NEW t \in Tasks, Finish(t)
    PROVE  Inv'
<1>1. Types /\ TaskOK(t) /\ NodeOf[t] \in Nodes /\ \A u \in Tasks : TaskOK(u)
  BY TasksAssumption DEF Inv
<1>2. /\ UNCHANGED <<clock, scenario, overrun, issued>>
      /\ task' = [task EXCEPT ![t] = Idle]
      /\ IF task[t].lock # None THEN Release(NodeOf[t], task[t].dom, task[t].lock)
         ELSE UNCHANGED <<db, dirty, weak>>
  BY DEF Finish, Same
<1>3. Others(t) /\ task'[t] = Idle
  BY <1>1, <1>2 DEF Others, Types
<1>4. \A u \in Tasks : TaskOK(u)'
  BY <1>1, <1>3, OthersKept, IdleOK
<1>5. /\ \A u \in Tasks \ {t}, x \in Leases : Holds(u, x)' = Holds(u, x)
      /\ \A x \in Leases : Holds(t, x)' = None
  BY <1>1, <1>3, OthersKept, IdleOK
<1>6. clock' \in 0..MaxClock /\ clock' >= clock
  BY <1>1, <1>2 DEF Types
<1>7. ASSUME db' \in [Nodes -> Replicas], \A m \in Nodes : Account(m)' = Account(m)
      PROVE  Types' /\ AccountOK'
  <2>1. Types'
    BY <1>1, <1>2, <1>3, <1>7 DEF Types, Others
  <2>2. AccountOK'
    BY <1>2, <1>3, <1>7, AccountKept DEF Inv, Idle
  <2> QED
    BY <2>1, <2>2
<1>8. CASE task[t].lock = None
  <2>1. UNCHANGED <<db, weak>>
    BY <1>2, <1>8
  <2>2. ASSUME NEW x \in Leases
        PROVE  LeaseOK(x)'
    <3>1. LeaseOK(x) /\ weak \subseteq weak' /\ \A m \in Nodes : LockAt(m, x)' = LockAt(m, x)
      BY <2>1 DEF Inv, LockAt
    <3> QED
      BY <1>1, <1>5, <1>6, <3>1, LeaseKept
  <2>3. db' \in [Nodes -> Replicas] /\ \A m \in Nodes : Account(m)' = Account(m)
    BY <1>1, <2>1 DEF Types, Account
  <2> QED
    BY <1>4, <1>7, <2>2, <2>3 DEF Inv
<1>9. CASE task[t].lock # None
  <2>1. PICK d \in Domains, lock \in Locks : d = task[t].dom /\ lock = task[t].lock
    BY <1>1, <1>9 DEF TaskOK
  <2>2. d \in Leases /\ Release(NodeOf[t], d, lock) /\ lock = Holds(t, d)
    BY <1>2, <1>9, <2>1, LeasesAssumption DEF Leases, Holds
  <2>3. /\ db' \in [Nodes -> Replicas] /\ weak \subseteq weak'
        /\ \A m \in Nodes, y \in Leases : y # d => LockAt(m, y)' = LockAt(m, y)
        /\ \A m \in Nodes : Account(m)' = Account(m)
    BY <1>1, <2>2, ReleaseWrites
  <2>4. LeaseOK(d)'
    <3>1. LeaseOK(d)
      BY <2>2 DEF Inv
    <3> QED
      BY <1>1, <1>2, <1>5, <2>2, <3>1, LeaseReleased
  <2>5. ASSUME NEW x \in Leases \ {d}
        PROVE  LeaseOK(x)'
    <3>1. LeaseOK(x)
      BY DEF Inv
    <3> QED
      BY <1>1, <1>5, <1>6, <2>3, <3>1, LeaseKept
  <2> QED
    BY <1>4, <1>7, <2>3, <2>4, <2>5 DEF Inv
<1> QED
  BY <1>8, <1>9

-----------------------------------------------------------------------------
(* Steps of the nodes.                                                     *)

(* A forced release makes the lock one that nobody relies on.              *)
LEMMA ForceReleaseInv ==
    ASSUME Inv, NEW n \in Nodes, NEW d \in Domains, ForceRelease(n, d)
    PROVE  Inv'
<1>1. Types /\ d \in Leases /\ \A u \in Tasks : TaskOK(u)
  BY DEF Inv, Leases
<1>2. UNCHANGED <<clock, scenario, issued, task, overrun>> /\ weak' = weak \cup {d}
      /\ db' = [db EXCEPT ![n].lock[d] = Written(@, n, None)]
  BY DEF ForceRelease
<1>3. Written(db[n].lock[d], n, None) \in Versions(Locks)
  BY <1>1, LockTypes, TasksAssumption DEF Written, Versions, LockAt
<1>4. /\ db' \in [Nodes -> Replicas]
      /\ \A m \in Nodes, y \in Leases : y # d => LockAt(m, y)' = LockAt(m, y)
      /\ \A m \in Nodes : Account(m)' = Account(m)
  BY <1>1, <1>2, <1>3 DEF Types, Replicas, LockAt, Account
<1>5. Types'
  BY <1>1, <1>2, <1>4 DEF Types
<1>6. ASSUME NEW u \in Tasks
      PROVE  TaskOK(u)'
  <2>1. task'[u] = task[u] /\ TaskOK(u)
    BY <1>1, <1>2
  <2> QED
    BY <2>1 DEF TaskOK, At
<1>7. LeaseOK(d)'
  BY <1>2 DEF LeaseOK
<1>8. ASSUME NEW x \in Leases \ {d}
      PROVE  LeaseOK(x)'
  <2>1. \A u \in Tasks : Holds(u, x)' = Holds(u, x)
    BY <1>2 DEF Holds
  <2>2. LeaseOK(x) /\ clock' \in 0..MaxClock /\ clock' >= clock /\ weak \subseteq weak'
    BY <1>1, <1>2 DEF Inv, Types
  <2> QED
    BY <1>1, <1>4, <2>1, <2>2, LeaseKept
<1>9. AccountOK'
  <2>1. \A u \in Tasks : NodeOf[u] \in Nodes
    BY TasksAssumption
  <2> QED
    BY <1>2, <1>4, <2>1 DEF Inv, AccountOK, At, Later
<1> QED
  BY <1>5, <1>6, <1>7, <1>8, <1>9 DEF Inv

(* Tasks that go on, or end with their node.                               *)
KeptOrIdle == DOMAIN task' = Tasks /\ \A t \in Tasks : task'[t] = task[t] \/ task'[t] = Idle

LEMMA KeptOrIdleTasks ==
    ASSUME KeptOrIdle, \A t \in Tasks : TaskOK(t)
    PROVE  \A t \in Tasks : TaskOK(t)' /\ \A x \in Leases : Holds(t, x)' \in {Holds(t, x), None}
<1> SUFFICES ASSUME NEW t \in Tasks
             PROVE  TaskOK(t)' /\ \A x \in Leases : Holds(t, x)' \in {Holds(t, x), None}
  OBVIOUS
<1>1. CASE task'[t] = Idle
  BY <1>1, IdleOK
<1>2. CASE task'[t] = task[t]
  <2>1. TaskOK(t)'
    <3>1. TaskOK(t)
      OBVIOUS
    <3> QED
      BY <1>2, <3>1 DEF TaskOK, At
  <2>2. \A x \in Leases : Holds(t, x)' = Holds(t, x)
    BY <1>2 DEF Holds
  <2> QED
    BY <2>1, <2>2
<1> QED
  BY <1>1, <1>2 DEF KeptOrIdle

(* Accounts spread between replicas; the one a task may replace is kept.   *)
LEMMA AccountSpreads ==
    ASSUME Types, AccountOK, overrun' = overrun, KeptOrIdle,
           \A m \in Nodes : Account(m)' = Account(m)
                            \/ \E k \in Nodes : Account(m)' = Account(k) /\ Later(Account(k), Account(m))
    PROVE  AccountOK'
<1> SUFFICES ASSUME ~overrun' PROVE AccountOK'
  BY DEF AccountOK
<1>1. \A u \in Tasks : NodeOf[u] \in Nodes
  BY TasksAssumption
<1>2. \A u \in Tasks : /\ task'[u].alock # None => task'[u] = task[u]
                       /\ task'[u].pc \in {"adopt", "publish"} => task'[u] = task[u]
  BY DEF KeptOrIdle, Idle
<1>3. \A u \in Tasks : task'[u].pc \in {"adopt", "publish"} =>
        /\ \A m \in Nodes : ~Later(Account(m), Account(NodeOf[u]))
        /\ Account(NodeOf[u])' = Account(NodeOf[u])
  BY <1>1, <1>2 DEF AccountOK
<1>4. \A u \in Tasks : task'[u].pc \in {"adopt", "publish"} =>
        \A m \in Nodes : ~Later(Account(m)', Account(NodeOf[u])')
  BY <1>3 DEF Later
<1>5. \A u, v \in Tasks : task'[u].alock # None /\ task'[v].alock # None => u = v
  BY <1>2 DEF AccountOK
<1>6. \A u \in Tasks : task'[u].pc = "publish" /\ task'[u].op # "rotate" =>
        Account(NodeOf[u])'.val = None
  BY <1>2, <1>3 DEF AccountOK, At
<1> QED
  BY <1>4, <1>5, <1>6 DEF AccountOK, At, Later

LEMMA MergeInv ==
    ASSUME Inv, NEW n \in Nodes, NEW m \in Nodes, db' = [db EXCEPT ![n] = Merged(n, m)],
           UNCHANGED <<clock, scenario, issued, weak, overrun>>, KeptOrIdle
    PROVE  Inv'
<1>1. Types /\ AccountOK /\ \A u \in Tasks : TaskOK(u)
  BY DEF Inv
<1>2. /\ db' \in [Nodes -> Replicas]
      /\ Account(n)' = Newest(Account(m), Account(n))
      /\ \A k \in Nodes \ {n} : Account(k)' = Account(k)
  BY <1>1, MergedReplicas DEF Account
<1>3. Types'
  BY <1>1, <1>2 DEF Types, KeptOrIdle
<1>4. \A t \in Tasks : TaskOK(t)' /\ \A x \in Leases : Holds(t, x)' \in {Holds(t, x), None}
  BY <1>1, KeptOrIdleTasks
<1>5. \A x \in Leases : LeaseOK(x)'
  BY <1>1, <1>4, LeaseMerged DEF Inv
<1>6. AccountOK'
  BY <1>1, <1>2, AccountSpreads DEF Newest
<1> QED
  BY <1>3, <1>4, <1>5, <1>6 DEF Inv

LEMMA QuietInv ==
    ASSUME Inv, UNCHANGED <<scenario, issued, db, weak, overrun>>, KeptOrIdle,
           clock' \in 0..MaxClock, clock' >= clock
    PROVE  Inv'
<1>1. Types /\ AccountOK /\ \A u \in Tasks : TaskOK(u)
  BY DEF Inv
<1>2. Types'
  BY <1>1 DEF Types, KeptOrIdle
<1>3. \A t \in Tasks : TaskOK(t)' /\ \A x \in Leases : Holds(t, x)' \in {Holds(t, x), None}
  BY <1>1, KeptOrIdleTasks
<1>4. ASSUME NEW x \in Leases
      PROVE  LeaseOK(x)'
  <2>1. LeaseOK(x) /\ weak \subseteq weak' /\ \A k \in Nodes : LockAt(k, x)' = LockAt(k, x)
    BY DEF Inv, LockAt
  <2> QED
    BY <1>1, <1>3, <2>1, LeaseKept
<1>5. AccountOK'
  BY <1>1, AccountSpreads DEF Account
<1> QED
  BY <1>2, <1>3, <1>4, <1>5 DEF Inv

LEMMA NodeInv ==
    ASSUME Inv, NEW n \in Nodes, NEW m \in Nodes,
           Sync(n, m) \/ RestartMisses(n, m) \/ Restart(n)
           \/ \E r \in Reloaders : ReloadLoad(n, r) \/ ReloadSet(n, r)
    PROVE  Inv'
<1>1. Types
  BY DEF Inv
<1>2. clock' = clock /\ UNCHANGED <<scenario, issued, weak, overrun>>
  BY DEF Sync, RestartMisses, Restart, Restarted, ReloadLoad, ReloadSet
<1>3. KeptOrIdle
  BY <1>1 DEF Types, KeptOrIdle, Sync, RestartMisses, Restart, Restarted, ReloadLoad, ReloadSet
<1>4. CASE db' = [db EXCEPT ![n] = Merged(n, m)]
  BY <1>2, <1>3, <1>4, MergeInv
<1>5. CASE db' = db
  <2>1. clock' \in 0..MaxClock /\ clock' >= clock
    BY <1>1, <1>2 DEF Types
  <2> QED
    BY <1>2, <1>3, <1>5, <2>1, QuietInv
<1> QED
  BY <1>4, <1>5 DEF Sync, RestartMisses, Restart, ReloadLoad, ReloadSet

LEMMA TickInv ==
    ASSUME Inv, Tick \/ UNCHANGED vars
    PROVE  Inv'
<1>1. Types
  BY DEF Inv
<1>2. UNCHANGED <<scenario, issued, db, weak, overrun, task>>
  BY DEF Tick, vars
<1>3. clock' \in 0..MaxClock /\ clock' >= clock
  BY <1>1, BoundsAssumption DEF Tick, vars, Types
<1>4. KeptOrIdle
  BY <1>1, <1>2 DEF Types, KeptOrIdle
<1> QED
  BY <1>2, <1>3, <1>4, QuietInv

LEMMA InitInv ==
    ASSUME Init
    PROVE  Inv
<1>1. Types
  <2>1. Unwritten(None) \in Versions(Locks) /\ Unwritten(None) \in Versions(Published)
        /\ Unwritten([no |-> 1, at |-> 0]) \in Versions(Published)
    BY DEF Unwritten, Versions, Published
  <2>2. clock \in 0..MaxClock /\ issued \in Nat /\ scenario \in Scenarios /\ DOMAIN task = Tasks
    BY BoundsAssumption DEF Init
  <2>3. db \in [Nodes -> Replicas]
    BY <2>1 DEF Init, Replicas
  <2> QED
    BY <2>2, <2>3 DEF Types
<1>2. \A t \in Tasks : task[t] = Idle
  BY DEF Init
<1>3. ASSUME NEW t \in Tasks
      PROVE  TaskOK(t)
  <2>1. task[t] = Idle
    BY <1>2
  <2> QED
    BY <2>1 DEF TaskOK, At, Idle, Fields, Steps, Ops
<1>4. \A t \in Tasks, x \in Leases : Holds(t, x) = None
  BY <1>2 DEF Holds, Idle
<1>5. \A x \in Leases : LeaseOK(x)
  <2>1. \A n \in Nodes, x \in Leases : LockAt(n, x) = Unwritten(None)
    BY DEF Init, LockAt
  <2> QED
    BY <1>4, <2>1 DEF LeaseOK, OneVersion, HeldByOne, Unexpired
<1>6. AccountOK
  BY <1>2 DEF AccountOK, Idle, At
<1> QED
  BY <1>1, <1>3, <1>5, <1>6 DEF Inv

LEMMA StepInv ==
    ASSUME Inv, NEW t \in Tasks, Step(t)
    PROVE  Inv'
BY TakeLockInv, MoveInv, UpdateInv, TakeAccountInv, AdoptInv, PublishInv, FreeAccountInv, OrderInv, SaveInv,
   FinishInv, Zenon DEF Step

LEMMA UpNodes ==
    ASSUME Inv
    PROVE  Up \subseteq Nodes
<1>1. scenario \in Scenarios
  BY DEF Inv, Types
<1> QED
  BY <1>1, ScenariosAssumption, TasksAssumption DEF Up

(* Types, leases and the account, in every reachable state.                *)
THEOREM InvariantHolds == Spec => []Inv
<1>1. ASSUME Inv, [Next]_vars
      PROVE  Inv'
  <2>1. CASE Tick \/ UNCHANGED vars
    BY <1>1, <2>1, TickInv
  <2>2. ASSUME NEW t \in Tasks, Step(t)
        PROVE  Inv'
    BY <1>1, <2>2, StepInv
  <2>3. ASSUME NEW t \in Tasks, NEW d \in Domains, NEW forced \in BOOLEAN, Decide(t, d, forced)
        PROVE  Inv'
    BY <1>1, <2>3, DecideInv
  <2>4. ASSUME NEW t \in Tasks, NEW d \in Domains, NEW at \in 0..clock, Import(t, d, at)
        PROVE  Inv'
    BY <1>1, <2>4, ImportInv
  <2>5. ASSUME NEW t \in Tasks, NEW op \in {"rotate", "ensure", "caa"}, Admin(t, op)
        PROVE  Inv'
    BY <1>1, <2>5, AdminInv
  <2>6. ASSUME NEW n \in Up, NEW m \in Up, Sync(n, m) \/ RestartMisses(n, m)
        PROVE  Inv'
    BY <1>1, <2>6, UpNodes, NodeInv
  <2>7. ASSUME NEW n \in Up, NEW d \in Domains, ForceRelease(n, d)
        PROVE  Inv'
    BY <1>1, <2>7, UpNodes, ForceReleaseInv
  <2>8. ASSUME NEW n \in Up, Restart(n) \/ \E r \in Reloaders : ReloadLoad(n, r) \/ ReloadSet(n, r)
        PROVE  Inv'
    BY <1>1, <2>8, UpNodes, NodeInv
  <2> QED
    BY <1>1, <2>1, <2>2, <2>3, <2>4, <2>5, <2>6, <2>7, <2>8, Zenon DEF Next
<1> QED
  BY <1>1, InitInv, PTL DEF Spec

(* A lease stays in its holder's replica until it expires: no late holder, *)
(* merge, crash or restart deletes or replaces it.                         *)
THEOREM HolderKeepsLockHolds == Spec => []HolderKeepsLock
<1>1. Inv => HolderKeepsLock
  BY DEF Inv, LeaseOK, HeldByOne, HolderKeepsLock, LockAt, Read
<1> QED
  BY <1>1, InvariantHolds, PTL

(* The first account of the cluster is registered once: the task that      *)
(* publishes it still finds none.                                          *)
THEOREM FirstUseIsFirstHolds == Spec => []FirstUseIsFirst
<1>1. Inv => FirstUseIsFirst
  BY DEF Inv, AccountOK, FirstUseIsFirst, Account, Read
<1> QED
  BY <1>1, InvariantHolds, PTL

-----------------------------------------------------------------------------
(* What a node serves, when only its watcher reloads.                      *)
(* The task's last write is still to come: it will wake the watcher.       *)
Leaving(t) == At(t, "save") \/ (At(t, "release") /\ task[t].lock # None)

(* A node whose watcher has nothing to do serves what it stores, or a      *)
(* reload has loaded just that, or a write that wakes the watcher is ahead: *)
(* that of a task, or the end of another's lease.                          *)
ServedOK(n) ==
    dirty[n] = "no" =>
        /\ reload[n]["watcher"] # None => AsStored(n, reload[n]["watcher"])
        /\ \/ reload[n]["watcher"] # None
           \/ ServesStored(n)
           \/ \E t \in Tasks : NodeOf[t] = n /\ Leaving(t)
           \/ \E d \in Domains : Read(n, "lock", d) # None

Watched == /\ DOMAIN dirty = Nodes /\ DOMAIN served = Nodes /\ DOMAIN reload = Nodes
           /\ \A n \in Nodes : DOMAIN reload[n] = {"watcher"} /\ ServedOK(n)

SameKeys(n) == \A d \in Domains : /\ db'[n].lock[d] = db[n].lock[d]
                                  /\ db'[n].data[d] = db[n].data[d]

(* Time passes: a certificate that was refused stays refused.              *)
Onward == Types /\ clock' \in 0..MaxClock /\ clock' >= clock

LEMMA SameTime ==
    ASSUME Types, clock' = clock
    PROVE  Onward
BY DEF Onward, Types

LEMMA StillRefused ==
    ASSUME Onward, NEW n \in Nodes, SameKeys(n), NEW d \in Domains
    PROVE  /\ Read(n, "data", d)' = Read(n, "data", d)
           /\ ~Accepts(Read(n, "data", d)) => ~Accepts(Read(n, "data", d))'
<1>1. Read(n, "data", d)' = Read(n, "data", d)
  BY DEF Read, SameKeys
<1>2. Read(n, "data", d) \in Published \cup {None}
  BY DEF Onward, Types, Replicas, Versions, Leases, Read
<1> QED
  BY <1>1, <1>2, BoundsAssumption DEF Onward, Types, Accepts, Published

LEMMA StillLoaded ==
    ASSUME Onward, NEW n \in Nodes, SameKeys(n), reload'[n] = reload[n],
           AsStored(n, reload[n]["watcher"])
    PROVE  AsStored(n, reload[n]["watcher"])'
BY StillRefused DEF AsStored

LEMMA StillServed ==
    ASSUME Onward, NEW n \in Nodes, ServedOK(n), dirty'[n] = dirty[n], reload'[n] = reload[n],
           served'[n] = served[n], SameKeys(n),
           \A t \in Tasks : NodeOf[t] = n /\ Leaving(t) => Leaving(t)'
    PROVE  ServedOK(n)'
<1> SUFFICES ASSUME dirty'[n] = "no"
             PROVE  /\ reload'[n]["watcher"] # None => AsStored(n, reload[n]["watcher"])'
                    /\ \/ reload'[n]["watcher"] # None
                       \/ ServesStored(n)'
                       \/ \E t \in Tasks : NodeOf[t] = n /\ Leaving(t)'
                       \/ \E d \in Domains : Read(n, "lock", d)' # None
  BY DEF ServedOK
<1>1. AsStored(n, reload[n]["watcher"]) => AsStored(n, reload[n]["watcher"])'
  BY StillLoaded
<1>2. ServesStored(n) => ServesStored(n)'
  BY StillRefused DEF ServesStored, AsStored
<1>3. \A d \in Domains : Read(n, "lock", d)' = Read(n, "lock", d)
  BY DEF Read, SameKeys
<1> QED
  BY <1>1, <1>2, <1>3 DEF ServedOK

LEMMA Woken ==
    ASSUME NEW n \in Nodes, dirty'[n] # "no"
    PROVE  ServedOK(n)'
BY DEF ServedOK

(* A write to a key of a domain wakes the watcher of its node, one to the  *)
(* keys of the account does not.                                           *)
LEMMA PutWakes ==
    ASSUME Types, NEW n \in Nodes, NEW x \in Leases, NEW val,
           Put(n, "lock", x, val) \/ Put(n, "data", x, val)
    PROVE  /\ dirty' = [dirty EXCEPT ![n] = IF x \in Domains THEN "yes" ELSE @]
           /\ \A m \in Nodes : m # n \/ x \notin Domains => SameKeys(m)
<1>1. CASE Put(n, "lock", x, val)
  BY <1>1 DEF Put, SameKeys, Types, Replicas
<1>2. CASE Put(n, "data", x, val)
  BY <1>2 DEF Put, SameKeys, Types, Replicas
<1> QED
  BY <1>1, <1>2

(* A step of a task that writes no key of a domain.                        *)
LEMMA QuietTask ==
    ASSUME Onward, Watched, NEW t \in Tasks, Others(t), ~Leaving(t), UNCHANGED <<served, reload>>,
           DOMAIN dirty' = Nodes, \A n \in Nodes : dirty'[n] = dirty[n] /\ SameKeys(n)
    PROVE  Watched'
<1>1. \A u \in Tasks : Leaving(u) => Leaving(u)'
  BY DEF Others, Leaving, At
<1>2. ASSUME NEW n \in Nodes
      PROVE  ServedOK(n)'
  <2>1. ServedOK(n) /\ served'[n] = served[n] /\ reload'[n] = reload[n]
    BY DEF Watched
  <2> QED
    BY <1>1, <2>1, StillServed
<1> QED
  BY <1>2 DEF Watched

(* A step of a task that writes one.                                       *)
LEMMA WakingTask ==
    ASSUME Onward, Watched, NEW t \in Tasks, Others(t), UNCHANGED <<served, reload>>,
           dirty' = [dirty EXCEPT ![NodeOf[t]] = "yes"],
           \A n \in Nodes : n # NodeOf[t] => SameKeys(n)
    PROVE  Watched'
<1>1. \A u \in Tasks : u # t /\ Leaving(u) => Leaving(u)'
  BY DEF Others, Leaving, At
<1>2. ASSUME NEW n \in Nodes
      PROVE  ServedOK(n)'
  <2>1. CASE n = NodeOf[t]
    BY <2>1, Woken DEF Watched
  <2>2. CASE n # NodeOf[t]
    <3>1. ServedOK(n) /\ served'[n] = served[n] /\ reload'[n] = reload[n] /\ dirty'[n] = dirty[n]
      BY <2>2 DEF Watched
    <3>2. \A u \in Tasks : NodeOf[u] = n /\ Leaving(u) => Leaving(u)'
      BY <1>1, <2>2
    <3> QED
      BY <2>2, <3>1, <3>2, StillServed
  <2> QED
    BY <2>1, <2>2
<1>3. DOMAIN dirty' = Nodes
  BY DEF Watched
<1> QED
  BY <1>2, <1>3 DEF Watched

LEMMA StepWatched ==
    ASSUME Inv, Watched, NEW t \in Tasks,
           \/ TakeLock(t) \/ Client(t) \/ TakeAccount(t) \/ Adopt(t) \/ Publish(t)
           \/ FreeAccount(t) \/ Order(t) \/ Attest(t) \/ Update(t) \/ Save(t) \/ Finish(t)
    PROVE  Watched'
<1> DEFINE n == NodeOf[t]
<1>1. /\ Types /\ TaskOK(t) /\ n \in Nodes /\ Acme \in Leases \ Domains /\ Domains \subseteq Leases
      /\ DOMAIN task = Tasks /\ DOMAIN dirty = Nodes
  BY TasksAssumption, LeasesAssumption DEF Inv, Types, Leases, Watched
<1>2. Others(t)
  BY <1>1 DEF Others, TakeLock, Client, TakeAccount, Adopt, Publish, NewAccount, FreeAccount, Order, Attest,
              Update, Save, Finish, Do
<1>3. UNCHANGED <<served, reload>> /\ Onward
  <2>1. UNCHANGED <<served, reload, clock>>
    BY DEF TakeLock, Client, TakeAccount, Adopt, Publish, NewAccount, FreeAccount, Order, Attest, Update, Save,
           Finish, Same
  <2> QED
    BY <1>1, <2>1, SameTime
<1>4. ASSUME NEW x \in Leases, NEW val, Put(n, "lock", x, val) \/ Put(n, "data", x, val),
             x \in Domains \/ ~Leaving(t)
      PROVE  Watched'
  <2>1. CASE x \in Domains
    BY <1>1, <1>2, <1>3, <1>4, <2>1, PutWakes, WakingTask
  <2>2. CASE x \notin Domains
    <3>1. \A m \in Nodes : dirty'[m] = dirty[m] /\ SameKeys(m)
      BY <1>1, <1>4, <2>2, PutWakes
    <3>2. DOMAIN dirty' = Nodes
      BY <1>1, <1>4, <2>2, PutWakes
    <3> QED
      BY <1>2, <1>3, <1>4, <2>2, <3>1, <3>2, QuietTask
  <2> QED
    BY <2>1, <2>2
<1>5. ASSUME UNCHANGED <<db, dirty>>, ~Leaving(t)
      PROVE  Watched'
  BY <1>1, <1>2, <1>3, <1>5, QuietTask DEF SameKeys
<1>6. CASE Client(t) \/ Adopt(t) \/ Attest(t) \/ Update(t)
  BY <1>5, <1>6 DEF Client, Adopt, Attest, Update, At, Leaving
<1>7. CASE TakeLock(t) \/ Order(t)
  <2>1. task[t].dom \in Domains /\ ~Leaving(t)
    BY <1>1, <1>7 DEF TakeLock, Order, At, Leaving, TaskOK
  <2>2. UNCHANGED <<db, dirty>> \/ \E val : Put(n, "lock", task[t].dom, val) \/ Put(n, "data", task[t].dom, val)
    BY <1>7 DEF TakeLock, Order, Acquire
  <2>3. PICK d \in Domains : d = task[t].dom
    BY <2>1
  <2> QED
    BY <1>1, <1>4, <1>5, <2>1, <2>2, <2>3
<1>8. CASE TakeAccount(t) \/ Publish(t) \/ FreeAccount(t)
  <2>1. ~Leaving(t)
    BY <1>8 DEF TakeAccount, Publish, NewAccount, FreeAccount, At, Leaving
  <2>2. UNCHANGED <<db, dirty>> \/ \E val : Put(n, "lock", Acme, val) \/ Put(n, "data", Acme, val)
    BY <1>8 DEF TakeAccount, Publish, NewAccount, FreeAccount, Acquire, Release
  <2> QED
    BY <1>1, <1>4, <1>5, <2>1, <2>2
<1>9. CASE Save(t)
  <2>1. PICK d \in Domains : d = task[t].dom
    BY <1>1, <1>9 DEF Save, TaskOK, At
  <2>2. \E val : Put(n, "data", d, val)
    BY <1>9, <2>1 DEF Save
  <2> QED
    BY <1>1, <1>4, <2>2
<1>10. CASE Finish(t) /\ task[t].lock = None
  BY <1>5, <1>10 DEF Finish, At, Leaving
<1>11. CASE Finish(t) /\ task[t].lock # None
  <2>1. PICK d \in Domains : d = task[t].dom
    BY <1>1, <1>11 DEF TaskOK
  <2>2. Release(n, d, task[t].lock)
    BY <1>11, <2>1 DEF Finish
  <2>3. CASE MayRelease(n, d, task[t].lock)
    BY <1>1, <1>4, <2>2, <2>3 DEF Release
  <2>4. CASE ~MayRelease(n, d, task[t].lock)
    <3>1. UNCHANGED <<db, dirty>>
      BY <2>2, <2>4 DEF Release
    <3>2. \A m \in Nodes : /\ SameKeys(m) /\ dirty'[m] = dirty[m] /\ ServedOK(m)
                           /\ served'[m] = served[m] /\ reload'[m] = reload[m]
      BY <1>3, <3>1 DEF SameKeys, Watched
    <3>3. ServedOK(n)'
      <4>1. Read(n, "lock", d)' # None
        BY <2>4, <3>1 DEF MayRelease, Read
      <4>2. AsStored(n, reload[n]["watcher"]) => AsStored(n, reload[n]["watcher"])'
        BY <1>1, <1>3, <3>2, StillLoaded
      <4> QED
        BY <1>1, <3>2, <4>1, <4>2 DEF ServedOK
    <3>4. ASSUME NEW m \in Nodes, m # n
          PROVE  ServedOK(m)'
      <4>1. \A u \in Tasks : NodeOf[u] = m /\ Leaving(u) => Leaving(u)'
        BY <1>2, <3>4 DEF Others, Leaving, At
      <4> QED
        BY <1>3, <3>2, <4>1, StillServed
    <3> QED
      BY <1>1, <1>3, <3>1, <3>3, <3>4 DEF Watched
  <2> QED
    BY <2>3, <2>4
<1> QED
  BY <1>6, <1>7, <1>8, <1>9, <1>10, <1>11

LEMMA StartWatched ==
    ASSUME Inv, Watched, NEW t \in Tasks,
           \/ \E d \in Domains, forced \in BOOLEAN : Decide(t, d, forced)
           \/ \E d \in Domains, at \in 0..clock : Import(t, d, at)
           \/ \E op \in {"rotate", "ensure", "caa"} : Admin(t, op)
    PROVE  Watched'
<1>1. DOMAIN task = Tasks /\ DOMAIN dirty = Nodes
  BY DEF Inv, Types, Watched
<1>2. Others(t)
  BY <1>1 DEF Others, Decide, Import, Admin
<1>3. UNCHANGED <<served, reload, db, dirty, clock>> /\ ~Leaving(t)
  BY DEF Decide, Import, Admin, Start, Starts, At, Leaving
<1>4. Onward
  BY <1>3, SameTime DEF Inv
<1> QED
  BY <1>1, <1>2, <1>3, <1>4, QuietTask DEF SameKeys

(* The resolver is written by a task whose last write is still to come.    *)
LEMMA SwapWatched ==
    ASSUME Inv, Watched, NEW t \in Tasks, Swap(t)
    PROVE  Watched'
<1> DEFINE n == NodeOf[t]
<1>1. Types /\ TaskOK(t) /\ n \in Nodes /\ DOMAIN task = Tasks /\ DOMAIN task[t] = Fields
  BY TasksAssumption DEF Inv, Types, TaskOK
<1>2. /\ UNCHANGED <<reload, db, dirty>> /\ task[t].pc = "swap"
      /\ task' = [task EXCEPT ![t].pc = IF task[t].op = "import" THEN "save" ELSE "release",
                              ![t].seen = None]
      /\ DOMAIN served' = DOMAIN served /\ \A m \in Nodes : m # n => served'[m] = served[m]
  BY DEF Swap, At, Watched
<1>3. Leaving(t)' /\ Others(t) /\ Onward
  BY <1>1, <1>2 DEF Leaving, At, Others, Fields, TaskOK, Onward, Types, Swap
<1>4. ServedOK(n)'
  <2>1. ServedOK(n) /\ SameKeys(n) /\ reload'[n] = reload[n] /\ dirty'[n] = dirty[n]
    BY <1>1, <1>2 DEF SameKeys, Watched
  <2> QED
    BY <1>1, <1>3, <2>1, StillLoaded DEF ServedOK
<1>5. ASSUME NEW m \in Nodes, m # n
      PROVE  ServedOK(m)'
  <2>1. \A u \in Tasks : NodeOf[u] = m /\ Leaving(u) => Leaving(u)'
    BY <1>3, <1>5 DEF Others, Leaving, At
  <2>2. SameKeys(m) /\ dirty'[m] = dirty[m] /\ reload'[m] = reload[m] /\ ServedOK(m)
    BY <1>2 DEF SameKeys, Watched
  <2> QED
    BY <1>2, <1>3, <1>5, <2>1, <2>2, StillServed
<1> QED
  BY <1>2, <1>4, <1>5 DEF Watched

(* A step of node n: what the others serve and store is as before.         *)
LEMMA OneNodeWatched ==
    ASSUME Onward, Watched, NEW n \in Nodes, ServedOK(n)',
           DOMAIN dirty' = Nodes, DOMAIN served' = Nodes, DOMAIN reload' = Nodes,
           DOMAIN reload'[n] = {"watcher"},
           \A m \in Nodes \ {n} : dirty'[m] = dirty[m] /\ served'[m] = served[m]
                                  /\ reload'[m] = reload[m] /\ db'[m] = db[m],
           \A t \in Tasks : NodeOf[t] # n => task'[t] = task[t]
    PROVE  Watched'
<1>1. ASSUME NEW m \in Nodes \ {n}
      PROVE  ServedOK(m)'
  <2>1. \A u \in Tasks : NodeOf[u] = m /\ Leaving(u) => Leaving(u)'
    BY DEF Leaving, At
  <2>2. SameKeys(m) /\ ServedOK(m)
    BY DEF SameKeys, Watched
  <2> QED
    BY <2>1, <2>2, StillServed
<1> QED
  BY <1>1 DEF Watched

(* Whoever restarts serves what it stores and has not expired.             *)
LEMMA RestartWatched ==
    ASSUME Inv, Watched, Reloaders = {"watcher"}, NEW n \in Nodes, NEW m \in Nodes,
           Restart(n) \/ RestartMisses(n, m)
    PROVE  Watched'
<1>1. Types /\ DOMAIN dirty = Nodes /\ DOMAIN served = Nodes /\ DOMAIN reload = Nodes /\ Onward
  BY DEF Inv, Watched, Types, Onward, Restart, RestartMisses, Restarted
<1>2. Restarted(n) /\ dirty' = [dirty EXCEPT ![n] = dirty'[n]]
  BY <1>1 DEF Restart, RestartMisses
<1>3. /\ served' = [served EXCEPT ![n] = Built(n)]
      /\ reload' = [reload EXCEPT ![n] = [r \in Reloaders |-> None]]
      /\ \A t \in Tasks : NodeOf[t] # n => task'[t] = task[t]
  BY <1>2 DEF Restarted
<1>4. \A k \in Nodes \ {n} : db'[k] = db[k]
  BY <1>1 DEF Restart, RestartMisses, Types
<1>5. ServedOK(n)'
  <2>1. CASE Restart(n)
    <3>1. db' = db
      BY <2>1 DEF Restart
    <3>2. ServesStored(n)'
      BY <1>1, <1>2, <1>3, <3>1 DEF ServesStored, AsStored, Built, Accepts, Read, Restarted
    <3>3. reload'[n]["watcher"] = None
      BY <1>1, <1>3
    <3> QED
      BY <3>2, <3>3 DEF ServedOK
  <2>2. CASE RestartMisses(n, m)
    <3>1. dirty'[n] # "no"
      BY <1>1, <2>2 DEF RestartMisses
    <3> QED
      BY <3>1, Woken
  <2> QED
    BY <2>1, <2>2
<1> QED
  BY <1>1, <1>2, <1>3, <1>4, <1>5, OneNodeWatched

LEMMA SyncWatched ==
    ASSUME Inv, Watched, NEW n \in Nodes, NEW m \in Nodes, Sync(n, m)
    PROVE  Watched'
<1>1. Types /\ DOMAIN dirty = Nodes /\ DOMAIN served = Nodes /\ DOMAIN reload = Nodes /\ ServedOK(n)
      /\ DOMAIN reload[n] = {"watcher"} /\ Onward
  BY DEF Inv, Watched, Types, Onward, Sync
<1>2. /\ UNCHANGED <<served, reload, task>> /\ db' = [db EXCEPT ![n] = Merged(n, m)]
      /\ dirty' = [dirty EXCEPT ![n] = IF Differ(Merged(n, m), db[n]) THEN "yes" ELSE @]
  BY DEF Sync
<1>3. db'[n] = Merged(n, m) /\ \A k \in Nodes \ {n} : db'[k] = db[k]
  BY <1>1, <1>2 DEF Types
<1>4. ServedOK(n)'
  <2>1. CASE Differ(Merged(n, m), db[n])
    <3>1. dirty'[n] = "yes"
      BY <1>1, <1>2, <2>1
    <3> QED
      BY <3>1, Woken
  <2>2. CASE ~Differ(Merged(n, m), db[n])
    <3>1. SameKeys(n)
      BY <1>3, <2>2 DEF Differ, SameKeys
    <3>2. dirty'[n] = dirty[n] /\ served'[n] = served[n] /\ reload'[n] = reload[n]
      BY <1>1, <1>2, <2>2
    <3>3. \A t \in Tasks : Leaving(t) => Leaving(t)'
      BY <1>2 DEF Leaving, At
    <3> QED
      BY <1>1, <3>1, <3>2, <3>3, StillServed
  <2> QED
    BY <2>1, <2>2
<1>5. DOMAIN dirty' = Nodes /\ \A k \in Nodes \ {n} : dirty'[k] = dirty[k]
  BY <1>1, <1>2
<1> QED
  BY <1>1, <1>2, <1>3, <1>4, <1>5, OneNodeWatched

LEMMA ForceReleaseWatched ==
    ASSUME Inv, Watched, NEW n \in Nodes, NEW d \in Domains, ForceRelease(n, d)
    PROVE  Watched'
<1>1. Types /\ DOMAIN dirty = Nodes /\ DOMAIN served = Nodes /\ DOMAIN reload = Nodes
      /\ DOMAIN reload[n] = {"watcher"} /\ Onward
  BY DEF Inv, Watched, Types, Onward, ForceRelease
<1>2. UNCHANGED <<served, reload, task>> /\ dirty' = [dirty EXCEPT ![n] = "yes"]
      /\ db' = [db EXCEPT ![n].lock[d] = Written(@, n, None)]
  BY DEF ForceRelease
<1>3. \A k \in Nodes \ {n} : db'[k] = db[k]
  BY <1>1, <1>2 DEF Types
<1>4. ServedOK(n)' /\ DOMAIN dirty' = Nodes /\ \A k \in Nodes \ {n} : dirty'[k] = dirty[k]
  BY <1>1, <1>2, Woken
<1> QED
  BY <1>1, <1>2, <1>3, <1>4, OneNodeWatched

(* A reload with no change behind it installs what is stored and has not   *)
(* expired.                                                                *)
LEMMA ReloadWatched ==
    ASSUME Inv, Watched, Reloaders = {"watcher"}, NEW n \in Nodes,
           \E r \in Reloaders : ReloadLoad(n, r) \/ ReloadSet(n, r)
    PROVE  Watched'
<1>1. /\ Types /\ DOMAIN dirty = Nodes /\ DOMAIN served = Nodes /\ DOMAIN reload = Nodes
      /\ ServedOK(n) /\ DOMAIN reload[n] = {"watcher"}
  BY DEF Inv, Watched
<1>2. UNCHANGED <<db, task, clock>> /\ Onward
  BY <1>1 DEF ReloadLoad, ReloadSet, Onward, Types
<1>3. Built(n) # None
  <2>1. \A d \in Domains : db[n].data[d].val \in Published \cup {None}
    BY <1>1 DEF Types, Replicas, Versions, Leases
  <2>2. Built(n) \in [Domains -> Published \cup {None}]
    BY <2>1 DEF Built, Read
  <2> QED
    BY <2>2, NoneAssumption DEF Published
<1>4. CASE ReloadLoad(n, "watcher")
  <2>1. /\ served' = served /\ reload' = [reload EXCEPT ![n]["watcher"] = Built(n)]
        /\ dirty' = [dirty EXCEPT ![n] = IF "watcher" = "admin" /\ @ = "yes" THEN @ ELSE "no"]
    BY <1>4 DEF ReloadLoad
  <2>2. reload'[n]["watcher"] = Built(n) /\ DOMAIN reload' = Nodes /\ DOMAIN reload'[n] = {"watcher"}
        /\ \A k \in Nodes \ {n} : reload'[k] = reload[k]
    BY <1>1, <2>1
  <2>3. AsStored(n, reload[n]["watcher"])'
    BY <1>2, <2>2 DEF AsStored, Built, Accepts, Read
  <2>4. ServedOK(n)'
    BY <1>3, <2>2, <2>3 DEF ServedOK
  <2>5. DOMAIN dirty' = Nodes /\ \A k \in Nodes \ {n} : dirty'[k] = dirty[k]
    BY <1>1, <2>1
  <2> QED
    BY <1>1, <1>2, <2>1, <2>2, <2>4, <2>5, OneNodeWatched
<1>5. CASE ReloadSet(n, "watcher")
  <2>1. /\ dirty' = dirty /\ reload[n]["watcher"] # None
        /\ reload' = [reload EXCEPT ![n]["watcher"] = None]
        /\ served' = [served EXCEPT ![n] = reload[n]["watcher"]]
    BY <1>5 DEF ReloadSet
  <2>2. reload'[n]["watcher"] = None /\ DOMAIN reload' = Nodes /\ DOMAIN reload'[n] = {"watcher"}
        /\ \A k \in Nodes \ {n} : reload'[k] = reload[k]
    BY <1>1, <2>1
  <2>3. /\ served'[n] = reload[n]["watcher"] /\ DOMAIN served' = Nodes
        /\ \A k \in Nodes \ {n} : served'[k] = served[k]
    BY <1>1, <2>1
  <2>4. ServedOK(n)'
    <3>1. dirty'[n] = "no" => AsStored(n, reload[n]["watcher"])
      BY <1>1, <2>1 DEF ServedOK
    <3>2. dirty'[n] = "no" => ServesStored(n)'
      BY <1>2, <2>3, <3>1 DEF ServesStored, AsStored, Accepts, Read
    <3> QED
      BY <2>2, <3>2 DEF ServedOK
  <2> QED
    BY <1>1, <1>2, <2>1, <2>2, <2>3, <2>4, OneNodeWatched
<1> QED
  BY <1>4, <1>5

LEMMA TickWatched ==
    ASSUME Inv, Watched, Tick \/ UNCHANGED vars
    PROVE  Watched'
<1>1. UNCHANGED <<served, reload, db, dirty, task>> /\ Onward
  BY BoundsAssumption DEF Tick, vars, Inv, Types, Onward
<1>2. ASSUME NEW n \in Nodes
      PROVE  ServedOK(n)'
  <2>1. SameKeys(n) /\ ServedOK(n) /\ \A t \in Tasks : Leaving(t) => Leaving(t)'
    BY <1>1 DEF SameKeys, Watched, Leaving, At
  <2> QED
    BY <1>1, <2>1, StillServed
<1> QED
  BY <1>1, <1>2 DEF Watched

LEMMA WatchedInit ==
    ASSUME Init, Reloaders = {"watcher"}
    PROVE  Watched
<1>1. ASSUME NEW n \in Nodes
      PROVE  ServedOK(n)
  <2>1. \A d \in Domains : Read(n, "data", d) = None /\ served[n][d] = None
    BY LeasesAssumption DEF Init, Read, Unwritten, Leases
  <2>2. ServesStored(n) /\ reload[n]["watcher"] = None
    BY <2>1 DEF Init, ServesStored, AsStored
  <2> QED
    BY <2>2 DEF ServedOK
<1> QED
  BY <1>1 DEF Init, Watched

(* A node at rest whose watcher has handled every change serves what it    *)
(* stores, all but what has expired, if only the watcher reloads (an       *)
(* admin's ReloadCert is the exception of README, section 6).              *)
THEOREM ServedIsStoredHolds ==
    ASSUME Reloaders = {"watcher"}
    PROVE  Spec => []ServedIsStored
<1>1. ASSUME Inv, Watched, [Next]_vars
      PROVE  Watched'
  <2>1. CASE Tick \/ UNCHANGED vars
    BY <1>1, <2>1, TickWatched
  <2>2. ASSUME NEW t \in Tasks, Step(t)
        PROVE  Watched'
    BY <1>1, <2>2, StepWatched, SwapWatched, Zenon DEF Step
  <2>3. ASSUME NEW t \in Tasks,
               \/ \E d \in Domains, forced \in BOOLEAN : Decide(t, d, forced)
               \/ \E d \in Domains, at \in 0..clock : Import(t, d, at)
               \/ \E op \in {"rotate", "ensure", "caa"} : Admin(t, op)
        PROVE  Watched'
    BY <1>1, <2>3, StartWatched
  <2>4. ASSUME NEW n \in Up, NEW m \in Up, Sync(n, m) \/ RestartMisses(n, m)
        PROVE  Watched'
    BY <1>1, <2>4, UpNodes, SyncWatched, RestartWatched
  <2>5. ASSUME NEW n \in Up, NEW d \in Domains, ForceRelease(n, d)
        PROVE  Watched'
    BY <1>1, <2>5, UpNodes, ForceReleaseWatched
  <2>6. ASSUME NEW n \in Up, Restart(n) \/ \E r \in Reloaders : ReloadLoad(n, r) \/ ReloadSet(n, r)
        PROVE  Watched'
    BY <1>1, <2>6, UpNodes, RestartWatched, ReloadWatched
  <2> QED
    BY <1>1, <2>1, <2>2, <2>3, <2>4, <2>5, <2>6, Zenon DEF Next
<1>2. Watched => ServedIsStored
  <2>1. ASSUME NEW n \in Nodes, ServedOK(n), AtRest(n), dirty[n] = "no"
        PROVE  ServesStored(n)
    BY <2>1 DEF ServedOK, AtRest, Leaving, At
  <2> QED
    BY <2>1 DEF Watched, ServedIsStored
<1>3. Init => Watched
  BY WatchedInit
<1> QED
  BY <1>1, <1>2, <1>3, InvariantHolds, PTL DEF Spec
=============================================================================
