--------------------------- MODULE VmLifecycleProofs ---------------------------
(* Proofs about VmLifecycle, for any number of threads and interfaces.     *)
EXTENDS VmLifecycle, FiniteSetTheorems, TLAPS

-----------------------------------------------------------------------------
(* The launch lock.  The places of an operation, and of the removal, at    *)
(* which it holds the lock.                                                *)
Launching == {"s_flag", "s_gpu", "s_release", "s_prep", "s_undo", "s_config",
              "s_deploy", "s_fail"}
Locked == Launching \cup {"s_wait", "s_note", "p_stop", "p_release", "u_net", "u_put",
                          "n_release"}
RmLocked == {"stop", "poll", "release", "delete", "rmdir", "forget"}

LockOK == /\ \A t \in Threads : th[t].pc \in Locked <=> lock = t
          /\ rm.pc \in RmLocked <=> lock = "rm"
          /\ "config" \in orphan <=> lock = "config"
          /\ removing <=> rm.pc # "idle"

(* What a holder of the lock knows: the VM is not running where it works   *)
(* on its interfaces, and netd has answered for the ones already prepared. *)
HolderOK(t) ==
    /\ th[t].pc \in Launching \cup {"n_release"} => ~Running
    /\ th[t].pc = "p_release" => sv # "run"
    /\ th[t].pc = "s_prep" => /\ th[t].n \in 1..nics
                              /\ \A k \in Nics : k < th[t].n => k \in held
                              /\ th[t].n > 1 => netq = <<>>
    /\ th[t].pc = "s_undo" => th[t].n > 0
    /\ th[t].pc \in {"s_config", "s_deploy"} => /\ 1..nics \subseteq held
                                                /\ nics > 0 => netq = <<>>

RemovalOK == rm.pc \in {"release", "delete", "rmdir", "forget"} => ~Running

Inv == /\ Types
       /\ LockOK
       /\ \A t \in Threads : HolderOK(t)
       /\ RemovalOK
       /\ LiveKeepsNics

-----------------------------------------------------------------------------
(* Without concurrent reloads (the start-up scan is not one): who is       *)
(* active during the scan and during a creation.                           *)
ScanPcs == {"l_mark", "l_read", "l_add", "l_resume"}
LaunchSites == Launching \cup {"s_enter", "s_lock", "s_wait", "s_note", "a_decide"}
LaunchOps == {"start", "create", "auto", "boot"}
Alone(t) == \A u \in Threads \ {t} : th[u] = Idle

ThreadOK(t) ==
    /\ th[t].pc = "idle" => th[t] = Idle
    /\ th[t].pc # "idle" /\ th[t].op # "boot" => up = "up"
    /\ th[t].op = "boot" => up = "booting" /\ Alone(t)
    /\ th[t].pc \notin {"l_dirs", "l_scan"}
    /\ th[t].pc \in ScanPcs => th[t].op = "boot"
    /\ th[t].pc = "c_remove" => th[t].op = "create"
    /\ th[t].pc \in LaunchSites => th[t].op \in LaunchOps
    /\ th[t].pc = "c_load" =>
         /\ th[t].op = "create" /\ Alone(t) /\ ~loaded /\ ~removing /\ sv = "absent"
         /\ held = {} /\ netq = <<>> /\ Config \subseteq files

(* The marker, the files QEMU needs and the flag, where a launch relies on *)
(* them.                                                                   *)
NoPrepare == \A i \in 1..Len(netq) : netq[i].op # "prepare"
LaunchOK(t) ==
    /\ th[t].pc = "s_prep" => "pending" \in files
    /\ th[t].pc = "s_prep" /\ th[t].n = 1 /\ ~th[t].hb => held = {} /\ NoPrepare
    /\ th[t].pc \in Launching \ {"s_flag", "s_fail", "s_undo"} => Config \subseteq files
    /\ th[t].pc \in Launching \cup {"s_wait", "s_note"} => ~down
    /\ th[t].pc \in {"s_enter", "s_lock"} /\ th[t].op = "boot" => ~down

DiskOK == /\ up # "up" => ~removing
          /\ NetdMarked
          /\ NoDeleteUnderQemu
          /\ down => ~started
          /\ "pending" \notin rm.todo
          /\ rm.pc = "delete" \/ rm.todo = {}

SerialInv == /\ \A t \in Threads : ThreadOK(t)
             /\ \A t \in Threads : LaunchOK(t)
             /\ DiskOK

(* No crash either: memory and disk.                                       *)
Updating == {"u_net", "u_put"}
NoCrashInv ==
    /\ MemoryMatchesDisk
    /\ up = "up"
    /\ files # {} => dir
    /\ rm.pc # "idle" => rm.del
    /\ rm.pc = "unmark" => ~loaded
    /\ rm.pc \in {"forget", "unmark"} /\ dir => "removing" \in files
    /\ \A t \in Threads : th[t].pc \in Updating =>
          /\ rm.pc # "unmark"
          /\ ~removing => loaded \/ "removing" \in files

-----------------------------------------------------------------------------
(* How a thread moves.                                                     *)
Moved(t) == /\ th' \in [Threads -> ThreadState]
            /\ \A u \in Threads \ {t} : th'[u] = th[u]

LEMMA IdleType == Idle \in ThreadState /\ Idle.pc = "idle" /\ Idle.op = "none"
BY BoundsAssumption DEF Idle, ThreadState, Pcs

LEMMA IdleMoves ==
    ASSUME Types, NEW t \in Threads, th' = [th EXCEPT ![t] = Idle]
    PROVE  Moved(t) /\ th'[t] = Idle /\ th'[t].pc = "idle"
BY IdleType DEF Types, Moved

LEMMA SetMoves ==
    ASSUME Types, NEW t \in Threads, NEW r \in ThreadState, th' = [th EXCEPT ![t] = r]
    PROVE  Moved(t) /\ th'[t] = r
BY DEF Types, Moved

LEMMA GotoMoves ==
    ASSUME Types, NEW t \in Threads, NEW pc \in Pcs, Goto(t, pc)
    PROVE  /\ Moved(t)
           /\ th'[t].pc = pc /\ th'[t].op = th[t].op /\ th'[t].n = th[t].n
           /\ th'[t].hb = th[t].hb /\ th'[t].mk = th[t].mk /\ th'[t].kn = th[t].kn
<1> DEFINE r == [th[t] EXCEPT !.pc = pc]
<1>1. th[t] \in ThreadState
  BY DEF Types
<1>2. /\ r \in ThreadState /\ r.pc = pc /\ r.op = th[t].op /\ r.n = th[t].n
      /\ r.hb = th[t].hb /\ r.mk = th[t].mk /\ r.kn = th[t].kn
  BY <1>1 DEF ThreadState
<1>3. th' = [th EXCEPT ![t] = r]
  BY DEF Goto
<1> HIDE DEF r
<1> QED BY <1>2, <1>3, SetMoves

LEMMA BeginMoves ==
    ASSUME Types, NEW t \in Threads, NEW op, NEW pc \in Pcs, Begin(t, op, pc)
    PROVE  /\ Moved(t)
           /\ th'[t].pc = pc /\ th'[t].op = op /\ th'[t].n = 0
           /\ th[t].pc = "idle" /\ up = "up" /\ op \in Ops /\ Known
<1> DEFINE r == [Idle EXCEPT !.pc = pc, !.op = op]
<1>1. op \in Ops /\ th[t].pc = "idle" /\ up = "up" /\ Known /\ th' = [th EXCEPT ![t] = r]
  BY DEF Begin, At
<1>2. r \in ThreadState /\ r.pc = pc /\ r.op = op /\ r.n = 0
  BY <1>1, IdleType DEF Idle, ThreadState
<1> HIDE DEF r
<1> QED BY <1>1, <1>2, SetMoves

LEMMA ReturnMoves ==
    ASSUME Types, NEW t \in Threads, NEW ok, Return(t, ok)
    PROVE  /\ Moved(t)
           /\ \/ /\ th'[t].pc = "l_resume" /\ th[t].op \in {"reload", "boot"}
                 /\ th'[t].op = th[t].op /\ th'[t].mk = th[t].mk /\ th'[t].kn = th[t].kn
              \/ /\ th'[t].pc = "c_remove" /\ th[t].op = "create"
                 /\ th'[t].op = th[t].op
              \/ th'[t].pc = "idle" /\ th'[t] = Idle
<1> DEFINE r == CASE th[t].op \in {"reload", "boot"} -> [th[t] EXCEPT !.pc = "l_resume", !.n = 0, !.hb = FALSE]
                  [] th[t].op = "create" /\ ~ok -> [th[t] EXCEPT !.pc = "c_remove", !.n = 0, !.hb = FALSE]
                  [] OTHER -> Idle
<1>1. th[t] \in ThreadState /\ 0 \in 0..NicCount
  BY BoundsAssumption DEF Types
<1>2. th' = [th EXCEPT ![t] = r]
  BY DEF Return
<1>3. CASE th[t].op \in {"reload", "boot"}
  <2>1. r = [th[t] EXCEPT !.pc = "l_resume", !.n = 0, !.hb = FALSE]
    BY <1>3
  <2>2. /\ r \in ThreadState /\ r.pc = "l_resume"
        /\ r.op = th[t].op /\ r.mk = th[t].mk /\ r.kn = th[t].kn
    BY <1>1, <2>1 DEF ThreadState, Pcs
  <2> HIDE DEF r
  <2> QED BY <1>2, <1>3, <2>2, SetMoves
<1>4. CASE th[t].op = "create" /\ ~ok
  <2>1. r = [th[t] EXCEPT !.pc = "c_remove", !.n = 0, !.hb = FALSE]
    BY <1>4
  <2>2. r \in ThreadState /\ r.pc = "c_remove" /\ r.op = th[t].op
    BY <1>1, <2>1 DEF ThreadState, Pcs
  <2> HIDE DEF r
  <2> QED BY <1>2, <1>4, <2>2, SetMoves
<1>5. CASE th[t].op \notin {"reload", "boot"} /\ ~(th[t].op = "create" /\ ~ok)
  <2>1. r = Idle
    BY <1>5
  <2> HIDE DEF r
  <2> QED BY <1>2, <2>1, IdleMoves
<1> QED BY <1>3, <1>4, <1>5

-----------------------------------------------------------------------------
(* The shapes of a step, as far as the lock and the interfaces go.         *)

(* QEMU does not come up.                                                  *)
NoRise == /\ Running' => Running
          /\ sv' = "run" => sv = "run" /\ used' = used

RmSame == \/ UNCHANGED <<removing, rm>>
          \/ ~removing /\ removing' /\ rm'.pc = "lock"

(* A thread that has no lock, before and after.                            *)
LEMMA OutsideLock ==
    ASSUME Inv, Types', NEW t \in Threads, Moved(t),
           th[t].pc \notin Locked, th'[t].pc \notin Locked,
           UNCHANGED <<lock, orphan, netd>>,
           nics' = nics \/ \A u \in Threads : th[u].pc \notin Locked,
           RmSame, NoRise
    PROVE  Inv'
<1>1. LockOK'
  BY ThreadsAssumption DEF Inv, LockOK, Moved, RmSame, RmLocked
<1>2. ASSUME NEW u \in Threads PROVE HolderOK(u)'
  <2>1. CASE u = t
    BY <2>1 DEF HolderOK, Locked, Launching
  <2>2. CASE u # t /\ th[u].pc \in Locked
    <3>1. th'[u] = th[u] /\ HolderOK(u) /\ nics' = nics
      BY <2>2 DEF Moved, Inv
    <3> QED BY <3>1 DEF HolderOK, NoRise, Running, netd
  <2>3. CASE u # t /\ th[u].pc \notin Locked
    BY <2>3 DEF HolderOK, Locked, Launching, Moved
  <2> QED BY <2>1, <2>2, <2>3
<1>3. RemovalOK'
  BY DEF Inv, RemovalOK, RmSame, NoRise
<1>4. LiveKeepsNics'
  BY DEF Inv, LiveKeepsNics, NoRise, netd
<1> QED BY <1>1, <1>2, <1>3, <1>4 DEF Inv

(* A thread takes the lock.                                                *)
LEMMA TakesLock ==
    ASSUME Inv, Types', NEW t \in Threads, Moved(t), lock = Free, lock' = t,
           th'[t].pc \in {"s_wait", "s_note", "s_flag", "p_stop", "u_net", "u_put", "n_release"},
           th'[t].pc \in {"s_flag", "n_release"} => ~Running,
           UNCHANGED <<orphan, netd, nics, svc, removing, rm>>
    PROVE  Inv'
<1>1. LockOK'
  <2>1. \A u \in Threads : th[u].pc \notin Locked
    BY ThreadsAssumption DEF Inv, LockOK
  <2>2. th'[t].pc \in Locked
    BY DEF Locked, Launching
  <2>3. \A u \in Threads : th'[u].pc \in Locked <=> lock' = u
    BY <2>1, <2>2 DEF Moved
  <2>4. t # "rm" /\ t # "config" /\ rm.pc \notin RmLocked /\ "config" \notin orphan
    BY ThreadsAssumption DEF Inv, LockOK
  <2> QED BY <2>3, <2>4 DEF Inv, LockOK
<1>2. ASSUME NEW u \in Threads PROVE HolderOK(u)'
  <2>1. CASE u = t
    BY <2>1 DEF HolderOK, Launching, Running, svc
  <2>2. CASE u # t
    <3>1. th'[u] = th[u] /\ HolderOK(u)
      BY <2>2 DEF Moved, Inv
    <3> QED BY <3>1 DEF HolderOK, Running, netd, svc
  <2> QED BY <2>1, <2>2
<1>3. RemovalOK' /\ LiveKeepsNics'
  BY DEF Inv, RemovalOK, LiveKeepsNics, netd, svc, Running
<1> QED BY <1>1, <1>2, <1>3 DEF Inv

(* The holder goes on, or gives the lock back.                             *)
LEMMA HolderMoves ==
    ASSUME Inv, Types', NEW t \in Threads, Moved(t), th[t].pc \in Locked,
           IF th'[t].pc \in Locked THEN lock' = lock ELSE lock' = Free,
           HolderOK(t)', LiveKeepsNics',
           UNCHANGED <<orphan, removing, rm>>
    PROVE  Inv'
<1>1. lock = t /\ \A u \in Threads : u # t => th[u].pc \notin Locked
  BY DEF Inv, LockOK
<1>2. LockOK'
  BY <1>1, ThreadsAssumption DEF Inv, LockOK, Moved
<1>3. ASSUME NEW u \in Threads, u # t PROVE HolderOK(u)'
  BY <1>1, <1>3 DEF HolderOK, Locked, Launching, Moved
<1>4. RemovalOK'
  <2>1. rm.pc \notin RmLocked
    BY <1>1, ThreadsAssumption DEF Inv, LockOK
  <2> QED BY <2>1 DEF RmLocked, RemovalOK
<1> QED BY <1>2, <1>3, <1>4 DEF Inv

-----------------------------------------------------------------------------
(* What the calls to netd and to the supervisor do.                        *)
LEMMA QueueAppend ==
    ASSUME Types, NEW r \in Requests, netq' = Append(netq, r)
    PROVE  /\ netq' \in Seq(Requests) /\ Len(netq') = Len(netq) + 1
           /\ \A i \in 1..Len(netq) : netq'[i] = netq[i]
           /\ netq'[Len(netq')] = r
BY DEF Types

LEMMA QueueTail ==
    ASSUME Types, netq # <<>>, netq' = Tail(netq)
    PROVE  /\ netq' \in Seq(Requests) /\ Len(netq') <= Len(netq)
           /\ \A i \in 1..Len(netq') : i + 1 \in 1..Len(netq) /\ netq'[i] = netq[i + 1]
           /\ 1 \in 1..Len(netq) /\ Head(netq) = netq[1] /\ Head(netq) \in Requests
BY DEF Types

LEMMA OutcomesType ==
    ASSUME Types, NEW r \in Requests, NEW h \in Outcomes(r)
    PROVE  /\ h \subseteq Nics
           /\ r.op # "prepare" => h \subseteq held
           /\ r.op = "prepare" => h \subseteq held \cup {r.nic}
           /\ r.op # "sweep" => \A k \in held : k # r.nic => k \in h
<1>1. r.op \in {"prepare", "remove", "sweep"} /\ (r.op # "sweep" => r.nic \in Nics)
  BY DEF Requests
<1>2. held \subseteq Nics
  BY DEF Types
<1>3. CASE r.op = "prepare"
  BY <1>1, <1>2, <1>3 DEF Outcomes
<1>4. CASE r.op = "remove"
  BY <1>1, <1>2, <1>4 DEF Outcomes
<1>5. CASE r.op = "sweep"
  BY <1>1, <1>2, <1>5 DEF Outcomes
<1> QED BY <1>1, <1>3, <1>4, <1>5

NetdTypes == held \subseteq Nics /\ netq \in Seq(Requests) /\ Len(netq) <= MaxQueue

(* A call keeps the types, and unless it is a Prepare nothing more is held *)
(* and no Prepare is queued.                                               *)
NoMore == held' \subseteq held /\ (NoPrepare => NoPrepare')

LEMMA CallFailsEffect ==
    ASSUME Types, NEW op, NEW n, [op |-> op, nic |-> n] \in Requests, CallFails(op, n)
    PROVE  NetdTypes' /\ (op # "prepare" => NoMore)
<1> DEFINE r == [op |-> op, nic |-> n]
<1>1. r.op = op /\ r.nic = n /\ r \in Requests
  OBVIOUS
<1> HIDE DEF r
<1>2. CASE UNCHANGED netd
  BY <1>2 DEF netd, Types, NetdTypes, NoMore, NoPrepare
<1>3. CASE held' \in Outcomes(r) /\ UNCHANGED netq
  <2>1. held' \subseteq Nics /\ (op # "prepare" => held' \subseteq held)
    BY <1>1, <1>3, OutcomesType
  <2> QED BY <1>3, <2>1 DEF Types, NetdTypes, NoMore, NoPrepare
<1>4. CASE Queued(op, n)
  <2>1. netq' = Append(netq, r) /\ held' = held /\ Len(netq) < MaxQueue
    BY <1>4 DEF Queued, r
  <2>2. /\ netq' \in Seq(Requests) /\ Len(netq') = Len(netq) + 1
        /\ \A i \in 1..Len(netq) : netq'[i] = netq[i]
        /\ netq'[Len(netq')] = r
    BY <1>1, <2>1, QueueAppend
  <2>3. Len(netq) \in Nat /\ MaxQueue \in Nat
    BY BoundsAssumption DEF Types
  <2>4. NetdTypes'
    BY <2>1, <2>2, <2>3 DEF Types, NetdTypes
  <2>5. op # "prepare" /\ NoPrepare => NoPrepare'
    <3> SUFFICES ASSUME op # "prepare", NoPrepare, NEW i \in 1..Len(netq')
                 PROVE  netq'[i].op # "prepare"
      BY DEF NoPrepare
    <3>1. i \in 1..Len(netq) \/ i = Len(netq')
      BY <2>2, <2>3
    <3> QED BY <1>1, <2>2, <3>1 DEF NoPrepare
  <2> QED BY <2>1, <2>4, <2>5 DEF NoMore
<1> QED BY <1>2, <1>3, <1>4 DEF CallFails, r

(* Releasing what netd holds, when it says so, leaves nothing behind.      *)
LEMMA ReleaseEffect ==
    ASSUME Types, NEW ok \in BOOLEAN, Release(ok)
    PROVE  /\ NetdTypes' /\ NoMore
           /\ files' \subseteq files /\ files \ {"pending"} \subseteq files'
           /\ "pending" \in files' => "pending" \in files
           /\ "pending" \in files /\ "pending" \notin files' => held' = {} /\ netq' = <<>>
           /\ ok => "pending" \notin files'
<1>1. [op |-> "sweep", nic |-> 0] \in Requests
  BY DEF Requests
<1>2. CASE ok /\ "pending" \notin files /\ UNCHANGED <<netd, files>>
  BY <1>2 DEF netd, Types, NetdTypes, NoMore, NoPrepare
<1>3. CASE ok /\ "pending" \in files /\ Answered /\ held' = {}
           /\ files' = files \ {"pending"} /\ UNCHANGED netq
  BY <1>3 DEF Answered, Types, NetdTypes, NoMore, NoPrepare
<1>4. CASE ~ok /\ "pending" \in files /\ CallFails("sweep", 0) /\ UNCHANGED files
  BY <1>1, <1>4, CallFailsEffect
<1> QED BY <1>2, <1>3, <1>4 DEF Release

LEMMA StopProcessEffect ==
    ASSUME Types, NEW ok \in BOOLEAN, StopProcess(ok)
    PROVE  /\ sv' \in SvStates /\ used' = used /\ NoRise
           /\ ok => sv' # "run" /\ sv # "stopping"
           /\ sv = "absent" => sv' = "absent"
           /\ sv' # "run"
BY DEF StopProcess, Types, SvStates, NoRise, Running

-----------------------------------------------------------------------------
(* Steps of a thread that has no lock.                                     *)
Rest == <<vmm, mem, lock, disk, svc, netd, rm, orphan, down>>

LEMMA ThreadOnly ==
    ASSUME Inv, NEW t \in Threads, Moved(t),
           th[t].pc \notin Locked, th'[t].pc \notin Locked, UNCHANGED Rest
    PROVE  Inv'
<1>1. /\ UNCHANGED <<up, crashes, loaded, removing, lock, dir, files, started, nics>>
      /\ UNCHANGED <<sv, used, held, netq, rm, orphan, down>> /\ UNCHANGED netd
  BY DEF Rest, vmm, mem, disk, svc, netd
<1>2. Types'
  BY <1>1 DEF Inv, Types, Moved
<1>3. RmSame /\ NoRise
  BY <1>1 DEF RmSame, NoRise, Running
<1> QED BY <1>1, <1>2, <1>3, OutsideLock

LEMMA BeginStep ==
    ASSUME Inv, NEW t \in Threads, NEW op, NEW pc \in Pcs \ Locked,
           Begin(t, op, pc), UNCHANGED Rest
    PROVE  Inv'
<1>1. Moved(t) /\ th'[t].pc = pc /\ th[t].pc = "idle"
  BY BeginMoves DEF Inv
<1>2. "idle" \notin Locked
  BY DEF Locked, Launching
<1> QED BY <1>1, <1>2, ThreadOnly

LEMMA ReloadStep ==
    ASSUME Inv, NEW t \in Threads, Reload(t)
    PROVE  Inv'
<1> DEFINE r == [Idle EXCEPT !.pc = "l_dirs", !.op = "reload", !.kn = (sv # "absent")]
<1>1. "reload" \in Ops /\ th[t].pc = "idle" /\ th' = [th EXCEPT ![t] = r] /\ UNCHANGED Rest
  BY DEF Reload, At, Rest
<1>2. r \in ThreadState /\ r.pc = "l_dirs"
  BY <1>1, IdleType DEF Idle, ThreadState, Pcs
<1> HIDE DEF r
<1>3. Moved(t) /\ th'[t].pc = "l_dirs"
  BY <1>1, <1>2, SetMoves DEF Inv
<1> QED BY <1>1, <1>3, ThreadOnly DEF Locked, Launching

LEMMA CreateStep ==
    ASSUME Inv, NEW t \in Threads, Create(t)
    PROVE  Inv'
<1> DEFINE r == [Idle EXCEPT !.pc = "c_load", !.op = "create", !.mk = started']
<1>1. /\ "create" \in Ops /\ th[t].pc = "idle" /\ th' = [th EXCEPT ![t] = r]
      /\ started' \in BOOLEAN
      /\ \A u \in Threads : th[u].pc \in {"idle", "l_dirs", "l_scan", "l_mark"}
      /\ dir' = TRUE /\ files' = Config \cup {"state"} /\ nics' \in 0..NicCount
      /\ down' = FALSE
      /\ UNCHANGED <<up, crashes, loaded, removing, lock, sv, used, held, netq, rm, orphan>>
  BY DEF Create, At, vmm, mem, svc, netd
<1>2. r \in ThreadState /\ r.pc = "c_load"
  BY <1>1, IdleType DEF Idle, ThreadState, Pcs
<1> HIDE DEF r
<1>3. Moved(t) /\ th'[t].pc = "c_load"
  BY <1>1, <1>2, SetMoves DEF Inv
<1>4. Types'
  BY <1>1, <1>3 DEF Inv, Types, Moved, Config, FileNames
<1>5. \A u \in Threads : th[u].pc \notin Locked
  BY <1>1 DEF Locked, Launching
<1>6. RmSame /\ NoRise /\ UNCHANGED <<lock, orphan, netd>>
  BY <1>1 DEF RmSame, NoRise, Running, netd
<1> QED BY <1>3, <1>4, <1>5, <1>6, OutsideLock DEF Locked, Launching

(* A cancelled request gives the lock back, or leaves it to the            *)
(* configuration of QEMU.                                                  *)
LEMMA CancelStep ==
    ASSUME Inv, NEW t \in Threads, Cancel(t)
    PROVE  Inv'
<1>1. /\ th' = [th EXCEPT ![t] = Idle] /\ lock' = LockAfterCancel(t)
      /\ orphan' = orphan \cup BlockingTask(t) /\ BlockingTask(t) \cap orphan = {}
      /\ UNCHANGED <<up, crashes, loaded, removing, dir, files, started, nics>>
      /\ UNCHANGED <<sv, used, held, netq, rm, down>>
  BY DEF Cancel, vmm, mem, disk, svc, netd
<1>2. Moved(t) /\ th'[t].pc = "idle"
  BY <1>1, IdleMoves DEF Inv
<1>3. "idle" \notin Locked /\ "s_config" \in Locked /\ Free # "config" /\ Free # "rm"
      /\ t # "rm" /\ t # "config" /\ t # Free
  BY ThreadsAssumption DEF Locked, Launching
<1>4. CASE At(t, "s_config")
  <2>1. lock' = "config" /\ orphan' = orphan \cup {"config"} /\ lock = t
    BY <1>1, <1>3, <1>4 DEF LockAfterCancel, BlockingTask, Inv, LockOK, At
  <2>2. LockOK'
    <3>1. \A u \in Threads : th'[u].pc \notin Locked /\ lock' # u
      BY <1>2, <1>3, <2>1, ThreadsAssumption DEF Inv, LockOK, Moved
    <3> QED BY <1>1, <1>3, <2>1, <3>1 DEF Inv, LockOK
  <2>3. Types'
    BY <1>1, <1>2, <2>1 DEF Inv, Types, Moved
  <2> QED BY <1>1, <1>2, <2>2, <2>3
          DEF Inv, HolderOK, RemovalOK, LiveKeepsNics, Moved, Running, Launching
<1>5. CASE ~At(t, "s_config")
  <2>1. /\ lock' = IF lock = t THEN Free ELSE lock
        /\ orphan' \in {orphan, orphan \cup {"gpu"}}
    BY <1>1, <1>5 DEF LockAfterCancel, BlockingTask
  <2>2. LockOK'
    BY <1>1, <1>2, <1>3, <2>1, ThreadsAssumption DEF Inv, LockOK, Moved
  <2>3. Types'
    BY <1>1, <1>2, <2>1 DEF Inv, Types, Moved
  <2> QED BY <1>1, <1>2, <2>2, <2>3
          DEF Inv, HolderOK, RemovalOK, LiveKeepsNics, Moved, Running, Launching
<1> QED BY <1>4, <1>5

LEMMA RequestStep ==
    ASSUME Inv, NEW t \in Threads, Request(t)
    PROVE  Inv'
<1>1. {"s_lock", "a_decide", "p_lock", "v_stop", "u_lock", "n_lock", "e_write"}
        \subseteq Pcs \ Locked
  BY DEF Pcs, Locked, Launching
<1>2. CASE Start(t)
  BY <1>1, <1>2, BeginStep DEF Start, Rest
<1>3. CASE AutoList(t)
  BY <1>1, <1>3, BeginStep DEF AutoList, Rest
<1>4. CASE Stop(t)
  BY <1>1, <1>4, BeginStep DEF Stop, Rest
<1>5. CASE SvStop(t)
  BY <1>1, <1>5, BeginStep DEF SvStop, Rest
<1>6. CASE Update(t)
  BY <1>1, <1>6, BeginStep DEF Update, Rest
<1>7. CASE Reconcile(t)
  BY <1>1, <1>7, BeginStep DEF Reconcile, Rest
<1>8. CASE Event(t)
  BY <1>1, <1>8, BeginStep DEF Event, Rest
<1> QED BY <1>2, <1>3, <1>4, <1>5, <1>6, <1>7, <1>8, ReloadStep, CreateStep, CancelStep
        DEF Request

-----------------------------------------------------------------------------
(* Steps of a launch.                                                      *)
Outside == Pcs \ Locked

LEMMA Places ==
    /\ {"idle", "l_resume", "c_remove", "s_enter", "s_lock", "l_scan", "l_mark", "l_read",
        "l_add", "c_load", "a_decide", "p_lock", "v_stop", "u_lock", "n_lock", "e_write",
        "l_dirs"} \subseteq Outside
    /\ Launching \subseteq Locked /\ Locked \subseteq Pcs
    /\ {"s_wait", "s_note", "p_stop", "p_release", "u_net", "u_put", "n_release"} \subseteq Locked
BY DEF Outside, Pcs, Locked, Launching

(* Whoever ends an operation is outside the lock.                          *)
LEMMA ReturnOut ==
    ASSUME Types, NEW t \in Threads, NEW ok, Return(t, ok)
    PROVE  Moved(t) /\ th'[t].pc \notin Locked
BY ReturnMoves DEF Locked, Launching

(* The holder ends its operation while the VM is in a state that no call   *)
(* of netd can spoil.                                                      *)
LEMMA FinishStep ==
    ASSUME Inv, Types', NEW t \in Threads, th[t].pc \in Locked, Moved(t),
           th'[t].pc \notin Locked, lock' = Free, LiveKeepsNics',
           UNCHANGED <<orphan, removing, rm>>
    PROVE  Inv'
<1>1. HolderOK(t)'
  BY DEF HolderOK, Locked, Launching
<1> QED BY <1>1, HolderMoves

(* A holder's step that leaves the world alone.                            *)
LEMMA HolderOnly ==
    ASSUME Inv, NEW t \in Threads, Moved(t), th[t].pc \in Locked,
           IF th'[t].pc \in Locked THEN lock' = lock /\ HolderOK(t)' ELSE lock' = Free,
           UNCHANGED <<vmm, mem, disk, svc, netd, rm, orphan, down>>
    PROVE  Inv'
<1>1. /\ UNCHANGED <<up, crashes, loaded, removing, dir, files, started, nics>>
      /\ UNCHANGED <<sv, used, held, netq, rm, orphan, down>>
  BY DEF vmm, mem, disk, svc, netd
<1>2. Types'
  BY <1>1 DEF Inv, Types, Moved
<1>3. LiveKeepsNics'
  BY <1>1 DEF Inv, LiveKeepsNics
<1>4. HolderOK(t)'
  BY DEF HolderOK, Locked, Launching
<1> QED BY <1>1, <1>2, <1>3, <1>4, HolderMoves

LEMMA EnterStep ==
    ASSUME Inv, NEW t \in Threads, LaunchEnter(t)
    PROVE  Inv'
<1>1. th[t].pc = "s_enter" /\ UNCHANGED Rest /\ (Return(t, FALSE) \/ Goto(t, "s_lock"))
  BY DEF LaunchEnter, At, Rest
<1>2. CASE Return(t, FALSE)
  BY <1>1, <1>2, ReturnOut, ThreadOnly, Places DEF Inv, Outside
<1>3. CASE Goto(t, "s_lock")
  <2>1. Moved(t) /\ th'[t].pc = "s_lock"
    BY <1>3, GotoMoves DEF Inv, Pcs
  <2> QED BY <1>1, <2>1, ThreadOnly, Places DEF Outside
<1> QED BY <1>1, <1>2, <1>3

LEMMA LaunchBeginStep ==
    ASSUME Inv, NEW t \in Threads, LaunchBegin(t)
    PROVE  Inv'
<1>1. /\ th[t].pc = "s_lock" /\ lock = Free
      /\ UNCHANGED <<up, crashes, loaded, removing, dir, files, started, nics>>
      /\ UNCHANGED <<sv, used, held, netq, rm, orphan>>
  BY DEF LaunchBegin, At, vmm, mem, disk, svc, netd
<1>2. CASE Return(t, FALSE) /\ UNCHANGED <<lock, down>>
  <2>1. Moved(t) /\ th'[t].pc \notin Locked
    BY <1>2, ReturnOut DEF Inv
  <2>2. UNCHANGED Rest
    BY <1>1, <1>2 DEF Rest, vmm, mem, disk, svc, netd
  <2> QED BY <1>1, <2>1, <2>2, ThreadOnly, Places DEF Outside
<1>3. CASE lock' = t /\ Goto(t, LaunchTarget)
           /\ down' = (down /\ th[t].op \notin {"start", "create"})
  <2>1. LaunchTarget \in {"s_note", "s_wait", "s_flag"} /\ (LaunchTarget = "s_flag" => ~Running)
    BY DEF LaunchTarget, Running
  <2>2. Moved(t) /\ th'[t].pc = LaunchTarget
    BY <1>3, <2>1, GotoMoves DEF Inv, Pcs
  <2>3. down' \in BOOLEAN
    BY <1>3 DEF Inv, Types
  <2>4. Types'
    BY <1>1, <1>3, <2>2, <2>3 DEF Inv, Types, Moved
  <2> QED BY <1>1, <1>3, <2>1, <2>2, <2>4, TakesLock DEF netd, svc
<1> QED BY <1>2, <1>3 DEF LaunchBegin

LEMMA LaunchWaitsStep ==
    ASSUME Inv, NEW t \in Threads, LaunchWaits(t)
    PROVE  Inv'
<1>1. /\ th[t].pc = "s_wait" /\ ~Running /\ Goto(t, "s_flag") /\ lock' = lock
      /\ UNCHANGED <<vmm, mem, disk, svc, netd, rm, orphan, down>>
  BY DEF LaunchWaits, At
<1>2. Moved(t) /\ th'[t].pc = "s_flag"
  BY <1>1, GotoMoves DEF Inv, Pcs
<1>3. HolderOK(t)'
  BY <1>1, <1>2 DEF HolderOK, Running, svc
<1> QED BY <1>1, <1>2, <1>3, HolderOnly, Places DEF Locked, Launching

LEMMA LaunchFlagStep ==
    ASSUME Inv, NEW t \in Threads, LaunchFlag(t)
    PROVE  Inv'
<1>1. /\ th[t].pc \in {"s_note", "s_flag"}
      /\ UNCHANGED <<up, crashes, loaded, removing, dir, nics>>
      /\ UNCHANGED <<sv, used, held, netq, rm, orphan, down>>
  BY DEF LaunchFlag, At, vmm, mem, svc, netd
<1>2. files' \subseteq FileNames /\ started' \in BOOLEAN
  BY DEF LaunchFlag, Write, Inv, Types, FileNames
<1>3. LiveKeepsNics'
  BY <1>1 DEF Inv, LiveKeepsNics
<1>4. CASE th[t].pc = "s_flag" /\ Goto(t, "s_gpu") /\ UNCHANGED lock
  <2>1. Moved(t) /\ th'[t].pc = "s_gpu"
    BY <1>4, GotoMoves DEF Inv, Pcs
  <2>2. Types'
    BY <1>1, <1>2, <1>4, <2>1 DEF Inv, Types, Moved
  <2>3. ~Running
    BY <1>4 DEF Inv, HolderOK, Launching
  <2>4. HolderOK(t)'
    BY <1>1, <2>1, <2>3 DEF HolderOK, Running
  <2> QED BY <1>1, <1>3, <1>4, <2>1, <2>2, <2>4, HolderMoves DEF Locked, Launching
<1>5. CASE \E ok \in BOOLEAN : Finish(t, ok)
  <2>1. Moved(t) /\ th'[t].pc \notin Locked /\ lock' = Free
    BY <1>5, ReturnOut DEF Inv, Finish
  <2>2. Types'
    BY <1>1, <1>2, <2>1 DEF Inv, Types, Moved
  <2> QED BY <1>1, <1>3, <2>1, <2>2, FinishStep DEF Locked, Launching
<1>6. loaded \in BOOLEAN
  BY DEF Inv, Types
<1> QED BY <1>4, <1>5, <1>6 DEF LaunchFlag, At

LEMMA LaunchGpuStep ==
    ASSUME Inv, NEW t \in Threads, LaunchGpu(t)
    PROVE  Inv'
<1>1. /\ th[t].pc = "s_gpu" /\ Goto(t, "s_release") /\ lock' = lock
      /\ UNCHANGED <<vmm, mem, disk, svc, netd, rm, orphan, down>>
  BY DEF LaunchGpu, At
<1>2. Moved(t) /\ th'[t].pc = "s_release"
  BY <1>1, GotoMoves DEF Inv, Pcs
<1>3. HolderOK(t)'
  BY <1>1, <1>2 DEF Inv, HolderOK, Running, svc, Launching
<1> QED BY <1>1, <1>2, <1>3, HolderOnly DEF Locked, Launching

(* A holder's step that may call netd while no QEMU is there to lose an    *)
(* interface.                                                              *)
LEMMA NetdStep ==
    ASSUME Inv, NEW t \in Threads, Moved(t), th[t].pc \in Locked, sv # "run",
           NetdTypes', files' \subseteq FileNames,
           IF th'[t].pc \in Locked THEN lock' = lock /\ HolderOK(t)' ELSE lock' = Free,
           UNCHANGED <<vmm, mem, dir, started, nics, svc, rm, orphan, down>>
    PROVE  Inv'
<1>1. /\ UNCHANGED <<up, crashes, loaded, removing, dir, started, nics>>
      /\ UNCHANGED <<sv, used, rm, orphan, down>>
  BY DEF vmm, mem, svc
<1>2. Types'
  BY <1>1 DEF Inv, Types, Moved, NetdTypes
<1>3. LiveKeepsNics'
  BY <1>1 DEF LiveKeepsNics
<1>4. HolderOK(t)'
  BY DEF HolderOK, Locked, Launching
<1> QED BY <1>1, <1>2, <1>3, <1>4, HolderMoves

LEMMA LaunchingQuiet ==
    ASSUME Inv, NEW t \in Threads, th[t].pc \in Launching
    PROVE  ~Running /\ sv # "run" /\ th[t].pc \in Locked
BY DEF Inv, HolderOK, Running, Locked

LEMMA PrepareBeginStep ==
    ASSUME Inv, NEW t \in Threads, PrepareBegin(t)
    PROVE  Inv'
<1>1. /\ th[t].pc = "s_release" /\ lock' = lock
      /\ UNCHANGED <<vmm, mem, lock, dir, started, nics, svc, rm, orphan, down>>
  BY DEF PrepareBegin, At
<1>2. th[t].pc \in Locked /\ ~Running /\ sv # "run"
  BY <1>1, LaunchingQuiet DEF Launching
<1>3. PICK ok \in BOOLEAN :
         IF nics = 0
         THEN Release(ok) /\ Goto(t, "s_config")
         ELSE /\ IF "pending" \notin files THEN ok /\ UNCHANGED netd
                 ELSE \/ ok /\ Answered /\ held' = {} /\ UNCHANGED netq
                      \/ ~ok /\ CallFails("sweep", 0)
              /\ Write({"pending"})
              /\ th' = [th EXCEPT ![t].pc = "s_prep", ![t].n = 1, ![t].hb = ~ok]
  BY DEF PrepareBegin
<1>4. nics \in 0..NicCount /\ files \subseteq FileNames /\ nics' = nics /\ Types
  BY <1>1 DEF Inv, Types
<1>5. CASE nics = 0
  <2>1. NetdTypes' /\ files' \subseteq FileNames
    BY <1>3, <1>4, <1>5, ReleaseEffect
  <2>2. Moved(t) /\ th'[t].pc = "s_config"
    BY <1>3, <1>4, <1>5, GotoMoves DEF Pcs
  <2>3. HolderOK(t)'
    BY <1>1, <1>2, <1>4, <1>5, <2>2 DEF HolderOK, Running, svc
  <2> QED BY <1>1, <1>2, <2>1, <2>2, <2>3, NetdStep DEF Locked, Launching
<1>6. CASE nics # 0
  <2>1. [op |-> "sweep", nic |-> 0] \in Requests
    BY DEF Requests
  <2>2. NetdTypes'
    <3>1. CASE UNCHANGED netd
      BY <1>4, <3>1 DEF netd, Types, NetdTypes
    <3>2. CASE Answered /\ held' = {} /\ UNCHANGED netq
      BY <1>4, <3>2 DEF Types, NetdTypes
    <3>3. CASE CallFails("sweep", 0)
      BY <1>4, <2>1, <3>3, CallFailsEffect
    <3> QED BY <1>3, <1>6, <3>1, <3>2, <3>3
  <2>3. files' \subseteq FileNames
    BY <1>3, <1>4, <1>6 DEF Write, FileNames
  <2> DEFINE r == [th[t] EXCEPT !.pc = "s_prep", !.n = 1, !.hb = ~ok]
  <2>4. th' = [th EXCEPT ![t] = r]
    BY <1>3, <1>6
  <2>5. 1 \in 0..NicCount /\ 1 \in 1..nics /\ NicCount \in Nat
    BY <1>4, <1>6, BoundsAssumption
  <2>6. r \in ThreadState /\ r.pc = "s_prep" /\ r.n = 1
    BY <1>4, <2>5 DEF Types, ThreadState, Pcs
  <2> HIDE DEF r
  <2>7. Moved(t) /\ th'[t].pc = "s_prep" /\ th'[t].n = 1
    BY <1>4, <2>4, <2>6, SetMoves
  <2>8. HolderOK(t)'
    <3>1. \A k \in Nics : ~(k < 1)
      BY DEF Nics
    <3> QED BY <1>1, <1>2, <1>4, <2>5, <2>7, <3>1 DEF HolderOK, Running, svc, Launching
  <2> QED BY <1>1, <1>2, <2>2, <2>3, <2>7, <2>8, NetdStep DEF Locked, Launching
<1> QED BY <1>5, <1>6

LEMMA PrepareOkStep ==
    ASSUME Inv, NEW t \in Threads, PrepareOk(t)
    PROVE  Inv'
<1> DEFINE n == th[t].n
<1>1. /\ th[t].pc = "s_prep" /\ lock' = lock /\ netq = <<>> /\ held' = held \cup {n}
      /\ th' = IF n = nics THEN [th EXCEPT ![t].pc = "s_config"]
                           ELSE [th EXCEPT ![t].n = n + 1]
      /\ UNCHANGED <<vmm, mem, dir, started, nics, svc, rm, orphan, down>>
      /\ files' = files /\ netq' = netq /\ nics' = nics
  BY DEF PrepareOk, At, Answered, disk
<1>2. th[t].pc \in Locked /\ ~Running /\ sv # "run"
  BY <1>1, LaunchingQuiet DEF Launching
<1>3. /\ n \in 1..nics /\ nics \in 0..NicCount /\ NicCount \in Nat
      /\ \A k \in Nics : k < n => k \in held
  BY <1>1, BoundsAssumption DEF Inv, Types, HolderOK
<1>4. NetdTypes' /\ files' \subseteq FileNames
  BY <1>1, <1>3 DEF Inv, Types, NetdTypes, Nics
<1>5. CASE n = nics
  <2>1. Moved(t) /\ th'[t].pc = "s_config"
    BY <1>1, <1>5, GotoMoves DEF Inv, Pcs, Goto
  <2>2. 1..nics \subseteq held'
    BY <1>1, <1>3, <1>5 DEF Nics
  <2>3. HolderOK(t)'
    BY <1>1, <1>2, <2>1, <2>2 DEF HolderOK, Running, svc
  <2> QED BY <1>1, <1>2, <1>4, <2>1, <2>3, NetdStep DEF Locked, Launching
<1>6. CASE n # nics
  <2> DEFINE r == [th[t] EXCEPT !.n = n + 1]
  <2>1. th' = [th EXCEPT ![t] = r]
    BY <1>1, <1>6
  <2>2. r \in ThreadState /\ r.pc = "s_prep" /\ r.n = n + 1
    BY <1>1, <1>3, <1>6 DEF Inv, Types, ThreadState
  <2> HIDE DEF r
  <2>3. Moved(t) /\ th'[t].pc = "s_prep" /\ th'[t].n = n + 1
    BY <2>1, <2>2, SetMoves DEF Inv
  <2>4. /\ n + 1 \in 1..nics
        /\ \A k \in Nics : k < n + 1 => k \in held'
    BY <1>1, <1>3, <1>6 DEF Nics
  <2>5. HolderOK(t)'
    BY <1>1, <1>2, <2>3, <2>4 DEF HolderOK, Running, svc
  <2> QED BY <1>1, <1>2, <1>4, <2>3, <2>5, NetdStep DEF Locked, Launching
<1> QED BY <1>5, <1>6

LEMMA PrepareUnreachableStep ==
    ASSUME Inv, NEW t \in Threads, PrepareUnreachable(t)
    PROVE  Inv'
<1>1. /\ th[t].pc = "s_prep" /\ UNCHANGED netd
      /\ UNCHANGED <<vmm, mem, dir, started, nics, svc, rm, orphan, down>>
  BY DEF PrepareUnreachable, At
<1>2. th[t].pc \in Locked /\ ~Running /\ sv # "run"
  BY <1>1, LaunchingQuiet DEF Launching
<1>3. NetdTypes' /\ files' \subseteq FileNames
  BY <1>1 DEF Inv, Types, NetdTypes, netd, PrepareUnreachable
<1>4. CASE Finish(t, FALSE)
  BY <1>1, <1>2, <1>3, <1>4, ReturnOut, NetdStep DEF Inv, Finish
<1>5. CASE Goto(t, "s_undo") /\ UNCHANGED lock
  <2>1. Moved(t) /\ th'[t].pc = "s_undo" /\ th'[t].n = th[t].n
    BY <1>5, GotoMoves DEF Inv, Pcs
  <2>2. th[t].n > 0
    BY <1>1 DEF Inv, HolderOK, Types
  <2>3. HolderOK(t)'
    BY <1>1, <1>2, <2>1, <2>2 DEF HolderOK, Running, svc
  <2> QED BY <1>1, <1>2, <1>3, <1>5, <2>1, <2>3, NetdStep DEF Locked, Launching
<1> QED BY <1>4, <1>5 DEF PrepareUnreachable

LEMMA PrepareFailsStep ==
    ASSUME Inv, NEW t \in Threads, PrepareFails(t)
    PROVE  Inv'
<1> DEFINE n == th[t].n
<1>1. /\ th[t].pc = "s_prep" /\ CallFails("prepare", n) /\ Goto(t, "s_undo") /\ lock' = lock
      /\ UNCHANGED <<vmm, mem, dir, started, nics, svc, rm, orphan, down>> /\ files' = files
  BY DEF PrepareFails, At, disk
<1>2. th[t].pc \in Locked /\ ~Running /\ sv # "run"
  BY <1>1, LaunchingQuiet DEF Launching
<1>3. n \in 1..NicCount /\ n > 0
  BY <1>1, BoundsAssumption DEF Inv, HolderOK, Types
<1>4. [op |-> "prepare", nic |-> n] \in Requests
  BY <1>3 DEF Requests, Nics
<1>5. NetdTypes' /\ files' \subseteq FileNames
  BY <1>1, <1>4, CallFailsEffect DEF Inv, Types
<1>6. Moved(t) /\ th'[t].pc = "s_undo" /\ th'[t].n = n
  BY <1>1, GotoMoves DEF Inv, Pcs
<1>7. HolderOK(t)'
  BY <1>1, <1>2, <1>3, <1>6 DEF HolderOK, Running, svc
<1> QED BY <1>1, <1>2, <1>5, <1>6, <1>7, NetdStep DEF Locked, Launching

LEMMA PrepareUndoStep ==
    ASSUME Inv, NEW t \in Threads, PrepareUndo(t)
    PROVE  Inv'
<1> DEFINE n == th[t].n
<1>1. /\ th[t].pc = "s_undo"
      /\ \/ held' = held \ {n} /\ UNCHANGED netq
         \/ CallFails("remove", n)
      /\ IF n = 1 THEN Finish(t, FALSE) ELSE th' = [th EXCEPT ![t].n = n - 1] /\ UNCHANGED lock
      /\ UNCHANGED <<vmm, mem, dir, started, nics, svc, rm, orphan, down>> /\ files' = files
  BY DEF PrepareUndo, At, disk, UndoDone
<1>2. th[t].pc \in Locked /\ ~Running /\ sv # "run"
  BY <1>1, LaunchingQuiet DEF Launching
<1>3. n \in 1..NicCount /\ NicCount \in Nat
  BY <1>1, BoundsAssumption DEF Inv, HolderOK, Types, ThreadState
<1>4. [op |-> "remove", nic |-> n] \in Requests
  BY <1>3 DEF Requests, Nics
<1>5. NetdTypes' /\ files' \subseteq FileNames
  <2>1. CASE held' = held \ {n} /\ UNCHANGED netq
    BY <1>1, <2>1 DEF Inv, Types, NetdTypes
  <2>2. CASE CallFails("remove", n)
    BY <1>1, <1>4, <2>2, CallFailsEffect DEF Inv, Types
  <2> QED BY <1>1, <2>1, <2>2
<1>6. CASE n = 1
  BY <1>1, <1>2, <1>5, <1>6, ReturnOut, NetdStep DEF Inv, Finish
<1>7. CASE n # 1
  <2> DEFINE r == [th[t] EXCEPT !.n = n - 1]
  <2>1. th' = [th EXCEPT ![t] = r] /\ lock' = lock
    BY <1>1, <1>7
  <2>0. n - 1 \in 0..NicCount /\ n - 1 > 0 /\ th[t] \in ThreadState
    BY <1>3, <1>7 DEF Inv, Types
  <2>2. r \in ThreadState /\ r.pc = "s_undo" /\ r.n = n - 1
    BY <1>1, <2>0 DEF ThreadState
  <2> HIDE DEF r
  <2>3. Moved(t) /\ th'[t].pc = "s_undo" /\ th'[t].n > 0
    BY <2>0, <2>1, <2>2, SetMoves DEF Inv
  <2>4. HolderOK(t)'
    BY <1>1, <1>2, <2>3 DEF HolderOK, Running, svc
  <2> QED BY <1>1, <1>2, <1>5, <2>1, <2>3, <2>4, NetdStep DEF Locked, Launching
<1> QED BY <1>6, <1>7

(* The configuration of QEMU is done, or the deployment failed.            *)
LEMMA ConfiguredStep ==
    ASSUME Inv, NEW t \in Threads, ConfigDone(t) \/ DeployFails(t)
    PROVE  Inv'
<1>1. /\ th[t].pc \in {"s_config", "s_deploy"} /\ lock' = lock
      /\ \E pc \in {"s_deploy", "s_fail"} : Goto(t, pc)
      /\ UNCHANGED <<vmm, mem, disk, svc, netd, rm, orphan, down>>
  BY DEF ConfigDone, DeployFails, At
<1>2. Moved(t) /\ th'[t].pc \in {"s_deploy", "s_fail"}
  BY <1>1, GotoMoves DEF Inv, Pcs
<1>3. ~Running /\ th[t].pc \in Locked /\ HolderOK(t)
  BY <1>1, LaunchingQuiet DEF Launching, Inv
<1>4. HolderOK(t)'
  BY <1>1, <1>2, <1>3 DEF HolderOK, Running, svc, netd, disk
<1> QED BY <1>1, <1>2, <1>3, <1>4, HolderOnly DEF Locked, Launching

(* QEMU comes up with interfaces that are held and that no request on its  *)
(* way names.                                                              *)
LEMMA DeployStep ==
    ASSUME Inv, NEW t \in Threads, Deploy(t)
    PROVE  Inv'
<1>1. /\ th[t].pc = "s_deploy" /\ sv' = "run" /\ used' = 1..nics /\ Finish(t, TRUE)
      /\ UNCHANGED <<up, crashes, loaded, removing, dir, files, started, nics>>
      /\ UNCHANGED <<held, netq, rm, orphan, down>>
  BY DEF Deploy, At, vmm, mem, disk, netd
<1>2. Moved(t) /\ th'[t].pc \notin Locked /\ lock' = Free
  BY <1>1, ReturnOut DEF Inv, Finish
<1>3. 1..nics \subseteq held /\ (nics > 0 => netq = <<>>) /\ nics \in 0..NicCount
  BY <1>1 DEF Inv, HolderOK, Types
<1>4. Types'
  BY <1>1, <1>2, <1>3, BoundsAssumption DEF Inv, Types, Moved, SvStates, Nics
<1>5. LiveKeepsNics'
  <2>1. CASE nics > 0
    BY <1>1, <1>3, <2>1 DEF LiveKeepsNics
  <2>2. CASE nics = 0
    BY <1>1, <1>3, <2>2 DEF LiveKeepsNics
  <2> QED BY <1>3, <2>1, <2>2
<1> QED BY <1>1, <1>2, <1>4, <1>5, FinishStep DEF Locked, Launching

LEMMA LaunchFailedStep ==
    ASSUME Inv, NEW t \in Threads, LaunchFailed(t)
    PROVE  Inv'
<1>1. /\ th[t].pc = "s_fail" /\ Finish(t, FALSE)
      /\ UNCHANGED <<vmm, mem, dir, started, nics, svc, rm, orphan, down>>
  BY DEF LaunchFailed, At
<1>2. PICK ok \in BOOLEAN : Release(ok)
  BY DEF LaunchFailed
<1>3. th[t].pc \in Locked /\ sv # "run"
  BY <1>1, LaunchingQuiet DEF Launching
<1>4. NetdTypes' /\ files' \subseteq FileNames
  BY <1>2, ReleaseEffect DEF Inv, Types
<1> QED BY <1>1, <1>3, <1>4, ReturnOut, NetdStep DEF Inv, Finish

LEMMA LaunchStepInv ==
    ASSUME Inv, NEW t \in Threads, LaunchStep(t)
    PROVE  Inv'
BY EnterStep, LaunchBeginStep, LaunchWaitsStep, LaunchFlagStep, LaunchGpuStep,
   PrepareBeginStep, PrepareOkStep, PrepareUnreachableStep, PrepareFailsStep, PrepareUndoStep,
   ConfiguredStep, DeployStep, LaunchFailedStep
   DEF LaunchStep

-----------------------------------------------------------------------------
(* Steps of the other operations.                                          *)

(* Those that only move the thread.                                        *)
LEMMA QuietStep ==
    ASSUME Inv, NEW t \in Threads,
           AutoDecide(t) \/ ReloadDirs(t) \/ ReloadMark(t) \/ ReloadRead(t)
    PROVE  Inv'
<1>1. UNCHANGED Rest /\ th[t].pc \in {"a_decide", "l_dirs", "l_mark", "l_read"}
  BY DEF AutoDecide, ReloadDirs, ReloadMark, ReloadRead, At, Rest
<1>2. Types /\ th[t] \in ThreadState
  BY DEF Inv, Types
<1>3. CASE AutoDecide(t)
  <2>1. Goto(t, "s_enter") \/ th' = [th EXCEPT ![t] = Idle]
    BY <1>3 DEF AutoDecide
  <2>2. Moved(t) /\ th'[t].pc \in {"s_enter", "idle"}
    BY <1>2, <2>1, GotoMoves, IdleMoves DEF Pcs
  <2> QED BY <1>1, <2>2, ThreadOnly, Places DEF Outside
<1>4. CASE ReloadDirs(t)
  <2> DEFINE r == [th[t] EXCEPT !.pc = "l_scan", !.mk = dir]
  <2>1. th' = [th EXCEPT ![t] = r]
    BY <1>4 DEF ReloadDirs
  <2>2. r \in ThreadState /\ r.pc = "l_scan"
    BY <1>2 DEF Types, ThreadState, Pcs
  <2> HIDE DEF r
  <2> QED BY <1>1, <1>2, <2>1, <2>2, SetMoves, ThreadOnly, Places DEF Outside
<1>5. CASE ReloadMark(t)
  <2>0. PICK m \in BOOLEAN : m = ("removing" \in files)
    <3>1. CASE "removing" \in files
      <4>1. TRUE = ("removing" \in files)
        BY <3>1
      <4> QED BY <4>1
    <3>2. CASE "removing" \notin files
      <4>1. FALSE = ("removing" \in files)
        BY <3>2
      <4> QED BY <4>1
    <3> QED BY <3>1, <3>2
  <2>3. PICK pc \in {"l_read", "l_resume"} : pc = IF dir THEN "l_read" ELSE "l_resume"
    OBVIOUS
  <2> DEFINE r == [th[t] EXCEPT !.pc = pc, !.mk = m]
  <2>1. th' = [th EXCEPT ![t] = r]
    BY <1>5, <2>0, <2>3 DEF ReloadMark
  <2>2. r \in ThreadState /\ r.pc \in {"l_read", "l_resume"}
    BY <1>2, <2>0, <2>3 DEF ThreadState, Pcs
  <2> HIDE DEF r
  <2> QED BY <1>1, <1>2, <2>1, <2>2, SetMoves, ThreadOnly, Places DEF Outside
<1>6. CASE ReloadRead(t)
  <2>1. Goto(t, "l_add") \/ Goto(t, "l_resume")
    BY <1>6 DEF ReloadRead
  <2>2. Moved(t) /\ th'[t].pc \in {"l_add", "l_resume"}
    BY <1>2, <2>1, GotoMoves DEF Pcs
  <2> QED BY <1>1, <2>2, ThreadOnly, Places DEF Outside
<1> QED BY <1>3, <1>4, <1>5, <1>6

LEMMA SpawnEffect ==
    ASSUME Types, NEW yes, SpawnFinishRemove(yes)
    PROVE  RmSame /\ removing' \in BOOLEAN /\ rm' \in RemovalState
<1>1. CASE yes /\ ~removing
  <2>1. removing' = TRUE /\ rm' = [pc |-> "lock", del |-> FALSE, todo |-> {}]
    BY <1>1 DEF SpawnFinishRemove
  <2> QED BY <1>1, <2>1 DEF RmSame, RemovalState
<1>2. CASE ~(yes /\ ~removing)
  BY <1>2 DEF SpawnFinishRemove, Types, RmSame
<1> QED BY <1>1, <1>2

(* Those that change memory or files and have no lock.                     *)
LEMMA MemoryStep ==
    ASSUME Inv, NEW t \in Threads, Moved(t), th[t].pc \notin Locked, th'[t].pc \notin Locked,
           up' \in {"down", "booting", "up"}, loaded' \in BOOLEAN, removing' \in BOOLEAN,
           dir' \in BOOLEAN, files' \subseteq FileNames, started' \in BOOLEAN,
           rm' \in RemovalState, RmSame,
           UNCHANGED <<crashes, lock, nics, svc, netd, orphan, down>>
    PROVE  Inv'
<1>1. UNCHANGED <<sv, used, held, netq>>
  BY DEF svc, netd
<1>2. Types'
  BY <1>1 DEF Inv, Types, Moved
<1>3. NoRise
  BY <1>1 DEF NoRise, Running
<1> QED BY <1>2, <1>3, OutsideLock

LEMMA ScanStep ==
    ASSUME Inv, NEW t \in Threads, ReloadScan(t) \/ ReloadAdd(t) \/ ReloadResume(t)
    PROVE  Inv'
<1>0. Types /\ th[t] \in ThreadState
  BY DEF Inv, Types
<1>1. CASE ReloadScan(t)
  <2> DEFINE r == [th[t] EXCEPT !.pc = "l_mark", !.mk = FALSE]
  <2>1. /\ th[t].pc = "l_scan" /\ th' = [th EXCEPT ![t] = r]
        /\ SpawnFinishRemove(loaded /\ ~th[t].mk)
        /\ UNCHANGED <<up, crashes, loaded, lock, dir, files, started, nics, svc, netd, orphan, down>>
    BY <1>1 DEF ReloadScan, At, vmm, disk
  <2>2. r \in ThreadState /\ r.pc = "l_mark"
    BY <1>0 DEF ThreadState, Pcs
  <2> HIDE DEF r
  <2>3. Moved(t) /\ th'[t].pc = "l_mark"
    BY <1>0, <2>1, <2>2, SetMoves
  <2>4. RmSame /\ removing' \in BOOLEAN /\ rm' \in RemovalState
    BY <1>0, <2>1, SpawnEffect
  <2> QED BY <1>0, <2>1, <2>3, <2>4, MemoryStep, Places DEF Outside, Types
<1>2. CASE ReloadAdd(t)
  <2>1. /\ th[t].pc = "l_add" /\ loaded' = TRUE
        /\ Goto(t, "s_enter") \/ Goto(t, "l_resume")
        /\ UNCHANGED <<up, crashes, removing, lock, dir, files, started, nics, svc, netd, orphan, down>>
        /\ UNCHANGED <<removing, rm>>
    BY <1>2 DEF ReloadAdd, At, vmm, disk
  <2>2. Moved(t) /\ th'[t].pc \in {"s_enter", "l_resume"}
    BY <1>0, <2>1, GotoMoves DEF Pcs
  <2>3. RmSame
    BY <2>1 DEF RmSame
  <2> QED BY <1>0, <2>1, <2>2, <2>3, MemoryStep, Places DEF Outside, Types
<1>3. CASE ReloadResume(t)
  <2>1. /\ th[t].pc = "l_resume" /\ th' = [th EXCEPT ![t] = Idle]
        /\ SpawnFinishRemove(Resumes(t)) /\ up' \in {"up", up}
        /\ UNCHANGED <<crashes, loaded, lock, dir, files, started, nics, svc, netd, orphan, down>>
    BY <1>3 DEF ReloadResume, At, disk
  <2>2. Moved(t) /\ th'[t].pc = "idle"
    BY <1>0, <2>1, IdleMoves
  <2>3. RmSame /\ removing' \in BOOLEAN /\ rm' \in RemovalState
    BY <1>0, <2>1, SpawnEffect
  <2> QED BY <1>0, <2>1, <2>2, <2>3, MemoryStep, Places DEF Outside, Types
<1> QED BY <1>1, <1>2, <1>3

LEMMA ClaimEffect ==
    ASSUME Types, ClaimAndMark
    PROVE  /\ RmSame /\ removing' = TRUE /\ rm' \in RemovalState /\ rm'.pc = "lock"
           /\ ~removing /\ files' = files \cup {"removing"} /\ files' \subseteq FileNames
BY DEF ClaimAndMark, Write, Types, RmSame, RemovalState, FileNames

LEMMA CreationStep ==
    ASSUME Inv, NEW t \in Threads,
           CreateLoad(t) \/ CreateLoadFails(t) \/ CreateRemove(t) \/ EventWrite(t)
    PROVE  Inv'
<1>0. Types /\ th[t] \in ThreadState
  BY DEF Inv, Types
<1>1. /\ th[t].pc \in {"c_load", "c_remove", "e_write"}
      /\ Goto(t, "s_enter") \/ th' = [th EXCEPT ![t] = Idle]
      /\ UNCHANGED <<up, crashes, lock, nics, svc, netd, orphan, down>>
  BY DEF CreateLoad, CreateLoadFails, CreateRemove, EventWrite, At, vmm, disk
<1>2. Moved(t) /\ th'[t].pc \in {"s_enter", "idle"}
  BY <1>0, <1>1, GotoMoves, IdleMoves DEF Pcs
<1>3. /\ loaded' \in BOOLEAN /\ dir' \in BOOLEAN /\ started' \in BOOLEAN
      /\ files' \subseteq FileNames /\ removing' \in BOOLEAN
      /\ rm' \in RemovalState /\ RmSame
  <2>1. CASE CreateLoad(t)
    BY <1>0, <2>1 DEF CreateLoad, Types, RmSame, disk
  <2>2. CASE CreateLoadFails(t)
    BY <1>0, <2>2 DEF CreateLoadFails, Types, RmSame, mem
  <2>3. CASE CreateRemove(t)
    BY <1>0, <2>3, ClaimEffect DEF CreateRemove, Types, RmSame, mem, disk
  <2>4. CASE EventWrite(t)
    BY <1>0, <2>4 DEF EventWrite, Types, RmSame, mem, Write, FileNames
  <2> QED BY <2>1, <2>2, <2>3, <2>4
<1> QED BY <1>0, <1>1, <1>2, <1>3, MemoryStep, Places DEF Outside, Types

LEMMA SvStopStep ==
    ASSUME Inv, NEW t \in Threads, SvStopSignal(t)
    PROVE  Inv'
<1>1. /\ th[t].pc = "v_stop" /\ th' = [th EXCEPT ![t] = Idle]
      /\ UNCHANGED <<up, crashes, loaded, removing, lock, dir, files, started, nics>>
      /\ UNCHANGED <<held, netq, rm, orphan, down>> /\ UNCHANGED <<lock, orphan, netd>>
  BY DEF SvStopSignal, At, vmm, mem, disk, netd
<1>2. PICK ok \in BOOLEAN : StopProcess(ok)
  BY DEF SvStopSignal
<1>3. sv' \in SvStates /\ used' = used /\ NoRise
  BY <1>2, StopProcessEffect DEF Inv
<1>4. Moved(t) /\ th'[t].pc = "idle"
  BY <1>1, IdleMoves DEF Inv
<1>5. Types' /\ RmSame
  BY <1>1, <1>3, <1>4 DEF Inv, Types, Moved, RmSame
<1> QED BY <1>1, <1>3, <1>4, <1>5, OutsideLock, Places DEF Outside

LEMMA StopFlagStep ==
    ASSUME Inv, NEW t \in Threads, StopFlag(t)
    PROVE  Inv'
<1>1. /\ th[t].pc = "p_lock" /\ lock = Free
      /\ UNCHANGED <<up, crashes, loaded, removing, dir, nics>>
      /\ UNCHANGED <<sv, used, held, netq, rm, orphan>>
  BY DEF StopFlag, At, vmm, mem, svc, netd
<1>2. CASE dir
  <2>1. /\ lock' = t /\ Goto(t, "p_stop") /\ files' = files \cup {"state"}
        /\ started' = FALSE /\ down' = TRUE
    BY <1>2 DEF StopFlag, Write
  <2>2. Moved(t) /\ th'[t].pc = "p_stop"
    BY <2>1, GotoMoves DEF Inv, Pcs
  <2>3. Types'
    BY <1>1, <2>1, <2>2 DEF Inv, Types, Moved, FileNames
  <2> QED BY <1>1, <2>1, <2>2, <2>3, TakesLock DEF netd, svc
<1>3. CASE ~dir
  <2>1. th' = [th EXCEPT ![t] = Idle] /\ UNCHANGED Rest
    BY <1>1, <1>3 DEF StopFlag, Rest, vmm, mem, disk, svc, netd
  <2> QED BY <1>1, <2>1, IdleMoves, ThreadOnly, Places DEF Inv, Outside
<1> QED BY <1>2, <1>3

LEMMA StopSignalStep ==
    ASSUME Inv, NEW t \in Threads, StopSignal(t)
    PROVE  Inv'
<1>1. /\ th[t].pc = "p_stop"
      /\ UNCHANGED <<up, crashes, loaded, removing, dir, files, started, nics>>
      /\ UNCHANGED <<held, netq, rm, orphan, down>>
  BY DEF StopSignal, At, vmm, mem, disk, netd
<1>2. PICK ok \in BOOLEAN : /\ StopProcess(ok)
                            /\ IF ok THEN Goto(t, "p_release") /\ UNCHANGED lock
                                     ELSE Finish(t, FALSE)
  BY DEF StopSignal
<1>3. sv' \in SvStates /\ used' = used /\ sv' # "run"
  BY <1>2, StopProcessEffect DEF Inv
<1>4. LiveKeepsNics'
  BY <1>3 DEF LiveKeepsNics
<1>5. CASE ok
  <2>1. Moved(t) /\ th'[t].pc = "p_release" /\ lock' = lock
    BY <1>2, <1>5, GotoMoves DEF Inv, Pcs
  <2>2. Types'
    BY <1>1, <1>3, <2>1 DEF Inv, Types, Moved
  <2>3. HolderOK(t)'
    BY <1>3, <2>1 DEF HolderOK, Launching
  <2> QED BY <1>1, <1>4, <2>1, <2>2, <2>3, HolderMoves, Places
<1>6. CASE ~ok
  <2>1. Moved(t) /\ th'[t].pc \notin Locked /\ lock' = Free
    BY <1>2, <1>6, ReturnOut DEF Inv, Finish
  <2>2. Types'
    BY <1>1, <1>3, <2>1 DEF Inv, Types, Moved
  <2> QED BY <1>1, <1>4, <2>1, <2>2, FinishStep, Places
<1> QED BY <1>5, <1>6

LEMMA ReleasingStep ==
    ASSUME Inv, NEW t \in Threads, StopRelease(t) \/ ReconcileRelease(t)
    PROVE  Inv'
<1>1. /\ th[t].pc \in {"p_release", "n_release"} /\ Finish(t, TRUE)
      /\ UNCHANGED <<vmm, mem, dir, started, nics, svc, rm, orphan, down>>
  BY DEF StopRelease, ReconcileRelease, At
<1>2. PICK ok \in BOOLEAN : Release(ok)
  BY DEF StopRelease, ReconcileRelease
<1>3. th[t].pc \in Locked /\ sv # "run"
  BY <1>1, Places DEF Inv, HolderOK, Running
<1>4. NetdTypes' /\ files' \subseteq FileNames
  BY <1>2, ReleaseEffect DEF Inv, Types
<1> QED BY <1>1, <1>3, <1>4, ReturnOut, NetdStep DEF Inv, Finish

LEMMA UpdateBeginStep ==
    ASSUME Inv, NEW t \in Threads, UpdateBegin(t)
    PROVE  Inv'
<1>1. /\ th[t].pc = "u_lock" /\ lock = Free
      /\ UNCHANGED <<vmm, mem, disk, svc, netd, rm, orphan, down>>
      /\ UNCHANGED <<up, crashes, loaded, removing, dir, files, started, nics>>
      /\ UNCHANGED <<sv, used, held, netq, rm, orphan>>
  BY DEF UpdateBegin, At, vmm, mem, disk, svc, netd
<1>2. CASE lock' = t /\ \E pc \in {"u_net", "u_put"} : Goto(t, pc)
  <2>1. Moved(t) /\ th'[t].pc \in {"u_net", "u_put"}
    BY <1>2, GotoMoves DEF Inv, Pcs
  <2>2. Types'
    BY <1>1, <1>2, <2>1 DEF Inv, Types, Moved
  <2> QED BY <1>1, <1>2, <2>1, <2>2, TakesLock
<1>3. CASE th' = [th EXCEPT ![t] = Idle] /\ UNCHANGED lock
  <2>1. Moved(t) /\ th'[t].pc = "idle" /\ UNCHANGED Rest
    BY <1>1, <1>3, IdleMoves DEF Inv, Rest
  <2> QED BY <1>1, <2>1, ThreadOnly, Places DEF Outside
<1> QED BY <1>2, <1>3 DEF UpdateBegin

LEMMA UpdateNetStep ==
    ASSUME Inv, NEW t \in Threads, UpdateNet(t)
    PROVE  Inv'
<1>1. /\ th[t].pc = "u_net" /\ lock' = lock
      /\ UNCHANGED <<vmm, mem, dir, started, nics, svc, rm, orphan, down>>
      /\ IF Running THEN UNCHANGED <<netd, files>> ELSE \E ok \in BOOLEAN : Release(ok)
  BY DEF UpdateNet, At
<1> DEFINE r == [th[t] EXCEPT !.pc = "u_put", !.hb = TRUE]
<1>2. th' = [th EXCEPT ![t] = r]
  BY DEF UpdateNet
<1>3. r \in ThreadState /\ r.pc = "u_put"
  BY DEF Inv, Types, ThreadState, Pcs
<1> HIDE DEF r
<1>4. Moved(t) /\ th'[t].pc = "u_put"
  BY <1>2, <1>3, SetMoves DEF Inv
<1>5. HolderOK(t)'
  BY <1>4 DEF HolderOK, Launching
<1>6. CASE Running
  BY <1>1, <1>4, <1>5, <1>6, HolderOnly, Places DEF disk
<1>7. CASE ~Running
  <2>1. NetdTypes' /\ files' \subseteq FileNames /\ sv # "run"
    BY <1>1, <1>7, ReleaseEffect DEF Inv, Types, Running
  <2> QED BY <1>1, <1>4, <1>5, <2>1, NetdStep, Places
<1> QED BY <1>6, <1>7

LEMMA UpdatePutStep ==
    ASSUME Inv, NEW t \in Threads, UpdatePut(t)
    PROVE  Inv'
<1>1. /\ th[t].pc = "u_put" /\ Finish(t, TRUE) /\ dir' = TRUE /\ files' = files \cup {"manifest"}
      /\ nics' \in 0..NicCount /\ loaded' \in BOOLEAN
      /\ UNCHANGED <<up, crashes, removing, started, sv, used, held, netq, rm, orphan, down>>
  BY DEF UpdatePut, At, Write, vmm, svc, netd, Inv, Types
<1>2. Moved(t) /\ th'[t].pc \notin Locked /\ lock' = Free
  BY <1>1, ReturnOut DEF Inv, Finish
<1>3. Types'
  BY <1>1, <1>2 DEF Inv, Types, Moved, FileNames
<1>4. LiveKeepsNics'
  BY <1>1 DEF Inv, LiveKeepsNics
<1> QED BY <1>1, <1>2, <1>3, <1>4, FinishStep, Places

LEMMA ReconcileCheckStep ==
    ASSUME Inv, NEW t \in Threads, ReconcileCheck(t)
    PROVE  Inv'
<1>1. /\ th[t].pc = "n_lock" /\ lock = Free
      /\ UNCHANGED <<vmm, mem, disk, svc, netd, rm, orphan, down>>
      /\ UNCHANGED <<up, crashes, loaded, removing, dir, files, started, nics>>
      /\ UNCHANGED <<sv, used, held, netq, rm, orphan>>
  BY DEF ReconcileCheck, At, vmm, mem, disk, svc, netd
<1>2. CASE ~Running /\ lock' = t /\ Goto(t, "n_release")
  <2>1. Moved(t) /\ th'[t].pc = "n_release"
    BY <1>2, GotoMoves DEF Inv, Pcs
  <2>2. Types'
    BY <1>1, <1>2, <2>1 DEF Inv, Types, Moved
  <2> QED BY <1>1, <1>2, <2>1, <2>2, TakesLock
<1>3. CASE th' = [th EXCEPT ![t] = Idle] /\ UNCHANGED lock
  <2>1. Moved(t) /\ th'[t].pc = "idle" /\ UNCHANGED Rest
    BY <1>1, <1>3, IdleMoves DEF Inv, Rest
  <2> QED BY <1>1, <2>1, ThreadOnly, Places DEF Outside
<1> QED BY <1>2, <1>3 DEF ReconcileCheck, ReconcileProceeds

LEMMA FailsStep ==
    ASSUME Inv, NEW t \in Threads, Fails(t)
    PROVE  Inv'
<1>1. /\ th[t].pc \in Locked /\ Finish(t, FALSE)
      /\ UNCHANGED <<vmm, mem, disk, svc, netd, rm, orphan, down>>
  BY DEF Fails, Locked, Launching
<1> QED BY <1>1, ReturnOut, HolderOnly DEF Inv, Finish

LEMMA OtherStepInv ==
    ASSUME Inv, NEW t \in Threads, OtherStep(t)
    PROVE  Inv'
BY QuietStep, ScanStep, CreationStep, SvStopStep, StopFlagStep, StopSignalStep, ReleasingStep,
   UpdateBeginStep, UpdateNetStep, UpdatePutStep, ReconcileCheckStep, FailsStep
   DEF OtherStep

(* The start-up scan begins.                                               *)
LEMMA BootStep ==
    ASSUME Inv, NEW t \in Threads, Boot(t), th[t].pc \notin Locked
    PROVE  Inv'
<1> DEFINE r == [Idle EXCEPT !.pc = "l_mark", !.op = "boot", !.kn = (sv # "absent")]
<1>1. /\ th' = [th EXCEPT ![t] = r] /\ up' = "booting"
      /\ UNCHANGED <<crashes, lock, nics, svc, netd, orphan, down>>
      /\ UNCHANGED <<loaded, removing, dir, files, started, rm>>
  BY DEF Boot, mem, disk
<1>2. r \in ThreadState /\ r.pc = "l_mark"
  BY IdleType DEF Idle, ThreadState, Pcs
<1> HIDE DEF r
<1>3. Moved(t) /\ th'[t].pc = "l_mark"
  BY <1>1, <1>2, SetMoves DEF Inv
<1>4. RmSame
  BY <1>1 DEF RmSame
<1> QED BY <1>1, <1>3, <1>4, MemoryStep, Places DEF Outside, Inv, Types

-----------------------------------------------------------------------------
(* Steps of the removal.                                                   *)

LEMMA RmGotoMoves ==
    ASSUME Types, NEW pc, RmGoto(pc),
           pc \in {"idle", "lock", "stop", "poll", "release", "delete", "rmdir", "forget", "unmark"}
    PROVE  rm' \in RemovalState /\ rm'.pc = pc /\ rm'.del = rm.del /\ rm'.todo = rm.todo
BY DEF Types, RmGoto, RemovalState

(* The removal, with the lock, goes on.                                    *)
LEMMA RmHolds ==
    ASSUME Inv, Types', rm.pc \in RmLocked, rm'.pc \in RmLocked,
           UNCHANGED <<th, lock, orphan, removing>>,
           rm'.pc \in {"release", "delete", "rmdir", "forget"} => ~Running',
           LiveKeepsNics'
    PROVE  Inv'
<1>1. lock = "rm" /\ \A t \in Threads : th[t].pc \notin Locked
  BY ThreadsAssumption DEF Inv, LockOK
<1>2. LockOK'
  BY <1>1 DEF Inv, LockOK, RmLocked
<1>3. \A t \in Threads : HolderOK(t)'
  BY <1>1 DEF HolderOK, Locked, Launching
<1> QED BY <1>2, <1>3 DEF Inv, RemovalOK

(* The world of the threads is left alone.                                 *)
LEMMA RmAside ==
    ASSUME Inv, Types', LockOK', rm'.pc \notin {"release", "delete", "rmdir", "forget"},
           UNCHANGED <<th, nics, sv, used, held, netq>>
    PROVE  Inv'
<1>1. \A t \in Threads : HolderOK(t)'
  BY DEF Inv, HolderOK, Running
<1>2. RemovalOK' /\ LiveKeepsNics'
  BY DEF Inv, RemovalOK, LiveKeepsNics
<1> QED BY <1>1, <1>2 DEF Inv

LEMMA RmTakesLockStep ==
    ASSUME Inv, RmTakesLock
    PROVE  Inv'
<1>1. /\ rm.pc = "lock" /\ lock = Free /\ lock' = "rm" /\ RmGoto("stop")
      /\ UNCHANGED <<up, crashes, loaded, removing, dir, files, started, nics>>
      /\ UNCHANGED <<sv, used, held, netq, th, orphan, down>>
  BY DEF RmTakesLock, RmAt, vmm, mem, disk, svc, netd
<1>2. rm' \in RemovalState /\ rm'.pc = "stop"
  BY <1>1, RmGotoMoves DEF Inv
<1>3. Types'
  BY <1>1, <1>2 DEF Inv, Types
<1>4. LockOK'
  BY <1>1, <1>2, ThreadsAssumption DEF Inv, LockOK, RmLocked
<1> QED BY <1>1, <1>2, <1>3, <1>4, RmAside

LEMMA RmStopStep ==
    ASSUME Inv, RmStop
    PROVE  Inv'
<1>1. /\ rm.pc = "stop" /\ RmGoto("poll")
      /\ UNCHANGED <<up, crashes, loaded, removing, lock, dir, files, started, nics>>
      /\ UNCHANGED <<held, netq, th, orphan, down>>
      /\ (\E ok \in BOOLEAN : StopProcess(ok)) \/ UNCHANGED <<sv, used>>
  BY DEF RmStop, RmAt, vmm, mem, disk, netd, svc
<1>2. rm' \in RemovalState /\ rm'.pc = "poll"
  BY <1>1, RmGotoMoves DEF Inv
<1>3. sv' \in SvStates /\ used' = used /\ NoRise
  BY <1>1, StopProcessEffect DEF Inv, Types, NoRise, Running
<1>4. Types'
  BY <1>1, <1>2, <1>3 DEF Inv, Types
<1>5. LiveKeepsNics'
  BY <1>1, <1>3 DEF Inv, LiveKeepsNics, NoRise
<1> QED BY <1>1, <1>2, <1>4, <1>5, RmHolds DEF RmLocked

LEMMA RmPollStep ==
    ASSUME Inv, RmPoll
    PROVE  Inv'
<1>1. /\ rm.pc = "poll" /\ ~Running /\ sv' \in {sv, "absent"} /\ RmGoto("release")
      /\ UNCHANGED <<up, crashes, loaded, removing, lock, dir, files, started, nics>>
      /\ UNCHANGED <<used, held, netq, th, orphan, down>>
  BY DEF RmPoll, RmAt, GoneFromSupervisor, vmm, mem, disk, netd
<1>2. rm' \in RemovalState /\ rm'.pc = "release"
  BY <1>1, RmGotoMoves DEF Inv
<1>3. Types' /\ ~Running'
  BY <1>1, <1>2 DEF Inv, Types, SvStates, Running
<1>4. LiveKeepsNics'
  BY <1>3 DEF LiveKeepsNics, Running
<1> QED BY <1>1, <1>2, <1>3, <1>4, RmHolds DEF RmLocked

LEMMA RmReleaseStep ==
    ASSUME Inv, RmRelease
    PROVE  Inv'
<1>1. /\ rm.pc = "release"
      /\ UNCHANGED <<up, crashes, loaded, removing, lock, dir, started, nics>>
      /\ UNCHANGED <<sv, used, th, orphan, down>>
  BY DEF RmRelease, RmAt, vmm, mem, svc
<1>2. PICK ok \in BOOLEAN :
         /\ Release(ok)
         /\ rm' = [rm EXCEPT !.pc = RmNext(ok),
                             !.todo = IF RmNext(ok) = "delete" THEN files' \ {"removing"} ELSE {}]
  BY DEF RmRelease
<1>3. NetdTypes' /\ files' \subseteq FileNames
  BY <1>2, ReleaseEffect DEF Inv, Types
<1>4. RmNext(ok) \in {"release", "delete", "forget"}
  BY DEF RmNext
<1>5. rm' \in RemovalState /\ rm'.pc \in {"release", "delete", "forget"}
  BY <1>2, <1>3, <1>4 DEF Inv, Types, RemovalState
<1>6. ~Running /\ ~Running'
  BY <1>1 DEF Inv, RemovalOK, Running
<1>7. Types'
  BY <1>1, <1>3, <1>5 DEF Inv, Types, NetdTypes
<1>8. LiveKeepsNics'
  BY <1>6 DEF LiveKeepsNics, Running
<1> QED BY <1>1, <1>5, <1>6, <1>7, <1>8, RmHolds DEF RmLocked

LEMMA RmDeletingStep ==
    ASSUME Inv, RmDeleteFile \/ RmDeleteMarker \/ RmDir
    PROVE  Inv'
<1>1. /\ rm.pc \in {"delete", "rmdir"}
      /\ UNCHANGED <<up, crashes, loaded, removing, lock, nics>>
      /\ UNCHANGED <<sv, used, held, netq, th, orphan, down>>
  BY DEF RmDeleteFile, RmDeleteMarker, RmDir, RmAt, vmm, mem, svc, netd
<1>2. /\ rm' \in RemovalState /\ rm'.pc \in {"delete", "rmdir", "forget"}
      /\ files' \subseteq FileNames /\ dir' \in BOOLEAN /\ started' \in BOOLEAN
  <2>1. CASE RmDeleteFile
    <3>1. PICK f \in rm.todo : /\ files' = files \ {f} /\ started' = (started /\ f # "state")
                               /\ rm' = [rm EXCEPT !.todo = @ \ {f}]
      BY <2>1 DEF RmDeleteFile
    <3>2. rm.pc = "delete" /\ dir' = dir
      BY <2>1 DEF RmDeleteFile, RmAt
    <3>3. started' \in BOOLEAN
      BY <3>1 DEF Inv, Types
    <3> QED BY <3>1, <3>2, <3>3 DEF Inv, Types, RemovalState
  <2>2. CASE RmDeleteMarker
    <3>1. rm' \in RemovalState /\ rm'.pc = "rmdir"
      BY <2>2, RmGotoMoves DEF Inv, RmDeleteMarker
    <3> QED BY <2>2, <3>1 DEF RmDeleteMarker, Inv, Types
  <2>3. CASE RmDir
    <3>1. rm' \in RemovalState /\ rm'.pc = "forget"
      BY <2>3, RmGotoMoves DEF Inv, RmDir
    <3> QED BY <2>3, <3>1 DEF RmDir, Inv, Types, Write, FileNames
  <2> QED BY <2>1, <2>2, <2>3
<1>3. Types'
  BY <1>1, <1>2 DEF Inv, Types
<1>4. ~Running'
  BY <1>1 DEF Inv, RemovalOK, Running
<1>5. LiveKeepsNics'
  BY <1>4 DEF LiveKeepsNics, Running
<1> QED BY <1>1, <1>2, <1>3, <1>4, <1>5, RmHolds DEF RmLocked

LEMMA RmForgetStep ==
    ASSUME Inv, RmForget
    PROVE  Inv'
<1>1. /\ rm.pc = "forget" /\ loaded' = FALSE /\ RmGoto("unmark")
      /\ lock' = IF lock = "rm" THEN Free ELSE lock
      /\ UNCHANGED <<up, crashes, removing, dir, files, started, nics>>
      /\ UNCHANGED <<sv, used, held, netq, th, orphan, down>>
  BY DEF RmForget, RmAt, vmm, disk, svc, netd
<1>2. rm' \in RemovalState /\ rm'.pc = "unmark"
  BY <1>1, RmGotoMoves DEF Inv
<1>3. lock = "rm" /\ lock' = Free
  BY <1>1 DEF Inv, LockOK, RmLocked
<1>4. Types'
  BY <1>1, <1>2, <1>3 DEF Inv, Types
<1>5. LockOK'
  BY <1>1, <1>2, <1>3, ThreadsAssumption DEF Inv, LockOK, RmLocked
<1> QED BY <1>1, <1>2, <1>4, <1>5, RmAside

LEMMA RmUnmarkStep ==
    ASSUME Inv, RmUnmark
    PROVE  Inv'
<1>1. /\ rm.pc = "unmark" /\ removing' = FALSE /\ rm' = NoRemoval
      /\ UNCHANGED <<up, crashes, loaded, lock, dir, files, started, nics>>
      /\ UNCHANGED <<sv, used, held, netq, th, orphan, down>>
  BY DEF RmUnmark, RmAt, vmm, disk, svc, netd
<1>2. rm' \in RemovalState /\ rm'.pc = "idle"
  BY <1>1 DEF NoRemoval, RemovalState
<1>3. Types'
  BY <1>1, <1>2 DEF Inv, Types
<1>4. LockOK'
  BY <1>1, <1>2 DEF Inv, LockOK, RmLocked
<1> QED BY <1>1, <1>2, <1>3, <1>4, RmAside

LEMMA RemovalStep ==
    ASSUME Inv, RemovalTask
    PROVE  Inv'
BY RmTakesLockStep, RmStopStep, RmPollStep, RmReleaseStep, RmDeletingStep, RmForgetStep,
   RmUnmarkStep DEF RemovalTask

-----------------------------------------------------------------------------
(* Steps of the environment.                                               *)

(* QEMU exits, or its process is removed from the supervisor.              *)
LEMMA QemuStep ==
    ASSUME Inv, QemuExits \/ QemuKilled \/ SvRemove
    PROVE  Inv'
<1>1. /\ sv' \in {"exited", "stopped", "absent"} /\ used' \subseteq used
      /\ UNCHANGED <<up, crashes, loaded, removing, lock, dir, files, started, nics>>
      /\ UNCHANGED <<held, netq, th, rm, orphan, down>>
  BY DEF QemuExits, QemuKilled, SvRemove, vmm, mem, disk, netd
<1>2. ~Running' /\ sv' # "run"
  BY <1>1 DEF Running
<1>3. Types'
  BY <1>1 DEF Inv, Types, SvStates
<1>4. LockOK'
  BY <1>1 DEF Inv, LockOK
<1>5. \A t \in Threads : HolderOK(t)'
  BY <1>1, <1>2 DEF Inv, HolderOK
<1> QED BY <1>2, <1>3, <1>4, <1>5 DEF Inv, RemovalOK, LiveKeepsNics

(* netd runs a request.  No holder has prepared an interface while one is  *)
(* waiting, and none names an interface of a VM that is up.                *)
LEMMA NetdRunsStep ==
    ASSUME Inv, NetdRuns
    PROVE  Inv'
<1>1. /\ netq # <<>> /\ held' \in Outcomes(Head(netq)) /\ netq' = Tail(netq)
      /\ UNCHANGED <<up, crashes, loaded, removing, lock, dir, files, started, nics>>
      /\ UNCHANGED <<sv, used, th, rm, orphan, down>>
  BY DEF NetdRuns, vmm, mem, disk, svc
<1> DEFINE r == Head(netq)
<1>2. /\ netq' \in Seq(Requests) /\ Len(netq') <= Len(netq)
      /\ \A i \in 1..Len(netq') : i + 1 \in 1..Len(netq) /\ netq'[i] = netq[i + 1]
      /\ 1 \in 1..Len(netq) /\ r = netq[1] /\ r \in Requests
  BY <1>1, QueueTail DEF Inv
<1> HIDE DEF r
<1>3. /\ held' \subseteq Nics
      /\ r.op # "sweep" => \A k \in held : k # r.nic => k \in held'
  BY <1>1, <1>2, OutcomesType DEF Inv, r
<1>4. Types'
  <2>1. Len(netq') <= MaxQueue
    BY <1>2, BoundsAssumption DEF Inv, Types
  <2> QED BY <1>1, <1>2, <1>3, <2>1 DEF Inv, Types
<1>5. LockOK' /\ RemovalOK'
  BY <1>1 DEF Inv, LockOK, RemovalOK, Running
<1>6. ASSUME NEW t \in Threads PROVE HolderOK(t)'
  <2>1. HolderOK(t) /\ th[t] \in ThreadState /\ nics \in 0..NicCount
    BY DEF Inv, Types
  <2>2. CASE th[t].pc = "s_prep"
    <3>1. th[t].n = 1
      BY <1>1, <2>1, <2>2 DEF HolderOK
    <3>2. \A k \in Nics : ~(k < 1)
      BY DEF Nics
    <3> QED BY <1>1, <2>1, <2>2, <3>1, <3>2 DEF HolderOK, Running, Launching
  <2>3. CASE th[t].pc \in {"s_config", "s_deploy"}
    <3>1. nics = 0
      BY <1>1, <2>1, <2>3 DEF HolderOK
    <3> QED BY <1>1, <2>1, <2>3, <3>1 DEF HolderOK, Running, Launching
  <2>4. CASE th[t].pc \notin {"s_prep", "s_config", "s_deploy"}
    BY <1>1, <2>1, <2>4 DEF HolderOK, Running
  <2> QED BY <2>2, <2>3, <2>4
<1>7. LiveKeepsNics'
  <2> SUFFICES ASSUME sv = "run"
               PROVE  /\ used \subseteq held'
                      /\ \A i \in 1..Len(netq') : netq'[i].nic \notin used
                      /\ (\E i \in 1..Len(netq') : netq'[i].op = "sweep") => used = {}
    BY <1>1 DEF LiveKeepsNics
  <2>1. /\ used \subseteq held
        /\ \A i \in 1..Len(netq) : netq[i].nic \notin used
        /\ (\E i \in 1..Len(netq) : netq[i].op = "sweep") => used = {}
    BY DEF Inv, LiveKeepsNics
  <2>2. used \subseteq held'
    <3>1. CASE r.op = "sweep"
      BY <1>2, <2>1, <3>1
    <3>2. CASE r.op # "sweep"
      BY <1>2, <1>3, <2>1, <3>2
    <3> QED BY <3>1, <3>2
  <2>3. \A i \in 1..Len(netq') : netq'[i].nic \notin used
    BY <1>2, <2>1
  <2>4. (\E i \in 1..Len(netq') : netq'[i].op = "sweep") => used = {}
    BY <1>2, <2>1
  <2> QED BY <2>2, <2>3, <2>4
<1> QED BY <1>4, <1>5, <1>6, <1>7 DEF Inv

LEMMA OrphanStep ==
    ASSUME Inv, OrphanEnds
    PROVE  Inv'
<1>1. /\ UNCHANGED <<up, crashes, loaded, removing, dir, files, started, nics>>
      /\ UNCHANGED <<sv, used, held, netq, th, rm, down>>
  BY DEF OrphanEnds, vmm, mem, disk, svc, netd
<1>2. PICK k \in orphan : /\ orphan' = orphan \ {k}
                          /\ lock' = IF k = "config" /\ lock = "config" THEN Free ELSE lock
  BY DEF OrphanEnds
<1>3. Types'
  BY <1>1, <1>2 DEF Inv, Types
<1>4. LockOK'
  BY <1>1, <1>2, ThreadsAssumption DEF Inv, LockOK
<1>5. \A t \in Threads : HolderOK(t)'
  BY <1>1 DEF Inv, HolderOK, Running
<1> QED BY <1>1, <1>3, <1>4, <1>5 DEF Inv, RemovalOK, LiveKeepsNics, Running

LEMMA RemoveStep ==
    ASSUME Inv, Remove
    PROVE  Inv'
<1>1. /\ ClaimAndMark
      /\ UNCHANGED <<up, crashes, loaded, lock, dir, started, nics>>
      /\ UNCHANGED <<sv, used, held, netq, th, orphan, down>>
  BY DEF Remove, vmm, svc, netd
<1>2. /\ RmSame /\ removing' = TRUE /\ rm' \in RemovalState /\ rm'.pc = "lock"
      /\ ~removing /\ files' = files \cup {"removing"} /\ files' \subseteq FileNames
  BY <1>1, ClaimEffect DEF Inv
<1>3. Types'
  BY <1>1, <1>2 DEF Inv, Types
<1>4. LockOK'
  BY <1>1, <1>2 DEF Inv, LockOK, RmLocked
<1> QED BY <1>1, <1>2, <1>3, <1>4, RmAside

LEMMA CrashStep ==
    ASSUME Inv, Crash
    PROVE  Inv' /\ \A t \in Threads : th'[t] = Idle
<1>1. /\ up' = "down" /\ crashes < MaxCrashes /\ crashes' = crashes + 1
      /\ loaded' = FALSE /\ removing' = FALSE /\ lock' = Free
      /\ th' = [t \in Threads |-> Idle] /\ rm' = NoRemoval /\ orphan' = {}
      /\ UNCHANGED <<dir, files, started, nics, sv, used, held, netq, down>>
  BY DEF Crash, disk, svc, netd
<1>2. rm' \in RemovalState /\ rm'.pc = "idle"
  BY <1>1 DEF NoRemoval, RemovalState
<1>3. \A t \in Threads : th'[t] = Idle /\ th'[t].pc = "idle"
  BY <1>1, IdleType
<1>4. crashes' \in 0..MaxCrashes
  BY <1>1, BoundsAssumption DEF Inv, Types
<1>5. Types'
  BY <1>1, <1>2, <1>4, IdleType DEF Inv, Types
<1>6. LockOK'
  BY <1>1, <1>2, <1>3, ThreadsAssumption DEF LockOK, RmLocked, Locked, Launching
<1>7. \A t \in Threads : HolderOK(t)'
  BY <1>3 DEF HolderOK, Launching
<1> QED BY <1>1, <1>2, <1>3, <1>5, <1>6, <1>7 DEF Inv, RemovalOK, LiveKeepsNics

LEMMA EnvironmentStep ==
    ASSUME Inv, Environment
    PROVE  Inv'
BY QemuStep, NetdRunsStep, OrphanStep, RemoveStep, CrashStep DEF Environment

-----------------------------------------------------------------------------
(* A VMM that is down does nothing.                                        *)
DownOK == up = "down" => \A t \in Threads : th[t] = Idle

LEMMA DownStep ==
    ASSUME Inv, DownOK, Next
    PROVE  DownOK'
<1>1. ASSUME NEW t \in Threads, Request(t) PROVE up' = up /\ up = "up"
  BY <1>1 DEF Request, Start, AutoList, Stop, SvStop, Update, Reconcile, Reload, Create, Event,
              Cancel, Begin, vmm
<1>2. ASSUME NEW t \in Threads, LaunchStep(t) PROVE up' = up /\ th[t].pc # "idle"
  BY <1>2 DEF LaunchStep, LaunchEnter, LaunchBegin, LaunchWaits, LaunchFlag, LaunchGpu,
              PrepareBegin, PrepareOk, PrepareUnreachable, PrepareFails, PrepareUndo, ConfigDone,
              Deploy, DeployFails, LaunchFailed, At, vmm
<1>3. ASSUME NEW t \in Threads, OtherStep(t) PROVE up' \in {up, "up"} /\ th[t].pc # "idle"
  BY <1>3 DEF OtherStep, AutoDecide, StopFlag, StopSignal, StopRelease, SvStopSignal,
              UpdateBegin, UpdateNet, UpdatePut, ReconcileCheck, ReconcileRelease, ReloadDirs,
              ReloadScan, ReloadMark, ReloadRead, ReloadAdd, ReloadResume, CreateLoad,
              CreateLoadFails, CreateRemove, EventWrite, Fails, At, vmm
<1>4. ASSUME NEW t \in Threads, Boot(t) PROVE up' = "booting"
  BY <1>4 DEF Boot
<1>5. ASSUME RemovalTask PROVE UNCHANGED <<up, th>>
  BY <1>5 DEF RemovalTask, RmTakesLock, RmStop, RmPoll, RmRelease, RmDeleteFile, RmDeleteMarker,
              RmDir, RmForget, RmUnmark, vmm
<1>6. ASSUME Environment PROVE UNCHANGED <<up, th>> \/ \A t \in Threads : th'[t] = Idle
  BY <1>6, CrashStep DEF Environment, QemuExits, QemuKilled, NetdRuns, OrphanEnds, SvRemove,
              Remove, vmm
<1> QED BY <1>1, <1>2, <1>3, <1>4, <1>5, <1>6, IdleType DEF Next, DownOK

IInv == Inv /\ DownOK

LEMMA InitIInv == Init => IInv
<1> SUFFICES ASSUME Init PROVE IInv
  OBVIOUS
<1>1. \A t \in Threads : th[t] = Idle /\ th[t].pc = "idle"
  BY IdleType DEF Init
<1>2. rm \in RemovalState /\ rm.pc = "idle"
  BY DEF Init, NoRemoval, RemovalState
<1>3. Types
  <2>1. /\ netq \in Seq(Requests) /\ Len(netq) <= MaxQueue
        /\ nics \in 0..NicCount /\ crashes \in 0..MaxCrashes
    BY BoundsAssumption DEF Init
  <2>2. th \in [Threads -> ThreadState]
    BY IdleType DEF Init
  <2> QED BY <1>2, <2>1, <2>2 DEF Init, Types, SvStates
<1>4. LockOK
  BY <1>1, <1>2, ThreadsAssumption DEF Init, LockOK, Locked, Launching, RmLocked
<1>5. \A t \in Threads : HolderOK(t)
  BY <1>1 DEF HolderOK, Launching
<1> QED BY <1>1, <1>2, <1>3, <1>4, <1>5 DEF IInv, Inv, DownOK, RemovalOK, LiveKeepsNics, Init

LEMMA NextIInv == IInv /\ [Next]_vars => IInv'
<1> SUFFICES ASSUME IInv, [Next]_vars PROVE IInv'
  OBVIOUS
<1>1. CASE Next
  <2>1. ASSUME NEW t \in Threads, Boot(t) PROVE Inv'
    <3>1. th[t].pc = "idle"
      BY <2>1, IdleType DEF Boot, IInv, DownOK
    <3> QED BY <2>1, <3>1, BootStep, Places DEF IInv, Outside
  <2>2. Inv'
    BY <1>1, <2>1, RequestStep, LaunchStepInv, OtherStepInv, RemovalStep, EnvironmentStep
       DEF Next, IInv
  <2> QED BY <1>1, <2>2, DownStep DEF IInv
<1>2. CASE UNCHANGED vars
  <2>1. /\ UNCHANGED <<up, crashes, loaded, removing, lock, dir, files, started, nics>>
        /\ UNCHANGED <<sv, used, held, netq, th, rm, orphan, down>>
    BY <1>2 DEF vars, vmm, mem, disk, svc, netd
  <2>2. Types' /\ LockOK' /\ RemovalOK' /\ LiveKeepsNics' /\ DownOK'
    BY <2>1 DEF IInv, Inv, Types, LockOK, RemovalOK, LiveKeepsNics, DownOK, Running
  <2>3. \A t \in Threads : HolderOK(t)'
    BY <2>1 DEF IInv, Inv, HolderOK, Running
  <2> QED BY <2>2, <2>3 DEF IInv, Inv
<1> QED BY <1>1, <1>2

(* The discipline of the launch lock holds throughout: whoever is at a     *)
(* place that needs it has it, the travelling configuration included, no   *)
(* QEMU is up while interfaces are worked on, and interfaces prepared are  *)
(* held with no request in flight.                                         *)
THEOREM InvariantHolds == Spec => []IInv
<1>1. IInv /\ [Next]_vars => IInv'
  BY NextIInv
<1> QED BY InitIInv, <1>1, PTL DEF Spec

(* launch_lock: a VM that is up keeps the interfaces it was launched with. *)
THEOREM LiveKeepsNicsHolds == Spec => []LiveKeepsNics
<1>1. IInv => LiveKeepsNics
  BY DEF IInv, Inv
<1> QED BY <1>1, InvariantHolds, PTL

(* start_vm: at most one configuration of QEMU is under way, counting the  *)
(* one a cancelled request left behind.                                    *)
THEOREM OneConfigWriterHolds == Spec => []OneConfigWriter
<1>1. IInv => OneConfigWriter
  <2> SUFFICES ASSUME IInv PROVE ConfigWriters <= 1
    BY DEF OneConfigWriter
  <2> DEFINE W == {t \in Threads : At(t, "s_config")}
  <2>1. \A t \in W : lock = t
    BY Places DEF IInv, Inv, LockOK, At, Launching
  <2>2. CASE W = {}
    <3>1. Cardinality(W) = 0
      BY <2>2, FS_EmptySet
    <3> QED BY <3>1 DEF ConfigWriters
  <2>3. CASE W # {}
    <3>1. W = {lock} /\ lock \in Threads
      BY <2>1, <2>3
    <3>2. Cardinality(W) = 1
      BY <3>1, FS_Singleton
    <3>3. "config" \notin orphan
      BY <3>1, ThreadsAssumption DEF IInv, Inv, LockOK
    <3> QED BY <3>2, <3>3 DEF ConfigWriters
  <2> QED BY <2>2, <2>3
<1> QED BY <1>1, InvariantHolds, PTL

-----------------------------------------------------------------------------
(* The shapes of a step as far as SerialInv goes.                          *)
NoReload == "reload" \notin Ops

OthersPlain(t) == \A u \in Threads \ {t} : th[u].op # "boot" /\ th[u].pc # "c_load"

OthersUnlocked(t) == \A u \in Threads \ {t} : th[u].pc \notin Locked

(* What a launch relies on stays.                                          *)
FilesKept == /\ "pending" \in files => "pending" \in files'
             /\ Config \subseteq files => Config \subseteq files'

Spared == UNCHANGED <<held, netq>> /\ FilesKept /\ (down' => down)

LEMMA Sole ==
    ASSUME Inv, NEW t \in Threads, th[t].pc \in Locked \/ lock = Free
    PROVE  OthersUnlocked(t)
BY ThreadsAssumption DEF Inv, LockOK, OthersUnlocked

LEMMA ActiveAlone ==
    ASSUME SerialInv, NEW t \in Threads, th[t].pc # "idle"
    PROVE  OthersPlain(t)
<1>1. th[t] # Idle
  BY IdleType
<1> QED BY <1>1 DEF SerialInv, ThreadOK, Alone, OthersPlain

LEMMA SerialMove ==
    ASSUME SerialInv, NEW t \in Threads, Moved(t), OthersPlain(t),
           up = "up" => up' = "up", OthersUnlocked(t) \/ Spared,
           ThreadOK(t)', LaunchOK(t)', DiskOK'
    PROVE  SerialInv'
<1>1. ASSUME NEW u \in Threads \ {t} PROVE ThreadOK(u)' /\ LaunchOK(u)'
  <2>1. /\ th'[u] = th[u] /\ ThreadOK(u) /\ LaunchOK(u)
        /\ th[u].op # "boot" /\ th[u].pc # "c_load"
    BY DEF Moved, SerialInv, OthersPlain
  <2>2. ThreadOK(u)'
    BY <2>1 DEF ThreadOK
  <2>3. CASE th[u].pc \notin Locked
    <3>1. /\ th'[u].pc # "s_prep" /\ th'[u].pc \notin Launching
          /\ th'[u].pc \notin Launching \cup {"s_wait", "s_note"} /\ th'[u].op # "boot"
      BY <2>1, <2>3 DEF Locked, Launching
    <3> QED BY <2>2, <3>1 DEF LaunchOK
  <2>4. CASE Spared
    <3>1. "pending" \in files => "pending" \in files'
      BY <2>4 DEF Spared, FilesKept
    <3>2. Config \subseteq files => Config \subseteq files'
      BY <2>4 DEF Spared, FilesKept
    <3>3. UNCHANGED <<held, netq>> /\ (down' => down)
      BY <2>4 DEF Spared
    <3>4. NoPrepare => NoPrepare'
      BY <3>3 DEF NoPrepare
    <3>5. held = {} => held' = {}
      BY <3>3
    <3> QED BY <2>1, <2>2, <3>1, <3>2, <3>3, <3>4, <3>5 DEF LaunchOK
  <2> QED BY <2>2, <2>3, <2>4 DEF OthersUnlocked
<1> QED BY <1>1 DEF SerialInv

LEMMA DiskKept ==
    ASSUME DiskOK, UNCHANGED <<held, netq>>, Running' => Running, files \subseteq files',
           up' # "up" => ~removing', down' => ~started', rm' = rm \/ rm'.todo = {}
    PROVE  DiskOK'
<1>1. NetdMarked'
  BY DEF DiskOK, NetdMarked
<1>2. NoDeleteUnderQemu'
  BY DEF DiskOK, NoDeleteUnderQemu
<1> QED BY <1>1, <1>2 DEF DiskOK

(* Steps that leave the disk and the other processes alone.                *)
World == <<up, removing, files, started, sv, held, netq, rm, down>>

LEMMA SerialQuiet ==
    ASSUME SerialInv, NEW t \in Threads, Moved(t), OthersPlain(t), UNCHANGED World,
           ThreadOK(t)', LaunchOK(t)'
    PROVE  SerialInv'
<1>1. UNCHANGED <<up, removing, files, started, sv, held, netq, rm, down>>
  BY DEF World
<1>2. DiskOK'
  BY <1>1, DiskKept DEF SerialInv, DiskOK, Running
<1>3. Spared
  BY <1>1 DEF Spared, FilesKept
<1> QED BY <1>1, <1>2, <1>3, SerialMove

LEMMA IdleOK ==
    ASSUME NEW t \in Threads, th'[t] = Idle
    PROVE  ThreadOK(t)' /\ LaunchOK(t)'
<1>1. th'[t].pc = "idle" /\ th'[t].op = "none"
  BY IdleType
<1> QED BY <1>1 DEF ThreadOK, LaunchOK, ScanPcs, Launching, LaunchSites

(* An operation under way goes on.                                         *)
LEMMA GoesOn ==
    ASSUME SerialInv, NEW t \in Threads, Moved(t), th[t].pc # "idle", up' = up,
           th'[t].op = th[t].op, th'[t].pc \notin {"idle", "c_load", "l_dirs", "l_scan"},
           th'[t].pc \in ScanPcs => th[t].op = "boot",
           th'[t].pc = "c_remove" => th[t].op = "create",
           th'[t].pc \in LaunchSites => th[t].op \in LaunchOps
    PROVE  ThreadOK(t)'
<1>1. ThreadOK(t)
  BY DEF SerialInv
<1>2. Alone(t) => Alone(t)'
  BY DEF Alone, Moved
<1> QED BY <1>1, <1>2 DEF ThreadOK

(* An operation ends, or goes back to what it is part of.                  *)
LEMMA ReturnOK ==
    ASSUME NoReload, Types, SerialInv, NEW t \in Threads, NEW ok, Return(t, ok),
           th[t].pc # "idle", up' = up
    PROVE  Moved(t) /\ ThreadOK(t)' /\ LaunchOK(t)'
<1>1. /\ Moved(t)
      /\ \/ /\ th'[t].pc = "l_resume" /\ th[t].op \in {"reload", "boot"}
            /\ th'[t].op = th[t].op
         \/ /\ th'[t].pc = "c_remove" /\ th[t].op = "create"
            /\ th'[t].op = th[t].op
         \/ th'[t] = Idle
  BY ReturnMoves
<1>2. th[t].op # "reload"
  BY DEF Types, ThreadState, NoReload
<1>3. CASE th'[t] = Idle
  BY <1>1, <1>3, IdleOK
<1>4. CASE th'[t].pc \in {"l_resume", "c_remove"} /\ th'[t].op = th[t].op
  <2>1. ThreadOK(t)'
    BY <1>1, <1>2, <1>4, GoesOn, IdleType DEF ScanPcs, LaunchSites, Launching
  <2>2. LaunchOK(t)'
    BY <1>4 DEF LaunchOK, Launching
  <2> QED BY <1>1, <2>1, <2>2
<1> QED BY <1>1, <1>3, <1>4

LEMMA GotoOK ==
    ASSUME Types, SerialInv, NEW t \in Threads, NEW pc \in Pcs, Goto(t, pc),
           th[t].pc # "idle", up' = up, pc \notin {"idle", "c_load", "c_remove", "l_dirs", "l_scan"},
           pc \in ScanPcs => th[t].op = "boot",
           pc \in LaunchSites => th[t].op \in LaunchOps
    PROVE  Moved(t) /\ ThreadOK(t)' /\ th'[t].pc = pc /\ th'[t].op = th[t].op /\ th'[t].n = th[t].n
<1>1. Moved(t) /\ th'[t].pc = pc /\ th'[t].op = th[t].op /\ th'[t].n = th[t].n
  BY GotoMoves
<1> QED BY <1>1, GoesOn

-----------------------------------------------------------------------------
(* Requests.                                                               *)
LEMMA BeginSerial ==
    ASSUME Inv, SerialInv, NEW t \in Threads, NEW op \in AllOps, NEW pc \in Pcs,
           Begin(t, op, pc), UNCHANGED World,
           pc \notin {"idle", "c_load", "c_remove", "l_dirs", "l_scan"} \cup ScanPcs,
           pc \notin {"s_enter", "s_wait", "s_note"} \cup Launching,
           pc \in LaunchSites => op \in LaunchOps
    PROVE  SerialInv'
<1>1. /\ Moved(t) /\ th'[t].pc = pc /\ th'[t].op = op
      /\ th[t].pc = "idle" /\ up = "up" /\ Known
  BY BeginMoves DEF Inv
<1>2. OthersPlain(t)
  BY <1>1 DEF OthersPlain, SerialInv, ThreadOK, Known, At
<1>3. up' = "up" /\ op # "boot"
  BY <1>1 DEF World, AllOps
<1>4. ThreadOK(t)'
  BY <1>1, <1>3 DEF ThreadOK
<1>5. LaunchOK(t)'
  BY <1>1, <1>3 DEF LaunchOK, Launching
<1> QED BY <1>1, <1>2, <1>4, <1>5, SerialQuiet

LEMMA CreateSerial ==
    ASSUME Inv, SerialInv, NEW t \in Threads, Create(t)
    PROVE  SerialInv'
<1> DEFINE r == [Idle EXCEPT !.pc = "c_load", !.op = "create", !.mk = started']
<1>1. /\ "create" \in Ops /\ up = "up" /\ th[t].pc = "idle" /\ th' = [th EXCEPT ![t] = r]
      /\ started' \in BOOLEAN
      /\ ~loaded /\ ~removing /\ sv = "absent" /\ held = {} /\ netq = <<>>
      /\ \A u \in Threads : th[u].pc \in {"idle", "l_dirs", "l_scan", "l_mark"}
      /\ files' = Config \cup {"state"} /\ down' = FALSE
      /\ UNCHANGED <<up, loaded, removing, sv, used, held, netq, rm>>
  BY DEF Create, At, vmm, mem, svc, netd
<1>2. r \in ThreadState /\ r.pc = "c_load" /\ r.op = "create"
  BY <1>1, IdleType DEF Idle, ThreadState, Pcs
<1> HIDE DEF r
<1>3. Moved(t) /\ th'[t].pc = "c_load" /\ th'[t].op = "create"
  BY <1>1, <1>2, SetMoves DEF Inv
<1>4. \A u \in Threads : th[u] = Idle
  BY <1>1 DEF SerialInv, ThreadOK, ScanPcs
<1>5. OthersPlain(t) /\ OthersUnlocked(t) /\ Alone(t)'
  BY <1>3, <1>4, IdleType DEF OthersPlain, OthersUnlocked, Alone, Moved, Locked, Launching
<1>6. ThreadOK(t)'
  BY <1>1, <1>3, <1>5 DEF ThreadOK, ScanPcs, Launching, LaunchSites
<1>7. LaunchOK(t)'
  BY <1>3 DEF LaunchOK, Launching
<1>8. DiskOK'
  <2>1. Len(netq') = 0
    BY <1>1
  <2> QED BY <1>1, <2>1 DEF SerialInv, DiskOK, NetdMarked, NoDeleteUnderQemu, Running
<1> QED BY <1>1, <1>3, <1>5, <1>6, <1>7, <1>8, SerialMove

LEMMA RequestSerial ==
    ASSUME NoReload, Inv, SerialInv, NEW t \in Threads, Request(t)
    PROVE  SerialInv'
<1>1. UNCHANGED Rest => UNCHANGED World
  BY DEF Rest, World, vmm, mem, disk, svc, netd
<1>2. /\ {"s_lock", "a_decide", "p_lock", "v_stop", "u_lock", "n_lock", "e_write"} \subseteq
           Pcs \ ({"idle", "c_load", "c_remove", "l_dirs", "l_scan", "s_enter", "s_wait", "s_note"}
                  \cup ScanPcs \cup Launching)
      /\ {"start", "auto", "stop", "sv_stop", "update", "reconcile", "event"} \subseteq AllOps
      /\ {"start", "auto"} \subseteq LaunchOps
      /\ {"p_lock", "v_stop", "u_lock", "n_lock", "e_write"} \cap LaunchSites = {}
  BY DEF Pcs, ScanPcs, Launching, AllOps, LaunchOps, LaunchSites
<1>3. CASE Start(t)
  BY <1>1, <1>2, <1>3, BeginSerial DEF Start, Rest
<1>4. CASE AutoList(t)
  BY <1>1, <1>2, <1>4, BeginSerial DEF AutoList, Rest
<1>5. CASE Stop(t)
  BY <1>1, <1>2, <1>5, BeginSerial DEF Stop, Rest
<1>6. CASE SvStop(t)
  BY <1>1, <1>2, <1>6, BeginSerial DEF SvStop, Rest
<1>7. CASE Update(t)
  BY <1>1, <1>2, <1>7, BeginSerial DEF Update, Rest
<1>8. CASE Reconcile(t)
  BY <1>1, <1>2, <1>8, BeginSerial DEF Reconcile, Rest
<1>9. CASE Event(t)
  BY <1>1, <1>2, <1>9, BeginSerial DEF Event, Rest
<1>10. CASE Cancel(t)
  <2>1. th[t].pc # "idle" /\ UNCHANGED World /\ th' = [th EXCEPT ![t] = Idle]
    BY <1>10 DEF Cancel, World, vmm, mem, disk, svc, netd
  <2>2. Moved(t) /\ th'[t] = Idle
    BY <2>1, IdleMoves DEF Inv
  <2> QED BY <2>1, <2>2, IdleOK, ActiveAlone, SerialQuiet
<1> QED BY <1>3, <1>4, <1>5, <1>6, <1>7, <1>8, <1>9, <1>10, CreateSerial
        DEF Request, NoReload, Reload

-----------------------------------------------------------------------------
(* The steps of a launch.                                                  *)
LEMMA MarkedKept ==
    ASSUME NetdMarked, NoMore, "pending" \in files => "pending" \in files'
    PROVE  NetdMarked'
BY DEF NetdMarked, NoMore, NoPrepare

LEMMA MarkedRelease ==
    ASSUME Types, NetdMarked, NEW ok \in BOOLEAN, Release(ok)
    PROVE  NetdMarked' /\ (Config \subseteq files => Config \subseteq files')
<1>1. /\ NoMore /\ files \ {"pending"} \subseteq files'
      /\ "pending" \in files /\ "pending" \notin files' => held' = {} /\ netq' = <<>>
  BY ReleaseEffect
<1>2. Config \subseteq files => Config \subseteq files'
  BY <1>1 DEF Config
<1>3. CASE "pending" \in files /\ "pending" \notin files'
  <2>1. held' = {} /\ Len(netq') = 0
    BY <1>1, <1>3
  <2> QED BY <1>2, <2>1 DEF NetdMarked
<1>4. CASE "pending" \in files => "pending" \in files'
  BY <1>1, <1>2, <1>4, MarkedKept
<1> QED BY <1>3, <1>4

(* netd is called.                                                         *)
LEMMA DiskNetd ==
    ASSUME DiskOK, NetdMarked', Config \subseteq files => Config \subseteq files',
           UNCHANGED <<up, removing, sv, started, rm, down>>
    PROVE  DiskOK'
BY DEF DiskOK, NoDeleteUnderQemu, Running

(* A step of the holder that calls netd and ends or goes on.               *)
LEMMA SerialNetd ==
    ASSUME Inv, SerialInv, NEW t \in Threads, Moved(t), th[t].pc \in Locked,
           ThreadOK(t)', LaunchOK(t)', NetdMarked',
           Config \subseteq files => Config \subseteq files',
           UNCHANGED <<up, removing, sv, started, rm, down>>
    PROVE  SerialInv'
<1>1. th[t].pc # "idle"
  BY DEF Locked, Launching
<1>2. DiskOK'
  BY DiskNetd DEF SerialInv
<1> QED BY <1>1, <1>2, Sole, ActiveAlone, SerialMove

LEMMA WorldKept ==
    UNCHANGED <<vmm, mem, disk, svc, netd, rm, down>> => UNCHANGED World /\ up' = up
BY DEF World, vmm, mem, disk, svc, netd

LEMMA EnterSerial ==
    ASSUME NoReload, Inv, SerialInv, NEW t \in Threads, LaunchEnter(t)
    PROVE  SerialInv'
<1>1. /\ th[t].pc = "s_enter" /\ UNCHANGED World /\ up' = up /\ down' = down
      /\ Return(t, FALSE) \/ Goto(t, "s_lock")
  BY WorldKept DEF LaunchEnter, At
<1>2. OthersPlain(t)
  BY <1>1, ActiveAlone
<1>3. CASE Return(t, FALSE)
  BY <1>1, <1>2, <1>3, ReturnOK, SerialQuiet DEF Inv
<1>4. CASE Goto(t, "s_lock")
  <2>1. th[t].op \in LaunchOps /\ (th[t].op = "boot" => ~down)
    BY <1>1 DEF SerialInv, ThreadOK, LaunchOK, LaunchSites
  <2>2. Moved(t) /\ ThreadOK(t)' /\ th'[t].pc = "s_lock" /\ th'[t].op = th[t].op
    BY <1>1, <1>4, <2>1, GotoOK DEF Inv, Pcs, ScanPcs, LaunchSites
  <2>3. LaunchOK(t)'
    BY <1>1, <2>1, <2>2 DEF LaunchOK, Launching
  <2> QED BY <1>1, <1>2, <2>2, <2>3, SerialQuiet
<1> QED BY <1>1, <1>3, <1>4

(* A VM that was stopped is launched by an explicit start or a creation    *)
(* only: an automatic restart looks at the flag again under the lock.      *)
LEMMA LaunchBeginSerial ==
    ASSUME NoReload, Inv, SerialInv, NEW t \in Threads, LaunchBegin(t)
    PROVE  SerialInv'
<1>1. /\ th[t].pc = "s_lock" /\ lock = Free
      /\ UNCHANGED <<up, loaded, removing, dir, files, started, nics, sv, used, held, netq, rm>>
  BY DEF LaunchBegin, At, vmm, mem, disk, svc, netd
<1>2. OthersPlain(t) /\ OthersUnlocked(t)
  BY <1>1, ActiveAlone, Sole
<1>3. CASE Return(t, FALSE) /\ UNCHANGED <<lock, down>>
  <2>1. UNCHANGED World
    BY <1>1, <1>3 DEF World
  <2> QED BY <1>1, <1>2, <1>3, <2>1, ReturnOK, SerialQuiet DEF Inv
<1>4. CASE /\ ~TurnedAway(t) /\ Goto(t, LaunchTarget)
           /\ down' = (down /\ th[t].op \notin {"start", "create"})
  <2>1. LaunchTarget \in {"s_note", "s_wait", "s_flag"}
    BY DEF LaunchTarget
  <2>2. th[t].op \in LaunchOps /\ (th[t].op = "boot" => ~down) /\ (down => ~started)
    BY <1>1 DEF SerialInv, ThreadOK, LaunchOK, DiskOK, LaunchSites
  <2>3. ~down'
    BY <1>4, <2>2 DEF LaunchOps, TurnedAway
  <2>4. Moved(t) /\ ThreadOK(t)' /\ th'[t].pc = LaunchTarget
    BY <1>1, <1>4, <2>1, <2>2, GotoOK DEF Inv, Pcs, ScanPcs, LaunchSites
  <2>5. LaunchOK(t)'
    BY <2>1, <2>3, <2>4 DEF LaunchOK, Launching
  <2>6. DiskOK'
    BY <1>1, <2>3, DiskKept DEF SerialInv, DiskOK, Running
  <2> QED BY <1>1, <1>2, <2>4, <2>5, <2>6, SerialMove
<1> QED BY <1>3, <1>4 DEF LaunchBegin

(* Steps that take a launch from one place to the next.                    *)
LEMMA LaunchOnSerial ==
    ASSUME NoReload, Inv, SerialInv, NEW t \in Threads,
           LaunchWaits(t) \/ LaunchGpu(t) \/ ConfigDone(t) \/ DeployFails(t)
    PROVE  SerialInv'
<1>1. /\ th[t].pc \in {"s_wait", "s_gpu", "s_config", "s_deploy"}
      /\ UNCHANGED World /\ up' = up /\ down' = down /\ files' = files
      /\ \E pc \in {"s_flag", "s_release", "s_deploy", "s_fail"} :
            Goto(t, pc) /\ (pc \in {"s_release", "s_deploy"} => th[t].pc \in {"s_gpu", "s_config"})
  BY WorldKept DEF LaunchWaits, LaunchGpu, ConfigDone, DeployFails, At, disk
<1>2. PICK pc \in {"s_flag", "s_release", "s_deploy", "s_fail"} :
            Goto(t, pc) /\ (pc \in {"s_release", "s_deploy"} => th[t].pc \in {"s_gpu", "s_config"})
  BY <1>1
<1>3. OthersPlain(t) /\ th[t].op \in LaunchOps /\ ~down
  BY <1>1, ActiveAlone DEF SerialInv, ThreadOK, LaunchOK, Launching, LaunchSites
<1>4. Moved(t) /\ ThreadOK(t)' /\ th'[t].pc = pc
  BY <1>1, <1>2, <1>3, GotoOK DEF Inv, Pcs, ScanPcs, LaunchSites
<1>5. pc \in {"s_release", "s_deploy"} => Config \subseteq files
  BY <1>2 DEF SerialInv, LaunchOK, Launching
<1>6. LaunchOK(t)'
  BY <1>1, <1>2, <1>3, <1>4, <1>5 DEF LaunchOK, Launching
<1> QED BY <1>1, <1>3, <1>4, <1>6, SerialQuiet

LEMMA LaunchFlagSerial ==
    ASSUME NoReload, Inv, SerialInv, NEW t \in Threads, LaunchFlag(t)
    PROVE  SerialInv'
<1>1. /\ th[t].pc \in {"s_note", "s_flag"}
      /\ UNCHANGED <<up, loaded, removing, sv, used, held, netq, rm, down>>
  BY DEF LaunchFlag, At, vmm, mem, svc, netd
<1>2. th[t].pc \in Locked /\ ~down /\ th[t].op \in LaunchOps
  BY <1>1 DEF SerialInv, LaunchOK, ThreadOK, Locked, Launching, LaunchSites
<1>3. OthersPlain(t) /\ OthersUnlocked(t)
  BY <1>1, <1>2, ActiveAlone, Sole
<1>4. files \subseteq files'
  BY DEF LaunchFlag, Write
<1>5. DiskOK'
  BY <1>1, <1>2, <1>4, DiskKept DEF SerialInv, DiskOK, Running
<1>6. CASE Config \subseteq files /\ Goto(t, "s_gpu")
  <2>1. Moved(t) /\ ThreadOK(t)' /\ th'[t].pc = "s_gpu"
    BY <1>1, <1>2, <1>6, GotoOK DEF Inv, Pcs, ScanPcs, LaunchSites
  <2>2. Config \subseteq files'
    BY <1>4, <1>6
  <2>3. LaunchOK(t)'
    BY <1>1, <1>2, <2>1, <2>2 DEF LaunchOK, Launching
  <2> QED BY <1>1, <1>3, <1>5, <2>1, <2>3, SerialMove
<1>7. CASE \E ok \in BOOLEAN : Finish(t, ok)
  BY <1>1, <1>3, <1>5, <1>7, ReturnOK, SerialMove DEF Inv, Finish
<1>8. loaded \in BOOLEAN
  BY DEF Inv, Types
<1> QED BY <1>6, <1>7, <1>8 DEF LaunchFlag

LEMMA PrepareBeginSerial ==
    ASSUME NoReload, Inv, SerialInv, NEW t \in Threads, PrepareBegin(t)
    PROVE  SerialInv'
<1>1. /\ th[t].pc = "s_release"
      /\ UNCHANGED <<up, removing, sv, started, rm, down>>
  BY DEF PrepareBegin, At, vmm, mem, svc
<1>2. /\ th[t].pc \in Locked /\ ~down /\ th[t].op \in LaunchOps /\ Config \subseteq files
      /\ Types /\ NetdMarked
  BY <1>1 DEF Inv, SerialInv, LaunchOK, ThreadOK, DiskOK, Locked, Launching, LaunchSites
<1>3. PICK ok \in BOOLEAN :
         IF nics = 0
         THEN Release(ok) /\ Goto(t, "s_config")
         ELSE /\ IF "pending" \notin files THEN ok /\ UNCHANGED netd
                 ELSE \/ ok /\ Answered /\ held' = {} /\ UNCHANGED netq
                      \/ ~ok /\ CallFails("sweep", 0)
              /\ Write({"pending"})
              /\ th' = [th EXCEPT ![t].pc = "s_prep", ![t].n = 1, ![t].hb = ~ok]
  BY DEF PrepareBegin
<1>4. CASE nics = 0
  <2>1. NetdMarked' /\ Config \subseteq files'
    BY <1>2, <1>3, <1>4, MarkedRelease
  <2>2. Moved(t) /\ ThreadOK(t)' /\ th'[t].pc = "s_config"
    BY <1>1, <1>2, <1>3, <1>4, GotoOK DEF Pcs, ScanPcs, LaunchSites
  <2>3. LaunchOK(t)'
    BY <1>1, <1>2, <2>1, <2>2 DEF LaunchOK, Launching
  <2> QED BY <1>1, <1>2, <2>1, <2>2, <2>3, SerialNetd
<1>5. CASE nics # 0
  <2> DEFINE r == [th[t] EXCEPT !.pc = "s_prep", !.n = 1, !.hb = ~ok]
  <2>1. th' = [th EXCEPT ![t] = r] /\ files' = files \cup {"pending"}
    BY <1>3, <1>5 DEF Write
  <2>2. 1 \in 0..NicCount
    BY <1>2, <1>5, BoundsAssumption DEF Types
  <2>3. r \in ThreadState /\ r.pc = "s_prep" /\ r.op = th[t].op /\ r.hb = ~ok
    BY <1>2, <2>2 DEF Types, ThreadState, Pcs
  <2> HIDE DEF r
  <2>4. Moved(t) /\ th'[t].pc = "s_prep" /\ th'[t].op = th[t].op /\ th'[t].hb = ~ok
    BY <1>2, <2>1, <2>3, SetMoves
  <2>5. ThreadOK(t)'
    BY <1>1, <1>2, <2>4, GoesOn DEF ScanPcs, LaunchSites
  <2>6. NetdMarked' /\ Config \subseteq files'
    BY <1>2, <2>1 DEF NetdMarked
  <2>7. ok => held' = {} /\ NoPrepare'
    <3>1. CASE "pending" \notin files
      BY <1>2, <1>3, <1>5, <3>1 DEF NetdMarked, NoPrepare, netd
    <3>2. CASE "pending" \in files
      <4> SUFFICES ASSUME ok PROVE held' = {} /\ NoPrepare'
        OBVIOUS
      <4>1. held' = {} /\ netq' = <<>>
        BY <1>3, <1>5, <3>2 DEF Answered
      <4> QED BY <4>1 DEF NoPrepare
    <3> QED BY <3>1, <3>2
  <2>8. LaunchOK(t)'
    BY <1>1, <1>2, <2>1, <2>4, <2>6, <2>7 DEF LaunchOK, Launching
  <2> QED BY <1>1, <1>2, <2>4, <2>5, <2>6, <2>8, SerialNetd
<1> QED BY <1>4, <1>5

(* What a launch that has its interfaces in hand knows.                    *)
LEMMA InHand ==
    ASSUME SerialInv, NEW t \in Threads, th[t].pc \in {"s_prep", "s_undo", "s_deploy", "s_fail"}
    PROVE  /\ th[t].pc \in Locked /\ th[t].pc # "idle" /\ ~down /\ th[t].op \in LaunchOps
           /\ NetdMarked
           /\ th[t].pc = "s_prep" => "pending" \in files /\ Config \subseteq files
           /\ th[t].pc = "s_deploy" => Config \subseteq files
BY DEF SerialInv, LaunchOK, ThreadOK, DiskOK, Locked, Launching, LaunchSites

LEMMA PrepareOkSerial ==
    ASSUME NoReload, Inv, SerialInv, NEW t \in Threads, PrepareOk(t)
    PROVE  SerialInv'
<1>1. /\ th[t].pc = "s_prep"
      /\ th' = IF th[t].n = nics THEN [th EXCEPT ![t].pc = "s_config"]
                                 ELSE [th EXCEPT ![t].n = @ + 1]
      /\ UNCHANGED <<up, removing, sv, started, rm, down, files>>
  BY DEF PrepareOk, At, vmm, mem, svc, disk
<1>2. /\ th[t].pc \in Locked /\ ~down /\ th[t].op \in LaunchOps
      /\ "pending" \in files /\ Config \subseteq files
  BY <1>1, InHand
<1>3. NetdMarked' /\ (Config \subseteq files => Config \subseteq files')
  BY <1>1, <1>2 DEF NetdMarked
<1>4. CASE th[t].n = nics
  <2>1. Moved(t) /\ ThreadOK(t)' /\ th'[t].pc = "s_config"
    BY <1>1, <1>2, <1>4, GotoOK DEF Inv, Pcs, ScanPcs, LaunchSites, Goto
  <2>2. LaunchOK(t)'
    BY <1>1, <1>2, <2>1 DEF LaunchOK, Launching
  <2> QED BY <1>1, <1>2, <1>3, <2>1, <2>2, SerialNetd
<1>5. CASE th[t].n # nics
  <2> DEFINE n == th[t].n
  <2> DEFINE r == [th[t] EXCEPT !.n = n + 1]
  <2>1. th' = [th EXCEPT ![t] = r]
    BY <1>1, <1>5
  <2>2. n \in 1..nics /\ nics \in 0..NicCount /\ NicCount \in Nat
    BY <1>1, BoundsAssumption DEF Inv, HolderOK, Types
  <2>8. n + 1 \in 0..NicCount /\ th[t] \in ThreadState
    BY <1>5, <2>2 DEF Inv, Types
  <2>3. r \in ThreadState /\ r.pc = "s_prep" /\ r.op = th[t].op /\ r.n = n + 1
    BY <1>1, <2>8 DEF ThreadState
  <2> HIDE DEF r
  <2>4. Moved(t) /\ th'[t].pc = "s_prep" /\ th'[t].op = th[t].op /\ th'[t].n = n + 1
    BY <2>1, <2>3, SetMoves DEF Inv
  <2>5. ThreadOK(t)'
    BY <1>1, <1>2, <2>4, GoesOn DEF ScanPcs, LaunchSites
  <2>6. th'[t].n # 1
    BY <2>2, <2>4
  <2>7. LaunchOK(t)'
    BY <1>1, <1>2, <2>4, <2>6 DEF LaunchOK, Launching
  <2> QED BY <1>1, <1>2, <1>3, <2>4, <2>5, <2>7, SerialNetd
<1> QED BY <1>4, <1>5

(* Giving up: the marker is only cleared where nothing can be held.        *)
LEMMA PrepareUnreachableSerial ==
    ASSUME NoReload, Inv, SerialInv, NEW t \in Threads, PrepareUnreachable(t)
    PROVE  SerialInv'
<1>1. /\ th[t].pc = "s_prep"
      /\ UNCHANGED <<up, removing, sv, started, rm, down, held, netq>>
  BY DEF PrepareUnreachable, At, vmm, mem, svc, netd
<1>2. /\ th[t].pc \in Locked /\ ~down /\ th[t].op \in LaunchOps /\ NetdMarked
      /\ "pending" \in files /\ Config \subseteq files
  BY <1>1, InHand
<1>3. CASE ForgetsMarker(t) /\ files' = files \ {"pending"} /\ Finish(t, FALSE)
  <2>1. held = {} /\ NoPrepare
    BY <1>1, <1>3 DEF ForgetsMarker, SerialInv, LaunchOK
  <2>2. NetdMarked'
    BY <1>1, <2>1 DEF NetdMarked, NoPrepare
  <2>3. Config \subseteq files'
    BY <1>2, <1>3 DEF Config
  <2>4. Moved(t) /\ ThreadOK(t)' /\ LaunchOK(t)'
    BY <1>1, <1>3, ReturnOK DEF Inv, Finish
  <2> QED BY <1>1, <1>2, <2>2, <2>3, <2>4, SerialNetd
<1>4. CASE Goto(t, "s_undo") /\ UNCHANGED <<files, lock>>
  <2>1. Moved(t) /\ ThreadOK(t)' /\ th'[t].pc = "s_undo"
    BY <1>1, <1>2, <1>4, GotoOK DEF Inv, Pcs, ScanPcs, LaunchSites
  <2>2. LaunchOK(t)'
    BY <1>1, <1>2, <2>1 DEF LaunchOK, Launching
  <2>3. NetdMarked' /\ (Config \subseteq files => Config \subseteq files')
    BY <1>1, <1>2, <1>4 DEF NetdMarked
  <2> QED BY <1>1, <1>2, <2>1, <2>2, <2>3, SerialNetd
<1> QED BY <1>3, <1>4 DEF PrepareUnreachable

LEMMA PrepareFailsSerial ==
    ASSUME NoReload, Inv, SerialInv, NEW t \in Threads, PrepareFails(t)
    PROVE  SerialInv'
<1>1. /\ th[t].pc = "s_prep" /\ Goto(t, "s_undo")
      /\ UNCHANGED <<up, removing, sv, started, rm, down, files>>
  BY DEF PrepareFails, At, vmm, mem, svc, disk
<1>2. /\ th[t].pc \in Locked /\ ~down /\ th[t].op \in LaunchOps /\ "pending" \in files
  BY <1>1, InHand
<1>3. Moved(t) /\ ThreadOK(t)' /\ th'[t].pc = "s_undo"
  BY <1>1, <1>2, GotoOK DEF Inv, Pcs, ScanPcs, LaunchSites
<1>4. LaunchOK(t)'
  BY <1>1, <1>2, <1>3 DEF LaunchOK, Launching
<1>5. NetdMarked' /\ (Config \subseteq files => Config \subseteq files')
  BY <1>1, <1>2 DEF NetdMarked
<1> QED BY <1>1, <1>2, <1>3, <1>4, <1>5, SerialNetd

LEMMA PrepareUndoSerial ==
    ASSUME NoReload, Inv, SerialInv, NEW t \in Threads, PrepareUndo(t)
    PROVE  SerialInv'
<1> DEFINE n == th[t].n
<1>1. /\ th[t].pc = "s_undo"
      /\ \/ held' = held \ {n} /\ UNCHANGED netq
         \/ CallFails("remove", n)
      /\ IF n = 1 THEN Finish(t, FALSE) ELSE th' = [th EXCEPT ![t].n = n - 1] /\ UNCHANGED lock
      /\ UNCHANGED <<up, removing, sv, started, rm, down, files>>
  BY DEF PrepareUndo, At, UndoDone, vmm, mem, svc, disk
<1>2. /\ th[t].pc \in Locked /\ ~down /\ th[t].op \in LaunchOps /\ NetdMarked
  BY <1>1, InHand
<1>3. n \in 1..NicCount /\ NicCount \in Nat
  BY <1>1, BoundsAssumption DEF Inv, HolderOK, Types, ThreadState
<1>4. NoMore
  <2>1. CASE held' = held \ {n} /\ UNCHANGED netq
    BY <2>1 DEF NoMore, NoPrepare
  <2>2. CASE CallFails("remove", n)
    <3>1. [op |-> "remove", nic |-> n] \in Requests
      BY <1>3 DEF Requests, Nics
    <3> QED BY <2>2, <3>1, CallFailsEffect DEF Inv
  <2> QED BY <1>1, <2>1, <2>2
<1>5. NetdMarked' /\ (Config \subseteq files => Config \subseteq files')
  BY <1>1, <1>2, <1>4, MarkedKept
<1>6. CASE n = 1
  <2>1. Moved(t) /\ ThreadOK(t)' /\ LaunchOK(t)'
    BY <1>1, <1>6, ReturnOK DEF Inv, Finish
  <2> QED BY <1>1, <1>2, <1>5, <2>1, SerialNetd
<1>7. CASE n # 1
  <2> DEFINE r == [th[t] EXCEPT !.n = n - 1]
  <2>1. th' = [th EXCEPT ![t] = r]
    BY <1>1, <1>7
  <2>2. n - 1 \in 0..NicCount /\ th[t] \in ThreadState
    BY <1>3, <1>7 DEF Inv, Types
  <2>3. r \in ThreadState /\ r.pc = "s_undo" /\ r.op = th[t].op
    BY <1>1, <2>2 DEF ThreadState
  <2> HIDE DEF r
  <2>4. Moved(t) /\ th'[t].pc = "s_undo" /\ th'[t].op = th[t].op
    BY <2>1, <2>3, SetMoves DEF Inv
  <2>5. ThreadOK(t)'
    BY <1>1, <1>2, <2>4, GoesOn DEF ScanPcs, LaunchSites
  <2>6. LaunchOK(t)'
    BY <1>1, <1>2, <2>4 DEF LaunchOK, Launching
  <2> QED BY <1>1, <1>2, <1>5, <2>4, <2>5, <2>6, SerialNetd
<1> QED BY <1>6, <1>7

LEMMA DeploySerial ==
    ASSUME NoReload, Inv, SerialInv, NEW t \in Threads, Deploy(t)
    PROVE  SerialInv'
<1>1. /\ th[t].pc = "s_deploy" /\ Finish(t, TRUE)
      /\ UNCHANGED <<up, removing, files, started, held, netq, rm, down>>
  BY DEF Deploy, At, vmm, mem, disk, netd
<1>2. th[t].pc \in Locked /\ th[t].pc # "idle" /\ Config \subseteq files
  BY <1>1, InHand
<1>3. OthersPlain(t) /\ OthersUnlocked(t)
  BY <1>2, ActiveAlone, Sole
<1>4. Moved(t) /\ ThreadOK(t)' /\ LaunchOK(t)'
  BY <1>1, ReturnOK DEF Inv, Finish
<1>5. DiskOK'
  BY <1>1, <1>2 DEF SerialInv, DiskOK, NetdMarked, NoDeleteUnderQemu
<1> QED BY <1>1, <1>3, <1>4, <1>5, SerialMove

(* Releasing and ending.                                                   *)
LEMMA ReleasingSerial ==
    ASSUME NoReload, Inv, SerialInv, NEW t \in Threads,
           LaunchFailed(t) \/ StopRelease(t) \/ ReconcileRelease(t)
    PROVE  SerialInv'
<1>1. /\ th[t].pc \in {"s_fail", "p_release", "n_release"}
      /\ \E ok \in BOOLEAN : Finish(t, ok)
      /\ \E ok \in BOOLEAN : Release(ok)
      /\ UNCHANGED <<up, removing, sv, started, rm, down>>
  BY DEF LaunchFailed, StopRelease, ReconcileRelease, At, vmm, mem, svc
<1>2. NetdMarked' /\ (Config \subseteq files => Config \subseteq files')
  BY <1>1, MarkedRelease DEF Inv, SerialInv, DiskOK
<1>3. Moved(t) /\ ThreadOK(t)' /\ LaunchOK(t)'
  BY <1>1, ReturnOK DEF Inv, Finish
<1>4. th[t].pc \in Locked
  BY <1>1, Places DEF Launching
<1> QED BY <1>1, <1>2, <1>3, <1>4, SerialNetd

LEMMA LaunchSerial ==
    ASSUME NoReload, Inv, SerialInv, NEW t \in Threads, LaunchStep(t)
    PROVE  SerialInv'
BY EnterSerial, LaunchBeginSerial, LaunchOnSerial, LaunchFlagSerial, PrepareBeginSerial,
   PrepareOkSerial, PrepareUnreachableSerial, PrepareFailsSerial, PrepareUndoSerial,
   DeploySerial, ReleasingSerial
   DEF LaunchStep

-----------------------------------------------------------------------------
(* The other operations.                                                   *)

(* Those that end, or only move the thread.                                *)
LEMMA QuietSerial ==
    ASSUME NoReload, Inv, SerialInv, NEW t \in Threads,
           AutoDecide(t) \/ UpdateBegin(t) \/ ReconcileCheck(t) \/ Fails(t) \/ ReloadRead(t)
    PROVE  SerialInv'
<1>1. th[t].pc # "idle" /\ UNCHANGED World /\ up' = up
  BY WorldKept DEF AutoDecide, UpdateBegin, ReconcileCheck, Fails, ReloadRead, At
<1>2. OthersPlain(t)
  BY <1>1, ActiveAlone
<1>3. ASSUME th' = [th EXCEPT ![t] = Idle] PROVE SerialInv'
  BY <1>1, <1>2, <1>3, IdleMoves, IdleOK, SerialQuiet DEF Inv
<1>4. ASSUME NEW pc \in {"u_net", "u_put", "n_release"}, Goto(t, pc) PROVE SerialInv'
  <2>1. Moved(t) /\ ThreadOK(t)' /\ th'[t].pc = pc
    BY <1>1, <1>4, GotoOK DEF Inv, Pcs, ScanPcs, LaunchSites, Launching
  <2>2. LaunchOK(t)'
    BY <1>4, <2>1 DEF LaunchOK, Launching
  <2> QED BY <1>1, <1>2, <2>1, <2>2, SerialQuiet
<1>5. CASE AutoDecide(t)
  <2>1. th[t].pc = "a_decide" /\ ((Goto(t, "s_enter") /\ started) \/ th' = [th EXCEPT ![t] = Idle])
    BY <1>5 DEF AutoDecide, At
  <2>2. CASE Goto(t, "s_enter") /\ started
    <3>1. th[t].op \in LaunchOps /\ ~down
      BY <2>1, <2>2 DEF SerialInv, ThreadOK, LaunchSites, DiskOK
    <3>2. Moved(t) /\ ThreadOK(t)' /\ th'[t].pc = "s_enter"
      BY <1>1, <2>2, <3>1, GotoOK DEF Inv, Pcs, ScanPcs
    <3>3. LaunchOK(t)'
      BY <1>1, <3>1, <3>2 DEF LaunchOK, Launching, World
    <3> QED BY <1>1, <1>2, <3>2, <3>3, SerialQuiet
  <2> QED BY <1>3, <2>1, <2>2
<1>6. CASE UpdateBegin(t)
  BY <1>3, <1>4, <1>6 DEF UpdateBegin
<1>7. CASE ReconcileCheck(t)
  BY <1>3, <1>4, <1>7 DEF ReconcileCheck
<1>8. CASE Fails(t)
  BY <1>1, <1>2, <1>8, ReturnOK, SerialQuiet DEF Fails, Inv, Finish
<1>9. CASE ReloadRead(t)
  <2>1. th[t].pc = "l_read" /\ (Goto(t, "l_add") \/ Goto(t, "l_resume"))
    BY <1>9 DEF ReloadRead, At
  <2>2. th[t].op = "boot"
    BY <2>1 DEF SerialInv, ThreadOK, ScanPcs
  <2>3. Moved(t) /\ ThreadOK(t)' /\ th'[t].pc \in {"l_add", "l_resume"}
    BY <1>1, <2>1, <2>2, GotoOK DEF Inv, Pcs, Launching, LaunchSites
  <2>4. LaunchOK(t)'
    BY <2>3 DEF LaunchOK, Launching
  <2> QED BY <1>1, <1>2, <2>3, <2>4, SerialQuiet
<1> QED BY <1>5, <1>6, <1>7, <1>8, <1>9

(* A stop records itself under the lock: no launch is under way.           *)
LEMMA StopFlagSerial ==
    ASSUME NoReload, Inv, SerialInv, NEW t \in Threads, StopFlag(t)
    PROVE  SerialInv'
<1>1. /\ th[t].pc = "p_lock" /\ lock = Free
      /\ UNCHANGED <<up, removing, sv, held, netq, rm>>
  BY DEF StopFlag, At, vmm, mem, svc, netd
<1>2. OthersPlain(t) /\ OthersUnlocked(t)
  BY <1>1, ActiveAlone, Sole
<1>3. CASE dir
  <2>1. Goto(t, "p_stop") /\ files \subseteq files' /\ started' = FALSE
    BY <1>3 DEF StopFlag, Write
  <2>2. Moved(t) /\ ThreadOK(t)' /\ th'[t].pc = "p_stop"
    BY <1>1, <2>1, GotoOK DEF Inv, Pcs, ScanPcs, LaunchSites, Launching
  <2>3. LaunchOK(t)'
    BY <2>2 DEF LaunchOK, Launching
  <2>4. DiskOK'
    BY <1>1, <2>1, DiskKept DEF SerialInv, DiskOK, Running
  <2> QED BY <1>1, <1>2, <2>2, <2>3, <2>4, SerialMove
<1>4. CASE ~dir
  <2>1. th' = [th EXCEPT ![t] = Idle] /\ UNCHANGED World
    BY <1>1, <1>4 DEF StopFlag, World
  <2> QED BY <1>2, <2>1, IdleMoves, IdleOK, SerialQuiet DEF Inv
<1> QED BY <1>3, <1>4

(* QEMU is told to stop.                                                   *)
LEMMA StopSignalSerial ==
    ASSUME NoReload, Inv, SerialInv, NEW t \in Threads, StopSignal(t) \/ SvStopSignal(t)
    PROVE  SerialInv'
<1>1. /\ th[t].pc \in {"p_stop", "v_stop"}
      /\ Goto(t, "p_release") \/ Finish(t, FALSE) \/ th' = [th EXCEPT ![t] = Idle]
      /\ \E ok \in BOOLEAN : StopProcess(ok)
      /\ UNCHANGED <<up, removing, files, started, held, netq, rm, down>>
  BY DEF StopSignal, SvStopSignal, At, vmm, mem, disk, netd
<1>2. OthersPlain(t)
  BY <1>1, ActiveAlone
<1>3. Running' => Running
  BY <1>1, StopProcessEffect DEF Inv, NoRise
<1>4. DiskOK' /\ Spared
  BY <1>1, <1>3, DiskKept DEF SerialInv, DiskOK, Spared, FilesKept
<1>5. CASE Goto(t, "p_release")
  <2>1. Moved(t) /\ ThreadOK(t)' /\ th'[t].pc = "p_release"
    BY <1>1, <1>5, GotoOK DEF Inv, Pcs, ScanPcs, LaunchSites, Launching
  <2>2. LaunchOK(t)'
    BY <2>1 DEF LaunchOK, Launching
  <2> QED BY <1>1, <1>2, <1>4, <2>1, <2>2, SerialMove
<1>6. CASE Finish(t, FALSE)
  BY <1>1, <1>2, <1>4, <1>6, ReturnOK, SerialMove DEF Inv, Finish
<1>7. CASE th' = [th EXCEPT ![t] = Idle]
  BY <1>1, <1>2, <1>4, <1>7, IdleMoves, IdleOK, SerialMove DEF Inv
<1> QED BY <1>1, <1>5, <1>6, <1>7

LEMMA UpdateNetSerial ==
    ASSUME NoReload, Inv, SerialInv, NEW t \in Threads, UpdateNet(t)
    PROVE  SerialInv'
<1>1. /\ th[t].pc = "u_net"
      /\ UNCHANGED <<netd, files>> \/ \E ok \in BOOLEAN : Release(ok)
      /\ UNCHANGED <<up, removing, sv, started, rm, down>>
  BY DEF UpdateNet, At, vmm, mem, svc
<1>2. NetdMarked' /\ (Config \subseteq files => Config \subseteq files')
  <2>1. CASE UNCHANGED <<netd, files>>
    BY <2>1 DEF SerialInv, DiskOK, NetdMarked, netd
  <2>2. CASE \E ok \in BOOLEAN : Release(ok)
    BY <2>2, MarkedRelease DEF Inv, SerialInv, DiskOK
  <2> QED BY <1>1, <2>1, <2>2
<1> DEFINE r == [th[t] EXCEPT !.pc = "u_put", !.hb = TRUE]
<1>3. th' = [th EXCEPT ![t] = r]
  BY DEF UpdateNet
<1>4. r \in ThreadState /\ r.pc = "u_put" /\ r.op = th[t].op
  BY DEF Inv, Types, ThreadState, Pcs
<1> HIDE DEF r
<1>5. Moved(t) /\ th'[t].pc = "u_put" /\ th'[t].op = th[t].op
  BY <1>3, <1>4, SetMoves DEF Inv
<1>6. ThreadOK(t)'
  BY <1>1, <1>5, GoesOn DEF ScanPcs, LaunchSites, Launching
<1>7. LaunchOK(t)'
  BY <1>5 DEF LaunchOK, Launching
<1> QED BY <1>1, <1>2, <1>5, <1>6, <1>7, SerialNetd, Places

LEMMA UpdatePutSerial ==
    ASSUME NoReload, Inv, SerialInv, NEW t \in Threads, UpdatePut(t)
    PROVE  SerialInv'
<1>1. /\ th[t].pc = "u_put" /\ Finish(t, TRUE) /\ files' = files \cup {"manifest"}
      /\ UNCHANGED <<up, removing, started, sv, held, netq, rm, down>>
  BY DEF UpdatePut, At, Write, vmm, svc, netd
<1>2. OthersPlain(t)
  BY <1>1, ActiveAlone
<1>3. DiskOK'
  BY <1>1, DiskKept DEF SerialInv, DiskOK, Running
<1>4. Spared
  BY <1>1 DEF Spared, FilesKept
<1> QED BY <1>1, <1>2, <1>3, <1>4, ReturnOK, SerialMove DEF Inv, Finish

(* The start-up scan.                                                      *)
LEMMA ScanSerial ==
    ASSUME NoReload, Inv, SerialInv, NEW t \in Threads,
           ReloadDirs(t) \/ ReloadScan(t) \/ ReloadMark(t) \/ ReloadAdd(t) \/ ReloadResume(t)
    PROVE  SerialInv'
<1>1. th[t].pc \in {"l_mark", "l_add", "l_resume"}
  BY DEF SerialInv, ThreadOK, ReloadDirs, ReloadScan, ReloadMark, ReloadAdd, ReloadResume, At
<1>2. th[t].op = "boot" /\ Alone(t) /\ up = "booting" /\ ~removing
  BY <1>1 DEF SerialInv, ThreadOK, ScanPcs, DiskOK
<1>3. OthersPlain(t) /\ th[t] \in ThreadState
  BY <1>1, ActiveAlone DEF Inv, Types
<1>4. CASE ReloadMark(t)
  <2>1. UNCHANGED World /\ up' = up
    BY <1>4, WorldKept DEF ReloadMark
  <2>2. PICK m \in BOOLEAN : m = ("removing" \in files)
    <3>1. CASE "removing" \in files
      <4>1. TRUE = ("removing" \in files)
        BY <3>1
      <4> QED BY <4>1
    <3>2. CASE "removing" \notin files
      <4>1. FALSE = ("removing" \in files)
        BY <3>2
      <4> QED BY <4>1
    <3> QED BY <3>1, <3>2
  <2>3. PICK pc \in {"l_read", "l_resume"} : pc = IF dir THEN "l_read" ELSE "l_resume"
    OBVIOUS
  <2> DEFINE r == [th[t] EXCEPT !.pc = pc, !.mk = m]
  <2>4. th' = [th EXCEPT ![t] = r]
    BY <1>4, <2>2, <2>3 DEF ReloadMark
  <2>5. r \in ThreadState /\ r.pc \in {"l_read", "l_resume"} /\ r.op = th[t].op
    BY <1>3, <2>2, <2>3 DEF ThreadState, Pcs
  <2> HIDE DEF r
  <2>6. Moved(t) /\ th'[t].pc \in {"l_read", "l_resume"} /\ th'[t].op = th[t].op
    BY <2>4, <2>5, SetMoves DEF Inv
  <2>7. ThreadOK(t)'
    BY <1>1, <1>2, <2>1, <2>6, GoesOn DEF LaunchSites, Launching
  <2>8. LaunchOK(t)'
    BY <2>6 DEF LaunchOK, Launching
  <2> QED BY <1>3, <2>1, <2>6, <2>7, <2>8, SerialQuiet
<1>5. CASE ReloadAdd(t)
  <2>1. /\ UNCHANGED World /\ up' = up /\ down' = down
        /\ (Goto(t, "s_enter") /\ started) \/ Goto(t, "l_resume")
    BY <1>5 DEF ReloadAdd, World, vmm, disk, svc, netd
  <2>2. CASE Goto(t, "s_enter") /\ started
    <3>1. Moved(t) /\ ThreadOK(t)' /\ th'[t].pc = "s_enter"
      BY <1>1, <1>2, <2>1, <2>2, GotoOK DEF Inv, Pcs, ScanPcs, LaunchOps
    <3>2. ~down'
      BY <2>1, <2>2 DEF SerialInv, DiskOK
    <3>3. LaunchOK(t)'
      BY <3>1, <3>2 DEF LaunchOK, Launching
    <3> QED BY <1>3, <2>1, <3>1, <3>3, SerialQuiet
  <2>3. CASE Goto(t, "l_resume")
    <3>1. Moved(t) /\ ThreadOK(t)' /\ th'[t].pc = "l_resume"
      BY <1>1, <1>2, <2>1, <2>3, GotoOK DEF Inv, Pcs, LaunchSites, Launching
    <3>2. LaunchOK(t)'
      BY <3>1 DEF LaunchOK, Launching
    <3> QED BY <1>3, <2>1, <3>1, <3>2, SerialQuiet
  <2> QED BY <2>1, <2>2, <2>3
<1>6. CASE ReloadResume(t)
  <2>1. /\ th' = [th EXCEPT ![t] = Idle] /\ up' = "up" /\ SpawnFinishRemove(Resumes(t))
        /\ UNCHANGED <<files, started, sv, held, netq, down>>
    BY <1>2, <1>6 DEF ReloadResume, disk, svc, netd
  <2>2. Moved(t) /\ ThreadOK(t)' /\ LaunchOK(t)'
    BY <2>1, IdleMoves, IdleOK DEF Inv
  <2>3. rm' = rm \/ rm'.todo = {}
    BY <2>1 DEF SpawnFinishRemove
  <2>4. DiskOK' /\ Spared
    BY <2>1, <2>3, DiskKept DEF SerialInv, DiskOK, Running, Spared, FilesKept
  <2> QED BY <1>3, <2>1, <2>2, <2>4, SerialMove
<1> QED BY <1>1, <1>4, <1>5, <1>6 DEF ReloadDirs, ReloadScan, At

LEMMA CreationSerial ==
    ASSUME NoReload, Inv, SerialInv, NEW t \in Threads,
           CreateLoad(t) \/ CreateLoadFails(t) \/ CreateRemove(t) \/ EventWrite(t)
    PROVE  SerialInv'
<1>1. th[t].pc \in {"c_load", "c_remove", "e_write"} /\ up' = up
  BY DEF CreateLoad, CreateLoadFails, CreateRemove, EventWrite, At, vmm
<1>2. OthersPlain(t)
  BY <1>1, ActiveAlone
<1>3. ASSUME th' = [th EXCEPT ![t] = Idle]
      PROVE  Moved(t) /\ ThreadOK(t)' /\ LaunchOK(t)'
  BY <1>3, IdleMoves, IdleOK DEF Inv
<1>4. CASE CreateLoad(t)
  <2>1. /\ UNCHANGED World /\ th[t].pc = "c_load"
        /\ Goto(t, "s_enter") \/ th' = [th EXCEPT ![t] = Idle]
    BY <1>4 DEF CreateLoad, World, At, vmm, disk, svc, netd
  <2>2. th[t].op = "create"
    BY <2>1 DEF SerialInv, ThreadOK
  <2>3. CASE Goto(t, "s_enter")
    <3>1. /\ Moved(t) /\ ThreadOK(t)' /\ th'[t].pc = "s_enter" /\ th'[t].op = "create"
      BY <1>1, <2>2, <2>3, GotoOK DEF Inv, Pcs, ScanPcs, LaunchOps
    <3>2. LaunchOK(t)'
      BY <3>1 DEF LaunchOK, Launching
    <3> QED BY <1>2, <2>1, <3>1, <3>2, SerialQuiet
  <2> QED BY <1>2, <1>3, <2>1, <2>3, SerialQuiet
<1>5. CASE CreateLoadFails(t)
  <2>1. /\ th[t].pc = "c_load" /\ started' = FALSE /\ th' = [th EXCEPT ![t] = Idle]
        /\ UNCHANGED <<up, removing, sv, held, netq, rm, down>>
    BY <1>5 DEF CreateLoadFails, At, vmm, mem, svc, netd
  <2>2. Alone(t) /\ sv = "absent" /\ held = {} /\ netq = <<>>
    BY <2>1 DEF SerialInv, ThreadOK
  <2>3. OthersUnlocked(t)
    BY <2>2, IdleType DEF Alone, OthersUnlocked, Locked, Launching
  <2>4. Len(netq') = 0
    BY <2>1, <2>2
  <2>5. DiskOK'
    BY <2>1, <2>2, <2>4 DEF SerialInv, DiskOK, NetdMarked, NoDeleteUnderQemu, Running
  <2> QED BY <1>1, <1>2, <1>3, <2>1, <2>3, <2>5, SerialMove
<1>6. CASE CreateRemove(t)
  <2>1. /\ th[t].pc = "c_remove" /\ th' = [th EXCEPT ![t] = Idle]
        /\ UNCHANGED <<started, sv, held, netq, down>>
        /\ \/ ClaimAndMark
           \/ UNCHANGED <<removing, files, rm>>
    BY <1>6 DEF CreateRemove, At, mem, disk, svc, netd
  <2>2. up = "up"
    BY <2>1 DEF SerialInv, ThreadOK
  <2>3. files \subseteq files' /\ (rm' = rm \/ rm'.todo = {})
    BY <2>1 DEF ClaimAndMark, Write
  <2>4. DiskOK'
    BY <1>1, <2>1, <2>2, <2>3, DiskKept DEF SerialInv, DiskOK, Running
  <2>5. Spared
    BY <2>1, <2>3 DEF Spared, FilesKept
  <2> QED BY <1>1, <1>2, <1>3, <2>1, <2>4, <2>5, SerialMove
<1>7. CASE EventWrite(t)
  <2>1. /\ th' = [th EXCEPT ![t] = Idle] /\ files \subseteq files'
        /\ started' = FALSE \/ started' = started
        /\ UNCHANGED <<up, removing, sv, held, netq, rm, down>>
    BY <1>7 DEF EventWrite, Write, vmm, mem, svc, netd
  <2>4. down' => ~started'
    BY <2>1 DEF SerialInv, DiskOK
  <2>2. DiskOK'
    BY <2>1, <2>4, DiskKept DEF SerialInv, DiskOK, Running
  <2>3. Spared
    BY <2>1 DEF Spared, FilesKept
  <2> QED BY <1>1, <1>2, <1>3, <2>1, <2>2, <2>3, SerialMove
<1> QED BY <1>4, <1>5, <1>6, <1>7

LEMMA OtherSerial ==
    ASSUME NoReload, Inv, SerialInv, NEW t \in Threads, OtherStep(t)
    PROVE  SerialInv'
BY QuietSerial, StopFlagSerial, StopSignalSerial, ReleasingSerial, UpdateNetSerial,
   UpdatePutSerial, ScanSerial, CreationSerial
   DEF OtherStep

LEMMA BootSerial ==
    ASSUME IInv, SerialInv, NEW t \in Threads, Boot(t)
    PROVE  SerialInv'
<1> DEFINE r == [Idle EXCEPT !.pc = "l_mark", !.op = "boot", !.kn = (sv # "absent")]
<1>1. /\ th' = [th EXCEPT ![t] = r] /\ up' = "booting" /\ up = "down"
      /\ UNCHANGED <<removing, files, started, sv, held, netq, rm, down>>
  BY DEF Boot, mem, disk, svc, netd
<1>2. r \in ThreadState /\ r.pc = "l_mark" /\ r.op = "boot"
  BY IdleType DEF Idle, ThreadState, Pcs
<1> HIDE DEF r
<1>3. Moved(t) /\ th'[t].pc = "l_mark" /\ th'[t].op = "boot"
  BY <1>1, <1>2, SetMoves DEF IInv, Inv
<1>4. \A u \in Threads : th[u] = Idle
  BY <1>1 DEF IInv, DownOK
<1>5. OthersPlain(t) /\ OthersUnlocked(t) /\ Alone(t)'
  BY <1>3, <1>4, IdleType DEF OthersPlain, OthersUnlocked, Alone, Moved, Locked, Launching
<1>6. ThreadOK(t)'
  BY <1>1, <1>3, <1>5 DEF ThreadOK, LaunchSites, Launching
<1>7. LaunchOK(t)'
  BY <1>3 DEF LaunchOK, Launching
<1>8. DiskOK'
  BY <1>1, DiskKept DEF SerialInv, DiskOK, Running
<1> QED BY <1>1, <1>3, <1>5, <1>6, <1>7, <1>8, SerialMove

-----------------------------------------------------------------------------
(* The removal and the environment: no thread moves.                       *)
LEMMA SerialStill ==
    ASSUME SerialInv, UNCHANGED <<th, up, down>>, DiskOK',
           \/ \A t \in Threads : th[t].pc # "c_load"
           \/ UNCHANGED <<loaded, removing, sv, held, netq, files>>,
           \/ \A t \in Threads : th[t].pc \notin Locked
           \/ FilesKept /\ NoMore
    PROVE  SerialInv'
<1>1. ASSUME NEW t \in Threads PROVE ThreadOK(t)' /\ LaunchOK(t)'
  <2>1. ThreadOK(t) /\ LaunchOK(t)
    BY DEF SerialInv
  <2>2. ThreadOK(t)'
    <3>1. Alone(t) => Alone(t)'
      BY DEF Alone
    <3>2. CASE th[t].pc # "c_load"
      BY <2>1, <3>1, <3>2 DEF ThreadOK
    <3>3. CASE UNCHANGED <<loaded, removing, sv, held, netq, files>>
      BY <2>1, <3>1, <3>3 DEF ThreadOK
    <3> QED BY <3>2, <3>3
  <2>3. CASE th[t].pc \notin Locked
    <3>1. /\ th[t].pc # "s_prep" /\ th[t].pc \notin Launching
          /\ th[t].pc \notin Launching \cup {"s_wait", "s_note"}
      BY <2>3 DEF Locked, Launching
    <3> QED BY <2>1, <2>2, <3>1 DEF LaunchOK
  <2>4. CASE FilesKept /\ NoMore
    <3>1. /\ "pending" \in files => "pending" \in files'
          /\ Config \subseteq files => Config \subseteq files'
          /\ held = {} /\ NoPrepare => held' = {} /\ NoPrepare'
      BY <2>4 DEF FilesKept, NoMore
    <3> QED BY <2>1, <2>2, <3>1 DEF LaunchOK
  <2> QED BY <2>2, <2>3, <2>4
<1> QED BY <1>1 DEF SerialInv

LEMMA RemovalSerial ==
    ASSUME Inv, SerialInv, RemovalTask
    PROVE  SerialInv'
<1>1. rm.pc # "idle" /\ UNCHANGED <<th, up, down>>
  BY DEF RemovalTask, RmTakesLock, RmStop, RmPoll, RmRelease, RmDeleteFile, RmDeleteMarker,
         RmDir, RmForget, RmUnmark, RmAt, vmm
<1>2. removing /\ up = "up" /\ \A t \in Threads : th[t].pc # "c_load"
  BY <1>1 DEF Inv, LockOK, SerialInv, DiskOK, ThreadOK
<1>3. DiskOK /\ Types
  BY DEF Inv, SerialInv
<1>4. ASSUME RmTakesLock \/ RmStop \/ RmPoll \/ RmForget \/ RmUnmark \/ RmDir PROVE SerialInv'
  <2>1. UNCHANGED <<held, netq, started>> /\ files \subseteq files'
    BY <1>4 DEF RmTakesLock, RmStop, RmPoll, RmForget, RmUnmark, RmDir, Write, disk, netd
  <2>2. Running' => Running
    BY <1>3, <1>4, StopProcessEffect
       DEF RmTakesLock, RmStop, RmPoll, RmForget, RmUnmark, RmDir, svc, Running, NoRise
  <2>3. rm'.todo = {}
    <3>1. rm.pc # "delete"
      BY <1>4 DEF RmTakesLock, RmStop, RmPoll, RmForget, RmUnmark, RmDir, RmAt
    <3>2. rm.todo = {}
      BY <1>3, <3>1 DEF DiskOK
    <3>3. CASE RmUnmark
      BY <3>3 DEF RmUnmark, NoRemoval
    <3>4. CASE RmTakesLock \/ RmStop \/ RmPoll \/ RmForget \/ RmDir
      <4>1. \E pc \in {"stop", "poll", "release", "unmark", "forget"} : RmGoto(pc)
        BY <3>4 DEF RmTakesLock, RmStop, RmPoll, RmForget, RmDir
      <4> QED BY <1>3, <3>2, <4>1, RmGotoMoves
    <3> QED BY <1>4, <3>3, <3>4
  <2>4. DiskOK'
    BY <1>1, <1>2, <1>3, <2>1, <2>2, <2>3, DiskKept DEF DiskOK
  <2>5. FilesKept /\ NoMore
    BY <2>1 DEF FilesKept, NoMore, NoPrepare
  <2> QED BY <1>1, <1>2, <2>4, <2>5, SerialStill
<1>5. ASSUME rm.pc \in {"release", "delete"}
      PROVE  ~Running /\ \A t \in Threads : th[t].pc \notin Locked
  BY <1>5, ThreadsAssumption DEF Inv, LockOK, RmLocked, RemovalOK
<1>6. CASE RmRelease
  <2>1. rm.pc = "release" /\ UNCHANGED <<removing, started, sv>>
    BY <1>6 DEF RmRelease, RmAt, mem, svc
  <2>2. PICK ok \in BOOLEAN :
           /\ Release(ok)
           /\ rm' = [rm EXCEPT !.pc = RmNext(ok),
                               !.todo = IF RmNext(ok) = "delete" THEN files' \ {"removing"} ELSE {}]
    BY <1>6 DEF RmRelease
  <2>3. NetdMarked' /\ (Config \subseteq files => Config \subseteq files')
    BY <1>3, <2>2, MarkedRelease DEF DiskOK
  <2>4. ok => "pending" \notin files'
    BY <1>3, <2>2, ReleaseEffect
  <2>5. RmNext(ok) = "delete" => ok
    BY DEF RmNext
  <2>6. rm'.pc = RmNext(ok) /\ rm'.todo = IF RmNext(ok) = "delete" THEN files' \ {"removing"} ELSE {}
    BY <1>3, <2>2 DEF Types, RemovalState
  <2>7. "pending" \notin rm'.todo /\ (rm'.pc = "delete" \/ rm'.todo = {})
    BY <2>4, <2>5, <2>6
  <2>8. DiskOK'
    BY <1>1, <1>2, <1>3, <2>1, <2>3, <2>7 DEF DiskOK, NoDeleteUnderQemu, Running
  <2> QED BY <1>1, <1>2, <1>5, <2>1, <2>8, SerialStill
<1>7. CASE RmDeleteFile
  <2>1. rm.pc = "delete" /\ UNCHANGED <<removing, sv, held, netq>>
    BY <1>7 DEF RmDeleteFile, RmAt, mem, svc, netd
  <2>2. PICK f \in rm.todo : /\ files' = files \ {f} /\ started' = (started /\ f # "state")
                             /\ rm' = [rm EXCEPT !.todo = @ \ {f}]
    BY <1>7 DEF RmDeleteFile
  <2>3. f # "pending" /\ "pending" \notin rm.todo
    BY <1>3, <2>2 DEF DiskOK
  <2>4. rm'.pc = "delete" /\ rm'.todo = rm.todo \ {f}
    BY <1>3, <2>1, <2>2 DEF Types, RemovalState
  <2>5. NetdMarked'
    BY <1>3, <2>1, <2>2, <2>3 DEF DiskOK, NetdMarked
  <2>6. ~Running'
    BY <1>5, <2>1 DEF Running
  <2>7. down' => ~started'
    BY <1>1, <1>3, <2>2 DEF DiskOK
  <2>8. DiskOK'
    BY <1>1, <1>2, <2>1, <2>3, <2>4, <2>5, <2>6, <2>7 DEF DiskOK, NoDeleteUnderQemu
  <2> QED BY <1>1, <1>2, <1>5, <2>1, <2>8, SerialStill
<1>8. CASE RmDeleteMarker
  <2>1. /\ rm.pc = "delete" /\ rm.todo = {} /\ files' = files \ {"removing"} /\ RmGoto("rmdir")
        /\ UNCHANGED <<removing, started, sv, held, netq>>
    BY <1>8 DEF RmDeleteMarker, RmAt, mem, svc, netd
  <2>2. rm'.todo = {}
    BY <1>3, <2>1, RmGotoMoves
  <2>3. NetdMarked'
    BY <1>3, <2>1 DEF DiskOK, NetdMarked
  <2>4. ~Running'
    BY <1>5, <2>1 DEF Running
  <2>5. DiskOK'
    BY <1>1, <1>2, <1>3, <2>1, <2>2, <2>3, <2>4 DEF DiskOK, NoDeleteUnderQemu
  <2> QED BY <1>1, <1>2, <1>5, <2>1, <2>5, SerialStill
<1> QED BY <1>4, <1>6, <1>7, <1>8 DEF RemovalTask

LEMMA EnvironmentSerial ==
    ASSUME Inv, SerialInv, Environment
    PROVE  SerialInv'
<1>1. DiskOK /\ Types /\ \A t \in Threads : ThreadOK(t)
  BY DEF Inv, SerialInv
<1>2. CASE QemuExits \/ QemuKilled \/ SvRemove
  <2>1. /\ sv # "absent" /\ sv' \in {"exited", "stopped", "absent"}
        /\ UNCHANGED <<th, up, down, removing, files, started, held, netq, rm>>
    BY <1>2 DEF QemuExits, QemuKilled, SvRemove, vmm, mem, disk, netd
  <2>2. DiskOK'
    BY <1>1, <2>1, DiskKept DEF DiskOK, Running
  <2>3. \A t \in Threads : th[t].pc # "c_load"
    BY <1>1, <2>1 DEF ThreadOK
  <2>4. FilesKept /\ NoMore
    BY <2>1 DEF FilesKept, NoMore, NoPrepare
  <2> QED BY <2>1, <2>2, <2>3, <2>4, SerialStill
<1>3. CASE NetdRuns
  <2> DEFINE r == Head(netq)
  <2>1. /\ netq # <<>> /\ held' \in Outcomes(r) /\ netq' = Tail(netq)
        /\ UNCHANGED <<th, up, down, removing, files, started, sv, rm>>
    BY <1>3 DEF NetdRuns, vmm, mem, disk, svc
  <2>2. /\ \A i \in 1..Len(netq') : i + 1 \in 1..Len(netq) /\ netq'[i] = netq[i + 1]
        /\ 1 \in 1..Len(netq) /\ r = netq[1] /\ r \in Requests
    BY <1>1, <2>1, QueueTail
  <2> HIDE DEF r
  <2>3. r.op # "prepare" => held' \subseteq held
    BY <1>1, <2>1, <2>2, OutcomesType
  <2>4. NoPrepare => NoPrepare' /\ held' \subseteq held
    BY <2>2, <2>3 DEF NoPrepare
  <2>5. NetdMarked'
    <3>1. CASE held = {} /\ NoPrepare
      BY <2>4, <3>1 DEF NetdMarked, NoPrepare
    <3>2. CASE ~(held = {} /\ NoPrepare)
      BY <1>1, <2>1, <3>2 DEF NetdMarked, NoPrepare, DiskOK
    <3> QED BY <3>1, <3>2
  <2>6. DiskOK'
    BY <1>1, <2>1, <2>5 DEF DiskOK, NoDeleteUnderQemu, Running
  <2>7. ASSUME NEW t \in Threads PROVE ThreadOK(t)' /\ LaunchOK(t)'
    <3>1. ThreadOK(t) /\ LaunchOK(t) /\ th[t].pc # "c_load"
      BY <2>1 DEF SerialInv, ThreadOK
    <3>2. ThreadOK(t)'
      BY <2>1, <3>1 DEF ThreadOK, Alone
    <3>3. held = {} /\ NoPrepare => held' = {} /\ NoPrepare'
      BY <2>4
    <3>4. LaunchOK(t)'
      BY <2>1, <3>1, <3>3 DEF LaunchOK
    <3> QED BY <3>2, <3>4
  <2> QED BY <2>6, <2>7 DEF SerialInv
<1>4. CASE OrphanEnds
  <2>1. UNCHANGED <<th, up, down, loaded, removing, files, started, sv, held, netq, rm>>
    BY <1>4 DEF OrphanEnds, vmm, mem, disk, svc, netd
  <2>2. DiskOK'
    BY <1>1, <2>1, DiskKept DEF DiskOK, Running
  <2>3. FilesKept /\ NoMore
    BY <2>1 DEF FilesKept, NoMore, NoPrepare
  <2> QED BY <2>1, <2>2, <2>3, SerialStill
<1>5. CASE Remove
  <2>1. /\ loaded /\ files \subseteq files' /\ rm'.todo = {} /\ up = "up"
        /\ UNCHANGED <<th, up, down, started, sv, held, netq>>
    BY <1>5 DEF Remove, ClaimAndMark, Write, vmm, svc, netd
  <2>2. DiskOK'
    BY <1>1, <2>1, DiskKept DEF DiskOK, Running
  <2>3. \A t \in Threads : th[t].pc # "c_load"
    BY <1>1, <2>1 DEF ThreadOK
  <2>4. FilesKept /\ NoMore
    BY <2>1 DEF FilesKept, NoMore, NoPrepare
  <2> QED BY <2>1, <2>2, <2>3, <2>4, SerialStill
<1>6. CASE Crash
  <2>1. /\ removing' = FALSE /\ rm' = NoRemoval /\ \A t \in Threads : th'[t] = Idle
        /\ UNCHANGED <<files, started, sv, held, netq, down>>
    BY <1>6, CrashStep DEF Crash, disk, svc, netd
  <2>2. rm'.todo = {}
    BY <2>1 DEF NoRemoval
  <2>3. DiskOK'
    BY <1>1, <2>1, <2>2, DiskKept DEF DiskOK, Running
  <2> QED BY <2>1, <2>3, IdleOK DEF SerialInv
<1> QED BY <1>2, <1>3, <1>4, <1>5, <1>6 DEF Environment

LEMMA InitSerial == Init => SerialInv
<1> SUFFICES ASSUME Init PROVE SerialInv
  OBVIOUS
<1>1. \A t \in Threads : th[t] = Idle /\ th[t].pc = "idle" /\ th[t].op = "none"
  BY IdleType DEF Init
<1>2. \A t \in Threads : ThreadOK(t) /\ LaunchOK(t)
  BY <1>1 DEF ThreadOK, LaunchOK, ScanPcs, LaunchSites, Launching
<1>3. Len(netq) = 0 /\ rm.todo = {}
  BY DEF Init, NoRemoval
<1>4. DiskOK
  BY <1>3 DEF Init, DiskOK, NetdMarked, NoDeleteUnderQemu, Running
<1> QED BY <1>2, <1>4 DEF SerialInv

LEMMA NextSerial ==
    ASSUME NoReload
    PROVE  IInv /\ SerialInv /\ [Next]_vars => SerialInv'
<1> SUFFICES ASSUME IInv, SerialInv, [Next]_vars PROVE SerialInv'
  OBVIOUS
<1>1. CASE Next
  BY <1>1, RequestSerial, LaunchSerial, OtherSerial, BootSerial, RemovalSerial, EnvironmentSerial
     DEF Next, IInv
<1>2. CASE UNCHANGED vars
  <2>1. UNCHANGED <<th, up, down, loaded, removing, files, started, sv, held, netq, rm>>
    BY <1>2 DEF vars, vmm, mem, disk, svc, netd
  <2>2. DiskOK'
    BY <2>1, DiskKept DEF SerialInv, DiskOK, Running
  <2>3. FilesKept /\ NoMore
    BY <2>1 DEF FilesKept, NoMore, NoPrepare
  <2> QED BY <2>1, <2>2, <2>3, SerialStill
<1> QED BY <1>1, <1>2

(* Without overlapping reloads: what the operations know of each other, of *)
(* the marker and of the files, through any crash and restart.             *)
THEOREM SerialInvHolds ==
    ASSUME NoReload
    PROVE  Spec => [](IInv /\ SerialInv)
<1>1. IInv /\ SerialInv /\ [Next]_vars => IInv' /\ SerialInv'
  BY NextIInv, NextSerial
<1> QED BY InitIInv, InitSerial, <1>1, PTL DEF Spec

(* mark_network_cleanup_pending: the marker is on disk whenever netd holds *)
(* or will hold an interface of the VM, whatever fails or crashes.         *)
THEOREM NetdMarkedHolds ==
    ASSUME NoReload
    PROVE  Spec => []NetdMarked
<1>1. SerialInv => NetdMarked
  BY DEF SerialInv, DiskOK
<1> QED BY <1>1, SerialInvHolds, PTL

(* finish_remove_vm: the files of a VM whose QEMU is there are not         *)
(* deleted.                                                                *)
THEOREM NoDeleteUnderQemuHolds ==
    ASSUME NoReload
    PROVE  Spec => []NoDeleteUnderQemu
<1>1. SerialInv => NoDeleteUnderQemu
  BY DEF SerialInv, DiskOK
<1> QED BY <1>1, SerialInvHolds, PTL

(* QEMU comes up in Deploy only.                                           *)
LEMMA OnlyDeployRuns ==
    ASSUME Types, [Next]_vars, sv # "run", sv' = "run"
    PROVE  \E t \in Threads : Deploy(t)
<1>1. ASSUME NEW ok \in BOOLEAN, StopProcess(ok) PROVE FALSE
  BY <1>1, StopProcessEffect
<1>2. ASSUME NEW t \in Threads, Request(t) PROVE FALSE
  BY <1>2 DEF Request, Start, AutoList, Stop, SvStop, Update, Reconcile, Reload, Create, Event,
              Cancel, svc
<1>3. ASSUME NEW t \in Threads, LaunchStep(t) PROVE Deploy(t)
  BY <1>3 DEF LaunchStep, LaunchEnter, LaunchBegin, LaunchWaits, LaunchFlag, LaunchGpu,
              PrepareBegin, PrepareOk, PrepareUnreachable, PrepareFails, PrepareUndo, ConfigDone,
              DeployFails, LaunchFailed, svc
<1>4. ASSUME NEW t \in Threads, OtherStep(t) PROVE FALSE
  BY <1>1, <1>4 DEF OtherStep, AutoDecide, StopFlag, StopSignal, StopRelease, SvStopSignal,
              UpdateBegin, UpdateNet, UpdatePut, ReconcileCheck, ReconcileRelease, ReloadDirs,
              ReloadScan, ReloadMark, ReloadRead, ReloadAdd, ReloadResume, CreateLoad,
              CreateLoadFails, CreateRemove, EventWrite, Fails, svc
<1>5. ASSUME NEW t \in Threads, Boot(t) PROVE FALSE
  BY <1>5 DEF Boot, svc
<1>6. ASSUME RemovalTask PROVE FALSE
  BY <1>1, <1>6 DEF RemovalTask, RmTakesLock, RmStop, RmPoll, RmRelease, RmDeleteFile,
              RmDeleteMarker, RmDir, RmForget, RmUnmark, svc
<1>7. ASSUME Environment PROVE FALSE
  BY <1>7 DEF Environment, QemuExits, QemuKilled, NetdRuns, OrphanEnds, SvRemove, Remove, Crash, svc
<1>8. ASSUME UNCHANGED vars PROVE FALSE
  BY <1>8 DEF vars, svc
<1> QED BY <1>2, <1>3, <1>4, <1>5, <1>6, <1>7, <1>8 DEF Next

(* stop_vm: a VM the user stopped does not come up again before an         *)
(* explicit start, a restart decided before the stop included.             *)
THEOREM StopSticksHolds ==
    ASSUME NoReload
    PROVE  Spec => StopSticks
<1>1. IInv /\ SerialInv /\ [Next]_vars => [sv # "run" /\ sv' = "run" => ~down]_vars
  <2> SUFFICES ASSUME IInv, SerialInv, [Next]_vars, sv # "run", sv' = "run" PROVE ~down
    OBVIOUS
  <2>1. PICK t \in Threads : Deploy(t)
    BY OnlyDeployRuns DEF IInv, Inv
  <2> QED BY <2>1, InHand DEF Deploy, At
<1> QED BY <1>1, SerialInvHolds, PTL DEF Spec, StopSticks

-----------------------------------------------------------------------------
(* Memory and disk, as long as the VMM does not die.                       *)
NoCrash == NoReload /\ MaxCrashes = 0

(* A step of a thread that neither loads the VM nor works on its           *)
(* directory.                                                              *)
FilesPlain == /\ dir' = dir
              /\ "removing" \in files => "removing" \in files'
              /\ Config \subseteq files => Config \subseteq files'
              /\ files' # {} => dir'

PlainMove(t) == /\ \A u \in Threads \ {t} : th'[u] = th[u]
                /\ th'[t].pc \in Updating => th[t].pc \in Updating

LEMMA PlainStep ==
    ASSUME NoCrashInv, NEW t \in Threads, th[t].pc # "c_load", PlainMove(t), FilesPlain,
           UNCHANGED <<up, loaded, removing, rm>>
    PROVE  NoCrashInv'
<1>1. \A u \in Threads : th'[u].pc \in Updating => th[u].pc \in Updating
  BY DEF PlainMove
<1>2. (\E u \in Threads : At(u, "c_load")) => \E u \in Threads : At(u, "c_load")'
  BY DEF PlainMove, At
<1>3. MemoryMatchesDisk'
  BY <1>2 DEF NoCrashInv, MemoryMatchesDisk, FilesPlain
<1>4. \A u \in Threads : th'[u].pc \in Updating =>
          /\ rm'.pc # "unmark"
          /\ ~removing' => loaded' \/ "removing" \in files'
  BY <1>1 DEF NoCrashInv, FilesPlain
<1>5. /\ up' = "up" /\ (files' # {} => dir') /\ (rm'.pc # "idle" => rm'.del)
      /\ rm'.pc = "unmark" => ~loaded'
  BY DEF NoCrashInv, FilesPlain
<1>6. rm'.pc \in {"forget", "unmark"} /\ dir' => "removing" \in files'
  BY DEF NoCrashInv, FilesPlain
<1> QED BY <1>3, <1>4, <1>5, <1>6 DEF NoCrashInv

LEMMA FilesSteps ==
    ASSUME Types, NoCrashInv, dir' = dir,
           \/ files' = files \/ files' = files \ {"pending"}
           \/ \E ok \in BOOLEAN : Release(ok)
           \/ files \subseteq files' /\ (dir \/ files # {})
    PROVE  FilesPlain
<1>1. CASE files' = files
  BY <1>1 DEF FilesPlain, NoCrashInv
<1>2. CASE files' = files \ {"pending"}
  BY <1>2 DEF FilesPlain, NoCrashInv, Config
<1>3. CASE \E ok \in BOOLEAN : Release(ok)
  <2>1. files' \subseteq files /\ files \ {"pending"} \subseteq files'
    BY <1>3, ReleaseEffect
  <2> QED BY <2>1 DEF FilesPlain, NoCrashInv, Config
<1>4. CASE files \subseteq files' /\ (dir \/ files # {})
  BY <1>4 DEF FilesPlain, NoCrashInv
<1> QED BY <1>1, <1>2, <1>3, <1>4

LEMMA MoveSteps ==
    ASSUME Types, NEW t \in Threads,
           \/ \E pc \in Pcs \ Updating : Goto(t, pc)
           \/ \E ok \in BOOLEAN : Return(t, ok)
           \/ \E op \in AllOps, pc \in Pcs \ Updating : Begin(t, op, pc)
           \/ th' = [th EXCEPT ![t] = Idle]
    PROVE  PlainMove(t)
<1>1. CASE \E pc \in Pcs \ Updating : Goto(t, pc)
  BY <1>1, GotoMoves DEF PlainMove, Moved
<1>2. CASE \E ok \in BOOLEAN : Return(t, ok)
  BY <1>2, ReturnMoves DEF PlainMove, Moved, Updating
<1>3. CASE \E op \in AllOps, pc \in Pcs \ Updating : Begin(t, op, pc)
  BY <1>3, BeginMoves DEF PlainMove, Moved
<1>4. CASE th' = [th EXCEPT ![t] = Idle]
  BY <1>4, IdleMoves DEF PlainMove, Moved, Updating
<1> QED BY <1>1, <1>2, <1>3, <1>4

LEMMA RequestPlain ==
    ASSUME NoCrash, Inv, SerialInv, NoCrashInv, NEW t \in Threads, Request(t)
    PROVE  NoCrashInv'
<1>1. CASE Create(t)
  <2> DEFINE r == [Idle EXCEPT !.pc = "c_load", !.op = "create", !.mk = started']
  <2>1. /\ "create" \in Ops /\ th' = [th EXCEPT ![t] = r] /\ started' \in BOOLEAN
        /\ ~loaded /\ ~removing /\ dir' = TRUE /\ files' = Config \cup {"state"}
        /\ \A u \in Threads : th[u].pc \in {"idle", "l_dirs", "l_scan", "l_mark"}
        /\ UNCHANGED <<up, loaded, removing, rm>>
    BY <1>1 DEF Create, At, vmm, mem
  <2>2. r \in ThreadState /\ r.pc = "c_load"
    BY <2>1, IdleType DEF Idle, ThreadState, Pcs
  <2> HIDE DEF r
  <2>3. Moved(t) /\ th'[t].pc = "c_load"
    BY <2>1, <2>2, SetMoves DEF Inv
  <2>4. \A u \in Threads : th'[u].pc \notin Updating
    BY <2>1, <2>3 DEF Moved, Updating
  <2>5. rm.pc = "idle"
    BY <2>1 DEF Inv, LockOK
  <2>6. MemoryMatchesDisk'
    BY <2>1, <2>3 DEF MemoryMatchesDisk, At
  <2> QED BY <2>1, <2>4, <2>5, <2>6 DEF NoCrashInv
<1>2. CASE ~Create(t)
  <2>1. th[t].pc # "c_load" /\ UNCHANGED <<up, loaded, removing, rm, dir, files>>
    BY <1>2 DEF Request, Start, AutoList, Stop, SvStop, Update, Reconcile, Reload, Event, Cancel,
               Begin, At, vmm, mem, disk
  <2>2. PlainMove(t)
    <3>1. /\ {"s_lock", "a_decide", "p_lock", "v_stop", "u_lock", "n_lock", "e_write"}
               \subseteq Pcs \ Updating
          /\ {"start", "auto", "stop", "sv_stop", "update", "reconcile", "event"} \subseteq AllOps
      BY DEF Pcs, Updating, AllOps
    <3>2. \/ \E op \in AllOps, pc \in Pcs \ Updating : Begin(t, op, pc)
          \/ th' = [th EXCEPT ![t] = Idle]
      BY <1>2, <3>1 DEF Request, Start, AutoList, Stop, SvStop, Update, Reconcile, Reload, Event,
                        Cancel, NoCrash, NoReload
    <3> QED BY <3>2, MoveSteps DEF Inv
  <2> QED BY <2>1, <2>2, FilesSteps, PlainStep DEF Inv
<1> QED BY <1>1, <1>2

LEMMA LaunchPlain ==
    ASSUME NoCrash, Inv, SerialInv, NoCrashInv, NEW t \in Threads, LaunchStep(t)
    PROVE  NoCrashInv'
<1>1. th[t].pc # "c_load" /\ UNCHANGED <<up, loaded, removing, rm, dir>>
  BY DEF LaunchStep, LaunchEnter, LaunchBegin, LaunchWaits, LaunchFlag, LaunchGpu,
         PrepareBegin, PrepareOk, PrepareUnreachable, PrepareFails, PrepareUndo, ConfigDone,
         Deploy, DeployFails, LaunchFailed, At, vmm, mem, disk
<1>2. {"s_lock", "s_wait", "s_note", "s_flag", "s_gpu", "s_release", "s_config", "s_deploy",
       "s_fail", "s_undo"} \subseteq Pcs \ Updating /\ Types
  BY DEF Pcs, Updating, Inv
<1>3. CASE LaunchEnter(t) \/ LaunchBegin(t) \/ LaunchWaits(t) \/ LaunchGpu(t)
           \/ ConfigDone(t) \/ Deploy(t) \/ DeployFails(t) \/ PrepareFails(t)
  <2>1. files' = files
    BY <1>3 DEF LaunchEnter, LaunchBegin, LaunchWaits, LaunchGpu, ConfigDone, Deploy,
                DeployFails, PrepareFails, disk
  <2>2. LaunchTarget \in Pcs \ Updating
    BY <1>2 DEF LaunchTarget
  <2>3. \/ \E pc \in Pcs \ Updating : Goto(t, pc)
        \/ \E ok \in BOOLEAN : Return(t, ok)
    BY <1>2, <1>3, <2>2 DEF LaunchEnter, LaunchBegin, LaunchWaits, LaunchGpu, ConfigDone,
                Deploy, DeployFails, PrepareFails, Finish
  <2> QED BY <1>1, <1>2, <2>1, <2>3, FilesSteps, MoveSteps, PlainStep
<1>4. CASE LaunchFlag(t)
  <2>1. files' = files \/ (files \subseteq files' /\ files # {})
    BY <1>4 DEF LaunchFlag, Write, Config
  <2>2. loaded \in BOOLEAN
    BY <1>2 DEF Types
  <2>3. \/ \E pc \in Pcs \ Updating : Goto(t, pc)
        \/ \E ok \in BOOLEAN : Return(t, ok)
    BY <1>2, <1>4, <2>2 DEF LaunchFlag, Finish
  <2> QED BY <1>1, <1>2, <2>1, <2>3, FilesSteps, MoveSteps, PlainStep
<1>5. CASE PrepareBegin(t)
  <2>1. th[t].pc = "s_release"
    BY <1>5 DEF PrepareBegin, At
  <2>2. Config \subseteq files
    BY <2>1 DEF SerialInv, LaunchOK, Launching
  <2>3. \/ \E ok \in BOOLEAN : Release(ok)
        \/ files \subseteq files' /\ files # {}
    BY <1>5, <2>2 DEF PrepareBegin, Write, Config
  <2>4. PlainMove(t)
    <3>1. CASE \E pc \in Pcs \ Updating : Goto(t, pc)
      BY <1>2, <3>1, MoveSteps
    <3>2. CASE \E ok \in BOOLEAN : th' = [th EXCEPT ![t].pc = "s_prep", ![t].n = 1, ![t].hb = ~ok]
      BY <1>2, <3>2 DEF PlainMove, Types, ThreadState, Updating
    <3> QED BY <1>2, <1>5, <3>1, <3>2 DEF PrepareBegin
  <2> QED BY <1>1, <1>2, <2>3, <2>4, FilesSteps, PlainStep
<1>6. CASE PrepareOk(t) \/ PrepareUndo(t)
  <2>1. files' = files /\ th[t].pc \notin Updating
    BY <1>6 DEF PrepareOk, PrepareUndo, disk, At, Updating
  <2>2. PlainMove(t)
    <3>1. CASE (\E pc \in Pcs \ Updating : Goto(t, pc)) \/ (\E ok \in BOOLEAN : Return(t, ok))
      BY <1>2, <3>1, MoveSteps
    <3>2. CASE \E n \in Int : th' = [th EXCEPT ![t].n = n]
      BY <1>2, <2>1, <3>2 DEF PlainMove, Types, ThreadState
    <3>3. th[t].n \in Int
      BY <1>2, BoundsAssumption DEF Types, ThreadState
    <3>4. th[t].n + 1 \in Int /\ th[t].n - 1 \in Int
      BY <3>3
    <3> QED BY <1>2, <1>6, <3>1, <3>2, <3>4 DEF PrepareOk, PrepareUndo, Goto, Finish
  <2> QED BY <1>1, <1>2, <2>1, <2>2, FilesSteps, PlainStep
<1>7. CASE PrepareUnreachable(t)
  <2>1. files' = files \/ files' = files \ {"pending"}
    BY <1>7 DEF PrepareUnreachable
  <2>2. (\E pc \in Pcs \ Updating : Goto(t, pc)) \/ (\E ok \in BOOLEAN : Return(t, ok))
    BY <1>2, <1>7 DEF PrepareUnreachable, Finish
  <2> QED BY <1>1, <1>2, <2>1, <2>2, FilesSteps, MoveSteps, PlainStep
<1>8. CASE LaunchFailed(t)
  <2>1. (\E ok \in BOOLEAN : Release(ok)) /\ \E ok \in BOOLEAN : Return(t, ok)
    BY <1>8 DEF LaunchFailed, Finish
  <2> QED BY <1>1, <1>2, <2>1, FilesSteps, MoveSteps, PlainStep
<1> QED BY <1>3, <1>4, <1>5, <1>6, <1>7, <1>8 DEF LaunchStep

(* An update works on the manifest only if it was there under the lock,    *)
(* and so never on the directory of a VM that is gone.                     *)
LEMMA UpdatePlain ==
    ASSUME NoCrash, Inv, SerialInv, NoCrashInv, NEW t \in Threads,
           UpdateBegin(t) \/ UpdateNet(t) \/ UpdatePut(t)
    PROVE  NoCrashInv'
<1>0. Types /\ OthersPlain(t)
  BY ActiveAlone DEF Inv, UpdateBegin, UpdateNet, UpdatePut, At
<1>1. CASE UpdateBegin(t)
  <2>1. th[t].pc = "u_lock" /\ lock = Free
        /\ UNCHANGED <<up, loaded, removing, rm, dir, files>>
    BY <1>1 DEF UpdateBegin, At, vmm, mem, disk
  <2>2. CASE UpdateAllowed /\ \E pc \in Updating : Goto(t, pc)
    <3>1. Moved(t) /\ th'[t].pc \in Updating
      BY <1>0, <2>2, GotoMoves DEF Updating, Pcs
    <3>2. ~removing /\ files # {}
      BY <2>2 DEF UpdateAllowed
    <3>3. rm.pc = "idle"
      BY <3>2 DEF Inv, LockOK
    <3>4. \A u \in Threads : th[u].pc # "c_load"
      BY <1>0, <2>1 DEF OthersPlain
    <3>5. loaded \/ "removing" \in files
      BY <3>2, <3>4 DEF NoCrashInv, MemoryMatchesDisk, At
    <3>6. MemoryMatchesDisk'
      BY <2>1, <3>5 DEF NoCrashInv, MemoryMatchesDisk
    <3> QED BY <2>1, <3>2, <3>3, <3>5, <3>6 DEF NoCrashInv
  <2>3. CASE th' = [th EXCEPT ![t] = Idle]
    BY <1>0, <2>1, <2>3, FilesSteps, MoveSteps, PlainStep
  <2> QED BY <1>1, <2>2, <2>3 DEF UpdateBegin, Updating
<1>2. CASE UpdateNet(t)
  <2>1. /\ th[t].pc = "u_net" /\ th' = [th EXCEPT ![t].pc = "u_put", ![t].hb = TRUE]
        /\ UNCHANGED <<up, loaded, removing, rm, dir>>
        /\ files' = files \/ \E ok \in BOOLEAN : Release(ok)
    BY <1>2 DEF UpdateNet, At, vmm, mem
  <2>2. PlainMove(t)
    BY <1>0, <2>1 DEF PlainMove, Types, Updating
  <2> QED BY <1>0, <2>1, <2>2, FilesSteps, PlainStep
<1>3. CASE UpdatePut(t)
  <2>1. /\ th[t].pc = "u_put" /\ Return(t, TRUE) /\ dir' = TRUE /\ files' = files \cup {"manifest"}
        /\ loaded' = (loaded \/ "shared" \in files)
        /\ UNCHANGED <<up, removing, rm>>
    BY <1>3 DEF UpdatePut, Finish, Write, At, vmm
  <2>2. PlainMove(t) /\ th'[t].pc \notin Updating
    BY <1>0, <2>1, ReturnMoves DEF PlainMove, Moved, Updating
  <2>3. /\ th[t].pc \in Updating /\ th[t].pc \in Locked /\ rm.pc # "unmark"
        /\ ~removing => loaded \/ "removing" \in files
    BY <2>1, Places DEF NoCrashInv, Updating
  <2>4. rm.pc # "forget"
    BY <2>3, ThreadsAssumption DEF Inv, LockOK, RmLocked
  <2>5. MemoryMatchesDisk'
    <3>1. ~removing /\ loaded => Config \subseteq files'
      BY <2>1 DEF NoCrashInv, MemoryMatchesDisk
    <3>2. "shared" \in files => Config \subseteq files'
      BY <2>1 DEF Config
    <3>3. ~removing => loaded' \/ "removing" \in files'
      BY <2>1, <2>3
    <3> QED BY <2>1, <3>1, <3>2, <3>3 DEF MemoryMatchesDisk
  <2>6. \A u \in Threads : th'[u].pc \in Updating =>
            /\ rm'.pc # "unmark"
            /\ ~removing' => loaded' \/ "removing" \in files'
    BY <2>1, <2>2, <2>3 DEF PlainMove
  <2>7. /\ up' = "up" /\ (files' # {} => dir') /\ (rm'.pc # "idle" => rm'.del)
        /\ rm'.pc = "unmark" => ~loaded'
        /\ rm'.pc \in {"forget", "unmark"} /\ dir' => "removing" \in files'
    BY <2>1, <2>3, <2>4 DEF NoCrashInv
  <2> QED BY <2>5, <2>6, <2>7 DEF NoCrashInv
<1> QED BY <1>1, <1>2, <1>3

LEMMA CreationPlain ==
    ASSUME NoCrash, Inv, SerialInv, NoCrashInv, NEW t \in Threads,
           CreateLoad(t) \/ CreateLoadFails(t) \/ CreateRemove(t)
    PROVE  NoCrashInv'
<1>0. Types
  BY DEF Inv
<1>1. CASE CreateLoad(t) \/ CreateLoadFails(t)
  <2>1. th[t].pc = "c_load"
    BY <1>1 DEF CreateLoad, CreateLoadFails, At
  <2>2. Alone(t) /\ ~loaded /\ ~removing /\ Config \subseteq files
    BY <2>1 DEF SerialInv, ThreadOK
  <2>3. rm.pc = "idle"
    BY <2>2 DEF Inv, LockOK
  <2>4. /\ UNCHANGED <<up, removing, rm>>
        /\ (\E pc \in Pcs \ Updating : Goto(t, pc)) \/ th' = [th EXCEPT ![t] = Idle]
        /\ \/ loaded' = TRUE /\ UNCHANGED <<dir, files>>
           \/ UNCHANGED loaded /\ dir' = FALSE /\ files' = {}
    <3>1. "s_enter" \in Pcs \ Updating
      BY DEF Pcs, Updating
    <3> QED BY <1>1, <3>1 DEF CreateLoad, CreateLoadFails, vmm, mem, disk
  <2>5. PlainMove(t)
    BY <1>0, <2>4, MoveSteps
  <2>6. \A u \in Threads : th'[u].pc \notin Updating
    BY <2>1, <2>2, <2>5, IdleType DEF PlainMove, Alone, Updating
  <2>7. MemoryMatchesDisk'
    BY <2>2, <2>4 DEF MemoryMatchesDisk
  <2> QED BY <2>2, <2>3, <2>4, <2>6, <2>7 DEF NoCrashInv
<1>2. CASE CreateRemove(t)
  <2>1. /\ th[t].pc = "c_remove" /\ th' = [th EXCEPT ![t] = Idle]
        /\ UNCHANGED <<up, loaded, dir>>
    BY <1>2 DEF CreateRemove, At, vmm, mem, disk
  <2>2. PlainMove(t)
    BY <1>0, <2>1, MoveSteps
  <2>3. CASE UNCHANGED <<removing, files, rm>>
    BY <1>0, <2>1, <2>2, <2>3, FilesSteps, PlainStep
  <2>4. CASE ClaimAndMark
    <3>1. /\ dir /\ removing' = TRUE /\ "removing" \in files'
          /\ rm' = [pc |-> "lock", del |-> TRUE, todo |-> {}]
      BY <2>4 DEF ClaimAndMark, Write
    <3> QED BY <2>1, <3>1 DEF NoCrashInv, MemoryMatchesDisk
  <2> QED BY <1>2, <2>3, <2>4 DEF CreateRemove, mem, disk
<1> QED BY <1>1, <1>2

LEMMA OtherPlain ==
    ASSUME NoCrash, Inv, SerialInv, NoCrashInv, NEW t \in Threads, OtherStep(t)
    PROVE  NoCrashInv'
<1>0. Types
  BY DEF Inv
<1>1. CASE UpdateBegin(t) \/ UpdateNet(t) \/ UpdatePut(t)
  BY <1>1, UpdatePlain
<1>2. CASE CreateLoad(t) \/ CreateLoadFails(t) \/ CreateRemove(t)
  BY <1>2, CreationPlain
<1>3. CASE ReloadDirs(t) \/ ReloadScan(t) \/ ReloadMark(t) \/ ReloadRead(t) \/ ReloadAdd(t)
           \/ ReloadResume(t)
  <2>1. th[t].pc \in ScanPcs \cup {"l_dirs", "l_scan"}
    BY <1>3 DEF ReloadDirs, ReloadScan, ReloadMark, ReloadRead, ReloadAdd, ReloadResume, At, ScanPcs
  <2>2. up = "booting"
    BY <2>1 DEF SerialInv, ThreadOK
  <2> QED BY <2>2 DEF NoCrashInv
<1>4. CASE AutoDecide(t) \/ StopFlag(t) \/ StopSignal(t) \/ StopRelease(t) \/ SvStopSignal(t)
           \/ ReconcileCheck(t) \/ ReconcileRelease(t) \/ EventWrite(t) \/ Fails(t)
  <2>1. th[t].pc # "c_load" /\ UNCHANGED <<up, loaded, removing, rm, dir>>
    BY <1>4 DEF AutoDecide, StopFlag, StopSignal, StopRelease, SvStopSignal, ReconcileCheck,
                ReconcileRelease, EventWrite, Fails, At, vmm, mem, disk
  <2>2. \/ files' = files \/ \E ok \in BOOLEAN : Release(ok)
        \/ files \subseteq files' /\ dir
    BY <1>4 DEF AutoDecide, StopFlag, StopSignal, StopRelease, SvStopSignal, ReconcileCheck,
                ReconcileRelease, EventWrite, Fails, Write, disk
  <2>3. {"s_enter", "p_stop", "p_release", "n_release"} \subseteq Pcs \ Updating
    BY DEF Pcs, Updating
  <2>4. \/ \E pc \in Pcs \ Updating : Goto(t, pc)
        \/ \E ok \in BOOLEAN : Return(t, ok)
        \/ th' = [th EXCEPT ![t] = Idle]
    BY <1>4, <2>3 DEF AutoDecide, StopFlag, StopSignal, StopRelease, SvStopSignal,
                ReconcileCheck, ReconcileRelease, EventWrite, Fails, Finish
  <2> QED BY <1>0, <2>1, <2>2, <2>4, FilesSteps, MoveSteps, PlainStep
<1> QED BY <1>1, <1>2, <1>3, <1>4 DEF OtherStep

(* The removal is over only when the entry is gone, and either the         *)
(* directory too or its marker is back.                                    *)
LEMMA RemovalPlain ==
    ASSUME Inv, NoCrashInv, RemovalTask
    PROVE  NoCrashInv'
<1>1. rm.pc # "idle" /\ UNCHANGED <<th, up>>
  BY DEF RemovalTask, RmTakesLock, RmStop, RmPoll, RmRelease, RmDeleteFile, RmDeleteMarker,
         RmDir, RmForget, RmUnmark, RmAt, vmm
<1>2. removing /\ rm.del /\ rm \in RemovalState /\ up = "up" /\ Types
  BY <1>1 DEF Inv, LockOK, NoCrashInv, Types
<1>3. ASSUME NEW pc, RmGoto(pc),
             pc \in {"idle", "lock", "stop", "poll", "release", "delete", "rmdir", "forget", "unmark"}
      PROVE  rm'.pc = pc /\ rm'.del
  BY <1>2, <1>3, RmGotoMoves
<1>4. ASSUME removing' = TRUE, rm'.pc # "unmark", rm'.del, files' # {} => dir',
             rm'.pc = "forget" /\ dir' => "removing" \in files'
      PROVE  NoCrashInv'
  BY <1>1, <1>2, <1>4 DEF NoCrashInv, MemoryMatchesDisk
<1>5. CASE RmTakesLock \/ RmStop \/ RmPoll
  <2>1. UNCHANGED <<removing, dir, files>>
    BY <1>5 DEF RmTakesLock, RmStop, RmPoll, mem, disk
  <2>2. \E pc \in {"stop", "poll", "release"} : RmGoto(pc)
    BY <1>5 DEF RmTakesLock, RmStop, RmPoll
  <2>3. rm'.pc \in {"stop", "poll", "release"} /\ rm'.del
    BY <1>3, <2>2
  <2> QED BY <1>2, <1>4, <2>1, <2>3 DEF NoCrashInv, Types
<1>6. CASE RmRelease
  <2>1. PICK ok \in BOOLEAN :
           /\ Release(ok)
           /\ rm' = [rm EXCEPT !.pc = RmNext(ok),
                               !.todo = IF RmNext(ok) = "delete" THEN files' \ {"removing"} ELSE {}]
    BY <1>6 DEF RmRelease
  <2>2. RmNext(ok) \in {"delete", "release"}
    BY <1>2 DEF RmNext, RmDeletes
  <2>3. rm'.pc \in {"delete", "release"} /\ rm'.del
    BY <1>2, <2>1, <2>2 DEF RemovalState
  <2>4. files' \subseteq files /\ UNCHANGED <<removing, dir>>
    BY <1>2, <1>6, <2>1, ReleaseEffect DEF RmRelease, mem
  <2> QED BY <1>2, <1>4, <2>3, <2>4 DEF NoCrashInv, Types
<1>7. CASE RmDeleteFile
  <2>1. PICK f \in rm.todo : files' = files \ {f} /\ rm' = [rm EXCEPT !.todo = @ \ {f}]
    BY <1>7 DEF RmDeleteFile
  <2>2. rm.pc = "delete" /\ UNCHANGED <<removing, dir>>
    BY <1>7 DEF RmDeleteFile, RmAt, mem
  <2>3. rm'.pc = "delete" /\ rm'.del
    BY <1>2, <2>1, <2>2 DEF RemovalState
  <2> QED BY <1>2, <1>4, <2>1, <2>2, <2>3 DEF NoCrashInv, Types
<1>8. CASE RmDeleteMarker
  <2>1. RmGoto("rmdir") /\ files' \subseteq files /\ UNCHANGED <<removing, dir>>
    BY <1>8 DEF RmDeleteMarker, mem
  <2> QED BY <1>2, <1>3, <1>4, <2>1 DEF NoCrashInv, Types
<1>9. CASE RmDir
  <2>1. /\ RmGoto("forget") /\ removing' = removing
        /\ \/ files = {} /\ dir' = FALSE /\ files' = files
           \/ files # {} /\ files' = files \cup {"removing"} /\ dir' = dir
    BY <1>9 DEF RmDir, Write, mem
  <2> QED BY <1>2, <1>3, <1>4, <2>1 DEF NoCrashInv, Types
<1>10. CASE RmForget
  <2>1. /\ rm.pc = "forget" /\ loaded' = FALSE /\ RmGoto("unmark")
        /\ UNCHANGED <<removing, dir, files>>
    BY <1>10 DEF RmForget, RmAt, disk
  <2>2. rm'.pc = "unmark" /\ rm'.del
    BY <1>3, <2>1
  <2>3. \A t \in Threads : th[t].pc \notin Updating
    BY <2>1, ThreadsAssumption DEF Inv, LockOK, RmLocked, Locked, Updating
  <2> QED BY <1>1, <1>2, <2>1, <2>2, <2>3 DEF NoCrashInv, MemoryMatchesDisk
<1>11. CASE RmUnmark
  <2>1. /\ rm.pc = "unmark" /\ removing' = FALSE /\ rm' = NoRemoval
        /\ UNCHANGED <<loaded, dir, files>>
    BY <1>11 DEF RmUnmark, RmAt, disk
  <2>2. rm'.pc = "idle"
    BY <2>1 DEF NoRemoval
  <2>3. ~loaded /\ (dir => "removing" \in files) /\ \A t \in Threads : th[t].pc \notin Updating
    BY <2>1 DEF NoCrashInv
  <2>4. MemoryMatchesDisk'
    BY <2>1, <2>3 DEF MemoryMatchesDisk
  <2> QED BY <1>1, <2>1, <2>2, <2>3, <2>4 DEF NoCrashInv
<1> QED BY <1>5, <1>6, <1>7, <1>8, <1>9, <1>10, <1>11 DEF RemovalTask

LEMMA EnvironmentPlain ==
    ASSUME NoCrash, Inv, NoCrashInv, Environment
    PROVE  NoCrashInv'
<1>1. ~Crash
  BY DEF Crash, Inv, Types, NoCrash
<1>2. CASE Remove
  <2>1. /\ dir /\ removing' = TRUE /\ "removing" \in files'
        /\ rm' = [pc |-> "lock", del |-> TRUE, todo |-> {}]
        /\ UNCHANGED <<th, up, loaded, dir>>
    BY <1>2 DEF Remove, ClaimAndMark, Write, vmm
  <2> QED BY <2>1 DEF NoCrashInv, MemoryMatchesDisk
<1>3. CASE QemuExits \/ QemuKilled \/ NetdRuns \/ OrphanEnds \/ SvRemove
  <2>1. UNCHANGED <<th, up, loaded, removing, rm, dir, files>>
    BY <1>3 DEF QemuExits, QemuKilled, NetdRuns, OrphanEnds, SvRemove, vmm, mem, disk
  <2> QED BY <2>1 DEF NoCrashInv, MemoryMatchesDisk, At
<1> QED BY <1>1, <1>2, <1>3 DEF Environment

LEMMA NextPlain ==
    ASSUME NoCrash
    PROVE  IInv /\ SerialInv /\ NoCrashInv /\ [Next]_vars => NoCrashInv'
<1> SUFFICES ASSUME IInv, SerialInv, NoCrashInv, [Next]_vars PROVE NoCrashInv'
  OBVIOUS
<1>1. CASE Next
  <2>1. ASSUME NEW t \in Threads, Boot(t) PROVE FALSE
    BY <2>1 DEF Boot, NoCrashInv
  <2> QED BY <1>1, <2>1, RequestPlain, LaunchPlain, OtherPlain, RemovalPlain, EnvironmentPlain
          DEF Next, IInv
<1>2. CASE UNCHANGED vars
  <2>1. UNCHANGED <<th, up, loaded, removing, rm, dir, files>>
    BY <1>2 DEF vars, vmm, mem, disk
  <2> QED BY <2>1 DEF NoCrashInv, MemoryMatchesDisk, At
<1> QED BY <1>1, <1>2

(* refuse_if_removing, load_manifest under the lock, remove_all: as long   *)
(* as the VMM lives, a loaded VM has its files, and a directory belongs to *)
(* a loaded VM, to a creation or to a removal that will be resumed.        *)
THEOREM MemoryMatchesDiskHolds ==
    ASSUME NoCrash
    PROVE  Spec => []MemoryMatchesDisk
<1>1. Init => NoCrashInv
  <2> SUFFICES ASSUME Init PROVE NoCrashInv
    OBVIOUS
  <2>1. rm.pc = "idle" /\ \A t \in Threads : th[t].pc \notin Updating
    BY IdleType DEF Init, NoRemoval, Updating
  <2> QED BY <2>1 DEF Init, NoCrashInv, MemoryMatchesDisk
<1>2. IInv /\ SerialInv /\ NoCrashInv /\ [Next]_vars => NoCrashInv'
  BY NextPlain
<1>3. NoCrashInv => MemoryMatchesDisk
  BY DEF NoCrashInv
<1>4. Spec => [](IInv /\ SerialInv)
  BY SerialInvHolds DEF NoCrash
<1> QED BY <1>1, <1>2, <1>3, <1>4, PTL DEF Spec
===============================================================================
