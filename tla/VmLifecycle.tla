------------------------------ MODULE VmLifecycle ------------------------------
(***************************************************************************)
(* The life of one VM in dstack-vmm: what its RPCs, timers, background     *)
(* removal and startup scan do to the VM's workdir, to its process in the  *)
(* supervisor and to the host interfaces netd holds for it.                *)
(*                                                                         *)
(* Threads are the requests and timers acting on this VM; each has its     *)
(* operation and its place in it.  A per-VM launch lock, which is held     *)
(* across awaits, serialises what creates or deletes interfaces; some      *)
(* operations do not take it.  One action is one stretch of code between   *)
(* two awaits, or one call of another process together with the code that  *)
(* handles its answer.                                                     *)
(*                                                                         *)
(* The supervisor appears as the state it reports for this VM's process    *)
(* (see Supervisor); netd as the interfaces it holds and the requests it   *)
(* has received and not yet run, in arrival order.                         *)
(***************************************************************************)
EXTENDS Naturals, Sequences, FiniteSets

CONSTANTS Threads,    \* requests and timers acting on the VM at once
          Ops,        \* the operations they perform, cancelled requests ("cancel")
                      \* and failing calls of the supervisor ("sv_error") included
          NicCount,   \* most netd-managed NICs a manifest names
          Gpu,        \* whether a launch resets GPUs
          MaxQueue,   \* requests netd has not run yet
          MaxCrashes, \* VMM crashes
          Free        \* the launch lock has no holder

AllOps == {"create", "start", "auto", "stop", "remove", "update", "reload",
           "reconcile", "sv_stop", "sv_remove", "event", "cancel", "sv_error"}

ASSUME OpsAssumption == Ops \subseteq AllOps
ASSUME ThreadsAssumption == /\ Threads \cap {"rm", "config", Free} = {}
                            /\ Free \notin {"rm", "config"}
ASSUME BoundsAssumption == /\ NicCount \in Nat /\ MaxQueue \in Nat
                           /\ MaxCrashes \in Nat /\ Gpu \in BOOLEAN

VARIABLES up,       \* "down", "booting" (reload_vms) or "up"
          crashes,  \* crashes so far
          loaded,   \* the VM has an entry in AppState.vms
          removing, \* the VM is claimed in AppState.removing
          lock,     \* holder of the launch lock
          dir,      \* the workdir exists
          files,    \* files in it
          started,  \* content of vm-state.json
          nics,     \* number of netd-managed NICs in the manifest
          sv,       \* the supervisor's process for the VM
          used,     \* NICs that process was launched with
          held,     \* interfaces netd holds for the VM
          netq,     \* requests netd has not run yet
          th,       \* every thread
          rm,       \* the removal task
          orphan,   \* blocking tasks whose request was cancelled
          down      \* history: stop_vm wrote started = false, no explicit start since

vmm == <<up, crashes>>
mem == <<loaded, removing>>
disk == <<dir, files, started, nics>>
svc == <<sv, used>>
netd == <<held, netq>>
vars == <<vmm, mem, lock, disk, svc, netd, th, rm, orphan, down>>

-----------------------------------------------------------------------------
(* "shared" stands for the shared directory and the compose file in it,    *)
(* "state" for vm-state.json, "removing" and "pending" for the markers.    *)
FileNames == {"manifest", "shared", "state", "removing", "pending"}
Config == {"manifest", "shared"}
Nics == 1..NicCount

(* absent | running, started | running, told to stop | not running, but    *)
(* still started | not running and stopped.                                *)
SvStates == {"absent", "run", "stopping", "exited", "stopped"}
Running == sv \in {"run", "stopping"}

Requests == [op: {"prepare", "remove"}, nic: Nics] \cup {[op |-> "sweep", nic |-> 0]}

Pcs == {"idle", "s_enter", "s_lock", "s_wait", "s_note", "s_flag", "s_gpu",
        "s_release", "s_prep", "s_undo", "s_config", "s_deploy", "s_fail",
        "p_lock", "p_stop", "p_release", "u_lock", "u_net", "u_put",
        "n_lock", "n_release", "a_decide", "c_load", "c_remove",
        "l_dirs", "l_scan", "l_mark", "l_read", "l_add", "l_resume", "v_stop", "e_write"}

Idle == [pc |-> "idle", op |-> "none", n |-> 0, hb |-> FALSE, mk |-> FALSE, kn |-> FALSE]

NoRemoval == [pc |-> "idle", del |-> FALSE, todo |-> {}]

ThreadState == [pc: Pcs, op: Ops \cup {"none", "boot"}, n: 0..NicCount,
                hb: BOOLEAN, mk: BOOLEAN, kn: BOOLEAN]

RemovalState == [pc: {"idle", "lock", "stop", "poll", "release", "delete",
                      "rmdir", "forget", "unmark"},
                 del: BOOLEAN, todo: SUBSET FileNames]

Types ==
    /\ up \in {"down", "booting", "up"} /\ crashes \in 0..MaxCrashes
    /\ loaded \in BOOLEAN /\ removing \in BOOLEAN
    /\ lock \in Threads \cup {"rm", "config", Free}
    /\ dir \in BOOLEAN /\ files \subseteq FileNames /\ started \in BOOLEAN
    /\ nics \in 0..NicCount /\ sv \in SvStates /\ used \subseteq Nics
    /\ held \subseteq Nics /\ netq \in Seq(Requests) /\ Len(netq) <= MaxQueue
    /\ th \in [Threads -> ThreadState] /\ rm \in RemovalState
    /\ orphan \subseteq {"gpu", "config"} /\ down \in BOOLEAN

(* Files are in the directory, and the flag is in its file.                *)
TypeOK == Types /\ (files # {} => dir) /\ (started => "state" \in files)

(* A VMM serving an empty run directory.                                   *)
Init ==
    /\ up = "up" /\ crashes = 0
    /\ loaded = FALSE /\ removing = FALSE /\ lock = Free
    /\ dir = FALSE /\ files = {} /\ started = FALSE /\ nics = NicCount
    /\ sv = "absent" /\ used = {} /\ held = {} /\ netq = <<>>
    /\ th = [t \in Threads |-> Idle]
    /\ rm = NoRemoval /\ orphan = {} /\ down = FALSE

-----------------------------------------------------------------------------
At(t, pc) == th[t].pc = pc
Goto(t, pc) == th' = [th EXCEPT ![t].pc = pc]
(* A client learns the id of a VM from create_vm or from a listing.        *)
Known == loaded \/ \A u \in Threads : ~At(u, "c_load")

Begin(t, op, pc) == /\ op \in Ops /\ up = "up" /\ At(t, "idle") /\ Known
                    /\ th' = [th EXCEPT ![t] = [Idle EXCEPT !.pc = pc, !.op = op]]

(* A launch returns to whoever asked for it: create_vm removes the VM when *)
(* it failed, a reload goes on with the rest of its scan.                  *)
Return(t, ok) ==
    th' = [th EXCEPT ![t] = CASE th[t].op \in {"reload", "boot"} -> [@ EXCEPT !.pc = "l_resume", !.n = 0, !.hb = FALSE]
                              [] th[t].op = "create" /\ ~ok -> [@ EXCEPT !.pc = "c_remove", !.n = 0, !.hb = FALSE]
                              [] OTHER -> Idle]

Finish(t, ok) == Return(t, ok) /\ lock' = Free

Write(f) == files' = files \cup f

(* netd runs one operation at a time, in arrival order.  A call of the VMM *)
(* is answered once netd has run it, and so everything that came before    *)
(* it; it fails without effect (nothing listens, the request is lost); or  *)
(* it times out in the VMM, and netd runs it later.                        *)
Answered == netq = <<>>
Queued(op, n) == /\ Len(netq) < MaxQueue
                 /\ netq' = Append(netq, [op |-> op, nic |-> n])
                 /\ UNCHANGED held

(* What running a request can leave held, whether it succeeds or not.      *)
Outcomes(r) == CASE r.op = "prepare" -> {held \cup {r.nic}, held \ {r.nic}, held}
                 [] r.op = "remove" -> {held \ {r.nic}, held}
                 [] r.op = "sweep" -> SUBSET held

NetdRuns == /\ netq # <<>>
            /\ held' \in Outcomes(Head(netq))
            /\ netq' = Tail(netq)
            /\ UNCHANGED <<vmm, mem, lock, disk, svc, th, rm, orphan, down>>

(* A call that did not answer Ok.                                          *)
CallFails(op, n) == \/ UNCHANGED netd
                    \/ Answered /\ held' \in Outcomes([op |-> op, nic |-> n])
                       /\ UNCHANGED netq
                    \/ Queued(op, n)

(* release_vm_interfaces.                                                  *)
Release(ok) ==
    \/ ok /\ "pending" \notin files /\ UNCHANGED <<netd, files>>
    \/ ok /\ "pending" \in files /\ Answered /\ held' = {}
          /\ files' = files \ {"pending"} /\ UNCHANGED netq
    \/ ~ok /\ "pending" \in files /\ CallFails("sweep", 0) /\ UNCHANGED files

-----------------------------------------------------------------------------
(* start_vm_with_restart_policy.  The first refuse_if_removing is the      *)
(* guard of Start, and LaunchEnter for a launch that follows other work.   *)
Start(t) == /\ Begin(t, "start", "s_lock")
            /\ ~removing
            /\ UNCHANGED <<vmm, mem, lock, disk, svc, netd, rm, orphan, down>>

LaunchEnter(t) == /\ At(t, "s_enter")
                  /\ IF removing THEN Return(t, FALSE) ELSE Goto(t, "s_lock")
                  /\ UNCHANGED <<vmm, mem, lock, disk, svc, netd, rm, orphan, down>>

(* What turns a launch away once it has the lock.                          *)
(* Mutant: an automatic restart acts on the flag it read before the lock.  *)
TurnedAwayStale(t) == removing

TurnedAway(t) == removing \/ (th[t].op = "auto" /\ ~started)

(* What the supervisor says: the VM runs, is still stopping, or is to be   *)
(* launched.                                                               *)
(* Mutant: a running VM is launched again.                                 *)
LaunchTargetBlind == IF sv = "stopping" THEN "s_wait" ELSE "s_flag"

LaunchTarget == CASE sv = "run" -> "s_note" [] sv = "stopping" -> "s_wait" [] OTHER -> "s_flag"

(* From acquiring the lock to the supervisor's answer.                     *)
LaunchBegin(t) ==
    /\ At(t, "s_lock") /\ lock = Free
    /\ \/ TurnedAway(t) /\ Return(t, FALSE) /\ UNCHANGED <<lock, down>>
       \/ /\ ~TurnedAway(t)
          /\ lock' = t
          /\ Goto(t, LaunchTarget)
          /\ down' = (down /\ th[t].op \notin {"start", "create"})
    /\ UNCHANGED <<vmm, mem, disk, svc, netd, rm, orphan>>

LaunchWaits(t) == /\ At(t, "s_wait") /\ ~Running
                  /\ Goto(t, "s_flag")
                  /\ UNCHANGED <<vmm, mem, lock, disk, svc, netd, rm, orphan, down>>

(* sync_dynamic_config, set_started(true) and the lookup of the entry.     *)
LaunchFlag(t) ==
    /\ At(t, "s_note") \/ At(t, "s_flag")
    /\ IF Config \subseteq files
       THEN /\ started' = TRUE /\ Write({"state"})
            /\ IF loaded /\ At(t, "s_flag") THEN Goto(t, "s_gpu") /\ UNCHANGED lock
                                            ELSE Finish(t, loaded)
       ELSE Finish(t, FALSE) /\ UNCHANGED <<files, started>>
    /\ UNCHANGED <<vmm, mem, dir, nics, svc, netd, rm, orphan, down>>

(* The GPU reset of the launch is over.                                    *)
LaunchGpu(t) == /\ At(t, "s_gpu")
                /\ Goto(t, "s_release")
                /\ UNCHANGED <<vmm, mem, lock, disk, svc, netd, rm, orphan, down>>

(* prepare_netd_networks up to the first Prepare.                          *)
PrepareBegin(t) ==
    /\ At(t, "s_release")
    /\ \E ok \in BOOLEAN :
         IF nics = 0
         THEN Release(ok) /\ Goto(t, "s_config")
         ELSE /\ IF "pending" \notin files THEN ok /\ UNCHANGED netd
                 ELSE \/ ok /\ Answered /\ held' = {} /\ UNCHANGED netq
                      \/ ~ok /\ CallFails("sweep", 0)
              /\ Write({"pending"})
              /\ th' = [th EXCEPT ![t].pc = "s_prep", ![t].n = 1, ![t].hb = ~ok]
    /\ UNCHANGED <<vmm, mem, lock, dir, started, nics, svc, rm, orphan, down>>

PrepareOk(t) ==
    /\ At(t, "s_prep") /\ Answered
    /\ held' = held \cup {th[t].n}
    /\ th' = IF th[t].n = nics THEN [th EXCEPT ![t].pc = "s_config"]
                               ELSE [th EXCEPT ![t].n = @ + 1]
    /\ UNCHANGED <<vmm, mem, lock, disk, svc, netq, rm, orphan, down>>

(* Nothing listens on netd's socket.                                       *)
(* Mutant: the marker is cleared whatever an earlier boot left behind.     *)
ForgetsMarkerAlways(t) == th[t].n = 1

ForgetsMarker(t) == th[t].n = 1 /\ ~th[t].hb

PrepareUnreachable(t) ==
    /\ At(t, "s_prep")
    /\ IF ForgetsMarker(t) THEN files' = files \ {"pending"} /\ Finish(t, FALSE)
                           ELSE Goto(t, "s_undo") /\ UNCHANGED <<files, lock>>
    /\ UNCHANGED <<vmm, mem, dir, started, nics, svc, netd, rm, orphan, down>>

(* Any other failure, an unacceptable answer included.                     *)
PrepareFails(t) ==
    /\ At(t, "s_prep")
    /\ CallFails("prepare", th[t].n)
    /\ Goto(t, "s_undo")
    /\ UNCHANGED <<vmm, mem, lock, disk, svc, rm, orphan, down>>

(* The in-flight interface first, then the prepared ones, last one first.  *)
UndoDone(t) == th[t].n = 1

PrepareUndo(t) ==
    /\ At(t, "s_undo")
    /\ \/ Answered /\ held' = held \ {th[t].n} /\ UNCHANGED netq
       \/ CallFails("remove", th[t].n)
    /\ IF UndoDone(t) THEN Finish(t, FALSE)
                      ELSE th' = [th EXCEPT ![t].n = @ - 1] /\ UNCHANGED lock
    /\ UNCHANGED <<vmm, mem, disk, svc, rm, orphan, down>>

(* config_qemu ran on the blocking pool, which had the lock meanwhile.     *)
ConfigDone(t) ==
    /\ At(t, "s_config")
    /\ \E pc \in {"s_deploy", "s_fail"} : Goto(t, pc)
    /\ UNCHANGED <<vmm, mem, lock, disk, svc, netd, rm, orphan, down>>

(* Supervisor::deploy refuses a running process.                           *)
Deploy(t) ==
    /\ At(t, "s_deploy") /\ ~Running
    /\ sv' = "run" /\ used' = 1..nics
    /\ Finish(t, TRUE)
    /\ UNCHANGED <<vmm, mem, disk, netd, rm, orphan, down>>

DeployFails(t) ==
    /\ At(t, "s_deploy")
    /\ Goto(t, "s_fail")
    /\ UNCHANGED <<vmm, mem, lock, disk, svc, netd, rm, orphan, down>>

LaunchFailed(t) ==
    /\ At(t, "s_fail")
    /\ \E ok \in BOOLEAN : Release(ok)
    /\ Finish(t, FALSE)
    /\ UNCHANGED <<vmm, mem, dir, started, nics, svc, rm, orphan, down>>

(* try_restart_exited_vms: the list of running processes first, then the   *)
(* entry and the flag, then an ordinary launch, which is refused while the *)
(* VM is being removed.                                                    *)
AutoList(t) == /\ Begin(t, "auto", "a_decide")
               /\ ~Running
               /\ UNCHANGED <<vmm, mem, lock, disk, svc, netd, rm, orphan, down>>

AutoDecide(t) ==
    /\ At(t, "a_decide")
    /\ IF loaded /\ started THEN Goto(t, "s_enter") ELSE th' = [th EXCEPT ![t] = Idle]
    /\ UNCHANGED <<vmm, mem, lock, disk, svc, netd, rm, orphan, down>>

-----------------------------------------------------------------------------
(* stop_vm_process: SIGTERM to a launcher and up to 15 s for it to exit,   *)
(* then Supervisor::stop, which only fails on a process already told to.   *)
StopProcess(ok) ==
    /\ ok = (sv # "stopping")
    /\ sv' = CASE sv = "run" -> "stopping" [] sv = "exited" -> "stopped" [] OTHER -> sv
    /\ UNCHANGED used

(* stop_vm.                                                                *)
Stop(t) == /\ Begin(t, "stop", "p_lock")
           /\ ~removing
           /\ UNCHANGED <<vmm, mem, lock, disk, svc, netd, rm, orphan, down>>

StopFlag(t) ==
    /\ At(t, "p_lock") /\ lock = Free
    /\ IF dir THEN /\ lock' = t /\ Goto(t, "p_stop")
                   /\ Write({"state"}) /\ started' = FALSE /\ down' = TRUE
              ELSE th' = [th EXCEPT ![t] = Idle] /\ UNCHANGED <<lock, files, started, down>>
    /\ UNCHANGED <<vmm, mem, dir, nics, svc, netd, rm, orphan>>

StopSignal(t) ==
    /\ At(t, "p_stop")
    /\ \E ok \in BOOLEAN : /\ StopProcess(ok)
                           /\ IF ok THEN Goto(t, "p_release") /\ UNCHANGED lock
                                    ELSE Finish(t, FALSE)
    /\ UNCHANGED <<vmm, mem, disk, netd, rm, orphan, down>>

StopRelease(t) ==
    /\ At(t, "p_release")
    /\ \E ok \in BOOLEAN : Release(ok)
    /\ Finish(t, TRUE)
    /\ UNCHANGED <<vmm, mem, dir, started, nics, svc, rm, orphan, down>>

(* sv_stop takes no lock.                                                  *)
SvStop(t) == /\ Begin(t, "sv_stop", "v_stop")
             /\ sv # "absent"
             /\ UNCHANGED <<vmm, mem, lock, disk, svc, netd, rm, orphan, down>>

SvStopSignal(t) == /\ At(t, "v_stop")
                   /\ \E ok \in BOOLEAN : StopProcess(ok)
                   /\ th' = [th EXCEPT ![t] = Idle]
                   /\ UNCHANGED <<vmm, mem, lock, disk, netd, rm, orphan, down>>

(* Supervisor::remove.                                                     *)
SvRemove == /\ "sv_remove" \in Ops /\ up = "up" /\ sv = "stopped"
            /\ sv' = "absent"
            /\ UNCHANGED <<vmm, mem, lock, disk, used, netd, th, rm, orphan, down>>

-----------------------------------------------------------------------------
(* remove_vm: the claim and the durable marker, then the background task.  *)
(* Without a directory the marker cannot be written and the claim is       *)
(* dropped again.                                                          *)
ClaimAndMark == /\ loaded /\ ~removing /\ dir
                /\ removing' = TRUE /\ Write({"removing"})
                /\ rm' = [pc |-> "lock", del |-> TRUE, todo |-> {}]

Remove == /\ "remove" \in Ops /\ up = "up"
          /\ ClaimAndMark
          /\ UNCHANGED <<vmm, loaded, lock, dir, started, nics, svc, netd, th, orphan, down>>

(* spawn_finish_remove: nothing happens when a removal already has the id. *)
SpawnFinishRemove(yes) ==
    IF yes /\ ~removing
    THEN removing' = TRUE /\ rm' = [pc |-> "lock", del |-> FALSE, todo |-> {}]
    ELSE UNCHANGED <<removing, rm>>

RmAt(pc) == rm.pc = pc
RmGoto(pc) == rm' = [rm EXCEPT !.pc = pc]

(* finish_remove_vm.                                                       *)
RmTakesLock == /\ RmAt("lock") /\ lock = Free
               /\ lock' = "rm" /\ RmGoto("stop")
               /\ UNCHANGED <<vmm, mem, disk, svc, netd, th, orphan, down>>

(* Its errors, a supervisor that cannot be reached included, are ignored.  *)
RmStop == /\ RmAt("stop")
          /\ RmGoto("poll")
          /\ (\E ok \in BOOLEAN : StopProcess(ok)) \/ ("sv_error" \in Ops /\ UNCHANGED svc)
          /\ UNCHANGED <<vmm, mem, lock, disk, netd, th, orphan, down>>

(* Mutant: the removal goes on while the VM still runs.                    *)
GoneFromSupervisorNow == TRUE

GoneFromSupervisor == ~Running

(* The poll loop ends; supervisor.remove refuses a started process, which  *)
(* is only logged.                                                         *)
RmPoll == /\ RmAt("poll") /\ GoneFromSupervisor
          /\ sv' = IF sv = "stopped" THEN "absent" ELSE sv
          /\ RmGoto("release")
          /\ UNCHANGED <<vmm, mem, lock, disk, used, netd, th, orphan, down>>

RmDeletes == rm.del \/ "removing" \in files

(* Mutant: the directory goes although netd still holds interfaces.        *)
RmNextAlways(ok) == IF RmDeletes THEN "delete" ELSE "forget"

RmNext(ok) == CASE ~RmDeletes -> "forget" [] ok -> "delete" [] OTHER -> "release"

RmRelease == /\ RmAt("release")
             /\ \E ok \in BOOLEAN :
                  /\ Release(ok)
                  /\ rm' = [rm EXCEPT !.pc = RmNext(ok),
                                      !.todo = IF RmNext(ok) = "delete" THEN files' \ {"removing"} ELSE {}]
             /\ UNCHANGED <<vmm, mem, lock, dir, started, nics, svc, th, orphan, down>>

(* remove_all: the entries the directory listed, the marker, the directory.*)
RmDeleteFile ==
    /\ RmAt("delete") /\ rm.todo # {}
    /\ \E f \in rm.todo : /\ files' = files \ {f}
                          /\ started' = (started /\ f # "state")
                          /\ rm' = [rm EXCEPT !.todo = @ \ {f}]
    /\ UNCHANGED <<vmm, mem, lock, dir, nics, svc, netd, th, orphan, down>>

RmDeleteMarker ==
    /\ RmAt("delete") /\ rm.todo = {}
    /\ files' = files \ {"removing"}
    /\ RmGoto("rmdir")
    /\ UNCHANGED <<vmm, mem, lock, dir, started, nics, svc, netd, th, orphan, down>>

RmDir ==
    /\ RmAt("rmdir")
    /\ IF files = {} THEN dir' = FALSE /\ UNCHANGED files
                     ELSE Write({"removing"}) /\ UNCHANGED dir
    /\ RmGoto("forget")
    /\ UNCHANGED <<vmm, mem, lock, started, nics, svc, netd, th, orphan, down>>

(* The entry is forgotten and the lock guard dropped before the mark.      *)
RmForget == /\ RmAt("forget")
            /\ loaded' = FALSE
            /\ lock' = IF lock = "rm" THEN Free ELSE lock
            /\ RmGoto("unmark")
            /\ UNCHANGED <<vmm, removing, disk, svc, netd, th, orphan, down>>

RmUnmark == /\ RmAt("unmark")
            /\ removing' = FALSE
            /\ rm' = NoRemoval
            /\ UNCHANGED <<vmm, loaded, lock, disk, svc, netd, th, orphan, down>>

RemovalTask == \/ RmTakesLock \/ RmStop \/ RmPoll \/ RmRelease \/ RmDeleteFile
               \/ RmDeleteMarker \/ RmDir \/ RmForget \/ RmUnmark

-----------------------------------------------------------------------------
(* update_vm and resize_vm.  put_manifest creates the directory it writes  *)
(* into.                                                                   *)
Update(t) == /\ Begin(t, "update", "u_lock")
             /\ ~removing
             /\ UNCHANGED <<vmm, mem, lock, disk, svc, netd, rm, orphan, down>>

(* Mutant: the removal is not asked about again, and the manifest was read *)
(* before the lock.                                                        *)
UpdateAllowedStale == TRUE

UpdateAllowed == ~removing /\ "manifest" \in files

UpdateBegin(t) ==
    /\ At(t, "u_lock") /\ lock = Free
    /\ IF UpdateAllowed
       THEN lock' = t /\ \E pc \in {"u_net", "u_put"} : Goto(t, pc)
       ELSE th' = [th EXCEPT ![t] = Idle] /\ UNCHANGED lock
    /\ UNCHANGED <<vmm, mem, disk, svc, netd, rm, orphan, down>>

(* New networking (hb): a VM that is not running gives back what it held.  *)
UpdateNet(t) ==
    /\ At(t, "u_net")
    /\ IF Running THEN UNCHANGED <<netd, files>> ELSE \E ok \in BOOLEAN : Release(ok)
    /\ th' = [th EXCEPT ![t].pc = "u_put", ![t].hb = TRUE]
    /\ UNCHANGED <<vmm, mem, lock, dir, started, nics, svc, rm, orphan, down>>

UpdatePut(t) ==
    /\ At(t, "u_put")
    /\ dir' = TRUE /\ Write({"manifest"})
    /\ nics' \in IF th[t].hb THEN 0..NicCount ELSE {nics}
    /\ loaded' = (loaded \/ "shared" \in files)
    /\ Finish(t, TRUE)
    /\ UNCHANGED <<vmm, removing, started, svc, netd, rm, orphan, down>>

(* reconcile_network_cleanup: the marker and the list of running processes *)
(* first, both checked again under the lock.                               *)
Reconcile(t) ==
    /\ Begin(t, "reconcile", "n_lock")
    /\ loaded /\ "pending" \in files /\ ~removing /\ ~Running
    /\ UNCHANGED <<vmm, mem, lock, disk, svc, netd, rm, orphan, down>>

(* Mutant: the list read before the lock is believed.                      *)
ReconcileProceedsStale == ~removing

(* Mutant: a VM the supervisor does not know is skipped.                   *)
ReconcileProceedsListed == ~removing /\ sv \in {"exited", "stopped"}

ReconcileProceeds == ~removing /\ ~Running

ReconcileCheck(t) ==
    /\ At(t, "n_lock") /\ lock = Free
    /\ IF ReconcileProceeds THEN lock' = t /\ Goto(t, "n_release")
                            ELSE th' = [th EXCEPT ![t] = Idle] /\ UNCHANGED lock
    /\ UNCHANGED <<vmm, mem, disk, svc, netd, rm, orphan, down>>

ReconcileRelease(t) ==
    /\ At(t, "n_release")
    /\ \E ok \in BOOLEAN : Release(ok)
    /\ Finish(t, TRUE)
    /\ UNCHANGED <<vmm, mem, dir, started, nics, svc, rm, orphan, down>>

-----------------------------------------------------------------------------
(* reload_vms_sync: the supervisor's list (kn: the VM is on it), then the  *)
(* directories (mk: the VM's is there), then the entries: one without a    *)
(* directory is scheduled for removal.                                     *)
Reload(t) ==
    /\ "reload" \in Ops /\ up = "up" /\ At(t, "idle")
    /\ th' = [th EXCEPT ![t] = [Idle EXCEPT !.pc = "l_dirs", !.op = "reload", !.kn = (sv # "absent")]]
    /\ UNCHANGED <<vmm, mem, lock, disk, svc, netd, rm, orphan, down>>

ReloadDirs(t) ==
    /\ At(t, "l_dirs")
    /\ th' = [th EXCEPT ![t].pc = "l_scan", ![t].mk = dir]
    /\ UNCHANGED <<vmm, mem, lock, disk, svc, netd, rm, orphan, down>>

ReloadScan(t) ==
    /\ At(t, "l_scan")
    /\ SpawnFinishRemove(loaded /\ ~th[t].mk)
    /\ th' = [th EXCEPT ![t].pc = "l_mark", ![t].mk = FALSE]
    /\ UNCHANGED <<vmm, loaded, lock, disk, svc, netd, orphan, down>>

(* reload_vms, before the VMM serves anything.                             *)
Boot(t) ==
    /\ up = "down" /\ up' = "booting"
    /\ th' = [th EXCEPT ![t] = [Idle EXCEPT !.pc = "l_mark", !.op = "boot", !.kn = (sv # "absent")]]
    /\ UNCHANGED <<crashes, mem, lock, disk, svc, netd, rm, orphan, down>>

(* The second pass over the directories.  mk: it saw the removal marker.   *)
ReloadMark(t) ==
    /\ At(t, "l_mark")
    /\ th' = [th EXCEPT ![t].pc = IF dir THEN "l_read" ELSE "l_resume",
                        ![t].mk = "removing" \in files]
    /\ UNCHANGED <<vmm, mem, lock, disk, svc, netd, rm, orphan, down>>

(* load_or_update_vm and load_vm read the manifest and the compose file,   *)
(* then add the entry, then ask whether to start the VM.                   *)
ReloadRead(t) ==
    /\ At(t, "l_read")
    /\ Goto(t, IF Config \subseteq files THEN "l_add" ELSE "l_resume")
    /\ UNCHANGED <<vmm, mem, lock, disk, svc, netd, rm, orphan, down>>

ReloadAdd(t) ==
    /\ At(t, "l_add")
    /\ loaded' = TRUE
    /\ Goto(t, IF ~th[t].mk /\ started /\ (th[t].op = "boot" \/ ~th[t].kn)
               THEN "s_enter" ELSE "l_resume")
    /\ UNCHANGED <<vmm, removing, lock, disk, svc, netd, rm, orphan, down>>

(* A marked VM's removal is resumed; at startup so is that of a process no *)
(* VM was loaded for.                                                      *)
(* Mutant: an interrupted removal is not resumed.                          *)
ResumesOrphansOnly(t) == th[t].op = "boot" /\ th[t].kn /\ ~loaded

Resumes(t) == th[t].mk \/ (th[t].op = "boot" /\ th[t].kn /\ ~loaded)

ReloadResume(t) ==
    /\ At(t, "l_resume")
    /\ SpawnFinishRemove(Resumes(t))
    /\ up' = IF th[t].op = "boot" THEN "up" ELSE up
    /\ th' = [th EXCEPT ![t] = Idle]
    /\ UNCHANGED <<crashes, loaded, lock, disk, svc, netd, orphan, down>>

-----------------------------------------------------------------------------
(* create_vm.  The id is new: nothing of this VM exists, and a reload under *)
(* way has seen nothing of it.  mk: the request asks for the VM to be      *)
(* started.                                                                *)
Create(t) ==
    /\ "create" \in Ops /\ up = "up" /\ started' \in BOOLEAN
    /\ th' = [th EXCEPT ![t] = [Idle EXCEPT !.pc = "c_load", !.op = "create", !.mk = started']]
    /\ ~dir /\ ~loaded /\ ~removing /\ sv = "absent" /\ held = {} /\ netq = <<>>
    /\ At(t, "idle")
    /\ \A u \in Threads : \/ At(u, "idle")
                          \/ th[u].pc \in {"l_dirs", "l_scan", "l_mark"} /\ ~th[u].mk /\ ~th[u].kn
    /\ dir' = TRUE /\ files' = Config \cup {"state"}
    /\ nics' \in 0..NicCount /\ down' = FALSE
    /\ UNCHANGED <<vmm, mem, lock, svc, netd, rm, orphan>>

CreateLoad(t) ==
    /\ At(t, "c_load")
    /\ loaded' = TRUE
    /\ IF th[t].mk THEN Goto(t, "s_enter") ELSE th' = [th EXCEPT ![t] = Idle]
    /\ UNCHANGED <<vmm, removing, lock, disk, svc, netd, rm, orphan, down>>

(* The VM does not load (no image, no CID): its directory is deleted.      *)
CreateLoadFails(t) ==
    /\ At(t, "c_load") /\ ~loaded
    /\ dir' = FALSE /\ files' = {} /\ started' = FALSE
    /\ th' = [th EXCEPT ![t] = Idle]
    /\ UNCHANGED <<vmm, mem, lock, nics, svc, netd, rm, orphan, down>>

(* The first launch failed: remove_vm, whose own failure is only logged.   *)
CreateRemove(t) ==
    /\ At(t, "c_remove")
    /\ th' = [th EXCEPT ![t] = Idle]
    /\ \/ ClaimAndMark /\ UNCHANGED <<loaded, dir, started, nics>>
       \/ ~(loaded /\ ~removing /\ dir) /\ UNCHANGED <<mem, disk, rm>>
    /\ UNCHANGED <<vmm, lock, svc, netd, orphan, down>>

(* vm_event_report "powering off": the entry is looked up, then the flag   *)
(* is written without the launch lock.                                     *)
Event(t) == /\ Begin(t, "event", "e_write")
            /\ loaded /\ Running
            /\ UNCHANGED <<vmm, mem, lock, disk, svc, netd, rm, orphan, down>>

EventWrite(t) ==
    /\ At(t, "e_write")
    /\ IF dir THEN Write({"state"}) /\ started' = FALSE ELSE UNCHANGED <<files, started>>
    /\ th' = [th EXCEPT ![t] = Idle]
    /\ UNCHANGED <<vmm, mem, lock, dir, nics, svc, netd, rm, orphan, down>>

-----------------------------------------------------------------------------
(* An early return on an error that changes nothing: the supervisor or the *)
(* GPU reset failed, the VM did not stop in time, the request was invalid. *)
Fails(t) ==
    /\ th[t].pc \in {"s_wait", "s_flag", "s_note", "s_gpu", "p_stop", "u_net", "u_put"}
    /\ lock = t
    /\ Finish(t, FALSE)
    /\ UNCHANGED <<vmm, mem, disk, svc, netd, rm, orphan, down>>

(* A client that gave up: the request's future is dropped at an await, and *)
(* with it the lock, but not what runs on the blocking pool.  The lock     *)
(* travels with the configuration of QEMU.                                 *)
Cancellable == {"start", "create", "stop", "update", "reload"}

(* Mutant: the lock stays with the request.                                *)
LockAfterCancelDropped(t) == IF lock = t THEN Free ELSE lock

LockAfterCancel(t) == CASE At(t, "s_config") -> "config"
                        [] lock = t /\ ~At(t, "s_config") -> Free
                        [] OTHER -> lock

BlockingTask(t) == CASE At(t, "s_config") -> {"config"}
                     [] At(t, "s_gpu") /\ Gpu -> {"gpu"}
                     [] OTHER -> {}

Cancel(t) ==
    /\ "cancel" \in Ops /\ up = "up" /\ th[t].op \in Cancellable
    /\ th[t].pc \in {"s_lock", "s_wait", "s_gpu", "s_release", "s_prep", "s_undo", "s_config",
                     "s_deploy", "s_fail", "p_lock", "p_stop", "p_release", "u_lock", "u_net"}
    /\ BlockingTask(t) \cap orphan = {}
    /\ lock' = LockAfterCancel(t)
    /\ orphan' = orphan \cup BlockingTask(t)
    /\ th' = [th EXCEPT ![t] = Idle]
    /\ UNCHANGED <<vmm, mem, disk, svc, netd, rm, down>>

OrphanEnds ==
    /\ \E k \in orphan : /\ orphan' = orphan \ {k}
                         /\ lock' = IF k = "config" /\ lock = "config" THEN Free ELSE lock
    /\ UNCHANGED <<vmm, mem, disk, svc, netd, th, rm, down>>

(* QEMU exits by itself, or because it was killed.                         *)
QemuExits == /\ sv = "run" /\ sv' = "exited" /\ used' = {}
             /\ UNCHANGED <<vmm, mem, lock, disk, netd, th, rm, orphan, down>>

QemuKilled == /\ sv = "stopping" /\ sv' = "stopped" /\ used' = {}
              /\ UNCHANGED <<vmm, mem, lock, disk, netd, th, rm, orphan, down>>

(* The VMM dies.  The supervisor is a separate process and so is netd.     *)
Crash ==
    /\ up # "down" /\ crashes < MaxCrashes
    /\ up' = "down" /\ crashes' = crashes + 1
    /\ loaded' = FALSE /\ removing' = FALSE /\ lock' = Free
    /\ th' = [t \in Threads |-> Idle] /\ rm' = NoRemoval /\ orphan' = {}
    /\ UNCHANGED <<disk, svc, netd, down>>

-----------------------------------------------------------------------------
LaunchStep(t) == \/ LaunchEnter(t) \/ LaunchBegin(t) \/ LaunchWaits(t) \/ LaunchFlag(t)
                 \/ LaunchGpu(t) \/ PrepareBegin(t) \/ PrepareOk(t) \/ PrepareUnreachable(t)
                 \/ PrepareFails(t) \/ PrepareUndo(t) \/ ConfigDone(t) \/ Deploy(t)
                 \/ DeployFails(t) \/ LaunchFailed(t)

OtherStep(t) == \/ AutoDecide(t) \/ StopFlag(t) \/ StopSignal(t) \/ StopRelease(t)
                \/ SvStopSignal(t) \/ UpdateBegin(t) \/ UpdateNet(t) \/ UpdatePut(t)
                \/ ReconcileCheck(t) \/ ReconcileRelease(t) \/ ReloadDirs(t) \/ ReloadScan(t)
                \/ ReloadMark(t) \/ ReloadRead(t)
                \/ ReloadAdd(t) \/ ReloadResume(t) \/ CreateLoad(t) \/ CreateLoadFails(t)
                \/ CreateRemove(t) \/ EventWrite(t) \/ Fails(t)

Request(t) == \/ Start(t) \/ AutoList(t) \/ Stop(t) \/ SvStop(t) \/ Update(t) \/ Reconcile(t)
              \/ Reload(t) \/ Create(t) \/ Event(t) \/ Cancel(t)

Environment == QemuExits \/ QemuKilled \/ NetdRuns \/ OrphanEnds \/ SvRemove \/ Remove \/ Crash

Next == \/ \E t \in Threads : Request(t) \/ LaunchStep(t) \/ OtherStep(t) \/ Boot(t)
        \/ RemovalTask
        \/ Environment

Spec == Init /\ [][Next]_vars

-----------------------------------------------------------------------------
(* Properties.                                                             *)

(* The marker .netd-pending is on disk whenever netd holds an interface of *)
(* the VM, or will hold one when it gets to a Prepare it has received:     *)
(* whatever fails, times out, is cancelled or crashes, something can still *)
(* find and release it (mark_network_cleanup_pending, release_vm_interfaces).*)
NetdMarked ==
    held # {} \/ (\E i \in 1..Len(netq) : netq[i].op = "prepare") => "pending" \in files

(* A VM that is up and was not told to stop keeps every interface it was   *)
(* launched with, and no request on one is on its way:  no loser of a race  *)
(* of starts, stops, removals and cleanups takes them (launch_lock).       *)
LiveKeepsNics ==
    sv = "run" => /\ used \subseteq held
                  /\ \A i \in 1..Len(netq) : netq[i].nic \notin used
                  /\ (\E i \in 1..Len(netq) : netq[i].op = "sweep") => used = {}

(* The workdir of a VM whose QEMU is still there, even if only stopping,   *)
(* keeps its manifest and shared files (finish_remove_vm waits).           *)
NoDeleteUnderQemu == Running => Config \subseteq files

(* At most one configuration of QEMU writes the workdir and creates the    *)
(* data disk, a cancelled one included (start_vm, the travelling lock).    *)
ConfigWriters == Cardinality({t \in Threads : At(t, "s_config")})
                 + (IF "config" \in orphan THEN 1 ELSE 0)
OneConfigWriter == ConfigWriters <= 1

(* What is in memory and what is on disk agree when no removal is running: *)
(* a loaded VM has its files, and a directory belongs to a loaded VM, to a *)
(* creation under way or to a removal that will be resumed.  An update     *)
(* that lost against a removal must not bring the directory back.          *)
MemoryMatchesDisk ==
    up = "up" /\ ~removing =>
        /\ loaded => Config \subseteq files
        /\ dir => loaded \/ "removing" \in files \/ \E t \in Threads : At(t, "c_load")

(* A VM the user stopped does not come up again before an explicit start:  *)
(* a restart decided before the stop does not outlive it.                  *)
StopSticks == [][sv # "run" /\ sv' = "run" => ~down]_vars

(* reload_vms_sync syncs memory with the directories: when nothing is in   *)
(* progress no VM is left loaded whose files are gone.                     *)
NoGhost == /\ up = "up" /\ ~removing /\ loaded
           /\ \A t \in Threads : At(t, "idle")
           => Config \subseteq files

(* reload_vms_sync removes VMs that no longer exist in the file system: no *)
(* entry is dropped while the VM's files are all there.                    *)
OnlyGoneDropped ==
    [][up' = "up" /\ loaded /\ ~loaded' => ~(Config \subseteq files)]_vars

(* gpu_reset: every VFIO group is closed again before QEMU is spawned, so  *)
(* no reset of the VM's GPUs is under way while its QEMU runs.             *)
ResetBeforeQemu == sv = "run" => "gpu" \notin orphan

(* remove_all: a deletion that a crash interrupted left the marker behind. *)
DeletionLeavesMarker == up = "down" /\ dir /\ "manifest" \notin files => "removing" \in files

-----------------------------------------------------------------------------
(* Fairness.  The runtime schedules every task; tokio's mutex is fair, so  *)
(* a waiter that keeps finding the lock free gets it; a SIGKILLed QEMU     *)
(* exits; netd works through its requests, and a call repeated for ever    *)
(* succeeds some time; timers fire; a VMM that died is started again.      *)
Progress == /\ \A t \in Threads : WF_vars(LaunchStep(t) \/ OtherStep(t)) /\ WF_vars(Boot(t))
            /\ WF_vars(QemuKilled) /\ WF_vars(NetdRuns) /\ WF_vars(OrphanEnds)

RemovalProgress == /\ SF_vars(RmTakesLock) /\ WF_vars(RemovalTask)
                   /\ SF_vars(RmRelease /\ "pending" \notin files')

TimerProgress == \A t \in Threads :
                    /\ SF_vars(Reconcile(t)) /\ SF_vars(ReconcileCheck(t))
                    /\ SF_vars(ReconcileRelease(t) /\ "pending" \notin files')

RemovalSpec == Spec /\ Progress /\ RemovalProgress
TimerSpec == RemovalSpec /\ TimerProgress

(* A removal that put its marker on disk empties the directory in the end, *)
(* over failing releases, a launch under way and VMM crashes.              *)
RemovalFinishes == "removing" \in files ~> files = {}

(* What netd holds for a VM that is down is released without anyone        *)
(* starting or removing the VM (reconcile_network_cleanup).                *)
CleanupConverges == "pending" \in files ~> ("pending" \notin files \/ Running)
=============================================================================
