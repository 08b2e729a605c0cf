-------------------------------- MODULE VmCids --------------------------------
(***************************************************************************)
(* The vsock context ids (CIDs) of the VMM's VMs: IdPool, the choice of a  *)
(* CID when a VM is loaded, its release when a VM is forgotten, and the    *)
(* rebuilding of the pool by a reload and after a restart of the VMM.      *)
(*                                                                         *)
(* A reload lists the supervisor's processes, rebuilds the pool, compares  *)
(* directories with entries and loads the directories one by one; other    *)
(* requests run between any two of these steps.  What the life of a single *)
(* VM adds to this (locks, netd, retries) is in VmLifecycle.               *)
(***************************************************************************)
EXTENDS Naturals, FiniteSets

CONSTANTS VMs,         \* ids of VMs
          PoolSize,    \* cid_pool_size
          Ops,         \* "sv_error": supervisor.remove fails; "overlap": removals
                       \* run during a reload, and creations while it compares
          MaxCrashes,  \* restarts of the VMM
          NoId         \* no CID, no VM

ASSUME OpsAssumption == Ops \subseteq {"sv_error", "overlap"}
ASSUME PoolAssumption == PoolSize \in Nat /\ MaxCrashes \in Nat
ASSUME NoIdAssumption == NoId \notin Nat /\ NoId \notin VMs

VARIABLES vms,      \* AppState.vms: the CID of every loaded VM
          pool,     \* IdPool.allocated
          proc,     \* the CID of every process in the supervisor's list
          disk,     \* VMs with a directory
          marked,   \* VMs whose directory has the .removing marker
          rm,       \* the removal of every VM
          rl,       \* the reload under way
          crashes

cidsVars == <<vms, pool, proc, disk, marked, rm, rl, crashes>>

Cids == 1..PoolSize
CidOrNoId == Cids \cup {NoId}
Used(f) == {f[i] : i \in VMs} \ {NoId}

NoReload == [op |-> "none", pc |-> "idle", occ |-> [i \in VMs |-> NoId], dirs |-> {},
             had |-> {}, todo |-> {}, cur |-> NoId, again |-> {}]

CidsTypeOK == /\ vms \in [VMs -> CidOrNoId] /\ proc \in [VMs -> CidOrNoId]
              /\ pool \subseteq Cids /\ disk \subseteq VMs /\ marked \subseteq disk
              /\ rm \in [VMs -> {"idle", "stop", "delete", "forget"}]
              /\ rl \in [op: {"none", "reload", "boot"},
                         pc: {"idle", "rebuild", "dirs", "compare", "load", "add", "tidy"},
                         occ: [VMs -> CidOrNoId], dirs: SUBSET VMs, had: SUBSET Cids,
                         todo: SUBSET VMs, cur: VMs \cup {NoId}, again: SUBSET VMs]
              /\ crashes \in 0..MaxCrashes

CidsInit == /\ vms = [i \in VMs |-> NoId] /\ proc = [i \in VMs |-> NoId]
            /\ pool = {} /\ disk = {} /\ marked = {}
            /\ rm = [i \in VMs |-> "idle"] /\ rl = NoReload /\ crashes = 0

Serving == rl.op # "boot"

-----------------------------------------------------------------------------
(* IdPool.allocate: the lowest free id of the half-open interval.          *)
(* Mutant: only the ids of processes are skipped.                          *)
FreeCidsOfProcesses == Cids \ Used(proc)

FreeCids == Cids \ pool
Lowest == CHOOSE c \in FreeCids : \A d \in FreeCids : c <= d

(* load_vm and load_or_update_vm under the state lock: the CID the entry   *)
(* has, the one assigned to it, or a new one; no entry without a CID.      *)
Load(i, assigned) ==
    \/ vms[i] # NoId /\ UNCHANGED <<vms, pool>>
    \/ /\ vms[i] = NoId /\ assigned # NoId
       /\ vms' = [vms EXCEPT ![i] = assigned] /\ UNCHANGED pool
    \/ /\ vms[i] = NoId /\ assigned = NoId
       /\ IF FreeCids = {} THEN UNCHANGED <<vms, pool>>
          ELSE vms' = [vms EXCEPT ![i] = Lowest] /\ pool' = pool \cup {Lowest}

(* create_vm, under a new id: no trace of the VM anywhere.                 *)
Create(i) ==
    /\ Serving /\ ("overlap" \in Ops \/ rl.pc # "compare")
    /\ i \notin disk /\ vms[i] = NoId /\ proc[i] = NoId /\ rm[i] = "idle"
    /\ rl.occ[i] = NoId /\ rl.cur # i /\ i \notin rl.dirs \cup rl.todo \cup rl.again
    /\ Load(i, NoId)
    /\ disk' = IF vms'[i] = NoId THEN disk ELSE disk \cup {i}
    /\ UNCHANGED <<proc, marked, rm, rl, crashes>>

(* A launch under the launch lock, one that a removal waits for included.  *)
Launch(i) ==
    /\ Serving
    /\ vms[i] # NoId /\ i \in disk /\ proc[i] = NoId /\ rm[i] \in {"idle", "stop"}
    /\ proc' = [proc EXCEPT ![i] = vms[i]]
    /\ UNCHANGED <<vms, pool, disk, marked, rm, rl, crashes>>

-----------------------------------------------------------------------------
(* remove_vm, and finish_remove_vm: the process, the directory of a marked *)
(* VM, the entry with its CID.                                             *)
Remove(i) ==
    /\ Serving /\ ("overlap" \in Ops \/ rl.pc = "idle")
    /\ vms[i] # NoId /\ rm[i] = "idle" /\ i \in disk
    /\ marked' = marked \cup {i} /\ rm' = [rm EXCEPT ![i] = "stop"]
    /\ UNCHANGED <<vms, pool, proc, disk, rl, crashes>>

(* supervisor.remove may fail, which is only logged.                       *)
RmStop(i) ==
    /\ rm[i] = "stop" /\ rm' = [rm EXCEPT ![i] = "delete"]
    /\ \/ proc' = [proc EXCEPT ![i] = NoId]
       \/ "sv_error" \in Ops /\ UNCHANGED proc
    /\ UNCHANGED <<vms, pool, disk, marked, rl, crashes>>

RmDelete(i) ==
    /\ rm[i] = "delete" /\ rm' = [rm EXCEPT ![i] = "forget"]
    /\ disk' = disk \ (marked \cap {i}) /\ marked' = marked \ {i}
    /\ UNCHANGED <<vms, pool, proc, rl, crashes>>

RmForget(i) ==
    /\ rm[i] = "forget" /\ rm' = [rm EXCEPT ![i] = "idle"]
    /\ vms' = [vms EXCEPT ![i] = NoId] /\ pool' = pool \ {vms[i]}
    /\ UNCHANGED <<proc, disk, marked, rl, crashes>>

(* spawn_finish_remove for a set of VMs.                                   *)
Spawned(S) == [i \in VMs |-> IF i \in S /\ rm[i] = "idle" THEN "stop" ELSE rm[i]]

-----------------------------------------------------------------------------
(* reload_vms_sync.                                                        *)
ReloadBegin ==
    /\ rl.pc = "idle" /\ ("overlap" \in Ops \/ \A i \in VMs : rm[i] = "idle")
    /\ rl' = [NoReload EXCEPT !.op = "reload", !.pc = "rebuild", !.occ = proc]
    /\ UNCHANGED <<vms, pool, proc, disk, marked, rm, crashes>>

(* cids_to_reserve.                                                        *)
Reserved == Used(vms) \cup Used(rl.occ)

ReloadRebuild ==
    /\ rl.op = "reload" /\ rl.pc = "rebuild"
    /\ pool' = Reserved
    /\ rl' = [rl EXCEPT !.pc = "dirs"]
    /\ UNCHANGED <<vms, proc, disk, marked, rm, crashes>>

ReloadDirs ==
    /\ rl.pc = "dirs" /\ rl' = [rl EXCEPT !.pc = "compare", !.dirs = disk]
    /\ UNCHANGED <<vms, pool, proc, disk, marked, rm, crashes>>

(* The entries and their CIDs; entries without a directory are removed;    *)
(* the directories are listed again to be loaded.                          *)
ReloadCompare ==
    /\ rl.pc = "compare"
    /\ rm' = Spawned({i \in VMs : vms[i] # NoId} \ rl.dirs)
    /\ rl' = [rl EXCEPT !.pc = "load", !.had = Used(vms), !.todo = disk, !.dirs = {}]
    /\ UNCHANGED <<vms, pool, proc, disk, marked, crashes>>

(* The marker and the manifest of one VM are read; reading can fail.       *)
ReloadRead(i) ==
    /\ rl.pc = "load" /\ i \in rl.todo
    /\ \E ok \in BOOLEAN :
         /\ ok => i \in disk
         /\ rl' = [rl EXCEPT !.todo = @ \ {i}, !.again = IF i \in marked THEN @ \cup {i} ELSE @,
                             !.pc = IF ok THEN "add" ELSE "load", !.cur = IF ok THEN i ELSE NoId]
    /\ UNCHANGED <<vms, pool, proc, disk, marked, rm, crashes>>

ReloadAdd ==
    /\ rl.pc = "add"
    /\ Load(rl.cur, rl.occ[rl.cur])
    /\ rl' = [rl EXCEPT !.pc = "load", !.cur = NoId]
    /\ UNCHANGED <<proc, disk, marked, rm, crashes>>

(* Removals are resumed; at startup processes without an entry go too.     *)
ReloadResume ==
    /\ rl.pc = "load" /\ rl.todo = {}
    /\ rm' = Spawned(rl.again \cup {i \in VMs : rl.op = "boot" /\ rl.occ[i] # NoId /\ vms[i] = NoId})
    /\ rl' = IF rl.op = "boot" THEN NoReload ELSE [rl EXCEPT !.pc = "tidy", !.again = {}]
    /\ UNCHANGED <<vms, pool, proc, disk, marked, crashes>>

(* Mutant: every CID that had an entry is released.                        *)
OrphanedAll == rl.had

Orphaned == rl.had \ Used(vms)

ReloadTidy ==
    /\ rl.pc = "tidy"
    /\ pool' = pool \ Orphaned /\ rl' = NoReload
    /\ UNCHANGED <<vms, proc, disk, marked, rm, crashes>>

(* The VMM dies and is started again: reload_vms occupies the CIDs of the  *)
(* listed processes and loads every directory before the VMM serves.       *)
Crash ==
    /\ crashes < MaxCrashes /\ crashes' = crashes + 1
    /\ vms' = [i \in VMs |-> NoId] /\ rm' = [i \in VMs |-> "idle"]
    /\ pool' = Used(proc)
    /\ rl' = [NoReload EXCEPT !.op = "boot", !.pc = "load", !.occ = proc, !.todo = disk]
    /\ UNCHANGED <<proc, disk, marked>>

(* Someone deletes a VM's directory by hand, the case ReloadCompare is for.*)
DirDeleted(i) ==
    /\ Serving /\ i \in disk /\ rm[i] = "idle"
    /\ disk' = disk \ {i} /\ marked' = marked \ {i}
    /\ UNCHANGED <<vms, pool, proc, rm, rl, crashes>>

CidsNext == \/ \E i \in VMs : \/ DirDeleted(i) \/ Create(i) \/ Launch(i) \/ Remove(i)
                              \/ RmStop(i) \/ RmDelete(i) \/ RmForget(i) \/ ReloadRead(i)
            \/ ReloadBegin \/ ReloadRebuild \/ ReloadDirs \/ ReloadCompare
            \/ ReloadAdd \/ ReloadResume \/ ReloadTidy \/ Crash

CidsSpec == CidsInit /\ [][CidsNext]_cidsVars

-----------------------------------------------------------------------------
(* Properties.                                                             *)

(* No two loaded VMs have the same CID: they would collide on the wire the *)
(* moment both run (cids_to_reserve, load_or_update_vm).                   *)
CidsUnique == \A i, j \in VMs : i # j /\ vms[i] # NoId => vms[i] # vms[j]

(* The CID of a loaded VM, running or stopped, is occupied in the pool, so *)
(* that allocate cannot hand it out again, across reloads and restarts.    *)
CidsReserved == Used(vms) \subseteq pool
=============================================================================
