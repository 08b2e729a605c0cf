# dstack: a TLA+ verification project

dstack runs containerised applications in confidential VMs (CVMs). This directory holds TLA+ modules for
the parts of the repository whose correctness depends on the order in which things happen, the TLC
configurations that check them on small instances, and TLAPS proofs of the results that matter most.
Paths below are under `src/dstack/` unless they say otherwise.

## 1. Inventory

| component | state it keeps | operations | interacts with | what is hard |
|---|---|---|---|---|
| process supervisor (`supervisor/`) | table id -> handle; per handle status, `started`, kill channel; one wait task and one OS child per start; `freezed` | deploy, start, stop, remove, clear, info, list, shutdown (HTTP, signals) | called by the VMM over a Unix socket | requests on a multi-threaded runtime with several critical sections each; a wait task that outlives its handle; children that exit by themselves; shutdown racing deploys |
| VMM, life of a VM (`vmm/src/app.rs`, `app/workdir.rs`, `main_service.rs`) | entry per VM, removal claims, a launch lock per VM; on disk: work directory, manifest, `started` flag, `.removing` and `.netd-pending` marks | create, start, stop, remove, update, resize, reload, start-up scan, guest events, timers | supervisor, netd, guest agent over vsock, file system | removal in the background that must survive a crash; decisions taken before a lock and used after it; two daemons whose state must agree; requests cancelled at an await |
| VMM, restart policy (`app.rs`, `AutoRestartState`) | attempts, next retry, healthy since, whether exhaustion was reported | observe running, observe exited, reset | timer, explicit starts and stops | decisions on an old list of processes; saturating arithmetic |
| VMM, CIDs (`app/id_pool.rs`, `app.rs`) | set of allocated vsock CIDs | allocate, occupy, free, rebuild | life of a VM, supervisor's list | a pool rebuilt from a list that is older than the entries |
| netd (`vmm/src/netd.rs`) | host interfaces per VM | prepare, remove, sweep | VMM, kernel, libvirt | calls whose answer is lost and which run later |
| gateway, registration (`gateway/src/main_service.rs`, `kv/import.rs`) | instances, address pool; `inst/` and `admin/` records in the store | register, remove, recycle, gate, port policy, reload from the store | guests, other nodes | reloads that read before the lock and apply under it; decisions taken off the lock; an instance that moves between nodes |
| gateway, routing (`models.rs`, `proxy/health_check.rs`, `main_service.rs`) | verdict per instance, cached selection, failures in a row | select, poll, record a verdict | guest agents | late answers, a cached selection, a CVM that reboots meanwhile |
| gateway, WireGuard (`main_service/wg_apply.rs`) | a one-slot channel, configuration file, interface | request, apply, stop | every change of the table | lost wake-ups, retries, exit in the middle |
| gateway, replicated store and membership (`gateway/src/kv/`, `web_routes/wavekv_sync.rs`) | last-writer-wins records, tombstones, sync peers, removal markers | put, delete, sync, collect, prune, remove and re-admit a node, discover peers | other nodes, a bootnode | a removed node that returns with old data; tombstones that are forgotten |
| gateway, certificates (`gateway/src/distributed_certbot.rs`, `cert_store.rs`) | leases, certificates and the ACME account in the store; the resolver's certificates | renew, rotate, reconcile CAA, import, reload | ACME, DNS, other nodes | leases without compare-and-swap; several writers of the resolver |
| KMS (`kms/`) | root keys, onboarding state | bootstrap, onboard, key release | guests, authorisation contracts | one-shot onboarding |
| guest agent (`guest-agent/`) | health of the guest and its containers, keys | attest, sign, derive, health | applications, VMM | a cached health state |
| guest set-up (`dstack-util/`) | disk, keys, configuration | staged set-up | KMS, gateway | a boot that stops between two stages |
| caches (`cached-cell/`, `nvidia-attest-proxy/`) | cached value and its age | get, refresh | upstream services | single flight, expiry, limits |
| certificate tools, attestation libraries, key providers, command-line tools, SDKs, OS images | none shared | - | - | formats, cryptography, sequential I/O |

What makes the modelled components correct:

* supervisor: no interleaving of requests loses a running child; a process that is reported as not running
  is dead (the VMM frees its files and interfaces on that report); a stop takes effect; an Ok shutdown
  leaves nothing behind but what overtook the freeze.
* life of a VM: nothing is deleted under a QEMU; a live VM keeps its interfaces; whatever netd holds can be
  found again on disk; a stopped VM stays down; memory and disk agree; a removal ends; what netd holds for
  a VM that is down is released.
* restart policy: the budget and the backoff are kept whatever resets and samples interleave.
* CIDs: no two VMs share one, and a CID in use is never handed out.
* gateway, registration: an address in use is never given to another instance and none is lost; a node that
  has handled every change has the records its store accepts.
* gateway, routing: a cached selection does not outlive what it was computed from; a health verdict is about
  the boot the entry describes; nothing is held out of rotation that nobody polls.
* gateway, WireGuard: the interface shows the table in the end, after any failures, and no request is lost; a
  change for which nobody asks for an apply, that of a refused registration, waits for the next request.
* gateway, membership: a deleted record does not come back with a node that was removed, unless somebody lists
  or re-admits it; a removal reaches every member although the node that made it stopped half way.
* gateway, certificates: a lease stays with its holder until it expires; the first account registered is the
  only one; a node at rest serves the certificates its replica holds, but for expired ones.

## 2. Plan

Done, in this order: `Supervisor` and its proofs; `VmLifecycle`; `AutoRestart`; `VmCids`;
`GatewayRouting`; `WgApply` and its proofs; `GatewayRegistry` over `LwwStore`; `CertRenewal`; `GatewayPeers`;
`ProcessTable` and the refinement `SupervisorTable`; the proofs of every component (section 5).

Next, in this order:

1. Proofs: what is left of the invariants of `VmLifecycle` when one reload runs beside other operations.
2. Composition: `ProcessTable` in the place of the supervisor's reportable states in `VmLifecycle`, with calls
   that take effect after their client gave up.
3. KMS onboarding, the cached cell and the cache of the attestation proxy.

## 3. Modules

**`Supervisor`** (`supervisor/src/supervisor.rs`, `process.rs`, `web_api.rs`, `main.rs`). Variables are the
fields of `SupervisorState` and `ProcessStateRT` (`freezed`, `table`, `proc`), the OS children with their
kill channels and wait tasks (`child`), the requests in flight (`call`) and whether the process still serves
(`phase`). One action is one critical section: deploy has four (freeze check, running check, spawn, insert),
start two, remove three, clear one per id, shutdown one per id and round. A DashMap reference that a request
keeps between two sections is `Referenced`: the entry cannot be written meanwhile. Dropping a handle closes
its kill channel (`DropSender`). The `JoinError` of a wait task is left out: the release profile aborts on
panic.

**`VmLifecycle`** (`vmm/src/app.rs`, `app/workdir.rs`, `main_service.rs`, `netd.rs`, `gpu_reset.rs`). One VM
with everything that acts on it. `loaded` and `removing` are its entry and its removal claim, `lock` its
launch lock, `dir`, `files`, `started`, `nics` its work directory, `sv` and `used` the supervisor's process
and the interfaces it was launched with, `held` and `netq` netd's interfaces and pending requests, `th` the
requests and timers, `rm` the removal task, `orphan` blocking work whose request was cancelled. One action is
the code between two awaits, or one call of another process with the handling of its answer. Decisions:

* A netd call is answered only when everything before it has run; or it fails with no effect; or it fails
  half way; or it times out in the VMM and runs later. A call in flight when its request is cancelled has one
  of these outcomes before the cancellation.
* The supervisor is its five reportable states. That a process it does not report running is dead is
  `Supervisor!StoppedMeansDead`.
* A cancelled deploy has happened or not at the time of the cancellation.
* I/O errors of the local file system are left out, except those that a removal causes (missing files and
  directories). `create_vm` writes manifest and shared files in one step; nobody knows the id yet.
* Requests use an id once the VM was listed or its creation returned (`Known`).

**`AutoRestart`** (`AutoRestartState` and `try_restart_exited_vms`, `app.rs`). Time in seconds, the policy as
the record of the source, arithmetic saturating at `2^Bits - 1`. The timer lists the processes (`ListVms`),
decides (`Sample`), and runs the restart it decided on (`AutoRestarts`) before it samples again; explicit
starts and stops reset the policy before they wait for the lock.

**`VmCids`** (`app/id_pool.rs`, `app.rs`). Several VMs with their entries, processes, directories and
removals, the pool, and one reload at a time split at every point where another request can come between.
CIDs outside a pool whose range was reconfigured are not modelled.

**`ProcessTable`**, **`SupervisorTable`**. What the supervisor promises the VMM: a table of ids, each with at
most one process behind it that is owned, doomed or dead; an entry turns down only when its process is dead;
a doomed process is never owned again. `SupervisorTable` maps the handles, kill channels and wait tasks of
`Supervisor` to it (`INSTANCE ProcessTable WITH`). The promise is made to a client that never calls start on
an existing process, as the VMM: with start it does not hold (`SupervisorDoubleStart.cfg`, section 6).

**`LwwStore`** (external: the library wavekv). Versions of a key, their order, and what a merge keeps. The
gateway modules use it, so that none of them assumes a compare-and-swap. The library orders versions by
wall-clock time with node and sequence number as tie-breakers; the model assumes the synchronized clocks that
`gateway/docs/cluster-deployment.md:183` asks for, so that a write is later than every version its node has
seen, and orders writes that have not seen each other by the number of versions below them and then by node.
A clock that is behind, whose writes lose to what they replace, is not modelled.

**`GatewayRegistry`** (`main_service.rs`, `kv/import.rs`, `kv/mod.rs`). Several nodes, each with its table and
pool, its replica of the `inst/` records, the watcher's flag (`dirty`), what a reload has read and not applied
(`reload`) and what recycling has decided and not removed (`stale`). What a node does under its routing lock
is one step. An instance may register with any node at any time. The ghost `behind` records that some node
acted on records that had been overtaken: a reload that applied what it read before a registration, a write
over a newer one of another node, or a port policy written together with another node's address that the
writer's own store no longer has for the instance (`Revived`: its table has not been reloaded since, so it
brings back an address that its owner may have given away). `PoolCovers` makes an exception for it, and
section 6 shows why.

**`GatewayRouting`** (`main_service.rs`, `models.rs`, `proxy/health_check.rs`). One node's view of one app:
entries with boot, address, declaration, verdict and gate; the cached selection; a reload in its two halves;
the poll of every instance in flight. Other nodes are writers of the store. Which handshakes are fresh and
whether a registration is within its grace period is the environment's choice. A WireGuard key stands for a
boot (the guest keeps it on tmpfs). The ghosts `seen` (the boot whose answer the verdict is) and `half`
(registrations that failed for want of an address) are only used by properties.

**`WgApply`** (`main_service/wg_apply.rs`, `main_service.rs`, `main.rs`). Callers that have changed the table
and not yet requested an apply, the slot of the channel, the worker at each of its blocking points, the file
and the interface. `RegisterFails` is a registration that has put the new key into the table when it finds no
address left, and returns before it would ask for an apply; the ghost `unasked` names the peers changed in
this way since the table was rendered last, which `InterfaceFollows` and `InterfaceConverges` except and
`NoPeerLeftBehind` (section 6) does not. Failures, restarts and an interface that loses its peers share the
bound `MaxFaults`.

**`CertRenewal`** (`distributed_certbot.rs`, `cert_store.rs`, `kv/mod.rs`, `admin_service.rs`). Tasks on
nodes, each a renewal, an import, a rotation or a CAA reconciliation, with a step boundary at every await and
between `update_cert`'s copy and its swap. A lease is taken and released under the write guard of the node's
own replica. The ghost `weak` names the locks that some node wrote without having seen their latest version,
or that were force-released; `overrun` says that the account's lease was taken from a task still at work or
before its result arrived. A behaviour is one of the `Scenarios`: renewals on two nodes, a renewal beside an
import on one node, account operations on two nodes, and on one node a renewal that is the first to need an
account beside the operator's account operations. A certificate has an age and expires (`Life`): `add_cert`
refuses it then (`Accepts`), so that a reload and a start skip it (`Built`), a renewal whose certificate expired
on the way fails and an import of an old one is turned away before anything is stored, while `update_cert` keeps
the expired certificates of other domains. Chains and keys that do not parse or match are refused like an
expired import and never stored, so they need no state of their own. `RestartMisses` is a start whose sync tasks merge a
change before the watcher of certificates subscribes; its flag is then "missed".

**`GatewayPeers`** (`kv/mod.rs`, `main_service.rs`, `web_routes/wavekv_sync.rs`, `admin_service.rs`). Three
keys of the store (an instance's record, the address of the node that is removed, the marker of its removal),
the sync peers of every node, which tombstones each peer is known to have, the watchers, and RemoveNode and
SetNodeUrl step by step. A bootnode lists the node as long as it has its address: a member that starts takes the
list before it talks to anybody (`Crash`; nobody else acts on that node meanwhile, so the fetch is part of the
step, while the exchanges of bootstrap are the `Exchange`s before the first prune), and one that knows no other
node's status asks while its watchers run (`Discover` and the three steps of the answer; `Statuses` are the
members whose status records exist, the removed node's own is left out, so that discovery runs in more states
than in the code). A round adds its sender to the peers of its receiver. The ghost `again` says how the removed
node has come back so far: `listed` to a member that had the marker, re-admitted by an operator (`yes`), or
added again after the marker was pruned for (`crossed`). A collection may happen whenever every sync peer has the tombstone: the code's pace
(a count of replicated writes) only makes it rarer. An exchange is one step: a response to a round that began
before a collection is not modelled. At the start every node has the instance's record and the address as
versions that some node has written.

The MC modules instantiate these for TLC where an instance needs definitions (symmetry sets, only used by runs
without liveness properties, and the shares, gated boots and scenarios); the other modules are run as they are. The theorems about a module `M` are
in `MProofs`, those about `AutoRestart` and `VmCids` in `VmmProofs`; `SupervisorProofs` also has the
refinement. The names of `VmCids` that `AutoRestart` has too carry the prefix `Cids` for that reason.
Definitions named after another with a suffix (`ChildWithoutLeak` beside `ChildWithout`) are deliberately
wrong variants used to see that the properties notice them.

## 4. Runs

| run | configuration | properties | what it shows |
|---|---|---|---|
| `supervisor_requests` | one id, two overlapping requests, two handles, two children; deploy, start, stop; fair | `NoLostChild`, `RunningHasTask`, `SignalledDies`, `StopTakesEffect` | no child is lost, no process stays Running without a wait task, stops and drops take effect |
| `supervisor_vmm` | one id, two requests; deploy, stop, remove, clear, shutdowns of two rounds | `TypeOK`, `StoppedMeansDead`, `ShutdownQuiet`, `ImplementsTable` | a process not reported running is dead; what an Ok shutdown may leave alive; the refinement of `ProcessTable` |
| `vm_races` | two threads, every operation but reload, two NICs, two late netd requests, cancelled requests, failing supervisor calls | `NoDeleteUnderQemu`, `OneConfigWriter`, `MemoryMatchesDisk`, `NetdMarked`, `LiveKeepsNics`, `StopSticks` | the launch lock, the second checks under it and the marker are enough |
| `vm_crash` | two threads, so a reload beside one other operation, the start-up scan, one crash at any step, one NIC | `NetdMarked`, `LiveKeepsNics` | the marker and the files survive a crash anywhere |
| `vm_liveness` | two threads, the removal task, timers, one crash; fair | `RemovalFinishes`, `CleanupConverges` | a removal whose marker is on disk ends; the timer releases what netd holds for a VM that is down |
| `auto_restart` | three retries, delays 2, 4, 4 of a three-bit arithmetic, 14 seconds | `BudgetKept`, `BackoffDoubles`, `RestartsSpaced` | budget, doubling and spacing |
| `cids_serial` | three VMs on two CIDs, one crash, removals apart from reloads | `CidsUnique`, `CidsReserved` | CIDs stay unique and reserved, at the pool's limit too |
| `gateway_routing` | two instances with three boots each (one is gated at its first two), four changes, one fault, two failures in a row | `CacheFollowsTable`, `VerdictOfThisBoot`, `DeclarationAgrees`, `QuietMatchesStore` | selection, verdicts and declarations follow the table and the boots |
| `wg_apply` | two peers, two callers, two faults; fair | `InterfaceFollows`, `ExitKeepsFile`, `InterfaceConverges`, `RegistrationRepairs` | no wake-up that was asked for is lost, an exit does not split an apply, the interface converges but for what a refused registration changed |
| `gateway_registry` | two nodes with two addresses and one, two instances, three writes | `PoolCovers`, `NoLeak`, `QuietMatchesStore` | addresses are neither shared nor lost; a quiet node has its store's records |
| `cert_renewal` | two nodes, one domain and the account, two operations, one fault (a forced release on one node only), leases and certificates of one time unit | `HolderKeepsLock`, `FirstUseIsFirst`, `ServedIsStored` | leases, first registration, by a renewal too, and what is served when certificates expire |
| `gateway_peers` | three nodes, one removed, two of them bootnodes, three writes, one crash or discovery; fair | `NoResurrection`, `RemovedStaysOut`, `RemovalSpreads` | a deletion stays unless the removed node is listed or re-admitted, a removal spreads |

Why the bounds are enough. Every race of the supervisor is between a request, a second request or a wait
task, and one handle and its replacement: two requests, two handles and two children show each of them, and
the theorems of section 5 cover every number. In `VmLifecycle` the launch lock admits one holder; a race
needs the holder, one operation that waits for the lock or does not take it, the removal task (which is apart
from the threads) and the daemons, hence two threads. Two NICs are the least with a partly prepared set, two
late requests the least with a late Prepare behind another request. One crash reaches every state of the
disk; a second would only repeat it from a state the first run of the start-up scan already covers. The bound
of two threads matters for reloads: without reloads the theorems of section 5 cover every number of threads,
NICs and crashes, with them `vm_crash` speaks of a reload beside one other operation, and `VmMarkerLost.cfg`
(section 6) shows that two reloads around a creation can lose the marker. Three VMs
on two CIDs exhaust the pool. Four restarts would need a larger clock and repeat the third, whose delay is
already capped. `vm_liveness` runs with no late requests (`MaxQueue = 0`): an endless series of starts
and stops that times out whenever the timer calls would otherwise starve it, which no fairness assumption of
the code excludes. In `supervisor_vmm` one id is enough: ids share nothing but the freeze and the
rounds of a shutdown, and the two-id instance without signals was checked as well.

In `GatewayRouting` a race needs one instance whose entry changes and one beside it in the selection; four
changes allow a boot, two registrations and a write by another node around one reload and one poll. Two
failures in a row are the least with a count. A gated CVM keeps its declaration over one reboot and
withdraws it at the next. In `GatewayRegistry` the first node's two addresses and two
instances exhaust a share and give an address twice; three writes are a registration on each node and a
removal or a move (with five writes and the clock stopped, 2.0 million states, the invariants hold too, and the
theorems cover every number). One domain is enough for leases, which are per domain; two operations are one holder and
one that takes over; the end of a lease and of a certificate is at the clock's bound, so that both sides of it
occur, with reloads, restarts, imports and orders on either side. A fault is a failure of the CA or of an
attestation, a crash, or a forced release; the last voids the claim about its lease, so it runs in the scenarios
of one node, where it wakes the watcher at any point of a renewal or an import (with it, the renewals of two
nodes have 3.2 million states, and the invariants hold too; the theorems cover any scenario). In
`GatewayPeers` three nodes are the removed one, one that makes the removal and one that lags; three writes
are the deletion, the marker and the address tombstone, or a re-admission. The bootnodes are one member, so that
the other takes a list from it, and the removed node itself, which always lists its own address; one crash or one
discovery puts the list at any point of the removal, and the theorems cover every number of both.

Fairness. `FairSpec` of the supervisor: the runtime polls a wait task that is ready, and a SIGKILL is
delivered; nothing makes a child exit by itself. `Progress` in `VmLifecycle`: tokio runs every task, a
SIGKILLed QEMU exits, netd works through its requests, a VMM that died is started again. `RemovalProgress`
and `TimerProgress` add strong fairness for taking the lock (tokio's mutex is first come, first served), for
the timer's firing and for a release that is repeated for ever succeeding some time: netd being down for
good is outside both properties. Nobody is assumed to send requests. `FairSpec` of `WgApply`: the worker is a thread
of its own, a caller that has left the lock runs its last statement; faults are bounded. `Fairness` in
`GatewayPeers`: sync rounds between members (those that one of two begins are enough) and watchers keep running, and an operator's call that has begun
goes on unless the node crashes, and so does a list that has arrived; nothing is assumed of the removed node or
of collection.

Deadlock is checked everywhere except in `supervisor_vmm`, where the supervisor exits.

## 5. Proofs

All proofs are for every value of the constants that satisfies the named assumptions of the modules, and the
bounds on counters, clocks and faults are constants too. Each rests on an inductive invariant that was
checked with TLC on the runs' instances first.

`SupervisorProofs`, for any sets of ids, requests, handles and children:

* `TypeCorrect`, `NoLostChildHolds`, `RunningHasTaskHolds`: `TypeOK`, `NoLostChild`, `RunningHasTask` always hold.
* `ImplementsTableHolds`: without start among the calls, `Spec => ImplementsTable`.
* `StoppedMeansDeadHolds`, `ShutdownQuietHolds`: the same for these two; `ShutdownInvHolds` is what a shutdown
  establishes for every client.

The inductive invariant is `IInv` in `Supervisor`. `NoLostChild` alone is not inductive: that an erased or
replaced handle is the only one whose sender is dropped needs every handle to have one owner, the table or
one deploy (`OneOwner`), that a request past its first section names an entry which its map reference pins
(`CallsWellFormed`), and that a finishing task has a status other than Running to record
(`ChildrenWellFormed`, for `RunningHasTask`). The refinement needs `Solo` besides: a handle has the child it
was deployed with and no other, and reports Running until that child is reaped, which is what start breaks
(`SupervisorDoubleStart.cfg`); every step is then a step of `ProcessTable` or leaves its state alone.
`ShutdownInv` says that an id a shutdown has scanned without finding it Running stays so, or came late.
Assumptions: `None` is not an id, handle or child, the calls are the known ones, and there is at least one
shutdown round. The hypothesis that start is not called is how the VMM uses the supervisor.

`VmLifecycleProofs`, for any number of threads, NICs, late requests and crashes:

* `InvariantHolds`, `LiveKeepsNicsHolds`, `OneConfigWriterHolds`: with every operation, reloads included.
* `NetdMarkedHolds`, `NoDeleteUnderQemuHolds`, `StopSticksHolds` (an action property): for requests that are
  not reloads; crashes and the start-up scan are included.
* `MemoryMatchesDiskHolds`: without reloads and crashes.

`IInv` is the discipline of the launch lock: an operation is at a place that needs the lock exactly if it
holds it (`LockOK`; the lock of a cancelled request travels with the blocking configuration it left behind,
and a removal claim lasts as long as the removal task), while somebody works on interfaces no QEMU is up and
what was prepared is held with no request in flight (`HolderOK`, `RemovalOK`). `SerialInv` adds what
operations know of each other without reloads: who may be beside whom (`ThreadOK`), that the flag, the marker
and the prepared interfaces follow the launch (`LaunchOK`), and what is on disk (`DiskOK`). The hypotheses
are needed: `StopSticks` and `NetdMarked` fail with reloads (`VmReloadStop.cfg`, `VmMarkerLost.cfg`), and a
crash between the deletion of the marker and that of the directory leaves a directory nobody owns
(`VmHalfDeleted.cfg`). Assumptions: threads are not the names of the removal task and of travelling locks.

`VmmProofs`, about `AutoRestart`, for every configuration with `0 < Initial <= MaxBackoff`:

* `InvariantHolds`, `BudgetKeptHolds`, `RestartsSpacedHolds` (an action property).
* `BackoffDoublesHolds`, for any number of retries: if `MaxBackoff` fits the arithmetic (in the code both are
  64 bits wide) and, unless there are fewer retries than bits, `Initial` shifted by `Bits - 1` reaches
  `MaxBackoff` (in the code: a `max_backoff` of at most `2^63` seconds).

`IInv` of `AutoRestart` ties the policy to the history: `attempts` is the number of restarts since the last
reset, exhaustion is reported only once, and after a restart `next_retry` is the instant of that restart plus
`Delay(count)`. `Delay` enters the first three only as an integer, so spacing is by whatever delay the code
computes. The last needs that shifting further never yields less (`Pow2Grows`): where the cap on the shift
bites, the delay has reached `MaxBackoff` already. This is an induction over numbers; `SetInduction` states
induction for sets, which the provers can instantiate, and rests on the well-foundedness of the numbers. The
same lemma shows that the recursive definition of `Pow2` defines a function (`Pow2Def`). The second hypothesis
is needed: with a `max_backoff` beyond the longest shift the delay stays at that shift.

`VmmProofs`, about `VmCids`, for any number of VMs, any pool and any number of restarts, if removals do not run
during a reload and nothing is created while it compares directories with entries:

* `CidsInvariantHolds`, `CidsUniqueHolds`, `CidsReservedHolds`.
* `ProcHasCidHolds`: the process of a loaded VM has the CID of its entry.

The CIDs of the entries are not enough for an induction: a restart forgets the entries, a reload that could not
read a manifest leaves a VM without one, and both give a VM the CID of its process when it is loaded. `CidsIInv`
therefore speaks of the CID a VM claims, the entry's or, while it can still be loaded, its process's
(`Claim`): no two VMs claim one CID (`ClaimsApart`), and what is claimed is occupied (`ClaimsReserved`). For a
reload it says besides that the list it works with is right about whom it can load (`ListIsCurrent`), that
removals under way are of VMs it does not load (`RemovalsApart`, which needs `DirsListed`), that what it may
release at its end is claimed by nobody it could load (`HadApart`), and that a VM has no directory left when a
removal frees its CID (`MarkedGo`). A process that a failed `supervisor.remove` left behind claims nothing: its
VM has no directory. `LowestFree` shows that what `allocate` finds is free and in range. The hypothesis is
needed (`CidsReuse.cfg`). Assumptions: `NoId` is no CID and no VM, the bounds are numbers.

`WgApplyProofs`, for any peers, callers and number of faults: `InvariantHolds`, `InterfaceFollowsHolds`,
`ExitKeepsFileHolds`. `InterfaceFollows` speaks of a worker at rest; the invariant needed (`WakeupLeft`) says
for every point of the worker and every peer that what it is about to apply is the peer's entry in the present
table, a wake-up is left, or a refused registration changed the entry last, and
`ApplyWhole` relates what was rendered, the file and the interface while an apply is under way.

`GatewayRegistryProofs`, for any nodes, instances, shares of the addresses and number of writes:

* `InvariantHolds`, `NoLeakHolds`, `PoolCoversHolds`, `QuietMatchesStoreHolds`.

`NoLeak` is about every node by itself (`OneNode`): each action comes down to one table and one pool
(`Covered`), and the step that needs an argument is a reload, which drops entries and takes over records while
the pool follows (`ReloadCovered`). `PoolCovers` needs the store as well (`AddressOK`): as long as nobody acts on
what was overtaken, the versions of a record form a chain (`Chained`); from the version its owner has seen on,
a record that names an address of the owner's share has named it throughout (`LastGiver`), and the owner's
table has it (`AllGiven`); and no two entries of a node share an own address (`AllApart`). So neither a merge
nor a reload can bring an own address that the pool lacks. The attempt at this proof found that the exception
was too narrow: five writes lead to a port policy that brings back a deleted record (`Revived`). For
`QuietMatchesStore` a node without a change to handle is about to apply what its store accepts, or has done so
(`HandledAt`). Assumptions: the shares are disjoint sets of numbers, 0 is a node, `None` is no entry or table.

`GatewayRoutingProofs`, for any instances, boots, thresholds and changes: `InvariantHolds`,
`CacheFollowsTableHolds`, `VerdictOfThisBootHolds`, `DeclarationAgreesHolds`, `QuietMatchesStoreHolds`. The four
properties are inductive together with: an entry declares what its boot asked for and only such boots are
polled (`DeclaredByBoot`), and a reload with nothing new to handle has read what the store holds
(`ReadIsCurrent`). The arguments that are needed are about the inputs of the selection (`RoutingInputs`):
whatever changes them drops the cached selection. Assumption: `None` is no entry and no read.

`CertRenewalProofs`, for any nodes, domains, tasks, scenarios, lease times and failures:

* `InvariantHolds`, `HolderKeepsLockHolds`, `FirstUseIsFirstHolds`.
* `ServedIsStoredHolds`: if only the watcher reloads.

`LeaseOK`: of a lease that no node wrote blindly, versions with one stamp are one version, and an unexpired
lease is in its holder's replica, with no later version anywhere and no second holder. `AccountOK`: one task at
a time is between taking the account's lease and giving it back, and until it publishes no replica has a later
account. `Watched`: a node whose watcher has nothing to do serves what it stores and has not expired, or a wake-up
is certain to come, from a task that is about to write or from a lease still in the store; what was refused stays
refused, because time only passes (`StillRefused`). The hypothesis of the last is needed (`CertReload.cfg`).
Assumptions: scenarios name existing tasks, `None` is no lock or certificate.

`GatewayPeersProofs`, for any nodes, writes and crashes: `InvariantHolds`, `NoResurrectionHolds`,
`RemovedStaysOutHolds`, for any set of bootnodes. `Marked`: before a re-admission a marker is never deleted, and whoever dropped the removed
node or knows of the end of its address has the marker. `Deleted`: the deleted record has one old version, so its
tombstone beats it; whoever has not seen the deletion has the record; a node that has collected the tombstone
has only peers that have seen it; until somebody with the marker takes the removed node from a list, a list adds
nobody who is not a peer already (`SamePeers`). `Dropped`: a member at rest that has the marker has dropped the
node, whatever lists it has taken.

Only model-checked: all liveness properties (fairness is out of the prover's reach); `NetdMarked` with one reload
beside one other operation.

## 6. Where the code and its own statements disagree

Modelling met these disagreements. Each has a configuration that is kept beside the passing ones for whoever
changes that code (`tlc -config <file> <module>` ends with the violation); `PROJECT.json` names them with the
hazards they belong to.

| configuration | module | property | what happens |
|---|---|---|---|
| `SupervisorRemoveRace.cfg` | `MCSupervisor` | `RemovedNotRunning` | a deploy that finishes between remove's checks and its removal is dropped while running (`supervisor.rs:95`) |
| `SupervisorCleanExit.cfg` | `MCSupervisor` | `CleanExitIsStop` | an accepted stop is recorded as an exit when `select!` takes the other ready branch (`process.rs:347`) |
| `VmReloadCreate.cfg` | `MCVmLifecycle` | `OnlyGoneDropped` | a VM created between a reload's listing of directories and its look at the entries is stopped and forgotten (`app.rs:1314`) |
| `VmMarkerLost.cfg` | `MCVmLifecycle` | `NetdMarked` | a reload launches a VM that is being created, an older reload forgets it while netd is unreachable, and the creation, whose own load then fails, deletes the directory with the marker of what netd holds (`main_service.rs:1003`) |
| `VmGhost.cfg` | `MCVmLifecycle` | `NoGhost` | a reload adds an entry for a VM that was removed since it read the manifest (`app.rs:1447`) |
| `VmGpuReset.cfg` | `MCVmLifecycle` | `ResetBeforeQemu` | a cancelled start leaves its GPU reset running without the lock, and the next start launches QEMU beside it (`app.rs:575`) |
| `VmHalfDeleted.cfg` | `MCVmLifecycle` | `DeletionLeavesMarker` | a crash between the last two steps of `remove_all` leaves a directory without the marker (`workdir.rs:271`) |
| `SupervisorDoubleStart.cfg` | `MCSupervisor` | `OneLiveChild` | two starts pass the running check and both spawn (`process.rs:186`); `supervisor/tests/test-cli.sh` says a start of a running process fails |
| `VmReloadStop.cfg` | `MCVmLifecycle` | `StopSticks` | a reload that read `started` before a stop starts the VM after it (`app.rs:1457`); `app.rs:519` says a restart decided before a stop must not outlive it |
| `VmStuckRemoval.cfg` | `MCVmLifecycle` | `RemovalFinishes` | a removal whose stop failed waits for the exit of a VM that nobody told to stop, and holds the launch lock meanwhile (`app.rs:1072`) |
| `CidsReuse.cfg` | `VmCids` | `CidsUnique` | a reload overlapping a removal gives a VM the CID its listing saw, which has been handed to a new VM since (`app.rs:1421`) |
| `AutoRestartStale.cfg` | `AutoRestart` | `FirstRetryDelayed` | a retry scheduled while an explicit start was launching shortens the first backoff of a later outage (`app.rs:3908`) |
| `GatewayPool.cfg` | `MCGatewayRegistry` | `QuietPoolCovers` | a reload applies what it read before a registration and takes the new address out of the pool; the next reload puts the entry right, yet the address may have been given to another instance meanwhile (`gateway/src/main_service.rs:1681`) |
| `GatewayLoser.cfg` | `MCGatewayRegistry` | `LoserNotRouted` | an entry whose record lost a conflict within the grace period stays routable after it, because nothing looks again (`main_service.rs:1714`) |
| `GatewayCross.cfg` | `GatewayPeers` | `MarkedNotPeer` | SetNodeUrl on one member crosses RemoveNode on another: the marker is pruned for before the peer is added (`admin_service.rs:214`); the same happens to the discovery task's `register_peer_url` (`kv/mod.rs:1803`), and when a collected `clear_peer_removed` lets the victim bring the old marker back |
| `GatewayRejoin.cfg` | `GatewayPeers` | `RestartRejoins` | a removed node that restarts is refused; the comment at `main_service.rs:253` says that it rejoins |
| `GatewayBootnode.cfg` | `GatewayPeers` | `OperatorReadmits` | a member restarts, takes the removed node from the list of a bootnode that has not heard of the removal (here that node itself), and exchanges with it before it prunes: the record it had deleted and forgotten comes back (`main_service.rs:570`); `web_routes/wavekv_sync.rs` says that re-admission is an explicit operator decision |
| `WgRefused.cfg` | `WgApply` | `NoPeerLeftBehind` | a registration with a new key finds no address left after the table has the key, and returns before it asks for an apply: the interface keeps the old key until another change (`main_service.rs:2082`) |
| `CertGap.cfg` with `OrderedIfDue` as its invariant | `MCCertRenewal` | `OrderedIfDue` | two tasks decide on the same old certificate and renew it one after the other (`distributed_certbot.rs:614`) |
| `CertGap.cfg` | `MCCertRenewal` | `NodeExclusive` | a lock taken elsewhere in a replication gap overwrites the holder's and expires or is released first: two tasks of one node work under unexpired leases; `kv/mod.rs` promises mutual exclusion within a node |
| `CertReload.cfg` | `MCCertRenewal` | `ServedIsStored` | an admin's ReloadCert that loaded before a change installs older certificates after the watcher's reload (`main_service.rs:744`, `cert_store.rs:150`) |
| `CertStart.cfg` | `MCCertRenewal` | `ServedAfterStart` | a certificate merged between the load at the start and the watcher's subscription is not served until the next change (`main_service.rs:735`); the instance watcher subscribes first "to avoid race condition" (`main_service.rs:1491`) |

## 7. What is not modelled

Of the gateway: errors of the local store; conflicting keys and undecodable records in `accept_instances`;
overrides of port policies; nodes that are Down refusing registrations; a sync response that is under way
while its receiver collects; divergence repair, the write-ahead log and its sync window; the watcher of
removal markers, which subscribes a few statements after the first prune; nodes that join and the loss of a data
directory; clocks that are apart; deletion of domains; an import
whose save fails; the data path of the proxy.

Small components with some state of their own, next in the plan: KMS onboarding, the cached cell, the cache
of the attestation proxy. Of VM life: a deploy whose request was cancelled and which the supervisor runs
later. A forced shutdown of the supervisor that gives up after its last round exits with children alive, as it
says; no property speaks of them.

Left out for good: QEMU command lines, measurements, images and log rotation (sequential transformations and
I/O); the construction of interfaces inside netd (commands of other programs); guest set-up (a boot script
that stops at the first error); parsing and verification of quotes and event logs (cryptography); the
authorisation contracts (run by an external machine); command-line tools, SDKs, simulators, OS images and
vendored code. They are most of the repository's lines. `PROJECT.json` lists every component with its reason,
and the hazards that no property covers.
