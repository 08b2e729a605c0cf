------------------------------ MODULE Supervisor ------------------------------
(***************************************************************************)
(* The process supervisor (dstack/supervisor): a table of process handles  *)
(* shared by concurrent API requests, the child each handle owns, and one  *)
(* wait task per child.                                                    *)
(*                                                                         *)
(* A handle (`Process`) is an Arc around a mutex-protected runtime state.  *)
(* It owns the sending half of its child's kill channel: using it          *)
(* (`stop`) or dropping it (the handle is freed or replaced) both make the *)
(* wait task kill the child.  The wait task owns the child and only a weak *)
(* reference to the handle.                                                *)
(*                                                                         *)
(* Requests run on a multi-threaded runtime.  One action is one critical   *)
(* section: a request with several (deploy, start, remove, clear,          *)
(* shutdown) is one action per section, with its position in `call`.       *)
(* `info` and `list` change nothing and are not actions.                   *)
(***************************************************************************)
EXTENDS Naturals, FiniteSets

CONSTANTS Ids,        \* process ids
          Callers,    \* concurrent requests (and the signal handler)
          Handles,    \* `Process` objects that can exist at once
          Children,   \* OS processes that can exist at once
          Calls,      \* the API calls the clients make
          MaxRounds,  \* scans made by one shutdown (10 in the code)
          None        \* absent handle, child or id

AllCalls == {"deploy", "start", "stop", "remove", "clear", "shutdown", "signal"}

ASSUME NoneAssumption == /\ None \notin Handles
                         /\ None \notin Children
                         /\ None \notin Ids
ASSUME CallsAssumption == Calls \subseteq AllCalls
ASSUME RoundsAssumption == MaxRounds \in Nat \ {0}

VARIABLES freezed,  \* SupervisorState.freezed
          table,    \* SupervisorState.processes
          proc,     \* ProcessStateRT of every handle
          child,    \* every child: OS state, kill channel, wait task
          call,     \* every request in flight
          phase,    \* "serving", "stopping" (rocket was notified) or "exited"
          sdok      \* history: some shutdown has returned Ok

vars == <<freezed, table, proc, child, call, phase, sdok>>

-----------------------------------------------------------------------------
(* ProcessStatus, without the text of an error.  "absent" is a handle that *)
(* does not exist.  Exit codes are 0 or not 0: nothing reads more of them. *)
Status == {"absent", "Running", "Stopped", "Exited0", "ExitedN", "Error"}

(* kill_tx is the child whose kill channel the handle can still close.     *)
(* `late` is history: the handle entered the table, or was last started,   *)
(* after the supervisor was frozen.                                        *)
ProcState == [status: Status, started: BOOLEAN,
              kill_tx: Children \cup {None}, late: BOOLEAN]

Absent == [status |-> "absent", started |-> FALSE, kill_tx |-> None, late |-> FALSE]

(* task "none": no such child; "wait": in select!; "kill": the kill branch *)
(* was taken; "finish": a status is known and not recorded yet.            *)
ChildState == [of: Handles \cup {None},
               os: {"none", "live", "exit0", "exitN", "killed"},
               chan: {"open", "sent", "dropped"},
               task: {"none", "wait", "kill", "finish"},
               res: Status]

NoChild == [of |-> None, os |-> "none", chan |-> "dropped", task |-> "none",
            res |-> "absent"]

Spawned(h) == [of |-> h, os |-> "live", chan |-> "open", task |-> "wait",
               res |-> "absent"]

Idle == [pc |-> "idle", id |-> None, h |-> None, todo |-> {}, running |-> FALSE,
         round |-> 0, force |-> FALSE]

CallState == [pc: {"idle", "deploy_check", "deploy_spawn", "deploy_insert",
                   "start_spawn", "remove_running", "remove_erase", "clear",
                   "sd_scan", "sd_stop"},
              id: Ids \cup {None}, h: Handles \cup {None}, todo: SUBSET Ids,
              running: BOOLEAN, round: 0..MaxRounds, force: BOOLEAN]

TypeOK == /\ freezed \in BOOLEAN
          /\ table \in [Ids -> Handles \cup {None}]
          /\ proc \in [Handles -> ProcState]
          /\ child \in [Children -> ChildState]
          /\ call \in [Callers -> CallState]
          /\ phase \in {"serving", "stopping", "exited"}
          /\ sdok \in BOOLEAN

Init == /\ freezed = FALSE
        /\ table = [i \in Ids |-> None]
        /\ proc = [h \in Handles |-> Absent]
        /\ child = [c \in Children |-> NoChild]
        /\ call = [k \in Callers |-> Idle]
        /\ phase = "serving"
        /\ sdok = FALSE

-----------------------------------------------------------------------------
(* A handle or a child that nothing refers to any more can be used again.  *)
FreshHandle(h) == proc[h] = Absent /\ \A c \in Children : child[c].of # h
FreshChild(c) == child[c] = NoChild

is_running(i) == table[i] # None /\ proc[table[i]].status = "Running"

(* start, remove and shutdown keep a DashMap reference, which is a read    *)
(* lock on the shard, between their sections: the table cannot be written  *)
(* at that id meanwhile.                                                   *)
Referenced(i) ==
    \E k \in Callers : call[k].id = i
                       /\ call[k].pc \in {"start_spawn", "remove_running", "sd_stop"}

(* Dropping a handle drops its kill_tx, which resolves kill_rx.            *)
DropSender(ch, c) == IF c = None THEN ch ELSE [ch EXCEPT ![c].chan = "dropped"]

ProcWithout(p, h) == IF h = None THEN p ELSE [p EXCEPT ![h] = Absent]

(* Mutant: the handle is leaked, its sender stays open.                    *)
ChildWithoutLeak(ch, h) == ch

ChildWithout(ch, h) == IF h = None THEN ch ELSE DropSender(ch, proc[h].kill_tx)

(* Process::start up to the spawned wait task, on handle h with child c.   *)
Started(c, late) == [status |-> "Running", started |-> TRUE, kill_tx |-> c, late |-> late]

CanCall(op, k) == op \in Calls /\ phase = "serving" /\ call[k] = Idle

Return(k) == call' = [call EXCEPT ![k] = Idle]

Goto(k, at, i) == call' = [call EXCEPT ![k] = [Idle EXCEPT !.pc = at, !.id = i]]

-----------------------------------------------------------------------------
(* Supervisor::deploy.  A refusal by the freeze check changes nothing.     *)
DeployFreeze(k, i) ==
    /\ CanCall("deploy", k)
    /\ ~freezed
    /\ Goto(k, "deploy_check", i)
    /\ UNCHANGED <<freezed, table, proc, child, phase, sdok>>

DeployCheck(k) ==
    /\ call[k].pc = "deploy_check"
    /\ IF is_running(call[k].id) THEN Return(k) ELSE Goto(k, "deploy_spawn", call[k].id)
    /\ UNCHANGED <<freezed, table, proc, child, phase, sdok>>

(* Process::new and Process::start on a handle only this request knows.    *)
DeploySpawn(k) ==
    /\ call[k].pc = "deploy_spawn"
    /\ \E h \in Handles, c \in Children :
         /\ FreshHandle(h) /\ FreshChild(c)
         /\ proc' = [proc EXCEPT ![h] = Started(c, FALSE)]
         /\ child' = [child EXCEPT ![c] = Spawned(h)]
         /\ call' = [call EXCEPT ![k].pc = "deploy_insert", ![k].h = h]
    /\ UNCHANGED <<freezed, table, phase, sdok>>

(* command.spawn() fails in deploy or in start: the request returns.       *)
SpawnFails(k) ==
    /\ call[k].pc \in {"deploy_spawn", "start_spawn"}
    /\ Return(k)
    /\ UNCHANGED <<freezed, table, proc, child, phase, sdok>>

(* processes.insert: the handle it replaces is dropped.                    *)
DeployInsert(k) ==
    LET i == call[k].id
        old == table[i]
    IN /\ call[k].pc = "deploy_insert"
       /\ ~Referenced(i)
       /\ table' = [table EXCEPT ![i] = call[k].h]
       /\ proc' = [ProcWithout(proc, old) EXCEPT ![call[k].h].late = freezed]
       /\ child' = ChildWithout(child, old)
       /\ Return(k)
       /\ UNCHANGED <<freezed, phase, sdok>>

(* Supervisor::start.  It does not look at freezed.                        *)
StartCheck(k, i) ==
    /\ CanCall("start", k)
    /\ table[i] # None
    /\ ~is_running(i)
    /\ Goto(k, "start_spawn", i)
    /\ UNCHANGED <<freezed, table, proc, child, phase, sdok>>

(* The lock was released between the check and this section, so another    *)
(* start may have come first: its kill_tx is overwritten, that is dropped. *)
StartSpawn(k) ==
    LET h == table[call[k].id]
    IN /\ call[k].pc = "start_spawn"
       /\ \E c \in Children :
            /\ FreshChild(c)
            /\ proc' = [proc EXCEPT ![h] = Started(c, freezed)]
            /\ child' = [DropSender(child, proc[h].kill_tx) EXCEPT ![c] = Spawned(h)]
       /\ Return(k)
       /\ UNCHANGED <<freezed, table, phase, sdok>>

(* Process::stop, one critical section.  The send fails, with no further   *)
(* effect, when the wait task has already left its select.                 *)
Normalized(s) == IF s = "Exited0" THEN "Stopped" ELSE s

ProcStopped(p, h) == [p EXCEPT ![h].started = FALSE, ![h].kill_tx = None,
                               ![h].status = Normalized(p[h].status)]

ChildStopped(h) ==
    LET c == proc[h].kill_tx
    IN IF c # None /\ proc[h].status = "Running" /\ child[c].task = "wait"
       THEN [child EXCEPT ![c].chan = "sent"]
       ELSE DropSender(child, c)

StopProcess(h) == proc' = ProcStopped(proc, h) /\ child' = ChildStopped(h)

Stop(i) ==
    /\ "stop" \in Calls /\ phase = "serving"
    /\ table[i] # None
    /\ StopProcess(table[i])
    /\ UNCHANGED <<freezed, table, call, phase, sdok>>

(* Supervisor::remove: two locks under one map reference, then, with the   *)
(* reference dropped, the removal itself.                                  *)
RemoveStarted(k, i) ==
    /\ CanCall("remove", k)
    /\ table[i] # None
    /\ ~proc[table[i]].started
    /\ Goto(k, "remove_running", i)
    /\ UNCHANGED <<freezed, table, proc, child, phase, sdok>>

RemoveRunning(k) ==
    /\ call[k].pc = "remove_running"
    /\ IF is_running(call[k].id) THEN Return(k) ELSE Goto(k, "remove_erase", call[k].id)
    /\ UNCHANGED <<freezed, table, proc, child, phase, sdok>>

Erase(i) ==
    /\ table' = [table EXCEPT ![i] = None]
    /\ proc' = ProcWithout(proc, table[i])
    /\ child' = ChildWithout(child, table[i])

RemoveErase(k) ==
    /\ call[k].pc = "remove_erase"
    /\ ~Referenced(call[k].id)
    /\ Erase(call[k].id)
    /\ Return(k)
    /\ UNCHANGED <<freezed, phase, sdok>>

(* Supervisor::clear: retain visits the ids, each under its shard's write  *)
(* lock and the process's lock.                                            *)
ClearBegin(k) ==
    /\ CanCall("clear", k)
    /\ call' = [call EXCEPT ![k] = [Idle EXCEPT !.pc = "clear", !.todo = Ids]]
    /\ UNCHANGED <<freezed, table, proc, child, phase, sdok>>

ClearKeeps(i) == table[i] = None \/ proc[table[i]].started \/ is_running(i)

ClearVisit(k, i) ==
    /\ call[k].pc = "clear"
    /\ i \in call[k].todo
    /\ ~Referenced(i)
    /\ IF ClearKeeps(i) THEN UNCHANGED <<table, proc, child>> ELSE Erase(i)
    /\ IF call[k].todo = {i} THEN Return(k)
       ELSE call' = [call EXCEPT ![k].todo = @ \ {i}]
    /\ UNCHANGED <<freezed, phase, sdok>>

-----------------------------------------------------------------------------
(* Supervisor::shutdown, called by the HTTP handler or, with force, by the *)
(* signal handler.  A round scans the table; it sleeps between rounds.     *)
ShutdownBegin(k, force) ==
    /\ (IF force THEN "signal" ELSE "shutdown") \in Calls
    /\ phase = "serving" \/ (force /\ phase = "stopping")
    /\ call[k] = Idle
    /\ \A q \in Callers : force => ~call[q].force
    /\ freezed' = TRUE
    /\ call' = [call EXCEPT ![k] = [Idle EXCEPT !.pc = "sd_scan", !.todo = Ids,
                                                !.round = 1, !.force = force]]
    /\ UNCHANGED <<table, proc, child, phase, sdok>>

(* Mutant: the scan looks at started, so it skips a child that has been    *)
(* told to stop and is not dead yet.                                       *)
ShutdownVisitStarted(k, i) ==
    /\ call[k].pc = "sd_scan"
    /\ i \in call[k].todo
    /\ call' = IF is_running(i) /\ proc[table[i]].started
               THEN [call EXCEPT ![k].todo = @ \ {i}, ![k].pc = "sd_stop",
                                 ![k].id = i, ![k].running = TRUE]
               ELSE [call EXCEPT ![k].todo = @ \ {i}]
    /\ UNCHANGED <<freezed, table, proc, child, phase, sdok>>

ShutdownVisit(k, i) ==
    /\ call[k].pc = "sd_scan"
    /\ i \in call[k].todo
    /\ call' = IF is_running(i)
               THEN [call EXCEPT ![k].todo = @ \ {i}, ![k].pc = "sd_stop",
                                 ![k].id = i, ![k].running = TRUE]
               ELSE [call EXCEPT ![k].todo = @ \ {i}]
    /\ UNCHANGED <<freezed, table, proc, child, phase, sdok>>

ShutdownStop(k) ==
    /\ call[k].pc = "sd_stop"
    /\ StopProcess(table[call[k].id])
    /\ call' = [call EXCEPT ![k].pc = "sd_scan", ![k].id = None]
    /\ UNCHANGED <<freezed, table, phase, sdok>>

ScanDone(k) == call[k].pc = "sd_scan" /\ call[k].todo = {}

(* Mutant: the rounds are not counted.                                     *)
ShutdownNextRoundForever(k) ==
    /\ ScanDone(k)
    /\ call[k].running
    /\ call' = [call EXCEPT ![k].todo = Ids, ![k].running = FALSE, ![k].round = @ + 1]
    /\ UNCHANGED <<freezed, table, proc, child, phase, sdok>>

ShutdownNextRound(k) ==
    /\ ScanDone(k)
    /\ call[k].running
    /\ call[k].round < MaxRounds
    /\ call' = [call EXCEPT ![k].todo = Ids, ![k].running = FALSE, ![k].round = @ + 1]
    /\ UNCHANGED <<freezed, table, proc, child, phase, sdok>>

(* Ok after a scan that found nothing running, Err after the last round.   *)
(* The HTTP handler notifies rocket when it is Ok; the signal handler      *)
(* exits the process either way, without running any destructor.           *)
ShutdownReturn(k) ==
    /\ ScanDone(k)
    /\ call[k].running => call[k].round = MaxRounds
    /\ sdok' = (sdok \/ ~call[k].running)
    /\ phase' = IF call[k].force THEN "exited"
                ELSE IF call[k].running THEN phase ELSE "stopping"
    /\ Return(k)
    /\ UNCHANGED <<freezed, table, proc, child>>

(* Rocket returns once the requests in flight are done; dropping the       *)
(* runtime drops every wait task and, by kill_on_drop, kills its child.    *)
RocketExit ==
    /\ phase = "stopping"
    /\ \A k \in Callers : call[k] = Idle \/ call[k].force
    /\ phase' = "exited"
    /\ child' = [c \in Children |->
                   IF child[c].os = "live" THEN [child[c] EXCEPT !.os = "killed"]
                   ELSE child[c]]
    /\ UNCHANGED <<freezed, table, proc, call, sdok>>

-----------------------------------------------------------------------------
(* The child exits by itself.                                              *)
ChildExits(c) ==
    /\ child[c].os = "live"
    /\ \E code \in {"exit0", "exitN"} : child' = [child EXCEPT ![c].os = code]
    /\ UNCHANGED <<freezed, table, proc, call, phase, sdok>>

(* Mutant: only an explicit send counts as a kill, a dropped sender does   *)
(* not.                                                                    *)
TaskSeesKillSentOnly(c) ==
    /\ phase # "exited"
    /\ child[c].task = "wait" /\ child[c].chan = "sent"
    /\ child' = [child EXCEPT ![c].task = "kill"]
    /\ UNCHANGED <<freezed, table, proc, call, phase, sdok>>

(* wait_on_process: select! takes any branch that is ready.                *)
TaskSeesKill(c) ==
    /\ phase # "exited"
    /\ child[c].task = "wait" /\ child[c].chan # "open"
    /\ child' = [child EXCEPT ![c].task = "kill"]
    /\ UNCHANGED <<freezed, table, proc, call, phase, sdok>>

ExitStatus(os) == IF os = "exit0" THEN "Exited0" ELSE "ExitedN"

TaskSeesExit(c) ==
    /\ phase # "exited"
    /\ child[c].task = "wait" /\ child[c].os # "live"
    /\ child' = [child EXCEPT ![c].task = "finish", ![c].res = ExitStatus(child[c].os)]
    /\ UNCHANGED <<freezed, table, proc, call, phase, sdok>>

(* SIGKILL takes the child down; then process.wait() returns.              *)
KillDelivered(c) ==
    /\ child[c].task = "kill" /\ child[c].os = "live"
    /\ child' = [child EXCEPT ![c].os = "killed"]
    /\ UNCHANGED <<freezed, table, proc, call, phase, sdok>>

(* Mutant: the wait task does not wait for the child it has killed.        *)
TaskReapsEarly(c) ==
    /\ phase # "exited"
    /\ child[c].task = "kill"
    /\ child' = [child EXCEPT ![c].task = "finish", ![c].res = "Stopped"]
    /\ UNCHANGED <<freezed, table, proc, call, phase, sdok>>

TaskReaps(c) ==
    /\ phase # "exited"
    /\ child[c].task = "kill" /\ child[c].os # "live"
    /\ child' = [child EXCEPT ![c].task = "finish", ![c].res = "Stopped"]
    /\ UNCHANGED <<freezed, table, proc, call, phase, sdok>>

(* process.wait() fails; the child is dropped, hence killed.               *)
TaskWaitError(c) ==
    /\ phase # "exited"
    /\ child[c].task \in {"wait", "kill"}
    /\ child' = [child EXCEPT ![c].task = "finish", ![c].res = "Error",
                              ![c].os = IF @ = "live" THEN "killed" ELSE @]
    /\ UNCHANGED <<freezed, table, proc, call, phase, sdok>>

(* Mutant: the status is recorded only by the child the handle still holds *)
(* a sender for, and stop has taken it.                                    *)
RecordedByOwner(c) ==
    LET h == child[c].of
    IN IF proc[h] = Absent \/ proc[h].kill_tx # c THEN proc
       ELSE [proc EXCEPT ![h].status = child[c].res, ![h].kill_tx = None]

(* The status is recorded if the handle still exists.  A kill_tx whose     *)
(* receiver is gone is as good as none: stop tells them apart only while   *)
(* the status is Running, and it is not any more.                          *)
Recorded(c) ==
    LET h == child[c].of
    IN IF proc[h] = Absent THEN proc
       ELSE [proc EXCEPT ![h].status = child[c].res,
                         ![h].kill_tx = IF @ = c THEN None ELSE @]

(* The task ends.  Had it not waited for the child, the child would stay. *)
Reaped(c) == IF child[c].os = "live" THEN [child[c] EXCEPT !.task = "none"] ELSE NoChild

TaskFinish(c) ==
    /\ phase # "exited"
    /\ child[c].task = "finish"
    /\ proc' = Recorded(c)
    /\ child' = [child EXCEPT ![c] = Reaped(c)]
    /\ UNCHANGED <<freezed, table, call, phase, sdok>>

-----------------------------------------------------------------------------
Request(k) ==
    /\ phase # "exited"
    /\ \/ \E i \in Ids : DeployFreeze(k, i) \/ StartCheck(k, i) \/ RemoveStarted(k, i)
       \/ DeployCheck(k) \/ DeploySpawn(k) \/ SpawnFails(k) \/ DeployInsert(k)
       \/ StartSpawn(k)
       \/ RemoveRunning(k) \/ RemoveErase(k)
       \/ ClearBegin(k) \/ \E i \in Ids : ClearVisit(k, i)
       \/ \E force \in BOOLEAN : ShutdownBegin(k, force)
       \/ \E i \in Ids : ShutdownVisit(k, i)
       \/ ShutdownStop(k) \/ ShutdownNextRound(k) \/ ShutdownReturn(k)

Task(c) == TaskSeesKill(c) \/ TaskSeesExit(c) \/ TaskReaps(c) \/ TaskFinish(c)

Next == \/ \E k \in Callers : Request(k)
        \/ \E i \in Ids : Stop(i)
        \/ \E c \in Children : ChildExits(c) \/ KillDelivered(c) \/ Task(c) \/ TaskWaitError(c)
        \/ RocketExit

Spec == Init /\ [][Next]_vars

(* The runtime polls every wait task that is ready, and a SIGKILL sent is  *)
(* delivered.  Nothing makes a child exit by itself, or a wait fail.        *)
Fairness == \A c \in Children : WF_vars(Task(c)) /\ WF_vars(KillDelivered(c))

FairSpec == Spec /\ Fairness

-----------------------------------------------------------------------------
Live(c) == child[c].os = "live"

(* Somebody can still reach the handle: the table, or the deploy that is   *)
(* about to insert it.                                                     *)
Reachable(h) == \/ \E i \in Ids : table[i] = h
                \/ \E k \in Callers : call[k].pc = "deploy_insert" /\ call[k].h = h

(* No request can lose a child.  Whatever requests overlap, a child whose  *)
(* wait task still waits and has not been told to kill is owned: its       *)
(* handle is reachable and holds the sender that stops it.  Otherwise a    *)
(* child would run that no stop, remove, redeploy or shutdown can end.     *)
NoLostChild ==
    phase # "exited" =>
        \A c \in Children :
            child[c].task = "wait" /\ child[c].chan = "open" =>
                Reachable(child[c].of) /\ proc[child[c].of].kill_tx = c

(* A handle that reports Running has a wait task that will replace the     *)
(* status: a process never stays Running for ever because the task that    *)
(* should have recorded its end finished first.                            *)
RunningHasTask ==
    \A h \in Handles : proc[h].status = "Running" =>
        \E c \in Children : child[c].of = h /\ child[c].task # "none"

(* What makes the two inductive.  A request past its first section names   *)
(* an id, its map reference pins the entry, and deploy's new handle exists.*)
CallsWellFormed ==
    \A k \in Callers :
        /\ call[k].pc \notin {"idle", "clear", "sd_scan"} => call[k].id \in Ids
        /\ call[k].pc \in {"start_spawn", "remove_running", "sd_stop"} =>
             table[call[k].id] # None
        /\ call[k].pc = "deploy_insert" =>
             call[k].h \in Handles /\ proc[call[k].h].status # "absent"

(* Every handle has one owner, and a handle in the table exists.           *)
OneOwner ==
    /\ \A i \in Ids : table[i] # None => proc[table[i]].status # "absent"
    /\ \A i, j \in Ids : table[i] # None /\ table[i] = table[j] => i = j
    /\ \A k \in Callers : call[k].pc = "deploy_insert" =>
         /\ \A i \in Ids : table[i] # call[k].h
         /\ \A q \in Callers : call[q].pc = "deploy_insert" /\ call[q].h = call[k].h
                               => q = k

ChildrenWellFormed ==
    \A c \in Children :
        /\ child[c].task # "none" => child[c].of \in Handles
        /\ child[c].task = "finish" => child[c].res \notin {"absent", "Running"}

(* NoLostChild without its exception for a supervisor that has exited.     *)
ChildOwned(c) == /\ child[c].task = "wait"
                 /\ child[c].chan = "open"
                 => Reachable(child[c].of) /\ proc[child[c].of].kill_tx = c

IInv == /\ TypeOK
        /\ CallsWellFormed
        /\ OneOwner
        /\ ChildrenWellFormed
        /\ \A c \in Children : ChildOwned(c)
        /\ RunningHasTask

(* What the VMM relies on when it frees a VM's directory and interfaces    *)
(* after info() stops reporting Running: the child is dead.  It holds for  *)
(* clients that only deploy, and not for start (see OneLiveChild).         *)
StoppedMeansDead ==
    \A i \in Ids : table[i] # None /\ ~is_running(i) =>
        \A c \in Children : child[c].of = table[i] => ~Live(c)

(* A shutdown that returned Ok left alive only what overtook the freeze:   *)
(* children of a deploy that had passed the freeze check and entered the   *)
(* table later (the "Fixme: race condition here" of shutdown), and         *)
(* children whose handle is already dropped, which are being killed.       *)
ShutdownQuiet ==
    sdok => \A i \in Ids : table[i] # None =>
        \/ proc[table[i]].late
        \/ \A c \in Children : child[c].of = table[i] => ~Live(c)

(* A child that was told to stop, or whose handle was dropped, is          *)
(* eventually dead and reaped (or the supervisor has exited).              *)
SignalledDies ==
    \A c \in Children :
        child[c].task = "wait" /\ child[c].chan # "open" ~>
            child[c].task = "none" \/ phase = "exited"

(* A stopped process is eventually reported as not running, unless it is   *)
(* started again: no interleaving of starts and stops with the end of a    *)
(* child leaves started = FALSE, Running for ever.                         *)
StopTakesEffect ==
    \A h \in Handles :
        proc[h].status = "Running" /\ ~proc[h].started ~>
            proc[h].status # "Running" \/ proc[h].started \/ phase = "exited"

-----------------------------------------------------------------------------
(* tests/test-cli.sh: "Can not be removed when running".                   *)
RemovedNotRunning ==
    [][\A k \in Callers : RemoveErase(k) => ~is_running(call[k].id)]_vars

(* tests/test-cli.sh: start "should fail as it's already running", so a    *)
(* handle never has two live children.                                     *)
OneLiveChild ==
    \A c, d \in Children :
        Live(c) /\ Live(d) /\ child[c].of = child[d].of => c = d

(* process.rs, normalize_clean_exit: a clean exit just before an explicit  *)
(* stop is reported "as the intended stop".                                *)
CleanExitIsStop ==
    \A c \in Children : child[c].chan = "sent" => child[c].res # "Exited0"
=============================================================================
