------------------------------ MODULE AutoRestart ------------------------------
(***************************************************************************)
(* The automatic restart policy of one VM (AutoRestartState in the VMM):   *)
(* a timer samples whether the VM runs and, for a VM that should be up and *)
(* is not, restarts it with exponential backoff and a limited budget.      *)
(*                                                                         *)
(* The timer's task lists the supervisor's processes, decides on what it   *)
(* listed, and runs the restart it decided on, so it does not sample while *)
(* that restart waits for the launch lock or launches the VM.  An explicit *)
(* start or stop resets the policy before it waits for the launch lock.    *)
(***************************************************************************)
EXTENDS Integers

CONSTANTS MaxRetries, Initial, MaxBackoff, ResetWindow,  \* AutoRestartConfig
          Bits,      \* width of the backoff arithmetic (64 in the code)
          MaxTime,   \* last instant
          None       \* no instant

ASSUME ConfigAssumption == /\ MaxRetries \in Nat /\ ResetWindow \in Nat
                           /\ Initial \in Nat \ {0} /\ MaxBackoff \in Nat
                           /\ Initial <= MaxBackoff
ASSUME BoundsAssumption == Bits \in Nat \ {0} /\ MaxTime \in Nat /\ None \notin Int

VARIABLES now,        \* the current second
          ar,         \* AutoRestartState
          running,    \* the supervisor reports the VM running
          started,    \* the VM should be up (vm-state.json)
          removing,   \* the VM is being removed
          req,        \* the explicit request in progress
          listed,     \* what the timer's listing said, None between passes
          auto,       \* an automatic restart is in progress
          count,      \* history: restarts decided since the last reset
          last,       \* history: when the last of them was decided
          reports,    \* history: exhaustions reported since the last reset
          outage      \* history: first sample of the present outage

history == <<count, last, reports>>
vm == <<running, started, removing>>
vars == <<now, ar, vm, req, listed, auto, history, outage>>

Default == [attempts |-> 0, next_retry |-> None, healthy_since |-> None,
            exhausted_reported |-> FALSE]

TypeOK == /\ now \in Nat
          /\ ar \in [attempts: Nat, next_retry: Int \cup {None},
                     healthy_since: Nat \cup {None}, exhausted_reported: BOOLEAN]
          /\ running \in BOOLEAN /\ started \in BOOLEAN
          /\ removing \in BOOLEAN /\ auto \in BOOLEAN
          /\ req \in {"none", "start", "stop", "launching"}
          /\ listed \in BOOLEAN \cup {None}
          /\ count \in Nat /\ reports \in Nat
          /\ last \in Nat \cup {None} /\ outage \in Nat \cup {None}

Init == /\ now = 0 /\ ar = Default
        /\ running \in BOOLEAN /\ started \in BOOLEAN /\ removing = FALSE
        /\ req = "none" /\ listed = None /\ auto = FALSE
        /\ count = 0 /\ last = None /\ reports = 0 /\ outage = None

-----------------------------------------------------------------------------
Least(a, b) == IF a <= b THEN a ELSE b

(* A one shifted left by n, unbounded.                                     *)
Pow2[n \in Nat] == IF n = 0 THEN 1 ELSE 2 * Pow2[n - 1]

Saturated(x) == Least(x, Pow2[Bits] - 1)

(* The delay after the attempts-th restart.                                *)
(* Mutant: the shift wraps instead of being capped.                        *)
DelayWraps(attempts) == Least(Saturated(Initial * Pow2[attempts % Bits]), MaxBackoff)

Delay(attempts) == Least(Saturated(Initial * Pow2[Least(attempts, Bits - 1)]), MaxBackoff)

(* reset.                                                                  *)
ResetPolicy == ar' = Default /\ count' = 0 /\ last' = None /\ reports' = 0

(* observe_running.                                                        *)
ObserveRunning ==
    LET since == IF ar.healthy_since = None THEN now ELSE ar.healthy_since IN
    /\ outage' = None
    /\ IF ar.attempts > 0 /\ now - since >= ResetWindow
       THEN ResetPolicy
       ELSE ar' = [ar EXCEPT !.healthy_since = since] /\ UNCHANGED <<count, last, reports>>
    /\ UNCHANGED auto

(* observe_exited, one action per decision.                                *)
(* Mutant: one attempt more than the budget.                               *)
ExhaustedOff == ar.attempts > MaxRetries

Exhausted == ar.attempts >= MaxRetries

ReportExhausted ==
    /\ Exhausted /\ ~ar.exhausted_reported
    /\ ar' = [ar EXCEPT !.healthy_since = None, !.exhausted_reported = TRUE]
    /\ reports' = reports + 1
    /\ UNCHANGED <<auto, count, last>>

Schedule ==
    /\ ~Exhausted /\ ar.next_retry = None
    /\ ar' = [ar EXCEPT !.healthy_since = None, !.next_retry = now + Initial]
    /\ UNCHANGED <<auto, history>>

Wait ==
    /\ \/ Exhausted /\ ar.exhausted_reported
       \/ ~Exhausted /\ ar.next_retry # None /\ now < ar.next_retry
    /\ ar' = [ar EXCEPT !.healthy_since = None]
    /\ UNCHANGED <<auto, history>>

(* Mutant: a scheduled retry is not waited for.                            *)
DueAtOnce == ar.next_retry # None

Due == ar.next_retry # None /\ ~(now < ar.next_retry)

Restart ==
    /\ ~Exhausted /\ Due
    /\ ar' = [ar EXCEPT !.healthy_since = None, !.attempts = @ + 1,
                        !.next_retry = now + Delay(ar.attempts + 1)]
    /\ auto' = TRUE /\ count' = count + 1 /\ last' = now
    /\ UNCHANGED reports

ObserveExited ==
    /\ outage' = IF outage = None THEN now ELSE outage
    /\ ReportExhausted \/ Schedule \/ Wait \/ Restart

(* try_restart_exited_vms lists the running processes, then decides under  *)
(* the state lock on that listing.                                         *)
ListVms == /\ ~auto /\ listed = None /\ listed' = running
           /\ UNCHANGED <<now, ar, vm, req, auto, history, outage>>

Sample ==
    /\ listed # None /\ listed' = None
    /\ \/ /\ removing \/ (~listed /\ ~started)
          /\ ResetPolicy /\ outage' = None /\ UNCHANGED auto
       \/ ~removing /\ listed /\ ObserveRunning
       \/ ~removing /\ ~listed /\ started /\ ObserveExited
    /\ UNCHANGED <<now, vm, req>>

(* The restart decided on gets the launch lock: it is skipped for a VM     *)
(* that was stopped or is being removed, does nothing to one that runs,    *)
(* and may fail.                                                           *)
AutoRestarts == /\ auto /\ auto' = FALSE /\ req # "launching"
                /\ running' \in {running, running \/ (started /\ ~removing)}
                /\ UNCHANGED <<now, ar, started, removing, req, listed, history, outage>>

-----------------------------------------------------------------------------
(* start_vm resets the policy and then waits for the launch lock.          *)
StartVm == /\ req = "none"
           /\ ResetPolicy
           /\ req' = IF removing THEN "none" ELSE "start"
           /\ UNCHANGED <<now, vm, listed, auto, outage>>

(* Under the lock it marks the VM started and launches it, which can take  *)
(* long and can fail.                                                      *)
LaunchBegins == /\ req = "start"
                /\ IF removing THEN req' = "none" /\ UNCHANGED started
                               ELSE req' = "launching" /\ started' = TRUE
                /\ UNCHANGED <<now, ar, running, removing, listed, auto, history, outage>>

LaunchEnds == /\ req = "launching" /\ req' = "none"
              /\ running' \in {running, TRUE}
              /\ UNCHANGED <<now, ar, started, removing, listed, auto, history, outage>>

(* stop_vm likewise; the process it signals exits some time later.         *)
StopVm == /\ req = "none" /\ ~removing
          /\ ResetPolicy
          /\ req' = "stop"
          /\ UNCHANGED <<now, vm, listed, auto, outage>>

StopTakesLock == /\ req = "stop" /\ req' = "none" /\ started' = FALSE
                 /\ UNCHANGED <<now, ar, running, removing, listed, auto, history, outage>>

RemoveVm == /\ ~removing /\ removing' = TRUE
            /\ UNCHANGED <<now, ar, running, started, req, listed, auto, history, outage>>

VmExits == /\ running /\ running' = FALSE
           /\ UNCHANGED <<now, ar, started, removing, req, listed, auto, history, outage>>

Tick == /\ now < MaxTime /\ now' = now + 1
        /\ UNCHANGED <<ar, vm, req, listed, auto, history, outage>>

Next == \/ ListVms \/ Sample \/ AutoRestarts
        \/ StartVm \/ LaunchBegins \/ LaunchEnds
        \/ StopVm \/ StopTakesLock \/ RemoveVm
        \/ VmExits \/ Tick

Spec == Init /\ [][Next]_vars

-----------------------------------------------------------------------------
(* Properties.                                                             *)

(* Between two resets no more restarts are decided than the budget allows, *)
(* and its exhaustion is reported at most once.                            *)
BudgetKept == count <= MaxRetries /\ reports <= 1

(* A restart after another one keeps the backoff that grew with it, over   *)
(* samples that saw the VM run for a while and exit again.                 *)
RestartsSpaced ==
    [][count' = count + 1 /\ count > 0 => ~(now < last + Delay(count))]_vars

(* The retry that is due next is the doubled delay, bounded by max_backoff,*)
(* after the last restart: the capped shift and the saturating product of  *)
(* observe_exited lose nothing.                                            *)
BackoffDoubles == count > 0 => ar.next_retry = last + Least(Initial * Pow2[count], MaxBackoff)

(* The inductive strengthening of both: what the policy remembers is what  *)
(* the history says, and a due retry is one backoff after the last restart.*)
IInv == /\ TypeOK
        /\ ar.attempts = count /\ BudgetKept
        /\ ~ar.exhausted_reported => reports = 0
        /\ count > 0 => last \in Nat /\ ar.next_retry = last + Delay(count)

(* initial_backoff is the delay before the first retry: no restart comes   *)
(* earlier than that after the first sample that saw the VM down.          *)
FirstRetryDelayed ==
    [][count' = count + 1 /\ count = 0 /\ outage # None => now >= outage + Initial]_vars
=============================================================================
