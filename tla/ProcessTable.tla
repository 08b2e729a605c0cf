---------------------------- MODULE ProcessTable ----------------------------
(***************************************************************************)
(* What the supervisor promises a client that deploys, stops and removes   *)
(* processes by id: a table of entries, each with at most one operating    *)
(* system process behind it.  No handles, kill channels, wait tasks, map   *)
(* references or rounds of a shutdown; SupervisorTable shows that the      *)
(* supervisor with all of them implements this.                            *)
(***************************************************************************)
CONSTANTS Ids, Children, None

VARIABLES report,  \* what info() says of an id: "none", "up" or "down"
          stage,   \* every process: see Stages
          entry    \* the id a process stands behind, if any

vars == <<report, stage, entry>>

(* "new" is started and in no entry yet, "owned" is behind an entry,       *)
(* "doomed" still lives but its death is decided, "dead" is not reaped.    *)
Stages == {"free", "new", "owned", "doomed", "dead"}

TypeOK == /\ report \in [Ids -> {"none", "up", "down"}]
          /\ stage \in [Children -> Stages]
          /\ entry \in [Children -> Ids \cup {None}]

Init == /\ report = [i \in Ids |-> "none"]
        /\ stage = [c \in Children |-> "free"]
        /\ entry = [c \in Children |-> None]

Behind(i) == {c \in Children : entry[c] = i}
Doomed(s) == IF s \in {"new", "owned"} THEN "doomed" ELSE s

Spawn(c) == /\ stage[c] = "free" /\ stage' = [stage EXCEPT ![c] = "new"]
            /\ UNCHANGED <<report, entry>>

(* A started process takes the place of whatever was behind i, which is    *)
(* doomed: two never live behind one entry unless one is on its way out.   *)
(* A process that ended at once is already reaped, or dead.                *)
Enter(i) ==
    \/ \E c \in Children :
         /\ stage[c] \in {"new", "dead"} /\ entry[c] = None
         /\ report' = [report EXCEPT ![i] = "up"]
         /\ stage' = [d \in Children |-> IF d = c THEN IF stage[c] = "new" THEN "owned" ELSE "dead"
                                         ELSE IF d \in Behind(i) THEN Doomed(stage[d]) ELSE stage[d]]
         /\ entry' = [d \in Children |-> IF d = c THEN i ELSE IF d \in Behind(i) THEN None ELSE entry[d]]
    \/ /\ report' = [report EXCEPT ![i] = "down"]
       /\ stage' = [d \in Children |-> IF d \in Behind(i) THEN Doomed(stage[d]) ELSE stage[d]]
       /\ entry' = [d \in Children |-> IF d \in Behind(i) THEN None ELSE entry[d]]

(* A stop decides the death of the process; the entry stays "up".          *)
Doom(c) == /\ stage[c] = "owned" /\ stage' = [stage EXCEPT ![c] = "doomed"]
           /\ UNCHANGED <<report, entry>>

Die(c) == /\ stage[c] \in {"new", "owned", "doomed"} /\ stage' = [stage EXCEPT ![c] = "dead"]
          /\ UNCHANGED <<report, entry>>

(* Only a dead process is reaped, and only then its entry turns "down".    *)
Reap(c) ==
    /\ stage[c] = "dead" /\ stage' = [stage EXCEPT ![c] = "free"]
    /\ entry' = [entry EXCEPT ![c] = None]
    /\ report' = [i \in Ids |-> IF entry[c] = i THEN "down" ELSE report[i]]

(* A removal dooms what is behind the entry, if it still lives.            *)
Remove(i) ==
    /\ report' = [report EXCEPT ![i] = "none"]
    /\ stage' = [d \in Children |-> IF d \in Behind(i) THEN Doomed(stage[d]) ELSE stage[d]]
    /\ entry' = [d \in Children |-> IF d \in Behind(i) THEN None ELSE entry[d]]

(* The supervisor exits and takes its processes with it.                   *)
Exit == /\ stage' = [c \in Children |-> IF stage[c] = "free" THEN "free" ELSE "dead"]
        /\ UNCHANGED <<report, entry>>

Next == \/ \E c \in Children : Spawn(c) \/ Doom(c) \/ Die(c) \/ Reap(c)
        \/ \E i \in Ids : Enter(i) \/ Remove(i)
        \/ Exit

Spec == Init /\ [][Next]_vars
=============================================================================
