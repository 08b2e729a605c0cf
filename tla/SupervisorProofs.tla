--------------------------- MODULE SupervisorProofs ---------------------------
(* Proofs about Supervisor, for any number of ids, requests and children. *)
EXTENDS SupervisorTable, TLAPS

LEMMA ChanType ==
    ASSUME NEW ch \in [Children -> ChildState], NEW c \in Children,
           NEW v \in {"open", "sent", "dropped"}
    PROVE  [ch EXCEPT ![c].chan = v] \in [Children -> ChildState]
BY DEF ChildState

LEMMA DropSenderType ==
    ASSUME NEW ch \in [Children -> ChildState], NEW c \in Children \cup {None}
    PROVE  DropSender(ch, c) \in [Children -> ChildState]
BY DEF DropSender, ChildState

LEMMA WithoutType ==
    ASSUME TypeOK, NEW h \in Handles \cup {None}
    PROVE  /\ ProcWithout(proc, h) \in [Handles -> ProcState]
           /\ ChildWithout(child, h) \in [Children -> ChildState]
<1>1. Absent \in ProcState
  BY DEF Absent, ProcState, Status
<1>2. ProcWithout(proc, h) \in [Handles -> ProcState]
  BY <1>1 DEF ProcWithout, TypeOK
<1>3. h # None => proc[h].kill_tx \in Children \cup {None}
  BY DEF TypeOK, ProcState
<1>4. ChildWithout(child, h) \in [Children -> ChildState]
  BY <1>3, DropSenderType DEF ChildWithout, TypeOK
<1> QED BY <1>2, <1>4

LEMMA IdleType == Idle \in CallState
BY RoundsAssumption DEF Idle, CallState

LEMMA ReturnType ==
    ASSUME TypeOK, NEW k, Return(k)
    PROVE  call' \in [Callers -> CallState]
BY IdleType DEF Return, TypeOK

LEMMA GotoType ==
    ASSUME TypeOK, NEW k, NEW i \in Ids \cup {None},
           NEW at \in {"deploy_check", "deploy_spawn", "start_spawn",
                       "remove_running", "remove_erase"},
           Goto(k, at, i)
    PROVE  call' \in [Callers -> CallState]
<1>1. [Idle EXCEPT !.pc = at, !.id = i] \in CallState
  BY IdleType DEF Idle, CallState
<1> QED BY <1>1 DEF Goto, TypeOK

LEMMA GotoMoves ==
    ASSUME TypeOK, NEW k \in Callers, NEW at, NEW i, Goto(k, at, i)
    PROVE  /\ \A q \in Callers : q # k => call'[q] = call[q]
           /\ call'[k].pc = at /\ call'[k].id = i
<1>1. /\ [Idle EXCEPT !.pc = at, !.id = i].pc = at
      /\ [Idle EXCEPT !.pc = at, !.id = i].id = i
  BY DEF Idle
<1> QED BY <1>1 DEF Goto, TypeOK

LEMMA ReturnMoves ==
    ASSUME TypeOK, NEW k \in Callers, Return(k)
    PROVE  (\A q \in Callers : q # k => call'[q] = call[q]) /\ call'[k].pc = "idle"
BY DEF Return, TypeOK, Idle

LEMMA StopType ==
    ASSUME TypeOK, NEW h \in Handles, StopProcess(h)
    PROVE  proc' \in [Handles -> ProcState] /\ child' \in [Children -> ChildState]
<1>1. proc[h].kill_tx \in Children \cup {None}
  BY DEF TypeOK, ProcState
<1>2. Normalized(proc[h].status) \in Status
  BY DEF Normalized, TypeOK, ProcState, Status
<1>3. proc' \in [Handles -> ProcState]
  BY <1>2 DEF StopProcess, ProcStopped, TypeOK, ProcState
<1>4. CASE child' = DropSender(child, proc[h].kill_tx)
  BY <1>1, <1>3, <1>4, DropSenderType DEF TypeOK
<1>5. CASE /\ proc[h].kill_tx # None
           /\ child' = [child EXCEPT ![proc[h].kill_tx].chan = "sent"]
  BY <1>1, <1>3, <1>5, ChanType DEF TypeOK
<1> QED BY <1>4, <1>5 DEF StopProcess, ChildStopped

-----------------------------------------------------------------------------
(* The shapes a step can have, and why each preserves the invariant.       *)

(* Only the request k moves, and deploy's insertion is not involved.       *)
LEMMA CallOnly ==
    ASSUME IInv, NEW k \in Callers,
           UNCHANGED <<table, proc, child>>,
           TypeOK',
           \A q \in Callers : q # k => call'[q] = call[q],
           call[k].pc # "deploy_insert", call'[k].pc # "deploy_insert",
           call'[k].pc \notin {"idle", "clear", "sd_scan"} => call'[k].id \in Ids,
           call'[k].pc \in {"start_spawn", "remove_running", "sd_stop"} =>
               table[call'[k].id] # None
    PROVE  IInv'
<1>1. CallsWellFormed'
  BY DEF IInv, CallsWellFormed
<1>2. OneOwner'
  BY DEF IInv, OneOwner
<1>3. ChildrenWellFormed' /\ RunningHasTask'
  BY DEF IInv, ChildrenWellFormed, RunningHasTask
<1>4. ASSUME NEW c \in Children
      PROVE  ChildOwned(c)'
  <2>1. Reachable(child[c].of) => Reachable(child[c].of)'
    BY DEF Reachable
  <2> QED BY <2>1 DEF IInv, ChildOwned
<1> QED BY <1>1, <1>2, <1>3, <1>4 DEF IInv

(* Only children move: none appears, disappears or changes owner, and no   *)
(* kill channel is opened again.                                           *)
LEMMA ChildOnly ==
    ASSUME IInv, UNCHANGED <<table, proc, call>>,
           TypeOK',
           \A c \in Children :
               /\ child'[c].of = child[c].of
               /\ child'[c].task = "none" <=> child[c].task = "none"
               /\ child'[c].task = "wait" => child[c].task = "wait"
               /\ child'[c].chan = "open" => child[c].chan = "open"
               /\ child'[c].task = "finish" => child'[c].res \notin {"absent", "Running"}
    PROVE  IInv'
<1>1. CallsWellFormed' /\ OneOwner'
  BY DEF IInv, CallsWellFormed, OneOwner
<1>2. ChildrenWellFormed'
  BY DEF IInv, ChildrenWellFormed
<1>3. RunningHasTask'
  BY DEF IInv, RunningHasTask
<1>4. ASSUME NEW c \in Children
      PROVE  ChildOwned(c)'
  <2>1. \A h : Reachable(h) => Reachable(h)'
    BY DEF Reachable
  <2> QED BY <2>1 DEF IInv, ChildOwned
<1> QED BY <1>1, <1>2, <1>3, <1>4 DEF IInv

(* A handle's sender is closed and nothing else happens to the children.   *)
SenderClosed(h) ==
    \A c \in Children :
        /\ child'[c].of = child[c].of
        /\ child'[c].os = child[c].os
        /\ child'[c].task = child[c].task
        /\ child'[c].res = child[c].res
        /\ IF proc[h].kill_tx = c THEN child'[c].chan # "open" ELSE child'[c] = child[c]

LEMMA DropSenderCloses ==
    ASSUME TypeOK, NEW h \in Handles, child' = DropSender(child, proc[h].kill_tx)
    PROVE  SenderClosed(h)
<1>1. proc[h].kill_tx \in Children \cup {None}
  BY DEF TypeOK, ProcState
<1>2. CASE proc[h].kill_tx = None
  BY <1>2, NoneAssumption DEF DropSender, SenderClosed
<1>3. CASE proc[h].kill_tx \in Children
  <2> DEFINE d == proc[h].kill_tx
  <2>1. child' = [child EXCEPT ![d].chan = "dropped"]
    BY <1>3, NoneAssumption DEF DropSender
  <2>2. d \in Children
    BY <1>3
  <2> HIDE DEF d
  <2>3. \A c \in Children :
          /\ child'[c].of = child[c].of
          /\ child'[c].task = child[c].task
          /\ child'[c].res = child[c].res
          /\ child'[c].os = child[c].os
          /\ IF c = d THEN child'[c].chan = "dropped" ELSE child'[c] = child[c]
    BY <2>1, <2>2 DEF TypeOK, ChildState
  <2> QED BY <2>3 DEF SenderClosed, d
<1> QED BY <1>1, <1>2, <1>3

LEMMA StopCloses ==
    ASSUME TypeOK, NEW h \in Handles, StopProcess(h)
    PROVE  SenderClosed(h)
<1>1. CASE child' = DropSender(child, proc[h].kill_tx)
  BY <1>1, DropSenderCloses
<1>2. CASE /\ proc[h].kill_tx # None
           /\ child' = [child EXCEPT ![proc[h].kill_tx].chan = "sent"]
  <2> DEFINE d == proc[h].kill_tx
  <2>1. d \in Children
    BY <1>2 DEF TypeOK, ProcState
  <2>2. child' = [child EXCEPT ![d].chan = "sent"]
    BY <1>2
  <2> HIDE DEF d
  <2>3. \A c \in Children :
          /\ child'[c].of = child[c].of
          /\ child'[c].task = child[c].task
          /\ child'[c].res = child[c].res
          /\ child'[c].os = child[c].os
          /\ IF c = d THEN child'[c].chan = "sent" ELSE child'[c] = child[c]
    BY <2>1, <2>2 DEF TypeOK, ChildState
  <2> QED BY <2>3 DEF SenderClosed, d
<1> QED BY <1>1, <1>2 DEF StopProcess, ChildStopped

(* Process::stop on a handle of the table.                                 *)
LEMMA StopInv ==
    ASSUME IInv, TypeOK', NEW h \in Handles, StopProcess(h),
           UNCHANGED table,
           \A q \in Callers :
               \/ call'[q] = call[q]
               \/ call[q].pc = "sd_stop" /\ call'[q].pc = "sd_scan"
    PROVE  IInv'
<1>1. SenderClosed(h)
  BY StopCloses DEF IInv
<1>2. \A g \in Handles :
        /\ g # h => proc'[g] = proc[g]
        /\ proc'[g].status = "absent" <=> proc[g].status = "absent"
        /\ proc'[g].status = "Running" => proc[g].status = "Running"
  BY DEF IInv, TypeOK, ProcState, Status, StopProcess, ProcStopped, Normalized
<1>3. CallsWellFormed'
  BY <1>2 DEF IInv, CallsWellFormed
<1>4. OneOwner'
  BY <1>2 DEF IInv, OneOwner, TypeOK, CallsWellFormed
<1>5. ChildrenWellFormed' /\ RunningHasTask'
  BY <1>1, <1>2 DEF IInv, ChildrenWellFormed, RunningHasTask, SenderClosed
<1>6. ASSUME NEW c \in Children
      PROVE  ChildOwned(c)'
  <2>1. \A g : Reachable(g) => Reachable(g)'
    BY DEF Reachable
  <2>2. child[c].task # "none" => child[c].of \in Handles
    BY DEF IInv, ChildrenWellFormed
  <2> QED BY <1>1, <1>2, <2>1, <2>2 DEF IInv, ChildOwned, SenderClosed
<1> QED BY <1>3, <1>4, <1>5, <1>6 DEF IInv

(* The entry of an id is taken out of the table and its handle dropped.    *)
LEMMA EraseInv ==
    ASSUME IInv, TypeOK', NEW i \in Ids, Erase(i), ~Referenced(i),
           \A q \in Callers :
               \/ call'[q] = call[q]
               \/ call[q].pc # "deploy_insert" /\ call'[q].pc \in {"idle", "clear"}
    PROVE  IInv'
<1> DEFINE h == table[i]
<1>1. CASE h = None
  <2>1. UNCHANGED <<table, proc, child>>
    BY <1>1 DEF Erase, ProcWithout, ChildWithout, IInv, TypeOK
  <2>2. CallsWellFormed' /\ OneOwner' /\ ChildrenWellFormed' /\ RunningHasTask'
    BY <2>1 DEF IInv, CallsWellFormed, OneOwner, ChildrenWellFormed, RunningHasTask
  <2>3. \A c \in Children : ChildOwned(c)'
    <3>1. \A g : Reachable(g) => Reachable(g)'
      BY <2>1 DEF Reachable
    <3> QED BY <2>1, <3>1 DEF IInv, ChildOwned
  <2> QED BY <2>2, <2>3 DEF IInv
<1>2. CASE h \in Handles
  <2>1. SenderClosed(h)
    BY <1>2, DropSenderCloses, NoneAssumption DEF Erase, ChildWithout, IInv
  <2>2. \A g \in Handles : proc'[g] = IF g = h THEN Absent ELSE proc[g]
    BY <1>2, NoneAssumption DEF Erase, ProcWithout, IInv, TypeOK
  <2>3. \A j \in Ids : table'[j] = IF j = i THEN None ELSE table[j]
    BY DEF Erase, IInv, TypeOK
  <2>4. \A j \in Ids : j # i => table[j] # h
    BY <1>2, NoneAssumption DEF IInv, OneOwner
  <2>5. CallsWellFormed'
    <3> SUFFICES ASSUME NEW q \in Callers
                 PROVE  /\ call'[q].pc \notin {"idle", "clear", "sd_scan"} => call'[q].id \in Ids
                        /\ call'[q].pc \in {"start_spawn", "remove_running", "sd_stop"} =>
                             table'[call'[q].id] # None
                        /\ call'[q].pc = "deploy_insert" =>
                             call'[q].h \in Handles /\ proc'[call'[q].h].status # "absent"
      BY DEF CallsWellFormed
    <3>1. CASE call'[q] = call[q]
      <4>1. call[q].pc \in {"start_spawn", "remove_running", "sd_stop"} => call[q].id # i
        BY DEF Referenced
      <4>2. call[q].pc = "deploy_insert" => call[q].h # h
        BY DEF IInv, OneOwner
      <4> QED BY <3>1, <4>1, <4>2, <2>2, <2>3 DEF IInv, CallsWellFormed
    <3> QED BY <3>1
  <2>6. OneOwner'
    <3>1. \A j \in Ids : table'[j] # None => table'[j] \in Handles /\ proc'[table'[j]] = proc[table[j]]
      BY <2>2, <2>3, <2>4 DEF IInv, TypeOK
    <3> QED BY <2>3, <2>4, <3>1, NoneAssumption DEF IInv, OneOwner, CallsWellFormed
  <2>7. ChildrenWellFormed' /\ RunningHasTask'
    BY <2>1, <2>2 DEF IInv, ChildrenWellFormed, RunningHasTask, SenderClosed, Absent
  <2>8. ASSUME NEW c \in Children
        PROVE  ChildOwned(c)'
    <3>1. \A g : g # h /\ Reachable(g) => Reachable(g)'
      BY <2>3 DEF Reachable
    <3>2. child[c].task # "none" => child[c].of \in Handles
      BY DEF IInv, ChildrenWellFormed
    <3> QED BY <2>1, <2>2, <3>1, <3>2 DEF IInv, ChildOwned, SenderClosed
  <2> QED BY <2>5, <2>6, <2>7, <2>8 DEF IInv
<1> QED BY <1>1, <1>2 DEF IInv, TypeOK

-----------------------------------------------------------------------------
LEMMA RecordTypes ==
    /\ Idle \in CallState /\ NoChild \in ChildState /\ Absent \in ProcState
    /\ \A h \in Handles : Spawned(h) \in ChildState
    /\ \A c \in Children, b \in BOOLEAN : Started(c, b) \in ProcState
BY IdleType DEF NoChild, Absent, Spawned, Started, ChildState, ProcState, Status

LEMMA DeploySpawnInv ==
    ASSUME IInv, NEW k \in Callers, DeploySpawn(k)
    PROVE  IInv'
<1>1. PICK h \in Handles, c \in Children :
        /\ FreshHandle(h) /\ FreshChild(c)
        /\ proc' = [proc EXCEPT ![h] = Started(c, FALSE)]
        /\ child' = [child EXCEPT ![c] = Spawned(h)]
        /\ call' = [call EXCEPT ![k].pc = "deploy_insert", ![k].h = h]
  BY DEF DeploySpawn
<1>2. \A g \in Handles : proc'[g] = IF g = h THEN Started(c, FALSE) ELSE proc[g]
  BY <1>1 DEF IInv, TypeOK
<1>3. \A d \in Children : child'[d] = IF d = c THEN Spawned(h) ELSE child[d]
  BY <1>1 DEF IInv, TypeOK
<1>4. /\ call' \in [Callers -> CallState]
      /\ \A q \in Callers : q # k => call'[q] = call[q]
      /\ call'[k].pc = "deploy_insert" /\ call'[k].h = h /\ call'[k].id = call[k].id
  BY <1>1 DEF IInv, TypeOK, CallState
<1>5. TypeOK'
  <2>1. proc' \in [Handles -> ProcState] /\ child' \in [Children -> ChildState]
    BY <1>1, RecordTypes DEF IInv, TypeOK
  <2> QED BY <1>4, <2>1 DEF DeploySpawn, IInv, TypeOK
<1>6. proc[h].status = "absent" /\ table' = table
  BY <1>1 DEF FreshHandle, Absent, DeploySpawn
<1>7. (\A i \in Ids : table[i] # h)
      /\ (\A q \in Callers : call[q].pc = "deploy_insert" => call[q].h # h)
  BY <1>6, NoneAssumption DEF IInv, OneOwner, CallsWellFormed
<1>8. call[k].pc = "deploy_spawn"
  BY DEF DeploySpawn
<1>9. CallsWellFormed'
  BY <1>2, <1>4, <1>6, <1>8 DEF IInv, CallsWellFormed, Started
<1>10. OneOwner'
  <2>1. \A i \in Ids : table'[i] # None => proc'[table'[i]] = proc[table[i]]
    BY <1>2, <1>6, <1>7 DEF IInv, TypeOK
  <2> QED BY <1>4, <1>6, <1>7, <2>1 DEF IInv, OneOwner
<1>11. ChildrenWellFormed'
  BY <1>3 DEF IInv, ChildrenWellFormed, Spawned
<1>12. RunningHasTask'
  <2>1. child[c].task = "none" /\ child'[c].of = h /\ child'[c].task # "none"
    BY <1>1, <1>3 DEF FreshChild, NoChild, Spawned
  <2> SUFFICES ASSUME NEW g \in Handles, proc'[g].status = "Running"
               PROVE  \E d \in Children : child'[d].of = g /\ child'[d].task # "none"
    BY DEF RunningHasTask
  <2>2. CASE g = h
    BY <2>1, <2>2
  <2>3. CASE g # h
    <3>1. PICK d \in Children : child[d].of = g /\ child[d].task # "none"
      BY <1>2, <2>3 DEF IInv, RunningHasTask
    <3> QED BY <1>3, <2>1, <3>1
  <2> QED BY <2>2, <2>3
<1>13. ASSUME NEW d \in Children
       PROVE  ChildOwned(d)'
  <2>1. CASE d = c
    <3>1. Reachable(h)'
      BY <1>4 DEF Reachable
    <3>2. child'[d].of = h
      BY <1>3, <2>1 DEF Spawned
    <3>3. proc'[h].kill_tx = d
      BY <1>2, <2>1 DEF Started
    <3> QED BY <3>1, <3>2, <3>3 DEF ChildOwned
  <2>2. CASE d # c
    <3>1. child[d].of # h
      BY <1>1 DEF FreshHandle
    <3>2. \A g : Reachable(g) => Reachable(g)'
      BY <1>4, <1>6, <1>8 DEF Reachable
    <3>3. child[d].task # "none" => child[d].of \in Handles
      BY DEF IInv, ChildrenWellFormed
    <3> QED BY <1>2, <1>3, <2>2, <3>1, <3>2, <3>3 DEF IInv, ChildOwned
  <2> QED BY <2>1, <2>2
<1> QED BY <1>5, <1>9, <1>10, <1>11, <1>12, <1>13 DEF IInv

LEMMA DeployInsertInv ==
    ASSUME IInv, NEW k \in Callers, DeployInsert(k)
    PROVE  IInv'
<1> DEFINE i == call[k].id
           h == call[k].h
           old == table[i]
           p == ProcWithout(proc, old)
<1>1. i \in Ids /\ h \in Handles /\ call[k].pc = "deploy_insert"
  BY DEF DeployInsert, IInv, CallsWellFormed
<1>2. old \in Handles \cup {None} /\ old # h
  BY <1>1 DEF IInv, TypeOK, OneOwner
<1>3. p \in [Handles -> ProcState] /\ child' \in [Children -> ChildState]
  BY <1>2, WithoutType DEF DeployInsert, IInv
<1>4. proc' = [p EXCEPT ![h].late = freezed]
  BY DEF DeployInsert
<1>5. \A g \in Handles : p[g] = IF g = old THEN Absent ELSE proc[g]
  BY <1>2, NoneAssumption DEF ProcWithout, IInv, TypeOK
<1>6. /\ proc' \in [Handles -> ProcState]
      /\ \A g \in Handles : /\ proc'[g].status = p[g].status
                            /\ proc'[g].kill_tx = p[g].kill_tx
  <2>1. freezed \in BOOLEAN
    BY DEF IInv, TypeOK
  <2> HIDE DEF p, h
  <2> QED BY <1>1, <1>3, <1>4, <2>1 DEF ProcState
<1>7. \A j \in Ids : table'[j] = IF j = i THEN h ELSE table[j]
  BY <1>1 DEF DeployInsert, IInv, TypeOK
<1>8. /\ \A q \in Callers : q # k => call'[q] = call[q]
      /\ call'[k].pc = "idle"
  BY DEF DeployInsert, Return, Idle, IInv, TypeOK
<1>9. TypeOK'
  <2>1. call' \in [Callers -> CallState]
    BY ReturnType DEF DeployInsert, IInv
  <2>2. table' \in [Ids -> Handles \cup {None}]
    BY <1>1 DEF DeployInsert, IInv, TypeOK
  <2> QED BY <1>3, <1>6, <2>1, <2>2 DEF DeployInsert, IInv, TypeOK
<1>10. \A c \in Children :
        /\ child'[c].of = child[c].of
        /\ child'[c].task = child[c].task
        /\ child'[c].res = child[c].res
        /\ child'[c].chan = "open" =>
             child[c].chan = "open" /\ (old # None => proc[old].kill_tx # c)
  <2>1. CASE old = None
    BY <2>1 DEF DeployInsert, ChildWithout
  <2>2. CASE old \in Handles
    <3>1. SenderClosed(old)
      BY <2>2, DropSenderCloses, NoneAssumption DEF DeployInsert, ChildWithout, IInv
    <3> QED BY <3>1 DEF SenderClosed
  <2> QED BY <1>2, <2>1, <2>2
<1>11. \A j \in Ids : j # i /\ table[j] # None => table[j] # old /\ table[j] # h
  BY <1>1 DEF IInv, OneOwner
<1>12. \A q \in Callers : q # k /\ call[q].pc = "deploy_insert" =>
                            call[q].h # h /\ call[q].h # old
  BY <1>1 DEF IInv, OneOwner
<1>13. CallsWellFormed'
  <2> SUFFICES ASSUME NEW q \in Callers, q # k
               PROVE  /\ call[q].pc \notin {"idle", "clear", "sd_scan"} => call[q].id \in Ids
                      /\ call[q].pc \in {"start_spawn", "remove_running", "sd_stop"} =>
                           table'[call[q].id] # None
                      /\ call[q].pc = "deploy_insert" =>
                           call[q].h \in Handles /\ proc'[call[q].h].status # "absent"
    BY <1>8 DEF CallsWellFormed
  <2>1. call[q].pc \in {"start_spawn", "remove_running", "sd_stop"} => call[q].id \in Ids
    BY DEF IInv, CallsWellFormed
  <2>2. call[q].pc \in {"start_spawn", "remove_running", "sd_stop"} =>
           table'[call[q].id] # None
    BY <1>1, <1>7, <2>1, NoneAssumption DEF IInv, CallsWellFormed
  <2>3. call[q].pc = "deploy_insert" =>
           call[q].h \in Handles /\ proc'[call[q].h].status # "absent"
    BY <1>5, <1>6, <1>12 DEF IInv, CallsWellFormed
  <2> QED BY <2>2, <2>3 DEF IInv, CallsWellFormed
<1>14. OneOwner'
  <2>1. proc'[h].status # "absent"
    BY <1>1, <1>2, <1>5, <1>6 DEF IInv, CallsWellFormed
  <2>2. \A j \in Ids : table'[j] # None => proc'[table'[j]].status # "absent"
    <3> SUFFICES ASSUME NEW j \in Ids, j # i, table[j] # None
                 PROVE  proc'[table[j]].status # "absent"
      BY <1>7, <2>1
    <3>1. table[j] \in Handles /\ table[j] # old
      BY <1>11 DEF IInv, TypeOK
    <3> QED BY <1>5, <1>6, <3>1 DEF IInv, OneOwner
  <2>3. \A j, l \in Ids : table'[j] # None /\ table'[j] = table'[l] => j = l
    BY <1>7, <1>11 DEF IInv, OneOwner
  <2>4. \A q \in Callers : call'[q].pc = "deploy_insert" =>
          /\ \A j \in Ids : table'[j] # call'[q].h
          /\ \A r \in Callers : call'[r].pc = "deploy_insert" /\ call'[r].h = call'[q].h
                                => r = q
    BY <1>7, <1>8, <1>12 DEF IInv, OneOwner
  <2> QED BY <2>2, <2>3, <2>4 DEF OneOwner
<1>15. ChildrenWellFormed' /\ RunningHasTask'
  <2>1. Absent.status # "Running"
    BY DEF Absent
  <2> QED BY <1>5, <1>6, <1>10, <2>1 DEF IInv, ChildrenWellFormed, RunningHasTask
<1>16. ASSUME NEW c \in Children
       PROVE  ChildOwned(c)'
  <2>1. \A g : g # old /\ Reachable(g) => Reachable(g)'
    BY <1>1, <1>7, <1>8 DEF Reachable
  <2>2. child[c].task # "none" => child[c].of \in Handles
    BY DEF IInv, ChildrenWellFormed
  <2>3. ASSUME child[c].task = "wait", child[c].chan = "open", child[c].of = old
        PROVE  child'[c].chan # "open"
    BY <1>10, <2>2, <2>3, NoneAssumption DEF IInv, ChildOwned
  <2> QED BY <1>5, <1>6, <1>10, <2>1, <2>2, <2>3 DEF IInv, ChildOwned
<1> QED BY <1>9, <1>13, <1>14, <1>15, <1>16 DEF IInv

LEMMA StartSpawnInv ==
    ASSUME IInv, NEW k \in Callers, StartSpawn(k)
    PROVE  IInv'
<1> DEFINE h == table[call[k].id]
           ch == DropSender(child, proc[h].kill_tx)
<1>1. h \in Handles /\ call[k].pc = "start_spawn"
  BY DEF StartSpawn, IInv, CallsWellFormed, TypeOK
<1>2. PICK c \in Children :
        /\ FreshChild(c)
        /\ proc' = [proc EXCEPT ![h] = Started(c, freezed)]
        /\ child' = [ch EXCEPT ![c] = Spawned(h)]
  BY DEF StartSpawn
<1>3. proc[h].kill_tx \in Children \cup {None}
  BY <1>1 DEF IInv, TypeOK, ProcState
<1>4. ch \in [Children -> ChildState]
  BY <1>3, DropSenderType DEF IInv, TypeOK
<1>5. \A d \in Children :
        /\ ch[d].of = child[d].of /\ ch[d].task = child[d].task /\ ch[d].res = child[d].res
        /\ ch[d].chan = "open" => child[d].chan = "open" /\ proc[h].kill_tx # d
  <2>1. CASE proc[h].kill_tx = None
    BY <2>1, NoneAssumption DEF DropSender
  <2>2. CASE proc[h].kill_tx \in Children
    <3> DEFINE x == proc[h].kill_tx
    <3>1. x \in Children /\ ch = [child EXCEPT ![x].chan = "dropped"]
      BY <2>2, NoneAssumption DEF DropSender
    <3> HIDE DEF x, ch
    <3>2. \A d \in Children :
            /\ ch[d].of = child[d].of /\ ch[d].task = child[d].task /\ ch[d].res = child[d].res
            /\ ch[d].chan = IF d = x THEN "dropped" ELSE child[d].chan
      BY <3>1 DEF IInv, TypeOK, ChildState
    <3> QED BY <3>2 DEF x
  <2> QED BY <1>3, <2>1, <2>2
<1> HIDE DEF ch
<1>6. \A d \in Children : child'[d] = IF d = c THEN Spawned(h) ELSE ch[d]
  BY <1>2, <1>4
<1>7. \A g \in Handles : proc'[g] = IF g = h THEN Started(c, freezed) ELSE proc[g]
  BY <1>2 DEF IInv, TypeOK
<1>8. /\ \A q \in Callers : q # k => call'[q] = call[q]
      /\ call'[k].pc = "idle" /\ table' = table
  BY DEF StartSpawn, Return, Idle, IInv, TypeOK
<1>9. TypeOK'
  <2>1. Started(c, freezed) \in ProcState /\ Spawned(h) \in ChildState
    BY <1>1, RecordTypes DEF IInv, TypeOK
  <2>2. proc' \in [Handles -> ProcState] /\ child' \in [Children -> ChildState]
    BY <1>2, <1>4, <2>1 DEF IInv, TypeOK
  <2>3. call' \in [Callers -> CallState]
    BY ReturnType DEF StartSpawn, IInv
  <2> QED BY <2>2, <2>3 DEF StartSpawn, IInv, TypeOK
<1> HIDE DEF h
<1>10. \A g \in Handles : proc[g].status # "absent" => proc'[g].status # "absent"
  BY <1>7 DEF Started
<1>11. CallsWellFormed'
  BY <1>8, <1>10 DEF IInv, CallsWellFormed
<1>12. OneOwner'
  BY <1>8, <1>10 DEF IInv, OneOwner, TypeOK
<1>13. ChildrenWellFormed'
  BY <1>1, <1>5, <1>6 DEF IInv, ChildrenWellFormed, Spawned
<1>14. RunningHasTask'
  <2>1. child[c].task = "none" /\ Spawned(h).of = h /\ Spawned(h).task = "wait"
    BY <1>2 DEF FreshChild, NoChild, Spawned
  <2> QED BY <1>5, <1>6, <1>7, <2>1 DEF IInv, RunningHasTask
<1>15. ASSUME NEW d \in Children
       PROVE  ChildOwned(d)'
  <2>1. \A g : Reachable(g) => Reachable(g)'
    BY <1>1, <1>8 DEF Reachable
  <2>2. CASE d = c
    <3>1. Reachable(h)
      BY DEF Reachable, h, StartSpawn, IInv, CallsWellFormed
    <3>2. child'[d].of = h
      BY <1>6, <2>2 DEF Spawned
    <3>3. proc'[h].kill_tx = d
      BY <1>1, <1>7, <2>2 DEF Started
    <3> QED BY <2>1, <3>1, <3>2, <3>3 DEF ChildOwned
  <2>3. CASE d # c
    <3>1. child'[d] = ch[d]
      BY <1>6, <2>3
    <3>2. child[d].task # "none" => child[d].of \in Handles
      BY DEF IInv, ChildrenWellFormed
    <3> QED BY <1>5, <1>7, <2>1, <3>1, <3>2 DEF IInv, ChildOwned
  <2> QED BY <2>2, <2>3
<1> QED BY <1>9, <1>11, <1>12, <1>13, <1>14, <1>15 DEF IInv

LEMMA TaskFinishInv ==
    ASSUME IInv, NEW c \in Children, TaskFinish(c)
    PROVE  IInv'
<1> DEFINE h == child[c].of
<1>1. h \in Handles /\ child[c].res \in Status \ {"absent", "Running"}
  BY DEF TaskFinish, IInv, ChildrenWellFormed, TypeOK, ChildState
<1>0. Reaped(c) \in ChildState /\ Reaped(c).task = "none"
  <2>1. child[c] \in ChildState /\ NoChild \in ChildState /\ NoChild.task = "none"
    BY RecordTypes DEF IInv, TypeOK, NoChild
  <2> QED BY <2>1 DEF Reaped, ChildState
<1>2. \A d \in Children : child'[d] = IF d = c THEN Reaped(c) ELSE child[d]
  BY DEF TaskFinish, IInv, TypeOK
<1>3. /\ proc' \in [Handles -> ProcState]
      /\ \A g \in Handles : g # h => proc'[g] = proc[g]
      /\ proc'[h].status # "Running"
      /\ proc'[h].status = "absent" => proc[h].status = "absent"
      /\ proc'[h].kill_tx = proc[h].kill_tx \/ proc[h].kill_tx = c
  <2>1. CASE proc[h] = Absent
    BY <1>1, <2>1 DEF TaskFinish, Recorded, Absent, IInv, TypeOK
  <2>2. CASE proc[h] # Absent
    <3>1. proc' = [proc EXCEPT ![h].status = child[c].res,
                               ![h].kill_tx = IF @ = c THEN None ELSE @]
      BY <2>2 DEF TaskFinish, Recorded
    <3> HIDE DEF h
    <3> QED BY <1>1, <3>1 DEF IInv, TypeOK, ProcState
  <2> QED BY <2>1, <2>2
<1>4. TypeOK'
  <2>1. child' \in [Children -> ChildState]
    BY <1>0 DEF TaskFinish, IInv, TypeOK
  <2> QED BY <1>3, <2>1 DEF TaskFinish, IInv, TypeOK
<1>5. table' = table /\ call' = call
  BY DEF TaskFinish
<1> HIDE DEF h
<1>6. CallsWellFormed'
  BY <1>3, <1>5 DEF IInv, CallsWellFormed
<1>7. OneOwner'
  BY <1>3, <1>5 DEF IInv, OneOwner, TypeOK
<1>8. ChildrenWellFormed'
  BY <1>0, <1>2 DEF IInv, ChildrenWellFormed
<1>9. RunningHasTask'
  <2>1. \A g \in Handles : proc'[g].status = "Running" => g # h /\ proc[g].status = "Running"
    BY <1>3
  <2> QED BY <1>2, <2>1 DEF IInv, RunningHasTask, h
<1>10. ASSUME NEW d \in Children
       PROVE  ChildOwned(d)'
  <2>1. \A g : Reachable(g) => Reachable(g)'
    BY <1>5 DEF Reachable
  <2>2. child[d].task # "none" => child[d].of \in Handles
    BY DEF IInv, ChildrenWellFormed
  <2>3. CASE d = c
    BY <1>0, <1>2, <2>3 DEF ChildOwned
  <2>4. CASE d # c
    BY <1>2, <1>3, <2>1, <2>2, <2>4 DEF IInv, ChildOwned
  <2> QED BY <2>3, <2>4
<1> QED BY <1>4, <1>6, <1>7, <1>8, <1>9, <1>10 DEF IInv

-----------------------------------------------------------------------------
LEMMA EraseStepInv ==
    ASSUME IInv, NEW k \in Callers, NEW i \in Ids, Erase(i), ~Referenced(i),
           UNCHANGED <<freezed, phase, sdok>>,
           call[k].pc # "deploy_insert",
           \A q \in Callers : q # k => call'[q] = call[q],
           call'[k].pc \in {"idle", "clear"},
           call' \in [Callers -> CallState]
    PROVE  IInv'
<1>1. table[i] \in Handles \cup {None}
  BY DEF IInv, TypeOK
<1>2. proc' \in [Handles -> ProcState] /\ child' \in [Children -> ChildState]
  BY <1>1, WithoutType DEF Erase, IInv
<1>3. TypeOK'
  BY <1>2 DEF Erase, IInv, TypeOK
<1> QED BY <1>3, EraseInv

LEMMA ClearVisitInv ==
    ASSUME IInv, NEW k \in Callers, NEW i \in Ids, ClearVisit(k, i)
    PROVE  IInv'
<1>1. /\ call' \in [Callers -> CallState]
      /\ \A q \in Callers : q # k => call'[q] = call[q]
      /\ call'[k].pc \in {"idle", "clear"}
  <2>1. CASE Return(k)
    BY <2>1, ReturnType DEF IInv, TypeOK, Return, Idle
  <2>2. CASE call' = [call EXCEPT ![k].todo = @ \ {i}]
    BY <2>2 DEF ClearVisit, IInv, TypeOK, CallState
  <2> QED BY <2>1, <2>2 DEF ClearVisit
<1>2. CASE UNCHANGED <<table, proc, child>>
  <2>1. TypeOK'
    BY <1>1, <1>2 DEF ClearVisit, IInv, TypeOK
  <2> QED BY <1>1, <1>2, <2>1, CallOnly DEF ClearVisit
<1>3. CASE Erase(i)
  BY <1>1, <1>3, EraseStepInv DEF ClearVisit
<1> QED BY <1>2, <1>3 DEF ClearVisit

(* The requests' sections that only move the request.                      *)
LEMMA RequestMoveInv ==
    ASSUME IInv, NEW k \in Callers,
           \/ \E i \in Ids : DeployFreeze(k, i) \/ StartCheck(k, i) \/ RemoveStarted(k, i)
           \/ DeployCheck(k) \/ SpawnFails(k) \/ RemoveRunning(k) \/ ClearBegin(k)
    PROVE  IInv'
<1>1. call[k].id \in Ids \cup {None}
  BY DEF IInv, TypeOK, CallState
<1>2. ASSUME NEW i \in Ids, DeployFreeze(k, i) \/ StartCheck(k, i) \/ RemoveStarted(k, i)
      PROVE  IInv'
  <2>1. call' \in [Callers -> CallState]
    BY <1>2, GotoType DEF DeployFreeze, StartCheck, RemoveStarted, IInv
  <2>2. TypeOK'
    BY <1>2, <2>1 DEF DeployFreeze, StartCheck, RemoveStarted, IInv, TypeOK
  <2>3. /\ \A q \in Callers : q # k => call'[q] = call[q]
        /\ call[k].pc = "idle"
        /\ call'[k].id = i
        /\ call'[k].pc \in {"deploy_check", "start_spawn", "remove_running"}
    BY <1>2, GotoMoves DEF DeployFreeze, StartCheck, RemoveStarted, CanCall, Idle, IInv
  <2>4. call'[k].pc # "deploy_check" => table[i] # None
    BY <1>2, GotoMoves DEF DeployFreeze, StartCheck, RemoveStarted, IInv
  <2> QED BY <1>2, <2>2, <2>3, <2>4, CallOnly DEF DeployFreeze, StartCheck, RemoveStarted
<1>3. CASE DeployCheck(k) \/ RemoveRunning(k)
  <2>1. call' \in [Callers -> CallState]
    BY <1>1, <1>3, GotoType, ReturnType DEF DeployCheck, RemoveRunning, IInv
  <2>2. TypeOK'
    BY <1>3, <2>1 DEF DeployCheck, RemoveRunning, IInv, TypeOK
  <2>3. /\ \A q \in Callers : q # k => call'[q] = call[q]
        /\ call[k].pc \in {"deploy_check", "remove_running"}
        /\ \/ call'[k].pc = "idle"
           \/ call'[k].id = call[k].id /\ call'[k].pc \in {"deploy_spawn", "remove_erase"}
    BY <1>3, GotoMoves, ReturnMoves DEF DeployCheck, RemoveRunning, IInv
  <2>4. call[k].id \in Ids
    BY <2>3 DEF IInv, CallsWellFormed
  <2> QED BY <1>3, <2>2, <2>3, <2>4, CallOnly DEF DeployCheck, RemoveRunning
<1>4. CASE SpawnFails(k)
  <2>1. TypeOK'
    BY <1>4, ReturnType DEF SpawnFails, IInv, TypeOK
  <2>2. /\ \A q \in Callers : q # k => call'[q] = call[q]
        /\ call'[k].pc = "idle"
    BY <1>4 DEF SpawnFails, Return, Idle, IInv, TypeOK
  <2> QED BY <1>4, <2>1, <2>2, CallOnly DEF SpawnFails
<1>5. CASE ClearBegin(k)
  <2> DEFINE new == [Idle EXCEPT !.pc = "clear", !.todo = Ids]
  <2>1. new \in CallState /\ new.pc = "clear" /\ Idle.pc = "idle"
    BY IdleType DEF Idle, CallState
  <2>2. call' = [call EXCEPT ![k] = new] /\ call[k] = Idle
    BY <1>5 DEF ClearBegin, CanCall
  <2> HIDE DEF new
  <2>3. TypeOK' /\ (\A q \in Callers : q # k => call'[q] = call[q])
        /\ call[k].pc = "idle" /\ call'[k].pc = "clear"
    BY <1>5, <2>1, <2>2 DEF ClearBegin, IInv, TypeOK
  <2> QED BY <1>5, <2>3, CallOnly DEF ClearBegin
<1> QED BY <1>2, <1>3, <1>4, <1>5

LEMMA ShutdownMoveInv ==
    ASSUME IInv, NEW k \in Callers,
           \/ \E force \in BOOLEAN : ShutdownBegin(k, force)
           \/ \E i \in Ids : ShutdownVisit(k, i)
           \/ ShutdownNextRound(k) \/ ShutdownReturn(k)
    PROVE  IInv'
<1>1. ASSUME NEW force \in BOOLEAN, ShutdownBegin(k, force)
      PROVE  IInv'
  <2> DEFINE new == [Idle EXCEPT !.pc = "sd_scan", !.todo = Ids, !.round = 1, !.force = force]
  <2>0. 1 \in 0..MaxRounds
    BY RoundsAssumption
  <2>1. new \in CallState /\ new.pc = "sd_scan"
    BY <2>0 DEF Idle, CallState
  <2>2. call' = [call EXCEPT ![k] = new] /\ call[k] = Idle
    BY <1>1 DEF ShutdownBegin
  <2> HIDE DEF new
  <2>3. TypeOK'
    BY <1>1, <2>1, <2>2 DEF ShutdownBegin, IInv, TypeOK
  <2>4. /\ \A q \in Callers : q # k => call'[q] = call[q]
        /\ call[k].pc = "idle" /\ call'[k].pc = "sd_scan"
    BY <2>1, <2>2 DEF Idle, IInv, TypeOK
  <2> QED BY <1>1, <2>3, <2>4, CallOnly DEF ShutdownBegin
<1>2. ASSUME NEW i \in Ids, ShutdownVisit(k, i)
      PROVE  IInv'
  <2>1. /\ call' \in [Callers -> CallState]
        /\ \A q \in Callers : q # k => call'[q] = call[q]
        /\ call[k].pc = "sd_scan"
        /\ call'[k].pc = "sd_scan" \/ (call'[k].pc = "sd_stop" /\ call'[k].id = i /\ table[i] # None)
    <3> DEFINE rest == call[k].todo \ {i}
    <3>1. call[k] \in CallState /\ rest \in SUBSET Ids /\ call[k].pc = "sd_scan"
      BY <1>2 DEF ShutdownVisit, IInv, TypeOK, CallState
    <3> HIDE DEF rest
    <3>2. CASE is_running(i)
      <4> DEFINE new == [call[k] EXCEPT !.todo = rest, !.pc = "sd_stop", !.id = i,
                                        !.running = TRUE]
      <4>1. new \in CallState /\ new.pc = "sd_stop" /\ new.id = i
        BY <3>1 DEF CallState
      <4>2. call' = [call EXCEPT ![k] = new]
        BY <1>2, <3>2 DEF ShutdownVisit, rest
      <4> HIDE DEF new
      <4> QED BY <3>1, <3>2, <4>1, <4>2 DEF is_running, IInv, TypeOK
    <3>3. CASE ~is_running(i)
      <4> DEFINE new == [call[k] EXCEPT !.todo = rest]
      <4>1. new \in CallState /\ new.pc = "sd_scan"
        BY <3>1 DEF CallState
      <4>2. call' = [call EXCEPT ![k] = new]
        BY <1>2, <3>3 DEF ShutdownVisit, rest
      <4> HIDE DEF new
      <4> QED BY <3>1, <4>1, <4>2 DEF IInv, TypeOK
    <3> QED BY <3>2, <3>3
  <2>2. TypeOK'
    BY <1>2, <2>1 DEF ShutdownVisit, IInv, TypeOK
  <2> QED BY <1>2, <2>1, <2>2, CallOnly DEF ShutdownVisit
<1>3. CASE ShutdownNextRound(k)
  <2>1. /\ call' \in [Callers -> CallState]
        /\ \A q \in Callers : q # k => call'[q] = call[q]
        /\ call[k].pc = "sd_scan" /\ call'[k].pc = "sd_scan"
    BY <1>3, RoundsAssumption DEF ShutdownNextRound, ScanDone, IInv, TypeOK, CallState
  <2>2. TypeOK'
    BY <1>3, <2>1 DEF ShutdownNextRound, IInv, TypeOK
  <2> QED BY <1>3, <2>1, <2>2, CallOnly DEF ShutdownNextRound
<1>4. CASE ShutdownReturn(k)
  <2>1. call' \in [Callers -> CallState]
    BY <1>4, ReturnType DEF ShutdownReturn, IInv
  <2>2. /\ \A q \in Callers : q # k => call'[q] = call[q]
        /\ call[k].pc = "sd_scan" /\ call'[k].pc = "idle"
    BY <1>4 DEF ShutdownReturn, ScanDone, Return, Idle, IInv, TypeOK
  <2>3. sdok' \in BOOLEAN /\ phase' \in {"serving", "stopping", "exited"}
    BY <1>4 DEF ShutdownReturn, IInv, TypeOK
  <2>4. TypeOK'
    BY <1>4, <2>1, <2>3 DEF ShutdownReturn, IInv, TypeOK
  <2> QED BY <1>4, <2>2, <2>4, CallOnly DEF ShutdownReturn
<1> QED BY <1>1, <1>2, <1>3, <1>4

(* The steps of a child and of its wait task, but for the last one.        *)
LEMMA ChildStepInv ==
    ASSUME IInv, NEW c \in Children,
           \/ ChildExits(c) \/ KillDelivered(c) \/ TaskSeesKill(c) \/ TaskSeesExit(c)
           \/ TaskReaps(c) \/ TaskWaitError(c)
    PROVE  IInv'
<1>1. CASE ChildExits(c) \/ KillDelivered(c)
  <2>1. PICK os \in {"exit0", "exitN", "killed"} : child' = [child EXCEPT ![c].os = os]
    BY <1>1 DEF ChildExits, KillDelivered
  <2>2. /\ child' \in [Children -> ChildState]
        /\ \A d \in Children : /\ child'[d].of = child[d].of
                               /\ child'[d].task = child[d].task
                               /\ child'[d].chan = child[d].chan
                               /\ child'[d].res = child[d].res
    BY <2>1 DEF IInv, TypeOK, ChildState
  <2>3. TypeOK' /\ UNCHANGED <<table, proc, call>>
    BY <1>1, <2>2 DEF ChildExits, KillDelivered, IInv, TypeOK
  <2>4. \A d \in Children : child'[d].task = "finish" => child'[d].res \notin {"absent", "Running"}
    BY <2>2 DEF IInv, ChildrenWellFormed
  <2> QED BY <2>2, <2>3, <2>4, ChildOnly
<1>2. CASE TaskSeesKill(c)
  <2>1. child[c].task = "wait" /\ child' = [child EXCEPT ![c].task = "kill"]
    BY <1>2 DEF TaskSeesKill
  <2>2. /\ child' \in [Children -> ChildState]
        /\ \A d \in Children : /\ child'[d].of = child[d].of
                               /\ child'[d].task = IF d = c THEN "kill" ELSE child[d].task
                               /\ child'[d].chan = child[d].chan
                               /\ child'[d].res = child[d].res
    BY <2>1 DEF IInv, TypeOK, ChildState
  <2>3. TypeOK' /\ UNCHANGED <<table, proc, call>>
    BY <1>2, <2>2 DEF TaskSeesKill, IInv, TypeOK
  <2>4. \A d \in Children : child'[d].task = "finish" => child'[d].res \notin {"absent", "Running"}
    BY <2>2 DEF IInv, ChildrenWellFormed
  <2> QED BY <2>1, <2>2, <2>3, <2>4, ChildOnly
<1>3. CASE TaskSeesExit(c) \/ TaskReaps(c) \/ TaskWaitError(c)
  <2>1. \E res \in {"Exited0", "ExitedN", "Stopped", "Error"},
           os \in {"none", "live", "exit0", "exitN", "killed"} :
          child' = [child EXCEPT ![c].task = "finish", ![c].res = res, ![c].os = os]
    <3>1. child[c] \in ChildState
      BY DEF IInv, TypeOK
    <3>2. child[c].os \in {"none", "live", "exit0", "exitN", "killed"}
      BY <3>1 DEF ChildState
    <3>3. CASE TaskSeesExit(c)
      <4>1. child' = [child EXCEPT ![c].task = "finish", ![c].res = ExitStatus(child[c].os),
                                   ![c].os = child[c].os]
        BY <3>1, <3>3 DEF TaskSeesExit, IInv, TypeOK, ChildState
      <4> QED BY <3>2, <4>1 DEF ExitStatus
    <3>4. CASE TaskReaps(c)
      <4>1. child' = [child EXCEPT ![c].task = "finish", ![c].res = "Stopped",
                                   ![c].os = child[c].os]
        BY <3>1, <3>4 DEF TaskReaps, IInv, TypeOK, ChildState
      <4> QED BY <3>2, <4>1
    <3>5. CASE TaskWaitError(c)
      BY <3>2, <3>5 DEF TaskWaitError
    <3> QED BY <1>3, <3>3, <3>4, <3>5
  <2>2. PICK res \in {"Exited0", "ExitedN", "Stopped", "Error"},
             os \in {"none", "live", "exit0", "exitN", "killed"} :
          child' = [child EXCEPT ![c].task = "finish", ![c].res = res, ![c].os = os]
    BY <2>1
  <2>3. child[c].task # "none"
    BY <1>3 DEF TaskSeesExit, TaskReaps, TaskWaitError
  <2>4. /\ child' \in [Children -> ChildState]
        /\ \A d \in Children : /\ child'[d].of = child[d].of
                               /\ child'[d].task = IF d = c THEN "finish" ELSE child[d].task
                               /\ child'[d].chan = child[d].chan
                               /\ child'[d].res = IF d = c THEN res ELSE child[d].res
    <3> DEFINE new == [child[c] EXCEPT !.task = "finish", !.res = res, !.os = os]
    <3>1. child[c] \in ChildState /\ res \in Status
      BY DEF IInv, TypeOK, Status
    <3>2. /\ new \in ChildState /\ new.task = "finish" /\ new.res = res
          /\ new.of = child[c].of /\ new.chan = child[c].chan
      BY <3>1 DEF ChildState
    <3>3. child' = [child EXCEPT ![c] = new]
      BY <2>2
    <3> HIDE DEF new
    <3> QED BY <3>2, <3>3 DEF IInv, TypeOK
  <2>5. TypeOK' /\ UNCHANGED <<table, proc, call>>
    BY <1>3, <2>4 DEF TaskSeesExit, TaskReaps, TaskWaitError, IInv, TypeOK
  <2>6. \A d \in Children : child'[d].task = "finish" => child'[d].res \notin {"absent", "Running"}
    BY <2>4 DEF IInv, ChildrenWellFormed
  <2> QED BY <2>3, <2>4, <2>5, <2>6, ChildOnly
<1> QED BY <1>1, <1>2, <1>3

LEMMA RocketExitInv ==
    ASSUME IInv, RocketExit
    PROVE  IInv'
<1>1. /\ child' \in [Children -> ChildState]
      /\ \A d \in Children : /\ child'[d].of = child[d].of
                             /\ child'[d].task = child[d].task
                             /\ child'[d].chan = child[d].chan
                             /\ child'[d].res = child[d].res
  BY DEF RocketExit, IInv, TypeOK, ChildState
<1>2. TypeOK' /\ UNCHANGED <<table, proc, call>>
  BY <1>1 DEF RocketExit, IInv, TypeOK
<1>3. \A d \in Children : child'[d].task = "finish" => child'[d].res \notin {"absent", "Running"}
  BY <1>1 DEF IInv, ChildrenWellFormed
<1> QED BY <1>1, <1>2, <1>3, ChildOnly

LEMMA StopStepInv ==
    ASSUME IInv, \/ \E i \in Ids : Stop(i)
                 \/ \E k \in Callers : ShutdownStop(k)
    PROVE  IInv'
<1>1. ASSUME NEW i \in Ids, Stop(i)
      PROVE  IInv'
  <2>1. table[i] \in Handles
    BY <1>1 DEF Stop, IInv, TypeOK
  <2>2. TypeOK'
    BY <1>1, <2>1, StopType DEF Stop, IInv, TypeOK
  <2> QED BY <1>1, <2>1, <2>2, StopInv DEF Stop
<1>2. ASSUME NEW k \in Callers, ShutdownStop(k)
      PROVE  IInv'
  <2>1. table[call[k].id] \in Handles
    BY <1>2 DEF ShutdownStop, IInv, CallsWellFormed, TypeOK
  <2>2. /\ call' \in [Callers -> CallState]
        /\ \A q \in Callers : q # k => call'[q] = call[q]
        /\ call[k].pc = "sd_stop" /\ call'[k].pc = "sd_scan"
    BY <1>2 DEF ShutdownStop, IInv, TypeOK, CallState
  <2>3. TypeOK'
    BY <1>2, <2>1, <2>2, StopType DEF ShutdownStop, IInv, TypeOK
  <2> QED BY <1>2, <2>1, <2>2, <2>3, StopInv DEF ShutdownStop
<1> QED BY <1>1, <1>2

LEMMA RemoveEraseInv ==
    ASSUME IInv, NEW k \in Callers, RemoveErase(k)
    PROVE  IInv'
<1>1. call[k].id \in Ids /\ call[k].pc = "remove_erase"
  BY DEF RemoveErase, IInv, CallsWellFormed
<1>2. /\ call' \in [Callers -> CallState]
      /\ \A q \in Callers : q # k => call'[q] = call[q]
      /\ call'[k].pc = "idle"
  BY ReturnType, ReturnMoves DEF RemoveErase, IInv
<1> QED BY <1>1, <1>2, EraseStepInv DEF RemoveErase

-----------------------------------------------------------------------------
LEMMA InitInv == Init => IInv
<1> SUFFICES ASSUME Init PROVE IInv
  OBVIOUS
<1>1. TypeOK
  BY RecordTypes DEF Init, TypeOK
<1>2. CallsWellFormed
  BY DEF Init, CallsWellFormed, Idle
<1>3. OneOwner
  BY DEF Init, OneOwner, Idle
<1>4. ChildrenWellFormed
  BY DEF Init, ChildrenWellFormed, NoChild
<1>5. \A c \in Children : ChildOwned(c)
  BY DEF Init, ChildOwned, NoChild
<1>6. RunningHasTask
  BY DEF Init, RunningHasTask, Absent
<1> QED BY <1>1, <1>2, <1>3, <1>4, <1>5, <1>6 DEF IInv

LEMMA StepInv == IInv /\ [Next]_vars => IInv'
<1> SUFFICES ASSUME IInv, [Next]_vars PROVE IInv'
  OBVIOUS
<1>1. ASSUME NEW k \in Callers, Request(k)
      PROVE  IInv'
  <2>1. ASSUME NEW i \in Ids, ClearVisit(k, i)
        PROVE  IInv'
    BY <2>1, ClearVisitInv
  <2> QED BY <1>1, <2>1, RequestMoveInv, ShutdownMoveInv, StopStepInv, DeploySpawnInv,
             DeployInsertInv, StartSpawnInv, RemoveEraseInv DEF Request
<1>2. ASSUME NEW c \in Children,
             ChildExits(c) \/ KillDelivered(c) \/ Task(c) \/ TaskWaitError(c)
      PROVE  IInv'
  BY <1>2, ChildStepInv, TaskFinishInv DEF Task
<1>3. CASE UNCHANGED vars
  <2>1. UNCHANGED <<table, proc, child, call, freezed, phase, sdok>>
    BY <1>3 DEF vars
  <2>2. TypeOK'
    BY <2>1 DEF IInv, TypeOK
  <2>3. \A c \in Children : child[c].task = "finish" => child[c].res \notin {"absent", "Running"}
    BY DEF IInv, ChildrenWellFormed
  <2> QED BY <2>1, <2>2, <2>3, ChildOnly
<1> QED BY <1>1, <1>2, <1>3, RocketExitInv, StopStepInv DEF Next

(* The inductive invariant, for any number of ids, requests and children.  *)
THEOREM InvariantHolds == Spec => []IInv
<1> QED BY InitInv, StepInv, PTL DEF Spec

(* Every variable keeps its type, so shutdown never makes more than its    *)
(* rounds and no request leaves the sections of its handler.               *)
THEOREM TypeCorrect == Spec => []TypeOK
<1>1. IInv => TypeOK
  BY DEF IInv
<1> QED BY <1>1, InvariantHolds, PTL

(* No interleaving of deploy, start, stop, remove, clear and shutdown lets *)
(* a child run that its supervisor cannot stop any more.                   *)
THEOREM NoLostChildHolds == Spec => []NoLostChild
<1>1. IInv => NoLostChild
  BY DEF IInv, NoLostChild, ChildOwned
<1> QED BY <1>1, InvariantHolds, PTL

(* A process reported Running always has a wait task that will say when it *)
(* ends.                                                                   *)
THEOREM RunningHasTaskHolds == Spec => []RunningHasTask
<1>1. IInv => RunningHasTask
  BY DEF IInv
<1> QED BY <1>1, InvariantHolds, PTL
-----------------------------------------------------------------------------
(* A shutdown.  Once it has frozen the supervisor, an id it has scanned    *)
(* without finding it Running stays so, unless a deploy that had passed    *)
(* the freeze check inserts a handle, which is then `late`.                *)
Settled(i) ==
    table[i] # None => proc[table[i]].late \/ proc[table[i]].status # "Running"

Scanning(k) == call[k].pc \in {"sd_scan", "sd_stop"}

ShutdownInv ==
    /\ \A k \in Callers : Scanning(k) =>
         /\ freezed
         /\ call[k].pc = "sd_stop" => call[k].running
         /\ ~call[k].running => \A i \in Ids \ call[k].todo : Settled(i)
    /\ sdok => freezed /\ \A i \in Ids : Settled(i)

(* A client that never calls start: a handle has the child it was deployed *)
(* with and no other, and reports Running until that child is reaped.      *)
ChildOK(c) ==
    /\ child[c] # NoChild => child[c].of \in Handles /\ child[c].task # "none"
    /\ child[c].task = "finish" => ~Live(c)
    /\ child[c].task = "kill" => child[c].chan # "open"
    /\ child[c].of \in Handles => proc[child[c].of].status \in {"Running", "absent"}
    /\ \A d \in Children : child[c].of # None /\ child[d].of = child[c].of => d = c
    /\ \A k \in Callers : call[k].pc = "deploy_insert" /\ call[k].h = child[c].of
                           => child[c].chan = "open"

SenderOK(h) == proc[h].kill_tx # None => child[proc[h].kill_tx].of = h

Solo == /\ \A k \in Callers : call[k].pc # "start_spawn"
        /\ \A c \in Children : ChildOK(c)
        /\ \A h \in Handles : SenderOK(h)

(* What the steps that write the table or a handle do to them.             *)
LEMMA StopEffect ==
    ASSUME TypeOK, NEW h \in Handles, StopProcess(h)
    PROVE  /\ \A g \in Handles : g # h => proc'[g] = proc[g]
           /\ proc'[h].late = proc[h].late
           /\ proc'[h].kill_tx = None
           /\ proc'[h].status = "Running" <=> proc[h].status = "Running"
           /\ proc'[h].status = "absent" <=> proc[h].status = "absent"
BY DEF TypeOK, ProcState, Status, StopProcess, ProcStopped, Normalized

LEMMA EraseEffect ==
    ASSUME TypeOK, NEW i \in Ids, Erase(i)
    PROVE  /\ \A j \in Ids : table'[j] = IF j = i THEN None ELSE table[j]
           /\ \A g \in Handles : proc'[g] = IF g = table[i] THEN Absent ELSE proc[g]
           /\ table[i] = None => UNCHANGED <<table, proc, child>>
           /\ table[i] # None => SenderClosed(table[i])
<1>1. table[i] \in Handles \cup {None}
  BY DEF TypeOK
<1>2. CASE table[i] = None
  BY <1>2, NoneAssumption DEF Erase, ProcWithout, ChildWithout, TypeOK
<1>3. CASE table[i] \in Handles
  <2>1. SenderClosed(table[i])
    BY <1>3, DropSenderCloses, NoneAssumption DEF Erase, ChildWithout
  <2> QED BY <1>3, <2>1, NoneAssumption DEF Erase, ProcWithout, TypeOK
<1> QED BY <1>1, <1>2, <1>3

Inserted(i, h) ==
    /\ table[i] # h /\ proc[h].status # "absent"
    /\ \A j \in Ids : table'[j] = IF j = i THEN h ELSE table[j]
    /\ \A g \in Handles :
         /\ g # h => proc'[g] = IF g = table[i] THEN Absent ELSE proc[g]
         /\ g = h => /\ proc'[g].late = freezed
                     /\ proc'[g].status = proc[g].status
                     /\ proc'[g].kill_tx = proc[g].kill_tx
    /\ table[i] = None => child' = child
    /\ table[i] # None => SenderClosed(table[i])

LEMMA InsertEffect ==
    ASSUME IInv, NEW k \in Callers, DeployInsert(k)
    PROVE  \E i \in Ids, h \in Handles :
               i = call[k].id /\ h = call[k].h /\ Inserted(i, h)
<1>0. PICK i, h : i = call[k].id /\ h = call[k].h
  OBVIOUS
<1>1. i \in Ids /\ h \in Handles /\ proc[h].status # "absent"
  BY <1>0 DEF DeployInsert, IInv, CallsWellFormed
<1>2. table[i] \in Handles \cup {None} /\ table[i] # h
  BY <1>0, <1>1 DEF DeployInsert, IInv, TypeOK, OneOwner
<1>3. \A j \in Ids : table'[j] = IF j = i THEN h ELSE table[j]
  BY <1>0, <1>1 DEF DeployInsert, IInv, TypeOK
<1> DEFINE p == ProcWithout(proc, table[i])
<1>4. p \in [Handles -> ProcState] /\ \A g \in Handles : p[g] = IF g = table[i] THEN Absent ELSE proc[g]
  BY <1>2, WithoutType, NoneAssumption DEF ProcWithout, IInv, TypeOK
<1>5. proc' = [p EXCEPT ![h].late = freezed]
  BY <1>0 DEF DeployInsert
<1>6. \A g \in Handles :
                /\ g # h => proc'[g] = IF g = table[i] THEN Absent ELSE proc[g]
                /\ g = h => /\ proc'[g].late = freezed
                            /\ proc'[g].status = proc[g].status
                            /\ proc'[g].kill_tx = proc[g].kill_tx
  <2> HIDE DEF p
  <2> QED BY <1>1, <1>2, <1>4, <1>5 DEF ProcState
<1>7. table[i] = None => child' = child
  BY <1>0 DEF DeployInsert, ChildWithout
<1>8. table[i] # None => SenderClosed(table[i])
  BY <1>0, <1>2, DropSenderCloses DEF DeployInsert, ChildWithout, IInv
<1> QED BY <1>0, <1>1, <1>2, <1>3, <1>6, <1>7, <1>8 DEF Inserted

(* What the end of a wait task records.                                    *)
Finished(c, h) ==
    /\ \A g \in Handles : g # h => proc'[g] = proc[g]
    /\ proc[h] = Absent => proc' = proc
    /\ proc[h] # Absent => /\ proc'[h].status = child[c].res
                           /\ proc'[h].late = proc[h].late
                           /\ proc'[h].kill_tx = IF proc[h].kill_tx = c THEN None
                                                 ELSE proc[h].kill_tx
    /\ \A d \in Children : d # c => child'[d] = child[d]
    /\ child'[c] = Reaped(c)
    /\ child[c].res \notin {"Running", "absent"}

LEMMA FinishEffect ==
    ASSUME IInv, NEW c \in Children, TaskFinish(c)
    PROVE  \E h \in Handles : h = child[c].of /\ Finished(c, h)
<1>0. PICK h : h = child[c].of
  OBVIOUS
<1>1. h \in Handles /\ child[c].res \notin {"Running", "absent"}
  BY <1>0 DEF TaskFinish, IInv, ChildrenWellFormed
<1>2. (\A d \in Children : d # c => child'[d] = child[d]) /\ child'[c] = Reaped(c)
  BY DEF TaskFinish, IInv, TypeOK
<1>3. /\ \A g \in Handles : g # h => proc'[g] = proc[g]
      /\ proc[h] = Absent => proc' = proc
      /\ proc[h] # Absent => /\ proc'[h].status = child[c].res
                             /\ proc'[h].late = proc[h].late
                             /\ proc'[h].kill_tx = IF proc[h].kill_tx = c THEN None
                                                   ELSE proc[h].kill_tx
  BY <1>0, <1>1 DEF TaskFinish, Recorded, IInv, TypeOK, ProcState
<1> QED BY <1>0, <1>1, <1>2, <1>3 DEF Finished

-----------------------------------------------------------------------------
(* The freeze is for ever, and a settled id stays settled under it.        *)
LEMMA SettledStays ==
    ASSUME IInv, [Next]_vars, freezed, NEW i \in Ids, Settled(i)
    PROVE  Settled(i)'
<1>0. /\ table[i] \in Handles \cup {None}
      /\ table[i] # None => proc[table[i]].status # "absent"
  BY DEF IInv, TypeOK, OneOwner
<1>1. CASE UNCHANGED <<table, proc>>
  BY <1>1 DEF Settled
<1>2. ASSUME NEW k \in Callers, DeploySpawn(k)
      PROVE  Settled(i)'
  <2>1. PICK h \in Handles : /\ FreshHandle(h)
                             /\ \A g \in Handles : g # h => proc'[g] = proc[g]
    BY <1>2 DEF DeploySpawn, IInv, TypeOK
  <2>2. proc[h].status = "absent" /\ table' = table
    BY <1>2, <2>1 DEF DeploySpawn, FreshHandle, Absent
  <2>3. table[i] # None => table[i] # h /\ proc'[table[i]] = proc[table[i]]
    BY <1>0, <2>1, <2>2
  <2> QED BY <2>2, <2>3 DEF Settled
<1>3. ASSUME NEW k \in Callers, DeployInsert(k)
      PROVE  Settled(i)'
  <2>1. PICK j \in Ids, h \in Handles : Inserted(j, h)
    BY <1>3, InsertEffect
  <2>2. CASE i = j
    BY <2>1, <2>2 DEF Inserted, Settled
  <2>3. CASE i # j
    <3>1. table'[i] = table[i] /\ (table[i] # None => table[i] # table[j])
      BY <2>1, <2>3 DEF Inserted, IInv, OneOwner
    <3> QED BY <1>0, <2>1, <3>1 DEF Inserted, Settled
  <2> QED BY <2>2, <2>3
<1>4. ASSUME NEW k \in Callers, StartSpawn(k)
      PROVE  Settled(i)'
  <2>1. PICK c \in Children : proc' = [proc EXCEPT ![table[call[k].id]] = Started(c, freezed)]
    BY <1>4 DEF StartSpawn
  <2>2. table[call[k].id] \in Handles /\ table' = table
    BY <1>4 DEF StartSpawn, IInv, CallsWellFormed, TypeOK
  <2>3. CASE table[i] = table[call[k].id]
    <3>1. proc'[table[i]].late
      BY <2>1, <2>2, <2>3 DEF IInv, TypeOK, Started
    <3> QED BY <2>2, <3>1 DEF Settled
  <2>4. CASE table[i] # table[call[k].id]
    <3>1. table[i] # None => proc'[table[i]] = proc[table[i]]
      BY <1>0, <2>1, <2>2, <2>4 DEF IInv, TypeOK
    <3> QED BY <2>2, <3>1 DEF Settled
  <2> QED BY <2>3, <2>4
<1>5. ASSUME NEW h \in Handles, StopProcess(h), table' = table
      PROVE  Settled(i)'
  BY <1>0, <1>5, StopEffect DEF IInv, Settled
<1>6. ASSUME NEW j \in Ids, Erase(j)
      PROVE  Settled(i)'
  <2>1. table'[i] # None => table[i] # table[j]
    BY <1>6, EraseEffect DEF IInv, OneOwner
  <2> QED BY <1>0, <1>6, <2>1, EraseEffect DEF IInv, Settled
<1>7. ASSUME NEW c \in Children, TaskFinish(c)
      PROVE  Settled(i)'
  <2>1. PICK h \in Handles : Finished(c, h)
    BY <1>7, FinishEffect
  <2>2. table' = table
    BY <1>7 DEF TaskFinish
  <2> QED BY <1>0, <2>1, <2>2 DEF Finished, Settled
<1>8. ASSUME NEW k \in Callers, Request(k)
      PROVE  Settled(i)'
  <2>1. CASE \E j \in Ids : ClearVisit(k, j)
    BY <1>1, <1>6, <2>1 DEF ClearVisit
  <2>2. CASE RemoveErase(k)
    <3>1. call[k].id \in Ids /\ Erase(call[k].id)
      BY <2>2 DEF RemoveErase, IInv, CallsWellFormed
    <3> QED BY <1>6, <3>1
  <2>3. CASE ShutdownStop(k)
    <3>1. table[call[k].id] \in Handles /\ StopProcess(table[call[k].id]) /\ table' = table
      BY <2>3 DEF ShutdownStop, IInv, CallsWellFormed, TypeOK
    <3> QED BY <1>5, <3>1
  <2>4. CASE \/ \E j \in Ids : DeployFreeze(k, j) \/ StartCheck(k, j) \/ RemoveStarted(k, j)
             \/ DeployCheck(k) \/ SpawnFails(k) \/ RemoveRunning(k) \/ ClearBegin(k)
             \/ \E force \in BOOLEAN : ShutdownBegin(k, force)
             \/ \E j \in Ids : ShutdownVisit(k, j)
             \/ ShutdownNextRound(k) \/ ShutdownReturn(k)
    <3>1. UNCHANGED <<table, proc>>
      BY <2>4 DEF DeployFreeze, StartCheck, RemoveStarted, DeployCheck, SpawnFails,
                  RemoveRunning, ClearBegin, ShutdownBegin, ShutdownVisit,
                  ShutdownNextRound, ShutdownReturn
    <3> QED BY <1>1, <3>1
  <2> QED BY <1>2, <1>3, <1>4, <1>8, <2>1, <2>2, <2>3, <2>4 DEF Request
<1>9. ASSUME NEW j \in Ids, Stop(j)
      PROVE  Settled(i)'
  <2>1. table[j] \in Handles /\ StopProcess(table[j]) /\ table' = table
    BY <1>9 DEF Stop, IInv, TypeOK
  <2> QED BY <1>5, <2>1
<1>10. ASSUME NEW c \in Children,
              \/ ChildExits(c) \/ KillDelivered(c) \/ TaskSeesKill(c) \/ TaskSeesExit(c)
              \/ TaskReaps(c) \/ TaskWaitError(c)
       PROVE  Settled(i)'
  <2>1. UNCHANGED <<table, proc>>
    BY <1>10 DEF ChildExits, KillDelivered, TaskSeesKill, TaskSeesExit, TaskReaps, TaskWaitError
  <2> QED BY <1>1, <2>1
<1>11. CASE RocketExit
  BY <1>1, <1>11 DEF RocketExit
<1>12. CASE UNCHANGED vars
  BY <1>1, <1>12 DEF vars
<1> QED BY <1>7, <1>8, <1>9, <1>10, <1>11, <1>12 DEF Next, Task

(* Steps of everything but a shutdown.                                     *)
LEMMA NotScanning ==
    ASSUME IInv, ShutdownInv, [Next]_vars,
           freezed' = freezed, sdok' = sdok,
           \A q \in Callers : call'[q] = call[q] \/ ~Scanning(q)'
    PROVE  ShutdownInv'
<1>1. ASSUME NEW q \in Callers, Scanning(q)'
      PROVE  /\ freezed'
             /\ call'[q].pc = "sd_stop" => call'[q].running
             /\ ~call'[q].running => \A i \in Ids \ call'[q].todo : Settled(i)'
  <2>1. call'[q] = call[q] /\ Scanning(q)
    BY <1>1 DEF Scanning
  <2> QED BY <2>1, SettledStays DEF ShutdownInv
<1>2. sdok' => freezed' /\ \A i \in Ids : Settled(i)'
  BY SettledStays DEF ShutdownInv
<1> QED BY <1>1, <1>2 DEF ShutdownInv

(* Steps of the shutdown k.                                                *)
LEMMA ScanStep ==
    ASSUME IInv, ShutdownInv, [Next]_vars, NEW k \in Callers,
           \A q \in Callers : q # k => call'[q] = call[q],
           freezed',
           Scanning(k)' => /\ call'[k].pc = "sd_stop" => call'[k].running
                           /\ ~call'[k].running => \A i \in Ids \ call'[k].todo : Settled(i)',
           sdok' => sdok \/ \A i \in Ids : Settled(i)'
    PROVE  ShutdownInv'
<1>1. ASSUME NEW q \in Callers, q # k, Scanning(q)'
      PROVE  /\ call'[q].pc = "sd_stop" => call'[q].running
             /\ ~call'[q].running => \A i \in Ids \ call'[q].todo : Settled(i)'
  <2>1. call'[q] = call[q] /\ Scanning(q)
    BY <1>1 DEF Scanning
  <2> QED BY <2>1, SettledStays DEF ShutdownInv
<1>2. sdok' => freezed' /\ \A i \in Ids : Settled(i)'
  BY SettledStays DEF ShutdownInv
<1> QED BY <1>1, <1>2 DEF ShutdownInv

LEMMA ShutdownStep == IInv /\ ShutdownInv /\ [Next]_vars => ShutdownInv'
<1> SUFFICES ASSUME IInv, ShutdownInv, [Next]_vars PROVE ShutdownInv'
  OBVIOUS
<1>1. ASSUME NEW k \in Callers, NEW force \in BOOLEAN, ShutdownBegin(k, force)
      PROVE  ShutdownInv'
  <2>1. /\ \A q \in Callers : q # k => call'[q] = call[q]
        /\ call'[k] = [Idle EXCEPT !.pc = "sd_scan", !.todo = Ids, !.round = 1, !.force = force]
        /\ freezed' /\ sdok' = sdok
    BY <1>1 DEF ShutdownBegin, IInv, TypeOK
  <2>2. call'[k].pc = "sd_scan" /\ call'[k].todo = Ids
    BY <2>1 DEF Idle
  <2> QED BY <2>1, <2>2, ScanStep
<1>2. ASSUME NEW k \in Callers, NEW i \in Ids, ShutdownVisit(k, i)
      PROVE  ShutdownInv'
  <2>1. /\ \A q \in Callers : q # k => call'[q] = call[q]
        /\ Scanning(k) /\ UNCHANGED <<freezed, table, proc, sdok>>
    BY <1>2 DEF ShutdownVisit, Scanning, IInv, TypeOK
  <2>2. freezed /\ (~call[k].running => \A j \in Ids \ call[k].todo : Settled(j))
    BY <2>1 DEF ShutdownInv
  <2>3. CASE is_running(i)
    <3>1. call'[k].running
      BY <1>2, <2>3 DEF ShutdownVisit, IInv, TypeOK, CallState
    <3> QED BY <2>1, <2>2, <3>1, ScanStep
  <2>4. CASE ~is_running(i)
    <3>1. /\ call'[k].running = call[k].running
          /\ call'[k].todo = call[k].todo \ {i}
          /\ call'[k].pc = "sd_scan"
      BY <1>2, <2>4 DEF ShutdownVisit, IInv, TypeOK, CallState
    <3>2. Settled(i)
      BY <2>4 DEF is_running, Settled
    <3>3. ~call[k].running => \A j \in Ids \ call'[k].todo : Settled(j)
      BY <2>2, <3>1, <3>2
    <3>4. ~call[k].running => \A j \in Ids \ call'[k].todo : Settled(j)'
      BY <2>1, <3>3 DEF Settled
    <3> QED BY <2>1, <2>2, <3>1, <3>4, ScanStep
  <2> QED BY <2>3, <2>4
<1>3. ASSUME NEW k \in Callers, ShutdownStop(k)
      PROVE  ShutdownInv'
  <2>1. /\ \A q \in Callers : q # k => call'[q] = call[q]
        /\ Scanning(k) /\ call[k].pc = "sd_stop" /\ call'[k].running = call[k].running
        /\ freezed' = freezed /\ sdok' = sdok
    BY <1>3 DEF ShutdownStop, Scanning, IInv, TypeOK, CallState
  <2>2. freezed /\ call[k].running
    BY <2>1 DEF ShutdownInv
  <2> QED BY <2>1, <2>2, ScanStep
<1>4. ASSUME NEW k \in Callers, ShutdownNextRound(k)
      PROVE  ShutdownInv'
  <2>1. /\ \A q \in Callers : q # k => call'[q] = call[q]
        /\ Scanning(k) /\ call'[k].pc = "sd_scan" /\ call'[k].todo = Ids
        /\ freezed' = freezed /\ sdok' = sdok
    BY <1>4 DEF ShutdownNextRound, ScanDone, Scanning, IInv, TypeOK, CallState
  <2>2. freezed
    BY <2>1 DEF ShutdownInv
  <2> QED BY <2>1, <2>2, ScanStep
<1>5. ASSUME NEW k \in Callers, ShutdownReturn(k)
      PROVE  ShutdownInv'
  <2>1. /\ \A q \in Callers : q # k => call'[q] = call[q]
        /\ Scanning(k) /\ call'[k].pc = "idle" /\ call[k].todo = {}
        /\ UNCHANGED <<freezed, table, proc>>
        /\ sdok' => sdok \/ ~call[k].running
    BY <1>5, ReturnMoves DEF ShutdownReturn, ScanDone, Scanning, IInv, TypeOK
  <2>2. freezed /\ (~call[k].running => \A j \in Ids : Settled(j)')
    BY <2>1 DEF ShutdownInv, Settled
  <2>3. ~Scanning(k)'
    BY <2>1 DEF Scanning
  <2> QED BY <2>1, <2>2, <2>3, ScanStep
<1>6. ASSUME NEW k \in Callers,
             \/ \E i \in Ids : DeployFreeze(k, i) \/ StartCheck(k, i) \/ RemoveStarted(k, i)
             \/ DeployCheck(k) \/ RemoveRunning(k) \/ SpawnFails(k)
             \/ DeployInsert(k) \/ StartSpawn(k) \/ RemoveErase(k)
      PROVE  ShutdownInv'
  <2>1. /\ \A q \in Callers : q # k => call'[q] = call[q]
        /\ call'[k].pc \in {"idle", "deploy_check", "start_spawn", "remove_running",
                            "deploy_spawn", "remove_erase"}
    BY <1>6, ReturnMoves, GotoMoves
       DEF DeployFreeze, StartCheck, RemoveStarted, DeployCheck, RemoveRunning, SpawnFails,
           DeployInsert, StartSpawn, RemoveErase, IInv
  <2>2. freezed' = freezed /\ sdok' = sdok
    BY <1>6 DEF DeployFreeze, StartCheck, RemoveStarted, DeployCheck, RemoveRunning,
                SpawnFails, DeployInsert, StartSpawn, RemoveErase
  <2>3. ~Scanning(k)'
    BY <2>1 DEF Scanning
  <2> QED BY <2>1, <2>2, <2>3, NotScanning
<1>7. ASSUME NEW k \in Callers, DeploySpawn(k)
      PROVE  ShutdownInv'
  <2>1. /\ \A q \in Callers : q # k => call'[q] = call[q]
        /\ call'[k].pc = "deploy_insert"
        /\ freezed' = freezed /\ sdok' = sdok
    BY <1>7 DEF DeploySpawn, IInv, TypeOK, CallState
  <2> QED BY <2>1, NotScanning DEF Scanning
<1>8. ASSUME NEW k \in Callers, ClearBegin(k) \/ \E i \in Ids : ClearVisit(k, i)
      PROVE  ShutdownInv'
  <2>1. CASE ClearBegin(k)
    <3>1. /\ \A q \in Callers : q # k => call'[q] = call[q]
          /\ call'[k].pc = "clear"
          /\ freezed' = freezed /\ sdok' = sdok
      BY <2>1 DEF ClearBegin, Idle, IInv, TypeOK
    <3> QED BY <3>1, NotScanning DEF Scanning
  <2>2. ASSUME NEW i \in Ids, ClearVisit(k, i)
        PROVE  ShutdownInv'
    <3>1. CASE call[k].todo = {i}
      <4>1. /\ \A q \in Callers : q # k => call'[q] = call[q]
            /\ call'[k].pc = "idle"
            /\ freezed' = freezed /\ sdok' = sdok
        BY <2>2, <3>1, ReturnMoves DEF ClearVisit, IInv
      <4> QED BY <4>1, NotScanning DEF Scanning
    <3>2. CASE call[k].todo # {i}
      <4>1. /\ \A q \in Callers : q # k => call'[q] = call[q]
            /\ call'[k].pc = "clear"
            /\ freezed' = freezed /\ sdok' = sdok
        BY <2>2, <3>2 DEF ClearVisit, IInv, TypeOK, CallState
      <4> QED BY <4>1, NotScanning DEF Scanning
    <3> QED BY <3>1, <3>2
  <2> QED BY <1>8, <2>1, <2>2
<1>9. CASE UNCHANGED <<freezed, call, sdok>>
  BY <1>9, NotScanning
<1>10. ASSUME NEW k \in Callers, Request(k)
       PROVE  ShutdownInv'
  BY <1>1, <1>2, <1>3, <1>4, <1>5, <1>6, <1>7, <1>8, <1>10 DEF Request
<1>11. ASSUME NEW c \in Children,
              ChildExits(c) \/ KillDelivered(c) \/ Task(c) \/ TaskWaitError(c)
       PROVE  ShutdownInv'
  <2>1. UNCHANGED <<freezed, call, sdok>>
    BY <1>11 DEF Task, ChildExits, KillDelivered, TaskSeesKill, TaskSeesExit, TaskReaps,
                 TaskFinish, TaskWaitError
  <2> QED BY <1>9, <2>1
<1>12. CASE (\E i \in Ids : Stop(i)) \/ RocketExit \/ UNCHANGED vars
  <2>1. UNCHANGED <<freezed, call, sdok>>
    BY <1>12 DEF Stop, RocketExit, vars
  <2> QED BY <1>9, <2>1
<1> QED BY <1>10, <1>11, <1>12 DEF Next

-----------------------------------------------------------------------------
(* The supervisor implements ProcessTable.  What the client sees of a      *)
(* child, now and after a step.                                            *)
TableStep == [Table!Next]_(Table!vars)

LEMMA EntryNow ==
    ASSUME IInv, NEW c \in Children
    PROVE  /\ \A i \in Ids : table[i] # None /\ table[i] = child[c].of => EntryOf(c) = i
           /\ (\A i \in Ids : table[i] # None => table[i] # child[c].of) => EntryOf(c) = None
<1>1. \A i, j \in Ids : table[i] # None /\ table[i] = table[j] => i = j
  BY DEF IInv, OneOwner
<1> QED BY <1>1 DEF EntryOf

LEMMA EntryNext ==
    ASSUME IInv', NEW c \in Children
    PROVE  /\ \A i \in Ids : table'[i] # None /\ table'[i] = child'[c].of => EntryOf(c)' = i
           /\ (\A i \in Ids : table'[i] # None => table'[i] # child'[c].of) => EntryOf(c)' = None
<1>1. \A i, j \in Ids : table'[i] # None /\ table'[i] = table'[j] => i = j
  BY DEF IInv, OneOwner
<1> QED BY <1>1 DEF EntryOf

LEMMA StageNow ==
    ASSUME NEW c \in Children
    PROVE  /\ child[c] = NoChild => StageOf(c) = "free"
           /\ child[c] # NoChild /\ child[c].os # "live" => StageOf(c) = "dead"
           /\ child[c].os = "live" /\ child[c].chan # "open" => StageOf(c) = "doomed"
           /\ child[c].os = "live" /\ child[c].chan = "open" =>
                StageOf(c) = IF \E i \in Ids : table[i] = child[c].of THEN "owned" ELSE "new"
<1>1. child[c].os = "live" => child[c] # NoChild
  BY DEF NoChild
<1> QED BY <1>1 DEF StageOf, Live

LEMMA StageNext ==
    ASSUME NEW c \in Children
    PROVE  /\ child'[c] = NoChild => StageOf(c)' = "free"
           /\ child'[c] # NoChild /\ child'[c].os # "live" => StageOf(c)' = "dead"
           /\ child'[c].os = "live" /\ child'[c].chan # "open" => StageOf(c)' = "doomed"
           /\ child'[c].os = "live" /\ child'[c].chan = "open" =>
                StageOf(c)' = IF \E i \in Ids : table'[i] = child'[c].of THEN "owned" ELSE "new"
<1>1. child'[c].os = "live" => child'[c] # NoChild
  BY DEF NoChild
<1> QED BY <1>1 DEF StageOf, Live

LEMMA Unseen ==
    ASSUME \A i \in Ids : ReportOf(i)' = ReportOf(i),
           \A c \in Children : StageOf(c)' = StageOf(c),
           \A c \in Children : EntryOf(c)' = EntryOf(c)
    PROVE  TableStep
BY DEF TableStep, Table!vars

LEMMA ReportStays ==
    ASSUME NEW i \in Ids, table'[i] = table[i],
           table[i] # None => (proc'[table[i]].status = "Running" <=> proc[table[i]].status = "Running")
    PROVE  ReportOf(i)' = ReportOf(i)
BY DEF ReportOf, is_running

(* Steps of a request that touch neither the table nor a child.            *)
LEMMA MoveTable ==
    ASSUME IInv, Solo, UNCHANGED <<table, proc, child>>,
           \A q \in Callers :
               /\ call'[q].pc # "start_spawn"
               /\ call'[q].pc = "deploy_insert" => call'[q] = call[q]
    PROVE  Solo' /\ TableStep
<1>1. Solo'
  BY DEF Solo, ChildOK, SenderOK, Live
<1>2. /\ \A i \in Ids : ReportOf(i)' = ReportOf(i)
      /\ \A c \in Children : StageOf(c)' = StageOf(c)
      /\ \A c \in Children : EntryOf(c)' = EntryOf(c)
  BY DEF ReportOf, is_running, StageOf, EntryOf, Live
<1>3. TableStep
  BY <1>2, Unseen
<1> QED BY <1>1, <1>3

(* A child and its wait task move on, and the kill channel stays as it is. *)
LEMMA ChildTable ==
    ASSUME IInv, IInv', Solo, UNCHANGED <<table, proc, call>>, NEW c \in Children,
           \A d \in Children : d # c => child'[d] = child[d],
           child[c] # NoChild, child'[c].task # "none",
           child'[c].of = child[c].of, child'[c].chan = child[c].chan,
           child'[c].os = "live" => child[c].os = "live",
           child'[c].task = "finish" => child'[c].os # "live",
           child'[c].task = "kill" => child[c].chan # "open"
    PROVE  Solo' /\ TableStep
<1>1. child[c].of \in Handles /\ child'[c] # NoChild
  BY DEF Solo, ChildOK, NoChild
<1>2. Solo'
  <2>1. \A d \in Children : child'[d].of = child[d].of /\ child'[d].chan = child[d].chan
    OBVIOUS
  <2>2. \A d \in Children : ChildOK(d)'
    BY <1>1, <2>1 DEF Solo, ChildOK, Live
  <2>3. \A h \in Handles : SenderOK(h)'
    BY <2>1 DEF Solo, SenderOK, IInv, TypeOK, ProcState
  <2> QED BY <2>2, <2>3 DEF Solo
<1>3. \A i \in Ids : ReportOf(i)' = ReportOf(i)
  BY DEF ReportOf, is_running
<1>4. \A d \in Children : EntryOf(d)' = EntryOf(d)
  <2> SUFFICES ASSUME NEW d \in Children PROVE EntryOf(d)' = EntryOf(d)
    OBVIOUS
  <2>1. child'[d].of = child[d].of
    OBVIOUS
  <2> QED BY <2>1 DEF EntryOf
<1>5. \A d \in Children : d # c => StageOf(d)' = StageOf(d)
  BY DEF StageOf, Live
<1>6. CASE child'[c].os = "live" <=> child[c].os = "live"
  <2>1. StageOf(c)' = StageOf(c)
    BY <1>1, <1>6, StageNow, StageNext
  <2> QED BY <1>2, <1>3, <1>4, <1>5, <2>1, Unseen
<1>7. CASE child[c].os = "live" /\ child'[c].os # "live"
  <2>1. StageOf(c) \in {"new", "owned", "doomed"} /\ StageOf(c)' = "dead"
    BY <1>1, <1>7, StageNow, StageNext
  <2>2. Table!Die(c)
    BY <1>3, <1>4, <1>5, <2>1 DEF Table!Die
  <2> QED BY <1>2, <2>2 DEF TableStep, Table!Next
<1> QED BY <1>6, <1>7

LEMMA RocketTable ==
    ASSUME IInv, IInv', Solo, RocketExit
    PROVE  Solo' /\ TableStep
<1>1. ASSUME NEW d \in Children
      PROVE  /\ child'[d].of = child[d].of
             /\ child'[d].task = child[d].task
             /\ child'[d].chan = child[d].chan
             /\ child'[d].os # "live"
             /\ child'[d] = NoChild <=> child[d] = NoChild
  <2>1. child[d] \in ChildState
    BY DEF IInv, TypeOK
  <2>2. CASE child[d].os = "live"
    <3>1. child'[d] = [child[d] EXCEPT !.os = "killed"]
      BY <2>2 DEF RocketExit
    <3>2. child'[d].os = "killed"
      BY <2>1, <3>1 DEF ChildState
    <3> QED BY <2>1, <2>2, <3>1, <3>2 DEF ChildState, NoChild
  <2>3. CASE child[d].os # "live"
    BY <2>3 DEF RocketExit
  <2> QED BY <2>2, <2>3
<1>2. UNCHANGED <<table, proc, call>>
  BY DEF RocketExit
<1>3. Solo'
  <2>1. ASSUME NEW d \in Children PROVE ChildOK(d)'
    BY <1>1, <1>2 DEF Solo, ChildOK, Live
  <2>2. ASSUME NEW h \in Handles PROVE SenderOK(h)'
    <3>1. proc[h].kill_tx \in Children \cup {None}
      BY DEF IInv, TypeOK, ProcState
    <3> QED BY <1>1, <1>2, <3>1 DEF Solo, SenderOK
  <2> QED BY <1>2, <2>1, <2>2 DEF Solo
<1>4. \A i \in Ids : ReportOf(i)' = ReportOf(i)
  BY <1>2 DEF ReportOf, is_running
<1>5. ASSUME NEW d \in Children PROVE EntryOf(d)' = EntryOf(d)
  <2>1. child'[d].of = child[d].of
    BY <1>1
  <2> QED BY <1>2, <2>1 DEF EntryOf
<1>6. ASSUME NEW d \in Children
      PROVE  StageOf(d)' = IF StageOf(d) = "free" THEN "free" ELSE "dead"
  <2>1. CASE child[d] = NoChild
    BY <1>1, <2>1, StageNow, StageNext
  <2>2. CASE child[d] # NoChild
    <3>1. StageOf(d) # "free"
      BY <2>2, StageNow
    <3> QED BY <1>1, <2>2, <3>1, StageNext
  <2> QED BY <2>1, <2>2
<1>7. Table!Exit
  BY <1>4, <1>5, <1>6 DEF Table!Exit
<1> QED BY <1>3, <1>7 DEF TableStep, Table!Next

(* A living child whose channel is open is the one its handle would kill.  *)
LEMMA OpenIsOwned ==
    ASSUME IInv, Solo, NEW c \in Children, child[c].os = "live", child[c].chan = "open"
    PROVE  child[c].of \in Handles /\ proc[child[c].of].kill_tx = c
<1>1. child[c].of \in Handles /\ child[c].task \notin {"none", "finish", "kill"}
  BY DEF Solo, ChildOK, Live, NoChild
<1>2. child[c].task = "wait"
  BY <1>1 DEF IInv, TypeOK, ChildState
<1> QED BY <1>1, <1>2 DEF IInv, ChildOwned

(* The handle that leaves the table at id i takes its child with it.       *)
LEMMA Replaced ==
    ASSUME IInv, IInv', Solo, NEW i \in Ids,
           \A j \in Ids : j # i => table'[j] = table[j],
           table[i] = None => child' = child,
           table[i] # None => SenderClosed(table[i]) /\ table'[i] # table[i],
           NEW d \in Children, table'[i] # None => table'[i] # child[d].of
    PROVE  /\ StageOf(d)' = IF EntryOf(d) = i THEN Table!Doomed(StageOf(d)) ELSE StageOf(d)
           /\ EntryOf(d)' = IF EntryOf(d) = i THEN None ELSE EntryOf(d)
<1>1. table[i] \in Handles \cup {None} /\ child[d] \in ChildState
  BY DEF IInv, TypeOK
<1>2. child'[d].of = child[d].of /\ child'[d].os = child[d].os
  BY DEF SenderClosed
<1>3. child[d] # NoChild => child[d].of \in Handles
  BY DEF Solo, ChildOK
<1>4. CASE table[i] # None /\ child[d].of = table[i]
  <2>1. child[d] # NoChild /\ child'[d] # NoChild
    BY <1>2, <1>4 DEF NoChild
  <2>2. EntryOf(d) = i
    BY <1>4, EntryNow
  <2>3. \A j \in Ids : table'[j] # child[d].of
    BY <1>4 DEF IInv, OneOwner
  <2>4. EntryOf(d)' = None
    BY <1>2, <2>3, EntryNext
  <2>5. CASE child[d].os # "live"
    <3>1. StageOf(d) = "dead" /\ StageOf(d)' = "dead"
      BY <1>2, <2>1, <2>5, StageNow, StageNext
    <3> QED BY <2>2, <2>4, <3>1 DEF Table!Doomed
  <2>6. CASE child[d].os = "live"
    <3>1. child'[d].chan # "open"
      BY <1>4, <2>6, OpenIsOwned DEF SenderClosed
    <3>2. StageOf(d)' = "doomed"
      BY <1>2, <2>6, <3>1, StageNext
    <3>3. StageOf(d) \in {"doomed", "owned", "new"}
      BY <2>6, StageNow
    <3> QED BY <2>2, <2>4, <3>2, <3>3 DEF Table!Doomed
  <2> QED BY <2>5, <2>6
<1>5. CASE table[i] # None => child[d].of # table[i]
  <2>1. child'[d] = child[d]
    <3>1. CASE table[i] = None
      BY <3>1
    <3>2. CASE table[i] \in Handles
      <4>1. proc[table[i]].kill_tx = d => d # None /\ child[d].of = table[i]
        BY <3>2, NoneAssumption DEF Solo, SenderOK
      <4> QED BY <1>5, <3>2, <4>1, NoneAssumption DEF SenderClosed
    <3> QED BY <1>1, <3>1, <3>2
  <2>2. \A j \in Ids : child[d].of # None =>
          (table'[j] = child[d].of <=> table[j] = child[d].of)
    BY <1>5
  <2>3. StageOf(d)' = StageOf(d)
    <3>1. CASE child[d].os = "live"
      <4>1. child[d].of # None
        BY <1>3, <3>1, NoneAssumption DEF NoChild
      <4> QED BY <2>1, <2>2, <3>1, <4>1, StageNow, StageNext
    <3>2. CASE child[d].os # "live"
      BY <2>1, <3>2, StageNow, StageNext
    <3> QED BY <3>1, <3>2
  <2>4. CASE \E j \in Ids : table[j] # None /\ table[j] = child[d].of
    <3>1. PICK j \in Ids : table[j] # None /\ table[j] = child[d].of
      BY <2>4
    <3>2. j # i /\ table'[j] = table[j]
      BY <1>5, <3>1
    <3>3. EntryOf(d) = j /\ EntryOf(d)' = j
      BY <2>1, <3>1, <3>2, EntryNow, EntryNext
    <3> QED BY <2>3, <3>2, <3>3
  <2>5. CASE \A j \in Ids : table[j] # None => table[j] # child[d].of
    <3>1. \A j \in Ids : table'[j] # None => table'[j] # child'[d].of
      BY <2>1, <2>5
    <3>2. EntryOf(d) = None /\ EntryOf(d)' = None
      BY <2>5, <3>1, EntryNow, EntryNext
    <3> QED BY <2>3, <3>2, NoneAssumption
  <2> QED BY <2>4, <2>5
<1> QED BY <1>4, <1>5

(* The same handle: what remains true of every child and every sender.     *)
HandleDropped(i) ==
    /\ table[i] = None => child' = child
    /\ table[i] # None => SenderClosed(table[i])
    /\ \A g \in Handles :
         IF g = table[i] THEN proc'[g] = Absent
         ELSE proc'[g].status = proc[g].status /\ proc'[g].kill_tx = proc[g].kill_tx

LEMMA ReplacedSolo ==
    ASSUME IInv, IInv', Solo, NEW i \in Ids, HandleDropped(i),
           \A q \in Callers :
               /\ call'[q].pc # "start_spawn"
               /\ call'[q].pc = "deploy_insert" => call'[q] = call[q]
    PROVE  Solo'
<1>0. /\ table[i] = None => child' = child
      /\ table[i] # None => SenderClosed(table[i])
      /\ \A g \in Handles :
           IF g = table[i] THEN proc'[g] = Absent
           ELSE proc'[g].status = proc[g].status /\ proc'[g].kill_tx = proc[g].kill_tx
  BY DEF HandleDropped
<1> USE <1>0
<1>1. table[i] \in Handles \cup {None}
  BY DEF IInv, TypeOK
<1>2. ASSUME NEW d \in Children PROVE ChildOK(d)'
  <2>0. \A e \in Children : child'[e].of = child[e].of
    BY DEF SenderClosed
  <2>1. /\ child'[d].of = child[d].of /\ child'[d].os = child[d].os
        /\ child'[d].task = child[d].task
        /\ child'[d].chan = "open" => child[d].chan = "open"
    BY DEF SenderClosed
  <2>2. child[d].of # table[i] => child'[d] = child[d]
    <3>1. CASE table[i] = None
      BY <3>1
    <3>2. CASE table[i] \in Handles
      <4>1. proc[table[i]].kill_tx = d => d # None /\ child[d].of = table[i]
        BY <3>2, NoneAssumption DEF Solo, SenderOK
      <4> QED BY <3>2, <4>1, NoneAssumption DEF SenderClosed
    <3> QED BY <1>1, <3>1, <3>2
  <2>3. child'[d] # NoChild => child'[d].of \in Handles /\ child'[d].task # "none"
    <3>1. CASE table[i] = None
      BY <3>1 DEF Solo, ChildOK
    <3>2. CASE table[i] \in Handles /\ child[d].of = table[i]
      <4>1. child[d] # NoChild
        BY <3>2, NoneAssumption DEF NoChild
      <4> QED BY <2>1, <4>1 DEF Solo, ChildOK
    <3>3. CASE child[d].of # table[i]
      BY <2>2, <3>3 DEF Solo, ChildOK
    <3> QED BY <1>1, <3>1, <3>2, <3>3
  <2>4. child'[d].of \in Handles => proc'[child'[d].of].status \in {"Running", "absent"}
    <3> DEFINE g == child[d].of
    <3> SUFFICES ASSUME g \in Handles PROVE proc'[g].status \in {"Running", "absent"}
      BY <2>1
    <3>1. proc[g].status \in {"Running", "absent"}
      BY DEF Solo, ChildOK
    <3> HIDE DEF g
    <3> QED BY <3>1 DEF Absent
  <2>5. \A k \in Callers : call'[k].pc = "deploy_insert" /\ call'[k].h = child'[d].of
                           => child'[d].chan = "open"
    <3> SUFFICES ASSUME NEW k \in Callers, call[k].pc = "deploy_insert",
                        call[k].h = child[d].of, call'[k] = call[k]
                 PROVE  child'[d].chan = "open"
      BY <2>1
    <3>1. table[i] # child[d].of
      BY DEF IInv, OneOwner
    <3> QED BY <2>2, <3>1 DEF Solo, ChildOK
  <2>6. /\ child'[d].task = "finish" => ~Live(d)'
        /\ child'[d].task = "kill" => child'[d].chan # "open"
        /\ \A e \in Children : child'[d].of # None /\ child'[e].of = child'[d].of => e = d
    BY <2>0, <2>1 DEF Solo, ChildOK, Live
  <2> QED BY <2>3, <2>4, <2>5, <2>6 DEF ChildOK
<1>3. ASSUME NEW g \in Handles PROVE SenderOK(g)'
  <2>1. proc[g].kill_tx \in Children \cup {None}
    BY DEF IInv, TypeOK, ProcState
  <2>2. \A e \in Children : child'[e].of = child[e].of
    BY DEF SenderClosed
  <2> QED BY <2>1, <2>2 DEF Solo, SenderOK, Absent
<1> QED BY <1>2, <1>3 DEF Solo

LEMMA EraseTable ==
    ASSUME IInv, IInv', Solo, NEW i \in Ids, Erase(i),
           \A q \in Callers :
               /\ call'[q].pc # "start_spawn"
               /\ call'[q].pc = "deploy_insert" => call'[q] = call[q]
    PROVE  Solo' /\ TableStep
<1>1. /\ \A j \in Ids : table'[j] = IF j = i THEN None ELSE table[j]
      /\ \A g \in Handles : proc'[g] = IF g = table[i] THEN Absent ELSE proc[g]
      /\ table[i] = None => child' = child
      /\ table[i] # None => SenderClosed(table[i])
  BY EraseEffect DEF IInv
<1>2. Solo'
  <2>1. HandleDropped(i)
    BY <1>1 DEF HandleDropped
  <2> QED BY <2>1, ReplacedSolo
<1>3. ASSUME NEW d \in Children
      PROVE  /\ StageOf(d)' = IF EntryOf(d) = i THEN Table!Doomed(StageOf(d)) ELSE StageOf(d)
             /\ EntryOf(d)' = IF EntryOf(d) = i THEN None ELSE EntryOf(d)
  BY <1>1, Replaced
<1>4. ASSUME NEW j \in Ids
      PROVE  ReportOf(j)' = IF j = i THEN "none" ELSE ReportOf(j)
  <2>1. CASE j = i
    BY <1>1, <2>1 DEF ReportOf
  <2>2. CASE j # i
    <3>1. table'[j] = table[j] /\ (table[j] # None => table[j] \in Handles /\ table[j] # table[i])
      BY <1>1, <2>2 DEF IInv, OneOwner, TypeOK
    <3> QED BY <1>1, <2>2, <3>1, ReportStays
  <2> QED BY <2>1, <2>2
<1>5. Table!Remove(i)
  BY <1>3, <1>4 DEF Table!Remove, Table!Behind
<1> QED BY <1>2, <1>5 DEF TableStep, Table!Next

LEMMA InsertTable ==
    ASSUME IInv, IInv', Solo, NEW k \in Callers, DeployInsert(k)
    PROVE  Solo' /\ TableStep
<1>1. PICK i \in Ids, h \in Handles : i = call[k].id /\ h = call[k].h /\ Inserted(i, h)
  BY InsertEffect
<1>2. /\ table[i] # h /\ h # None
      /\ \A j \in Ids : table'[j] = IF j = i THEN h ELSE table[j]
      /\ table[i] = None => child' = child
      /\ table[i] # None => SenderClosed(table[i])
  BY <1>1, NoneAssumption DEF Inserted
<1>3. /\ \A q \in Callers : q # k => call'[q] = call[q]
      /\ call'[k].pc = "idle" /\ call[k].pc = "deploy_insert"
  BY ReturnMoves DEF DeployInsert, IInv
<1>4. Solo'
  <2>1. HandleDropped(i)
    BY <1>1 DEF Inserted, HandleDropped
  <2>2. \A q \in Callers : /\ call'[q].pc # "start_spawn"
                           /\ call'[q].pc = "deploy_insert" => call'[q] = call[q]
    BY <1>3 DEF Solo
  <2> QED BY <2>1, <2>2, ReplacedSolo
<1>5. ASSUME NEW d \in Children, child[d].of # h
      PROVE  /\ StageOf(d)' = IF EntryOf(d) = i THEN Table!Doomed(StageOf(d)) ELSE StageOf(d)
             /\ EntryOf(d)' = IF EntryOf(d) = i THEN None ELSE EntryOf(d)
  BY <1>2, <1>5, Replaced
<1>6. \A j \in Ids : table[j] # h
  BY <1>1, <1>3 DEF IInv, OneOwner
<1>7. ASSUME NEW j \in Ids, j # i
      PROVE  ReportOf(j)' = ReportOf(j)
  <2>1. /\ table'[j] = table[j]
        /\ table[j] # None => table[j] \in Handles /\ table[j] # table[i] /\ table[j] # h
    BY <1>2, <1>6, <1>7 DEF IInv, OneOwner, TypeOK
  <2>2. table[j] # None => proc'[table[j]] = proc[table[j]]
    BY <1>1, <2>1 DEF Inserted
  <2> QED BY <2>1, <2>2, ReportStays
<1>8. ReportOf(i)' = IF proc[h].status = "Running" THEN "up" ELSE "down"
  <2>1. table'[i] = h /\ proc'[h].status = proc[h].status
    BY <1>1, <1>2 DEF Inserted
  <2> QED BY <1>2, <2>1 DEF ReportOf, is_running
<1>9. CASE \E c \in Children : child[c].of = h
  <2>1. PICK c \in Children : child[c].of = h
    BY <1>9
  <2>2. /\ child[c] # NoChild
        /\ proc[h].status = "Running"
        /\ child[c].chan = "open"
        /\ \A d \in Children : d # c => child[d].of # h
    BY <1>1, <1>2, <1>3, <2>1 DEF Solo, ChildOK, NoChild, Inserted
  <2>3. child'[c] = child[c]
    <3>1. CASE table[i] = None
      BY <1>2, <3>1
    <3>2. CASE table[i] # None
      <4>1. table[i] \in Handles
        BY <3>2 DEF IInv, TypeOK
      <4>2. proc[table[i]].kill_tx # c
        BY <1>2, <2>1, <4>1, NoneAssumption DEF Solo, SenderOK
      <4> QED BY <1>2, <3>2, <4>2 DEF SenderClosed
    <3> QED BY <3>1, <3>2
  <2>4. EntryOf(c) = None /\ EntryOf(c)' = i
    BY <1>2, <1>6, <2>1, <2>3, EntryNow, EntryNext
  <2>5. /\ StageOf(c) \in {"new", "dead"}
        /\ StageOf(c)' = IF StageOf(c) = "new" THEN "owned" ELSE "dead"
    <3>1. CASE child[c].os = "live"
      <4>1. StageOf(c) = "new"
        BY <1>6, <2>1, <2>2, <3>1, StageNow
      <4>2. StageOf(c)' = "owned"
        BY <1>2, <2>1, <2>2, <2>3, <3>1, StageNext
      <4> QED BY <4>1, <4>2
    <3>2. CASE child[c].os # "live"
      <4>1. StageOf(c) = "dead" /\ StageOf(c)' = "dead"
        BY <2>2, <2>3, <3>2, StageNow, StageNext
      <4> QED BY <4>1
    <3> QED BY <3>1, <3>2
  <2>6. Table!Enter(i)
    BY <1>5, <1>7, <1>8, <2>2, <2>4, <2>5 DEF Table!Enter, Table!Behind
  <2> QED BY <1>4, <2>6 DEF TableStep, Table!Next
<1>10. CASE \A c \in Children : child[c].of # h
  <2>1. proc[h].status # "Running"
    BY <1>10 DEF IInv, RunningHasTask
  <2>2. Table!Enter(i)
    BY <1>5, <1>7, <1>8, <1>10, <2>1 DEF Table!Enter, Table!Behind
  <2> QED BY <1>4, <2>2 DEF TableStep, Table!Next
<1> QED BY <1>9, <1>10

LEMMA FinishTable ==
    ASSUME IInv, IInv', Solo, NEW c \in Children, TaskFinish(c)
    PROVE  Solo' /\ TableStep
<1>1. PICK h \in Handles : h = child[c].of /\ Finished(c, h)
  BY FinishEffect
<1>2. table' = table /\ call' = call /\ child[c].task = "finish"
  BY DEF TaskFinish
<1>3. /\ child[c].os # "live" /\ child[c] # NoChild
      /\ \A d \in Children : d # c => child[d].of # h
  BY <1>1, <1>2, NoneAssumption DEF Solo, ChildOK, Live, NoChild
<1>4. child'[c] = NoChild /\ \A d \in Children : d # c => child'[d] = child[d]
  BY <1>1, <1>3 DEF Finished, Reaped
<1>5. \A g \in Handles : g # h => proc'[g] = proc[g]
  BY <1>1 DEF Finished
<1>6. Solo'
  <2>1. ASSUME NEW d \in Children PROVE ChildOK(d)'
    <3>1. CASE d = c
      <4>1. child'[d] = NoChild /\ NoChild.of = None /\ NoChild.task = "none" /\ None \notin Handles
        BY <1>4, <3>1, NoneAssumption DEF NoChild
      <4>2. \A k \in Callers : call'[k].pc = "deploy_insert" => call'[k].h # None
        BY NoneAssumption DEF IInv, CallsWellFormed
      <4> QED BY <4>1, <4>2 DEF ChildOK, Live
    <3>2. CASE d # c
      <4>1. child'[d] = child[d] /\ child[d].of # h
        BY <1>3, <1>4, <3>2
      <4>2. child[d].of \in Handles => proc'[child[d].of] = proc[child[d].of]
        BY <1>5, <4>1
      <4>3. \A e \in Children : child'[e].of = child[e].of \/ child'[e].of = None
        BY <1>4 DEF NoChild
      <4> QED BY <1>2, <4>1, <4>2, <4>3 DEF Solo, ChildOK, Live
    <3> QED BY <3>1, <3>2
  <2>2. ASSUME NEW g \in Handles PROVE SenderOK(g)'
    <3>1. proc[g].kill_tx \in Children \cup {None} /\ SenderOK(g)
      BY DEF IInv, TypeOK, ProcState, Solo
    <3>2. CASE g = h
      <4>1. proc[h].kill_tx \in {c, None}
        BY <1>3, <3>1, <3>2 DEF SenderOK
      <4>2. proc'[h].kill_tx = None
        BY <1>1, <4>1 DEF Finished, Absent
      <4> QED BY <3>2, <4>2 DEF SenderOK
    <3>3. CASE g # h
      <4>1. proc[g].kill_tx # c
        BY <1>1, <3>1, <3>3, NoneAssumption DEF SenderOK
      <4> QED BY <1>4, <1>5, <3>1, <3>3, <4>1 DEF SenderOK
    <3> QED BY <3>2, <3>3
  <2> QED BY <1>2, <2>1, <2>2 DEF Solo
<1>7. StageOf(c) = "dead" /\ StageOf(c)' = "free"
  BY <1>3, <1>4, StageNow, StageNext
<1>8. EntryOf(c)' = None
  <2>1. \A j \in Ids : table'[j] # None => table'[j] # child'[c].of
    BY <1>4 DEF NoChild
  <2> QED BY <2>1, EntryNext
<1>9. ASSUME NEW d \in Children, d # c
      PROVE  StageOf(d)' = StageOf(d) /\ EntryOf(d)' = EntryOf(d)
  <2>1. child'[d] = child[d]
    BY <1>4, <1>9
  <2> QED BY <1>2, <2>1 DEF StageOf, EntryOf, Live
<1>10. ASSUME NEW j \in Ids
       PROVE  ReportOf(j)' = IF EntryOf(c) = j THEN "down" ELSE ReportOf(j)
  <2>1. CASE table[j] = h
    <3>1. EntryOf(c) = j
      BY <1>1, <2>1, EntryNow, NoneAssumption
    <3>2. proc[h] # Absent
      BY <2>1, NoneAssumption DEF IInv, OneOwner, Absent
    <3>3. proc'[h].status # "Running"
      BY <1>1, <3>2 DEF Finished
    <3> QED BY <1>2, <2>1, <3>1, <3>3, NoneAssumption DEF ReportOf, is_running
  <2>2. CASE table[j] # h
    <3>1. EntryOf(c) # j
      <4>1. CASE \E l \in Ids : table[l] = h
        BY <1>1, <2>2, <4>1, EntryNow, NoneAssumption
      <4>2. CASE \A l \in Ids : table[l] # h
        BY <1>1, <4>2, EntryNow, NoneAssumption
      <4> QED BY <4>1, <4>2
    <3>2. table[j] # None => table[j] \in Handles
      BY DEF IInv, TypeOK
    <3>3. ReportOf(j)' = ReportOf(j)
      BY <1>2, <1>5, <2>2, <3>2, ReportStays
    <3> QED BY <3>1, <3>3
  <2> QED BY <2>1, <2>2
<1>11. Table!Reap(c)
  BY <1>7, <1>8, <1>9, <1>10 DEF Table!Reap
<1> QED BY <1>6, <1>11 DEF TableStep, Table!Next

LEMMA SpawnTable ==
    ASSUME IInv, IInv', Solo, NEW k \in Callers, DeploySpawn(k)
    PROVE  Solo' /\ TableStep
<1>1. PICK h \in Handles, c \in Children :
        /\ FreshHandle(h) /\ FreshChild(c)
        /\ proc' = [proc EXCEPT ![h] = Started(c, FALSE)]
        /\ child' = [child EXCEPT ![c] = Spawned(h)]
        /\ call' = [call EXCEPT ![k].pc = "deploy_insert", ![k].h = h]
  BY DEF DeploySpawn
<1>2. /\ \A g \in Handles : g # h => proc'[g] = proc[g]
      /\ proc'[h].kill_tx = c /\ proc'[h].status = "Running"
      /\ proc[h].status = "absent"
  BY <1>1 DEF IInv, TypeOK, Started, FreshHandle, Absent
<1>3. /\ \A d \in Children : d # c => child'[d] = child[d] /\ child[d].of # h
      /\ child'[c] = Spawned(h) /\ child[c] = NoChild
      /\ child'[c].of = h /\ child'[c].os = "live" /\ child'[c].chan = "open"
      /\ child'[c].task = "wait"
  BY <1>1 DEF IInv, TypeOK, Spawned, FreshHandle, FreshChild
<1>4. /\ \A q \in Callers : q # k => call'[q] = call[q]
      /\ call'[k].pc = "deploy_insert" /\ call'[k].h = h /\ table' = table
  BY <1>1 DEF DeploySpawn, IInv, TypeOK, CallState
<1>5. \A i \in Ids : table[i] # h
  BY <1>2, NoneAssumption DEF IInv, OneOwner
<1>6. Solo'
  <2>1. ASSUME NEW d \in Children PROVE ChildOK(d)'
    <3>1. CASE d = c
      BY <1>2, <1>3, <3>1 DEF ChildOK
    <3>2. CASE d # c
      <4>1. child'[d] = child[d] /\ child[d].of # h
        BY <1>3, <3>2
      <4>2. child[d].of \in Handles => proc'[child[d].of] = proc[child[d].of]
        BY <1>2, <4>1
      <4>3. \A e \in Children : child'[e].of = child[e].of \/ child'[e].of = h
        BY <1>3
      <4>4. \A q \in Callers : call'[q].pc = "deploy_insert" => call'[q] = call[q] \/ call'[q].h = h
        BY <1>4
      <4>5. ChildOK(d)
        BY DEF Solo
      <4> QED BY <4>1, <4>2, <4>3, <4>4, <4>5 DEF ChildOK, Live
    <3> QED BY <3>1, <3>2
  <2>2. ASSUME NEW g \in Handles PROVE SenderOK(g)'
    <3>1. CASE g = h
      BY <1>2, <1>3, <3>1 DEF SenderOK
    <3>2. CASE g # h
      <4>1. proc[g].kill_tx \in Children \cup {None} /\ SenderOK(g)
        BY DEF IInv, TypeOK, ProcState, Solo
      <4>2. proc[g].kill_tx # c
        BY <1>3, <4>1, NoneAssumption DEF SenderOK, NoChild
      <4> QED BY <1>2, <1>3, <3>2, <4>1, <4>2 DEF SenderOK
    <3> QED BY <3>1, <3>2
  <2> QED BY <1>4, <2>1, <2>2 DEF Solo
<1>7. StageOf(c) = "free" /\ StageOf(c)' = "new"
  BY <1>3, <1>4, <1>5, StageNow, StageNext
<1>8. EntryOf(c) = None /\ EntryOf(c)' = None
  <2>1. NoChild.of = None
    BY DEF NoChild
  <2> QED BY <1>3, <1>4, <1>5, <2>1, EntryNow, EntryNext
<1>9. ASSUME NEW d \in Children, d # c
      PROVE  StageOf(d)' = StageOf(d) /\ EntryOf(d)' = EntryOf(d)
  <2>1. child'[d] = child[d]
    BY <1>3, <1>9
  <2> QED BY <1>4, <2>1 DEF StageOf, EntryOf, Live
<1>10. ASSUME NEW j \in Ids PROVE ReportOf(j)' = ReportOf(j)
  <2>1. table[j] # None => table[j] \in Handles
    BY DEF IInv, TypeOK
  <2> QED BY <1>2, <1>4, <1>5, <2>1, ReportStays
<1>11. Table!Spawn(c)
  BY <1>7, <1>8, <1>9, <1>10 DEF Table!Spawn
<1> QED BY <1>6, <1>11 DEF TableStep, Table!Next

LEMMA StopTable ==
    ASSUME IInv, IInv', Solo, NEW i \in Ids, table[i] # None, StopProcess(table[i]),
           table' = table,
           \A q \in Callers :
               /\ call'[q].pc # "start_spawn"
               /\ call'[q].pc = "deploy_insert" => call'[q] = call[q]
    PROVE  Solo' /\ TableStep
<1>1. PICK h \in Handles : h = table[i]
  BY DEF IInv, TypeOK
<1>2. StopProcess(h)
  BY <1>1
<1>3. SenderClosed(h)
  BY <1>2, StopCloses DEF IInv
<1>4. /\ \A g \in Handles : g # h => proc'[g] = proc[g]
      /\ proc'[h].kill_tx = None
      /\ proc'[h].status = "Running" <=> proc[h].status = "Running"
      /\ proc'[h].status = "absent" <=> proc[h].status = "absent"
  BY <1>2, StopEffect DEF IInv
<1>5. ASSUME NEW d \in Children
      PROVE  /\ child'[d].of = child[d].of /\ child'[d].os = child[d].os
             /\ child'[d].task = child[d].task
             /\ child[d].of # h => child'[d] = child[d]
             /\ child'[d].chan = "open" => child[d].chan = "open"
             /\ child'[d] = NoChild <=> child[d] = NoChild
  <2>1. proc[h].kill_tx = d => child[d].of = h
    BY NoneAssumption DEF Solo, SenderOK
  <2>2. child[d].of = h => child[d] # NoChild
    BY NoneAssumption DEF NoChild
  <2>3. child'[d].of = h => child'[d] # NoChild
    BY NoneAssumption DEF NoChild
  <2> QED BY <1>3, <2>1, <2>2, <2>3 DEF SenderClosed
<1>6. Solo'
  <2>1. ASSUME NEW d \in Children PROVE ChildOK(d)'
    <3>1. ChildOK(d)
      BY DEF Solo
    <3>2. \A g \in Handles : proc[g].status \in {"Running", "absent"} =>
                              proc'[g].status \in {"Running", "absent"}
      BY <1>4
    <3>3. ASSUME NEW q \in Callers, call'[q].pc = "deploy_insert", call'[q].h = child'[d].of
          PROVE  child'[d].chan = "open"
      <4>1. call'[q] = call[q]
        BY <3>3
      <4>2. call[q].h # h /\ call[q].h = child[d].of
        BY <1>1, <1>5, <3>3, <4>1 DEF IInv, OneOwner
      <4> QED BY <1>5, <3>1, <3>3, <4>1, <4>2 DEF ChildOK
    <3>4. child'[d].of \in Handles => proc'[child'[d].of].status \in {"Running", "absent"}
      BY <1>5, <3>1, <3>2 DEF ChildOK
    <3>5. \A e \in Children : child'[e].of = child[e].of
      BY <1>5
    <3> QED BY <1>5, <3>1, <3>3, <3>4, <3>5 DEF ChildOK, Live
  <2>2. ASSUME NEW g \in Handles PROVE SenderOK(g)'
    <3>1. proc[g].kill_tx \in Children \cup {None} /\ SenderOK(g)
      BY DEF IInv, TypeOK, ProcState, Solo
    <3> QED BY <1>4, <1>5, <3>1 DEF SenderOK
  <2> QED BY <2>1, <2>2 DEF Solo
<1>7. ASSUME NEW j \in Ids PROVE ReportOf(j)' = ReportOf(j)
  <2>1. table[j] # None => table[j] \in Handles
    BY DEF IInv, TypeOK
  <2> QED BY <1>4, <2>1, ReportStays
<1>8. ASSUME NEW d \in Children PROVE EntryOf(d)' = EntryOf(d)
  <2>1. child'[d].of = child[d].of
    BY <1>5
  <2> QED BY <2>1 DEF EntryOf
<1>9. ASSUME NEW d \in Children
      PROVE  \/ StageOf(d)' = StageOf(d)
             \/ child[d].of = h /\ StageOf(d) = "owned" /\ StageOf(d)' = "doomed"
  <2>1. CASE child[d].of # h
    BY <1>5, <2>1 DEF StageOf, Live
  <2>2. CASE child[d].of = h /\ child[d].os = "live" /\ child[d].chan = "open"
    <3>1. proc[h].kill_tx = d
      BY <2>2, OpenIsOwned
    <3>2. child'[d].chan # "open" /\ child'[d].os = "live"
      BY <1>3, <1>5, <2>2, <3>1 DEF SenderClosed
    <3>3. StageOf(d) = "owned"
      BY <1>1, <2>2, StageNow
    <3>4. StageOf(d)' = "doomed"
      BY <3>2, StageNext
    <3> QED BY <2>2, <3>3, <3>4
  <2>3. CASE child[d].of = h /\ child[d].os = "live" /\ child[d].chan # "open"
    BY <1>5, <2>3, StageNow, StageNext
  <2>4. CASE child[d].of = h /\ child[d].os # "live"
    BY <1>5, <2>4, StageNow, StageNext
  <2> QED BY <2>1, <2>2, <2>3, <2>4
<1>10. CASE \A d \in Children : StageOf(d)' = StageOf(d)
  BY <1>6, <1>7, <1>8, <1>10, Unseen
<1>11. CASE \E d \in Children : StageOf(d)' # StageOf(d)
  <2>1. PICK c \in Children : StageOf(c)' # StageOf(c)
    BY <1>11
  <2>2. child[c].of = h /\ StageOf(c) = "owned" /\ StageOf(c)' = "doomed"
    BY <1>9, <2>1
  <2>3. \A d \in Children : d # c => child[d].of # h
    BY <2>2, NoneAssumption DEF Solo, ChildOK
  <2>4. \A d \in Children : d # c => StageOf(d)' = StageOf(d)
    BY <1>9, <2>3
  <2>5. Table!Doom(c)
    BY <1>7, <1>8, <2>2, <2>4 DEF Table!Doom
  <2> QED BY <1>6, <2>5 DEF TableStep, Table!Next
<1> QED BY <1>10, <1>11

(* Every step, for a client that never calls start.                        *)
LEMMA SoloStep ==
    ASSUME "start" \notin Calls
    PROVE  IInv /\ Solo /\ [Next]_vars => Solo' /\ TableStep
<1> SUFFICES ASSUME IInv, Solo, [Next]_vars PROVE Solo' /\ TableStep
  OBVIOUS
<1>0. IInv'
  BY StepInv
<1>1. \A q \in Callers : call[q].pc # "start_spawn"
  BY DEF Solo
<1>2. ASSUME NEW k \in Callers,
             \/ \E i \in Ids : DeployFreeze(k, i) \/ StartCheck(k, i) \/ RemoveStarted(k, i)
             \/ DeployCheck(k) \/ RemoveRunning(k) \/ SpawnFails(k) \/ ClearBegin(k)
             \/ \E force \in BOOLEAN : ShutdownBegin(k, force)
             \/ \E i \in Ids : ShutdownVisit(k, i)
             \/ ShutdownNextRound(k) \/ ShutdownReturn(k)
      PROVE  Solo' /\ TableStep
  <2>1. UNCHANGED <<table, proc, child>>
    BY <1>2 DEF DeployFreeze, StartCheck, RemoveStarted, DeployCheck, SpawnFails,
                RemoveRunning, ClearBegin, ShutdownBegin, ShutdownVisit,
                ShutdownNextRound, ShutdownReturn
  <2>2. CASE \/ \E i \in Ids : DeployFreeze(k, i) \/ StartCheck(k, i) \/ RemoveStarted(k, i)
             \/ DeployCheck(k) \/ RemoveRunning(k) \/ SpawnFails(k) \/ ShutdownReturn(k)
    <3>1. /\ \A q \in Callers : q # k => call'[q] = call[q]
          /\ call'[k].pc \in {"idle", "deploy_check", "remove_running", "deploy_spawn",
                              "remove_erase"}
      BY <2>2, ReturnMoves, GotoMoves
         DEF DeployFreeze, StartCheck, CanCall, RemoveStarted, DeployCheck, RemoveRunning,
             SpawnFails, ShutdownReturn, IInv
    <3> QED BY <1>1, <2>1, <3>1, MoveTable
  <2>3. CASE ClearBegin(k) \/ \E force \in BOOLEAN : ShutdownBegin(k, force)
    <3>1. /\ \A q \in Callers : q # k => call'[q] = call[q]
          /\ call'[k].pc \in {"clear", "sd_scan"}
      BY <2>3 DEF ClearBegin, ShutdownBegin, Idle, IInv, TypeOK
    <3> QED BY <1>1, <2>1, <3>1, MoveTable
  <2>4. CASE (\E i \in Ids : ShutdownVisit(k, i)) \/ ShutdownNextRound(k)
    <3>1. /\ \A q \in Callers : q # k => call'[q] = call[q]
          /\ call'[k].pc \in {"sd_scan", "sd_stop"}
      <4>1. call[k] \in CallState /\ call \in [Callers -> CallState]
        BY DEF IInv, TypeOK
      <4>2. CASE ShutdownNextRound(k)
        BY <4>1, <4>2 DEF ShutdownNextRound, ScanDone, CallState
      <4>3. ASSUME NEW i \in Ids, ShutdownVisit(k, i)
            PROVE  /\ \A q \in Callers : q # k => call'[q] = call[q]
                   /\ call'[k].pc \in {"sd_scan", "sd_stop"}
        BY <4>1, <4>3 DEF ShutdownVisit, CallState
      <4> QED BY <2>4, <4>2, <4>3
    <3> QED BY <1>1, <2>1, <3>1, MoveTable
  <2> QED BY <1>2, <2>2, <2>3, <2>4
<1>3. ASSUME NEW k \in Callers, RemoveErase(k)
      PROVE  Solo' /\ TableStep
  <2>1. /\ \A q \in Callers : q # k => call'[q] = call[q]
        /\ call'[k].pc = "idle" /\ call[k].id \in Ids /\ Erase(call[k].id)
    BY <1>3, ReturnMoves DEF RemoveErase, IInv, CallsWellFormed
  <2> QED BY <1>0, <1>1, <2>1, EraseTable
<1>4. ASSUME NEW k \in Callers, NEW i \in Ids, ClearVisit(k, i)
      PROVE  Solo' /\ TableStep
  <2>1. /\ \A q \in Callers : q # k => call'[q] = call[q]
        /\ call'[k].pc \in {"idle", "clear"}
    <3>1. CASE call[k].todo = {i}
      BY <1>4, <3>1, ReturnMoves DEF ClearVisit, IInv
    <3>2. CASE call[k].todo # {i}
      BY <1>4, <3>2 DEF ClearVisit, IInv, TypeOK, CallState
    <3> QED BY <3>1, <3>2
  <2>2. CASE ClearKeeps(i)
    BY <1>1, <1>4, <2>1, <2>2, MoveTable DEF ClearVisit
  <2>3. CASE ~ClearKeeps(i)
    BY <1>0, <1>1, <1>4, <2>1, <2>3, EraseTable DEF ClearVisit
  <2> QED BY <2>2, <2>3
<1>5. ASSUME NEW k \in Callers, ShutdownStop(k)
      PROVE  Solo' /\ TableStep
  <2>1. /\ \A q \in Callers : q # k => call'[q] = call[q]
        /\ call'[k].pc = "sd_scan"
    BY <1>5 DEF ShutdownStop, IInv, TypeOK, CallState
  <2>2. /\ call[k].id \in Ids /\ table[call[k].id] # None
        /\ StopProcess(table[call[k].id]) /\ table' = table
    BY <1>5 DEF ShutdownStop, IInv, CallsWellFormed
  <2> QED BY <1>0, <1>1, <2>1, <2>2, StopTable
<1>6. ASSUME NEW i \in Ids, Stop(i)
      PROVE  Solo' /\ TableStep
  BY <1>0, <1>1, <1>6, StopTable DEF Stop
<1>7. ASSUME NEW k \in Callers, Request(k)
      PROVE  Solo' /\ TableStep
  <2>1. ~StartSpawn(k)
    BY <1>1 DEF StartSpawn
  <2> QED BY <1>0, <1>2, <1>3, <1>4, <1>5, <1>7, <2>1, SpawnTable, InsertTable DEF Request
<1>8. ASSUME NEW c \in Children,
             \/ ChildExits(c) \/ KillDelivered(c) \/ TaskSeesKill(c) \/ TaskSeesExit(c)
             \/ TaskReaps(c) \/ TaskWaitError(c)
      PROVE  Solo' /\ TableStep
  <2>1. child[c] \in ChildState /\ child \in [Children -> ChildState]
    BY DEF IInv, TypeOK
  <2>2. child[c] # NoChild /\ child[c].task # "none"
    BY <1>8 DEF ChildExits, KillDelivered, TaskSeesKill, TaskSeesExit, TaskReaps,
                TaskWaitError, NoChild, Solo, ChildOK
  <2>3. UNCHANGED <<table, proc, call>>
    BY <1>8 DEF ChildExits, KillDelivered, TaskSeesKill, TaskSeesExit, TaskReaps, TaskWaitError
  <2>4. /\ child[c].task = "finish" => child[c].os # "live"
        /\ child[c].task = "kill" => child[c].chan # "open"
    BY DEF Solo, ChildOK, Live
  <2>5. \A d \in Children : d # c => child'[d] = child[d]
    BY <1>8, <2>1 DEF ChildExits, KillDelivered, TaskSeesKill, TaskSeesExit, TaskReaps,
                      TaskWaitError
  <2>6. /\ child'[c].of = child[c].of /\ child'[c].chan = child[c].chan
        /\ child'[c].task # "none"
        /\ child'[c].os = "live" => child[c].os = "live"
        /\ child'[c].task = "finish" => child'[c].os # "live"
        /\ child'[c].task = "kill" => child[c].chan # "open"
    <3>1. CASE ChildExits(c) \/ KillDelivered(c)
      <4>1. PICK os \in {"exit0", "exitN", "killed"} : child' = [child EXCEPT ![c].os = os]
        BY <3>1 DEF ChildExits, KillDelivered
      <4> QED BY <2>1, <2>2, <2>4, <4>1 DEF ChildState
    <3>2. CASE TaskSeesKill(c)
      BY <2>1, <3>2 DEF TaskSeesKill, ChildState
    <3>3. CASE TaskSeesExit(c)
      BY <2>1, <3>3 DEF TaskSeesExit, ChildState
    <3>4. CASE TaskReaps(c)
      BY <2>1, <3>4 DEF TaskReaps, ChildState
    <3>5. CASE TaskWaitError(c)
      BY <2>1, <3>5 DEF TaskWaitError, ChildState
    <3> QED BY <1>8, <3>1, <3>2, <3>3, <3>4, <3>5
  <2> QED BY <1>0, <2>2, <2>3, <2>5, <2>6, ChildTable
<1>9. CASE UNCHANGED vars
  BY <1>1, <1>9, MoveTable DEF vars
<1> QED BY <1>0, <1>6, <1>7, <1>8, <1>9, FinishTable, RocketTable DEF Next, Task

LEMMA SoloInit == Init => Solo /\ ShutdownInv /\ Table!Init
<1> SUFFICES ASSUME Init PROVE Solo /\ ShutdownInv /\ Table!Init
  OBVIOUS
<1>1. Solo
  BY DEF Init, Solo, ChildOK, SenderOK, NoChild, Absent, Idle, Live
<1>2. ShutdownInv
  BY DEF Init, ShutdownInv, Scanning, Idle
<1>3. ASSUME NEW c \in Children PROVE StageOf(c) = "free" /\ EntryOf(c) = None
  <2>1. child[c] = NoChild /\ \A i \in Ids : table[i] = None
    BY DEF Init
  <2> QED BY <2>1, StageNow DEF EntryOf
<1>4. \A i \in Ids : ReportOf(i) = "none"
  BY DEF Init, ReportOf
<1>5. Table!Init
  BY <1>3, <1>4 DEF Table!Init
<1> QED BY <1>1, <1>2, <1>5

(* The supervisor, used by a client that never calls start on a process it *)
(* has, implements the table of processes: with handles, kill channels,    *)
(* wait tasks, map references and rounds of a shutdown interleaved in any  *)
(* way, every step is a step of ProcessTable or changes nothing of it.     *)
THEOREM ImplementsTableHolds ==
    ASSUME "start" \notin Calls
    PROVE  Spec => ImplementsTable
<1>1. Init => Table!Init
  BY SoloInit
<1>2. IInv /\ Solo /\ [Next]_vars => [Table!Next]_(Table!vars)
  BY SoloStep DEF TableStep
<1>3. IInv /\ Solo /\ [Next]_vars => Solo'
  BY SoloStep
<1>4. Init => Solo
  BY SoloInit
<1> QED BY <1>1, <1>2, <1>3, <1>4, InvariantHolds, PTL DEF Spec, ImplementsTable, Table!Spec

(* For such a client, a process reported as not running has no child alive. *)
THEOREM StoppedMeansDeadHolds ==
    ASSUME "start" \notin Calls
    PROVE  Spec => []StoppedMeansDead
<1>1. IInv /\ Solo => StoppedMeansDead
  <2> SUFFICES ASSUME IInv, Solo, NEW i \in Ids, table[i] # None, ~is_running(i),
                      NEW c \in Children, child[c].of = table[i], Live(c)
               PROVE  FALSE
    BY DEF StoppedMeansDead
  <2>1. table[i] \in Handles /\ proc[table[i]].status \notin {"absent", "Running"}
    BY DEF IInv, OneOwner, TypeOK, is_running
  <2> QED BY <2>1 DEF Solo, ChildOK
<1>2. IInv /\ Solo /\ [Next]_vars => Solo'
  BY SoloStep
<1>3. Init => Solo
  BY SoloInit
<1> QED BY <1>1, <1>2, <1>3, InvariantHolds, PTL DEF Spec

(* What shutdown establishes, for every client: the freeze lasts, and when *)
(* it has returned Ok every entry is not Running or came late.             *)
THEOREM ShutdownInvHolds == Spec => []ShutdownInv
<1>1. Init => ShutdownInv
  BY SoloInit
<1> QED BY <1>1, ShutdownStep, InvariantHolds, PTL DEF Spec

(* For a client that never calls start, a shutdown that returned Ok left   *)
(* nothing alive in the table but what overtook the freeze.                *)
THEOREM ShutdownQuietHolds ==
    ASSUME "start" \notin Calls
    PROVE  Spec => []ShutdownQuiet
<1>1. StoppedMeansDead /\ ShutdownInv => ShutdownQuiet
  BY DEF StoppedMeansDead, ShutdownInv, Settled, ShutdownQuiet, is_running
<1> QED BY <1>1, StoppedMeansDeadHolds, ShutdownInvHolds, PTL
=============================================================================
