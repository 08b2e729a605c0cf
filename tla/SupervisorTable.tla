--------------------------- MODULE SupervisorTable ---------------------------
(* The supervisor implements ProcessTable for a client that, like the VMM, *)
(* never calls start on an existing process.                               *)
EXTENDS Supervisor

ReportOf(i) == IF table[i] = None THEN "none" ELSE IF is_running(i) THEN "up" ELSE "down"

StageOf(c) ==
    CASE child[c] = NoChild -> "free"
      [] child[c] # NoChild /\ ~Live(c) -> "dead"
      [] Live(c) /\ child[c].chan # "open" -> "doomed"
      [] Live(c) /\ child[c].chan = "open" ->
           IF \E i \in Ids : table[i] = child[c].of THEN "owned" ELSE "new"

EntryOf(c) ==
    IF \E i \in Ids : table[i] # None /\ table[i] = child[c].of
    THEN CHOOSE i \in Ids : table[i] = child[c].of
    ELSE None

Table == INSTANCE ProcessTable WITH
    report <- [i \in Ids |-> ReportOf(i)],
    stage <- [c \in Children |-> StageOf(c)],
    entry <- [c \in Children |-> EntryOf(c)]

(* Whatever deploys, stops, removals, clears and shutdowns overlap, with   *)
(* children that exit by themselves at any moment, the client sees a table *)
(* with one process per entry: an entry turns down only when its process   *)
(* is dead, what it replaces or removes is doomed, and a doomed process    *)
(* never becomes owned again.                                              *)
ImplementsTable == Table!Spec
=============================================================================
