---------------------------- MODULE MCCertRenewal ----------------------------
(* Instances of CertRenewal for TLC: task 3 runs on node 1, the others on  *)
(* node 0.                                                                 *)
EXTENDS CertRenewal

MCNodeOf == [t \in Tasks |-> IF t = 3 THEN 1 ELSE 0]

Failures == {"CA", "crash"}
AllFaults == Failures \cup {"operator"}

Renewals == [ops |-> {"renew"}, tasks |-> Tasks, account |-> TRUE, faults |-> Failures]
Imports == [ops |-> {"renew", "import"}, tasks |-> Tasks \ {3}, account |-> TRUE, faults |-> AllFaults]
Accounts == [ops |-> {"rotate", "ensure", "caa"}, tasks |-> Tasks \ {2}, account |-> FALSE,
             faults |-> Failures]
FirstUse == [ops |-> {"renew", "ensure", "caa"}, tasks |-> Tasks \ {3}, account |-> FALSE,
             faults |-> AllFaults]

(* Renewals of two nodes, a renewal beside an import on one node, the      *)
(* operations on the account of two nodes, and, on one node, a renewal     *)
(* beside them when the cluster has no account yet.  Forced releases,      *)
(* which void the claim about their lease, are left to the scenarios of    *)
(* one node: with them the first has four times as many states.            *)
MCScenarios == {[Renewals EXCEPT !.tasks = @ \ {2}], Imports, Accounts, FirstUse}
MCRenewals == {Renewals}
MCReloads == {Renewals, Accounts}
=============================================================================
