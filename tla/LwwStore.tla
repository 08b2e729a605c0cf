------------------------------ MODULE LwwStore ------------------------------
(***************************************************************************)
(* The replicated store of the gateways (wavekv), as the gateway uses it:  *)
(* a key has a version on every node, a write makes a later version, and   *)
(* a merge keeps the later of two.  There is no compare-and-swap: two      *)
(* nodes that have not seen each other's writes overwrite one another.     *)
(*                                                                         *)
(* The library compares wall-clock times with tie-breakers.  Here a write  *)
(* is later than the version it replaces, which assumes the synchronized   *)
(* clocks that docs/cluster-deployment.md asks for, and writes that have   *)
(* not seen each other are ordered by the number of versions below them    *)
(* and then by node.                                                       *)
(***************************************************************************)
EXTENDS Integers

(* A key nobody wrote, a write by node n over version v.                   *)
Unwritten(val) == [stamp |-> 0, by |-> 0, val |-> val]
Written(v, n, val) == [stamp |-> v.stamp + 1, by |-> n, val |-> val]

Later(a, b) == a.stamp > b.stamp \/ (a.stamp = b.stamp /\ a.by > b.by)

(* What a merge leaves.                                                    *)
Newest(a, b) == IF Later(a, b) THEN a ELSE b
=============================================================================
