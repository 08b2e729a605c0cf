---------------------------- MODULE MCVmLifecycle ----------------------------
(* Instances of VmLifecycle for TLC. *)
EXTENDS VmLifecycle, TLC

Symmetry == Permutations(Threads)
=============================================================================
