----------------------------- MODULE MCSupervisor -----------------------------
(* Instances of Supervisor for TLC. *)
EXTENDS SupervisorTable, TLC

Symmetry == Permutations(Ids) \cup Permutations(Callers) \cup Permutations(Handles)
            \cup Permutations(Children)
=============================================================================
