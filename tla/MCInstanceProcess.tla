-------------------------- MODULE MCInstanceProcess --------------------------
(* InstanceProcess for TLC.  Process ids and invocations are interchangeable. *)
EXTENDS InstanceProcess, TLC

Symmetry == Permutations(Starts) \cup Permutations(Stops) \cup Permutations(Pids)

=============================================================================
