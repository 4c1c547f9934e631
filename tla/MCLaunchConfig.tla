--------------------------- MODULE MCLaunchConfig ---------------------------
(* LaunchConfig for TLC.  Requests of one kind, ports and GPUs are            *)
(* interchangeable.                                                           *)
EXTENDS LaunchConfig, TLC

Symmetry == Permutations(Patches) \cup Permutations(Starts) \cup Permutations(Hosted)
              \cup Permutations(Ports) \cup Permutations(Gpus)

=============================================================================
