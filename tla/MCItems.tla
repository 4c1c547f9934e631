------------------------------ MODULE MCItems -------------------------------
(* Items for TLC.  Requests, owners, names and statuses are interchangeable. *)
EXTENDS Items, TLC

Symmetry == Permutations(Requests) \cup Permutations(Owners) \cup Permutations(Names)
              \cup Permutations(Statuses)

=============================================================================
