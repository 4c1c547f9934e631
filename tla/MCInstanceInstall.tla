-------------------------- MODULE MCInstanceInstall --------------------------
(* InstanceInstall for TLC.  The installs are interchangeable. *)
EXTENDS InstanceInstall, TLC

Symmetry == Permutations(Installers)

=============================================================================
