--------------------------- MODULE MCControlPlane ---------------------------
(* ControlPlane for TLC.  RequestsAnswered is a liveness property, so there is *)
(* no symmetry.                                                                *)
EXTENDS ControlPlane

=============================================================================
