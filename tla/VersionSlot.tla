----------------------------- MODULE VersionSlot -----------------------------
(***************************************************************************)
(* What `comfyctl instance install` promises a caller that waits for it:   *)
(* one slot that holds a version or none, and installs that either put     *)
(* their version there and report success, or leave it as it is and report *)
(* an error, in one step.  Module InstanceInstall implements it for        *)
(* installs in turn; the host of module ControlPlane takes it for granted. *)
(***************************************************************************)

CONSTANTS
  Installers,   \* the installs, each the version it builds
  Base,         \* the version there before them, if there is one
  NoVersion,    \* the slot is empty
  Errors        \* what a failed install may report

VARIABLES
  version,      \* what is in the slot
  answer        \* answer[i]: what install i has reported, "none" before it has

SlotInit ==
  /\ version \in {NoVersion, Base}
  /\ answer = [i \in Installers |-> "none"]

Succeed(i) ==
  /\ answer[i] = "none"
  /\ version' = i
  /\ answer' = [answer EXCEPT ![i] = "ok"]

Refuse(i) ==
  /\ answer[i] = "none"
  /\ \E error \in Errors : answer' = [answer EXCEPT ![i] = error]
  /\ UNCHANGED version

SlotNext == \E i \in Installers : Succeed(i) \/ Refuse(i)

SlotSpec == SlotInit /\ [][SlotNext]_<<version, answer>>

=============================================================================
