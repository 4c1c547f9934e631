----------------------------- MODULE ActiveTree ------------------------------
(***************************************************************************)
(* What `comfyctl instance start`, `stop` and `status` see of installs: the *)
(* checkout that is in place, and whether a virtual environment is.         *)
(* Module InstanceProcess runs the commands over it; module InstanceInstall *)
(* implements it, whatever installs race, fail or are killed.               *)
(***************************************************************************)

CONSTANTS
  Versions,       \* versions an install may make active
  NoVersion       \* there is no checkout

VARIABLES
  tree,      \* the active version: tree.checkout, and whether tree.venv exists
  spare      \* versions no install has made active yet

\* A fresh instance, or one with a version completely installed.
TreeInit ==
  \/ tree = [checkout |-> NoVersion, venv |-> FALSE] /\ spare = Versions
  \/ \E v \in Versions : tree = [checkout |-> v, venv |-> TRUE] /\ spare = Versions \ {v}

\* promote_install moves the active checkout away, then the active venv, then
\* puts its own checkout in place and then its venv.  An install that fails
\* half-way leaves the rest to the next one, and racing installs mix their
\* moves; whoever parks has a version that is still to be placed.
ParkCheckout ==
  /\ tree.checkout # NoVersion /\ spare # {}
  /\ tree' = [tree EXCEPT !.checkout = NoVersion]
  /\ UNCHANGED spare

ParkVenv ==
  /\ tree.venv /\ spare # {}
  /\ tree' = [tree EXCEPT !.venv = FALSE]
  /\ UNCHANGED spare

\* A version comes into place once, and only where there is none.
PlaceCheckout(v) ==
  /\ tree.checkout = NoVersion /\ v \in spare
  /\ tree' = [tree EXCEPT !.checkout = v]
  /\ spare' = spare \ {v}

PlaceVenv ==
  /\ ~tree.venv /\ spare # Versions
  /\ tree' = [tree EXCEPT !.venv = TRUE]
  /\ UNCHANGED spare

TreeNext == ParkCheckout \/ ParkVenv \/ PlaceVenv \/ \E v \in Versions : PlaceCheckout(v)

TreeSpec == TreeInit /\ [][TreeNext]_<<tree, spare>>

=============================================================================
