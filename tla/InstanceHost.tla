---------------------------- MODULE InstanceHost -----------------------------
(***************************************************************************)
(* One instance directory with everything that works on it: the installs   *)
(* of module InstanceInstall, which move the active trees, and the starts, *)
(* stops and processes of module InstanceProcess, which see of them what   *)
(* is in place.  A step of the composition is a step of one of the two.    *)
(*                                                                         *)
(* The two components are proved apart, each against module ActiveTree;    *)
(* the theorems below say that what is proved of each holds of both at     *)
(* work at once.                                                           *)
(***************************************************************************)
EXTENDS TLAPS

CONSTANTS
  Starts, Stops, Pids, NoPid, Ports, Foreign, SerialCommands, Thieves, CtlCrashes, Faults,
  Installers, Base, NoTree, Nobody, SerialInstalls, Crashes, IOFaults

VARIABLES
  proc, pidFile, pc, arg, pid, target, res,                 \* commands and processes
  lock, step, slot, report, active, previous, staging       \* installs

I == INSTANCE InstanceInstallProofs WITH Serial <- SerialInstalls, pc <- step, res <- report

P == INSTANCE InstanceProcessProofs WITH
       Serial <- SerialCommands, Versions <- I!Version, NoVersion <- NoTree,
       tree <- I!Seen, spare <- I!Unplaced

commands == <<proc, pidFile, pc, arg, pid, target, res>>
installs == <<lock, step, slot, report, active, previous, staging>>
vars == <<commands, installs>>

Init == I!Init /\ P!Init

\* A command goes on or is killed, or a process of the host does something.
CommandStep ==
  /\ UNCHANGED installs
  /\ \/ \E c \in P!Cmds : P!Begin(c) \/ P!StepOf(c) \/ P!CtlCrash(c)
     \/ \E p \in Pids : P!HostStep(p)

InstallStep == I!Next /\ UNCHANGED commands

Next == CommandStep \/ InstallStep

Spec == Init /\ [][Next]_vars

-----------------------------------------------------------------------------
(* Theorems                                                                  *)

\* What both components assume of their constants.
HostAssumption == I!ConstantsAssumption /\ P!ConstantsAssumption

\* The commands leave the installs alone.
THEOREM HostRunsInstalls == Spec => I!Spec
<1>1. [Next]_vars => [I!Next]_(I!vars)
  BY DEF Next, CommandStep, InstallStep, vars, installs, I!vars
<1> QED BY <1>1, PTL DEF Spec, Init, I!Spec

\* A move of an install is one that the commands reckon with.
LEMMA InstallIsReckonedWith ==
  ASSUME InstallStep, [I!View!TreeNext]_<<I!Seen, I!Unplaced>>
  PROVE  [P!Next]_(P!vars)
<1>1. UNCHANGED <<proc, pidFile, P!ctl>>
  BY DEF InstallStep, commands, P!ctl
<1>2. CASE I!View!TreeNext
  <2>1. P!TreeNext
    BY <1>2 DEF I!View!TreeNext, I!View!ParkCheckout, I!View!ParkVenv, I!View!PlaceCheckout,
                I!View!PlaceVenv, P!TreeNext, P!ParkCheckout, P!ParkVenv, P!PlaceCheckout,
                P!PlaceVenv
  <2> QED BY <1>1, <2>1 DEF P!Next, P!Install
<1>3. CASE UNCHANGED <<I!Seen, I!Unplaced>>
  BY <1>1, <1>3 DEF P!vars
<1> QED BY <1>2, <1>3

\* A step of a command leaves what is in place as it is.
LEMMA CommandSeesNoMove ==
  ASSUME CommandStep
  PROVE  P!Next
<1>1. UNCHANGED I!Unplaced
  BY DEF CommandStep, installs, I!Unplaced, I!WasActive
<1> QED BY <1>1 DEF CommandStep, P!Next

\* Over the instance directory as installs really leave it, racing, killed and
\* failing half-way, starts and stops behave as module InstanceProcess says
\* (command_instance_start and command_instance_stop over promote_install).
THEOREM HostRunsCommands ==
  ASSUME HostAssumption
  PROVE  Spec => P!Spec
<1>1. [Next]_vars /\ [I!View!TreeNext]_<<I!Seen, I!Unplaced>> => [P!Next]_(P!vars)
  <2> SUFFICES ASSUME [Next]_vars, [I!View!TreeNext]_<<I!Seen, I!Unplaced>>
               PROVE  [P!Next]_(P!vars)
    OBVIOUS
  <2>1. CASE UNCHANGED vars
    <3>1. UNCHANGED <<proc, pidFile, P!ctl, I!Seen, I!Unplaced>>
      BY <2>1 DEF vars, commands, P!ctl, installs, I!Seen, I!Unplaced, I!WasActive
    <3> QED BY <3>1 DEF P!vars
  <2> QED BY <2>1, InstallIsReckonedWith, CommandSeesNoMove DEF Next
<1>2. I!Spec => [][I!View!TreeNext]_<<I!Seen, I!Unplaced>>
  <2>1. I!Spec => I!View!TreeSpec
    BY I!InstallsImplementTree DEF HostAssumption, I!ImplementsTree
  <2> QED BY <2>1, PTL DEF I!View!TreeSpec
<1> QED BY <1>1, <1>2, HostRunsInstalls, PTL DEF Spec, Init, P!Spec

\* While installs move the trees under them, a signal of comfyctl reaches only
\* the instance's own processes, a start that fails leaves none unless the system
\* made it, and a process that is reported stopped is gone.
THEOREM CommandsKeepTheirWord ==
  ASSUME HostAssumption
  PROVE  Spec => [](P!SignalsOnlyOwn /\ P!OnlyFaultsLeaveChildren /\ P!StoppedMeansGone)
<1>1. P!Spec => []P!SignalsOnlyOwn
  BY P!SignalsStayAtHome DEF HostAssumption
<1>2. P!Spec => []P!OnlyFaultsLeaveChildren
  BY P!FailedStartsCleanUp DEF HostAssumption
<1>3. P!Spec => []P!StoppedMeansGone
  BY P!StoppedIsGone DEF HostAssumption
<1> QED BY <1>1, <1>2, <1>3, HostRunsCommands, PTL

\* While starts and stops are at work, no install loses a tree, and one that
\* reports success has its trees on disk.
THEOREM InstallsKeepTheirWord ==
  ASSUME HostAssumption
  PROVE  Spec => []I!SuccessIsOnDisk /\ I!InstalledNeverLost
<1>1. I!Spec => []I!SuccessIsOnDisk
  BY I!SuccessStaysOnDisk DEF HostAssumption
<1>2. I!Spec => I!InstalledNeverLost
  BY I!NothingInstalledIsLost DEF HostAssumption
<1> QED BY <1>1, <1>2, HostRunsInstalls, PTL

=============================================================================
