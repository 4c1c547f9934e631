--------------------------- MODULE InstanceInstall ---------------------------
(***************************************************************************)
(* `comfyctl instance install` for one instance directory                  *)
(* (comfyctl/cli.py, command_instance_install and promote_install).        *)
(*                                                                         *)
(* An install builds a new checkout and virtual environment in a staging   *)
(* directory of its own, parks what is active under .previous, moves the   *)
(* staged trees into place and writes the manifest.  Several invocations   *)
(* can run at once: the control plane starts one per HTTP request and      *)
(* keeps no lock of its own.  What they share is the instance directory:   *)
(* the lock file and the three active entries.                             *)
(*                                                                         *)
(* Every invocation is a member of Installers, and names the version it    *)
(* builds, so two invocations never build the same tree.                   *)
(***************************************************************************)
EXTENDS Naturals

CONSTANTS
  Installers,   \* the install invocations, each runs at most once
  Base,         \* the version active before the first of them, if there is one
  NoTree,       \* an entry, or the inside of a tree, holds no version
  Nobody,       \* content of the lock when the file does not exist
  Serial,       \* TRUE: callers wait for an install to end before the next
  Crashes,      \* TRUE: an invocation may be killed between two steps
  IOFaults      \* TRUE: a file operation of an install may raise OSError

ASSUME ConstantsAssumption ==
  /\ Base \notin Installers
  /\ NoTree \notin Installers \cup {Base}
  /\ Nobody \notin Installers
  /\ Serial \in BOOLEAN /\ Crashes \in BOOLEAN /\ IOFaults \in BOOLEAN

VARIABLES
  lock,         \* instance.lock: Nobody, or the invocation whose pid it holds
  pc,           \* pc[i]: where invocation i is
  slot,         \* slot[i]: the active entry i's promotion has come to
  res,          \* res[i]: the outcome i reports (or will report)
  active,       \* active[s]: trees found at the instance's entry s
  previous,     \* previous[i]: what i parked under .previous/install-<i>
  staging       \* staging[i]: the trees in .staging/install-<i>

vars == <<lock, pc, slot, res, active, previous, staging>>

-----------------------------------------------------------------------------
(* Types                                                                     *)

Version == Installers \cup {Base}

\* The entries of an instance directory that a promotion replaces, in the
\* order it parks them.
Slots == {"checkout", "venv", "manifest"}
Trees == {"checkout", "venv"}

\* What is found at an entry: nothing, a tree, or a tree with a second one
\* inside it (what shutil.move leaves when its target is a directory).
Entry == [outer : Version \cup {NoTree}, inner : Version \cup {NoTree}]
Empty == [outer |-> NoTree, inner |-> NoTree]
Tree(v) == [outer |-> v, inner |-> NoTree]

Building  == {"clone", "uv_venv", "torch_pip", "pip", "torch_check"}
Promoting == {"test", "move", "place_checkout", "place_venv", "write_manifest"}
Locked    == Building \cup Promoting \cup {"cleanup"}
Live      == Locked \cup {"checked"}
Ended     == {"done", "failed", "crashed"}

Results == {"none", "ok", "INSTANCE_LOCKED", "DEPENDENCY_MISSING", "REQUEST_INVALID",
            "GIT_FAILED", "UV_FAILED", "PYTHON_DEPENDENCY_FAILED",
            "OS_ERROR", "LOCK_FILE_ERROR"}
\* The last two are tracebacks without JSON: an OSError, of the lock file itself
\* in the last.

TypeOK ==
  /\ lock \in Installers \cup {Nobody}
  /\ pc \in [Installers -> {"idle"} \cup Live \cup Ended]
  /\ slot \in [Installers -> Slots]
  /\ res \in [Installers -> Results]
  /\ active \in [Slots -> Entry]
  /\ previous \in [Installers -> [Slots -> Entry]]
  /\ staging \in [Installers -> SUBSET Trees]

\* A fresh instance, or one with Base completely installed.
Init ==
  /\ lock = Nobody
  /\ pc = [i \in Installers |-> "idle"]
  /\ slot = [i \in Installers |-> "checkout"]
  /\ res = [i \in Installers |-> "none"]
  /\ active \in { [s \in Slots |-> Empty], [s \in Slots |-> Tree(Base)] }
  /\ previous = [i \in Installers |-> [s \in Slots |-> Empty]]
  /\ staging = [i \in Installers |-> {}]

-----------------------------------------------------------------------------
(* command_instance_install, up to the lock                                  *)

\* The caller's assumption when Serial holds: no other install is under way.
MayBegin(i) == Serial => \A j \in Installers : pc[j] \notin Live

\* A directory cannot be made, git or uv is missing, or the torch profile is
\* unknown: the command fails before it looks at the lock.
RequireFails(i) ==
  /\ pc[i] = "idle" /\ MayBegin(i)
  /\ pc' = [pc EXCEPT ![i] = "failed"]
  /\ \E error \in {"DEPENDENCY_MISSING", "REQUEST_INVALID"} \cup IF IOFaults THEN {"OS_ERROR"} ELSE {} :
       res' = [res EXCEPT ![i] = error]
  /\ UNCHANGED <<lock, slot, active, previous, staging>>

\* Mutant: the lock is not looked at.
CheckLockIgnored(i) ==
  /\ pc[i] = "idle" /\ MayBegin(i)
  /\ pc' = [pc EXCEPT ![i] = "checked"]
  /\ UNCHANGED <<lock, slot, res, active, previous, staging>>

\* `if paths.lock.exists(): raise ...`: only the existence of the file counts.
CheckLock(i) ==
  /\ pc[i] = "idle" /\ MayBegin(i)
  /\ \/ /\ lock # Nobody
        /\ pc' = [pc EXCEPT ![i] = "failed"]
        /\ res' = [res EXCEPT ![i] = "INSTANCE_LOCKED"]
     \/ /\ lock = Nobody
        /\ pc' = [pc EXCEPT ![i] = "checked"]
        /\ UNCHANGED res
  /\ UNCHANGED <<lock, slot, active, previous, staging>>

\* `paths.lock.write_text(...)`, a second system call: it overwrites whatever
\* lock was created since CheckLock.
WriteLock(i) ==
  /\ pc[i] = "checked"
  /\ lock' = i
  /\ pc' = [pc EXCEPT ![i] = "clone"]
  /\ UNCHANGED <<slot, res, active, previous, staging>>

\* The write raises, before the file is there or after: the try block has not
\* been entered, so the install ends and what it wrote stays.
WriteLockFails(i) ==
  /\ pc[i] = "checked"
  /\ lock' \in {lock, i}
  /\ pc' = [pc EXCEPT ![i] = "failed"]
  /\ res' = [res EXCEPT ![i] = "LOCK_FILE_ERROR"]
  /\ UNCHANGED <<slot, active, previous, staging>>

-----------------------------------------------------------------------------
(* Building in the private staging directory                                 *)

\* The external commands in order.  Without a requirements.txt the packages
\* are skipped; the profile "requirements" skips the separate torch install.
NextStages ==
  [clone       |-> {"uv_venv"},
   uv_venv     |-> {"torch_pip", "pip", "test"},
   torch_pip   |-> {"pip"},
   pip         |-> {"torch_check"},
   torch_check |-> {"test"}]

\* What a command adds to the staging directory (the packages go into the
\* environment that is there already).
Adds(stage) ==
  CASE stage = "clone" -> {"checkout"} [] stage = "uv_venv" -> {"venv"} [] OTHER -> {}

\* The errors a command can be reported as.
StageErrors ==
  [clone       |-> {"GIT_FAILED"},
   uv_venv     |-> {"UV_FAILED"},
   torch_pip   |-> {"REQUEST_INVALID", "PYTHON_DEPENDENCY_FAILED"},
   pip         |-> {"PYTHON_DEPENDENCY_FAILED"},
   torch_check |-> {"PYTHON_DEPENDENCY_FAILED"}]

Build(i) ==
  /\ pc[i] \in Building
  /\ \E stage \in NextStages[pc[i]] : pc' = [pc EXCEPT ![i] = stage]
  /\ staging' = [staging EXCEPT ![i] = @ \cup Adds(pc[i])]
  /\ UNCHANGED <<lock, slot, res, active, previous>>

\* Mutant: a failing command returns past the finally clause.
BuildFailsNoFinally(i) ==
  /\ pc[i] \in Building
  /\ pc' = [pc EXCEPT ![i] = "failed"]
  /\ \E error \in StageErrors[pc[i]] : res' = [res EXCEPT ![i] = error]
  /\ UNCHANGED <<lock, slot, active, previous, staging>>

\* A failing command raises CommandFailure; the finally clause comes next.
BuildFails(i) ==
  /\ pc[i] \in Building
  /\ pc' = [pc EXCEPT ![i] = "cleanup"]
  /\ \E error \in StageErrors[pc[i]] : res' = [res EXCEPT ![i] = error]
  /\ UNCHANGED <<lock, slot, active, previous, staging>>

-----------------------------------------------------------------------------
(* promote_install                                                           *)

AfterParking == [checkout |-> "venv", venv |-> "manifest", manifest |-> "manifest"]

\* Go on with the next entry, or with the staged checkout after the last.
NextSlot(i) ==
  /\ slot' = [slot EXCEPT ![i] = AfterParking[@]]
  /\ pc' = [pc EXCEPT ![i] = IF slot[i] = "manifest" THEN "place_checkout" ELSE "test"]

\* An exception inside the try block that is not a CommandFailure: the finally
\* clause runs, then comfyctl ends with a traceback and no JSON on stdout.
PromoteError(i) ==
  /\ pc' = [pc EXCEPT ![i] = "cleanup"]
  /\ res' = [res EXCEPT ![i] = "OS_ERROR"]
  /\ UNCHANGED <<lock, slot, active, previous, staging>>

\* `if source.exists()`
ParkTest(i) ==
  /\ pc[i] = "test"
  /\ IF active[slot[i]] = Empty
       THEN NextSlot(i)
       ELSE pc' = [pc EXCEPT ![i] = "move"] /\ UNCHANGED slot
  /\ UNCHANGED <<lock, res, active, previous, staging>>

\* Mutant: the active entry is deleted instead of parked.
ParkMoveDeletes(i) ==
  /\ pc[i] = "move"
  /\ active' = [active EXCEPT ![slot[i]] = Empty]
  /\ NextSlot(i)
  /\ UNCHANGED <<lock, res, previous, staging>>

\* `shutil.move(source, previous_root / name)`; the entry may have been moved
\* away by another install since ParkTest.
ParkMove(i) ==
  /\ pc[i] = "move"
  /\ \/ /\ active[slot[i]] # Empty
        /\ previous' = [previous EXCEPT ![i][slot[i]] = active[slot[i]]]
        /\ active' = [active EXCEPT ![slot[i]] = Empty]
        /\ NextSlot(i)
        /\ UNCHANGED <<lock, res, staging>>
     \/ /\ active[slot[i]] = Empty
        /\ PromoteError(i)

\* Mutant: a tree that is there is replaced.
PlaceReplaces(i, t, next) ==
  /\ active' = [active EXCEPT ![t] = Tree(i)]
  /\ staging' = [staging EXCEPT ![i] = @ \ {t}]
  /\ pc' = [pc EXCEPT ![i] = next]
  /\ UNCHANGED <<lock, slot, res, previous>>

\* shutil.move of tree t from staging to its active entry: into the tree that
\* is there already, if one is, and an error if that holds one as well.
Place(i, t, next) ==
  \/ /\ active[t].inner = NoTree
     /\ active' = [active EXCEPT ![t] = IF @ = Empty THEN Tree(i)
                                       ELSE [@ EXCEPT !.inner = i]]
     /\ staging' = [staging EXCEPT ![i] = @ \ {t}]
     /\ pc' = [pc EXCEPT ![i] = next]
     /\ UNCHANGED <<lock, slot, res, previous>>
  \/ /\ active[t].inner # NoTree
     /\ PromoteError(i)

\* Mutant: the staged environment is not moved.
PlaceVenvForgotten(i) ==
  /\ pc[i] = "place_venv"
  /\ pc' = [pc EXCEPT ![i] = "write_manifest"]
  /\ UNCHANGED <<lock, slot, res, active, previous, staging>>

PlaceCheckout(i) == pc[i] = "place_checkout" /\ Place(i, "checkout", "place_venv")
PlaceVenv(i)     == pc[i] = "place_venv" /\ Place(i, "venv", "write_manifest")

\* Mutant: success is reported without the new manifest.
WriteManifestSkipped(i) ==
  /\ pc[i] = "write_manifest"
  /\ res' = [res EXCEPT ![i] = "ok"]
  /\ pc' = [pc EXCEPT ![i] = "cleanup"]
  /\ UNCHANGED <<lock, slot, active, previous, staging>>

\* Mutant: what follows the manifest inside the try block raises.
WriteManifestRaises(i) ==
  /\ pc[i] = "write_manifest"
  /\ active' = [active EXCEPT !["manifest"] = Tree(i)]
  /\ res' = [res EXCEPT ![i] = "OS_ERROR"]
  /\ pc' = [pc EXCEPT ![i] = "cleanup"]
  /\ UNCHANGED <<lock, slot, previous, staging>>

\* write_manifest overwrites the file.
WriteManifest(i) ==
  /\ pc[i] = "write_manifest"
  /\ active' = [active EXCEPT !["manifest"] = Tree(i)]
  /\ res' = [res EXCEPT ![i] = "ok"]
  /\ pc' = [pc EXCEPT ![i] = "cleanup"]
  /\ UNCHANGED <<lock, slot, previous, staging>>

\* A directory, log file, move or manifest inside the try block that the file
\* system refuses.
TryFails(i) ==
  /\ pc[i] \in Building \cup Promoting
  /\ PromoteError(i)

\* Mutant: the lock is removed only after a success.
CleanupKeepsLock(i) ==
  /\ pc[i] = "cleanup"
  /\ staging' = [staging EXCEPT ![i] = {}]
  /\ lock' = IF res[i] = "ok" THEN Nobody ELSE lock
  /\ pc' = [pc EXCEPT ![i] = IF res[i] = "ok" THEN "done" ELSE "failed"]
  /\ UNCHANGED <<slot, res, active, previous>>

\* The finally clause: remove the staging directory, and the lock file
\* whoever wrote it.
Cleanup(i) ==
  /\ pc[i] = "cleanup"
  /\ staging' = [staging EXCEPT ![i] = {}]
  /\ lock' = Nobody
  /\ pc' = [pc EXCEPT ![i] = IF res[i] = "ok" THEN "done" ELSE "failed"]
  /\ UNCHANGED <<slot, res, active, previous>>

\* `paths.lock.unlink(...)` raises: the finally clause ends there, and the answer
\* that was due is replaced by the traceback.
UnlinkFails(i) ==
  /\ pc[i] = "cleanup"
  /\ staging' = [staging EXCEPT ![i] = {}]
  /\ pc' = [pc EXCEPT ![i] = "failed"]
  /\ res' = [res EXCEPT ![i] = "LOCK_FILE_ERROR"]
  /\ UNCHANGED <<lock, slot, active, previous>>

IOFails(i) == IOFaults /\ (WriteLockFails(i) \/ TryFails(i) \/ UnlinkFails(i))

\* kill -9, out of memory, power loss: the finally clause does not run.
Crash(i) ==
  /\ Crashes
  /\ pc[i] \in Live
  /\ pc' = [pc EXCEPT ![i] = "crashed"]
  /\ UNCHANGED <<lock, slot, res, active, previous, staging>>

-----------------------------------------------------------------------------

Step(i) ==
  \/ WriteLock(i) \/ Build(i) \/ BuildFails(i)
  \/ ParkTest(i) \/ ParkMove(i) \/ PlaceCheckout(i) \/ PlaceVenv(i)
  \/ WriteManifest(i) \/ IOFails(i) \/ Cleanup(i)

Next == \E i \in Installers : RequireFails(i) \/ CheckLock(i) \/ Step(i) \/ Crash(i)

Spec == Init /\ [][Next]_vars

\* A started command keeps running and the commands it waits for return
\* (subprocess.run has no timeout here: this is an assumption about git and uv).
Fairness == \A i \in Installers : WF_vars(Step(i))

FairSpec == Spec /\ Fairness

-----------------------------------------------------------------------------
(* Properties                                                                *)

Quiet == \A i \in Installers : pc[i] \notin Promoting

\* Once no promotion is under way the active checkout, virtual environment and
\* manifest are one version's, or all three are missing: promote_install and
\* write_manifest together replace the active version as a whole, whichever
\* build step failed in between.  It needs Serial, and neither crashes nor
\* I/O faults.
ActiveCoherent ==
  Quiet => \/ \A s \in Slots : active[s] = Empty
           \/ \E v \in Version : \A s \in Slots : active[s] = Tree(v)

Holds(entry, v) == v \in {entry.outer, entry.inner}

OnDisk(t, v) ==
  \/ Holds(active[t], v)
  \/ \E i \in Installers : Holds(previous[i][t], v)

\* What the other commands see of the instance directory.
Seen == [checkout |-> active["checkout"].outer, venv |-> active["venv"] # Empty]

\* The checkout of version v is, or was, the active one.
WasActive(v) ==
  v = active["checkout"].outer \/ \E i \in Installers : v = previous[i]["checkout"].outer

Unplaced == {v \in Version : ~WasActive(v)}

View == INSTANCE ActiveTree WITH
  Versions <- Version, NoVersion <- NoTree, tree <- Seen, spare <- Unplaced

\* To start, stop and status, installs that race, are killed or meet I/O faults
\* look like single moves of whole trees: a checkout never changes into another
\* one without having been gone, and none comes back once it is parked
\* (promote_install).
ImplementsTree == View!TreeSpec

\* The version a caller finds when it waits for installs: the active one, and
\* the one there was while a promotion is under way.
InPlace ==
  LET promoter == CHOOSE i \in Installers : pc[i] \in Promoting
  IN  IF Quiet THEN active["checkout"].outer
      ELSE IF active["manifest"] # Empty THEN active["manifest"].outer
      ELSE previous[promoter]["manifest"].outer

Atomic == INSTANCE VersionSlot WITH
  NoVersion <- NoTree, Errors <- Results \ {"none", "ok"}, version <- InPlace, answer <- res

\* Installs in turn, each with its many moves, replace the version as if in one
\* step: it changes when and only when an install succeeds, to that install's
\* version, and a failed install keeps it (docs/plans/
\* linux-comfyui-web-launcher.md:564).  It needs Serial, and neither crashes
\* nor I/O faults.
InstallsAreAtomic == Atomic!SlotSpec

\* No step of any install deletes a checkout or a virtual environment that was
\* ever active: promote_install parks them under .previous and the finally
\* clause of command_instance_install only removes its own staging directory.
\* Racing installs, crashes and I/O faults included.
InstalledNeverLost ==
  [][\A t \in Trees, v \in Version : OnDisk(t, v) => OnDisk(t, v)']_vars

\* An install that reports success has its checkout and its virtual environment
\* in the instance directory, active or parked by a later install, even if its
\* staging directory is gone and other installs raced it.
SuccessIsOnDisk ==
  \A i \in Installers : res[i] = "ok" => \A t \in Trees : OnDisk(t, i)

\* A lock file is left behind only by an install that was killed, or that the
\* system refused the write or the removal of the file itself: whatever else
\* fails, in whatever order installs overwrite and remove one another's lock, the
\* install whose pid is in the file has its finally clause still to come.
LockHasOwner ==
  lock # Nobody => pc[lock] \in Locked \cup {"crashed"} \/ res[lock] = "LOCK_FILE_ERROR"

\* A lock with nobody left to remove it.
AbandonedLock == lock # Nobody /\ \A i \in Installers : pc[i] \notin Live

\* A lock that was left behind wedges the instance: no later install gets
\* to work, changes the active version or removes the lock (nothing in
\* command_instance_install looks at the pid inside it).
AbandonedLockRefusesInstalls ==
  [][AbandonedLock => AbandonedLock' /\ active' = active]_vars

\* A lock that was taken is released: every exception path of the install goes
\* through the finally clause.
LockReleased == (lock # Nobody) ~> (lock = Nobody)

\* docs/plans/linux-comfyui-web-launcher.md, 8: an install holds instance.lock
\* from before the build to after the manifest, so two installs of one instance
\* are never between the two at the same time.
LockMutex ==
  \A i, j \in Installers : (pc[i] \in Locked /\ pc[j] \in Locked) => i = j

\* docs/plans/linux-comfyui-web-launcher.md, 8: a failed install keeps the
\* active version.  Once no promotion is under way, an instance that had a
\* version to park has an active one.
FailedInstallKeepsActive ==
  (Quiet /\ \E i \in Installers, s \in Slots : previous[i][s] # Empty)
    => \A s \in Slots : active[s] # Empty

=============================================================================
