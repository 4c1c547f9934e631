---------------------------- MODULE ControlPlane ----------------------------
(***************************************************************************)
(* The requests of the web API that act on one instance                    *)
(* (app/services/comfy_service.py: install_instance, start_instance,       *)
(* stop_instance), the command_runs and instances rows they write          *)
(* (app/repositories/comfy_repository.py) and the comfyctl children they   *)
(* start (app/executors/local.py).                                         *)
(*                                                                         *)
(* Each action is one stretch of a request handler between two awaits that *)
(* another request can run at: one unit of work, or one exchange with a    *)
(* child.  An install and a stop change the host in one step here, a start *)
(* in three: the port check, the spawn of ComfyUI and the end of the wait  *)
(* for the port.  Modules InstanceInstall and InstanceProcess look inside. *)
(***************************************************************************)
EXTENDS Naturals

CONSTANTS
  Requests,    \* requests of clients, each is sent at most once
  Refs,        \* values of comfy_ref
  FirstRef,    \* the one the instance was created with
  NoRef,       \* the request names no version
  BadRef,      \* the request names an unknown version
  Commits,     \* what a ref may resolve to; a branch moves
  NoCommit,
  NoRun,       \* the pid file is missing or empty
  Thieves,     \* TRUE: another program may take the instance's port
  ApiCrashes,  \* TRUE: the API process may be killed
  CtlKills,    \* TRUE: a comfyctl child may end without printing its JSON
  IOFaults     \* TRUE: a statement, a commit or a spawn may raise an OS or
               \* driver error; a promotion may fail half way

\* A request runs comfyctl once, an install with restart=true twice; each
\* execution is recorded under a run of its own.
Legs == {"main", "restart"}
Runs == Requests \X Legs

ASSUME ConstantsAssumption ==
  /\ FirstRef \in Refs
  /\ NoRef \notin Refs /\ BadRef \notin Refs /\ NoRef # BadRef
  /\ NoCommit \notin Commits
  /\ NoRun \notin Runs
  /\ {Thieves, ApiCrashes, CtlKills, IOFaults} \subseteq BOOLEAN

VARIABLES
  pc,       \* pc[r]: the await request r is at
  req,      \* req[r]: what it asks for
  leg,      \* leg[r]: which of its executions it is at
  ref,      \* ref[r]: the comfy_ref it installs, as resolved
  res,      \* res[r]: the outcome it answers
  row,      \* row[i]: the command_runs row of execution i
  child,    \* child[i]: the comfyctl process of execution i
  effect,   \* effect[i]: what that process did to the host
  inst,     \* the instances row
  disk,     \* what the active manifest.json names
  comfy,    \* comfy[i]: the ComfyUI process the start of execution i spawned
  pidFile,  \* the execution whose process id the pid file holds
  other,    \* another program listens on the instance's port
  overlap   \* two requests have been under way at the same time

request == <<pc, req, leg, ref, res, overlap>>
procs   == <<comfy, pidFile, other>>
host    == <<effect, disk, procs>>
vars    == <<request, row, child, inst, host>>

Version == [ref : Refs, commit : Commits]
NoVersion == [ref |-> NoRef, commit |-> NoCommit]

\* A checkout with its environment, and no manifest.
Unnamed == [ref |-> BadRef, commit |-> NoCommit]

NoProcess == [st |-> "none", home |-> FALSE]

-----------------------------------------------------------------------------
(* Types                                                                     *)

Kinds == {"install", "start", "stop"}
Live  == {"status", "record", "spawn", "await", "apply"}
Ended == {"answered", "refused", "broken", "lost"}
Phases == {"none", "running", "completed", "failed"}
AtWork == {"running", "checked", "polling"}

\* "answered" is a start that saw a port answer that was not its own process's,
\* "left" one that failed and left the process it had spawned behind.
Effects == {"none", "installed", "started", "answered", "stopped", "left"}

Request == [kind : Kinds, ref : Refs \cup {NoRef, BadRef}, restart : BOOLEAN]
Row     == [phase : Phases, error : {"none", "reported", "COMFYCTL_FAILED"}]
Child   == [st : {"none", "exited"} \cup AtWork, out : {"none", "ok", "error", "garbled"}]
Effect  == [did : Effects, version : Version \cup {NoVersion}]

\* home: its working directory is still the active checkout.
Comfy   == [st : {"none", "booting", "listening"}, home : BOOLEAN]

TypeOK ==
  /\ pc \in [Requests -> {"idle"} \cup Live \cup Ended]
  /\ req \in [Requests -> Request]
  /\ leg \in [Requests -> Legs]
  /\ ref \in [Requests -> Refs \cup {NoRef, BadRef}]
  /\ res \in [Requests -> {"none", "ok", "INSTANCE_RUNNING", "REQUEST_INVALID",
                           "COMFYCTL_FAILED", "reported", "INTERNAL_ERROR"}]
  /\ row \in [Runs -> Row]
  /\ child \in [Runs -> Child]
  /\ effect \in [Runs -> Effect]
  /\ inst \in [comfy_ref : Refs, resolved_commit : Commits \cup {NoCommit},
               launched : BOOLEAN]
  /\ disk \in Version \cup {NoVersion, Unnamed}
  /\ comfy \in [Runs -> Comfy]
  /\ pidFile \in Runs \cup {NoRun}
  /\ other \in BOOLEAN
  /\ overlap \in BOOLEAN

-----------------------------------------------------------------------------
(* The instance has just been created: nothing is installed or running.      *)

Init ==
  /\ pc = [r \in Requests |-> "idle"]
  /\ req = [r \in Requests |-> [kind |-> "stop", ref |-> NoRef, restart |-> FALSE]]
  /\ leg = [r \in Requests |-> "main"]
  /\ ref = [r \in Requests |-> NoRef]
  /\ res = [r \in Requests |-> "none"]
  /\ row = [i \in Runs |-> [phase |-> "none", error |-> "none"]]
  /\ child = [i \in Runs |-> [st |-> "none", out |-> "none"]]
  /\ effect = [i \in Runs |-> [did |-> "none", version |-> NoVersion]]
  /\ inst = [comfy_ref |-> FirstRef, resolved_commit |-> NoCommit, launched |-> FALSE]
  /\ disk = NoVersion
  /\ comfy = [i \in Runs |-> NoProcess]
  /\ pidFile = NoRun
  /\ other = FALSE
  /\ overlap = FALSE

-----------------------------------------------------------------------------
(* Steps shared by the handlers                                              *)

\* The execution request r is at, and the comfyctl command it is.
Run(r) == <<r, leg[r]>>
Command(i) == IF i[2] = "restart" THEN "start" ELSE req[i[1]].kind

Goto(r, next) == pc' = [pc EXCEPT ![r] = next]
End(r, next, outcome) == Goto(r, next) /\ res' = [res EXCEPT ![r] = outcome]

\* CommandRunRepository.finish in a unit of work of its own.
Finish(i, phase, error) == row' = [row EXCEPT ![i] = [phase |-> phase, error |-> error]]

\* What `instance status` says: the process the pid file names runs from the
\* active checkout.
Owned(i) == comfy[i].st # "none" /\ comfy[i].home
process_alive == pidFile # NoRun /\ Owned(pidFile)

port_open == other \/ \E i \in Runs : comfy[i].st = "listening"

-----------------------------------------------------------------------------
(* The request handlers                                                      *)

\* A request arrives and reads the instances row (_instance_context).  The
\* comfy_ref it reads is what it installs unless it names another.
Begin(r, q) ==
  /\ pc[r] = "idle"
  /\ overlap' = (overlap \/ \E o \in Requests : pc[o] \in Live)
  /\ q.kind # "install" => q.ref = NoRef /\ ~q.restart
  /\ req' = [req EXCEPT ![r] = q]
  /\ ref' = [ref EXCEPT ![r] = IF q.ref = NoRef THEN inst.comfy_ref ELSE q.ref]
  /\ Goto(r, IF q.kind = "install" THEN "status" ELSE "record")
  /\ UNCHANGED <<leg, res, row, child, inst, host>>

\* A mutant of StatusCheck: a running instance is not refused.
StatusCheckIgnored(r) ==
  /\ pc[r] = "status"
  /\ \/ ref[r] = BadRef /\ End(r, "refused", "REQUEST_INVALID")
     \/ ref[r] # BadRef /\ Goto(r, "record") /\ UNCHANGED res
  /\ UNCHANGED <<overlap, req, leg, ref, row, child, inst, host>>

\* install_instance asks comfyctl whether the instance is running, refuses if
\* it is, and then resolves the version.
StatusCheck(r) ==
  /\ pc[r] = "status"
  /\ \/ process_alive /\ End(r, "refused", "INSTANCE_RUNNING")
     \/ ~process_alive /\ ref[r] = BadRef /\ End(r, "refused", "REQUEST_INVALID")
     \/ ~process_alive /\ ref[r] # BadRef /\ Goto(r, "record") /\ UNCHANGED res
     \/ (CtlKills \/ IOFaults) /\ End(r, "refused", "COMFYCTL_FAILED")
  /\ UNCHANGED <<overlap, req, leg, ref, row, child, inst, host>>

\* _record_run
RecordRun(r) ==
  /\ pc[r] = "record"
  /\ row' = [row EXCEPT ![Run(r)] = [phase |-> "running", error |-> "none"]]
  /\ Goto(r, "spawn")
  /\ UNCHANGED <<overlap, req, leg, ref, res, child, inst, host>>

\* LocalExecutor.run starts the child and waits for it without a time limit.
Spawn(r) ==
  /\ pc[r] = "spawn"
  /\ child' = [child EXCEPT ![Run(r)] = [st |-> "running", out |-> "none"]]
  /\ Goto(r, "await")
  /\ UNCHANGED <<overlap, req, leg, ref, res, row, inst, host>>

\* A mutant of Receive: the run is closed without looking at the payload.
ReceiveAlwaysCompleted(r) ==
  /\ pc[r] = "await" /\ child[Run(r)].st = "exited"
  /\ Finish(Run(r), "completed", "none")
  /\ \/ child[Run(r)].out = "ok" /\ Goto(r, "apply") /\ UNCHANGED res
     \/ child[Run(r)].out # "ok" /\ End(r, "refused", "reported")
  /\ UNCHANGED <<overlap, req, leg, ref, child, inst, host>>

\* A mutant of Receive: the handler goes on waiting for a payload that parses.
ReceiveNeedsJson(r) ==
  /\ pc[r] = "await" /\ child[Run(r)].st = "exited"
  /\ \/ child[Run(r)].out = "ok" /\ Finish(Run(r), "completed", "none")
        /\ Goto(r, "apply") /\ UNCHANGED res
     \/ child[Run(r)].out = "error" /\ Finish(Run(r), "failed", "reported")
        /\ End(r, "refused", "reported")
  /\ UNCHANGED <<overlap, req, leg, ref, child, inst, host>>

\* The child has exited: _parse_json, then _run_recorded or _finish_run closes
\* the run.  A payload that is not ok, or is none, ends the request.
Receive(r) ==
  /\ pc[r] = "await" /\ child[Run(r)].st = "exited"
  /\ \/ /\ child[Run(r)].out = "ok"
        /\ Finish(Run(r), "completed", "none")
        /\ Goto(r, "apply") /\ UNCHANGED res
     \/ /\ child[Run(r)].out = "error"
        /\ Finish(Run(r), "failed", "reported")
        /\ End(r, "refused", "reported")
     \/ /\ child[Run(r)].out = "garbled"
        /\ Finish(Run(r), "failed", "COMFYCTL_FAILED")
        /\ End(r, "refused", "COMFYCTL_FAILED")
  /\ UNCHANGED <<overlap, req, leg, ref, child, inst, host>>

\* A mutant of ApplyInstall: it stores the row's comfy_ref with the new commit.
ApplyInstallOldRef(r) ==
  /\ pc[r] = "apply" /\ Command(Run(r)) = "install"
  /\ inst' = [inst EXCEPT !.resolved_commit = effect[Run(r)].version.commit]
  /\ IF req[r].restart
     THEN Goto(r, "record") /\ leg' = [leg EXCEPT ![r] = "restart"] /\ UNCHANGED res
     ELSE End(r, "answered", "ok") /\ UNCHANGED leg
  /\ UNCHANGED <<overlap, req, ref, row, child, host>>

\* A mutant of ApplyInstall: it stores the requested comfy_ref, which may be null.
ApplyInstallRequestedRef(r) ==
  /\ pc[r] = "apply" /\ Command(Run(r)) = "install"
  /\ inst' = [inst EXCEPT !.comfy_ref = req[r].ref,
                          !.resolved_commit = effect[Run(r)].version.commit]
  /\ IF req[r].restart
     THEN Goto(r, "record") /\ leg' = [leg EXCEPT ![r] = "restart"] /\ UNCHANGED res
     ELSE End(r, "answered", "ok") /\ UNCHANGED leg
  /\ UNCHANGED <<overlap, req, ref, row, child, host>>

\* A mutant of ApplyInstall: the result is stored for a first install only.
ApplyInstallFirstOnly(r) ==
  /\ pc[r] = "apply" /\ Command(Run(r)) = "install"
  /\ inst' = IF inst.resolved_commit # NoCommit THEN inst
             ELSE [inst EXCEPT !.comfy_ref = ref[r],
                               !.resolved_commit = effect[Run(r)].version.commit]
  /\ IF req[r].restart
     THEN Goto(r, "record") /\ leg' = [leg EXCEPT ![r] = "restart"] /\ UNCHANGED res
     ELSE End(r, "answered", "ok") /\ UNCHANGED leg
  /\ UNCHANGED <<overlap, req, ref, row, child, host>>

\* install_instance stores what was installed (update_install_result, the
\* resolved_commit of the payload) and, with restart=true, goes through
\* start_instance, whose run is another one.
ApplyInstall(r) ==
  /\ pc[r] = "apply" /\ Command(Run(r)) = "install"
  /\ inst' = [inst EXCEPT !.comfy_ref = ref[r],
                          !.resolved_commit = effect[Run(r)].version.commit]
  /\ IF req[r].restart
     THEN Goto(r, "record") /\ leg' = [leg EXCEPT ![r] = "restart"] /\ UNCHANGED res
     ELSE End(r, "answered", "ok") /\ UNCHANGED leg
  /\ UNCHANGED <<overlap, req, ref, row, child, host>>

\* start_instance: mark_launched, and the answer.
ApplyStart(r) ==
  /\ pc[r] = "apply" /\ Command(Run(r)) = "start"
  /\ inst' = [inst EXCEPT !.launched = TRUE]
  /\ End(r, "answered", "ok")
  /\ UNCHANGED <<overlap, req, leg, ref, row, child, host>>

\* stop_instance stores nothing about the instance.
ApplyStop(r) ==
  /\ pc[r] = "apply" /\ Command(Run(r)) = "stop"
  /\ End(r, "answered", "ok")
  /\ UNCHANGED <<overlap, req, leg, ref, row, child, inst, host>>

\* A unit of work or the spawn raises something that is not an AppError:
\* nothing of it is committed, and no handler closes the run.
Breaks(r) ==
  /\ IOFaults
  /\ pc[r] \in Live
  /\ pc[r] = "await" => child[Run(r)].st = "exited"
  /\ End(r, "broken", "INTERNAL_ERROR")
  /\ UNCHANGED <<overlap, req, leg, ref, row, child, inst, host>>

\* The API process is killed.  Its children run on.
ApiCrash ==
  /\ ApiCrashes
  /\ \E r \in Requests : pc[r] \in Live
  /\ pc' = [r \in Requests |-> IF pc[r] \in Live THEN "lost" ELSE pc[r]]
  /\ UNCHANGED <<overlap, req, leg, ref, res, row, child, inst, host>>

-----------------------------------------------------------------------------
(* The comfyctl children and the ComfyUI process                             *)

\* A child ends; a killed one may have done its work and printed nothing.
Exits(i, out) == child' = [child EXCEPT ![i] = [st |-> "exited", out |-> out]]
Succeeds(i) == Exits(i, "ok") \/ (CtlKills /\ Exits(i, "garbled"))

Does(i, did, version) == effect' = [effect EXCEPT ![i] = [did |-> did, version |-> version]]

\* The processes once the active checkout has been replaced or parked.
Moved == [i \in Runs |-> IF comfy[i].st = "none" THEN comfy[i]
                         ELSE [comfy[i] EXCEPT !.home = FALSE]]

\* `instance install` makes the commit the ref resolves to active.  It does not
\* look for a running ComfyUI: one that runs loses its checkout.
ChildInstall(i) ==
  /\ child[i].st = "running" /\ Command(i) = "install"
  /\ ref[i[1]] \in Refs
  /\ \E c \in Commits : LET v == [ref |-> ref[i[1]], commit |-> c]
                        IN  disk' = v /\ Does(i, "installed", v)
  /\ comfy' = Moved
  /\ Succeeds(i)
  /\ UNCHANGED <<request, row, inst, pidFile, other>>

\* `instance start` needs an installed instance and a free port ...
ChildChecks(i) ==
  /\ child[i].st = "running" /\ Command(i) = "start"
  /\ disk # NoVersion /\ ~port_open
  /\ child' = [child EXCEPT ![i].st = "checked"]
  /\ UNCHANGED <<request, row, inst, host>>

\* ... spawns ComfyUI in the checkout ...
ChildSpawns(i) ==
  /\ child[i].st = "checked" /\ Command(i) = "start" /\ disk # NoVersion
  /\ comfy' = [comfy EXCEPT ![i] = [st |-> "booting", home |-> TRUE]]
  /\ child' = [child EXCEPT ![i].st = "polling"]
  /\ UNCHANGED <<request, row, inst, effect, disk, pidFile, other>>

\* ... and writes the pid file and succeeds once the port answers, whoever
\* listens on it.
ChildStart(i) ==
  /\ child[i].st = "polling" /\ Command(i) = "start" /\ port_open
  /\ pidFile' = i
  /\ Does(i, IF comfy[i].st = "listening" THEN "started" ELSE "answered", NoVersion)
  /\ Succeeds(i)
  /\ UNCHANGED <<request, row, inst, disk, comfy, other>>

\* `instance stop` ends the process it recognises, refuses a live one that it does
\* not, and succeeds when the pid file names none.
ChildStop(i) ==
  /\ child[i].st = "running" /\ Command(i) = "stop"
  /\ \/ pidFile = NoRun /\ UNCHANGED comfy
     \/ /\ pidFile # NoRun /\ (comfy[pidFile].st # "none" => comfy[pidFile].home)
        /\ comfy' = [comfy EXCEPT ![pidFile] = NoProcess]
  /\ pidFile' = NoRun
  /\ Does(i, "stopped", NoVersion)
  /\ Succeeds(i)
  /\ UNCHANGED <<request, row, inst, disk, other>>

\* A start that fails has ended its process or seen it end, unless the system
\* refused it a socket to check the port with: then it leaves it.
Refused(i) ==
  IF child[i].st = "polling"
  THEN \/ comfy' = [comfy EXCEPT ![i] = NoProcess] /\ UNCHANGED effect
       \/ IOFaults /\ UNCHANGED comfy /\ Does(i, "left", NoVersion)
  ELSE UNCHANGED <<comfy, effect>>

\* A promotion that is cut short leaves the old version, none or an unnamed one;
\* a start that is cut short leaves its process, if that lives, with or without
\* its id in the pid file.
CutShort(i) ==
  /\ \/ UNCHANGED <<disk, comfy, pidFile>>
     \/ /\ Command(i) = "install"
        /\ disk' \in {disk, NoVersion, Unnamed}
        /\ comfy' = Moved /\ UNCHANGED pidFile
     \/ /\ child[i].st = "polling" /\ port_open
        /\ pidFile' \in {NoRun, i} /\ UNCHANGED <<disk, comfy>>
  /\ UNCHANGED effect

\* Any command may fail: with its JSON, or, killed or by an OS error, which main
\* does not catch, without.
ChildFails(i) ==
  /\ child[i].st \in AtWork
  /\ \/ Exits(i, "error") /\ Refused(i) /\ UNCHANGED <<disk, pidFile>>
     \/ (CtlKills \/ IOFaults) /\ Exits(i, "garbled") /\ CutShort(i)
  /\ UNCHANGED <<request, row, inst, other>>

\* ComfyUI binds the port, and ends by itself.
Becomes(i, process) ==
  /\ comfy' = [comfy EXCEPT ![i] = process]
  /\ UNCHANGED <<request, row, child, inst, effect, disk, pidFile, other>>

ProcListens(i) ==
  comfy[i].st = "booting" /\ ~port_open /\ Becomes(i, [comfy[i] EXCEPT !.st = "listening"])
ProcExits(i) == comfy[i].st # "none" /\ Becomes(i, NoProcess)

\* Another program takes the port.  Bound: it keeps it, and takes it only from a
\* start that has found it free; earlier it would only make starts fail.
OtherListens ==
  /\ Thieves /\ ~port_open
  /\ \E i \in Runs : child[i].st \in {"checked", "polling"}
  /\ other' = TRUE
  /\ UNCHANGED <<request, row, child, inst, effect, disk, comfy, pidFile>>

-----------------------------------------------------------------------------
Handle(r) ==
  \/ StatusCheck(r) \/ RecordRun(r) \/ Spawn(r) \/ Receive(r)
  \/ ApplyInstall(r) \/ ApplyStart(r) \/ ApplyStop(r)

ChildStep(i) ==
  \/ ChildInstall(i) \/ ChildStop(i) \/ ChildFails(i)
  \/ ChildChecks(i) \/ ChildSpawns(i) \/ ChildStart(i)

HostStep == OtherListens \/ \E i \in Runs : ProcListens(i) \/ ProcExits(i)

Next ==
  \/ \E r \in Requests : \E q \in Request : Begin(r, q)
  \/ \E r \in Requests : Handle(r)
  \/ \E r \in Requests : Breaks(r)
  \/ \E i \in Runs : ChildStep(i)
  \/ ApiCrash
  \/ HostStep

Spec == Init /\ [][Next]_vars

\* The event loop runs every ready handler, and comfyctl ends: its commands
\* have time limits except for git and uv, which are taken to return.
FairSpec ==
  /\ Spec
  /\ \A r \in Requests : WF_vars(Handle(r))
  /\ \A i \in Runs : WF_vars(ChildStep(i))

-----------------------------------------------------------------------------
(* Properties                                                                *)

\* Requests have waited for one another, nothing was killed or broke, no start had
\* to leave its process, and nobody else took the port.
Undisturbed ==
  /\ ~overlap /\ ~other
  /\ \A r \in Requests : pc[r] \notin {"broken", "lost"}
  /\ \A i \in Runs : child[i].out # "garbled" /\ effect[i].did # "left"

\* What a command has done to the host when it succeeds.
Did(command) == CASE command = "install" -> {"installed"}
                  [] command = "start"   -> {"started", "answered"}
                  [] command = "stop"    -> {"stopped"}

\* A run is closed as completed only when its comfyctl did what the run's kind
\* says, in any order of answers, kills and crashes (_finish_run, _run_recorded):
\* an install made a version active, a stop left no process it recognises, a start
\* saw the port answer.  That its own process answered is true only as long as
\* nothing disturbs the requests: two starts that overlap, or one beside another
\* listener, are both recorded as completed (command_instance_start).
CompletedIsReal ==
  \A i \in Runs : row[i].phase = "completed" =>
    /\ effect[i].did \in Did(Command(i))
    /\ Undisturbed => effect[i].did # "answered"

\* The comfy_ref and resolved_commit of the instances row are a pair that one
\* install really made active, and whose run is recorded as completed, however
\* many installs write that row (install_instance, update_install_result).
RecordedWasInstalled ==
  inst.resolved_commit # NoCommit =>
    \E i \in Runs :
      /\ row[i].phase = "completed"
      /\ effect[i].did = "installed"
      /\ effect[i].version = [ref |-> inst.comfy_ref, commit |-> inst.resolved_commit]

\* A run that was closed keeps its outcome: nothing a request does later, the
\* restart after an install included, touches it again.
ClosedRunsStay ==
  [][\A i \in Runs : row[i].phase \in {"completed", "failed"} => row'[i] = row[i]]_vars

\* Between requests the instances row names what is on disk, although it is
\* written after comfyctl has let go of the instance (install_instance).
RecordMatchesDisk ==
  /\ Undisturbed
  /\ \A r \in Requests : pc[r] \notin Live
  /\ inst.resolved_commit # NoCommit
  => disk = [ref |-> inst.comfy_ref, commit |-> inst.resolved_commit]

\* No install replaces the version a ComfyUI runs from, which would leave a
\* process that status does not see and stop refuses to end (install_instance
\* answers INSTANCE_RUNNING instead).
NothingLost == \A i \in Runs : comfy[i].st # "none" => comfy[i].home

\* It holds as long as requests wait for one another.
NothingLostInTurn == Undisturbed => NothingLost

\* Every request that was taken up gets an answer, unless the API is killed under
\* it: each arrives once, so from some time on none is under way (_run_recorded).
RequestsAnswered == <>[](\A r \in Requests : pc[r] \notin Live)

=============================================================================
