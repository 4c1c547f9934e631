--------------------------- MODULE InstanceProcess ---------------------------
(***************************************************************************)
(* `comfyctl instance start`, `stop` and `status` for one instance         *)
(* (comfyctl/cli.py), and the ComfyUI processes and other processes of the *)
(* host they deal with.                                                    *)
(*                                                                         *)
(* A start spawns a process whose working directory is the instance's      *)
(* checkout, polls until the configured port answers, and only then writes *)
(* the pid file.  A stop signals the process the pid file names when that  *)
(* process runs main.py from the instance's checkout, and removes the pid  *)
(* file once the process is gone.  A working directory follows its         *)
(* directory when an install moves it, so a process belongs to the         *)
(* instance only as long as the version it was started from is active.     *)
(***************************************************************************)
EXTENDS ActiveTree, Naturals, FiniteSets

CONSTANTS
  Starts, Stops,  \* the invocations of each command, each runs at most once
  Pids,           \* process ids; an id is used again once its process is gone
  NoPid,          \* the pid file is missing or empty
  Ports,          \* ports the instance may be configured with
  Foreign,        \* stands for whoever spawned a process that is not ComfyUI
  Serial,         \* TRUE: callers wait for a command to end before the next
  Thieves,        \* TRUE: other processes may listen on the instance's ports
  CtlCrashes,     \* TRUE: a comfyctl process may be killed between two steps
  Faults          \* TRUE: the system may refuse comfyctl a file or a socket, or
                  \* take more than three seconds to end a killed process

ASSUME ConstantsAssumption ==
  /\ Starts \cap Stops = {}
  /\ Foreign \notin Starts
  /\ NoPid \notin Pids
  /\ NoVersion \notin Versions
  /\ Serial \in BOOLEAN /\ Thieves \in BOOLEAN /\ CtlCrashes \in BOOLEAN /\ Faults \in BOOLEAN

VARIABLES
  proc,      \* proc[p]: the process with id p
  pidFile,   \* content of .run/comfyui.pid
  pc,        \* pc[c]: where invocation c is
  arg,       \* arg[c]: the port of a start
  pid,       \* pid[c]: the process id an invocation works on
  target,    \* target[c]: the start that spawned the process a stop signals
  res        \* res[c]: the outcome c reports

ctl  == <<pc, arg, pid, target, res>>
vars == <<proc, pidFile, ctl, tree, spare>>

Cmds == Starts \cup Stops

-----------------------------------------------------------------------------
(* Types                                                                     *)

\* A dead process is a zombie until the start that spawned it has seen that.
Status == {"none", "booting", "listening", "closing", "zombie"}
Process ==
  [st : Status, by : Starts \cup {Foreign}, cwd : Versions \cup {NoVersion},
   port : Ports, term : BOOLEAN]

\* The failures that end a start where it stands, its child or not: the port
\* check was refused a socket (an error with JSON), an OSError or TimeoutExpired
\* was raised (a traceback without).
Untidy == {"COMFYCTL_FAILED", "OS_ERROR", "TIMEOUT_EXPIRED"}

Live  == {"spawn", "poll", "reap", "kill", "wait", "unlink"}
Ended == {"done", "failed", "crashed"}
Results == {"none", "ok", "stopped", "pid_file_missing", "process_not_alive",
            "INSTANCE_NOT_INSTALLED", "PORT_IN_USE", "VENV_MISSING",
            "PROCESS_START_FAILED", "PID_INVALID", "PROCESS_STOP_TIMEOUT"} \cup Untidy

TypeOK ==
  /\ proc \in [Pids -> Process]
  /\ pidFile \in Pids \cup {NoPid}
  /\ pc \in [Cmds -> {"idle"} \cup Live \cup Ended]
  /\ arg \in [Cmds -> Ports]
  /\ pid \in [Cmds -> Pids \cup {NoPid}]
  /\ target \in [Cmds -> Starts \cup {Foreign}]
  /\ res \in [Cmds -> Results]
  /\ tree \in [checkout : Versions \cup {NoVersion}, venv : BOOLEAN]
  /\ spare \subseteq Versions

\* A fresh instance, or an installed one that is not running.
Init ==
  /\ \E port \in Ports :
       /\ proc = [p \in Pids |-> [st |-> "none", by |-> Foreign, cwd |-> NoVersion,
                                  port |-> port, term |-> FALSE]]
       /\ arg = [c \in Cmds |-> port]
  /\ pidFile = NoPid
  /\ pc = [c \in Cmds |-> "idle"]
  /\ pid = [c \in Cmds |-> NoPid]
  /\ target = [c \in Cmds |-> Foreign]
  /\ res = [c \in Cmds |-> "none"]
  /\ TreeInit

-----------------------------------------------------------------------------
(* What the commands see of the host                                         *)

\* os.kill(pid, 0) finds a process, a zombie included.
process_alive(p) == proc[p].st # "none"

\* The process runs code: it is neither gone nor a zombie.
Running(p) == proc[p].st \in {"booting", "listening", "closing"}

\* Its working directory is the active checkout and it runs main.py (an
\* unrelated process does not); the cwd of a zombie cannot be read.
process_owned_by_instance(p) ==
  /\ Running(p)
  /\ proc[p].by # Foreign
  /\ tree.checkout # NoVersion
  /\ proc[p].cwd = tree.checkout

\* What the port check finds, if it gets a socket: when it does not it raises, and
\* the command ends (StartChecks, PollFails).
Listener(p, port) == proc[p].st = "listening" /\ proc[p].port = port
port_open(port) == \E p \in Pids : Listener(p, port)

\* The two fields of `instance status` that callers act on.
status_process_alive == pidFile # NoPid /\ process_owned_by_instance(pidFile)
status_port_in_use_by_other(port) == port_open(port) /\ ~status_process_alive

-----------------------------------------------------------------------------
(* Steps shared by the commands                                              *)

MayBegin(c) == Serial => \A d \in Cmds : pc[d] \notin Live

Goto(c, next) == pc' = [pc EXCEPT ![c] = next]
End(c, next, outcome) == Goto(c, next) /\ res' = [res EXCEPT ![c] = outcome]

\* The processes once c has ended without waiting for its child: init reaps it.
Orphaned(c) ==
  [p \in Pids |-> IF proc[p].st = "zombie" /\ proc[p].by = c
                    THEN [proc[p] EXCEPT !.st = "none"] ELSE proc[p]]

-----------------------------------------------------------------------------
(* command_instance_start                                                    *)

\* The directories can be made, the checkout exists and nothing listens on the
\* port.
StartChecks(c, port) ==
  /\ c \in Starts /\ pc[c] = "idle" /\ MayBegin(c)
  /\ arg' = [arg EXCEPT ![c] = port]
  /\ \/ Faults /\ End(c, "failed", "OS_ERROR")
     \/ Faults /\ tree.checkout # NoVersion /\ End(c, "failed", "COMFYCTL_FAILED")
     \/ tree.checkout = NoVersion /\ End(c, "failed", "INSTANCE_NOT_INSTALLED")
     \/ tree.checkout # NoVersion /\ port_open(port) /\ End(c, "failed", "PORT_IN_USE")
     \/ /\ tree.checkout # NoVersion /\ ~port_open(port)
        /\ Goto(c, "spawn") /\ UNCHANGED res
  /\ UNCHANGED <<proc, pidFile, pid, target, tree>>

\* The venv is there and the process is created in the checkout, which may
\* have been moved since StartChecks (then Popen raises).  The configuration and
\* the log are opened first, which may raise as well.
Spawn(c) ==
  /\ pc[c] = "spawn"
  /\ \/ ~tree.venv /\ End(c, "failed", "VENV_MISSING") /\ UNCHANGED <<proc, pid>>
     \/ /\ Faults \/ (tree.venv /\ tree.checkout = NoVersion)
        /\ End(c, "failed", "OS_ERROR") /\ UNCHANGED <<proc, pid>>
     \/ /\ tree.venv /\ tree.checkout # NoVersion
        /\ \E p \in Pids :
             /\ ~process_alive(p)
             /\ proc' = [proc EXCEPT ![p] =
                  [st |-> "booting", by |-> c, cwd |-> tree.checkout,
                   port |-> arg[c], term |-> FALSE]]
             /\ pid' = [pid EXCEPT ![c] = p]
        /\ Goto(c, "poll") /\ UNCHANGED res
  /\ UNCHANGED <<pidFile, arg, target, tree>>

\* process.poll() reaps a child that has exited.  (The log read for the error
\* message may itself raise; the host is left the same.)
PollExited(c) ==
  /\ pc[c] = "poll" /\ proc[pid[c]].st = "zombie"
  /\ proc' = [proc EXCEPT ![pid[c]].st = "none"]
  /\ End(c, "failed", "PROCESS_START_FAILED")
  /\ UNCHANGED <<pidFile, arg, pid, target, tree>>

\* Mutant: the pid file is not written.
PollOpenUnrecorded(c) ==
  /\ pc[c] = "poll" /\ port_open(arg[c])
  /\ End(c, "done", "ok")
  /\ proc' = Orphaned(c)
  /\ UNCHANGED <<pidFile, arg, pid, target, tree>>

\* The port answers, whoever listens on it and whatever became of the child since
\* process.poll(): record the child and succeed.
PollOpen(c) ==
  /\ pc[c] = "poll" /\ port_open(arg[c])
  /\ pidFile' = pid[c]
  /\ End(c, "done", "ok")
  /\ proc' = Orphaned(c)
  /\ UNCHANGED <<arg, pid, target, tree>>

\* The port check gets no socket, or the pid file cannot be written (it may be
\* empty by then, or whole): the start ends and leaves its child as it is.
PollFails(c) ==
  /\ Faults /\ pc[c] = "poll"
  /\ \/ End(c, "failed", "COMFYCTL_FAILED") /\ UNCHANGED pidFile
     \/ /\ port_open(arg[c]) /\ End(c, "failed", "OS_ERROR")
        /\ pidFile' \in {pidFile, NoPid, pid[c]}
  /\ proc' = Orphaned(c)
  /\ UNCHANGED <<arg, pid, target, tree>>

\* The startup timeout: SIGTERM to the child ...
StartDeadline(c) ==
  /\ pc[c] = "poll"
  /\ proc' = [proc EXCEPT ![pid[c]].term = TRUE]
  /\ Goto(c, "reap")
  /\ UNCHANGED <<pidFile, arg, pid, target, res, tree>>

\* Mutant: the child is left to the signal; nobody waits for it or kills it.
ReapNotWaited(c) ==
  /\ pc[c] = "reap"
  /\ End(c, "failed", "PROCESS_START_FAILED")
  /\ UNCHANGED <<proc, pidFile, arg, pid, target, tree>>

\* ... and wait for it, killing it if it takes longer than three seconds.
Reap(c) ==
  /\ pc[c] = "reap"
  /\ proc' = [proc EXCEPT ![pid[c]].st = "none"]
  /\ End(c, "failed", "PROCESS_START_FAILED")
  /\ UNCHANGED <<pidFile, arg, pid, target, tree>>

\* It has not ended three seconds after SIGKILL either: the second wait raises.
ReapFails(c) ==
  /\ Faults /\ pc[c] = "reap" /\ Running(pid[c])
  /\ End(c, "failed", "TIMEOUT_EXPIRED")
  /\ UNCHANGED <<proc, pidFile, arg, pid, target, tree>>

-----------------------------------------------------------------------------
(* command_instance_stop                                                     *)

\* Mutant: any live process the pid file names is signalled.
StopReadsUnowned(c) ==
  /\ c \in Stops /\ pc[c] = "idle" /\ MayBegin(c)
  /\ pid' = [pid EXCEPT ![c] = pidFile]
  /\ \/ /\ pidFile = NoPid
        /\ End(c, "done", "pid_file_missing") /\ UNCHANGED target
     \/ /\ pidFile # NoPid /\ ~process_alive(pidFile)
        /\ End(c, "unlink", "process_not_alive") /\ UNCHANGED target
     \/ /\ pidFile # NoPid /\ process_alive(pidFile)
        /\ target' = [target EXCEPT ![c] = proc[pidFile].by]
        /\ Goto(c, "kill") /\ UNCHANGED res
  /\ UNCHANGED <<proc, pidFile, arg, tree>>

\* Read the pid file and look at the process it names.
StopReads(c) ==
  /\ c \in Stops /\ pc[c] = "idle" /\ MayBegin(c)
  /\ pid' = [pid EXCEPT ![c] = pidFile]
  /\ \/ Faults /\ End(c, "failed", "OS_ERROR") /\ UNCHANGED target
     \/ /\ pidFile = NoPid
        /\ End(c, "done", "pid_file_missing") /\ UNCHANGED target
     \/ /\ pidFile # NoPid /\ ~process_alive(pidFile)
        /\ End(c, "unlink", "process_not_alive") /\ UNCHANGED target
     \/ /\ pidFile # NoPid /\ process_alive(pidFile)
        /\ ~process_owned_by_instance(pidFile)
        /\ End(c, "failed", "PID_INVALID") /\ UNCHANGED target
     \/ /\ pidFile # NoPid /\ process_owned_by_instance(pidFile)
        /\ target' = [target EXCEPT ![c] = proc[pidFile].by]
        /\ Goto(c, "kill") /\ UNCHANGED res
  /\ UNCHANGED <<proc, pidFile, arg, tree>>

\* SIGTERM; os.kill raises ProcessLookupError if the process is gone.
Kill(c) ==
  /\ pc[c] = "kill"
  /\ IF process_alive(pid[c])
       THEN /\ proc' = [proc EXCEPT ![pid[c]].term = TRUE]
            /\ Goto(c, "wait") /\ UNCHANGED res
       ELSE End(c, "failed", "OS_ERROR") /\ UNCHANGED proc
  /\ UNCHANGED <<pidFile, arg, pid, target, tree>>

\* Mutant: success is reported once the signal is sent.
WaitGoneEarly(c) ==
  /\ pc[c] = "wait"
  /\ End(c, "unlink", "stopped")
  /\ UNCHANGED <<proc, pidFile, arg, pid, target, tree>>

WaitGone(c) ==
  /\ pc[c] = "wait" /\ ~process_alive(pid[c])
  /\ End(c, "unlink", "stopped")
  /\ UNCHANGED <<proc, pidFile, arg, pid, target, tree>>

\* Mutant: no timeout.
StopDeadlineMissing(c) == FALSE /\ UNCHANGED <<proc, pidFile, ctl, tree>>

StopDeadline(c) ==
  /\ pc[c] = "wait"
  /\ End(c, "failed", "PROCESS_STOP_TIMEOUT")
  /\ UNCHANGED <<proc, pidFile, arg, pid, target, tree>>

\* `pid_file.unlink(missing_ok=True)`, whatever the file holds by now.
Unlink(c) ==
  /\ pc[c] = "unlink"
  /\ \/ pidFile' = NoPid /\ Goto(c, "done") /\ UNCHANGED res
     \/ Faults /\ End(c, "failed", "OS_ERROR") /\ UNCHANGED pidFile
  /\ UNCHANGED <<proc, arg, pid, target, tree>>

-----------------------------------------------------------------------------
(* Processes of the host                                                     *)

\* kill -9 of a comfyctl process.
CtlCrash(c) ==
  /\ CtlCrashes /\ pc[c] \in Live
  /\ Goto(c, "crashed")
  /\ proc' = Orphaned(c)
  /\ UNCHANGED <<pidFile, arg, pid, target, res, tree>>

\* The process binds its port, which nobody else may hold.
Listen(p) ==
  /\ proc[p].st = "booting" /\ ~proc[p].term /\ ~port_open(proc[p].port)
  /\ proc[p].by = Foreign => Thieves
  /\ proc' = [proc EXCEPT ![p].st = "listening"]
  /\ UNCHANGED <<pidFile, ctl, tree>>

\* It closes its port and goes on with its shutdown.
Close(p) ==
  /\ proc[p].st \in {"booting", "listening"}
  /\ proc' = [proc EXCEPT ![p].st = "closing"]
  /\ UNCHANGED <<pidFile, ctl, tree>>

\* The start that spawned a process is its parent while that start runs.
HasParent(p) == proc[p].by # Foreign /\ pc[proc[p].by] \in {"poll", "reap"}

\* It ends: on its own, because of a signal, or because it could not bind.
Exit(p) ==
  /\ Running(p)
  /\ proc' = [proc EXCEPT ![p].st = IF HasParent(p) THEN "zombie" ELSE "none"]
  /\ UNCHANGED <<pidFile, ctl, tree>>

\* Bound: unrelated processes leave an id for every start.
MaxForeign == Cardinality(Pids) - Cardinality(Starts)
ForeignRunning == {p \in Pids : process_alive(p) /\ proc[p].by = Foreign}

\* An unrelated process gets a free id.  Ids are handed out in turn, so an id
\* does not come back between the ownership check of a stop and its os.kill.
ForeignSpawn(p, port) ==
  /\ ~process_alive(p) /\ Cardinality(ForeignRunning) < MaxForeign
  /\ \A c \in Stops : pc[c] = "kill" => pid[c] # p
  /\ proc' = [proc EXCEPT ![p] =
       [st |-> "booting", by |-> Foreign, cwd |-> NoVersion, port |-> port, term |-> FALSE]]
  /\ UNCHANGED <<pidFile, ctl, tree>>

-----------------------------------------------------------------------------

StepOf(c) ==
  \/ Spawn(c) \/ PollExited(c) \/ PollOpen(c) \/ PollFails(c)
  \/ StartDeadline(c) \/ Reap(c) \/ ReapFails(c)
  \/ Kill(c) \/ WaitGone(c) \/ StopDeadline(c) \/ Unlink(c)

Begin(c) == StopReads(c) \/ \E port \in Ports : StartChecks(c, port)

HostStep(p) ==
  Listen(p) \/ Close(p) \/ Exit(p) \/ \E port \in Ports : ForeignSpawn(p, port)

\* Installs change the active version under the commands and the processes.
Install == TreeNext /\ UNCHANGED <<proc, pidFile, ctl>>

Next ==
  \/ \E c \in Cmds : (Begin(c) \/ StepOf(c) \/ CtlCrash(c)) /\ UNCHANGED spare
  \/ \E p \in Pids : HostStep(p) /\ UNCHANGED spare
  \/ Install

Spec == Init /\ [][Next]_vars

\* A comfyctl process keeps running, and its deadlines pass.
Fairness == \A c \in Cmds : WF_vars(StepOf(c) /\ UNCHANGED spare)

FairSpec == Spec /\ Fairness

-----------------------------------------------------------------------------
(* Properties                                                                *)

Quiet == \A c \in Cmds : pc[c] \notin Live

\* A signal of comfyctl only ever goes to a process one of the instance's
\* starts spawned: command_instance_stop rejects a pid file whose process id
\* has been taken over by an unrelated process, however late that happens.
SignalsOnlyOwn == \A p \in Pids : proc[p].term => proc[p].by # Foreign

\* The only failures of command_instance_start that leave its process to itself,
\* recorded or not, are the ones of the system: a refused socket or pid file, or
\* a child that outlives SIGKILL.  A start that finds its child dead or runs into
\* its time limit has left nothing, whatever else was going on.
OnlyFaultsLeaveChildren ==
  \A p \in Pids : process_alive(p) /\ proc[p].by # Foreign /\ pc[proc[p].by] = "failed"
    => res[proc[p].by] \in Untidy

\* No start so far has ended in that way.
NoneLeft == \A c \in Starts : pc[c] = "failed" /\ res[c] \in Untidy => pid[c] = NoPid

\* A stop that reports stopped=true tells the truth: the process it signalled
\* no longer exists, whatever other commands did meanwhile and even if the
\* process id is in use again.
StoppedMeansGone ==
  \A c \in Stops : res[c] = "stopped" =>
    \A p \in Pids : process_alive(p) => proc[p].by # target[c]

\* When no command is under way, a ComfyUI process of this instance that
\* listens is the one the pid file names and the ownership check accepts, so
\* status reports it and stop can stop it.  It needs one command at a time, no
\* reinstall under a running process, one port, a port nobody else takes, and no
\* start that the system made leave its process.
RunningIsTracked ==
  Quiet /\ NoneLeft => \A p \in Pids :
    (proc[p].st = "listening" /\ proc[p].by # Foreign)
      => pidFile = p /\ process_owned_by_instance(p)

\* Every start and every stop ends: both polling loops have a deadline.
CommandsEnd == \A c \in Cmds : pc[c] \in Live ~> pc[c] \in Ended

\* docs/contracts/api-contract.md: port_in_use_by_other=true means that this
\* instance is not running and another process occupies its port.  Stated for
\* the moments when no command is under way and no process was left.
InUseByOtherMeansNotRunning ==
  Quiet /\ NoneLeft => \A port \in Ports : status_port_in_use_by_other(port) =>
    \A p \in Pids : Listener(p, port) => proc[p].by = Foreign

\* docs/runbooks/comfyui-remote-startup-incident-2026-09-04.md: a failure to
\* start is never swallowed.  A start that succeeds has seen its own process
\* listen, unless an earlier one was made to leave its own.
SuccessMeansListening ==
  [][NoneLeft => \A c \in Starts :
       (pc[c] = "poll" /\ pc'[c] = "done") => Listener(pid[c], arg[c])]_vars

=============================================================================
