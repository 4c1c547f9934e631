------------------------ MODULE InstanceProcessProofs ------------------------
(***************************************************************************)
(* What a start and a stop promise about the processes of the host, proved *)
(* for any number of commands, process ids, ports and versions: for        *)
(* commands that overlap, are killed and race with reinstalls; and, for    *)
(* commands in turn, that a running ComfyUI is the one the pid file names. *)
(***************************************************************************)
EXTENDS InstanceProcess, TLAPS

-----------------------------------------------------------------------------
(* The inductive invariant                                                   *)

\* A start never gets to a step of a stop, nor a stop to one of a start.
Roles ==
  /\ \A c \in Starts : pc[c] \notin {"kill", "wait", "unlink"}
  /\ \A c \in Stops : pc[c] \notin {"spawn", "poll", "reap"}

\* A start that has not spawned its process, or has seen it end.
NoChild(s) == pc[s] \in {"idle", "spawn"} \/ (pc[s] = "failed" /\ res[s] \notin Untidy)

\* A process of the instance is the only one of its start, which has spawned
\* it and has not seen it end.
Children ==
  \A p \in Pids : process_alive(p) /\ proc[p].by # Foreign =>
    pid[proc[p].by] = p /\ ~NoChild(proc[p].by)

\* The child of a start that polls or reaps has its id until that start has
\* seen it end: a dead child is a zombie.
Parents ==
  \A s \in Starts : pc[s] \in {"poll", "reap"} =>
    pid[s] \in Pids /\ process_alive(pid[s]) /\ proc[pid[s]].by = s

\* What a stop signals is the process of one start, under the id that start
\* got; the id may have passed to a process of another start since.
Targets ==
  \A c \in Stops : pc[c] \in {"kill", "wait"} \/ res[c] = "stopped" =>
    /\ target[c] \in Starts /\ pid[c] \in Pids
    /\ pid[target[c]] = pid[c] /\ pc[target[c]] \notin {"idle", "spawn"}

\* An id that has passed the ownership check is not taken by an unrelated
\* process before it is signalled.
Checked ==
  \A c \in Stops : pc[c] = "kill" /\ process_alive(pid[c]) => proc[pid[c]].by # Foreign

\* Only a command that has begun has an outcome.
Fresh == \A c \in Cmds : pc[c] = "idle" => res[c] = "none"

HostInv ==
  /\ TypeOK /\ Roles /\ Children /\ Parents /\ Targets /\ Checked /\ Fresh
  /\ SignalsOnlyOwn /\ StoppedMeansGone

\* Commands in turn: one at a time is under way and none is killed.
InTurn ==
  /\ \A c, d \in Cmds : pc[c] \in Live /\ pc[d] \in Live => c = d
  /\ \A c \in Cmds : pc[c] # "crashed"

\* The first checkout to be placed stays, and every process of the instance
\* runs in it.
OneCheckout ==
  /\ tree.checkout # NoVersion => spare = {}
  /\ \A p \in Pids : process_alive(p) /\ proc[p].by # Foreign =>
       tree.checkout # NoVersion /\ proc[p].cwd = tree.checkout

\* Only processes of the instance listen; one that has not listened yet has a
\* start that polls; while a start is past its checks nobody else listens.
Listeners ==
  \A p \in Pids :
    /\ proc[p].st = "listening" => proc[p].by # Foreign
    /\ proc[p].st = "booting" /\ proc[p].by # Foreign => pc[proc[p].by] \in {"poll", "reap"}
    /\ \A s \in Starts : proc[p].st = "listening" /\ pc[s] \in {"spawn", "poll", "reap"} =>
         proc[p].by = s

\* A stop works on what the pid file says, and removes it when nobody listens.
Files ==
  /\ \A c \in Stops : pc[c] \in {"kill", "wait", "unlink"} => pid[c] = pidFile
  /\ \A c \in Stops : pc[c] = "unlink" => \A p \in Pids : proc[p].st # "listening"

\* What listens after its start has succeeded is what the pid file names.
Named == \A p \in Pids : proc[p].st = "listening" /\ pc[proc[p].by] = "done" => pidFile = p

TurnInv == InTurn /\ OneCheckout /\ Listeners /\ Files /\ Named

-----------------------------------------------------------------------------
\* Commands, and the processes they leave alone.
LEMMA Kinds ==
  /\ Starts \subseteq Cmds /\ Stops \subseteq Cmds
  /\ \A c \in Cmds : c \in Starts <=> c \notin Stops
BY ConstantsAssumption DEF Cmds

\* Nothing runs when the instance has just been installed.
LEMMA HostInit == Init => HostInv
<1> SUFFICES ASSUME Init PROVE HostInv
  OBVIOUS
<1>1. PICK port \in Ports :
        /\ proc = [p \in Pids |-> [st |-> "none", by |-> Foreign, cwd |-> NoVersion,
                                   port |-> port, term |-> FALSE]]
        /\ arg = [c \in Cmds |-> port]
  BY DEF Init
<1>2. TypeOK
  <2>1. proc \in [Pids -> Process] /\ arg \in [Cmds -> Ports]
    BY <1>1 DEF Process, Status
  <2>2. tree \in [checkout : Versions \cup {NoVersion}, venv : BOOLEAN] /\ spare \subseteq Versions
    <3>1. \A v \in Versions \cup {NoVersion}, b \in BOOLEAN :
            [checkout |-> v, venv |-> b] \in [checkout : Versions \cup {NoVersion}, venv : BOOLEAN]
      OBVIOUS
    <3>2. TRUE \in BOOLEAN /\ FALSE \in BOOLEAN
      OBVIOUS
    <3> QED BY <3>1, <3>2 DEF Init, TreeInit
  <2>3. /\ pidFile \in Pids \cup {NoPid} /\ pc \in [Cmds -> {"idle"} \cup Live \cup Ended]
        /\ pid \in [Cmds -> Pids \cup {NoPid}] /\ target \in [Cmds -> Starts \cup {Foreign}]
        /\ res \in [Cmds -> Results]
    BY DEF Init, Results
  <2> QED BY <2>1, <2>2, <2>3 DEF TypeOK
<1>3. \A p \in Pids : proc[p].st = "none" /\ proc[p].term = FALSE
  BY <1>1
<1>4. \A c \in Cmds : pc[c] = "idle" /\ res[c] = "none"
  BY DEF Init
<1>5. Roles /\ Parents /\ Targets /\ Checked /\ Fresh /\ StoppedMeansGone
  BY <1>4, Kinds DEF Roles, Parents, Targets, Checked, Fresh, StoppedMeansGone
<1>6. Children /\ SignalsOnlyOwn
  BY <1>3 DEF Children, SignalsOnlyOwn, process_alive
<1> QED BY <1>2, <1>5, <1>6 DEF HostInv

-----------------------------------------------------------------------------
(* How a process changes                                                     *)

\* A step changes process p alone, to q.
Becomes(p, q) == proc' = [proc EXCEPT ![p] = q]

\* Such a step leaves every other process as it was.
LEMMA BecomesFacts ==
  ASSUME TypeOK, NEW p \in Pids, NEW q \in Process, Becomes(p, q)
  PROVE  /\ proc' \in [Pids -> Process] /\ proc'[p] = q
         /\ \A o \in Pids : o # p => proc'[o] = proc[o]
BY DEF TypeOK, Becomes

\* A process gets another status, or the signal.
LEMMA StatusFacts ==
  ASSUME TypeOK, NEW p \in Pids, NEW s \in Status, proc' = [proc EXCEPT ![p].st = s]
  PROVE  /\ proc' \in [Pids -> Process]
         /\ \A o \in Pids : o # p => proc'[o] = proc[o]
         /\ proc'[p].st = s /\ proc'[p].by = proc[p].by /\ proc'[p].term = proc[p].term
         /\ proc'[p].cwd = proc[p].cwd /\ proc'[p].port = proc[p].port
<1>1. proc[p] \in Process
  BY DEF TypeOK
<1> DEFINE q == [proc[p] EXCEPT !.st = s]
<1>2. /\ q \in Process /\ q.st = s /\ q.by = proc[p].by /\ q.term = proc[p].term
      /\ q.cwd = proc[p].cwd /\ q.port = proc[p].port
  BY <1>1 DEF Process
<1>3. Becomes(p, q)
  BY DEF Becomes
<1> HIDE DEF q
<1> QED BY <1>2, <1>3, BecomesFacts

\* A signal changes no status, and no other process.
LEMMA SignalFacts ==
  ASSUME TypeOK, NEW p \in Pids, proc' = [proc EXCEPT ![p].term = TRUE]
  PROVE  /\ proc' \in [Pids -> Process]
         /\ \A o \in Pids : o # p => proc'[o] = proc[o]
         /\ proc'[p].st = proc[p].st /\ proc'[p].by = proc[p].by /\ proc'[p].term = TRUE
         /\ proc'[p].cwd = proc[p].cwd /\ proc'[p].port = proc[p].port
<1>1. proc[p] \in Process
  BY DEF TypeOK
<1> DEFINE q == [proc[p] EXCEPT !.term = TRUE]
<1>2. /\ q \in Process /\ q.st = proc[p].st /\ q.by = proc[p].by /\ q.term = TRUE
      /\ q.cwd = proc[p].cwd /\ q.port = proc[p].port
  BY <1>1 DEF Process
<1>3. Becomes(p, q)
  BY DEF Becomes
<1> HIDE DEF q
<1> QED BY <1>2, <1>3, BecomesFacts

\* A new process.
LEMMA SpawnFacts ==
  ASSUME TypeOK, NEW p \in Pids, NEW by \in Starts \cup {Foreign},
         NEW cwd \in Versions \cup {NoVersion}, NEW port \in Ports,
         proc' = [proc EXCEPT ![p] =
           [st |-> "booting", by |-> by, cwd |-> cwd, port |-> port, term |-> FALSE]]
  PROVE  /\ proc' \in [Pids -> Process]
         /\ \A o \in Pids : o # p => proc'[o] = proc[o]
         /\ proc'[p].st = "booting" /\ proc'[p].by = by /\ proc'[p].term = FALSE
         /\ proc'[p].cwd = cwd /\ proc'[p].port = port
<1> DEFINE q == [st |-> "booting", by |-> by, cwd |-> cwd, port |-> port, term |-> FALSE]
<1>1. /\ q \in Process /\ q.st = "booting" /\ q.by = by /\ q.term = FALSE
      /\ q.cwd = cwd /\ q.port = port
  BY DEF Process, Status
<1>2. Becomes(p, q)
  BY DEF Becomes
<1> HIDE DEF q
<1> QED BY <1>1, <1>2, BecomesFacts

-----------------------------------------------------------------------------
(* Steps of the commands                                                     *)

\* A step that moves command c to another place and changes no process.
LEMMA QuietStep ==
  ASSUME HostInv, NEW c \in Cmds, NEW next \in {"spawn"} \cup Ended \cup {"unlink"},
         NEW outcome \in Results,
         Goto(c, next), res' = [res EXCEPT ![c] = outcome],
         arg' \in [Cmds -> Ports], UNCHANGED <<proc, tree, spare, target>>,
         pidFile' \in Pids \cup {NoPid},
         pid' = pid \/ (c \in Stops /\ pc[c] = "idle" /\ pid' = [pid EXCEPT ![c] = pidFile]),
         next = "spawn" => c \in Starts /\ pc[c] = "idle",
         next = "unlink" => c \in Stops,
         next = "failed" /\ c \in Starts => pc[c] \in {"idle", "spawn"},
         pc[c] \notin {"done", "failed", "crashed"},
         outcome = "stopped" =>
           \/ res[c] = "stopped"
           \/ pc[c] = "wait" /\ ~process_alive(pid[c])
  PROVE  HostInv'
<1> USE DEF process_alive, NoChild
<1>0. TypeOK /\ Roles /\ Children /\ Parents /\ Targets /\ Checked /\ Fresh
      /\ SignalsOnlyOwn /\ StoppedMeansGone
  BY DEF HostInv
<1>1. /\ pc'[c] = next /\ res'[c] = outcome
      /\ \A d \in Cmds : d # c => pc'[d] = pc[d] /\ res'[d] = res[d] /\ pid'[d] = pid[d]
      /\ c \in Starts => pid'[c] = pid[c]
      /\ pc[c] # "idle" => pid'[c] = pid[c]
  BY <1>0, Kinds DEF Goto, TypeOK
<1>2. TypeOK'
  BY <1>0 DEF TypeOK, Goto, Live, Ended
<1>3. Roles'
  BY <1>0, <1>1, Kinds DEF Roles, Ended
<1>4. Children'
  <2> SUFFICES ASSUME NEW p \in Pids, proc[p].st # "none", proc[p].by # Foreign
               PROVE  pid'[proc[p].by] = p /\ ~NoChild(proc[p].by)'
    BY DEF Children
  <2>1. proc[p].by \in Starts
    BY <1>0 DEF TypeOK, Process
  <2>2. pid[proc[p].by] = p /\ ~NoChild(proc[p].by)
    BY <1>0 DEF Children
  <2> QED BY <1>1, <2>1, <2>2, Kinds DEF Ended
<1>5. Parents'
  BY <1>0, <1>1, Kinds DEF Parents, Ended
<1>6. Targets'
  <2> SUFFICES ASSUME NEW d \in Stops, pc'[d] \in {"kill", "wait"} \/ res'[d] = "stopped"
               PROVE  /\ target[d] \in Starts /\ pid'[d] \in Pids
                      /\ pid'[target[d]] = pid'[d] /\ pc'[target[d]] \notin {"idle", "spawn"}
    BY DEF Targets
  <2>1. (pc[d] \in {"kill", "wait"} \/ res[d] = "stopped") /\ pc[d] # "idle"
    BY <1>0, <1>1, Kinds DEF Fresh, Ended
  <2>2. /\ target[d] \in Starts /\ pid[d] \in Pids
        /\ pid[target[d]] = pid[d] /\ pc[target[d]] \notin {"idle", "spawn"}
    BY <1>0, <2>1 DEF Targets
  <2> QED BY <1>1, <2>1, <2>2, Kinds DEF Ended
<1>7. Checked'
  BY <1>0, <1>1, Kinds DEF Checked, Ended
<1>8. Fresh'
  BY <1>0, <1>1 DEF Fresh, Ended
<1>9. SignalsOnlyOwn'
  BY <1>0 DEF SignalsOnlyOwn
<1>10. StoppedMeansGone'
  <2> SUFFICES ASSUME NEW d \in Stops, res'[d] = "stopped", NEW p \in Pids, proc[p].st # "none"
               PROVE  proc[p].by # target[d]
    BY DEF StoppedMeansGone
  <2>1. CASE res[d] = "stopped"
    BY <1>0, <2>1 DEF StoppedMeansGone
  <2>2. CASE res[d] # "stopped"
    <3>1. d = c /\ pc[c] = "wait" /\ proc[pid[c]].st = "none"
      BY <1>1, <2>2, Kinds
    <3>2. target[c] \in Starts /\ pid[target[c]] = pid[c] /\ target[c] # Foreign
      BY <1>0, <3>1, ConstantsAssumption DEF Targets
    <3> QED BY <1>0, <3>1, <3>2 DEF Children
  <2> QED BY <2>1, <2>2
<1> QED BY <1>2, <1>3, <1>4, <1>5, <1>6, <1>7, <1>8, <1>9, <1>10 DEF HostInv

\* A step that changes a process that is there: it goes on, ends or gets a
\* signal, and the command that looks after it may move on with it.
LEMMA ProcessStep ==
  ASSUME HostInv, NEW p \in Pids, process_alive(p), proc' \in [Pids -> Process],
         \A o \in Pids : o # p => proc'[o] = proc[o],
         proc'[p].by = proc[p].by, proc'[p].term => proc[p].by # Foreign,
         UNCHANGED <<pidFile, arg, pid, target, tree, spare>>,
         pc' \in [Cmds -> {"idle"} \cup Live \cup Ended], res' \in [Cmds -> Results],
         \A d \in Cmds :
           \/ pc'[d] = pc[d] /\ res'[d] = res[d]
           \/ d \in Starts /\ pc[d] = "poll" /\ pc'[d] = "reap" /\ res'[d] = res[d]
           \/ d \in Stops /\ pc[d] = "kill" /\ pc'[d] = "wait" /\ res'[d] = res[d]
           \/ /\ d \in Starts /\ pid[d] = p /\ pc[d] \in {"poll", "reap"}
              /\ pc'[d] = "failed" /\ proc'[p].st = "none",
         proc'[p].st = "none" => \A s \in Starts : pc'[s] \in {"poll", "reap"} => pid[s] # p
  PROVE  HostInv'
<1> USE DEF process_alive, NoChild
<1>0. TypeOK /\ Roles /\ Children /\ Parents /\ Targets /\ Checked /\ Fresh
      /\ SignalsOnlyOwn /\ StoppedMeansGone
  BY DEF HostInv
<1>1. \A o \in Pids : proc'[o].by = proc[o].by /\ (proc'[o].st # "none" => proc[o].st # "none")
  OBVIOUS
<1>2. TypeOK'
  BY <1>0 DEF TypeOK
<1>3. Roles'
  BY <1>0, Kinds DEF Roles
<1>4. Children'
  <2> SUFFICES ASSUME NEW o \in Pids, proc'[o].st # "none", proc[o].by # Foreign
               PROVE  pid[proc[o].by] = o /\ ~NoChild(proc[o].by)'
    BY <1>1 DEF Children
  <2>1. proc[o].by \in Starts
    BY <1>0 DEF TypeOK, Process
  <2>2. pid[proc[o].by] = o /\ ~NoChild(proc[o].by)
    BY <1>0, <1>1 DEF Children
  <2> QED BY <2>1, <2>2, Kinds
<1>5. Parents'
  <2> SUFFICES ASSUME NEW s \in Starts, pc'[s] \in {"poll", "reap"}
               PROVE  pid[s] \in Pids /\ proc'[pid[s]].st # "none" /\ proc'[pid[s]].by = s
    BY DEF Parents
  <2>1. pc[s] \in {"poll", "reap"}
    BY Kinds
  <2>2. pid[s] \in Pids /\ proc[pid[s]].st # "none" /\ proc[pid[s]].by = s
    BY <1>0, <2>1 DEF Parents
  <2> QED BY <2>2
<1>6. Targets'
  <2> SUFFICES ASSUME NEW d \in Stops, pc'[d] \in {"kill", "wait"} \/ res'[d] = "stopped"
               PROVE  /\ target[d] \in Starts /\ pid[d] \in Pids
                      /\ pid[target[d]] = pid[d] /\ pc'[target[d]] \notin {"idle", "spawn"}
    BY DEF Targets
  <2>1. pc[d] \in {"kill", "wait"} \/ res[d] = "stopped"
    BY Kinds
  <2>2. /\ target[d] \in Starts /\ pid[d] \in Pids
        /\ pid[target[d]] = pid[d] /\ pc[target[d]] \notin {"idle", "spawn"}
    BY <1>0, <2>1 DEF Targets
  <2> QED BY <2>2, Kinds
<1>7. Checked'
  <2> SUFFICES ASSUME NEW d \in Stops, pc'[d] = "kill", proc'[pid[d]].st # "none"
               PROVE  proc'[pid[d]].by # Foreign
    BY DEF Checked
  <2>1. pc[d] = "kill"
    BY Kinds
  <2>2. pid[d] \in Pids
    BY <1>0, <2>1 DEF Targets
  <2> QED BY <1>0, <1>1, <2>1, <2>2 DEF Checked
<1>8. Fresh'
  BY <1>0 DEF Fresh
<1>9. SignalsOnlyOwn'
  <2> SUFFICES ASSUME NEW o \in Pids, proc'[o].term PROVE proc[o].by # Foreign
    BY <1>1 DEF SignalsOnlyOwn
  <2> QED BY <1>0 DEF SignalsOnlyOwn
<1>10. StoppedMeansGone'
  <2> SUFFICES ASSUME NEW d \in Stops, res'[d] = "stopped", NEW o \in Pids, proc'[o].st # "none"
               PROVE  proc[o].by # target[d]
    BY <1>1 DEF StoppedMeansGone
  <2>1. res[d] = "stopped"
    BY Kinds
  <2> QED BY <1>0, <1>1, <2>1 DEF StoppedMeansGone
<1> QED BY <1>2, <1>3, <1>4, <1>5, <1>6, <1>7, <1>8, <1>9, <1>10 DEF HostInv

\* A start spawns its process under an id that is free.
LEMMA SpawnStep ==
  ASSUME HostInv, NEW c \in Cmds, pc[c] = "spawn", NEW p \in Pids, ~process_alive(p),
         tree.checkout # NoVersion,
         proc' = [proc EXCEPT ![p] = [st |-> "booting", by |-> c, cwd |-> tree.checkout,
                                      port |-> arg[c], term |-> FALSE]],
         pid' = [pid EXCEPT ![c] = p], Goto(c, "poll"),
         UNCHANGED <<res, pidFile, arg, target, tree, spare>>
  PROVE  HostInv'
<1> USE DEF process_alive, NoChild
<1>0. TypeOK /\ Roles /\ Children /\ Parents /\ Targets /\ Checked /\ Fresh
      /\ SignalsOnlyOwn /\ StoppedMeansGone
  BY DEF HostInv
<1>1. c \in Starts /\ c # Foreign
  BY <1>0, Kinds, ConstantsAssumption DEF Roles
<1>2. /\ proc' \in [Pids -> Process] /\ \A o \in Pids : o # p => proc'[o] = proc[o]
      /\ proc'[p].st = "booting" /\ proc'[p].by = c /\ proc'[p].term = FALSE
  <2>1. tree.checkout \in Versions \cup {NoVersion} /\ arg[c] \in Ports
    BY <1>0 DEF TypeOK
  <2> QED BY <1>0, <1>1, <2>1, SpawnFacts
<1>3. /\ pc'[c] = "poll" /\ pid'[c] = p
      /\ \A d \in Cmds : d # c => pc'[d] = pc[d] /\ pid'[d] = pid[d]
  BY <1>0 DEF Goto, TypeOK
<1>4. TypeOK'
  BY <1>0, <1>2 DEF TypeOK, Goto, Live
<1>5. Roles'
  BY <1>0, <1>1, <1>3, Kinds DEF Roles
<1>6. Children'
  <2> SUFFICES ASSUME NEW o \in Pids, proc'[o].st # "none", proc'[o].by # Foreign
               PROVE  /\ pid'[proc'[o].by] = o
                      /\ ~NoChild(proc[o].by)'
    BY DEF Children
  <2>1. CASE o = p
    BY <1>2, <1>3, <2>1
  <2>2. CASE o # p
    <3>1. proc'[o] = proc[o] /\ proc[o].by \in Starts
      BY <1>0, <1>2, <2>2 DEF TypeOK, Process
    <3>2. pid[proc[o].by] = o /\ ~NoChild(proc[o].by)
      BY <1>0, <3>1 DEF Children
    <3> QED BY <1>3, <3>1, <3>2, Kinds
  <2> QED BY <2>1, <2>2
<1>7. Parents'
  BY <1>0, <1>2, <1>3, Kinds DEF Parents
<1>8. Targets'
  BY <1>0, <1>1, <1>3, Kinds DEF Targets
<1>9. Checked'
  BY <1>0, <1>1, <1>2, <1>3, Kinds DEF Checked, Targets
<1>10. Fresh'
  BY <1>0, <1>3 DEF Fresh
<1>11. SignalsOnlyOwn'
  BY <1>0, <1>2 DEF SignalsOnlyOwn
<1>12. StoppedMeansGone'
  BY <1>0, <1>2 DEF StoppedMeansGone, Targets
<1> QED BY <1>4, <1>5, <1>6, <1>7, <1>8, <1>9, <1>10, <1>11, <1>12 DEF HostInv

\* An unrelated process gets an id, but not one that is about to be signalled.
LEMMA ForeignStep ==
  ASSUME HostInv, NEW p \in Pids, NEW port \in Ports, ForeignSpawn(p, port), UNCHANGED spare
  PROVE  HostInv'
<1> USE DEF process_alive, NoChild
<1>0. TypeOK /\ Roles /\ Children /\ Parents /\ Targets /\ Checked /\ Fresh
      /\ SignalsOnlyOwn /\ StoppedMeansGone
  BY DEF HostInv
<1>1. /\ proc' \in [Pids -> Process] /\ \A o \in Pids : o # p => proc'[o] = proc[o]
      /\ proc'[p].by = Foreign /\ proc'[p].term = FALSE
  BY <1>0, SpawnFacts DEF ForeignSpawn
<1>2. /\ UNCHANGED <<pidFile, pc, arg, pid, target, res, tree>> /\ proc[p].st = "none"
      /\ \A c \in Stops : pc[c] = "kill" => pid[c] # p
  BY DEF ForeignSpawn, ctl
<1>3. TypeOK' /\ Roles' /\ Fresh' /\ Targets'
  BY <1>0, <1>1, <1>2 DEF TypeOK, Roles, Fresh, Targets
<1>4. Children' /\ Parents'
  BY <1>0, <1>1, <1>2 DEF Children, Parents
<1>5. Checked' /\ SignalsOnlyOwn'
  BY <1>0, <1>1, <1>2 DEF Checked, SignalsOnlyOwn, Targets
<1>6. StoppedMeansGone'
  BY <1>0, <1>1, <1>2, ConstantsAssumption DEF StoppedMeansGone, Targets
<1> QED BY <1>3, <1>4, <1>5, <1>6 DEF HostInv

\* A stop has found that the process the pid file names is the instance's.
LEMMA TargetStep ==
  ASSUME HostInv, NEW c \in Stops, pc[c] = "idle", pidFile # NoPid,
         process_owned_by_instance(pidFile), Goto(c, "kill"),
         pid' = [pid EXCEPT ![c] = pidFile],
         target' = [target EXCEPT ![c] = proc[pidFile].by],
         UNCHANGED <<proc, pidFile, arg, res, tree, spare>>
  PROVE  HostInv'
<1> USE DEF process_alive, NoChild
<1>0. TypeOK /\ Roles /\ Children /\ Parents /\ Targets /\ Checked /\ Fresh
      /\ SignalsOnlyOwn /\ StoppedMeansGone /\ c \in Cmds
  BY Kinds DEF HostInv
<1>1. /\ pidFile \in Pids /\ proc[pidFile].st # "none"
      /\ proc[pidFile].by # Foreign /\ proc[pidFile].by \in Starts
  BY <1>0 DEF TypeOK, Process, process_owned_by_instance, Running
<1>2. pid[proc[pidFile].by] = pidFile /\ pc[proc[pidFile].by] \notin {"idle", "spawn"}
  BY <1>0, <1>1 DEF Children
<1>3. /\ pc'[c] = "kill" /\ pid'[c] = pidFile /\ target'[c] = proc[pidFile].by /\ res[c] = "none"
      /\ \A d \in Cmds : d # c => pc'[d] = pc[d] /\ pid'[d] = pid[d] /\ target'[d] = target[d]
  BY <1>0 DEF Goto, TypeOK, Fresh
<1>4. TypeOK'
  BY <1>0, <1>1 DEF TypeOK, Goto, Live
<1>5. Roles' /\ Fresh' /\ SignalsOnlyOwn'
  BY <1>0, <1>3, Kinds DEF Roles, Fresh, SignalsOnlyOwn
<1>6. Children'
  BY <1>0, <1>3, Kinds DEF Children, TypeOK, Process
<1>7. Parents'
  BY <1>0, <1>3, Kinds DEF Parents
<1>8. Targets'
  BY <1>0, <1>1, <1>2, <1>3, Kinds DEF Targets
<1>9. Checked'
  BY <1>0, <1>1, <1>3, Kinds DEF Checked
<1>10. StoppedMeansGone'
  BY <1>0, <1>3, Kinds DEF StoppedMeansGone
<1> QED BY <1>4, <1>5, <1>6, <1>7, <1>8, <1>9, <1>10 DEF HostInv

\* A command ends where it stands: a dead child it has not waited for is reaped,
\* and one that lives stays.
LEMMA LeaveStep ==
  ASSUME HostInv, NEW c \in Cmds, pc[c] \in Live, NEW next \in Ended, NEW outcome \in Results,
         End(c, next, outcome), proc' = Orphaned(c), pidFile' \in Pids \cup {NoPid},
         UNCHANGED <<arg, pid, target, tree, spare>>,
         outcome = "stopped" => res[c] = "stopped",
         next = "failed" => outcome \in Untidy
  PROVE  HostInv'
<1> USE DEF process_alive, NoChild
<1>0. TypeOK /\ Roles /\ Children /\ Parents /\ Targets /\ Checked /\ Fresh
      /\ SignalsOnlyOwn /\ StoppedMeansGone
  BY DEF HostInv
<1>1. ASSUME NEW p \in Pids
      PROVE  /\ proc'[p] \in Process /\ proc'[p].by = proc[p].by /\ proc'[p].term = proc[p].term
             /\ proc[p].by # c => proc'[p] = proc[p]
             /\ proc'[p].st # "none" => proc[p].st # "none"
  <2>1. proc[p] \in Process
    BY <1>0 DEF TypeOK
  <2>2. CASE proc[p].st = "zombie" /\ proc[p].by = c
    <3>1. proc'[p] = [proc[p] EXCEPT !.st = "none"]
      BY <2>2 DEF Orphaned
    <3> QED BY <2>1, <2>2, <3>1 DEF Process, Status
  <2>3. CASE ~(proc[p].st = "zombie" /\ proc[p].by = c)
    BY <2>1, <2>3 DEF Orphaned
  <2> QED BY <2>2, <2>3
<1>2. /\ pc'[c] \in Ended /\ pc'[c] = next /\ res'[c] = outcome
      /\ \A d \in Cmds : d # c => pc'[d] = pc[d] /\ res'[d] = res[d]
  BY <1>0 DEF End, Goto, TypeOK
<1>3. TypeOK'
  <2>1. proc' \in [Pids -> Process]
    BY <1>1 DEF Orphaned
  <2> QED BY <1>0, <2>1 DEF TypeOK, End, Goto, Ended
<1>4. Roles' /\ Fresh'
  BY <1>0, <1>2, Kinds DEF Roles, Fresh, Ended
<1>5. Children'
  <2> SUFFICES ASSUME NEW o \in Pids, proc'[o].st # "none", proc'[o].by # Foreign
               PROVE  pid[proc[o].by] = o /\ ~NoChild(proc[o].by)'
    BY <1>1 DEF Children
  <2>1. /\ proc[o].by \in Starts /\ proc[o].by \in Cmds
        /\ pid[proc[o].by] = o /\ ~NoChild(proc[o].by)
    BY <1>0, <1>1, Kinds DEF Children, TypeOK, Process
  <2>2. CASE proc[o].by = c
    BY <1>1, <1>2, <2>1, <2>2 DEF Ended
  <2>3. CASE proc[o].by # c
    BY <1>1, <1>2, <2>1, <2>3
  <2> QED BY <2>1, <2>2, <2>3
<1>6. Parents'
  BY <1>0, <1>1, <1>2, Kinds DEF Parents, Ended
<1>7. Targets'
  BY <1>0, <1>2, Kinds DEF Targets, Ended, Live
<1>8. Checked' /\ SignalsOnlyOwn'
  BY <1>0, <1>1, <1>2, Kinds DEF Checked, SignalsOnlyOwn, Targets, Ended
<1>9. StoppedMeansGone'
  BY <1>0, <1>1, <1>2, Kinds DEF StoppedMeansGone
<1> QED BY <1>3, <1>4, <1>5, <1>6, <1>7, <1>8, <1>9 DEF HostInv

\* A command is killed.
LEMMA CrashStep ==
  ASSUME HostInv, NEW c \in Cmds, CtlCrash(c), UNCHANGED spare
  PROVE  HostInv'
<1>1. pidFile \in Pids \cup {NoPid} /\ res[c] \in Results /\ res = [res EXCEPT ![c] = res[c]]
  BY DEF HostInv, TypeOK
<1>2. /\ pc[c] \in Live /\ End(c, "crashed", res[c]) /\ proc' = Orphaned(c)
      /\ UNCHANGED <<pidFile, arg, pid, target, tree>>
  BY <1>1 DEF CtlCrash, End
<1> QED BY <1>1, <1>2, LeaveStep DEF Ended

\* A start goes on (command_instance_start).
LEMMA StartStep ==
  ASSUME HostInv, NEW c \in Cmds, UNCHANGED spare,
         \/ \E port \in Ports : StartChecks(c, port)
         \/ Spawn(c) \/ PollExited(c) \/ PollOpen(c) \/ PollFails(c)
         \/ StartDeadline(c) \/ Reap(c) \/ ReapFails(c)
  PROVE  HostInv'
<1>0. TypeOK /\ Roles /\ Parents /\ res[c] \in Results /\ c \in Starts \cup Stops
  BY DEF HostInv, TypeOK, Cmds
<1>1. ASSUME NEW port \in Ports, StartChecks(c, port) PROVE HostInv'
  <2>1. arg' \in [Cmds -> Ports] /\ pidFile' \in Pids \cup {NoPid}
    BY <1>0, <1>1 DEF StartChecks, TypeOK
  <2>2. res[c] = "none"
    BY <1>1 DEF StartChecks, HostInv, Fresh
  <2>3. PICK next \in {"failed", "spawn"}, outcome \in Results :
          Goto(c, next) /\ res' = [res EXCEPT ![c] = outcome] /\ outcome # "stopped"
    <3>1. CASE Goto(c, "spawn") /\ UNCHANGED res
      BY <1>0, <2>2, <3>1 DEF TypeOK
    <3>2. CASE \/ End(c, "failed", "INSTANCE_NOT_INSTALLED") \/ End(c, "failed", "PORT_IN_USE")
               \/ End(c, "failed", "OS_ERROR") \/ End(c, "failed", "COMFYCTL_FAILED")
      BY <3>2 DEF End, Results, Untidy
    <3> QED BY <1>1, <3>1, <3>2 DEF StartChecks
  <2> QED BY <1>1, <2>1, <2>3, QuietStep DEF StartChecks, Ended
<1>2. CASE Spawn(c)
  <2>1. CASE \E p \in Pids :
               /\ tree.checkout # NoVersion /\ ~process_alive(p)
               /\ proc' = [proc EXCEPT ![p] =
                    [st |-> "booting", by |-> c, cwd |-> tree.checkout,
                     port |-> arg[c], term |-> FALSE]]
               /\ pid' = [pid EXCEPT ![c] = p] /\ Goto(c, "poll") /\ UNCHANGED res
    BY <1>2, <2>1, SpawnStep DEF Spawn
  <2>2. ASSUME NEW outcome \in {"VENV_MISSING", "OS_ERROR"}, End(c, "failed", outcome),
               UNCHANGED <<proc, pid>>
        PROVE  HostInv'
    <3>1. outcome \in Results /\ outcome # "stopped" /\ Goto(c, "failed")
          /\ res' = [res EXCEPT ![c] = outcome]
      BY <2>2 DEF Results, Untidy, End
    <3>2. /\ pc[c] = "spawn" /\ UNCHANGED <<pidFile, arg, target, tree>>
          /\ arg \in [Cmds -> Ports] /\ pidFile \in Pids \cup {NoPid}
      BY <1>0, <1>2 DEF Spawn, TypeOK
    <3> QED BY <2>2, <3>1, <3>2, QuietStep DEF Ended
  <2> QED BY <1>2, <2>1, <2>2 DEF Spawn
<1>3. CASE PollOpen(c) \/ PollFails(c)
  <2>1. /\ pc[c] = "poll" /\ proc' = Orphaned(c) /\ UNCHANGED <<arg, pid, target, tree>>
        /\ pidFile \in Pids \cup {NoPid} /\ pid[c] \in Pids \cup {NoPid}
    BY <1>0, <1>3 DEF PollOpen, PollFails, TypeOK
  <2>2. pidFile' \in Pids \cup {NoPid}
    BY <1>3, <2>1 DEF PollOpen, PollFails
  <2>3. PICK next \in {"done", "failed"}, outcome \in Results :
          /\ End(c, next, outcome) /\ outcome # "stopped"
          /\ next = "failed" => outcome \in Untidy
    BY <1>3 DEF PollOpen, PollFails, Results, Untidy
  <2> QED BY <2>1, <2>2, <2>3, LeaveStep DEF Ended, Live
<1>4. CASE StartDeadline(c) \/ PollExited(c) \/ Reap(c)
  <2>1. c \in Starts /\ pc[c] \in {"poll", "reap"} /\ UNCHANGED <<pidFile, arg, pid, target, tree>>
    BY <1>0, <1>4 DEF StartDeadline, PollExited, Reap, Roles
  <2>2. pid[c] \in Pids /\ process_alive(pid[c]) /\ proc[pid[c]].by = c /\ c # Foreign
    BY <1>0, <2>1, ConstantsAssumption DEF Parents
  <2>3. CASE StartDeadline(c)
    <3>1. /\ proc' \in [Pids -> Process] /\ \A o \in Pids : o # pid[c] => proc'[o] = proc[o]
          /\ proc'[pid[c]].st = proc[pid[c]].st /\ proc'[pid[c]].by = proc[pid[c]].by
      BY <1>0, <2>2, <2>3, SignalFacts DEF StartDeadline
    <3>2. /\ pc' \in [Cmds -> {"idle"} \cup Live \cup Ended] /\ res' \in [Cmds -> Results]
          /\ pc[c] = "poll" /\ pc'[c] = "reap" /\ UNCHANGED res
          /\ \A d \in Cmds : d # c => pc'[d] = pc[d]
      BY <1>0, <2>3 DEF StartDeadline, Goto, TypeOK, Live
    <3> QED BY <2>1, <2>2, <3>1, <3>2, ProcessStep DEF process_alive
  <2>4. CASE PollExited(c) \/ Reap(c)
    <3>1. /\ proc' = [proc EXCEPT ![pid[c]].st = "none"]
          /\ End(c, "failed", "PROCESS_START_FAILED")
      BY <2>4 DEF PollExited, Reap
    <3>2. /\ proc' \in [Pids -> Process] /\ \A o \in Pids : o # pid[c] => proc'[o] = proc[o]
          /\ proc'[pid[c]].st = "none" /\ proc'[pid[c]].by = proc[pid[c]].by
      BY <1>0, <2>2, <3>1, StatusFacts DEF Status
    <3>3. /\ pc' \in [Cmds -> {"idle"} \cup Live \cup Ended] /\ res' \in [Cmds -> Results]
          /\ pc'[c] = "failed"
          /\ \A d \in Cmds : d # c => pc'[d] = pc[d] /\ res'[d] = res[d]
      BY <1>0, <3>1 DEF End, Goto, TypeOK, Ended, Results
    <3>4. \A s \in Starts : pc'[s] \in {"poll", "reap"} => pid[s] # pid[c]
      BY <1>0, <2>2, <3>3, Kinds DEF Parents
    <3> QED BY <2>1, <2>2, <3>2, <3>3, <3>4, ProcessStep
  <2> QED BY <1>4, <2>3, <2>4
<1>5. CASE ReapFails(c)
  <2>1. /\ pc[c] = "reap" /\ Running(pid[c]) /\ End(c, "failed", "TIMEOUT_EXPIRED")
        /\ UNCHANGED <<proc, pidFile, arg, pid, target, tree>>
    BY <1>5 DEF ReapFails
  <2>2. c \in Starts /\ pid[c] \in Pids
    BY <1>0, <2>1 DEF Roles, Parents
  <2>3. \A p \in Pids : proc[p].by = c /\ proc[p].st # "none" => p = pid[c]
    BY <2>2, ConstantsAssumption DEF HostInv, Children, process_alive
  <2>4. Orphaned(c) = [p \in Pids |-> proc[p]]
    BY <2>1, <2>3 DEF Orphaned, Running
  <2>5. proc' = Orphaned(c)
    BY <1>0, <2>1, <2>4 DEF TypeOK
  <2>6. "TIMEOUT_EXPIRED" \in Untidy /\ "TIMEOUT_EXPIRED" \in Results
        /\ pidFile \in Pids \cup {NoPid}
    BY <1>0 DEF Untidy, Results, TypeOK
  <2> QED BY <2>1, <2>5, <2>6, LeaveStep DEF Ended, Live
<1> QED BY <1>1, <1>2, <1>3, <1>4, <1>5

\* A stop goes on (command_instance_stop).
LEMMA StopStep ==
  ASSUME HostInv, NEW c \in Cmds, UNCHANGED spare,
         StopReads(c) \/ Kill(c) \/ WaitGone(c) \/ StopDeadline(c) \/ Unlink(c)
  PROVE  HostInv'
<1>0. TypeOK /\ Roles /\ Targets /\ res[c] \in Results /\ arg \in [Cmds -> Ports]
      /\ pidFile \in Pids \cup {NoPid}
  BY DEF HostInv, TypeOK
<1>1. c \in Stops
  BY <1>0, Kinds DEF StopReads, Kill, WaitGone, StopDeadline, Unlink, Roles
<1>2. CASE StopReads(c)
  <2>1. pc[c] = "idle" /\ pid' = [pid EXCEPT ![c] = pidFile] /\ UNCHANGED <<proc, pidFile, arg, tree>>
    BY <1>2 DEF StopReads
  <2>2. ASSUME NEW next \in {"done", "unlink", "failed"},
               NEW outcome \in {"pid_file_missing", "process_not_alive", "PID_INVALID", "OS_ERROR"},
               End(c, next, outcome), UNCHANGED target
        PROVE  HostInv'
    <3>1. Goto(c, next) /\ res' = [res EXCEPT ![c] = outcome] /\ outcome \in Results
      BY <2>2 DEF End, Results, Untidy
    <3> QED BY <1>0, <1>1, <2>1, <2>2, <3>1, Kinds, QuietStep DEF Ended
  <2>3. CASE /\ pidFile # NoPid /\ process_owned_by_instance(pidFile)
             /\ target' = [target EXCEPT ![c] = proc[pidFile].by]
             /\ Goto(c, "kill") /\ UNCHANGED res
    BY <1>1, <2>1, <2>3, TargetStep
  <2> QED BY <1>2, <2>2, <2>3 DEF StopReads
<1>3. CASE Kill(c)
  <2>1. pc[c] = "kill" /\ UNCHANGED <<pidFile, arg, pid, target, tree>> /\ pid[c] \in Pids
    BY <1>0, <1>1, <1>3 DEF Kill, Targets
  <2>2. CASE process_alive(pid[c])
    <3>1. /\ proc' = [proc EXCEPT ![pid[c]].term = TRUE] /\ Goto(c, "wait") /\ UNCHANGED res
          /\ proc[pid[c]].by # Foreign
      BY <1>1, <1>3, <2>1, <2>2 DEF Kill, HostInv, Checked
    <3>2. /\ proc' \in [Pids -> Process] /\ \A o \in Pids : o # pid[c] => proc'[o] = proc[o]
          /\ proc'[pid[c]].st = proc[pid[c]].st /\ proc'[pid[c]].by = proc[pid[c]].by
      BY <1>0, <2>1, <3>1, SignalFacts
    <3>3. /\ pc' \in [Cmds -> {"idle"} \cup Live \cup Ended] /\ res' \in [Cmds -> Results]
          /\ pc'[c] = "wait" /\ \A d \in Cmds : d # c => pc'[d] = pc[d]
      BY <1>0, <3>1 DEF Goto, TypeOK, Live
    <3> QED BY <1>1, <2>1, <2>2, <3>1, <3>2, <3>3, ProcessStep DEF process_alive
  <2>3. CASE ~process_alive(pid[c])
    <3>1. /\ Goto(c, "failed") /\ res' = [res EXCEPT ![c] = "OS_ERROR"] /\ UNCHANGED proc
          /\ "OS_ERROR" \in Results
      BY <1>3, <2>3 DEF Kill, End, Results, Untidy
    <3> QED BY <1>0, <1>1, <2>1, <3>1, Kinds, QuietStep DEF Ended
  <2> QED BY <2>2, <2>3
<1>4. CASE WaitGone(c)
  <2>1. /\ pc[c] = "wait" /\ ~process_alive(pid[c]) /\ Goto(c, "unlink")
        /\ res' = [res EXCEPT ![c] = "stopped"] /\ "stopped" \in Results
        /\ UNCHANGED <<proc, pidFile, arg, pid, target, tree>>
    BY <1>4 DEF WaitGone, End, Results
  <2> QED BY <1>0, <1>1, <2>1, QuietStep
<1>5. CASE StopDeadline(c)
  <2>1. /\ pc[c] = "wait" /\ Goto(c, "failed")
        /\ res' = [res EXCEPT ![c] = "PROCESS_STOP_TIMEOUT"] /\ "PROCESS_STOP_TIMEOUT" \in Results
        /\ UNCHANGED <<proc, pidFile, arg, pid, target, tree>>
    BY <1>5 DEF StopDeadline, End, Results
  <2> QED BY <1>0, <1>1, <2>1, Kinds, QuietStep DEF Ended
<1>6. CASE Unlink(c)
  <2>1. pc[c] = "unlink" /\ UNCHANGED <<proc, arg, pid, target, tree>> /\ pidFile' \in Pids \cup {NoPid}
    BY <1>0, <1>6 DEF Unlink
  <2>2. PICK next \in {"done", "failed"}, outcome \in {res[c], "OS_ERROR"} :
          Goto(c, next) /\ res' = [res EXCEPT ![c] = outcome]
    <3>1. res = [res EXCEPT ![c] = res[c]]
      BY <1>0 DEF TypeOK
    <3> QED BY <1>6, <3>1 DEF Unlink, End
  <2>3. outcome \in Results
    BY <1>0, <2>2 DEF Results, Untidy
  <2> QED BY <1>0, <1>1, <2>1, <2>2, <2>3, Kinds, QuietStep DEF Ended
<1> QED BY <1>2, <1>3, <1>4, <1>5, <1>6

\* A process of the host goes on.
LEMMA HostStepInv ==
  ASSUME HostInv, NEW p \in Pids, HostStep(p), UNCHANGED spare
  PROVE  HostInv'
<1>0. TypeOK /\ Parents /\ SignalsOnlyOwn
  BY DEF HostInv
<1>1. CASE \E port \in Ports : ForeignSpawn(p, port)
  BY <1>1, ForeignStep
<1>2. CASE Listen(p) \/ Close(p) \/ Exit(p)
  <2>1. PICK s \in Status : /\ proc' = [proc EXCEPT ![p].st = s]
                            /\ s = "none" => Exit(p) /\ ~HasParent(p)
    BY <1>2 DEF Listen, Close, Exit, Status
  <2>2. /\ proc' \in [Pids -> Process] /\ \A o \in Pids : o # p => proc'[o] = proc[o]
        /\ proc'[p].st = s /\ proc'[p].by = proc[p].by /\ proc'[p].term = proc[p].term
    BY <1>0, <2>1, StatusFacts
  <2>3. process_alive(p) /\ UNCHANGED <<pidFile, pc, arg, pid, target, res, tree>>
    BY <1>2 DEF Listen, Close, Exit, Running, process_alive, ctl
  <2>4. s = "none" => \A d \in Starts : pc[d] \in {"poll", "reap"} => pid[d] # p
    BY <1>0, <2>1, ConstantsAssumption DEF HasParent, Parents
  <2>5. pc' \in [Cmds -> {"idle"} \cup Live \cup Ended] /\ res' \in [Cmds -> Results]
    BY <1>0, <2>3 DEF TypeOK
  <2>6. proc'[p].term => proc[p].by # Foreign
    BY <1>0, <2>2 DEF SignalsOnlyOwn
  <2> QED BY <2>2, <2>3, <2>4, <2>5, <2>6, ProcessStep
<1> QED BY <1>1, <1>2 DEF HostStep

\* An install changes the checkout under the processes.
LEMMA InstallInv ==
  ASSUME HostInv, Install \/ UNCHANGED vars
  PROVE  HostInv'
<1> DEFINE Tree == [checkout : Versions \cup {NoVersion}, venv : BOOLEAN]
<1>0. tree \in Tree /\ spare \subseteq Versions
  BY DEF HostInv, TypeOK
<1>1. /\ UNCHANGED <<proc, pidFile, pc, arg, pid, target, res>>
      /\ tree' \in Tree /\ spare' \subseteq Versions
  <2>1. UNCHANGED <<proc, pidFile, pc, arg, pid, target, res>>
    BY DEF Install, vars, ctl
  <2>2. spare' \subseteq Versions
    BY <1>0 DEF Install, TreeNext, ParkCheckout, ParkVenv, PlaceCheckout, PlaceVenv, vars
  <2>3. tree' \in Tree
    <3>1. ASSUME NEW v \in Versions \cup {NoVersion} PROVE [tree EXCEPT !.checkout = v] \in Tree
      BY <1>0
    <3>2. ASSUME NEW b \in BOOLEAN PROVE [tree EXCEPT !.venv = b] \in Tree
      BY <1>0
    <3> QED BY <1>0, <3>1, <3>2 DEF Install, TreeNext, ParkCheckout, ParkVenv, PlaceCheckout,
                                      PlaceVenv, vars
  <2> QED BY <2>1, <2>2, <2>3
<1> QED BY <1>1 DEF HostInv, TypeOK, Roles, Children, Parents, Targets, Checked, Fresh,
                    SignalsOnlyOwn, StoppedMeansGone, process_alive, NoChild

\* The invariant holds in every reachable state.
LEMMA HostInvariant == Spec => []HostInv
<1>1. HostInv /\ [Next]_vars => HostInv'
  <2> SUFFICES ASSUME HostInv, [Next]_vars PROVE HostInv'
    OBVIOUS
  <2>1. ASSUME NEW c \in Cmds, Begin(c) \/ StepOf(c) \/ CtlCrash(c), UNCHANGED spare
        PROVE  HostInv'
    BY <2>1, StartStep, StopStep, CrashStep DEF Begin, StepOf
  <2> QED BY <2>1, HostStepInv, InstallInv DEF Next
<1> QED BY <1>1, HostInit, PTL DEF Spec

-----------------------------------------------------------------------------
(* Commands that overlap, are killed and race with installs                  *)

\* Every variable keeps its type.
THEOREM TypeCorrect == Spec => []TypeOK
<1>1. HostInv => TypeOK
  BY DEF HostInv
<1> QED BY <1>1, HostInvariant, PTL

\* A signal of comfyctl reaches only processes that the instance's starts have
\* spawned (command_instance_stop, the timeout of command_instance_start).
THEOREM SignalsStayAtHome == Spec => []SignalsOnlyOwn
<1>1. HostInv => SignalsOnlyOwn
  BY DEF HostInv
<1> QED BY <1>1, HostInvariant, PTL

\* A start that has failed for any reason but a refused socket or file or a child
\* that outlives SIGKILL has left no process behind (command_instance_start).
THEOREM FailedStartsCleanUp == Spec => []OnlyFaultsLeaveChildren
<1>1. HostInv => OnlyFaultsLeaveChildren
  BY DEF HostInv, Children, NoChild, OnlyFaultsLeaveChildren
<1> QED BY <1>1, HostInvariant, PTL

\* The process a stop has reported as stopped does not exist any more, even if
\* its id is in use again (command_instance_stop).
THEOREM StoppedIsGone == Spec => []StoppedMeansGone
<1>1. HostInv => StoppedMeansGone
  BY DEF HostInv
<1> QED BY <1>1, HostInvariant, PTL

-----------------------------------------------------------------------------
(* Commands in turn                                                          *)

\* What RunningIsTracked needs of the environment: callers wait for a command to
\* end, none is killed, nobody else takes the port, the port and the version stay
\* the same.  Faults may happen.
Alone ==
  /\ Serial /\ ~Thieves /\ ~CtlCrashes
  /\ \A a, b \in Ports : a = b
  /\ \A v, w \in Versions : v = w

\* Nothing is under way when the instance has just been installed.
LEMMA TurnInit == Alone /\ Init => TurnInv
<1> SUFFICES ASSUME Alone, Init PROVE TurnInv
  OBVIOUS
<1>1. \A p \in Pids : proc[p].st = "none"
  BY DEF Init
<1>2. \A c \in Cmds : pc[c] = "idle"
  BY DEF Init
<1>3. tree.checkout # NoVersion => spare = {}
  <2>1. ASSUME NEW v \in Versions, spare = Versions \ {v} PROVE spare = {}
    BY <2>1 DEF Alone
  <2> QED BY <2>1 DEF Init, TreeInit
<1>4. InTurn /\ OneCheckout
  BY <1>1, <1>2, <1>3 DEF InTurn, OneCheckout, Live, process_alive
<1>5. Listeners /\ Files /\ Named
  BY <1>1, <1>2, Kinds DEF Listeners, Files, Named
<1> QED BY <1>4, <1>5 DEF TurnInv

\* While a command takes a step no other is under way.
LEMMA NobodyElse ==
  ASSUME HostInv, TurnInv, Alone, NEW c \in Cmds, Begin(c) \/ StepOf(c)
  PROVE  /\ \A d \in Cmds : d # c => pc[d] \notin Live /\ pc'[d] = pc[d]
         /\ pc'[c] # "crashed" /\ InTurn'
<1>1. pc \in [Cmds -> {"idle"} \cup Live \cup Ended]
  BY DEF HostInv, TypeOK
<1>2. PICK next : next # "crashed" /\ Goto(c, next)
  BY DEF Begin, StepOf, StartChecks, Spawn, PollExited, PollOpen, PollFails,
         StartDeadline, Reap, ReapFails, StopReads, Kill, WaitGone, StopDeadline, Unlink, End
<1>3. pc'[c] = next /\ \A d \in Cmds : d # c => pc'[d] = pc[d]
  BY <1>1, <1>2 DEF Goto
<1>4. \A d \in Cmds : d # c => pc[d] \notin Live
  <2>1. CASE Begin(c)
    BY <2>1 DEF Begin, StartChecks, StopReads, MayBegin, Alone
  <2>2. CASE StepOf(c)
    <3>1. pc[c] \in Live
      BY <2>2 DEF StepOf, Spawn, PollExited, PollOpen, PollFails, StartDeadline, Reap,
                  ReapFails, Kill, WaitGone, StopDeadline, Unlink, Live
    <3> QED BY <3>1 DEF TurnInv, InTurn
  <2> QED BY <2>1, <2>2
<1> QED BY <1>2, <1>3, <1>4 DEF TurnInv, InTurn

\* A start that was made to leave its process stays one.
LEMMA LeftStays ==
  ASSUME HostInv, [Next]_vars, NoneLeft'
  PROVE  NoneLeft
<1> SUFFICES ASSUME NEW s \in Starts, pc[s] = "failed", res[s] \in Untidy, pid[s] # NoPid
             PROVE  FALSE
  BY DEF NoneLeft
<1>0. TypeOK /\ s \in Cmds
  BY Kinds DEF HostInv
<1>1. ASSUME NEW c \in Cmds, Begin(c) \/ StepOf(c) \/ CtlCrash(c)
      PROVE  pc'[s] = pc[s] /\ res'[s] = res[s] /\ pid'[s] = pid[s]
  <2>1. c # s
    BY <1>1 DEF Begin, StepOf, CtlCrash, StartChecks, Spawn, PollExited, PollOpen, PollFails,
                StartDeadline, Reap, ReapFails, StopReads, Kill, WaitGone, StopDeadline, Unlink, Live
  <2>2. /\ \E next : Goto(c, next)
        /\ UNCHANGED res \/ \E outcome : res' = [res EXCEPT ![c] = outcome]
        /\ UNCHANGED pid \/ \E p : pid' = [pid EXCEPT ![c] = p]
    BY <1>1 DEF Begin, StepOf, CtlCrash, StartChecks, Spawn, PollExited, PollOpen, PollFails,
                StartDeadline, Reap, ReapFails, StopReads, Kill, WaitGone, StopDeadline, Unlink, End
  <2> QED BY <1>0, <2>1, <2>2 DEF Goto, TypeOK
<1>2. CASE UNCHANGED <<pc, res, pid>>
  BY <1>2 DEF NoneLeft
<1>3. pc'[s] = pc[s] /\ res'[s] = res[s] /\ pid'[s] = pid[s]
  BY <1>1, <1>2 DEF Next, HostStep, Listen, Close, Exit, ForeignSpawn, Install, vars, ctl
<1> QED BY <1>3 DEF NoneLeft

\* A process that listens while only command c may be under way, c not its
\* start, is the one the pid file names.
LEMMA ListenerIsNamed ==
  ASSUME HostInv, TurnInv, NoneLeft, NEW c \in Cmds, \A d \in Cmds : d # c => pc[d] \notin Live,
         c \in Stops \/ pc[c] \notin Live, NEW p \in Pids, proc[p].st = "listening"
  PROVE  pidFile = p
<1>1. proc[p].by \in Starts
  BY DEF HostInv, TypeOK, Process, TurnInv, Listeners
<1>2. pc[proc[p].by] \notin {"idle", "spawn", "failed"} /\ pc[proc[p].by] # "crashed"
  <2>1. pid[proc[p].by] = p /\ ~NoChild(proc[p].by) /\ p # NoPid
    BY <1>1, ConstantsAssumption DEF HostInv, Children, process_alive
  <2> QED BY <1>1, <2>1, Kinds DEF NoChild, NoneLeft, TurnInv, InTurn
<1>3. pc[proc[p].by] \notin Live
  BY <1>1, Kinds
<1>4. pc[proc[p].by] = "done"
  BY <1>1, <1>2, <1>3, Kinds DEF HostInv, TypeOK, Ended
<1> QED BY <1>4 DEF TurnInv, Named

\* A start that finds the port open has found its own process.
LEMMA OwnListener ==
  ASSUME HostInv, TurnInv, NEW c \in Starts, pc[c] = "poll", NEW port, port_open(port)
  PROVE  /\ pid[c] \in Pids /\ Listener(pid[c], port)
         /\ \A p \in Pids : proc[p].st = "listening" => p = pid[c]
<1>1. ASSUME NEW p \in Pids, proc[p].st = "listening" PROVE p = pid[c]
  <2>1. proc[p].by = c /\ c # Foreign
    BY <1>1, ConstantsAssumption DEF TurnInv, Listeners
  <2> QED BY <1>1, <2>1 DEF HostInv, Children, process_alive
<1>2. PICK p \in Pids : Listener(p, port)
  BY DEF port_open
<1> QED BY <1>1, <1>2 DEF Listener

\* A start in turn goes on.
LEMMA StartInTurn ==
  ASSUME HostInv, TurnInv, NoneLeft', Alone, NEW c \in Cmds, UNCHANGED spare,
         \/ \E port \in Ports : StartChecks(c, port)
         \/ Spawn(c) \/ PollExited(c) \/ PollOpen(c) \/ PollFails(c)
         \/ StartDeadline(c) \/ Reap(c) \/ ReapFails(c)
  PROVE  TurnInv'
<1>0. TypeOK /\ Roles /\ Children /\ Parents /\ OneCheckout /\ Listeners /\ Files /\ Named
  BY DEF HostInv, TurnInv
<1>1. c \in Starts /\ c # Foreign /\ UNCHANGED <<tree, target>>
  BY <1>0, Kinds, ConstantsAssumption DEF Roles, StartChecks, Spawn, PollExited, PollOpen,
                                          PollFails, StartDeadline, Reap, ReapFails
<1>2. /\ \A d \in Cmds : d # c => pc[d] \notin Live /\ pc'[d] = pc[d]
      /\ InTurn'
  BY NobodyElse DEF Begin, StepOf
<1>3. \A d \in Stops : pc'[d] = pc[d] /\ pc[d] \notin {"kill", "wait", "unlink"}
  BY <1>1, <1>2, Kinds DEF Live
<1>4. Files'
  BY <1>3 DEF Files
<1>5. \A p \in Pids : proc[p].by # Foreign => proc[p].by \in Starts /\ proc[p].by \in Cmds
  BY <1>0, Kinds DEF TypeOK, Process
<1>6. \A s \in Starts : s # c => pc[s] \notin {"spawn", "poll", "reap"} /\ pc'[s] = pc[s]
  BY <1>2, Kinds DEF Live
<1>7. ASSUME NEW port \in Ports, StartChecks(c, port) PROVE TurnInv'
  <2>1. /\ pc[c] = "idle" /\ UNCHANGED <<proc, pidFile, pid>>
        /\ pc'[c] = "spawn" \/ pc'[c] = "failed"
        /\ pc'[c] = "spawn" => ~port_open(port)
    BY <1>0, <1>7 DEF StartChecks, End, Goto, TypeOK
  <2>2. pc'[c] = "spawn" => \A p \in Pids : proc[p].st # "listening"
    BY <1>0, <2>1 DEF port_open, Listener, Alone, TypeOK, Process
  <2>3. \A p \in Pids : proc[p].st # "none" /\ proc[p].by # Foreign => proc[p].by # c
    BY <1>0, <2>1 DEF Children, process_alive, NoChild
  <2>4. OneCheckout'
    BY <1>0, <1>1, <2>1 DEF OneCheckout, process_alive
  <2>5. Listeners'
    BY <1>0, <1>5, <1>6, <2>1, <2>2, <2>3 DEF Listeners
  <2>6. Named'
    BY <1>0, <1>5, <1>6, <2>1, <2>3 DEF Named, Listeners
  <2> QED BY <1>2, <1>4, <2>4, <2>5, <2>6 DEF TurnInv
<1>8. CASE Spawn(c)
  <2>1. CASE UNCHANGED <<proc, pid>> /\ pc'[c] = "failed"
    <3>1. pc[c] = "spawn" /\ UNCHANGED pidFile
      BY <1>8 DEF Spawn
    <3>2. \A p \in Pids : proc[p].st # "none" /\ proc[p].by # Foreign => proc[p].by # c
      BY <1>0, <3>1 DEF Children, process_alive, NoChild
    <3>3. OneCheckout'
      BY <1>0, <1>1, <2>1 DEF OneCheckout, process_alive
    <3>4. Listeners'
      BY <1>0, <1>5, <1>6, <2>1, <3>2 DEF Listeners
    <3>5. Named'
      BY <1>0, <1>5, <1>6, <2>1, <3>1, <3>2 DEF Named, Listeners
    <3> QED BY <1>2, <1>4, <3>3, <3>4, <3>5 DEF TurnInv
  <2>2. CASE pc'[c] # "failed"
    <3>1. PICK p \in Pids :
            /\ ~process_alive(p) /\ tree.checkout # NoVersion
            /\ proc' = [proc EXCEPT ![p] = [st |-> "booting", by |-> c, cwd |-> tree.checkout,
                                            port |-> arg[c], term |-> FALSE]]
            /\ pid' = [pid EXCEPT ![c] = p] /\ Goto(c, "poll")
      BY <1>0, <1>8, <2>2 DEF Spawn, End, Goto, TypeOK
    <3>2. pc[c] = "spawn" /\ pc'[c] = "poll" /\ UNCHANGED pidFile
      BY <1>0, <1>8, <3>1 DEF Spawn, Goto, TypeOK
    <3>3. /\ \A o \in Pids : o # p => proc'[o] = proc[o]
          /\ proc'[p].st = "booting" /\ proc'[p].by = c /\ proc'[p].cwd = tree.checkout
      BY <1>0, <1>1, <3>1, SpawnFacts DEF TypeOK
    <3>4. \A o \in Pids : proc[o].st # "none" /\ proc[o].by # Foreign => proc[o].by # c
      BY <1>0, <3>2 DEF Children, process_alive, NoChild
    <3>5. OneCheckout'
      <4>1. tree'.checkout = tree.checkout /\ spare' = spare
        BY <1>1
      <4>2. ASSUME NEW o \in Pids, proc'[o].st # "none", proc'[o].by # Foreign
            PROVE  tree.checkout # NoVersion /\ proc'[o].cwd = tree.checkout
        <5>1. CASE o = p
          BY <3>1, <3>3, <5>1
        <5>2. CASE o # p
          BY <1>0, <3>3, <4>2, <5>2 DEF OneCheckout, process_alive
        <5> QED BY <5>1, <5>2
      <4> QED BY <1>0, <4>1, <4>2 DEF OneCheckout, process_alive
    <3>6. Listeners'
      BY <1>0, <1>5, <1>6, <3>2, <3>3, <3>4 DEF Listeners
    <3>7. Named'
      BY <1>0, <1>5, <1>6, <3>2, <3>3, <3>4 DEF Named, Listeners
    <3> QED BY <1>2, <1>4, <3>5, <3>6, <3>7 DEF TurnInv
  <2>3. pc'[c] = "failed" => UNCHANGED <<proc, pid>>
    BY <1>0, <1>8 DEF Spawn, End, Goto, TypeOK
  <2> QED BY <2>1, <2>2, <2>3
<1>9. CASE PollOpen(c)
  <2>1. /\ pc[c] = "poll" /\ port_open(arg[c]) /\ pidFile' = pid[c] /\ pc'[c] = "done"
        /\ UNCHANGED pid
    BY <1>0, <1>9 DEF PollOpen, End, Goto, TypeOK
  <2>2. /\ pid[c] \in Pids /\ proc[pid[c]].st = "listening"
        /\ \A p \in Pids : proc[p].st = "listening" => p = pid[c]
    BY <1>1, <2>1, OwnListener DEF Listener
  <2>20. UNCHANGED proc
    <3>1. \A p \in Pids : proc[p].by = c => proc[p].st # "zombie"
      BY <1>0, <1>1, <2>2 DEF Children, process_alive
    <3>2. Orphaned(c) = [p \in Pids |-> proc[p]]
      BY <3>1 DEF Orphaned
    <3> QED BY <1>0, <1>9, <3>2 DEF PollOpen, TypeOK
  <2>3. OneCheckout'
    BY <1>0, <1>1, <2>1, <2>20 DEF OneCheckout, process_alive
  <2>4. Listeners'
    <3>1. \A p \in Pids : proc[p].st = "booting" /\ proc[p].by # Foreign => proc[p].by # c
      BY <1>0, <2>2 DEF Children, process_alive
    <3> QED BY <1>0, <1>5, <1>6, <2>1, <2>20, <3>1 DEF Listeners
  <2>5. Named'
    BY <2>1, <2>2, <2>20 DEF Named
  <2> QED BY <1>2, <1>4, <2>3, <2>4, <2>5 DEF TurnInv
<1>10. CASE StartDeadline(c) \/ PollExited(c) \/ Reap(c)
  <2>1. pc[c] \in {"poll", "reap"} /\ pid[c] \in Pids /\ UNCHANGED <<pidFile, pid>>
    BY <1>0, <1>1, <1>10 DEF StartDeadline, PollExited, Reap, Parents
  <2>2. \/ pc'[c] = "reap" /\ proc' = [proc EXCEPT ![pid[c]].term = TRUE]
        \/ pc'[c] = "failed" /\ proc' = [proc EXCEPT ![pid[c]].st = "none"]
    BY <1>0, <1>10 DEF StartDeadline, PollExited, Reap, End, Goto, TypeOK
  <2>3. /\ \A o \in Pids : o # pid[c] => proc'[o] = proc[o]
        /\ proc'[pid[c]].by = proc[pid[c]].by /\ proc'[pid[c]].cwd = proc[pid[c]].cwd
        /\ \/ pc'[c] = "reap" /\ proc'[pid[c]].st = proc[pid[c]].st
           \/ pc'[c] = "failed" /\ proc'[pid[c]].st = "none"
    BY <1>0, <2>1, <2>2, SignalFacts, StatusFacts DEF Status
  <2>4. \A p \in Pids : proc[p].st # "none" /\ proc[p].by = c => p = pid[c]
    BY <1>0, <1>1 DEF Children, process_alive
  <2>5. OneCheckout'
    BY <1>0, <1>1, <2>3 DEF OneCheckout, process_alive
  <2>6. Listeners'
    BY <1>0, <1>5, <1>6, <2>1, <2>3, <2>4 DEF Listeners
  <2>7. Named'
    BY <1>0, <1>5, <1>6, <2>1, <2>3, <2>4 DEF Named, Listeners
  <2> QED BY <1>2, <1>4, <2>5, <2>6, <2>7 DEF TurnInv
<1>11. CASE PollFails(c) \/ ReapFails(c)
  <2>1. pid[c] \in Pids /\ pid[c] # NoPid /\ UNCHANGED pid
    BY <1>0, <1>1, <1>11, ConstantsAssumption DEF PollFails, ReapFails, Parents
  <2>2. pc'[c] = "failed" /\ res'[c] \in Untidy
    BY <1>0, <1>1, <1>11, Kinds DEF PollFails, ReapFails, End, Goto, TypeOK, Untidy
  <2> QED BY <1>1, <2>1, <2>2 DEF NoneLeft
<1> QED BY <1>7, <1>8, <1>9, <1>10, <1>11

\* A stop in turn goes on.
LEMMA StopInTurn ==
  ASSUME HostInv, TurnInv, NoneLeft, Alone, NEW c \in Cmds, UNCHANGED spare,
         StopReads(c) \/ Kill(c) \/ WaitGone(c) \/ StopDeadline(c) \/ Unlink(c)
  PROVE  TurnInv'
<1>0. TypeOK /\ Roles /\ Targets /\ OneCheckout /\ Listeners /\ Files /\ Named
  BY DEF HostInv, TurnInv
<1>1. c \in Stops /\ UNCHANGED <<tree, arg>>
  BY <1>0, Kinds DEF StopReads, Kill, WaitGone, StopDeadline, Unlink, Roles
<1>2. /\ \A d \in Cmds : d # c => pc[d] \notin Live /\ pc'[d] = pc[d]
      /\ InTurn'
  BY NobodyElse DEF Begin, StepOf
<1>3. \A s \in Starts : pc'[s] = pc[s]
  BY <1>1, <1>2, Kinds
<1>4. \A d \in Stops : d # c => pc'[d] = pc[d] /\ pc[d] \notin {"kill", "wait", "unlink"}
  BY <1>2, Kinds DEF Live
<1>5. \A p \in Pids : proc[p].st = "listening" => pidFile = p
  BY <1>1, <1>2, ListenerIsNamed
<1>6. \A p \in Pids : proc[p].by # Foreign => proc[p].by \in Starts
  BY <1>0 DEF TypeOK, Process
<1>7. \A p \in Pids : /\ proc'[p].st = proc[p].st /\ proc'[p].by = proc[p].by
                      /\ proc'[p].cwd = proc[p].cwd
  <2>1. CASE UNCHANGED proc
    BY <2>1
  <2>2. CASE Kill(c) /\ process_alive(pid[c])
    <3>1. pid[c] \in Pids /\ proc' = [proc EXCEPT ![pid[c]].term = TRUE]
      BY <1>0, <1>1, <2>2 DEF Kill, Targets
    <3> QED BY <1>0, <3>1, SignalFacts
  <2> QED BY <2>1, <2>2 DEF StopReads, Kill, WaitGone, StopDeadline, Unlink
<1>8. OneCheckout'
  BY <1>0, <1>1, <1>7 DEF OneCheckout, process_alive
<1>9. Listeners'
  BY <1>0, <1>3, <1>6, <1>7 DEF Listeners
<1>10. Files' /\ Named'
  <2>1. CASE Unlink(c)
    <3>1. pc'[c] \in Ended /\ \A p \in Pids : proc[p].st # "listening"
      BY <1>0, <1>1, <2>1 DEF Unlink, End, Goto, TypeOK, Files, Ended
    <3> QED BY <1>4, <1>7, <3>1 DEF Files, Named, Ended
  <2>2. CASE ~Unlink(c)
    <3>1. UNCHANGED pidFile
      BY <2>2 DEF StopReads, Kill, WaitGone, StopDeadline
    <3>2. Named'
      BY <1>5, <1>7, <3>1 DEF Named
    <3>3. CASE StopReads(c)
      <4>1. /\ pid'[c] = pidFile
            /\ pc'[c] = "unlink" => pidFile # NoPid /\ ~process_alive(pidFile)
        BY <1>0, <3>3 DEF StopReads, End, Goto, TypeOK
      <4>2. pc'[c] = "unlink" => \A p \in Pids : proc'[p].st # "listening"
        BY <1>5, <1>7, <4>1 DEF process_alive
      <4> QED BY <1>4, <3>1, <3>2, <4>1, <4>2 DEF Files
    <3>4. CASE ~StopReads(c)
      <4>1. /\ UNCHANGED pid /\ pc[c] \in {"kill", "wait"} /\ pid[c] = pidFile
            /\ pc'[c] = "unlink" => ~process_alive(pid[c])
        BY <1>0, <1>1, <2>2, <3>4 DEF Kill, WaitGone, StopDeadline, End, Goto, TypeOK, Files
      <4>2. pc'[c] = "unlink" => \A p \in Pids : proc'[p].st # "listening"
        BY <1>5, <1>7, <4>1 DEF process_alive
      <4> QED BY <1>4, <3>1, <3>2, <4>1, <4>2 DEF Files
    <3> QED BY <3>3, <3>4
  <2> QED BY <2>1, <2>2
<1> QED BY <1>2, <1>8, <1>9, <1>10 DEF TurnInv

\* A process of the host goes on, and nobody takes the port.
LEMMA HostInTurn ==
  ASSUME HostInv, TurnInv, Alone, NEW p \in Pids, HostStep(p), UNCHANGED spare
  PROVE  TurnInv'
<1>0. TypeOK /\ Roles /\ InTurn /\ OneCheckout /\ Listeners /\ Files /\ Named
  BY DEF HostInv, TurnInv
<1>1. UNCHANGED <<pidFile, pc, pid, tree>>
  BY DEF HostStep, Listen, Close, Exit, ForeignSpawn, ctl
<1>2. \A o \in Pids : proc[o].by # Foreign => proc[o].by \in Starts
  BY <1>0 DEF TypeOK, Process
<1>3. ASSUME NEW port \in Ports, ForeignSpawn(p, port) PROVE TurnInv'
  <2>1. /\ \A o \in Pids : o # p => proc'[o] = proc[o]
        /\ proc'[p].st = "booting" /\ proc'[p].by = Foreign
    BY <1>0, <1>3, SpawnFacts DEF ForeignSpawn
  <2>2. InTurn' /\ OneCheckout'
    BY <1>0, <1>1, <2>1 DEF InTurn, OneCheckout, process_alive
  <2>3. Listeners'
    BY <1>0, <1>1, <2>1 DEF Listeners
  <2>4. Files' /\ Named'
    BY <1>0, <1>1, <2>1 DEF Files, Named
  <2> QED BY <2>2, <2>3, <2>4 DEF TurnInv
<1>4. CASE Listen(p) \/ Close(p) \/ Exit(p)
  <2>1. PICK s \in Status : proc' = [proc EXCEPT ![p].st = s]
                            /\ (s = "listening" => Listen(p)) /\ s # "booting"
    BY <1>4 DEF Listen, Close, Exit, Status
  <2>2. /\ \A o \in Pids : o # p => proc'[o] = proc[o]
        /\ proc'[p].st = s /\ proc'[p].by = proc[p].by /\ proc'[p].cwd = proc[p].cwd
    BY <1>0, <2>1, StatusFacts
  <2>3. proc[p].st # "none"
    BY <1>4 DEF Listen, Close, Exit, Running
  <2>4. s = "listening" => proc[p].by \in Starts /\ pc[proc[p].by] \in {"poll", "reap"}
    BY <1>0, <1>2, <2>1 DEF Listen, Alone, Listeners
  <2>5. InTurn' /\ OneCheckout'
    BY <1>0, <1>1, <2>2, <2>3 DEF InTurn, OneCheckout, process_alive
  <2>6. \A d \in Cmds : s = "listening" /\ pc[d] \in Live => d = proc[p].by
    BY <1>0, <2>4, Kinds DEF InTurn, Live
  <2>7. Listeners'
    <3> SUFFICES ASSUME NEW o \in Pids
                 PROVE  /\ proc'[o].st = "listening" => proc'[o].by # Foreign
                        /\ proc'[o].st = "booting" /\ proc'[o].by # Foreign =>
                             pc[proc'[o].by] \in {"poll", "reap"}
                        /\ \A d \in Starts :
                             proc'[o].st = "listening" /\ pc[d] \in {"spawn", "poll", "reap"} =>
                               proc'[o].by = d
      BY <1>1 DEF Listeners
    <3>1. CASE o # p
      BY <1>0, <2>2, <3>1 DEF Listeners
    <3>2. CASE o = p
      BY <2>1, <2>2, <2>4, <2>6, <3>2, Kinds, ConstantsAssumption DEF Live
    <3> QED BY <3>1, <3>2
  <2>8. Files'
    <3>1. s = "listening" => \A d \in Stops : pc[d] # "unlink"
      BY <1>0, <2>4, <2>6, Kinds DEF Live
    <3> QED BY <1>0, <1>1, <2>2, <3>1 DEF Files
  <2>9. Named'
    BY <1>0, <1>1, <2>2, <2>4 DEF Named
  <2> QED BY <2>5, <2>7, <2>8, <2>9 DEF TurnInv
<1> QED BY <1>3, <1>4 DEF HostStep

\* The invariant holds until a start is made to leave its process.
LEMMA TurnInvariant ==
  ASSUME Alone
  PROVE  Spec => [](NoneLeft => TurnInv)
<1>1. HostInv /\ (NoneLeft => TurnInv) /\ [Next]_vars => (NoneLeft => TurnInv)'
  <2> SUFFICES ASSUME HostInv, NoneLeft => TurnInv, [Next]_vars, NoneLeft' PROVE TurnInv'
    OBVIOUS
  <2>0. NoneLeft /\ TurnInv
    BY LeftStays
  <2>1. ASSUME NEW c \in Cmds, Begin(c) \/ StepOf(c) \/ CtlCrash(c), UNCHANGED spare
        PROVE  TurnInv'
    BY <2>0, <2>1, StartInTurn, StopInTurn DEF Begin, StepOf, CtlCrash, Alone
  <2>2. CASE Install \/ UNCHANGED vars
    <3>0. tree \in [checkout : Versions \cup {NoVersion}, venv : BOOLEAN] /\ OneCheckout
      BY <2>0 DEF HostInv, TypeOK, TurnInv
    <3>1. UNCHANGED <<proc, pidFile, pc, pid>>
      BY <2>2 DEF Install, vars, ctl
    <3>2. \/ spare' = spare /\ tree'.checkout = tree.checkout
          \/ tree.checkout = NoVersion /\ spare' = {}
      <4>1. CASE UNCHANGED vars
        BY <4>1 DEF vars
      <4>2. CASE ParkCheckout
        BY <3>0, <4>2 DEF ParkCheckout, OneCheckout
      <4>3. CASE ParkVenv \/ PlaceVenv
        BY <3>0, <4>3 DEF ParkVenv, PlaceVenv
      <4>4. ASSUME NEW v \in Versions, PlaceCheckout(v) PROVE tree.checkout = NoVersion /\ spare' = {}
        <5>1. spare \subseteq Versions
          BY DEF HostInv, TypeOK
        <5> QED BY <4>4, <5>1 DEF PlaceCheckout, Alone
      <4> QED BY <2>2, <4>1, <4>2, <4>3, <4>4 DEF Install, TreeNext
    <3>3. OneCheckout'
      BY <3>0, <3>1, <3>2 DEF OneCheckout, process_alive
    <3> QED BY <2>0, <3>1, <3>3 DEF TurnInv, InTurn, Listeners, Files, Named
  <2> QED BY <2>0, <2>1, <2>2, HostInTurn DEF Next
<1> QED BY <1>1, TurnInit, HostInvariant, PTL DEF Spec

\* Between commands a ComfyUI that listens is the one the pid file names and
\* the ownership check accepts, so that status reports it and stop ends it,
\* unless a start was made to leave its process (command_instance_start, command_instance_stop, command_instance_status).
THEOREM RunningStaysTracked ==
  ASSUME Alone
  PROVE  Spec => []RunningIsTracked
<1>1. HostInv /\ (NoneLeft => TurnInv) => RunningIsTracked
  <2> SUFFICES ASSUME HostInv, TurnInv, NoneLeft, Quiet, NEW p \in Pids,
                      proc[p].st = "listening", proc[p].by # Foreign
               PROVE  pidFile = p /\ process_owned_by_instance(p)
    BY DEF RunningIsTracked
  <2>1. proc[p].by \in Cmds
    BY Kinds DEF HostInv, TypeOK, Process
  <2>2. pidFile = p
    BY <2>1, ListenerIsNamed DEF Quiet
  <2>3. proc[p].cwd = tree.checkout /\ tree.checkout # NoVersion
    BY DEF TurnInv, OneCheckout, process_alive
  <2> QED BY <2>2, <2>3 DEF process_owned_by_instance, Running
<1> QED BY <1>1, HostInvariant, TurnInvariant, PTL

\* Between commands, status reports port_in_use_by_other only when no process of
\* the instance listens there (command_instance_status), as the API contract
\* says: it is wrong only about commands that overlap, a reinstall under a
\* running process, a port somebody else takes or a process that a start was made
\* to leave.
THEOREM InUseByOtherIsTrue ==
  ASSUME Alone
  PROVE  Spec => []InUseByOtherMeansNotRunning
<1>1. TypeOK /\ RunningIsTracked => InUseByOtherMeansNotRunning
  BY ConstantsAssumption DEF TypeOK, RunningIsTracked, InUseByOtherMeansNotRunning, Listener,
                             status_port_in_use_by_other, status_process_alive
<1> QED BY <1>1, TypeCorrect, RunningStaysTracked, PTL

\* A start that succeeds has seen its own process listen, and no failure to
\* start is swallowed, as long as it is alone and none before it was made to leave
\* its process (the polling loop of command_instance_start, which takes any
\* listener for its child).
THEOREM SuccessIsNoIllusion ==
  ASSUME Alone
  PROVE  Spec => SuccessMeansListening
<1> DEFINE Honest == NoneLeft =>
      \A c \in Starts : (pc[c] = "poll" /\ pc'[c] = "done") => Listener(pid[c], arg[c])
<1>1. HostInv /\ (NoneLeft => TurnInv) /\ [Next]_vars => [Honest]_vars
  <2> SUFFICES ASSUME HostInv, TurnInv, NoneLeft, [Next]_vars, NEW c \in Starts, pc[c] = "poll",
                      pc'[c] = "done"
               PROVE  Listener(pid[c], arg[c])
    OBVIOUS
  <2>0. TypeOK /\ Roles /\ c \in Cmds
    BY Kinds DEF HostInv
  <2>1. PollOpen(c)
    <3>1. ASSUME NEW d \in Cmds, Begin(d) \/ StepOf(d) \/ CtlCrash(d) PROVE PollOpen(c)
      <4>1. d = c
        <5>1. PICK next : Goto(d, next)
          BY <3>1 DEF Begin, StepOf, CtlCrash, StartChecks, Spawn, PollExited, PollOpen,
                      PollFails, StartDeadline, Reap, ReapFails, StopReads, Kill, WaitGone, StopDeadline, Unlink, End
        <5> QED BY <2>0, <5>1 DEF Goto, TypeOK
      <4> QED BY <2>0, <3>1, <4>1 DEF Begin, StepOf, CtlCrash, StartChecks, Spawn, PollExited,
                      PollFails, StartDeadline, Reap, ReapFails, StopReads, Kill, WaitGone, StopDeadline, Unlink,
                      End, Goto, TypeOK
    <3>2. CASE UNCHANGED pc
      BY <3>2
    <3> QED BY <3>1, <3>2 DEF Next, HostStep, Listen, Close, Exit, ForeignSpawn, Install,
                             vars, ctl
  <2> QED BY <2>1, OwnListener DEF PollOpen
<1> QED BY <1>1, HostInvariant, TurnInvariant, PTL DEF Spec, SuccessMeansListening

=============================================================================
