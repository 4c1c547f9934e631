------------------------- MODULE ControlPlaneProofs -------------------------
(***************************************************************************)
(* What the API records about its runs and about the instance, proved for  *)
(* any number of requests, refs and commits, for overlapping requests, for *)
(* killed children, for driver errors and for crashes of the API; and what *)
(* it records while requests come one at a time and no child is lost.      *)
(***************************************************************************)
EXTENDS ControlPlane, TLAPS

-----------------------------------------------------------------------------
(* The inductive invariant                                                   *)

\* A run is completed only after its child has exited with ok, and a child
\* exits with ok only after its command has had its effect; an exited child
\* does nothing more, so the effect behind a completed run is final.
RunsInv ==
  \A i \in Runs :
    /\ row[i].phase = "completed" => child[i].out = "ok"
    /\ child[i].out = "ok" => child[i].st = "exited"
    /\ child[i].out = "ok" => effect[i].did \in Did(Command(i))
    /\ child[i].out = "ok" /\ Command(i) = "install" =>
         effect[i].version \in Version /\ effect[i].version.ref = ref[i[1]]

\* Where a request is determines how far its runs are.
RequestsInv ==
  \A r \in Requests :
    /\ pc[r] \in {"idle", "status"} => leg[r] = "main"
    /\ pc[r] = "idle" => \A l \in Legs : row[<<r, l>>].phase = "none" /\ child[<<r, l>>].out = "none"
    /\ pc[r] = "idle" => \A l \in Legs : child[<<r, l>>].st = "none"
    /\ pc[r] \in {"status", "record"} => row[Run(r)].phase = "none"
    /\ pc[r] \in {"spawn", "await"} => row[Run(r)].phase = "running"
    /\ pc[r] = "apply" => row[Run(r)].phase = "completed"
    /\ leg[r] = "main" => row[<<r, "restart">>].phase = "none"

RecordInv == TypeOK /\ RunsInv /\ RequestsInv

-----------------------------------------------------------------------------
\* The execution a request is at is one of its two.
LEMMA RunFacts ==
  ASSUME NEW r \in Requests, leg \in [Requests -> Legs]
  PROVE  Run(r) \in Runs /\ Run(r)[1] = r /\ Run(r)[2] = leg[r]
BY DEF Run, Runs, Legs

\* Nothing has been recorded in the initial states.
LEMMA RecordInit == Init => RecordInv
<1> SUFFICES ASSUME Init PROVE RecordInv
  OBVIOUS
<1>1. TypeOK
  <2>1. /\ pc \in [Requests -> {"idle"} \cup Live \cup Ended]
        /\ leg \in [Requests -> Legs]
        /\ ref \in [Requests -> Refs \cup {NoRef, BadRef}]
        /\ res \in [Requests -> {"none", "ok", "INSTANCE_RUNNING", "REQUEST_INVALID",
                                 "COMFYCTL_FAILED", "reported", "INTERNAL_ERROR"}]
    BY DEF Init, Legs
  <2>2. req \in [Requests -> Request]
    BY DEF Init, Request, Kinds
  <2>3. row \in [Runs -> Row] /\ child \in [Runs -> Child]
    BY DEF Init, Row, Child, Phases, AtWork
  <2>4. effect \in [Runs -> Effect]
    BY DEF Init, Effect, Effects
  <2>5. inst \in [comfy_ref : Refs, resolved_commit : Commits \cup {NoCommit},
                  launched : BOOLEAN]
    BY ConstantsAssumption DEF Init
  <2>6. disk \in Version \cup {NoVersion, Unnamed} /\ comfy \in [Runs -> Comfy]
        /\ pidFile \in Runs \cup {NoRun} /\ other \in BOOLEAN
    BY DEF Init, Comfy, NoProcess
  <2>7. overlap \in BOOLEAN
    BY DEF Init
  <2> QED BY <2>1, <2>2, <2>3, <2>4, <2>5, <2>6, <2>7 DEF TypeOK
<1>2. RunsInv
  BY DEF Init, RunsInv
<1>3. RequestsInv
  <2> SUFFICES ASSUME NEW r \in Requests
               PROVE  /\ leg[r] = "main" /\ pc[r] = "idle"
                      /\ \A l \in Legs : /\ row[<<r, l>>].phase = "none"
                                         /\ child[<<r, l>>].out = "none"
                                         /\ child[<<r, l>>].st = "none"
    BY DEF RequestsInv, Legs
  <2> QED BY DEF Init, Runs, Legs
<1> QED BY <1>1, <1>2, <1>3 DEF RecordInv

-----------------------------------------------------------------------------
\* A child that ends leaves a well-formed table of children.
LEMMA ExitType ==
  ASSUME child \in [Runs -> Child], NEW i \in Runs,
         NEW out \in {"ok", "error", "garbled"}, Exits(i, out)
  PROVE  child' \in [Runs -> Child]
<1>1. [st |-> "exited", out |-> out] \in Child
  BY DEF Child
<1> QED BY <1>1 DEF Exits

\* So does a version that moves away from under the processes.
LEMMA MovedType ==
  ASSUME comfy \in [Runs -> Comfy]
  PROVE  NoProcess \in Comfy /\ Moved \in [Runs -> Comfy]
BY DEF Moved, Comfy, NoProcess

\* Types are preserved by every step.
LEMMA TypeStep ==
  ASSUME RecordInv, [Next]_vars
  PROVE  TypeOK'
<1> USE DEF TypeOK
<1>0. TypeOK
  BY DEF RecordInv
<1>1. ASSUME NEW r \in Requests, NEW q \in Request, Begin(r, q) PROVE TypeOK'
  <2>1. ref' \in [Requests -> Refs \cup {NoRef, BadRef}]
    BY <1>0, <1>1 DEF Begin, Request
  <2>2. req' \in [Requests -> Request] /\ pc' \in [Requests -> {"idle"} \cup Live \cup Ended]
    BY <1>0, <1>1 DEF Begin, Goto, Live
  <2> QED BY <1>0, <1>1, <2>1, <2>2 DEF Begin, host, procs
<1>2. ASSUME NEW r \in Requests, StatusCheck(r) PROVE TypeOK'
  BY <1>0, <1>2 DEF StatusCheck, End, Goto, Live, Ended, host, procs
<1>3. ASSUME NEW r \in Requests, RecordRun(r) PROVE TypeOK'
  <2>1. row' \in [Runs -> Row]
    BY <1>0, <1>3, RunFacts DEF RecordRun, Row, Phases
  <2> QED BY <1>0, <1>3, <2>1 DEF RecordRun, Goto, Live, host, procs
<1>4. ASSUME NEW r \in Requests, Spawn(r) PROVE TypeOK'
  <2>1. child' \in [Runs -> Child]
    BY <1>0, <1>4, RunFacts DEF Spawn, Child, AtWork
  <2> QED BY <1>0, <1>4, <2>1 DEF Spawn, Goto, Live, host, procs
<1>5. ASSUME NEW r \in Requests, Receive(r) PROVE TypeOK'
  <2>1. PICK new \in Row : row' = [row EXCEPT ![Run(r)] = new]
    <3>1. /\ [phase |-> "completed", error |-> "none"] \in Row
          /\ [phase |-> "failed", error |-> "reported"] \in Row
          /\ [phase |-> "failed", error |-> "COMFYCTL_FAILED"] \in Row
      BY DEF Row, Phases
    <3> QED BY <1>5, <3>1 DEF Receive, Finish
  <2>2. row' \in [Runs -> Row]
    BY <1>0, <2>1, RunFacts
  <2> QED BY <1>0, <1>5, <2>2 DEF Receive, End, Goto, Live, Ended, host, procs
<1>6. ASSUME NEW r \in Requests, ApplyInstall(r) PROVE TypeOK'
  <2>1. ref[r] \in Refs /\ effect[Run(r)].version.commit \in Commits
    <3>1. Run(r) \in Runs /\ Run(r)[1] = r
      BY <1>0, RunFacts
    <3>2. row[Run(r)].phase = "completed" /\ Command(Run(r)) = "install"
      BY <1>6 DEF ApplyInstall, RecordInv, RequestsInv
    <3>3. effect[Run(r)].version \in Version /\ effect[Run(r)].version.ref = ref[r]
      BY <3>1, <3>2 DEF RecordInv, RunsInv
    <3> QED BY <3>3 DEF Version
  <2>2. inst' \in [comfy_ref : Refs, resolved_commit : Commits \cup {NoCommit},
                   launched : BOOLEAN]
    BY <1>0, <1>6, <2>1 DEF ApplyInstall
  <2> QED BY <1>0, <1>6, <2>2 DEF ApplyInstall, End, Goto, Live, Ended, Legs, host, procs
<1>7. ASSUME NEW r \in Requests, ApplyStart(r) PROVE TypeOK'
  <2>1. inst' \in [comfy_ref : Refs, resolved_commit : Commits \cup {NoCommit},
                   launched : BOOLEAN]
    BY <1>0, <1>7 DEF ApplyStart
  <2> QED BY <1>0, <1>7, <2>1 DEF ApplyStart, End, Goto, Ended, host, procs
<1>8. ASSUME NEW r \in Requests, ApplyStop(r) PROVE TypeOK'
  BY <1>0, <1>8 DEF ApplyStop, End, Goto, Ended, host, procs
<1>9. ASSUME NEW r \in Requests, Breaks(r) PROVE TypeOK'
  BY <1>0, <1>9 DEF Breaks, End, Goto, Ended, host, procs
<1>10. CASE ApiCrash
  BY <1>0, <1>10 DEF ApiCrash, Ended, host, procs
<1>11. ASSUME NEW i \in Runs, ChildInstall(i) PROVE TypeOK'
  <2>1. child' \in [Runs -> Child]
    BY <1>0, <1>11, ExitType DEF ChildInstall, Succeeds
  <2>2. disk' \in Version /\ effect' \in [Runs -> Effect]
    BY <1>0, <1>11 DEF ChildInstall, Does, Effect, Effects, Version
  <2>3. comfy' \in [Runs -> Comfy]
    BY <1>0, <1>11, MovedType DEF ChildInstall
  <2> QED BY <1>0, <1>11, <2>1, <2>2, <2>3 DEF ChildInstall, request
<1>12. ASSUME NEW i \in Runs, ChildChecks(i) PROVE TypeOK'
  <2>1. child' \in [Runs -> Child]
    BY <1>0, <1>12 DEF ChildChecks, Child, AtWork
  <2> QED BY <1>0, <1>12, <2>1 DEF ChildChecks, request, host, procs
<1>13. ASSUME NEW i \in Runs, ChildSpawns(i) PROVE TypeOK'
  <2>1. child' \in [Runs -> Child] /\ comfy' \in [Runs -> Comfy]
    BY <1>0, <1>13 DEF ChildSpawns, Child, AtWork, Comfy
  <2> QED BY <1>0, <1>13, <2>1 DEF ChildSpawns, request
<1>14. ASSUME NEW i \in Runs, ChildStart(i) PROVE TypeOK'
  <2>1. child' \in [Runs -> Child]
    BY <1>0, <1>14, ExitType DEF ChildStart, Succeeds
  <2>2. effect' \in [Runs -> Effect]
    BY <1>0, <1>14 DEF ChildStart, Does, Effect, Effects
  <2> QED BY <1>0, <1>14, <2>1, <2>2 DEF ChildStart, request
<1>15. ASSUME NEW i \in Runs, ChildStop(i) PROVE TypeOK'
  <2>1. child' \in [Runs -> Child]
    BY <1>0, <1>15, ExitType DEF ChildStop, Succeeds
  <2>2. effect' \in [Runs -> Effect]
    BY <1>0, <1>15 DEF ChildStop, Does, Effect, Effects
  <2>3. comfy' \in [Runs -> Comfy]
    BY <1>0, <1>15, MovedType DEF ChildStop
  <2> QED BY <1>0, <1>15, <2>1, <2>2, <2>3 DEF ChildStop, request
<1>16. ASSUME NEW i \in Runs, ChildFails(i) PROVE TypeOK'
  <2>1. child' \in [Runs -> Child]
    BY <1>0, <1>16, ExitType DEF ChildFails
  <2>2. CASE Refused(i) /\ UNCHANGED <<disk, pidFile>>
    <3>1. comfy' \in [Runs -> Comfy]
      BY <1>0, <2>2, MovedType DEF Refused
    <3>2. effect' \in [Runs -> Effect]
      BY <1>0, <2>2 DEF Refused, Does, Effect, Effects
    <3> QED BY <1>0, <1>16, <2>1, <2>2, <3>1, <3>2 DEF ChildFails, request
  <2>3. CASE CutShort(i)
    <3>1. comfy' \in [Runs -> Comfy]
      BY <1>0, <2>3, MovedType DEF CutShort
    <3>2. disk' \in Version \cup {NoVersion, Unnamed} /\ pidFile' \in Runs \cup {NoRun}
      BY <1>0, <2>3 DEF CutShort
    <3> QED BY <1>0, <1>16, <2>1, <2>3, <3>1, <3>2 DEF ChildFails, CutShort, request
  <2> QED BY <1>16, <2>2, <2>3 DEF ChildFails
<1>17. CASE HostStep
  <2>1. CASE OtherListens
    BY <1>0, <2>1 DEF OtherListens, request
  <2>2. ASSUME NEW i \in Runs, ProcListens(i) \/ ProcExits(i) PROVE TypeOK'
    <3>1. PICK process \in Comfy : Becomes(i, process)
      BY <1>0, <2>2 DEF ProcListens, ProcExits, NoProcess, Comfy
    <3> QED BY <1>0, <3>1 DEF Becomes, request
  <2> QED BY <1>17, <2>1, <2>2 DEF HostStep
<1>18. CASE UNCHANGED vars
  BY <1>0, <1>18 DEF vars, request, host, procs
<1> QED BY <1>1, <1>2, <1>3, <1>4, <1>5, <1>6, <1>7, <1>8, <1>9, <1>10, <1>11, <1>12,
           <1>13, <1>14, <1>15, <1>16, <1>17, <1>18 DEF Next, Handle, ChildStep

-----------------------------------------------------------------------------
\* What the child of one execution and the processes of the host leave alone.
LEMMA ChildKeeps ==
  ASSUME NEW i \in Runs, ChildStep(i)
  PROVE  /\ child[i].st \in AtWork /\ UNCHANGED <<request, row, inst, other>>
         /\ \E new : child' = [child EXCEPT ![i] = new]
BY DEF ChildStep, ChildInstall, ChildChecks, ChildSpawns, ChildStart, ChildStop, ChildFails,
   Succeeds, Exits, AtWork, host, procs

LEMMA HostKeeps ==
  ASSUME HostStep
  PROVE  UNCHANGED <<request, row, child, inst, effect, disk, pidFile>>
BY DEF HostStep, OtherListens, ProcListens, ProcExits, Becomes

\* What the steps leave of the runs: a run is opened once and closed once.
LEMMA RowStep ==
  ASSUME RecordInv, [Next]_vars, NEW i \in Runs
  PROVE  \/ row'[i] = row[i]
         \/ row[i].phase = "none" /\ row'[i].phase = "running"
         \/ row[i].phase = "running" /\ row'[i].phase = "failed"
         \/ row[i].phase = "running" /\ row'[i].phase = "completed" /\ child[i].out = "ok"
<1>0. TypeOK /\ RequestsInv
  BY DEF RecordInv
<1>1. ASSUME NEW r \in Requests, RecordRun(r)
      PROVE  row'[i] = row[i] \/ (row[i].phase = "none" /\ row'[i].phase = "running")
  <2>1. row[Run(r)].phase = "none"
    BY <1>0, <1>1 DEF RecordRun, RequestsInv
  <2>2. row' = [row EXCEPT ![Run(r)] = [phase |-> "running", error |-> "none"]]
    BY <1>1 DEF RecordRun
  <2> QED BY <1>0, <2>1, <2>2 DEF TypeOK
<1>2. ASSUME NEW r \in Requests, Receive(r)
      PROVE  \/ row'[i] = row[i]
             \/ row[i].phase = "running" /\ row'[i].phase = "failed"
             \/ row[i].phase = "running" /\ row'[i].phase = "completed" /\ child[i].out = "ok"
  <2>1. row[Run(r)].phase = "running"
    BY <1>0, <1>2 DEF Receive, RequestsInv
  <2>2. \/ Finish(Run(r), "completed", "none") /\ child[Run(r)].out = "ok"
        \/ Finish(Run(r), "failed", "reported")
        \/ Finish(Run(r), "failed", "COMFYCTL_FAILED")
    BY <1>2 DEF Receive
  <2>3. CASE i = Run(r)
    BY <1>0, <2>1, <2>2, <2>3 DEF Finish, TypeOK
  <2>4. CASE i # Run(r)
    BY <1>0, <2>2, <2>4 DEF Finish, TypeOK
  <2> QED BY <2>3, <2>4
<1>3. CASE UNCHANGED row
  BY <1>3
<1> QED
  BY <1>1, <1>2, <1>3, ChildKeeps, HostKeeps DEF Next, Handle, Begin, StatusCheck, Spawn,
     ApplyInstall, ApplyStart, ApplyStop, Breaks, ApiCrash, vars

\* What the steps leave of the children: a child is spawned for a run that is
\* open, and only a running one has an effect.
LEMMA ChildStepFacts ==
  ASSUME RecordInv, [Next]_vars, NEW i \in Runs
  PROVE  \/ child'[i] = child[i] /\ effect'[i] = effect[i]
         \/ /\ row[i].phase = "running" /\ row'[i] = row[i]
            /\ child'[i].out = "none"
         \/ /\ child[i].st \in AtWork /\ row' = row
            /\ child'[i].out = "ok" =>
                 /\ child'[i].st = "exited" /\ effect'[i].did \in Did(Command(i))
                 /\ Command(i) = "install" =>
                      effect'[i].version \in Version /\ effect'[i].version.ref = ref[i[1]]
<1>0. TypeOK /\ RunsInv /\ RequestsInv
  BY DEF RecordInv
<1> DEFINE Same == child'[i] = child[i] /\ effect'[i] = effect[i]
           Works == /\ child[i].st \in AtWork /\ row' = row
                    /\ child'[i].out = "ok" =>
                         /\ child'[i].st = "exited" /\ effect'[i].did \in Did(Command(i))
                         /\ Command(i) = "install" =>
                              effect'[i].version \in Version /\ effect'[i].version.ref = ref[i[1]]
<1>1. ASSUME NEW r \in Requests, Spawn(r)
      PROVE  Same \/ (row[i].phase = "running" /\ row'[i] = row[i] /\ child'[i].out = "none")
  <2>1. row[Run(r)].phase = "running" /\ UNCHANGED <<row, effect>>
    BY <1>0, <1>1 DEF Spawn, RequestsInv, host
  <2>2. child' = [child EXCEPT ![Run(r)] = [st |-> "running", out |-> "none"]]
    BY <1>1 DEF Spawn
  <2> QED BY <1>0, <2>1, <2>2 DEF TypeOK
<1>2. ASSUME NEW j \in Runs, ChildInstall(j) PROVE Same \/ Works
  <2>1. child[j].st \in AtWork /\ Command(j) = "install" /\ UNCHANGED row
    BY <1>2 DEF ChildInstall, AtWork
  <2>2. child'[j].st = "exited" /\ (i # j => child'[i] = child[i])
    BY <1>0, <1>2 DEF ChildInstall, Succeeds, Exits, TypeOK
  <2>3. /\ effect'[j].did = "installed" /\ effect'[j].version \in Version
        /\ effect'[j].version.ref = ref[j[1]] /\ (i # j => effect'[i] = effect[i])
    BY <1>0, <1>2 DEF ChildInstall, Does, TypeOK, Version
  <2> QED BY <2>1, <2>2, <2>3 DEF Did
<1>3. ASSUME NEW j \in Runs, ChildChecks(j) \/ ChildSpawns(j) PROVE Same \/ Works
  <2>1. child[j].st \in AtWork /\ UNCHANGED <<row, effect>>
    BY <1>3 DEF ChildChecks, ChildSpawns, AtWork, host
  <2>2. child'[j].out = child[j].out /\ (i # j => child'[i] = child[i])
    BY <1>0, <1>3 DEF ChildChecks, ChildSpawns, TypeOK, Child
  <2>3. child[j].out # "ok"
    BY <1>0, <2>1 DEF RunsInv, AtWork
  <2> QED BY <2>1, <2>2, <2>3
<1>4. ASSUME NEW j \in Runs, ChildStart(j) PROVE Same \/ Works
  <2>1. child[j].st \in AtWork /\ UNCHANGED row
    BY <1>4 DEF ChildStart, AtWork
  <2>2. child'[j].st = "exited" /\ (i # j => child'[i] = child[i])
    BY <1>0, <1>4 DEF ChildStart, Succeeds, Exits, TypeOK
  <2>3. effect'[j].did \in {"started", "answered"} /\ (i # j => effect'[i] = effect[i])
    BY <1>0, <1>4 DEF ChildStart, Does, TypeOK
  <2>4. Command(j) = "start"
    BY <1>4 DEF ChildStart
  <2> QED BY <2>1, <2>2, <2>3, <2>4 DEF Did
<1>5. ASSUME NEW j \in Runs, ChildStop(j) PROVE Same \/ Works
  <2>1. child[j].st \in AtWork /\ Command(j) = "stop" /\ UNCHANGED row
    BY <1>5 DEF ChildStop, AtWork
  <2>2. child'[j].st = "exited" /\ (i # j => child'[i] = child[i])
    BY <1>0, <1>5 DEF ChildStop, Succeeds, Exits, TypeOK
  <2>3. effect'[j].did = "stopped" /\ (i # j => effect'[i] = effect[i])
    BY <1>0, <1>5 DEF ChildStop, Does, TypeOK
  <2> QED BY <2>1, <2>2, <2>3 DEF Did
<1>6. ASSUME NEW j \in Runs, ChildFails(j) PROVE Same \/ Works
  <2>1. child[j].st \in AtWork /\ UNCHANGED row
    BY <1>6 DEF ChildFails
  <2>2. child'[j].out # "ok" /\ (i # j => child'[i] = child[i])
    BY <1>0, <1>6 DEF ChildFails, Exits, TypeOK
  <2>3. i # j => effect'[i] = effect[i]
    BY <1>0, <1>6 DEF ChildFails, Refused, CutShort, Does, TypeOK
  <2> QED BY <2>1, <2>2, <2>3
<1>7. CASE UNCHANGED <<child, effect>>
  BY <1>7
<1> QED
  BY <1>1, <1>2, <1>3, <1>4, <1>5, <1>6, <1>7, HostKeeps DEF Next, Handle, ChildStep, Begin,
     StatusCheck, RecordRun, Receive, ApplyInstall, ApplyStart, ApplyStop, Breaks, ApiCrash, vars,
     host

-----------------------------------------------------------------------------
\* What a request asks for is fixed once it has begun.
LEMMA CommandStep ==
  ASSUME RecordInv, [Next]_vars, NEW i \in Runs
  PROVE  \/ Command(i)' = Command(i) /\ ref'[i[1]] = ref[i[1]]
         \/ child'[i].out = "none" /\ row'[i].phase = "none"
<1>0. TypeOK /\ RequestsInv
  BY DEF RecordInv
<1>1. ASSUME NEW r \in Requests, NEW q \in Request, Begin(r, q)
      PROVE  \/ Command(i)' = Command(i) /\ ref'[i[1]] = ref[i[1]]
             \/ child'[i].out = "none" /\ row'[i].phase = "none"
  <2>1. i[1] \in Requests /\ i[2] \in Legs /\ i = <<i[1], i[2]>>
    BY DEF Runs
  <2>2. CASE i[1] = r
    <3>1. pc[r] = "idle" /\ UNCHANGED <<row, child>>
      BY <1>1 DEF Begin
    <3>2. child[<<r, i[2]>>].out = "none" /\ row[<<r, i[2]>>].phase = "none"
      BY <1>0, <2>1, <3>1 DEF RequestsInv
    <3>3. i = <<r, i[2]>>
      BY <2>1, <2>2
    <3> QED BY <3>1, <3>2, <3>3
  <2>3. CASE i[1] # r
    BY <1>0, <1>1, <2>1, <2>3 DEF Begin, Command, TypeOK
  <2> QED BY <2>2, <2>3
<1>2. CASE UNCHANGED <<req, ref>>
  BY <1>2 DEF Command
<1> QED
  BY <1>1, <1>2, ChildKeeps, HostKeeps DEF Next, Handle, StatusCheck, RecordRun, Spawn, Receive,
     ApplyInstall, ApplyStart, ApplyStop, Breaks, ApiCrash, vars, request

\* The part of the invariant about runs, from the three lemmas.
LEMMA RunsStep ==
  ASSUME RecordInv, [Next]_vars
  PROVE  RunsInv'
<1>0. RunsInv
  BY DEF RecordInv
<1> SUFFICES ASSUME NEW i \in Runs
             PROVE  /\ row'[i].phase = "completed" => child'[i].out = "ok"
                    /\ child'[i].out = "ok" => child'[i].st = "exited"
                    /\ child'[i].out = "ok" => effect'[i].did \in Did(Command(i)')
                    /\ child'[i].out = "ok" /\ Command(i)' = "install" =>
                         effect'[i].version \in Version /\ effect'[i].version.ref = ref'[i[1]]
  BY DEF RunsInv, Did
<1>1. /\ row[i].phase = "completed" => child[i].out = "ok"
      /\ child[i].out = "ok" => child[i].st = "exited" /\ effect[i].did \in Did(Command(i))
      /\ child[i].out = "ok" /\ Command(i) = "install" =>
           effect[i].version \in Version /\ effect[i].version.ref = ref[i[1]]
  BY <1>0 DEF RunsInv
<1>2. \/ Command(i)' = Command(i) /\ ref'[i[1]] = ref[i[1]]
      \/ child'[i].out = "none" /\ row'[i].phase = "none"
  BY CommandStep
<1>3. CASE child'[i] = child[i] /\ effect'[i] = effect[i]
  <2>1. row'[i].phase = "completed" => child[i].out = "ok"
    BY <1>1, RowStep
  <2> QED BY <1>1, <1>2, <1>3, <2>1
<1>4. CASE row[i].phase = "running" /\ row'[i] = row[i] /\ child'[i].out = "none"
  BY <1>4
<1>5. CASE /\ child[i].st \in AtWork /\ row' = row
           /\ child'[i].out = "ok" =>
                /\ child'[i].st = "exited" /\ effect'[i].did \in Did(Command(i))
                /\ Command(i) = "install" =>
                     effect'[i].version \in Version /\ effect'[i].version.ref = ref[i[1]]
  <2>1. row[i].phase # "completed"
    BY <1>1, <1>5 DEF AtWork
  <2> QED BY <1>1, <1>2, <1>5, <2>1
<1> QED BY <1>3, <1>4, <1>5, ChildStepFacts

\* The part of the invariant about requests, one step per action.
LEMMA RequestsStep ==
  ASSUME RecordInv, [Next]_vars
  PROVE  RequestsInv'
<1>0. TypeOK /\ RequestsInv
  BY DEF RecordInv
<1> DEFINE At(r) ==
      /\ pc[r] \in {"idle", "status"} => leg[r] = "main"
      /\ pc[r] = "idle" => \A l \in Legs : row[<<r, l>>].phase = "none" /\ child[<<r, l>>].out = "none"
      /\ pc[r] = "idle" => \A l \in Legs : child[<<r, l>>].st = "none"
      /\ pc[r] \in {"status", "record"} => row[<<r, leg[r]>>].phase = "none"
      /\ pc[r] \in {"spawn", "await"} => row[<<r, leg[r]>>].phase = "running"
      /\ pc[r] = "apply" => row[<<r, leg[r]>>].phase = "completed"
      /\ leg[r] = "main" => row[<<r, "restart">>].phase = "none"
<1>a. \A r \in Requests : At(r)
  BY <1>0 DEF RequestsInv, Run
<1> SUFFICES ASSUME NEW s \in Requests PROVE At(s)'
  BY DEF RequestsInv, Run
<1>b. \A l \in Legs : <<s, l>> \in Runs
  BY DEF Runs
<1> HIDE DEF At
<1>c. ASSUME pc'[s] = pc[s], leg'[s] = leg[s],
             \A l \in Legs : row'[<<s, l>>] = row[<<s, l>>],
             \A l \in Legs : pc[s] = "idle" => child'[<<s, l>>] = child[<<s, l>>]
      PROVE  At(s)'
  BY <1>a, <1>c, <1>0 DEF At, TypeOK, Legs
<1>1. ASSUME NEW r \in Requests, NEW q \in Request, Begin(r, q) PROVE At(s)'
  <2>1. CASE r # s
    BY <1>0, <1>1, <1>c, <2>1 DEF Begin, Goto, TypeOK
  <2>2. CASE r = s
    <3>1. pc[s] = "idle" /\ pc'[s] \in {"status", "record"} /\ UNCHANGED <<leg, row>>
      BY <1>0, <1>1, <2>2 DEF Begin, Goto, TypeOK
    <3> QED BY <1>a, <3>1 DEF At, Legs
  <2> QED BY <2>1, <2>2
<1>2. ASSUME NEW r \in Requests, StatusCheck(r) PROVE At(s)'
  <2>1. CASE r # s
    BY <1>0, <1>2, <1>c, <2>1 DEF StatusCheck, End, Goto, TypeOK
  <2>2. CASE r = s
    <3>1. pc[s] = "status" /\ pc'[s] \in {"record", "refused"} /\ UNCHANGED <<leg, row>>
      BY <1>0, <1>2, <2>2 DEF StatusCheck, End, Goto, TypeOK
    <3> QED BY <1>a, <3>1 DEF At
  <2> QED BY <2>1, <2>2
<1>3. ASSUME NEW r \in Requests, RecordRun(r) PROVE At(s)'
  <2>0. row' = [row EXCEPT ![<<r, leg[r]>>] = [phase |-> "running", error |-> "none"]]
    BY <1>3 DEF RecordRun, Run
  <2>1. CASE r # s
    <3>1. \A l \in Legs : row'[<<s, l>>] = row[<<s, l>>]
      BY <1>0, <1>b, <2>0, <2>1 DEF TypeOK
    <3> QED BY <1>0, <1>3, <1>c, <2>1, <3>1 DEF RecordRun, Goto, TypeOK
  <2>2. CASE r = s
    <3>1. pc'[s] = "spawn" /\ UNCHANGED leg
      BY <1>0, <1>3, <2>2 DEF RecordRun, Goto, TypeOK
    <3>2. row'[<<s, leg[s]>>].phase = "running"
      BY <1>0, <1>b, <2>0, <2>2 DEF TypeOK
    <3>3. leg[s] = "main" => row'[<<s, "restart">>] = row[<<s, "restart">>]
      BY <1>0, <1>b, <2>0, <2>2 DEF TypeOK, Legs
    <3> QED BY <1>a, <3>1, <3>2, <3>3 DEF At
  <2> QED BY <2>1, <2>2
<1>4. ASSUME NEW r \in Requests, Spawn(r) PROVE At(s)'
  <2>1. CASE r # s
    <3>1. child' = [child EXCEPT ![<<r, leg[r]>>] = [st |-> "running", out |-> "none"]]
      BY <1>4 DEF Spawn, Run
    <3>2. \A l \in Legs : child'[<<s, l>>] = child[<<s, l>>]
      BY <1>0, <1>b, <2>1, <3>1 DEF TypeOK
    <3> QED BY <1>0, <1>4, <1>c, <2>1, <3>2 DEF Spawn, Goto, TypeOK
  <2>2. CASE r = s
    <3>1. pc[s] = "spawn" /\ pc'[s] = "await" /\ UNCHANGED <<leg, row>>
      BY <1>0, <1>4, <2>2 DEF Spawn, Goto, TypeOK
    <3> QED BY <1>a, <3>1 DEF At
  <2> QED BY <2>1, <2>2
<1>5. ASSUME NEW r \in Requests, Receive(r) PROVE At(s)'
  <2>0. PICK new : row' = [row EXCEPT ![<<r, leg[r]>>] = new]
    BY <1>5 DEF Receive, Finish, Run
  <2>1. CASE r # s
    <3>1. \A l \in Legs : row'[<<s, l>>] = row[<<s, l>>]
      BY <1>0, <1>b, <2>0, <2>1 DEF TypeOK
    <3> QED BY <1>0, <1>5, <1>c, <2>1, <3>1 DEF Receive, End, Goto, TypeOK
  <2>2. CASE r = s
    <3>1. pc[s] = "await" /\ UNCHANGED leg
      BY <1>5, <2>2 DEF Receive
    <3>2. leg[s] = "main" => row'[<<s, "restart">>] = row[<<s, "restart">>]
      BY <1>0, <1>b, <2>0, <2>2 DEF TypeOK, Legs
    <3>3. pc'[s] = "refused" \/ (pc'[s] = "apply" /\ Finish(Run(s), "completed", "none"))
      BY <1>0, <1>5, <2>2 DEF Receive, End, Goto, TypeOK
    <3>4. Finish(Run(s), "completed", "none") => row'[<<s, leg[s]>>].phase = "completed"
      BY <1>0, <1>b DEF Finish, Run, TypeOK
    <3> QED BY <1>a, <3>1, <3>2, <3>3, <3>4 DEF At
  <2> QED BY <2>1, <2>2
<1>6. ASSUME NEW r \in Requests, ApplyInstall(r) PROVE At(s)'
  <2>1. CASE r # s
    BY <1>0, <1>6, <1>c, <2>1 DEF ApplyInstall, End, Goto, TypeOK
  <2>2. CASE r = s
    <3>1. leg[s] = "main" /\ pc[s] = "apply" /\ UNCHANGED row
      BY <1>0, <1>6, <2>2, RunFacts DEF ApplyInstall, Command, TypeOK, Legs
    <3>2. \/ pc'[s] = "record" /\ leg'[s] = "restart"
          \/ pc'[s] = "answered" /\ leg'[s] = leg[s]
      BY <1>0, <1>6, <2>2 DEF ApplyInstall, End, Goto, TypeOK
    <3> QED BY <1>a, <3>1, <3>2 DEF At
  <2> QED BY <2>1, <2>2
<1>7. ASSUME NEW r \in Requests, ApplyStart(r) \/ ApplyStop(r) \/ Breaks(r) PROVE At(s)'
  <2>1. CASE r # s
    BY <1>0, <1>7, <1>c, <2>1 DEF ApplyStart, ApplyStop, Breaks, End, Goto, TypeOK
  <2>2. CASE r = s
    <3>1. pc'[s] \in {"answered", "broken"} /\ UNCHANGED <<leg, row>>
      BY <1>0, <1>7, <2>2 DEF ApplyStart, ApplyStop, Breaks, End, Goto, TypeOK
    <3> QED BY <1>a, <3>1 DEF At
  <2> QED BY <2>1, <2>2
<1>8. CASE ApiCrash
  <2>1. pc'[s] = pc[s] \/ pc'[s] = "lost"
    BY <1>0, <1>8 DEF ApiCrash, TypeOK
  <2>2. UNCHANGED <<leg, row, child>>
    BY <1>8 DEF ApiCrash
  <2> QED BY <1>a, <2>1, <2>2 DEF At
<1>9. ASSUME NEW i \in Runs, ChildStep(i) PROVE At(s)'
  <2>1. child[i].st \in AtWork /\ UNCHANGED <<pc, leg, row>>
    BY <1>9, ChildKeeps DEF request
  <2>2. PICK new : child' = [child EXCEPT ![i] = new]
    BY <1>9, ChildKeeps
  <2>3. \A l \in Legs : pc[s] = "idle" => <<s, l>> # i
    BY <1>a, <2>1 DEF At, AtWork
  <2>4. \A l \in Legs : pc[s] = "idle" => child'[<<s, l>>] = child[<<s, l>>]
    BY <1>0, <1>b, <2>2, <2>3 DEF TypeOK
  <2> QED BY <1>c, <2>1, <2>4
<1>10. CASE HostStep \/ UNCHANGED vars
  BY <1>10, <1>c, HostKeeps DEF vars, request
<1> QED BY <1>1, <1>2, <1>3, <1>4, <1>5, <1>6, <1>7, <1>8, <1>9, <1>10 DEF Next, Handle

\* The invariant holds in every reachable state.
LEMMA RecordInvariant == Spec => []RecordInv
<1>1. RecordInv /\ [Next]_vars => RecordInv'
  BY TypeStep, RunsStep, RequestsStep DEF RecordInv
<1> QED BY <1>1, RecordInit, PTL DEF Spec

-----------------------------------------------------------------------------
(* The theorems                                                              *)

\* Every variable keeps its type; in particular comfy_ref, a column that may
\* not be null, is never set to what a request left out (update_install_result).
THEOREM TypeCorrect == Spec => []TypeOK
<1>1. RecordInv => TypeOK
  BY DEF RecordInv
<1> QED BY <1>1, RecordInvariant, PTL

\* A closed run is never written again (CommandRunRepository.finish).
THEOREM ClosedRunsKeepTheirOutcome == Spec => ClosedRunsStay
<1>1. RecordInv /\ [Next]_vars =>
        [\A i \in Runs : row[i].phase \in {"completed", "failed"} => row'[i] = row[i]]_vars
  <2> SUFFICES ASSUME RecordInv, [Next]_vars, NEW i \in Runs,
                      row[i].phase \in {"completed", "failed"}
               PROVE  row'[i] = row[i]
    OBVIOUS
  <2> QED BY RowStep
<1> QED BY <1>1, RecordInvariant, PTL DEF Spec, ClosedRunsStay

\* A completed run and its effect are there to stay.
LEMMA CompletedStays ==
  ASSUME RecordInv, [Next]_vars, NEW i \in Runs, row[i].phase = "completed"
  PROVE  row'[i].phase = "completed" /\ effect'[i] = effect[i]
<1>1. child[i].out = "ok" /\ child[i].st = "exited"
  BY DEF RecordInv, RunsInv
<1> QED BY <1>1, RowStep, ChildStepFacts DEF AtWork

\* The instances row always names a version that some completed run installed,
\* with the ref and the commit of the same install (update_install_result).
THEOREM RecordedVersionsWereInstalled == Spec => []RecordedWasInstalled
<1> DEFINE By(i) ==
      /\ row[i].phase = "completed"
      /\ effect[i].did = "installed"
      /\ effect[i].version = [ref |-> inst.comfy_ref, commit |-> inst.resolved_commit]
<1>1. Init => RecordedWasInstalled
  BY DEF Init, RecordedWasInstalled
<1>2. RecordInv /\ RecordedWasInstalled /\ [Next]_vars => RecordedWasInstalled'
  <2> SUFFICES ASSUME RecordInv, RecordedWasInstalled, [Next]_vars,
                      inst'.resolved_commit # NoCommit
               PROVE  \E i \in Runs : By(i)'
    BY DEF RecordedWasInstalled
  <2>1. ASSUME NEW r \in Requests, ApplyInstall(r) PROVE \E i \in Runs : By(i)'
    <3>1. PICK i \in Runs : i = Run(r) /\ i[1] = r
      BY RunFacts DEF RecordInv, TypeOK
    <3>2. row[i].phase = "completed" /\ Command(i) = "install"
      BY <2>1, <3>1 DEF ApplyInstall, RecordInv, RequestsInv
    <3>3. /\ effect[i].did = "installed"
          /\ effect[i].version \in Version /\ effect[i].version.ref = ref[r]
      BY <3>1, <3>2 DEF RecordInv, RunsInv, Did
    <3>4. inst'.comfy_ref = ref[r] /\ inst'.resolved_commit = effect[i].version.commit
      BY <2>1, <3>1 DEF ApplyInstall, RecordInv, TypeOK
    <3>5. effect[i].version = [ref |-> inst'.comfy_ref, commit |-> inst'.resolved_commit]
      BY <3>3, <3>4 DEF Version
    <3>6. UNCHANGED <<row, effect>>
      BY <2>1 DEF ApplyInstall, host
    <3> QED BY <3>2, <3>3, <3>5, <3>6
  <2>2. CASE inst'.comfy_ref = inst.comfy_ref /\ inst'.resolved_commit = inst.resolved_commit
    <3>1. PICK i \in Runs : By(i)
      BY <2>2 DEF RecordedWasInstalled
    <3>2. By(i)'
      BY <2>2, <3>1, CompletedStays
    <3> QED BY <3>2
  <2>3. ASSUME NEW r \in Requests, ApplyStart(r)
        PROVE  inst'.comfy_ref = inst.comfy_ref /\ inst'.resolved_commit = inst.resolved_commit
    BY <2>3 DEF ApplyStart, RecordInv, TypeOK
  <2>4. \/ \E r \in Requests : ApplyInstall(r) \/ ApplyStart(r)
        \/ UNCHANGED inst
    BY ChildKeeps, HostKeeps DEF Next, Handle, Begin, StatusCheck, RecordRun, Spawn, Receive,
       ApplyStop, Breaks, ApiCrash, vars
  <2> QED BY <2>1, <2>2, <2>3, <2>4
<1> QED BY <1>1, <1>2, RecordInvariant, PTL DEF Spec

-----------------------------------------------------------------------------
(* Requests that wait for one another                                        *)

\* An execution has no child before it is spawned, and a child says and has done
\* nothing before it exits: so nothing wipes out what a killed child has left.
Unspawned(i) == child[i].st = "none" /\ child[i].out = "none"

SpawnInv ==
  /\ \A r \in Requests :
       /\ pc[r] \in {"idle", "status", "record", "spawn"} => Unspawned(<<r, leg[r]>>)
       /\ leg[r] = "main" => Unspawned(<<r, "restart">>)
  /\ \A i \in Runs : child[i].st # "exited" => child[i].out = "none" /\ effect[i].did = "none"

OneAtATime == \A a, b \in Requests : pc[a] \in Live /\ pc[b] \in Live => a = b

\* A child works only while its request waits for it.
Attended == \A i \in Runs : child[i].st \in AtWork => pc[i[1]] = "await" /\ leg[i[1]] = i[2]

\* A request that has been found free to install: no ComfyUI that comfyctl knows
\* of runs until it is done.
Installing(r) ==
  /\ req[r].kind = "install" /\ leg[r] = "main"
  /\ pc[r] \in {"record", "spawn", "await", "apply"}

\* Its child has replaced the version, and the row does not say so yet.
Pending(r) ==
  /\ req[r].kind = "install" /\ leg[r] = "main"
  /\ pc[r] \in {"await", "apply"} /\ child[<<r, "main">>].out = "ok"

DiskInv ==
  /\ \A r \in Requests : Pending(r) => disk = effect[<<r, "main">>].version
  /\ inst.resolved_commit # NoCommit /\ (\A r \in Requests : ~Pending(r)) =>
       disk = [ref |-> inst.comfy_ref, commit |-> inst.resolved_commit]

\* A ComfyUI runs from the active checkout.  It is the one the pid file names or
\* the one that the start at work has spawned; a start past its port check is
\* alone with its own, so the port that answers is that one's.
Starting(i) == child[i].st \in {"checked", "polling"}

ProcInv ==
  /\ NothingLost
  /\ \A i \in Runs : comfy[i].st = "booting" => child[i].st = "polling"
  /\ \A i \in Runs : comfy[i].st = "listening" => pidFile = i \/ child[i].st = "polling"
  /\ \A i \in Runs : Starting(i) => \A j \in Runs : j # i => comfy[j].st = "none"
  /\ \A i \in Runs : child[i].out = "ok" => effect[i].did # "answered"

NoneRuns == \A i \in Runs : comfy[i].st = "none"

QuietInv ==
  /\ OneAtATime /\ Attended
  /\ ProcInv
  /\ \A r \in Requests : Installing(r) => NoneRuns
  /\ DiskInv

TurnInv == SpawnInv /\ (Undisturbed => QuietInv)

\* Nothing is spawned in the initial states.
LEMMA TurnInit == Init => TurnInv
<1> SUFFICES ASSUME Init PROVE TurnInv
  OBVIOUS
<1>1. \A i \in Runs : Unspawned(i)
  BY DEF Init, Unspawned
<1>2. \A r \in Requests : <<r, "main">> \in Runs /\ <<r, "restart">> \in Runs /\ leg[r] = "main"
  BY DEF Init, Runs, Legs
<1>3. SpawnInv
  BY <1>1, <1>2 DEF Init, SpawnInv, Unspawned
<1>4. \A r \in Requests : pc[r] \notin Live /\ ~Pending(r) /\ ~Installing(r)
  BY DEF Init, Live, Pending, Installing
<1>5. QuietInv
  <2>1. ProcInv /\ Attended
    BY <1>1 DEF Init, ProcInv, NothingLost, NoProcess, Starting, Attended, Unspawned, AtWork
  <2> QED BY <1>4, <2>1 DEF Init, QuietInv, OneAtATime, DiskInv
<1> QED BY <1>3, <1>5 DEF TurnInv

\* A child that goes on without ending has said and done nothing.
LEMMA SilentStep ==
  ASSUME TypeOK, NEW i \in Runs, NEW j \in Runs, ChildStep(j),
         child[i].st # "exited" => child[i].out = "none" /\ effect[i].did = "none"
  PROVE  child'[i].st # "exited" => child'[i].out = "none" /\ effect'[i].did = "none"
<1>1. CASE ChildChecks(j) \/ ChildSpawns(j)
  <2>1. child[j].st \in AtWork /\ UNCHANGED effect
    BY <1>1 DEF ChildChecks, ChildSpawns, AtWork, host
  <2>2. child'[j].out = child[j].out /\ (i # j => child'[i] = child[i])
    BY <1>1 DEF ChildChecks, ChildSpawns, TypeOK, Child
  <2> QED BY <2>1, <2>2 DEF AtWork
<1>2. CASE ChildInstall(j) \/ ChildStart(j) \/ ChildStop(j) \/ ChildFails(j)
  <2>1. PICK out : Exits(j, out)
    BY <1>2 DEF ChildInstall, ChildStart, ChildStop, ChildFails, Succeeds
  <2>2. child'[j].st = "exited" /\ (i # j => child'[i] = child[i])
    BY <2>1 DEF Exits, TypeOK
  <2>3. i # j => effect'[i] = effect[i]
    BY <1>2 DEF ChildInstall, ChildStart, ChildStop, ChildFails, Refused, CutShort, Does, TypeOK
  <2> QED BY <2>2, <2>3
<1> QED BY <1>1, <1>2 DEF ChildStep

\* A child is spawned once, whatever else goes on.
LEMMA SpawnStep ==
  ASSUME RecordInv, SpawnInv, [Next]_vars
  PROVE  SpawnInv'
<1>0. TypeOK /\ RequestsInv
  BY DEF RecordInv
<1> DEFINE At(r) ==
      /\ pc[r] \in {"idle", "status", "record", "spawn"} => Unspawned(<<r, leg[r]>>)
      /\ leg[r] = "main" => Unspawned(<<r, "restart">>)
           Silent(i) == child[i].st # "exited" => child[i].out = "none" /\ effect[i].did = "none"
<1>a. (\A r \in Requests : At(r)) /\ (\A i \in Runs : Silent(i))
  BY DEF SpawnInv
<1>e. (\A s \in Requests : <<s, "main">> \in Runs) /\ (\A i \in Runs : i[1] \in Requests)
  BY DEF Runs, Legs
<1> SUFFICES ASSUME NEW s \in Requests, NEW i \in Runs PROVE At(s)' /\ Silent(i)'
  <2>1. ASSUME \A s \in Requests : \A i \in Runs : At(s)' /\ Silent(i)' PROVE SpawnInv'
    <3>1. (\A s \in Requests : At(s)') /\ (\A i \in Runs : Silent(i)')
      BY <1>e, <2>1
    <3> QED BY <3>1 DEF SpawnInv
  <2> QED BY <2>1
<1>b. \A l \in Legs : <<s, l>> \in Runs
  BY DEF Runs
<1>c. ASSUME UNCHANGED <<child, effect>> PROVE Silent(i)'
  BY <1>a, <1>c
<1>d. ASSUME UNCHANGED <<child, effect>>, leg'[s] = leg[s], pc'[s] = pc[s] \/ pc'[s] \notin {"idle", "status", "record", "spawn"}
      PROVE  At(s)' /\ Silent(i)'
  BY <1>a, <1>d DEF Unspawned
<1>1. ASSUME NEW r \in Requests, NEW q \in Request, Begin(r, q) PROVE At(s)' /\ Silent(i)'
  <2>1. UNCHANGED <<child, leg, effect>> /\ (pc'[s] = pc[s] \/ pc[s] = "idle")
    BY <1>0, <1>1 DEF Begin, Goto, TypeOK, host
  <2> QED BY <1>a, <1>c, <2>1 DEF Unspawned
<1>2. ASSUME NEW r \in Requests, StatusCheck(r) \/ RecordRun(r) PROVE At(s)' /\ Silent(i)'
  <2>1. UNCHANGED <<child, leg, effect>> /\ (pc'[s] = pc[s] \/ pc[s] \in {"status", "record"})
    BY <1>0, <1>2 DEF StatusCheck, RecordRun, End, Goto, TypeOK, host
  <2> QED BY <1>a, <1>c, <2>1 DEF Unspawned
<1>3. ASSUME NEW r \in Requests, Spawn(r) PROVE At(s)' /\ Silent(i)'
  <2>1. child' = [child EXCEPT ![<<r, leg[r]>>] = [st |-> "running", out |-> "none"]]
    BY <1>3 DEF Spawn, Run
  <2>2. Silent(i)'
    <3>0. UNCHANGED effect
      BY <1>3 DEF Spawn, host
    <3>1. CASE i = <<r, leg[r]>>
      <4>1. Unspawned(<<r, leg[r]>>)
        BY <1>3 DEF Spawn, SpawnInv
      <4> QED BY <1>0, <1>a, <2>1, <3>0, <3>1, <4>1 DEF TypeOK, Unspawned
    <3>2. CASE i # <<r, leg[r]>>
      BY <1>0, <1>a, <2>1, <3>0, <3>2 DEF TypeOK
    <3> QED BY <3>1, <3>2
  <2>3. UNCHANGED leg /\ (r # s => pc'[s] = pc[s]) /\ (r = s => pc'[s] = "await")
    BY <1>0, <1>3 DEF Spawn, Goto, TypeOK
  <2>4. \A l \in Legs : <<s, l>> # <<r, leg[r]>> => child'[<<s, l>>] = child[<<s, l>>]
    BY <1>0, <1>b, <2>1 DEF TypeOK
  <2>5. CASE r # s
    <3>1. \A l \in Legs : child'[<<s, l>>] = child[<<s, l>>]
      BY <2>4, <2>5
    <3>2. leg[s] \in Legs /\ "restart" \in Legs
      BY <1>0 DEF TypeOK, Legs
    <3> QED BY <1>a, <2>2, <2>3, <2>5, <3>1, <3>2 DEF Unspawned
  <2>6. CASE r = s
    <3>1. leg[s] = "main" => child'[<<s, "restart">>] = child[<<s, "restart">>]
      BY <2>4, <2>6 DEF Legs
    <3> QED BY <1>a, <2>2, <2>3, <2>6, <3>1 DEF Unspawned
  <2> QED BY <2>5, <2>6
<1>4. ASSUME NEW r \in Requests, Receive(r) \/ ApplyStart(r) \/ ApplyStop(r) \/ Breaks(r)
      PROVE  At(s)' /\ Silent(i)'
  <2>1. UNCHANGED <<child, leg, effect>>
    BY <1>4 DEF Receive, ApplyStart, ApplyStop, Breaks, host
  <2>2. pc'[s] = pc[s] \/ pc'[s] \in {"apply", "refused", "answered", "broken"}
    BY <1>0, <1>4 DEF Receive, ApplyStart, ApplyStop, Breaks, End, Goto, TypeOK
  <2> QED BY <1>d, <2>1, <2>2
<1>5. ASSUME NEW r \in Requests, ApplyInstall(r) PROVE At(s)' /\ Silent(i)'
  <2>1. UNCHANGED <<child, effect>> /\ leg[r] = "main"
    BY <1>0, <1>5, RunFacts DEF ApplyInstall, Command, TypeOK, Legs, host
  <2>2. CASE r # s
    <3>1. pc'[s] = pc[s] /\ leg'[s] = leg[s]
      BY <1>0, <1>5, <2>2 DEF ApplyInstall, End, Goto, TypeOK
    <3> QED BY <1>d, <2>1, <3>1
  <2>3. CASE r = s
    <3>1. \/ pc'[s] = "record" /\ leg'[s] = "restart"
          \/ pc'[s] = "answered" /\ leg'[s] = leg[s]
      BY <1>0, <1>5, <2>3 DEF ApplyInstall, End, Goto, TypeOK
    <3>2. Unspawned(<<s, "restart">>)'
      BY <1>a, <2>1, <2>3 DEF Unspawned
    <3> QED BY <1>c, <2>1, <3>1, <3>2
  <2> QED BY <2>2, <2>3
<1>6. CASE ApiCrash
  <2>1. UNCHANGED <<child, leg, effect>> /\ (pc'[s] = pc[s] \/ pc'[s] = "lost")
    BY <1>0, <1>6 DEF ApiCrash, TypeOK, host
  <2> QED BY <1>d, <2>1
<1>7. ASSUME NEW j \in Runs, ChildStep(j) PROVE At(s)' /\ Silent(i)'
  <2>1. child[j].st \in AtWork /\ UNCHANGED <<pc, leg>>
    BY <1>7, ChildKeeps DEF request
  <2>2. PICK new : child' = [child EXCEPT ![j] = new]
    BY <1>7, ChildKeeps
  <2>3. Silent(i)'
    BY <1>0, <1>7, <1>a, SilentStep
  <2>4. \A l \in Legs : Unspawned(<<s, l>>) => Unspawned(<<s, l>>)'
    <3> SUFFICES ASSUME NEW l \in Legs, Unspawned(<<s, l>>) PROVE Unspawned(<<s, l>>)'
      OBVIOUS
    <3>1. <<s, l>> # j
      BY <2>1 DEF Unspawned, AtWork
    <3>2. child'[<<s, l>>] = child[<<s, l>>]
      BY <1>0, <1>b, <2>2, <3>1 DEF TypeOK
    <3> QED BY <3>2 DEF Unspawned
  <2>5. leg[s] \in Legs /\ "restart" \in Legs
    BY <1>0 DEF TypeOK, Legs
  <2> QED BY <1>a, <2>1, <2>3, <2>4, <2>5 DEF Unspawned
<1>8. CASE HostStep \/ UNCHANGED vars
  BY <1>8, <1>d, HostKeeps DEF vars, request, host
<1> QED BY <1>1, <1>2, <1>3, <1>4, <1>5, <1>6, <1>7, <1>8 DEF Next, Handle

\* What disturbs the requests is not undone.
LEMMA DisturbedStays ==
  ASSUME RecordInv, SpawnInv, [Next]_vars, Undisturbed'
  PROVE  Undisturbed
<1>0. TypeOK
  BY DEF RecordInv
<1>1. ~overlap /\ ~other
  <2>1. ASSUME overlap PROVE overlap'
    BY <2>1, ChildKeeps, HostKeeps DEF Next, Handle, Begin, StatusCheck, RecordRun, Spawn, Receive,
       ApplyInstall, ApplyStart, ApplyStop, Breaks, ApiCrash, vars, request
  <2>2. ASSUME other PROVE other'
    <3>1. CASE HostStep
      BY <2>2, <3>1 DEF HostStep, OtherListens, ProcListens, ProcExits, Becomes
    <3> QED BY <2>2, <3>1, ChildKeeps DEF Next, Handle, Begin, StatusCheck, RecordRun, Spawn,
               Receive, ApplyInstall, ApplyStart, ApplyStop, Breaks, ApiCrash, vars, host, procs
  <2> QED BY <2>1, <2>2 DEF Undisturbed
<1>2. ASSUME NEW r \in Requests PROVE pc[r] \notin {"broken", "lost"}
  <2> SUFFICES ASSUME pc[r] \in {"broken", "lost"} PROVE pc'[r] = pc[r]
    BY DEF Undisturbed
  <2>1. ASSUME NEW o \in Requests, pc[o] \in {"idle"} \cup Live, NEW next, Goto(o, next)
        PROVE  pc'[r] = pc[r]
    BY <1>0, <2>1 DEF Goto, TypeOK, Live
  <2>2. ASSUME NEW o \in Requests, NEW q \in Request, Begin(o, q) PROVE pc'[r] = pc[r]
    BY <2>1, <2>2 DEF Begin
  <2>3. ASSUME NEW o \in Requests, Handle(o) \/ Breaks(o) PROVE pc'[r] = pc[r]
    <3>1. pc[o] \in Live
      BY <2>3 DEF Handle, StatusCheck, RecordRun, Spawn, Receive, ApplyInstall, ApplyStart,
         ApplyStop, Breaks, Live
    <3>2. \E next : Goto(o, next)
      BY <2>3 DEF Handle, StatusCheck, RecordRun, Spawn, Receive, ApplyInstall, ApplyStart,
         ApplyStop, Breaks, End
    <3> QED BY <2>1, <3>1, <3>2
  <2>4. CASE ApiCrash
    BY <1>0, <2>4 DEF ApiCrash, TypeOK, Live
  <2>5. CASE UNCHANGED pc
    BY <2>5
  <2> QED BY <2>2, <2>3, <2>4, <2>5, ChildKeeps, HostKeeps DEF Next, vars, request
<1>3. ASSUME NEW i \in Runs PROVE child[i].out # "garbled" /\ effect[i].did # "left"
  <2>0. child[i].out = "garbled" \/ effect[i].did = "left" => child[i].st = "exited"
    BY DEF SpawnInv
  <2> SUFFICES ASSUME child[i].st = "exited"
               PROVE  child'[i] = child[i] /\ effect'[i] = effect[i]
    BY <2>0 DEF Undisturbed
  <2>1. ASSUME NEW r \in Requests, Spawn(r) PROVE child'[i] = child[i] /\ effect'[i] = effect[i]
    <3>1. Unspawned(<<r, leg[r]>>)
      BY <2>1 DEF Spawn, SpawnInv
    <3>2. i # <<r, leg[r]>>
      BY <3>1 DEF Unspawned
    <3> QED BY <1>0, <2>1, <3>2 DEF Spawn, Run, TypeOK, host
  <2>2. ASSUME NEW j \in Runs, ChildStep(j) PROVE child'[i] = child[i] /\ effect'[i] = effect[i]
    <3>1. child[j].st \in AtWork /\ \E new : child' = [child EXCEPT ![j] = new]
      BY <2>2, ChildKeeps
    <3>2. i # j
      BY <3>1 DEF AtWork
    <3>3. effect'[i] = effect[i]
      BY <1>0, <2>2, <3>2 DEF ChildStep, ChildInstall, ChildChecks, ChildSpawns, ChildStart,
         ChildStop, ChildFails, Refused, CutShort, Does, TypeOK, host
    <3> QED BY <1>0, <3>1, <3>2, <3>3 DEF TypeOK
  <2>3. CASE UNCHANGED <<child, effect>>
    BY <2>3
  <2> QED BY <2>1, <2>2, <2>3, HostKeeps DEF Next, Handle, Begin, StatusCheck, RecordRun, Receive,
             ApplyInstall, ApplyStart, ApplyStop, Breaks, ApiCrash, vars, host
<1> QED BY <1>1, <1>2, <1>3 DEF Undisturbed

\* Only one request is under way, so the invariant has to be looked at for that
\* request alone.
LEMMA OnlyMover ==
  ASSUME TypeOK, QuietInv, NEW r \in Requests,
         \A o \in Requests : o # r => pc[o] \notin Live /\ pc'[o] = pc[o],
         \A i \in Runs : i[1] # r => child'[i] = child[i],
         \A l \in Legs : child'[<<r, l>>].st \in AtWork => pc'[r] = "await" /\ leg'[r] = l,
         ProcInv',
         Installing(r)' => NoneRuns',
         Pending(r)' => disk' = effect'[<<r, "main">>].version,
         inst'.resolved_commit # NoCommit /\ ~Pending(r)' =>
           disk' = [ref |-> inst'.comfy_ref, commit |-> inst'.resolved_commit]
  PROVE  QuietInv'
<1>1. \A o \in Requests : o # r => pc'[o] \notin Live
  OBVIOUS
<1>2. \A o \in Requests : o # r => ~Pending(o)' /\ ~Installing(o)'
  BY <1>1 DEF Pending, Installing, Live
<1>3. OneAtATime'
  BY <1>1 DEF OneAtATime
<1>4. Attended'
  <2> SUFFICES ASSUME NEW i \in Runs, child'[i].st \in AtWork
               PROVE  pc'[i[1]] = "await" /\ leg'[i[1]] = i[2]
    BY DEF Attended
  <2>1. i[1] \in Requests /\ i[2] \in Legs /\ i = <<i[1], i[2]>>
    BY DEF Runs
  <2>2. CASE i[1] = r
    BY <2>1, <2>2
  <2>3. CASE i[1] # r
    <3>1. pc[i[1]] = "await"
      BY <2>3 DEF QuietInv, Attended, AtWork
    <3> QED BY <2>1, <2>3, <3>1 DEF Live
  <2> QED BY <2>2, <2>3
<1>5. DiskInv'
  BY <1>2 DEF DiskInv
<1> QED BY <1>2, <1>3, <1>4, <1>5 DEF QuietInv

\* What the invariant says of the only request under way.
LEMMA OnlyFacts ==
  ASSUME QuietInv, NEW r \in Requests, \A o \in Requests : o # r => pc[o] \notin Live
  PROVE  /\ \A l \in Legs : child[<<r, l>>].st \in AtWork => pc[r] = "await" /\ leg[r] = l
         /\ ProcInv
         /\ Installing(r) => NoneRuns
         /\ Pending(r) => disk = effect[<<r, "main">>].version
         /\ inst.resolved_commit # NoCommit /\ ~Pending(r) =>
              disk = [ref |-> inst.comfy_ref, commit |-> inst.resolved_commit]
<1>1. \A o \in Requests : o # r => ~Pending(o)
  BY DEF Pending, Live
<1>2. \A l \in Legs : child[<<r, l>>].st \in AtWork => pc[r] = "await" /\ leg[r] = l
  <2> SUFFICES ASSUME NEW l \in Legs, child[<<r, l>>].st \in AtWork
               PROVE  pc[r] = "await" /\ leg[r] = l
    OBVIOUS
  <2>1. <<r, l>> \in Runs /\ <<r, l>>[1] = r /\ <<r, l>>[2] = l
    BY DEF Runs
  <2> QED BY <2>1 DEF QuietInv, Attended
<1> QED BY <1>1, <1>2 DEF QuietInv, DiskInv

\* A step that at most spawns a child leaves what is known of the processes.
LEMMA ProcKeeps ==
  ASSUME ProcInv, UNCHANGED <<comfy, pidFile, effect>>,
         \A i \in Runs :
           \/ child'[i] = child[i]
           \/ child[i].st = "none" /\ child'[i].st = "running" /\ child'[i].out = "none"
  PROVE  ProcInv'
<1>1. \A i \in Runs : /\ child'[i].st = "polling" <=> child[i].st = "polling"
                      /\ Starting(i)' => Starting(i)
                      /\ child'[i].out = "ok" => child[i].out = "ok"
  BY DEF Starting
<1> QED BY <1>1 DEF ProcInv, NothingLost

\* A request begins only when no other one is under way.
LEMMA BeginInTurn ==
  ASSUME RecordInv, QuietInv, Undisturbed', NEW r \in Requests, NEW q \in Request, Begin(r, q)
  PROVE  QuietInv'
<1>0. TypeOK
  BY DEF RecordInv
<1>1. \A o \in Requests : pc[o] \notin Live
  BY DEF Begin, Undisturbed
<1>2. pc[r] = "idle" /\ UNCHANGED <<leg, row, child, inst, effect, disk, comfy, pidFile>>
  BY DEF Begin, host, procs
<1>3. /\ \A o \in Requests : o # r => pc'[o] = pc[o]
      /\ req'[r] = q /\ pc'[r] = IF q.kind = "install" THEN "status" ELSE "record"
  BY <1>0 DEF Begin, Goto, TypeOK
<1>4. ~Installing(r)' /\ ~Pending(r)' /\ ~Pending(r)
  BY <1>2, <1>3 DEF Installing, Pending
<1>5. /\ \A l \in Legs : child[<<r, l>>].st \notin AtWork
      /\ ProcInv
      /\ inst.resolved_commit # NoCommit =>
           disk = [ref |-> inst.comfy_ref, commit |-> inst.resolved_commit]
  BY <1>1, <1>2, <1>4, OnlyFacts
<1>6. ProcInv'
  <2>1. \A i \in Runs : child'[i] = child[i]
    BY <1>2
  <2>2. UNCHANGED <<comfy, pidFile, effect>>
    BY <1>2
  <2> QED BY <1>5, <2>1, <2>2, ProcKeeps
<1> QED BY <1>0, <1>1, <1>2, <1>3, <1>4, <1>5, <1>6, OnlyMover

\* The handler of a request goes on.
LEMMA HandleInTurn ==
  ASSUME RecordInv, SpawnInv, QuietInv, NEW r \in Requests, Handle(r)
  PROVE  QuietInv'
<1>0. TypeOK /\ RunsInv /\ RequestsInv /\ leg[r] \in Legs
  BY DEF RecordInv, TypeOK
<1>1. pc[r] \in Live /\ UNCHANGED <<req, ref, effect, disk, comfy, pidFile>>
  BY DEF Handle, StatusCheck, RecordRun, Spawn, Receive, ApplyInstall, ApplyStart, ApplyStop, Live,
     host, procs
<1>2. PICK next : Goto(r, next)
  BY DEF Handle, StatusCheck, RecordRun, Spawn, Receive, ApplyInstall, ApplyStart, ApplyStop, End
<1>3. pc'[r] = next /\ \A o \in Requests : o # r => pc'[o] = pc[o] /\ pc[o] \notin Live
  BY <1>0, <1>1, <1>2 DEF Goto, TypeOK, QuietInv, OneAtATime
<1>4. /\ \A l \in Legs : child[<<r, l>>].st \in AtWork => pc[r] = "await" /\ leg[r] = l
      /\ ProcInv
      /\ Installing(r) => NoneRuns
      /\ Pending(r) => disk = effect[<<r, "main">>].version
      /\ inst.resolved_commit # NoCommit /\ ~Pending(r) =>
           disk = [ref |-> inst.comfy_ref, commit |-> inst.resolved_commit]
  BY <1>3, OnlyFacts
<1>p. ASSUME UNCHANGED child PROVE ProcInv'
  <2>1. \A i \in Runs : child'[i] = child[i]
    BY <1>p
  <2>2. UNCHANGED <<comfy, pidFile, effect>>
    BY <1>1
  <2> QED BY <1>4, <2>1, <2>2, ProcKeeps
<1>5. CASE StatusCheck(r) \/ RecordRun(r)
  <2>1. UNCHANGED <<leg, child, inst>> /\ pc[r] \in {"status", "record"}
    BY <1>5 DEF StatusCheck, RecordRun
  <2>2. pc'[r] \in {"record", "spawn", "refused"}
    BY <1>0, <1>5 DEF StatusCheck, RecordRun, End, Goto, TypeOK
  <2>3. pc[r] = "status" /\ pc'[r] = "record" => NoneRuns
    <3> SUFFICES ASSUME pc[r] = "status", pc'[r] = "record", NEW i \in Runs, comfy[i].st # "none"
                 PROVE  FALSE
      BY DEF NoneRuns
    <3>1. ~process_alive
      BY <1>0, <1>5 DEF StatusCheck, RecordRun, End, Goto, TypeOK
    <3>2. child[i].st # "polling"
      <4>1. ASSUME child[i].st = "polling" PROVE pc[i[1]] = "await" /\ i[1] \in Requests
        BY <4>1 DEF QuietInv, Attended, AtWork, Runs
      <4> QED BY <1>3, <4>1 DEF Live
    <3>3. pidFile = i /\ comfy[i].home
      BY <1>0, <1>4, <3>2 DEF ProcInv, NothingLost, TypeOK, Comfy
    <3> QED BY <3>1, <3>3, ConstantsAssumption DEF process_alive, Owned
  <2>4. pc[r] = "status" => pc'[r] \in {"record", "refused"}
    BY <1>0, <1>5 DEF StatusCheck, RecordRun, End, Goto, TypeOK
  <2>5. Installing(r)' => NoneRuns'
    BY <1>1, <1>4, <2>1, <2>2, <2>3, <2>4 DEF Installing, NoneRuns
  <2>6. ~Pending(r)' /\ ~Pending(r)
    BY <2>1, <2>2 DEF Pending
  <2>7. \A l \in Legs : child[<<r, l>>].st \notin AtWork
    BY <1>4, <2>1
  <2> QED BY <1>0, <1>1, <1>3, <1>4, <1>p, <2>1, <2>5, <2>6, <2>7, OnlyMover
<1>6. CASE Spawn(r)
  <2>1. /\ UNCHANGED <<leg, inst>> /\ pc[r] = "spawn"
        /\ child' = [child EXCEPT ![<<r, leg[r]>>] = [st |-> "running", out |-> "none"]]
    BY <1>6 DEF Spawn, Run
  <2>2. pc'[r] = "await"
    BY <1>0, <1>6 DEF Spawn, Goto, TypeOK
  <2>3. <<r, leg[r]>> \in Runs /\ \A i \in Runs : i # <<r, leg[r]>> => child'[i] = child[i]
    BY <1>0, <2>1 DEF TypeOK, Runs
  <2>4. \A i \in Runs : i[1] # r => child'[i] = child[i]
    BY <2>3
  <2>5. \A l \in Legs : child'[<<r, l>>].st \in AtWork => l = leg[r]
    <3> SUFFICES ASSUME NEW l \in Legs, l # leg[r] PROVE child'[<<r, l>>].st \notin AtWork
      OBVIOUS
    <3>1. <<r, l>> \in Runs /\ <<r, l>> # <<r, leg[r]>>
      BY DEF Runs
    <3>2. child'[<<r, l>>] = child[<<r, l>>]
      BY <2>3, <3>1
    <3> QED BY <1>4, <2>1, <3>2
  <2>6. Installing(r)' => NoneRuns'
    BY <1>1, <1>4, <2>1 DEF Installing, NoneRuns
  <2>7. ~Pending(r)
    BY <2>1 DEF Pending
  <2>8. ~Pending(r)'
    <3>1. leg[r] = "main" => child'[<<r, "main">>].out = "none"
      BY <1>0, <2>1, <2>3 DEF TypeOK
    <3> QED BY <2>1, <3>1 DEF Pending
  <2>9. ProcInv'
    <3>1. child[<<r, leg[r]>>].st = "none"
      BY <2>1 DEF SpawnInv, Unspawned
    <3>2. child'[<<r, leg[r]>>].st = "running" /\ child'[<<r, leg[r]>>].out = "none"
      BY <1>0, <2>1, <2>3 DEF TypeOK
    <3>3. \A i \in Runs :
            \/ child'[i] = child[i]
            \/ child[i].st = "none" /\ child'[i].st = "running" /\ child'[i].out = "none"
      BY <2>3, <3>1, <3>2
    <3>4. UNCHANGED <<comfy, pidFile, effect>>
      BY <1>1
    <3> QED BY <1>4, <3>3, <3>4, ProcKeeps
  <2> QED BY <1>0, <1>1, <1>3, <1>4, <2>1, <2>2, <2>4, <2>5, <2>6, <2>7, <2>8, <2>9, OnlyMover
<1>7. CASE Receive(r)
  <2>1. UNCHANGED <<leg, child, inst>> /\ pc[r] = "await" /\ child[<<r, leg[r]>>].st = "exited"
    BY <1>7 DEF Receive, Run
  <2>2. pc'[r] = "refused" \/ (pc'[r] = "apply" /\ child[<<r, leg[r]>>].out = "ok")
    BY <1>0, <1>7 DEF Receive, Run, End, Goto, TypeOK
  <2>3. pc'[r] = "refused" => child[<<r, leg[r]>>].out # "ok"
    BY <1>0, <1>7 DEF Receive, Run, End, Goto, TypeOK
  <2>4. Pending(r)' <=> Pending(r)
    BY <1>1, <2>1, <2>2, <2>3 DEF Pending
  <2>5. Installing(r)' => NoneRuns'
    BY <1>1, <1>4, <2>1 DEF Installing, NoneRuns
  <2>6. \A l \in Legs : child[<<r, l>>].st \notin AtWork
    BY <1>4, <2>1 DEF AtWork, Legs
  <2> QED BY <1>0, <1>1, <1>3, <1>4, <1>p, <2>1, <2>4, <2>5, <2>6, OnlyMover
<1>8. CASE ApplyInstall(r)
  <2>1. UNCHANGED child /\ pc[r] = "apply" /\ leg[r] = "main" /\ req[r].kind = "install"
    BY <1>0, <1>8, RunFacts DEF ApplyInstall, Command, TypeOK, Legs
  <2>2. pc'[r] = "answered" \/ (pc'[r] = "record" /\ leg'[r] = "restart")
    BY <1>0, <1>8 DEF ApplyInstall, End, Goto, TypeOK
  <2>3. PICK i \in Runs : i = <<r, "main">> /\ i = Run(r) /\ i[1] = r /\ Command(i) = "install"
    BY <1>0, <1>8, <2>1, RunFacts DEF Run, ApplyInstall, TypeOK
  <2>4. row[i].phase = "completed" /\ child[i].out = "ok"
    <3>1. row[Run(r)].phase = "completed"
      BY <1>0, <2>1 DEF RequestsInv
    <3> QED BY <1>0, <2>3, <3>1 DEF RunsInv
  <2>5. effect[i].version \in Version /\ effect[i].version.ref = ref[r]
    BY <1>0, <2>3, <2>4 DEF RunsInv
  <2>6. disk = effect[i].version
    BY <1>4, <2>1, <2>3, <2>4 DEF Pending
  <2>7. inst'.comfy_ref = ref[r] /\ inst'.resolved_commit = effect[i].version.commit
    BY <1>0, <1>8, <2>3 DEF ApplyInstall, TypeOK
  <2>8. disk = [ref |-> inst'.comfy_ref, commit |-> inst'.resolved_commit]
    BY <2>5, <2>6, <2>7 DEF Version
  <2>9. ~Pending(r)' /\ ~Installing(r)'
    BY <2>2 DEF Pending, Installing
  <2>10. \A l \in Legs : child[<<r, l>>].st \notin AtWork
    BY <1>4, <2>1
  <2> QED BY <1>0, <1>1, <1>3, <1>4, <1>p, <2>1, <2>8, <2>9, <2>10, OnlyMover
<1>9. CASE ApplyStart(r) \/ ApplyStop(r)
  <2>1. UNCHANGED <<leg, child>> /\ pc[r] = "apply" /\ Command(Run(r)) \in {"start", "stop"}
    BY <1>9 DEF ApplyStart, ApplyStop
  <2>2. ~Pending(r)
    <3>1. ASSUME leg[r] = "main", req[r].kind = "install" PROVE FALSE
      BY <1>0, <2>1, <3>1, RunFacts DEF Command, TypeOK
    <3> QED BY <3>1 DEF Pending
  <2>3. pc'[r] = "answered"
    BY <1>0, <1>9 DEF ApplyStart, ApplyStop, End, Goto, TypeOK
  <2>4. ~Pending(r)' /\ ~Installing(r)'
    BY <2>3 DEF Pending, Installing
  <2>5. inst'.comfy_ref = inst.comfy_ref /\ inst'.resolved_commit = inst.resolved_commit
    BY <1>0, <1>9 DEF ApplyStart, ApplyStop, TypeOK
  <2>6. \A l \in Legs : child[<<r, l>>].st \notin AtWork
    BY <1>4, <2>1
  <2> QED BY <1>0, <1>1, <1>3, <1>4, <1>p, <2>1, <2>2, <2>4, <2>5, <2>6, OnlyMover
<1> QED BY <1>5, <1>6, <1>7, <1>8, <1>9 DEF Handle

\* What a child does to the processes in turn.
LEMMA ProcInTurn ==
  ASSUME TypeOK, RunsInv, QuietInv, Undisturbed', NEW i \in Runs, ChildStep(i),
         \A j \in Runs : j # i => child[j].st \notin AtWork,
         Command(i) = "install" => NoneRuns
  PROVE  ProcInv' /\ (Command(i) = "install" => NoneRuns')
<1>0. ProcInv
  BY DEF QuietInv
<1>1. \A j \in Runs : j # i => child'[j] = child[j]
  BY ChildKeeps DEF TypeOK
<1>2. \A j \in Runs : j # i => ~Starting(j) /\ child[j].st # "polling" /\ comfy[j].st # "booting"
  BY <1>0 DEF ProcInv, Starting, AtWork
<1>3. CASE ChildInstall(i)
  <2>1. NoneRuns /\ UNCHANGED pidFile /\ \A j \in Runs : comfy'[j] = comfy[j]
    BY <1>3 DEF ChildInstall, Moved, NoneRuns, TypeOK
  <2>2. child'[i].st = "exited" /\ effect'[i].did = "installed"
    BY <1>3 DEF ChildInstall, Succeeds, Exits, Does, TypeOK
  <2>3. \A j \in Runs : j # i => effect'[j] = effect[j]
    BY <1>3 DEF ChildInstall, Does, TypeOK
  <2> QED BY <1>0, <1>1, <1>2, <2>1, <2>2, <2>3 DEF ProcInv, NothingLost, NoneRuns, Starting
<1>4. CASE ChildChecks(i)
  <2>1. UNCHANGED <<comfy, pidFile, effect>> /\ ~port_open /\ child[i].st = "running"
    BY <1>4 DEF ChildChecks, host, procs
  <2>2. child'[i].st = "checked" /\ child'[i].out = child[i].out
    BY <1>4 DEF ChildChecks, TypeOK, Child
  <2>3. \A j \in Runs : comfy[j].st = "none"
    BY <1>0, <1>2, <2>1 DEF port_open, ProcInv, TypeOK, Comfy
  <2>4. Command(i) # "install"
    BY <1>4 DEF ChildChecks
  <2> QED BY <1>0, <1>1, <1>2, <2>1, <2>2, <2>3, <2>4 DEF ProcInv, NothingLost, Starting
<1>5. CASE ChildSpawns(i)
  <2>1. UNCHANGED <<pidFile, effect>> /\ child[i].st = "checked" /\ Command(i) # "install"
    BY <1>5 DEF ChildSpawns
  <2>2. child'[i].st = "polling" /\ child'[i].out = child[i].out
    BY <1>5 DEF ChildSpawns, TypeOK, Child
  <2>3. comfy'[i].st = "booting" /\ comfy'[i].home /\ \A j \in Runs : j # i => comfy'[j] = comfy[j]
    BY <1>5 DEF ChildSpawns, TypeOK
  <2> QED BY <1>0, <1>1, <1>2, <2>1, <2>2, <2>3 DEF ProcInv, NothingLost, Starting
<1>6. CASE ChildStart(i)
  <2>1. UNCHANGED comfy /\ pidFile' = i /\ child[i].st = "polling" /\ Command(i) # "install"
    BY <1>6 DEF ChildStart
  <2>2. child'[i].st = "exited" /\ \A j \in Runs : j # i => effect'[j] = effect[j]
    BY <1>6 DEF ChildStart, Succeeds, Exits, Does, TypeOK
  <2>3. ~other
    BY ChildKeeps DEF Undisturbed
  <2>4. comfy[i].st = "listening"
    BY <1>0, <1>6, <2>1, <2>3 DEF ChildStart, port_open, ProcInv, Starting
  <2>5. effect'[i].did = "started"
    BY <1>6, <2>4 DEF ChildStart, Does, TypeOK
  <2>6. \A j \in Runs : j # i => comfy[j].st = "none"
    BY <1>0, <2>1 DEF ProcInv, Starting
  <2> QED BY <1>0, <1>1, <1>2, <2>1, <2>2, <2>4, <2>5, <2>6 DEF ProcInv, NothingLost, Starting
<1>7. CASE ChildStop(i)
  <2>1. child[i].st = "running" /\ Command(i) # "install"
    BY <1>7 DEF ChildStop
  <2>2. child'[i].st = "exited" /\ effect'[i].did = "stopped"
    BY <1>7 DEF ChildStop, Succeeds, Exits, Does, TypeOK
  <2>3. \A j \in Runs : j # i => effect'[j] = effect[j]
    BY <1>7 DEF ChildStop, Does, TypeOK
  <2>4. \A j \in Runs : comfy[j].st # "none" => pidFile = j
    BY <1>0, <1>2, <2>1 DEF ProcInv, TypeOK, Comfy
  <2>5. \A j \in Runs : comfy'[j].st = "none"
    <3>1. CASE pidFile = NoRun /\ UNCHANGED comfy
      BY <2>4, <3>1, ConstantsAssumption
    <3>2. CASE pidFile # NoRun /\ comfy' = [comfy EXCEPT ![pidFile] = NoProcess]
      BY <2>4, <3>2 DEF TypeOK, NoProcess
    <3> QED BY <1>7, <3>1, <3>2 DEF ChildStop
  <2> QED BY <1>0, <1>1, <1>2, <2>1, <2>2, <2>3, <2>5 DEF ProcInv, NothingLost, Starting
<1>8. CASE ChildFails(i)
  <2>1. Exits(i, "error") /\ Refused(i) /\ UNCHANGED pidFile
    <3>1. child'[i].out # "garbled"
      BY DEF Undisturbed
    <3>2. ~Exits(i, "garbled")
      BY <3>1 DEF Exits, TypeOK
    <3> QED BY <1>8, <3>2 DEF ChildFails
  <2>2. child'[i].st = "exited" /\ child'[i].out = "error"
    BY <2>1 DEF Exits, TypeOK
  <2>3. CASE child[i].st = "polling"
    <3>1. comfy' = [comfy EXCEPT ![i] = NoProcess] /\ UNCHANGED effect
      <4>1. effect'[i].did # "left"
        BY DEF Undisturbed
      <4>2. ~Does(i, "left", NoVersion)
        BY <4>1 DEF Does, TypeOK
      <4> QED BY <2>1, <2>3, <4>2 DEF Refused
    <3>2. \A j \in Runs : comfy'[j].st = "none"
      BY <1>0, <2>3, <3>1 DEF ProcInv, Starting, TypeOK, NoProcess
    <3> QED BY <1>0, <1>1, <1>2, <2>1, <2>2, <3>1, <3>2 DEF ProcInv, NothingLost, Starting, NoneRuns
  <2>4. CASE child[i].st # "polling"
    <3>1. UNCHANGED <<comfy, effect>>
      BY <2>1, <2>4 DEF Refused
    <3> QED BY <1>0, <1>1, <1>2, <2>1, <2>2, <2>4, <3>1 DEF ProcInv, NothingLost, Starting, NoneRuns
  <2> QED BY <2>3, <2>4
<1> QED BY <1>3, <1>4, <1>5, <1>6, <1>7, <1>8 DEF ChildStep

\* A child goes on.
LEMMA ChildInTurn ==
  ASSUME RecordInv, SpawnInv, QuietInv, Undisturbed', NEW i \in Runs, ChildStep(i)
  PROVE  QuietInv'
<1>0. TypeOK /\ RunsInv
  BY DEF RecordInv
<1>1. PICK r \in Requests, k \in Legs : i = <<r, k>> /\ i[1] = r /\ i[2] = k
  BY DEF Runs
<1>2. child[i].st \in AtWork /\ UNCHANGED <<pc, req, leg, ref, inst>>
  BY ChildKeeps DEF request
<1>3. pc[r] = "await" /\ leg[r] = k
  BY <1>1, <1>2 DEF QuietInv, Attended
<1>4. \A o \in Requests : o # r => pc[o] \notin Live
  BY <1>3 DEF QuietInv, OneAtATime, Live
<1>5. /\ \A l \in Legs : child[<<r, l>>].st \in AtWork => l = k
      /\ Installing(r) => NoneRuns
      /\ inst.resolved_commit # NoCommit /\ ~Pending(r) =>
           disk = [ref |-> inst.comfy_ref, commit |-> inst.resolved_commit]
  BY <1>3, <1>4, OnlyFacts
<1>6. child[i].out = "none" /\ ~Pending(r)
  BY <1>1, <1>2, <1>3 DEF SpawnInv, Pending, AtWork
<1>7. \A j \in Runs : j # i => child'[j] = child[j] /\ child[j].st \notin AtWork
  <2> SUFFICES ASSUME NEW j \in Runs, j # i PROVE child'[j] = child[j] /\ child[j].st \notin AtWork
    OBVIOUS
  <2>1. child'[j] = child[j]
    BY <1>0, ChildKeeps DEF TypeOK
  <2>2. j[1] \in Requests /\ j[2] \in Legs /\ j = <<j[1], j[2]>>
    BY DEF Runs
  <2>3. ASSUME child[j].st \in AtWork PROVE FALSE
    <3>1. pc[j[1]] = "await" /\ leg[j[1]] = j[2]
      BY <2>3 DEF QuietInv, Attended
    <3>2. j[1] = r
      BY <1>4, <2>2, <3>1 DEF Live
    <3> QED BY <1>1, <1>3, <2>2, <3>1, <3>2
  <2> QED BY <2>1, <2>3
<1>8. Command(i) = IF k = "restart" THEN "start" ELSE req[r].kind
  BY <1>1 DEF Command
<1>9. Installing(r) <=> Command(i) = "install"
  BY <1>3, <1>8 DEF Installing, Legs
<1>10. Installing(r)' <=> Installing(r)
  BY <1>2 DEF Installing
<1>11. ProcInv' /\ (Installing(r)' => NoneRuns')
  BY <1>0, <1>5, <1>7, <1>9, <1>10, ProcInTurn
<1>12. \A j \in Runs : j[1] # r => child'[j] = child[j]
  BY <1>1, <1>7
<1>13. \A l \in Legs : child'[<<r, l>>].st \in AtWork => pc'[r] = "await" /\ leg'[r] = l
  <2> SUFFICES ASSUME NEW l \in Legs, l # k PROVE child'[<<r, l>>].st \notin AtWork
    BY <1>2, <1>3
  <2>1. <<r, l>> \in Runs /\ <<r, l>> # i
    BY <1>1 DEF Runs
  <2> QED BY <1>7, <2>1
<1>14. Pending(r)' => k = "main" /\ Command(i) = "install" /\ child'[i].out = "ok"
  BY <1>1, <1>2, <1>3, <1>8 DEF Pending
<1>15. CASE ChildInstall(i)
  <2>1. k = "main" /\ req[r].kind = "install"
    BY <1>8, <1>15 DEF ChildInstall, Legs
  <2>2. disk' = effect'[i].version
    BY <1>0, <1>15 DEF ChildInstall, Does, TypeOK
  <2>3. child'[i].out = "ok"
    <3>1. child'[i].out # "garbled"
      BY DEF Undisturbed
    <3> QED BY <1>0, <1>15, <3>1 DEF ChildInstall, Succeeds, Exits, TypeOK
  <2>4. Pending(r)'
    BY <1>1, <1>2, <1>3, <2>1, <2>3 DEF Pending
  <2> QED BY <1>0, <1>1, <1>2, <1>4, <1>11, <1>12, <1>13, <2>1, <2>2, <2>4, OnlyMover
<1>16. CASE ~ChildInstall(i)
  <2>1. ~Pending(r)'
    <3>1. ASSUME Command(i) = "install" PROVE child'[i].out # "ok"
      <4>1. ChildFails(i)
        BY <1>16, <3>1 DEF ChildStep, ChildChecks, ChildSpawns, ChildStart, ChildStop
      <4> QED BY <1>0, <4>1 DEF ChildFails, Exits, TypeOK
    <3> QED BY <1>14, <3>1
  <2>2. UNCHANGED disk
    <3>1. child'[i].out # "garbled"
      BY DEF Undisturbed
    <3>2. ~Exits(i, "garbled")
      BY <1>0, <3>1 DEF Exits, TypeOK
    <3> QED BY <1>16, <3>2 DEF ChildStep, ChildChecks, ChildSpawns, ChildStart, ChildStop, ChildFails,
               host
  <2> QED BY <1>0, <1>2, <1>4, <1>5, <1>6, <1>11, <1>12, <1>13, <2>1, <2>2, OnlyMover
<1> QED BY <1>15, <1>16

\* Every step preserves the invariant.
LEMMA TurnStep ==
  ASSUME RecordInv, TurnInv, [Next]_vars
  PROVE  TurnInv'
<1>0. TypeOK /\ SpawnInv /\ SpawnInv'
  BY SpawnStep DEF RecordInv, TurnInv
<1> SUFFICES ASSUME Undisturbed' PROVE QuietInv'
  BY <1>0 DEF TurnInv
<1>1. QuietInv
  BY <1>0, DisturbedStays DEF TurnInv
<1>2. ASSUME NEW r \in Requests, NEW q \in Request, Begin(r, q) PROVE QuietInv'
  BY <1>1, <1>2, BeginInTurn
<1>3. ASSUME NEW r \in Requests, Handle(r) PROVE QuietInv'
  BY <1>0, <1>1, <1>3, HandleInTurn
<1>4. ASSUME NEW r \in Requests, Breaks(r) PROVE QuietInv'
  <2>1. pc'[r] = "broken"
    BY <1>0, <1>4 DEF Breaks, End, Goto, TypeOK
  <2> QED BY <2>1 DEF Undisturbed
<1>5. CASE ApiCrash
  <2>1. PICK r \in Requests : pc[r] \in Live
    BY <1>5 DEF ApiCrash
  <2>2. pc'[r] = "lost"
    BY <1>5, <2>1 DEF ApiCrash
  <2> QED BY <2>2 DEF Undisturbed
<1>6. ASSUME NEW i \in Runs, ChildStep(i) PROVE QuietInv'
  BY <1>0, <1>1, <1>6, ChildInTurn
<1>7. CASE HostStep
  <2>1. UNCHANGED <<pc, req, leg, child, inst, effect, disk, pidFile>>
    BY <1>7, HostKeeps DEF request
  <2>2. PICK i \in Runs : ProcListens(i) \/ ProcExits(i)
    BY <1>7 DEF HostStep, OtherListens, Undisturbed
  <2>3. /\ \A k \in Runs : k # i => comfy'[k] = comfy[k]
        /\ comfy[i].st # "none"
        /\ \/ comfy[i].st = "booting" /\ comfy'[i].st = "listening" /\ comfy'[i].home = comfy[i].home
           \/ comfy'[i].st = "none"
    BY <1>0, <2>2 DEF ProcListens, ProcExits, Becomes, NoProcess, TypeOK, Comfy
  <2>4. ProcInv'
    <3>1. ProcInv
      BY <1>1 DEF QuietInv
    <3>2. CASE comfy'[i].st = "none"
      BY <2>1, <2>3, <3>1, <3>2 DEF ProcInv, NothingLost, Starting
    <3>3. CASE /\ comfy[i].st = "booting" /\ comfy'[i].st = "listening"
               /\ comfy'[i].home = comfy[i].home
      <4>1. child[i].st = "polling" /\ comfy'[i].home
        BY <3>1, <3>3 DEF ProcInv, NothingLost
      <4>2. \A k \in Runs : k # i => ~Starting(k)
        BY <3>1, <3>3 DEF ProcInv
      <4> QED BY <2>1, <2>3, <3>1, <3>3, <4>1, <4>2 DEF ProcInv, NothingLost, Starting
    <3> QED BY <2>3, <3>2, <3>3
  <2>5. \A r \in Requests : ~Installing(r)
    BY <1>1, <2>3 DEF QuietInv, NoneRuns
  <2> QED BY <1>1, <2>1, <2>4, <2>5 DEF QuietInv, OneAtATime, Attended, DiskInv, Pending, Installing
<1>8. CASE UNCHANGED vars
  <2>1. UNCHANGED <<pc, req, leg, child, inst, effect, disk, comfy, pidFile>>
    BY <1>8 DEF vars, request, host, procs
  <2>2. ProcInv'
    BY <1>1, <2>1, ProcKeeps DEF QuietInv
  <2> QED BY <1>1, <2>1, <2>2 DEF QuietInv, OneAtATime, Attended, DiskInv, Pending, Installing, NoneRuns
<1> QED BY <1>2, <1>3, <1>4, <1>5, <1>6, <1>7, <1>8 DEF Next

\* The invariant holds in every reachable state.
LEMMA TurnInvariant == Spec => []TurnInv
<1>1. RecordInv /\ TurnInv /\ [Next]_vars => TurnInv'
  BY TurnStep
<1> QED BY <1>1, TurnInit, RecordInvariant, PTL DEF Spec

\* A run recorded as completed has had its effect; and as long as nothing disturbs
\* the requests, the process a completed start recorded is the one it saw listen
\* (_finish_run, command_instance_start).
THEOREM CompletedRunsAreReal == Spec => []CompletedIsReal
<1>1. RecordInv /\ TurnInv => CompletedIsReal
  <2> SUFFICES ASSUME RecordInv, TurnInv, NEW i \in Runs, row[i].phase = "completed"
               PROVE  /\ effect[i].did \in Did(Command(i))
                      /\ Undisturbed => effect[i].did # "answered"
    BY DEF CompletedIsReal
  <2>1. child[i].out = "ok" /\ effect[i].did \in Did(Command(i))
    BY DEF RecordInv, RunsInv
  <2> QED BY <2>1 DEF TurnInv, QuietInv, ProcInv
<1> QED BY <1>1, RecordInvariant, TurnInvariant, PTL

\* As long as requests wait for one another and nothing is killed or breaks, the
\* instances row names what is on disk whenever no request is under way
\* (install_instance, update_install_result).
THEOREM RecordNamesTheDisk == Spec => []RecordMatchesDisk
<1>1. TurnInv => RecordMatchesDisk
  <2> SUFFICES ASSUME TurnInv, Undisturbed, \A r \in Requests : pc[r] \notin Live,
                      inst.resolved_commit # NoCommit
               PROVE  disk = [ref |-> inst.comfy_ref, commit |-> inst.resolved_commit]
    BY DEF RecordMatchesDisk
  <2>1. \A r \in Requests : ~Pending(r)
    BY DEF Pending, Live
  <2> QED BY <2>1 DEF TurnInv, QuietInv, DiskInv
<1> QED BY <1>1, TurnInvariant, PTL

\* Nor does an install then replace the version a ComfyUI runs from: the status
\* it has asked for is still true when its child promotes (install_instance).
THEOREM NothingIsLostInTurn == Spec => []NothingLostInTurn
<1>1. TurnInv => NothingLostInTurn
  BY DEF TurnInv, QuietInv, ProcInv, NothingLostInTurn
<1> QED BY <1>1, TurnInvariant, PTL

=============================================================================
