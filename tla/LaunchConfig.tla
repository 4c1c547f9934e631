---------------------------- MODULE LaunchConfig ----------------------------
(***************************************************************************)
(* The launch configuration of one instance: PATCH launch-config           *)
(* (ComfyService.update_instance_launch_config) against itself and against *)
(* the starts that read the configuration (_instance_context).             *)
(*                                                                         *)
(* The configuration is the instances row (port, GPUs, primary model root) *)
(* and the instance_model_roots rows bound to it.  PostgreSQL runs each    *)
(* transaction at READ COMMITTED, its default, which app/db/database.py    *)
(* does not change: every statement sees what was committed when it began, *)
(* and waits for the transaction that wrote a row it wants to write.       *)
(***************************************************************************)
EXTENDS FiniteSets

CONSTANTS
  Patches, Starts,  \* the requests, each is sent at most once
  Ports, Gpus,      \* values of the two scalar fields
  Roots,            \* model roots in the database
  Hosted,           \* the ones of the instance's host
  Absent,           \* the request does not name the field
  Null,             \* SQL NULL
  Nobody,           \* no transaction
  Serial            \* TRUE: clients wait for an answer before the next request

ASSUME ConstantsAssumption ==
  /\ Patches \cap Starts = {} /\ Nobody \notin Patches
  /\ Hosted \subseteq Roots
  /\ Absent \notin Ports \cup Gpus \cup Roots \cup {Null}
  /\ \A roots \in SUBSET Roots : roots # Absent
  /\ Null \notin Roots
  /\ Serial \in BOOLEAN

Requests == Patches \cup Starts

VARIABLES
  pc,      \* pc[r]: the statement or await request r is at
  patch,   \* patch[p]: the fields the request names
  snap,    \* snap[r]: the instances row as read
  snapRoots, \* snapRoots[r]: the bound model roots as read
  res,     \* res[r]: the outcome it answers
  row,     \* the committed instances row
  bound,   \* the committed instance_model_roots rows
  lock,    \* the transaction that has updated the instances row
  view,    \* view[p]: the bindings the DELETE of p sees
  dels,    \* dels[p]: the bindings the transaction of p has deleted
  running, \* the configuration ComfyUI runs with, Null when it does not run
  last     \* the transaction committed last

req  == <<patch, snap, snapRoots>>
tx   == <<lock, view, dels>>
vars == <<pc, req, res, row, bound, tx, running, last>>

-----------------------------------------------------------------------------
(* Types                                                                     *)

Row    == [port : Ports, gpu : Gpus, primary : Roots \cup {Null}]
Patch  == [port : Ports \cup {Absent}, gpu : Gpus \cup {Absent},
           roots : {Absent} \cup SUBSET Roots, primary : Roots \cup {Null, Absent}]
Config == [port : Ports, gpu : Gpus, roots : SUBSET Roots]

Live  == {"roots", "status", "merge", "check", "update", "delete", "deleting", "commit", "launch"}
Ended == {"done", "refused"}

TypeOK ==
  /\ pc \in [Requests -> {"idle"} \cup Live \cup Ended]
  /\ patch \in [Patches -> Patch]
  /\ snap \in [Requests -> Row]
  /\ snapRoots \in [Requests -> SUBSET Roots]
  /\ res \in [Requests -> {"none", "ok", "REQUEST_INVALID", "INSTANCE_RUNNING",
                           "MODEL_ROOT_NOT_FOUND", "INTERNAL_ERROR", "PORT_IN_USE"}]
  /\ row \in Row
  /\ bound \subseteq Hosted
  /\ lock \in Patches \cup {Nobody}
  /\ view \in [Patches -> SUBSET Roots] /\ dels \in [Patches -> SUBSET Roots]
  /\ running = Null \/ running \in Config
  /\ last \in Patches \cup {Nobody}

\* create_instance binds roots of the host, if there are any, and makes one of
\* them primary.
Init ==
  /\ pc = [r \in Requests |-> "idle"]
  /\ bound \in SUBSET Hosted
  /\ \E port \in Ports, gpu \in Gpus, m \in bound \cup {Null} :
       /\ m = Null <=> bound = {}
       /\ row = [port |-> port, gpu |-> gpu, primary |-> m]
  /\ patch = [p \in Patches |-> [port |-> Absent, gpu |-> Absent, roots |-> Absent, primary |-> Absent]]
  /\ snap = [r \in Requests |-> row]
  /\ snapRoots = [r \in Requests |-> {}]
  /\ res = [r \in Requests |-> "none"]
  /\ lock = Nobody
  /\ view = [p \in Patches |-> {}] /\ dels = [p \in Patches |-> {}]
  /\ running = Null
  /\ last = Nobody

-----------------------------------------------------------------------------
(* Steps shared by the requests                                              *)

MayBegin(r) == pc[r] = "idle" /\ (Serial => \A o \in Requests : pc[o] \notin Live)

Goto(r, next) == pc' = [pc EXCEPT ![r] = next]
End(r, next, outcome) == Goto(r, next) /\ res' = [res EXCEPT ![r] = outcome]

\* _instance_context reads the instances row and then, in a statement of its
\* own, the bindings.
ReadRow(r) == snap' = [snap EXCEPT ![r] = row]

ReadRoots(r) ==
  /\ pc[r] = "roots"
  /\ snapRoots' = [snapRoots EXCEPT ![r] = bound]
  /\ Goto(r, IF r \in Patches THEN "status" ELSE "launch")
  /\ UNCHANGED <<patch, snap, res, row, bound, tx, running, last>>

-----------------------------------------------------------------------------
(* update_instance_launch_config                                             *)

\* A request has to name a field, and none but the primary root may be null.
Begin(p, named, null) ==
  /\ MayBegin(p)
  /\ IF null \/ \A f \in DOMAIN named : named[f] = Absent
     THEN End(p, "refused", "REQUEST_INVALID") /\ UNCHANGED <<patch, snap>>
     ELSE /\ patch' = [patch EXCEPT ![p] = named]
          /\ ReadRow(p) /\ Goto(p, "roots") /\ UNCHANGED res
  /\ UNCHANGED <<snapRoots, row, bound, tx, running, last>>

\* A mutant of StatusCheck: a running instance is not refused.
StatusCheckIgnored(p) ==
  /\ pc[p] = "status"
  /\ Goto(p, "merge") /\ UNCHANGED res
  /\ UNCHANGED <<req, row, bound, tx, running, last>>

\* comfyctl reports whether the instance is running.
StatusCheck(p) ==
  /\ pc[p] = "status"
  /\ \/ running # Null /\ End(p, "refused", "INSTANCE_RUNNING")
     \/ running = Null /\ Goto(p, "merge") /\ UNCHANGED res
  /\ UNCHANGED <<req, row, bound, tx, running, last>>

\* A field the request does not name keeps the value that was read.
Or(field, current) == IF field = Absent THEN current ELSE field

FinalRoots(p) == Or(patch[p].roots, snapRoots[p])

\* A mutant of FinalPrimaries: the fallback is taken although the primary root is
\* still bound, and the order of the bindings is not stable.
FinalPrimariesFirst(p) ==
  IF patch[p].primary # Absent THEN {patch[p].primary}
  ELSE IF FinalRoots(p) = {} THEN {Null} ELSE FinalRoots(p)

\* The primary root: what the request names, else the one that was read, else,
\* when the new bindings do not include that, the first of them in the order
\* they were sent or read, which is any.
FinalPrimaries(p) ==
  CASE patch[p].primary # Absent -> {patch[p].primary}
    [] patch[p].primary = Absent /\ snap[p].primary \in FinalRoots(p) \cup {Null} -> {snap[p].primary}
    [] OTHER -> IF FinalRoots(p) = {} THEN {Null} ELSE FinalRoots(p)

\* A mutant of Merge: the primary root is not looked up in the bindings.
MergeUnchecked(p) ==
  /\ pc[p] = "merge"
  /\ \E primary \in FinalPrimaries(p) :
       snap' = [snap EXCEPT ![p] = [port |-> Or(patch[p].port, @.port),
                                    gpu |-> Or(patch[p].gpu, @.gpu), primary |-> primary]]
  /\ snapRoots' = [snapRoots EXCEPT ![p] = FinalRoots(p)]
  /\ Goto(p, "check")
  /\ UNCHANGED <<patch, res, row, bound, tx, running, last>>

\* The row the request will write is in snap from here on.
Merge(p) ==
  /\ pc[p] = "merge"
  /\ \E primary \in FinalPrimaries(p) :
       \/ /\ primary \in FinalRoots(p) \cup {Null}
          /\ snap' = [snap EXCEPT ![p] = [port |-> Or(patch[p].port, @.port),
                                          gpu |-> Or(patch[p].gpu, @.gpu),
                                          primary |-> primary]]
          /\ snapRoots' = [snapRoots EXCEPT ![p] = FinalRoots(p)]
          /\ Goto(p, "check") /\ UNCHANGED res
       \/ /\ primary \notin FinalRoots(p) \cup {Null}
          /\ End(p, "refused", "MODEL_ROOT_NOT_FOUND") /\ UNCHANGED <<snap, snapRoots>>
  /\ UNCHANGED <<patch, row, bound, tx, running, last>>

\* A mutant of CheckRoots: it does not compare the host of a root.
CheckRootsAnyHost(p) ==
  /\ pc[p] = "check"
  /\ Goto(p, "update") /\ UNCHANGED res
  /\ UNCHANGED <<req, row, bound, tx, running, last>>

\* The transaction begins: the instance still exists, and every root must
\* exist and belong to the instance's host.
CheckRoots(p) ==
  /\ pc[p] = "check"
  /\ \/ snapRoots[p] \subseteq Hosted /\ Goto(p, "update") /\ UNCHANGED res
     \/ ~(snapRoots[p] \subseteq Hosted) /\ End(p, "refused", "MODEL_ROOT_NOT_FOUND")
  /\ UNCHANGED <<req, row, bound, tx, running, last>>

\* InstanceRepository.update_launch_config: the UPDATE waits for another
\* transaction that updated the row, then holds the row until it ends.
UpdateRow(p) ==
  /\ pc[p] = "update" /\ lock = Nobody
  /\ lock' = p
  /\ Goto(p, "delete")
  /\ UNCHANGED <<req, res, row, bound, view, dels, running, last>>

\* InstanceRepository.set_model_roots: the DELETE takes its snapshot.
DeleteBegins(p) ==
  /\ pc[p] = "delete"
  /\ view' = [view EXCEPT ![p] = bound]
  /\ Goto(p, "deleting")
  /\ UNCHANGED <<req, res, row, bound, lock, dels, running, last>>

\* It waits for transactions that deleted the same bindings, and deletes the ones
\* of its snapshot that are still there.  A binding that was deleted and
\* inserted again is another row, which the snapshot does not have.
DeleteEnds(p) ==
  /\ pc[p] = "deleting"
  /\ \A o \in Patches \ {p} : pc[o] = "commit" => dels[o] \cap view[p] = {}
  /\ dels' = [dels EXCEPT ![p] = view[p]]
  /\ Goto(p, "commit")
  /\ UNCHANGED <<req, res, row, bound, lock, view, running, last>>

\* A mutant of Commit: the session is not closed, so the row stays locked.
CommitKeepsLock(p) ==
  /\ pc[p] = "commit"
  /\ row' = snap[p]
  /\ bound' = snapRoots[p]
  /\ last' = p
  /\ End(p, "done", "ok")
  /\ UNCHANGED <<req, tx, running>>

\* A mutant of Commit: the bindings are added to the ones that are there.
CommitMerges(p) ==
  /\ pc[p] = "commit"
  /\ row' = snap[p]
  /\ bound' = bound \cup snapRoots[p]
  /\ view' = [o \in Patches |-> view[o] \ dels[p]]
  /\ last' = p
  /\ End(p, "done", "ok")
  /\ lock' = IF lock = p THEN Nobody ELSE lock
  /\ UNCHANGED <<req, dels, running>>

\* The inserts and the commit.  A binding that is already there breaks the
\* unique index, and the unit of work rolls back.
Commit(p) ==
  /\ pc[p] = "commit"
  /\ LET kept == bound \ dels[p] IN
       \/ /\ kept \cap snapRoots[p] = {}
          /\ row' = snap[p]
          /\ bound' = kept \cup snapRoots[p]
          /\ view' = [o \in Patches |-> view[o] \ dels[p]]
          /\ last' = p
          /\ End(p, "done", "ok")
       \/ /\ kept \cap snapRoots[p] # {}
          /\ End(p, "refused", "INTERNAL_ERROR")
          /\ UNCHANGED <<row, bound, view, last>>
  /\ lock' = IF lock = p THEN Nobody ELSE lock
  /\ UNCHANGED <<req, dels, running>>

-----------------------------------------------------------------------------
(* start_instance and stop_instance, as far as the configuration goes        *)

StartBegins(s) ==
  /\ MayBegin(s)
  /\ ReadRow(s)
  /\ Goto(s, "roots")
  /\ UNCHANGED <<patch, snapRoots, res, row, bound, tx, running, last>>

\* comfyctl is given what was read; one ComfyUI at a time has the port.
Launch(s) ==
  /\ pc[s] = "launch"
  /\ \/ /\ running = Null
        /\ running' = [port |-> snap[s].port, gpu |-> snap[s].gpu, roots |-> snapRoots[s]]
        /\ End(s, "done", "ok")
     \/ running # Null /\ End(s, "refused", "PORT_IN_USE") /\ UNCHANGED running
  /\ UNCHANGED <<req, row, bound, tx, last>>

Stop ==
  /\ running # Null /\ running' = Null
  /\ UNCHANGED <<pc, req, res, row, bound, tx, last>>

-----------------------------------------------------------------------------
Step(p) ==
  \/ StatusCheck(p) \/ Merge(p) \/ CheckRoots(p)
  \/ UpdateRow(p) \/ DeleteBegins(p) \/ DeleteEnds(p) \/ Commit(p)

Next ==
  \/ \E p \in Patches : \E named \in Patch, null \in BOOLEAN : Begin(p, named, null)
  \/ \E p \in Patches : Step(p)
  \/ \E r \in Requests : ReadRoots(r)
  \/ \E s \in Starts : StartBegins(s) \/ Launch(s)
  \/ Stop

Spec == Init /\ [][Next]_vars

-----------------------------------------------------------------------------
(* Properties                                                                *)

\* The primary model root is one of the bound ones, although a request computes
\* both from two reads that may straddle another request's commit, and writes
\* them in two statements (update_instance_launch_config).
PrimaryBound == row.primary \in bound \cup {Null}

\* The two tables hold the configuration of one request: the last to commit.
\* Updating the instances row before the bindings are replaced serialises the
\* replacements (update_launch_config, set_model_roots).
OneConfiguration ==
  last # Nobody => row = snap[last] /\ bound = snapRoots[last]

\* No valid request fails on the unique index of the bindings.
NoDuplicateBinding == \A p \in Patches : res[p] # "INTERNAL_ERROR"

\* A field that a request does not name is not changed by it, and the primary
\* root only as far as the new bindings require.
UnnamedUnchanged ==
  [][\A p \in Patches : pc[p] = "commit" /\ pc'[p] = "done" =>
       /\ patch[p].port = Absent => row'.port = row.port
       /\ patch[p].gpu = Absent => row'.gpu = row.gpu
       /\ patch[p].primary = Absent /\ row.primary \in bound' => row'.primary = row.primary
       /\ patch[p].roots = Absent => bound' = bound]_vars

\* ComfyUI runs with the configuration the instance has.
RunsAsConfigured ==
  running # Null => running = [port |-> row.port, gpu |-> row.gpu, roots |-> bound]

\* The transaction that holds the instances row is on its way to its commit and
\* waits for no other, so whoever waits for that row gets it: two edits never
\* deadlock on the two tables (update_launch_config before set_model_roots).
RowHolderIsFree ==
  lock # Nobody =>
    /\ pc[lock] \in {"delete", "deleting", "commit"}
    /\ \A o \in Patches \ {lock} : pc[o] = "commit" => dels[o] \cap view[lock] = {}

=============================================================================
