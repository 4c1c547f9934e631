------------------------- MODULE LaunchConfigProofs -------------------------
(***************************************************************************)
(* The two tables of a launch configuration agree, for any number of       *)
(* overlapping requests; and when requests wait for one another, edits     *)
(* change what they name and ComfyUI runs as configured.                   *)
(***************************************************************************)
EXTENDS LaunchConfig, TLAPS

-----------------------------------------------------------------------------
(* The inductive invariant                                                   *)

\* Only the transaction that updated the instances row gets to the bindings.
Writing == {"delete", "deleting", "commit"}

LockInv == \A p \in Patches : pc[p] \in Writing => lock = p

\* What a request is about to write is consistent in itself.
MergedInv ==
  \A p \in Patches :
    /\ pc[p] \in {"check", "update"} \cup Writing => snap[p].primary \in snapRoots[p] \cup {Null}
    /\ pc[p] \in {"update"} \cup Writing => snapRoots[p] \subseteq Hosted

\* The bindings it replaces are all there are.
DeleteInv ==
  \A p \in Patches :
    /\ pc[p] = "deleting" => view[p] = bound
    /\ pc[p] = "commit" => dels[p] = bound

\* The last transaction to commit is over and its values are the stored ones.
LastInv == last # Nobody => pc[last] = "done" /\ row = snap[last] /\ bound = snapRoots[last]

ConfigInv ==
  TypeOK /\ LockInv /\ MergedInv /\ DeleteInv /\ LastInv /\ PrimaryBound /\ NoDuplicateBinding

-----------------------------------------------------------------------------
\* The invariant holds when the instance has just been created.
LEMMA ConfigInit == Init => ConfigInv
<1> SUFFICES ASSUME Init PROVE ConfigInv
  OBVIOUS
<1>1. TypeOK
  <2>1. row \in Row
    BY ConstantsAssumption DEF Init, Row
  <2>2. bound \subseteq Hosted /\ running = Null
    BY DEF Init
  <2>3. patch \in [Patches -> Patch]
    <3>1. [port |-> Absent, gpu |-> Absent, roots |-> Absent, primary |-> Absent] \in Patch
      BY DEF Patch
    <3> QED BY <3>1 DEF Init
  <2>4. snap \in [Requests -> Row] /\ snapRoots \in [Requests -> SUBSET Roots]
    BY <2>1 DEF Init
  <2> QED BY <2>1, <2>2, <2>3, <2>4 DEF Init, TypeOK, Requests
<1>2. LockInv /\ MergedInv /\ DeleteInv /\ LastInv /\ PrimaryBound /\ NoDuplicateBinding
  BY DEF Init, LockInv, MergedInv, DeleteInv, LastInv, PrimaryBound, NoDuplicateBinding, Writing, Requests
<1> QED BY <1>1, <1>2 DEF ConfigInv

\* What a request merges is a row and a set of bindings.
LEMMA MergeType ==
  ASSUME TypeOK, NEW p \in Patches, Merge(p)
  PROVE  snap' \in [Requests -> Row] /\ snapRoots' \in [Requests -> SUBSET Roots]
<1>0. p \in Requests
  BY DEF Requests
<1>1. snap[p].port \in Ports /\ snap[p].gpu \in Gpus /\ snap[p].primary \in Roots \cup {Null}
  BY <1>0 DEF TypeOK, Row
<1>2. /\ patch[p].port \in Ports \cup {Absent} /\ patch[p].gpu \in Gpus \cup {Absent}
      /\ patch[p].roots = Absent \/ patch[p].roots \subseteq Roots
  BY DEF TypeOK, Patch
<1>3. Or(patch[p].port, snap[p].port) \in Ports /\ Or(patch[p].gpu, snap[p].gpu) \in Gpus
  BY <1>1, <1>2 DEF Or
<1>4. FinalRoots(p) \in SUBSET Roots
  BY <1>0, <1>2 DEF FinalRoots, Or, TypeOK
<1>5. ASSUME NEW primary, primary \in FinalRoots(p) \cup {Null}
      PROVE  [port |-> Or(patch[p].port, snap[p].port), gpu |-> Or(patch[p].gpu, snap[p].gpu),
              primary |-> primary] \in Row
  BY <1>3, <1>4, <1>5 DEF Row
<1>6. CASE UNCHANGED <<snap, snapRoots>>
  BY <1>6 DEF TypeOK
<1>7. ASSUME NEW primary, primary \in FinalRoots(p) \cup {Null},
             snap' = [snap EXCEPT ![p] = [port |-> Or(patch[p].port, @.port),
                                          gpu |-> Or(patch[p].gpu, @.gpu),
                                          primary |-> primary]],
             snapRoots' = [snapRoots EXCEPT ![p] = FinalRoots(p)]
      PROVE  snap' \in [Requests -> Row] /\ snapRoots' \in [Requests -> SUBSET Roots]
  BY <1>0, <1>4, <1>5, <1>7 DEF TypeOK
<1> QED BY <1>6, <1>7 DEF Merge

-----------------------------------------------------------------------------
\* Types are preserved by every step.
LEMMA TypeStep ==
  ASSUME ConfigInv, [Next]_vars
  PROVE  TypeOK'
<1>0. TypeOK /\ Patches \subseteq Requests /\ Starts \subseteq Requests
  BY DEF ConfigInv, Requests
<1> USE DEF TypeOK
<1>1. ASSUME NEW p \in Patches, NEW named \in Patch, NEW null \in BOOLEAN, Begin(p, named, null) PROVE TypeOK'
  BY <1>0, <1>1 DEF Begin, ReadRow, End, Goto, Live, Ended, tx
<1>2. ASSUME NEW r \in Requests, ReadRoots(r) PROVE TypeOK'
  <2>1. snapRoots' \in [Requests -> SUBSET Roots]
    BY <1>0, <1>2, ConstantsAssumption DEF ReadRoots
  <2> QED BY <1>0, <1>2, <2>1 DEF ReadRoots, Goto, Live, tx
<1>3. ASSUME NEW p \in Patches, StatusCheck(p) PROVE TypeOK'
  BY <1>0, <1>3 DEF StatusCheck, End, Goto, Live, Ended, req, tx
<1>4. ASSUME NEW p \in Patches, Merge(p) PROVE TypeOK'
  <2>1. snap' \in [Requests -> Row] /\ snapRoots' \in [Requests -> SUBSET Roots]
    BY <1>0, <1>4, MergeType
  <2>2. /\ pc' \in [Requests -> {"idle"} \cup Live \cup Ended]
        /\ res' \in [Requests -> {"none", "ok", "REQUEST_INVALID", "INSTANCE_RUNNING",
                                  "MODEL_ROOT_NOT_FOUND", "INTERNAL_ERROR", "PORT_IN_USE"}]
    BY <1>0, <1>4 DEF Merge, End, Goto, Live, Ended
  <2>3. UNCHANGED <<patch, row, bound, tx, running, last>>
    BY <1>4 DEF Merge
  <2> QED BY <1>0, <2>1, <2>2, <2>3 DEF tx
<1>5. ASSUME NEW p \in Patches, CheckRoots(p) PROVE TypeOK'
  BY <1>0, <1>5 DEF CheckRoots, End, Goto, Live, Ended, req, tx
<1>6. ASSUME NEW p \in Patches, UpdateRow(p) PROVE TypeOK'
  BY <1>0, <1>6 DEF UpdateRow, Goto, Live, req
<1>7. ASSUME NEW p \in Patches, DeleteBegins(p) PROVE TypeOK'
  <2>1. view' \in [Patches -> SUBSET Roots]
    BY <1>0, <1>7, ConstantsAssumption DEF DeleteBegins
  <2> QED BY <1>0, <1>7, <2>1 DEF DeleteBegins, Goto, Live, req
<1>8. ASSUME NEW p \in Patches, DeleteEnds(p) PROVE TypeOK'
  <2>1. dels' \in [Patches -> SUBSET Roots]
    BY <1>0, <1>8 DEF DeleteEnds
  <2> QED BY <1>0, <1>8, <2>1 DEF DeleteEnds, Goto, Live, req
<1>9. ASSUME NEW p \in Patches, Commit(p) PROVE TypeOK'
  <2>1. snapRoots[p] \subseteq Hosted
    BY <1>9 DEF Commit, ConfigInv, MergedInv, Writing
  <2>2. row' \in Row /\ bound' \subseteq Hosted /\ last' \in Patches \cup {Nobody}
    BY <1>0, <1>9, <2>1 DEF Commit
  <2>3. view' \in [Patches -> SUBSET Roots]
    BY <1>0, <1>9 DEF Commit
  <2>4. /\ pc' \in [Requests -> {"idle"} \cup Live \cup Ended]
        /\ res' \in [Requests -> {"none", "ok", "REQUEST_INVALID", "INSTANCE_RUNNING",
                                  "MODEL_ROOT_NOT_FOUND", "INTERNAL_ERROR", "PORT_IN_USE"}]
    BY <1>0, <1>9 DEF Commit, End, Goto, Ended
  <2>5. lock' \in Patches \cup {Nobody} /\ UNCHANGED <<req, dels, running>>
    BY <1>0, <1>9 DEF Commit
  <2> QED BY <1>0, <2>2, <2>3, <2>4, <2>5 DEF req
<1>10. ASSUME NEW s \in Starts, StartBegins(s) PROVE TypeOK'
  BY <1>0, <1>10 DEF StartBegins, ReadRow, Goto, Live, tx
<1>11. ASSUME NEW s \in Starts, Launch(s) PROVE TypeOK'
  <2>1. [port |-> snap[s].port, gpu |-> snap[s].gpu, roots |-> snapRoots[s]] \in Config
    BY <1>0 DEF Row, Config
  <2> QED BY <1>0, <1>11, <2>1 DEF Launch, End, Goto, Ended, req, tx
<1>12. CASE Stop
  BY <1>0, <1>12 DEF Stop, req, tx
<1>13. CASE UNCHANGED vars
  BY <1>0, <1>13 DEF vars, req, tx
<1> QED BY <1>1, <1>2, <1>3, <1>4, <1>5, <1>6, <1>7, <1>8, <1>9, <1>10, <1>11, <1>12, <1>13
        DEF Next, Step

\* A request that does not commit touches neither table: it only moves itself,
\* and what it has read, from a place where its request was not over.
LEMMA QuietStep ==
  ASSUME ConfigInv, [Next]_vars, ~ \E p \in Patches : Commit(p)
  PROVE  /\ UNCHANGED <<row, bound, last>>
         /\ \A r \in Requests : pc[r] = "done" =>
              pc'[r] = "done" /\ snap'[r] = snap[r] /\ snapRoots'[r] = snapRoots[r]
<1>0. TypeOK /\ Patches \subseteq Requests /\ Starts \subseteq Requests
  BY DEF ConfigInv, Requests
<1>1. ASSUME NEW p \in Patches, NEW named \in Patch, NEW null \in BOOLEAN, Begin(p, named, null)
      PROVE  /\ UNCHANGED <<row, bound, last>>
             /\ \A r \in Requests : pc[r] = "done" =>
                  pc'[r] = "done" /\ snap'[r] = snap[r] /\ snapRoots'[r] = snapRoots[r]
  BY <1>0, <1>1 DEF Begin, MayBegin, ReadRow, End, Goto, TypeOK
<1>2. ASSUME NEW r \in Requests, ReadRoots(r)
      PROVE  /\ UNCHANGED <<row, bound, last>>
             /\ \A o \in Requests : pc[o] = "done" =>
                  pc'[o] = "done" /\ snap'[o] = snap[o] /\ snapRoots'[o] = snapRoots[o]
  BY <1>0, <1>2 DEF ReadRoots, Goto, TypeOK
<1>3. ASSUME NEW p \in Patches, Merge(p)
      PROVE  /\ UNCHANGED <<row, bound, last>>
             /\ \A r \in Requests : pc[r] = "done" =>
                  pc'[r] = "done" /\ snap'[r] = snap[r] /\ snapRoots'[r] = snapRoots[r]
  BY <1>0, <1>3 DEF Merge, End, Goto, TypeOK
<1>4. ASSUME NEW p \in Patches,
             StatusCheck(p) \/ CheckRoots(p) \/ UpdateRow(p) \/ DeleteBegins(p) \/ DeleteEnds(p)
      PROVE  /\ UNCHANGED <<row, bound, last>>
             /\ \A r \in Requests : pc[r] = "done" =>
                  pc'[r] = "done" /\ snap'[r] = snap[r] /\ snapRoots'[r] = snapRoots[r]
  BY <1>0, <1>4 DEF StatusCheck, CheckRoots, UpdateRow, DeleteBegins, DeleteEnds, End, Goto, req, TypeOK
<1>5. ASSUME NEW s \in Starts, StartBegins(s) \/ Launch(s)
      PROVE  /\ UNCHANGED <<row, bound, last>>
             /\ \A r \in Requests : pc[r] = "done" =>
                  pc'[r] = "done" /\ snap'[r] = snap[r] /\ snapRoots'[r] = snapRoots[r]
  BY <1>0, <1>5 DEF StartBegins, Launch, MayBegin, ReadRow, End, Goto, req, TypeOK
<1>6. CASE Stop \/ UNCHANGED vars
  BY <1>6 DEF Stop, vars, req
<1> QED BY <1>1, <1>2, <1>3, <1>4, <1>5, <1>6 DEF Next, Step

\* How a request that edits the configuration moves, one line per statement.
LEMMA PatchMoves ==
  ASSUME ConfigInv, [Next]_vars, ~ \E p \in Patches : Commit(p), NEW p \in Patches
  PROVE  \/ /\ pc'[p] = pc[p] /\ snap'[p] = snap[p] /\ snapRoots'[p] = snapRoots[p]
            /\ view'[p] = view[p] /\ dels'[p] = dels[p]
            /\ lock' = lock \/ (lock = Nobody /\ pc[p] \notin Writing)
         \/ pc'[p] \in {"roots", "status", "merge", "refused"} /\ lock' = lock
         \/ /\ pc'[p] = "check" /\ lock' = lock
            /\ snap'[p].primary \in snapRoots'[p] \cup {Null}
         \/ /\ pc[p] = "check" /\ pc'[p] = "update" /\ snapRoots[p] \subseteq Hosted
            /\ UNCHANGED <<snap, snapRoots, lock>>
         \/ pc[p] = "update" /\ pc'[p] = "delete" /\ lock' = p /\ UNCHANGED <<snap, snapRoots>>
         \/ /\ pc[p] = "delete" /\ pc'[p] = "deleting" /\ view'[p] = bound
            /\ UNCHANGED <<snap, snapRoots, lock>>
         \/ /\ pc[p] = "deleting" /\ pc'[p] = "commit" /\ dels'[p] = view[p]
            /\ UNCHANGED <<snap, snapRoots, lock>>
<1>0. TypeOK /\ LockInv /\ p \in Requests /\ p \notin Starts /\ p # Nobody
  BY ConstantsAssumption DEF ConfigInv, Requests
<1> DEFINE Still == /\ pc'[p] = pc[p] /\ snap'[p] = snap[p] /\ snapRoots'[p] = snapRoots[p]
                    /\ view'[p] = view[p] /\ dels'[p] = dels[p]
                    /\ lock' = lock \/ (lock = Nobody /\ pc[p] \notin Writing)
<1>1. ASSUME NEW o \in Patches, NEW named \in Patch, NEW null \in BOOLEAN, Begin(o, named, null)
      PROVE  Still \/ (pc'[p] \in {"roots", "refused"} /\ lock' = lock)
  BY <1>0, <1>1 DEF Begin, ReadRow, End, Goto, tx, TypeOK
<1>2. ASSUME NEW r \in Requests, ReadRoots(r)
      PROVE  Still \/ (pc'[p] = "status" /\ lock' = lock)
  BY <1>0, <1>2 DEF ReadRoots, Goto, tx, TypeOK
<1>3. ASSUME NEW o \in Patches, StatusCheck(o)
      PROVE  Still \/ (pc'[p] \in {"merge", "refused"} /\ lock' = lock)
  BY <1>0, <1>3 DEF StatusCheck, End, Goto, req, tx, TypeOK
<1>4. ASSUME NEW o \in Patches, Merge(o)
      PROVE  \/ Still
             \/ pc'[p] = "refused" /\ lock' = lock
             \/ pc'[p] = "check" /\ lock' = lock /\ snap'[p].primary \in snapRoots'[p] \cup {Null}
  <2>1. CASE o # p
    BY <1>0, <1>4, <2>1 DEF Merge, End, Goto, tx, TypeOK
  <2>2. CASE o = p
    <3>1. UNCHANGED lock
      BY <1>4 DEF Merge, tx
    <3>2. CASE End(p, "refused", "MODEL_ROOT_NOT_FOUND")
      BY <1>0, <3>1, <3>2 DEF End, Goto, TypeOK
    <3>3. ASSUME NEW primary, primary \in FinalRoots(p) \cup {Null},
                 snap' = [snap EXCEPT ![p] = [port |-> Or(patch[p].port, @.port),
                                              gpu |-> Or(patch[p].gpu, @.gpu),
                                              primary |-> primary]],
                 snapRoots' = [snapRoots EXCEPT ![p] = FinalRoots(p)],
                 Goto(p, "check")
          PROVE  pc'[p] = "check" /\ snap'[p].primary \in snapRoots'[p] \cup {Null}
      <4>1. snap'[p].primary = primary /\ snapRoots'[p] = FinalRoots(p) /\ pc'[p] = "check"
        BY <1>0, <3>3 DEF Goto, TypeOK
      <4> QED BY <3>3, <4>1
    <3> QED BY <1>4, <2>2, <3>1, <3>2, <3>3 DEF Merge
  <2> QED BY <2>1, <2>2
<1>5. ASSUME NEW o \in Patches, CheckRoots(o)
      PROVE  \/ Still
             \/ pc'[p] = "refused" /\ lock' = lock
             \/ /\ pc[p] = "check" /\ pc'[p] = "update" /\ snapRoots[p] \subseteq Hosted
                /\ UNCHANGED <<snap, snapRoots, lock>>
  BY <1>0, <1>5 DEF CheckRoots, End, Goto, req, tx, TypeOK
<1>6. ASSUME NEW o \in Patches, UpdateRow(o)
      PROVE  \/ Still
             \/ pc[p] = "update" /\ pc'[p] = "delete" /\ lock' = p /\ UNCHANGED <<snap, snapRoots>>
  BY <1>0, <1>6 DEF UpdateRow, Goto, req, TypeOK, LockInv
<1>7. ASSUME NEW o \in Patches, DeleteBegins(o)
      PROVE  \/ Still
             \/ /\ pc[p] = "delete" /\ pc'[p] = "deleting" /\ view'[p] = bound
                /\ UNCHANGED <<snap, snapRoots, lock>>
  BY <1>0, <1>7 DEF DeleteBegins, Goto, req, TypeOK
<1>8. ASSUME NEW o \in Patches, DeleteEnds(o)
      PROVE  \/ Still
             \/ /\ pc[p] = "deleting" /\ pc'[p] = "commit" /\ dels'[p] = view[p]
                /\ UNCHANGED <<snap, snapRoots, lock>>
  BY <1>0, <1>8 DEF DeleteEnds, Goto, req, TypeOK
<1>9. ASSUME NEW s \in Starts, StartBegins(s) \/ Launch(s) PROVE Still
  BY <1>0, <1>9 DEF StartBegins, Launch, ReadRow, End, Goto, req, tx, TypeOK, Requests
<1>10. CASE Stop \/ UNCHANGED vars
  BY <1>10 DEF Stop, vars, req, tx
<1> QED BY <1>1, <1>2, <1>3, <1>4, <1>5, <1>6, <1>7, <1>8, <1>9, <1>10 DEF Next, Step

\* Only a commit can run into the unique index.
LEMMA QuietResults ==
  ASSUME ConfigInv, [Next]_vars, ~ \E p \in Patches : Commit(p)
  PROVE  NoDuplicateBinding'
<1>0. TypeOK /\ NoDuplicateBinding /\ Patches \subseteq Requests /\ Starts \subseteq Requests
  BY DEF ConfigInv, Requests
<1> SUFFICES ASSUME NEW p \in Patches PROVE res'[p] # "INTERNAL_ERROR"
  BY DEF NoDuplicateBinding
<1>1. res[p] # "INTERNAL_ERROR"
  BY <1>0 DEF NoDuplicateBinding
<1>2. ASSUME NEW o \in Patches, \/ \E named \in Patch, null \in BOOLEAN : Begin(o, named, null)
                                \/ StatusCheck(o) \/ Merge(o) \/ CheckRoots(o)
      PROVE  res'[p] # "INTERNAL_ERROR"
  BY <1>0, <1>1, <1>2 DEF Begin, StatusCheck, Merge, CheckRoots, End, TypeOK
<1>3. ASSUME NEW s \in Starts, Launch(s) PROVE res'[p] # "INTERNAL_ERROR"
  BY <1>0, <1>1, <1>3 DEF Launch, End, TypeOK
<1>4. CASE UNCHANGED res
  BY <1>1, <1>4
<1> QED BY <1>2, <1>3, <1>4 DEF Next, Step, ReadRoots, UpdateRow, DeleteBegins, DeleteEnds,
                            StartBegins, Stop, vars

\* Every step that is not a commit preserves the invariant.
LEMMA QuietInv ==
  ASSUME ConfigInv, [Next]_vars, ~ \E p \in Patches : Commit(p)
  PROVE  ConfigInv'
<1>0. TypeOK /\ LockInv /\ MergedInv /\ DeleteInv /\ LastInv /\ PrimaryBound
  BY DEF ConfigInv
<1>1. UNCHANGED <<row, bound, last>>
  BY QuietStep
<1>2. PrimaryBound'
  BY <1>0, <1>1 DEF PrimaryBound
<1>3. LastInv'
  <2> SUFFICES ASSUME last # Nobody
               PROVE  pc'[last] = "done" /\ row = snap'[last] /\ bound = snapRoots'[last]
    BY <1>1 DEF LastInv
  <2>1. last \in Requests
    BY <1>0 DEF TypeOK, Requests
  <2> QED BY <1>0, <2>1, QuietStep DEF LastInv
<1>4. ASSUME NEW p \in Patches
      PROVE  /\ pc'[p] \in Writing => lock' = p
             /\ pc'[p] \in {"check", "update"} \cup Writing => snap'[p].primary \in snapRoots'[p] \cup {Null}
             /\ pc'[p] \in {"update"} \cup Writing => snapRoots'[p] \subseteq Hosted
             /\ pc'[p] = "deleting" => view'[p] = bound
             /\ pc'[p] = "commit" => dels'[p] = bound
  <2>1. /\ pc[p] \in Writing => lock = p
        /\ pc[p] \in {"check", "update"} \cup Writing => snap[p].primary \in snapRoots[p] \cup {Null}
        /\ pc[p] \in {"update"} \cup Writing => snapRoots[p] \subseteq Hosted
        /\ pc[p] = "deleting" => view[p] = bound
        /\ pc[p] = "commit" => dels[p] = bound
    BY <1>0 DEF LockInv, MergedInv, DeleteInv
  <2> QED BY <2>1, PatchMoves DEF Writing
<1>5. LockInv' /\ MergedInv' /\ DeleteInv'
  BY <1>1, <1>4 DEF LockInv, MergedInv, DeleteInv
<1> QED BY <1>2, <1>3, <1>5, TypeStep, QuietResults DEF ConfigInv

\* A commit preserves it: it holds the lock, so it deletes every binding there
\* is, and no other transaction is in the middle of replacing them.
LEMMA CommitInv ==
  ASSUME ConfigInv, [Next]_vars, NEW p \in Patches, Commit(p)
  PROVE  ConfigInv'
<1>0. TypeOK /\ LockInv /\ MergedInv /\ DeleteInv /\ NoDuplicateBinding /\ p \in Requests
  BY DEF ConfigInv, Requests
<1>1. pc[p] = "commit" /\ dels[p] = bound /\ snap[p].primary \in snapRoots[p] \cup {Null}
  BY <1>0 DEF Commit, DeleteInv, MergedInv, Writing
<1>2. /\ row' = snap[p] /\ bound' = snapRoots[p] /\ last' = p
      /\ End(p, "done", "ok") /\ UNCHANGED <<snap, snapRoots, dels>>
  BY <1>1 DEF Commit, req
<1>3. pc'[p] = "done" /\ \A o \in Patches : o # p => pc'[o] = pc[o] /\ pc[o] \notin Writing
  <2>1. \A o \in Patches : o # p => pc[o] \notin Writing
    BY <1>0, <1>1 DEF LockInv, Writing
  <2> QED BY <1>0, <1>2, <2>1 DEF End, Goto, TypeOK
<1>4. LockInv' /\ DeleteInv'
  BY <1>3 DEF LockInv, DeleteInv, Writing
<1>5. MergedInv'
  BY <1>0, <1>2, <1>3 DEF MergedInv, Writing
<1>6. LastInv' /\ PrimaryBound'
  BY <1>1, <1>2, <1>3 DEF LastInv, PrimaryBound
<1>7. NoDuplicateBinding'
  BY <1>0, <1>2 DEF NoDuplicateBinding, End, TypeOK
<1> QED BY <1>4, <1>5, <1>6, <1>7, TypeStep DEF ConfigInv

\* The invariant holds in every reachable state.
LEMMA ConfigInvariant == Spec => []ConfigInv
<1>1. ConfigInv /\ [Next]_vars => ConfigInv'
  BY QuietInv, CommitInv
<1> QED BY <1>1, ConfigInit, PTL DEF Spec

-----------------------------------------------------------------------------
(* The theorems                                                              *)

\* Every variable keeps its type; in particular only roots of the instance's
\* host are ever bound (update_instance_launch_config).
THEOREM TypeCorrect == Spec => []TypeOK
<1>1. ConfigInv => TypeOK
  BY DEF ConfigInv
<1> QED BY <1>1, ConfigInvariant, PTL

\* The primary model root of the instances row is always bound in the other
\* table (update_instance_launch_config).
THEOREM PrimaryIsBound == Spec => []PrimaryBound
<1>1. ConfigInv => PrimaryBound
  BY DEF ConfigInv
<1> QED BY <1>1, ConfigInvariant, PTL

\* The two tables never mix the configurations of two requests: the update of
\* the instances row serialises the replacements (update_launch_config,
\* set_model_roots).
THEOREM ConfigurationsNeverMix == Spec => []OneConfiguration
<1>1. ConfigInv => OneConfiguration
  BY DEF ConfigInv, LastInv, OneConfiguration
<1> QED BY <1>1, ConfigInvariant, PTL

\* No request fails on the unique index of instance_model_roots.
THEOREM BindingsAreInsertedOnce == Spec => []NoDuplicateBinding
<1>1. ConfigInv => NoDuplicateBinding
  BY DEF ConfigInv
<1> QED BY <1>1, ConfigInvariant, PTL

\* A transaction that is replacing the bindings goes on to the next statement.
LEMMA HolderMoves ==
  ASSUME ConfigInv, [Next]_vars, ~ \E p \in Patches : Commit(p),
         NEW h \in Patches, pc[h] \in Writing
  PROVE  pc'[h] \in Writing
<1>0. TypeOK /\ h \in Requests /\ h \notin Starts
  BY ConstantsAssumption DEF ConfigInv, Requests
<1>1. ASSUME NEW o \in Requests, o # h, NEW next, Goto(o, next) PROVE pc'[h] = pc[h]
  BY <1>0, <1>1 DEF Goto, TypeOK
<1>2. ASSUME NEW p \in Patches,
             \/ \E named \in Patch, null \in BOOLEAN : Begin(p, named, null)
             \/ StatusCheck(p) \/ Merge(p) \/ CheckRoots(p) \/ UpdateRow(p)
      PROVE  pc'[h] = pc[h]
  <2>1. pc[p] \notin Writing /\ p \in Requests
    BY <1>2 DEF Begin, MayBegin, StatusCheck, Merge, CheckRoots, UpdateRow, Writing, Requests
  <2>2. \E next : Goto(p, next)
    BY <1>2 DEF Begin, StatusCheck, Merge, CheckRoots, UpdateRow, End
  <2> QED BY <1>1, <2>1, <2>2
<1>3. ASSUME NEW p \in Patches, DeleteBegins(p) \/ DeleteEnds(p) PROVE pc'[h] \in Writing
  BY <1>0, <1>3 DEF DeleteBegins, DeleteEnds, Goto, TypeOK, Writing
<1>4. ASSUME NEW r \in Requests, ReadRoots(r) PROVE pc'[h] = pc[h]
  BY <1>0, <1>4 DEF ReadRoots, Goto, TypeOK, Writing
<1>5. ASSUME NEW s \in Starts, StartBegins(s) \/ Launch(s) PROVE pc'[h] = pc[h]
  BY <1>0, <1>5 DEF StartBegins, Launch, End, Goto, TypeOK
<1>6. CASE Stop \/ UNCHANGED vars
  BY <1>6 DEF Stop, vars
<1> QED BY <1>2, <1>3, <1>4, <1>5, <1>6 DEF Next, Step

\* The row is held only by a transaction that is replacing the bindings.
HolderInv == lock # Nobody => pc[lock] \in Writing

\* That holds in every reachable state.
LEMMA HolderInvariant == Spec => []HolderInv
<1>1. Init => HolderInv
  BY DEF Init, HolderInv
<1>2. ConfigInv /\ HolderInv /\ [Next]_vars => HolderInv'
  <2> SUFFICES ASSUME ConfigInv, HolderInv, [Next]_vars, lock' # Nobody
               PROVE  pc'[lock'] \in Writing
    BY DEF HolderInv
  <2>0. TypeOK /\ Patches \subseteq Requests /\ Patches \cap Starts = {}
    BY ConstantsAssumption DEF ConfigInv, Requests
  <2>1. ASSUME NEW p \in Patches, Commit(p) PROVE FALSE
    <3>1. lock = p
      BY <2>1 DEF Commit, ConfigInv, LockInv, Writing
    <3> QED BY <2>1, <3>1 DEF Commit
  <2>2. CASE lock' = lock
    <3>1. lock \in Patches /\ pc[lock] \in Writing
      BY <2>0, <2>2 DEF HolderInv, TypeOK
    <3> QED BY <2>1, <2>2, <3>1, HolderMoves
  <2>3. ASSUME NEW p \in Patches, UpdateRow(p) PROVE pc'[lock'] \in Writing
    BY <2>0, <2>3 DEF UpdateRow, Goto, TypeOK, Writing
  <2>4. \/ lock' = lock
        \/ \E p \in Patches : UpdateRow(p) \/ Commit(p)
    BY DEF Next, Step, Begin, ReadRoots, StatusCheck, Merge, CheckRoots, DeleteBegins, DeleteEnds,
           StartBegins, Launch, Stop, vars, tx
  <2> QED BY <2>1, <2>2, <2>3, <2>4
<1> QED BY <1>1, <1>2, ConfigInvariant, PTL DEF Spec

\* The transaction that holds the instances row waits for nobody, so two edits
\* cannot deadlock (update_launch_config, set_model_roots).
THEOREM RowHolderNeverWaits == Spec => []RowHolderIsFree
<1>1. ConfigInv /\ HolderInv => RowHolderIsFree
  BY DEF ConfigInv, LockInv, HolderInv, RowHolderIsFree, Writing
<1> QED BY <1>1, ConfigInvariant, HolderInvariant, PTL

-----------------------------------------------------------------------------
(* Requests that wait for one another                                        *)

\* What a request knows of the configuration while no other one is under way:
\* until it merges, what it has read is what is stored;
ReadAt(r) ==
  /\ pc[r] \in {"roots", "status", "merge", "launch"} => snap[r] = row
  /\ pc[r] \in {"status", "merge", "launch"} => snapRoots[r] = bound

\* from then on it holds the stored values of the fields it does not name;
EditAt(p) ==
  pc[p] \in {"check", "update"} \cup Writing =>
    /\ patch[p].port = Absent => snap[p].port = row.port
    /\ patch[p].gpu = Absent => snap[p].gpu = row.gpu
    /\ patch[p].primary = Absent /\ row.primary \in snapRoots[p] => snap[p].primary = row.primary
    /\ patch[p].roots = Absent => snapRoots[p] = bound

\* and ComfyUI does not run once an edit has asked for its status.
IdleAt(p) == pc[p] \in {"merge", "check", "update"} \cup Writing => running = Null

OneAtATime == \A a, b \in Requests : pc[a] \in Live /\ pc[b] \in Live => a = b

TurnInv ==
  /\ OneAtATime
  /\ \A r \in Requests : ReadAt(r)
  /\ \A p \in Patches : EditAt(p) /\ IdleAt(p)
  /\ RunsAsConfigured

\* Only the request that takes the step is under way, so the invariant has to
\* be looked at for that request alone.
LEMMA OnlyMover ==
  ASSUME TypeOK, NEW r \in Requests, NEW next, Goto(r, next),
         \A o \in Requests : o # r => pc[o] \notin Live,
         ReadAt(r)', r \in Patches => EditAt(r)' /\ IdleAt(r)', RunsAsConfigured'
  PROVE  TurnInv'
<1>1. \A o \in Requests : o # r => pc'[o] = pc[o] /\ pc'[o] \notin Live
  BY DEF Goto, TypeOK
<1>2. OneAtATime'
  BY <1>1 DEF OneAtATime
<1>3. \A o \in Requests : ReadAt(o)'
  BY <1>1 DEF ReadAt, Live
<1>4. \A p \in Patches : EditAt(p)' /\ IdleAt(p)'
  <2> SUFFICES ASSUME NEW p \in Patches PROVE EditAt(p)' /\ IdleAt(p)'
    OBVIOUS
  <2>1. CASE p = r
    BY <2>1
  <2>2. CASE p # r
    <3>1. pc'[p] \notin Live
      BY <1>1, <2>2 DEF Requests
    <3> QED BY <3>1 DEF EditAt, IdleAt, Writing, Live
  <2> QED BY <2>1, <2>2
<1> QED BY <1>2, <1>3, <1>4 DEF TurnInv

\* A request that takes a step is the only one under way.
LEMMA NobodyElse ==
  ASSUME Serial, TurnInv, NEW r \in Requests, MayBegin(r) \/ pc[r] \in Live
  PROVE  \A o \in Requests : o # r => pc[o] \notin Live
BY DEF TurnInv, OneAtATime, MayBegin

\* A merge takes the fields the request does not name from what is stored, and
\* keeps the primary root while it is bound.
LEMMA MergeKeeps ==
  ASSUME TypeOK, NEW p \in Patches, ReadAt(p), Merge(p)
  PROVE  ReadAt(p)' /\ EditAt(p)'
<1>0. p \in Requests
  BY DEF Requests
<1>1. snap[p] = row /\ snapRoots[p] = bound /\ UNCHANGED <<patch, row, bound>>
  BY DEF Merge, ReadAt
<1>2. CASE End(p, "refused", "MODEL_ROOT_NOT_FOUND")
  <2>1. pc'[p] = "refused"
    BY <1>0, <1>2 DEF End, Goto, TypeOK
  <2> QED BY <2>1 DEF ReadAt, EditAt, Writing
<1>3. ASSUME NEW primary \in FinalPrimaries(p),
             snap' = [snap EXCEPT ![p] = [port |-> Or(patch[p].port, @.port),
                                          gpu |-> Or(patch[p].gpu, @.gpu),
                                          primary |-> primary]],
             snapRoots' = [snapRoots EXCEPT ![p] = FinalRoots(p)],
             Goto(p, "check")
      PROVE  ReadAt(p)' /\ EditAt(p)'
  <2>1. pc'[p] = "check"
    BY <1>0, <1>3 DEF Goto, TypeOK
  <2>2. /\ snap'[p].port = Or(patch[p].port, row.port)
        /\ snap'[p].gpu = Or(patch[p].gpu, row.gpu)
        /\ snap'[p].primary = primary
        /\ snapRoots'[p] = FinalRoots(p)
    BY <1>0, <1>1, <1>3 DEF TypeOK
  <2>3. patch[p].roots = Absent => FinalRoots(p) = bound
    BY <1>1 DEF FinalRoots, Or
  <2>4. patch[p].primary = Absent /\ row.primary \in FinalRoots(p) => primary = row.primary
    BY <1>1, <1>3 DEF FinalPrimaries
  <2> QED BY <1>1, <2>1, <2>2, <2>3, <2>4 DEF ReadAt, EditAt, Or
<1> QED BY <1>2, <1>3 DEF Merge

\* A commit writes what the request has merged; nothing runs then.
LEMMA CommitInTurn ==
  ASSUME Serial, ConfigInv, TurnInv, NEW p \in Patches, Commit(p)
  PROVE  TurnInv'
<1>0. TypeOK /\ p \in Requests /\ pc[p] = "commit"
  BY DEF ConfigInv, Requests, Commit
<1>1. \A o \in Requests : o # p => pc[o] \notin Live
  BY <1>0, NobodyElse DEF Live
<1>2. running = Null /\ running' = running
  BY <1>0 DEF Commit, TurnInv, IdleAt, Writing
<1>3. PICK next \in Ended : Goto(p, next)
  BY DEF Commit, End, Ended
<1>4. pc'[p] \in Ended
  BY <1>0, <1>3 DEF Goto, TypeOK
<1>5. ReadAt(p)' /\ EditAt(p)' /\ IdleAt(p)'
  BY <1>4 DEF ReadAt, EditAt, IdleAt, Writing, Ended
<1>6. RunsAsConfigured'
  BY <1>2 DEF RunsAsConfigured
<1> QED BY <1>0, <1>1, <1>3, <1>5, <1>6, OnlyMover

\* Every step preserves the invariant.
LEMMA TurnStep ==
  ASSUME Serial, ConfigInv, TurnInv, [Next]_vars
  PROVE  TurnInv'
<1>0. TypeOK /\ Patches \subseteq Requests /\ Starts \subseteq Requests /\ Patches \cap Starts = {}
  BY ConstantsAssumption DEF ConfigInv, Requests
<1>a. /\ \A r \in Requests : ReadAt(r)
      /\ \A p \in Patches : EditAt(p) /\ IdleAt(p)
      /\ RunsAsConfigured
  BY DEF TurnInv
<1>1. ASSUME NEW p \in Patches, NEW named \in Patch, NEW null \in BOOLEAN, Begin(p, named, null)
      PROVE  TurnInv'
  <2>1. \A o \in Requests : o # p => pc[o] \notin Live
    BY <1>0, <1>1, NobodyElse DEF Begin
  <2>2. PICK next : /\ Goto(p, next)
                    /\ next = "refused" \/ (next = "roots" /\ ReadRow(p))
    BY <1>1 DEF Begin, End
  <2>3. pc'[p] = next /\ UNCHANGED <<row, bound, running>>
    BY <1>0, <1>1, <2>2 DEF Begin, Goto, TypeOK
  <2>4. ReadRow(p) => snap'[p] = row
    BY <1>0 DEF ReadRow, TypeOK
  <2>5. ReadAt(p)' /\ EditAt(p)' /\ IdleAt(p)'
    BY <2>2, <2>3, <2>4 DEF ReadAt, EditAt, IdleAt, Writing
  <2>6. RunsAsConfigured'
    BY <1>a, <2>3 DEF RunsAsConfigured
  <2> QED BY <1>0, <2>1, <2>2, <2>5, <2>6, OnlyMover
<1>2. ASSUME NEW r \in Requests, ReadRoots(r) PROVE TurnInv'
  <2>1. \A o \in Requests : o # r => pc[o] \notin Live
    BY <1>2, NobodyElse DEF ReadRoots, Live
  <2>2. PICK next \in {"status", "launch"} : Goto(r, next)
    BY <1>2 DEF ReadRoots
  <2>3. /\ pc[r] = "roots" /\ pc'[r] = next /\ snapRoots'[r] = bound
        /\ UNCHANGED <<snap, row, bound, running>>
    BY <1>0, <1>2, <2>2 DEF ReadRoots, Goto, TypeOK
  <2>4. ReadAt(r)' /\ EditAt(r)' /\ IdleAt(r)'
    BY <1>a, <2>3 DEF ReadAt, EditAt, IdleAt, Writing
  <2>5. RunsAsConfigured'
    BY <1>a, <2>3 DEF RunsAsConfigured
  <2> QED BY <1>0, <2>1, <2>2, <2>4, <2>5, OnlyMover
<1>3. ASSUME NEW p \in Patches, StatusCheck(p) PROVE TurnInv'
  <2>1. \A o \in Requests : o # p => pc[o] \notin Live
    BY <1>0, <1>3, NobodyElse DEF StatusCheck, Live
  <2>2. PICK next : Goto(p, next) /\ (next = "refused" \/ (next = "merge" /\ running = Null))
    BY <1>3 DEF StatusCheck, End
  <2>3. /\ pc[p] = "status" /\ pc'[p] = next
        /\ UNCHANGED <<snap, snapRoots, row, bound, running>>
    BY <1>0, <1>3, <2>2 DEF StatusCheck, Goto, TypeOK, req
  <2>4. ReadAt(p)' /\ EditAt(p)' /\ IdleAt(p)'
    BY <1>0, <1>a, <2>2, <2>3 DEF ReadAt, EditAt, IdleAt, Writing
  <2>5. RunsAsConfigured'
    BY <1>a, <2>3 DEF RunsAsConfigured
  <2> QED BY <1>0, <2>1, <2>2, <2>4, <2>5, OnlyMover
<1>4. ASSUME NEW p \in Patches, Merge(p) PROVE TurnInv'
  <2>1. \A o \in Requests : o # p => pc[o] \notin Live
    BY <1>0, <1>4, NobodyElse DEF Merge, Live
  <2>2. PICK next : Goto(p, next)
    BY <1>4 DEF Merge, End
  <2>3. pc[p] = "merge" /\ UNCHANGED <<row, bound, running>>
    BY <1>4 DEF Merge
  <2>4. IdleAt(p)'
    BY <1>a, <2>3 DEF IdleAt
  <2>5. ReadAt(p)' /\ EditAt(p)'
    BY <1>0, <1>4, <1>a, MergeKeeps
  <2>6. RunsAsConfigured'
    BY <1>a, <2>3 DEF RunsAsConfigured
  <2> QED BY <1>0, <2>1, <2>2, <2>4, <2>5, <2>6, OnlyMover
<1>5. ASSUME NEW p \in Patches, CheckRoots(p) \/ UpdateRow(p) \/ DeleteBegins(p) \/ DeleteEnds(p)
      PROVE  TurnInv'
  <2>1. pc[p] \in {"check", "update", "delete", "deleting"}
    BY <1>5 DEF CheckRoots, UpdateRow, DeleteBegins, DeleteEnds
  <2>2. \A o \in Requests : o # p => pc[o] \notin Live
    BY <1>0, <2>1, NobodyElse DEF Live
  <2>3. PICK next \in {"refused", "update", "delete", "deleting", "commit"} : Goto(p, next)
    BY <1>5 DEF CheckRoots, UpdateRow, DeleteBegins, DeleteEnds, End
  <2>4. pc'[p] = next /\ UNCHANGED <<patch, snap, snapRoots, row, bound, running>>
    BY <1>0, <1>5, <2>3 DEF CheckRoots, UpdateRow, DeleteBegins, DeleteEnds, req, Goto, TypeOK
  <2>5. ReadAt(p)' /\ EditAt(p)' /\ IdleAt(p)'
    BY <1>a, <2>1, <2>4 DEF ReadAt, EditAt, IdleAt, Writing
  <2>6. RunsAsConfigured'
    BY <1>a, <2>4 DEF RunsAsConfigured
  <2> QED BY <1>0, <2>2, <2>3, <2>5, <2>6, OnlyMover
<1>6. ASSUME NEW p \in Patches, Commit(p) PROVE TurnInv'
  BY <1>6, CommitInTurn
<1>7. ASSUME NEW s \in Starts, StartBegins(s) PROVE TurnInv'
  <2>1. \A o \in Requests : o # s => pc[o] \notin Live
    BY <1>0, <1>7, NobodyElse DEF StartBegins
  <2>2. Goto(s, "roots")
    BY <1>7 DEF StartBegins
  <2>3. pc'[s] = "roots" /\ snap'[s] = row /\ UNCHANGED <<row, bound, running>>
    BY <1>0, <1>7 DEF StartBegins, ReadRow, Goto, TypeOK
  <2>4. ReadAt(s)' /\ s \notin Patches
    BY <1>0, <2>3 DEF ReadAt
  <2>5. RunsAsConfigured'
    BY <1>a, <2>3 DEF RunsAsConfigured
  <2> QED BY <1>0, <2>1, <2>2, <2>4, <2>5, OnlyMover
<1>8. ASSUME NEW s \in Starts, Launch(s) PROVE TurnInv'
  <2>1. \A o \in Requests : o # s => pc[o] \notin Live
    BY <1>0, <1>8, NobodyElse DEF Launch, Live
  <2>2. PICK next \in Ended : Goto(s, next)
    BY <1>8 DEF Launch, End, Ended
  <2>3. pc[s] = "launch" /\ pc'[s] = next /\ UNCHANGED <<row, bound>>
    BY <1>0, <1>8, <2>2 DEF Launch, Goto, TypeOK
  <2>4. ReadAt(s)' /\ s \notin Patches
    BY <1>0, <2>3 DEF ReadAt, Ended
  <2>5. snap[s] = row /\ snapRoots[s] = bound
    BY <1>0, <1>a, <2>3 DEF ReadAt
  <2>6. RunsAsConfigured'
    BY <1>8, <1>a, <2>3, <2>5 DEF Launch, RunsAsConfigured
  <2> QED BY <1>0, <2>1, <2>2, <2>4, <2>6, OnlyMover
<1>9. CASE Stop
  <2>1. running' = Null /\ UNCHANGED <<pc, patch, snap, snapRoots, row, bound>>
    BY <1>9 DEF Stop, req
  <2> QED BY <2>1 DEF TurnInv, OneAtATime, ReadAt, EditAt, IdleAt, RunsAsConfigured
<1>10. CASE UNCHANGED vars
  BY <1>10 DEF vars, req, TurnInv, OneAtATime, ReadAt, EditAt, IdleAt, RunsAsConfigured
<1> QED BY <1>1, <1>2, <1>3, <1>4, <1>5, <1>6, <1>7, <1>8, <1>9, <1>10 DEF Next, Step

\* The invariant holds in every reachable state.
LEMMA TurnInvariant ==
  ASSUME Serial
  PROVE  Spec => []TurnInv
<1>1. Init => TurnInv
  BY DEF Init, TurnInv, OneAtATime, ReadAt, EditAt, IdleAt, RunsAsConfigured, Writing, Live, Requests
<1>2. ConfigInv /\ TurnInv /\ [Next]_vars => TurnInv'
  BY TurnStep
<1> QED BY <1>1, <1>2, ConfigInvariant, PTL DEF Spec

\* When clients wait for an answer before they send the next request, ComfyUI
\* runs with the stored configuration (start_instance reads it in two
\* statements, update_instance_launch_config asks for the status first).
THEOREM RunningMatchesTheRow ==
  ASSUME Serial
  PROVE  Spec => []RunsAsConfigured
<1>1. TurnInv => RunsAsConfigured
  BY DEF TurnInv
<1> QED BY <1>1, TurnInvariant, PTL

\* Then, too, an edit changes only what it names, although it writes the whole
\* row and all bindings from what it has read (update_instance_launch_config).
THEOREM EditsChangeWhatTheyName ==
  ASSUME Serial
  PROVE  Spec => UnnamedUnchanged
<1> DEFINE Kept(p) ==
      /\ patch[p].port = Absent => row'.port = row.port
      /\ patch[p].gpu = Absent => row'.gpu = row.gpu
      /\ patch[p].primary = Absent /\ row.primary \in bound' => row'.primary = row.primary
      /\ patch[p].roots = Absent => bound' = bound
<1>1. ConfigInv /\ TurnInv /\ [Next]_vars =>
        [\A p \in Patches : pc[p] = "commit" /\ pc'[p] = "done" => Kept(p)]_vars
  <2> SUFFICES ASSUME ConfigInv, TurnInv, [Next]_vars, NEW p \in Patches,
                      pc[p] = "commit", pc'[p] = "done"
               PROVE  Kept(p)
    OBVIOUS
  <2>1. Commit(p)
    <3>1. TypeOK /\ Patches \subseteq Requests /\ p \in Requests /\ p \notin Starts
      BY ConstantsAssumption DEF ConfigInv, Requests
    <3>2. ASSUME ~ \E o \in Patches : Commit(o) PROVE FALSE
      BY <3>2, HolderMoves DEF Writing
    <3>3. PICK o \in Patches : Commit(o)
      BY <3>2
    <3>4. o = p
      BY <3>1, <3>3 DEF Commit, End, Goto, TypeOK
    <3> QED BY <3>3, <3>4
  <2>2. dels[p] = bound /\ EditAt(p)
    BY DEF ConfigInv, DeleteInv, TurnInv
  <2>3. row' = snap[p] /\ bound' = snapRoots[p]
    BY <2>1, <2>2 DEF Commit
  <2> QED BY <2>2, <2>3 DEF EditAt, Writing
<1> QED BY <1>1, ConfigInvariant, TurnInvariant, PTL DEF Spec, UnnamedUnchanged

=============================================================================
