------------------------ MODULE InstanceInstallProofs ------------------------
(* Theorems about InstanceInstall, for every set of installs. *)
EXTENDS InstanceInstall, TLAPS

\* The promotion walks over entries that exist.
LEMMA AfterParkingType == \A s \in Slots : AfterParking[s] \in Slots
BY DEF AfterParking, Slots

\* Entries stay entries when a tree is moved in or out.
LEMMA EntryFacts ==
  /\ Empty \in Entry
  /\ \A v \in Version : Tree(v) \in Entry
  /\ \A e \in Entry, v \in Version : [e EXCEPT !.inner = v] \in Entry
BY DEF Entry, Empty, Tree

\* Every variable keeps its type: no install, whatever it races with, leaves an
\* entry of the instance directory in a state promote_install cannot name.
THEOREM TypeCorrect == Spec => []TypeOK
<1> USE DEF Live, Locked, Building, Promoting, Ended, Results
<1>1. Init => TypeOK
  BY EntryFacts DEF Init, TypeOK, Slots, Trees, Version
<1>2. TypeOK /\ [Next]_vars => TypeOK'
  <2> SUFFICES ASSUME TypeOK, [Next]_vars PROVE TypeOK'
    OBVIOUS
  <2> USE DEF TypeOK
  <2>1. ASSUME NEW i \in Installers, RequireFails(i) PROVE TypeOK'
    BY <2>1 DEF RequireFails
  <2>2. ASSUME NEW i \in Installers, CheckLock(i) PROVE TypeOK'
    BY <2>2 DEF CheckLock
  <2>3. ASSUME NEW i \in Installers, WriteLock(i) PROVE TypeOK'
    BY <2>3 DEF WriteLock
  <2>4. ASSUME NEW i \in Installers, Build(i) PROVE TypeOK'
    BY <2>4 DEF Build, NextStages, Adds, Trees
  <2>5. ASSUME NEW i \in Installers, BuildFails(i) PROVE TypeOK'
    BY <2>5 DEF BuildFails, StageErrors
  <2>6. ASSUME NEW i \in Installers, ParkTest(i) PROVE TypeOK'
    <3>1. slot[i] \in Slots /\ AfterParking[slot[i]] \in Slots BY AfterParkingType
    <3> QED BY <2>6, <3>1 DEF ParkTest, NextSlot
  <2>7. ASSUME NEW i \in Installers, ParkMove(i) PROVE TypeOK'
    <3>1. slot[i] \in Slots /\ active[slot[i]] \in Entry /\ AfterParking[slot[i]] \in Slots
      BY AfterParkingType
    <3>0. Empty \in Entry BY EntryFacts
    <3>2. CASE active[slot[i]] # Empty
      <4>1. previous' = [previous EXCEPT ![i] = [previous[i] EXCEPT ![slot[i]] = active[slot[i]]]]
        BY <2>7, <3>2 DEF ParkMove
      <4>2. previous[i] \in [Slots -> Entry] OBVIOUS
      <4>3. [previous[i] EXCEPT ![slot[i]] = active[slot[i]]] \in [Slots -> Entry]
        BY <3>1, <4>2
      <4>4. previous' \in [Installers -> [Slots -> Entry]] BY <4>1, <4>3
      <4>5. active' \in [Slots -> Entry] BY <2>7, <3>0, <3>1, <3>2 DEF ParkMove
      <4>6. slot' \in [Installers -> Slots] /\ pc' \in [Installers -> {"idle"} \cup Live \cup Ended]
        BY <2>7, <3>1, <3>2 DEF ParkMove, NextSlot
      <4> QED BY <2>7, <3>2, <4>4, <4>5, <4>6 DEF ParkMove
    <3>3. CASE active[slot[i]] = Empty
      BY <2>7, <3>1, <3>3 DEF ParkMove, PromoteError
    <3> QED BY <3>2, <3>3
  <2>8. ASSUME NEW i \in Installers, NEW t \in Trees, NEW next \in Promoting, Place(i, t, next)
        PROVE TypeOK'
    <3>1. t \in Slots /\ active[t] \in Entry /\ i \in Version BY DEF Trees, Slots, Version
    <3>2. CASE active[t].inner = NoTree
      <4>1. (IF active[t] = Empty THEN Tree(i) ELSE [active[t] EXCEPT !.inner = i]) \in Entry
        BY <3>1, EntryFacts
      <4>2. active' \in [Slots -> Entry] BY <2>8, <3>1, <3>2, <4>1 DEF Place
      <4>3. /\ staging' = [staging EXCEPT ![i] = staging[i] \ {t}]
            /\ pc' = [pc EXCEPT ![i] = next]
            /\ UNCHANGED <<lock, slot, res, previous>>
        BY <2>8, <3>2 DEF Place
      <4> QED BY <4>2, <4>3
    <3>3. CASE active[t].inner # NoTree
      BY <2>8, <3>3 DEF Place, PromoteError
    <3> QED BY <3>2, <3>3
  <2>9. ASSUME NEW i \in Installers, PlaceCheckout(i) \/ PlaceVenv(i) PROVE TypeOK'
    BY <2>8, <2>9 DEF PlaceCheckout, PlaceVenv, Trees
  <2>10. ASSUME NEW i \in Installers, WriteManifest(i) PROVE TypeOK'
    <3>1. Tree(i) \in Entry BY EntryFacts DEF Version
    <3> QED BY <2>10, <3>1 DEF WriteManifest
  <2>11. ASSUME NEW i \in Installers, IOFails(i) PROVE TypeOK'
    BY <2>11 DEF IOFails, WriteLockFails, TryFails, UnlinkFails, PromoteError
  <2>12. ASSUME NEW i \in Installers, Cleanup(i) PROVE TypeOK'
    BY <2>12 DEF Cleanup
  <2>13. ASSUME NEW i \in Installers, Crash(i) PROVE TypeOK'
    BY <2>13 DEF Crash
  <2>14. CASE UNCHANGED vars
    BY <2>14 DEF vars
  <2> QED BY <2>1, <2>2, <2>3, <2>4, <2>5, <2>6, <2>7, <2>9, <2>10, <2>11, <2>12, <2>13,
             <2>14 DEF Next, Step
<1> QED BY <1>1, <1>2, PTL DEF Spec

-----------------------------------------------------------------------------
(* The lock                                                                  *)

\* Only an install that is killed, or refused the write or the removal of the
\* lock file itself, leaves one behind (command_instance_install): no other
\* failure does, and no interleaving, although each install overwrites and
\* removes the lock of any other.
THEOREM LockIsLeftOnlyByFaults == Spec => []LockHasOwner
<1> USE DEF Locked, Building, Promoting
<1> DEFINE Left(i) == pc[i] \in Locked \cup {"crashed"} \/ res[i] = "LOCK_FILE_ERROR"
           Inv == /\ LockHasOwner
                  /\ \A i \in Installers : res[i] = "LOCK_FILE_ERROR" => pc[i] = "failed"
<1>1. Init => Inv
  BY DEF Init, LockHasOwner
<1>2. TypeOK /\ Inv /\ [Next]_vars => Inv'
  <2> SUFFICES ASSUME TypeOK, Inv, [Next]_vars PROVE Inv'
    OBVIOUS
  <2> USE DEF TypeOK
  <2>1. ASSUME NEW i \in Installers, UNCHANGED lock, Left(i) => Left(i)',
               \A j \in Installers : j # i => pc'[j] = pc[j] /\ res'[j] = res[j],
               res'[i] = "LOCK_FILE_ERROR" => pc'[i] = "failed"
        PROVE  Inv'
    BY <2>1 DEF LockHasOwner
  <2>2. ASSUME NEW i \in Installers, RequireFails(i) \/ CheckLock(i) PROVE Inv'
    BY <2>1, <2>2 DEF RequireFails, CheckLock, LockHasOwner
  <2>3. ASSUME NEW i \in Installers, WriteLock(i) PROVE Inv'
    BY <2>3 DEF WriteLock, LockHasOwner
  <2>4. ASSUME NEW i \in Installers, Build(i) \/ BuildFails(i) PROVE Inv'
    <3>1. /\ UNCHANGED lock /\ pc'[i] \in Locked
          /\ \A j \in Installers : j # i => pc'[j] = pc[j] /\ res'[j] = res[j]
      BY <2>4 DEF Build, BuildFails, NextStages
    <3>2. res'[i] # "LOCK_FILE_ERROR"
      BY <2>4 DEF Build, BuildFails, StageErrors
    <3> QED BY <2>1, <3>1, <3>2
  <2>5. ASSUME NEW i \in Installers, ParkTest(i) \/ ParkMove(i) PROVE Inv'
    BY <2>1, <2>5 DEF ParkTest, ParkMove, NextSlot, PromoteError
  <2>6. ASSUME NEW i \in Installers, PlaceCheckout(i) \/ PlaceVenv(i) PROVE Inv'
    BY <2>1, <2>6 DEF PlaceCheckout, PlaceVenv, Place, PromoteError
  <2>7. ASSUME NEW i \in Installers, WriteManifest(i) \/ TryFails(i) PROVE Inv'
    BY <2>1, <2>7 DEF WriteManifest, TryFails, PromoteError
  <2>8. ASSUME NEW i \in Installers, Cleanup(i) PROVE Inv'
    BY <2>8 DEF Cleanup, LockHasOwner
  <2>9. ASSUME NEW i \in Installers, Crash(i) PROVE Inv'
    BY <2>1, <2>9 DEF Crash, Live
  <2>10. ASSUME NEW i \in Installers, WriteLockFails(i) \/ UnlinkFails(i) PROVE Inv'
    BY <2>10 DEF WriteLockFails, UnlinkFails, LockHasOwner
  <2>11. CASE UNCHANGED vars
    BY <2>11 DEF vars, LockHasOwner
  <2> QED BY <2>2, <2>3, <2>4, <2>5, <2>6, <2>7, <2>8, <2>9, <2>10, <2>11 DEF Next, Step, IOFails
<1> QED BY <1>1, <1>2, TypeCorrect, PTL DEF Spec

\* Once nobody is left to remove the lock, it stays and no install gets past
\* it: the instance keeps its active version for good (command_instance_install
\* tests the existence of the file only).
THEOREM AbandonedLockIsFinal == Spec => AbandonedLockRefusesInstalls
<1>1. TypeOK /\ [Next]_vars => [AbandonedLock => AbandonedLock' /\ active' = active]_vars
  <2> SUFFICES ASSUME TypeOK, [Next]_vars, AbandonedLock
               PROVE  AbandonedLock' /\ active' = active
    OBVIOUS
  <2>1. \A i \in Installers : pc[i] \notin Live
    BY DEF AbandonedLock
  <2>2. \A i \in Installers : ~Step(i) /\ ~Crash(i)
    BY <2>1 DEF Step, Crash, WriteLock, Build, BuildFails, ParkTest, ParkMove, PlaceCheckout,
                PlaceVenv, WriteManifest, IOFails, WriteLockFails, TryFails, UnlinkFails, Cleanup, Live, Locked, Promoting, Building
  <2>3. ASSUME NEW i \in Installers, RequireFails(i) \/ CheckLock(i)
        PROVE  AbandonedLock' /\ active' = active
    <3>1. lock # Nobody
      BY DEF AbandonedLock
    <3>2. pc' = [pc EXCEPT ![i] = "failed"] /\ UNCHANGED <<lock, active>>
      BY <2>3, <3>1 DEF RequireFails, CheckLock
    <3>3. \A k \in Installers : pc'[k] \notin Live
      BY <2>1, <3>2 DEF TypeOK, Live, Locked, Promoting, Building
    <3> QED BY <3>1, <3>2, <3>3 DEF AbandonedLock
  <2>4. CASE UNCHANGED vars
    BY <2>4 DEF AbandonedLock, vars
  <2> QED BY <2>2, <2>3, <2>4 DEF Next
<1> QED BY <1>1, TypeCorrect, PTL DEF Spec, AbandonedLockRefusesInstalls

-----------------------------------------------------------------------------
(* Nothing installed is ever deleted                                         *)

BeforePromotion == {"idle", "checked"} \cup Building

\* The entries a promotion that has come to entry s has still to park.
From == [checkout |-> Slots, venv |-> {"venv", "manifest"}, manifest |-> {"manifest"}]

\* An install parks every entry once: what it has still to park is not yet in
\* its directory under .previous, so parking never overwrites a parked tree.
ParkInv ==
  \A i \in Installers :
    /\ pc[i] \in BeforePromotion => slot[i] = "checkout"
    /\ pc[i] \in BeforePromotion \cup {"test", "move"} =>
         \A s \in From[slot[i]] : previous[i][s] = Empty

\* The walk over the entries never comes back to one.
LEMMA FromFacts ==
  /\ From["checkout"] = Slots
  /\ \A s \in Slots : s \in From[s] /\ From[s] \subseteq Slots
  /\ \A s \in Slots \ {"manifest"} : From[AfterParking[s]] \subseteq From[s] \ {s}
BY DEF From, Slots, AfterParking

\* That invariant holds in every reachable state.
LEMMA ParkInvariant == Spec => []ParkInv
<1> USE DEF ParkInv, BeforePromotion, Building
<1>1. Init => ParkInv
  <2> SUFFICES ASSUME Init, NEW i \in Installers
               PROVE  slot[i] = "checkout" /\ \A s \in From[slot[i]] : previous[i][s] = Empty
    OBVIOUS
  <2>1. slot[i] = "checkout" /\ previous[i] = [s \in Slots |-> Empty] BY DEF Init
  <2> QED BY <2>1, FromFacts
<1>2. TypeOK /\ ParkInv /\ [Next]_vars => ParkInv'
  <2> SUFFICES ASSUME TypeOK, ParkInv, [Next]_vars PROVE ParkInv'
    OBVIOUS
  <2> USE DEF TypeOK
  <2>1. ASSUME NEW i \in Installers,
               RequireFails(i) \/ CheckLock(i) \/ WriteLock(i) \/ Build(i) \/ BuildFails(i)
        PROVE  ParkInv'
    BY <2>1 DEF RequireFails, CheckLock, WriteLock, Build, BuildFails, NextStages
  <2>2. ASSUME NEW i \in Installers, ParkTest(i) PROVE ParkInv'
    <3>1. slot[i] \in Slots BY DEF TypeOK
    <3> QED BY <2>2, <3>1, FromFacts DEF ParkTest, NextSlot
  <2>3. ASSUME NEW i \in Installers, ParkMove(i) PROVE ParkInv'
    <3>1. slot[i] \in Slots BY DEF TypeOK
    <3>2. CASE active[slot[i]] # Empty
      <4>1. \A j \in Installers : j # i =>
              pc'[j] = pc[j] /\ slot'[j] = slot[j] /\ previous'[j] = previous[j]
        BY <2>3, <3>2 DEF ParkMove, NextSlot
      <4>2. \A s \in Slots : s # slot[i] => previous'[i][s] = previous[i][s]
        BY <2>3, <3>1, <3>2 DEF ParkMove
      <4>3. CASE slot[i] = "manifest"
        <5>1. pc'[i] = "place_checkout" BY <2>3, <3>2, <4>3 DEF ParkMove, NextSlot
        <5> QED BY <4>1, <5>1
      <4>4. CASE slot[i] # "manifest"
        <5>1. pc'[i] = "test" /\ slot'[i] = AfterParking[slot[i]]
          BY <2>3, <3>2, <4>4 DEF ParkMove, NextSlot
        <5>2. \A s \in From[slot'[i]] : s \in From[slot[i]] /\ s # slot[i] /\ s \in Slots
          BY <3>1, <4>4, <5>1, FromFacts
        <5>3. pc[i] = "move" BY <2>3 DEF ParkMove
        <5>4. \A s \in From[slot'[i]] : previous'[i][s] = Empty
          BY <4>2, <5>2, <5>3
        <5> QED BY <4>1, <5>1, <5>4
      <4> QED BY <4>3, <4>4
    <3>3. CASE active[slot[i]] = Empty
      BY <2>3, <3>3 DEF ParkMove, PromoteError
    <3> QED BY <3>2, <3>3
  <2>4. ASSUME NEW i \in Installers, PlaceCheckout(i) \/ PlaceVenv(i) PROVE ParkInv'
    BY <2>4 DEF PlaceCheckout, PlaceVenv, Place, PromoteError
  <2>5. ASSUME NEW i \in Installers,
               WriteManifest(i) \/ IOFails(i) \/ Cleanup(i) \/ Crash(i)
        PROVE  ParkInv'
    BY <2>5 DEF WriteManifest, IOFails, WriteLockFails, TryFails, UnlinkFails, PromoteError, Cleanup, Crash
  <2>6. CASE UNCHANGED vars
    BY <2>6 DEF vars
  <2> QED BY <2>1, <2>2, <2>3, <2>4, <2>5, <2>6 DEF Next, Step
<1> QED BY <1>1, <1>2, TypeCorrect, PTL DEF Spec

\* A step keeps every tree that is on disk, if parking overwrites nothing.
LEMMA StepKeepsTrees ==
  ASSUME TypeOK, ParkInv, [Next]_vars, NEW t \in Trees, NEW v \in Version, OnDisk(t, v)
  PROVE  OnDisk(t, v)'
<1> USE DEF TypeOK, Holds
<1>1. t \in Slots /\ t # "manifest" BY DEF Trees, Slots
<1>2. v # NoTree BY ConstantsAssumption DEF Version
<1>3. ASSUME UNCHANGED <<active, previous>> PROVE OnDisk(t, v)'
  BY <1>3 DEF OnDisk
<1>4. ASSUME NEW i \in Installers, ParkMove(i) PROVE OnDisk(t, v)'
  <2>1. CASE active[slot[i]] = Empty
    BY <1>3, <1>4, <2>1 DEF ParkMove, PromoteError
  <2>2. CASE active[slot[i]] # Empty
    <3>1. /\ previous' = [previous EXCEPT ![i] = [previous[i] EXCEPT ![slot[i]] = active[slot[i]]]]
          /\ active' = [active EXCEPT ![slot[i]] = Empty]
      BY <1>4, <2>2 DEF ParkMove
    <3>2. slot[i] \in Slots /\ previous[i] \in [Slots -> Entry] OBVIOUS
    <3>3. previous[i][slot[i]] = Empty
      <4>1. pc[i] = "move" BY <1>4 DEF ParkMove
      <4> QED BY <3>2, <4>1, FromFacts DEF ParkInv
    <3>4. ~Holds(previous[i][slot[i]], v) BY <1>2, <3>3 DEF Empty
    <3>5. CASE t = slot[i]
      <4>1. previous'[i][t] = active[t] BY <3>1, <3>2, <3>5
      <4>2. \A j \in Installers : j # i => previous'[j][t] = previous[j][t] BY <3>1
      <4> QED BY <3>4, <3>5, <4>1, <4>2 DEF OnDisk
    <3>6. CASE t # slot[i]
      <4>1. active'[t] = active[t] BY <1>1, <3>1, <3>6
      <4>2. \A j \in Installers : previous'[j][t] = previous[j][t] BY <1>1, <3>1, <3>2, <3>6
      <4> QED BY <4>1, <4>2 DEF OnDisk
    <3> QED BY <3>5, <3>6
  <2> QED BY <2>1, <2>2
<1>5. ASSUME NEW i \in Installers, NEW u \in Trees, NEW next, Place(i, u, next)
      PROVE  OnDisk(t, v)'
  <2>1. CASE active[u].inner # NoTree
    BY <1>3, <1>5, <2>1 DEF Place, PromoteError
  <2>2. CASE active[u].inner = NoTree
    <3>1. /\ active' = [active EXCEPT ![u] = IF active[u] = Empty THEN Tree(i)
                                             ELSE [active[u] EXCEPT !.inner = i]]
          /\ previous' = previous
      BY <1>5, <2>2 DEF Place
    <3>2. Holds(active[t], v) => Holds(active'[t], v)
      <4>1. CASE t # u BY <1>1, <3>1, <4>1
      <4>2. CASE t = u
        <5>1. active[u] \in Entry BY <1>1, <4>2
        <5>2. Holds(active[u], v) => active[u].outer = v /\ active[u] # Empty
          BY <1>2, <2>2 DEF Empty
        <5>3. active[u] # Empty => active'[u] = [active[u] EXCEPT !.inner = i]
          BY <1>1, <3>1, <4>2
        <5> QED BY <4>2, <5>1, <5>2, <5>3 DEF Entry
      <4> QED BY <4>1, <4>2
    <3> QED BY <3>1, <3>2 DEF OnDisk
  <2> QED BY <2>1, <2>2
<1>6. ASSUME NEW i \in Installers, WriteManifest(i) PROVE OnDisk(t, v)'
  <2>1. active'[t] = active[t] /\ previous' = previous BY <1>1, <1>6 DEF WriteManifest
  <2> QED BY <2>1 DEF OnDisk
<1>7. ASSUME NEW i \in Installers, PlaceCheckout(i) \/ PlaceVenv(i) PROVE OnDisk(t, v)'
  BY <1>5, <1>7 DEF PlaceCheckout, PlaceVenv, Trees
<1>8. ASSUME NEW i \in Installers,
             \/ RequireFails(i) \/ CheckLock(i) \/ WriteLock(i) \/ Build(i) \/ BuildFails(i)
             \/ ParkTest(i) \/ IOFails(i) \/ Cleanup(i) \/ Crash(i)
      PROVE  OnDisk(t, v)'
  BY <1>3, <1>8 DEF RequireFails, CheckLock, WriteLock, Build, BuildFails, ParkTest,
     IOFails, WriteLockFails, TryFails, UnlinkFails, PromoteError, Cleanup, Crash
<1>9. CASE UNCHANGED vars
  BY <1>3, <1>9 DEF vars
<1> QED BY <1>4, <1>6, <1>7, <1>8, <1>9 DEF Next, Step

\* No step of any install, racing, killed or refused by the file system,
\* deletes a checkout or a virtual environment that was ever active.
THEOREM NothingInstalledIsLost == Spec => InstalledNeverLost
<1>1. TypeOK /\ ParkInv /\ [Next]_vars =>
        [\A t \in Trees, v \in Version : OnDisk(t, v) => OnDisk(t, v)']_vars
  BY StepKeepsTrees
<1> QED BY <1>1, TypeCorrect, ParkInvariant, PTL DEF Spec, InstalledNeverLost

\* What a promotion has placed so far is on disk.
PlacedInv ==
  \A i \in Installers :
    /\ pc[i] \in {"place_venv", "write_manifest"} => OnDisk("checkout", i)
    /\ pc[i] = "write_manifest" => OnDisk("venv", i)
    /\ res[i] = "ok" => OnDisk("checkout", i) /\ OnDisk("venv", i)

\* shutil.move leaves the tree it moves at, or inside, its target.
LEMMA PlaceIsOnDisk ==
  ASSUME TypeOK, NEW i \in Installers, NEW t \in Trees, NEW next, Place(i, t, next),
         pc'[i] = next, next # "cleanup"
  PROVE  OnDisk(t, i)'
<1>1. t \in Slots /\ active[t] \in Entry BY DEF TypeOK, Trees, Slots
<1>2. active[t].inner = NoTree
  BY DEF Place, PromoteError, TypeOK
<1>3. active'[t] = IF active[t] = Empty THEN Tree(i) ELSE [active[t] EXCEPT !.inner = i]
  BY <1>1, <1>2 DEF Place, TypeOK
<1>4. i \in {active'[t].outer, active'[t].inner}
  BY <1>1, <1>3 DEF Entry, Tree
<1> QED BY <1>4 DEF OnDisk, Holds

\* An install that reports success has its trees in the instance directory,
\* and no later or concurrent install takes them away.
THEOREM SuccessStaysOnDisk == Spec => []SuccessIsOnDisk
<1>1. Init => PlacedInv
  BY DEF Init, PlacedInv
<1>2. TypeOK /\ ParkInv /\ PlacedInv /\ [Next]_vars => PlacedInv'
  <2> SUFFICES ASSUME TypeOK, ParkInv, PlacedInv, [Next]_vars PROVE PlacedInv'
    OBVIOUS
  <2> USE DEF TypeOK
  <2>1. \A k \in Installers, t \in Trees : OnDisk(t, k) => OnDisk(t, k)'
    BY StepKeepsTrees DEF Version
  <2>2. "checkout" \in Trees /\ "venv" \in Trees BY DEF Trees
  <2>3. ASSUME NEW i \in Installers,
               \A k \in Installers : k # i => pc'[k] = pc[k] /\ res'[k] = res[k],
               pc'[i] \in {"place_venv", "write_manifest"} => OnDisk("checkout", i)',
               pc'[i] = "write_manifest" => OnDisk("venv", i)',
               res'[i] = "ok" => OnDisk("checkout", i)' /\ OnDisk("venv", i)'
        PROVE  PlacedInv'
    BY <2>1, <2>2, <2>3 DEF PlacedInv
  <2>4. ASSUME NEW i \in Installers,
               \A k \in Installers : k # i => pc'[k] = pc[k] /\ res'[k] = res[k],
               pc'[i] \notin {"place_venv", "write_manifest"},
               res'[i] = res[i] \/ res'[i] # "ok"
        PROVE  PlacedInv'
    BY <2>1, <2>2, <2>3, <2>4 DEF PlacedInv
  <2>5. ASSUME NEW i \in Installers,
               \/ RequireFails(i) \/ CheckLock(i) \/ WriteLock(i) \/ Build(i) \/ BuildFails(i)
               \/ ParkTest(i) \/ ParkMove(i) \/ Cleanup(i) \/ Crash(i)
        PROVE  PlacedInv'
    <3>1. \A k \in Installers : k # i => pc'[k] = pc[k] /\ res'[k] = res[k]
      BY <2>5 DEF RequireFails, CheckLock, WriteLock, Build, BuildFails, ParkTest, ParkMove,
         NextSlot, PromoteError, Cleanup, Crash
    <3>2. pc'[i] \notin {"place_venv", "write_manifest"}
      BY <2>5 DEF RequireFails, CheckLock, WriteLock, Build, BuildFails, ParkTest, ParkMove,
         NextSlot, PromoteError, Cleanup, Crash, NextStages, Building
    <3>3. res'[i] = res[i] \/ res'[i] # "ok"
      BY <2>5 DEF RequireFails, CheckLock, WriteLock, Build, BuildFails, ParkTest, ParkMove,
         NextSlot, PromoteError, Cleanup, Crash, StageErrors, Building
    <3> QED BY <2>4, <3>1, <3>2, <3>3
  <2>50. ASSUME NEW i \in Installers, IOFails(i) PROVE PlacedInv'
    BY <2>4, <2>50 DEF IOFails, WriteLockFails, TryFails, UnlinkFails, PromoteError
  <2>6. ASSUME NEW i \in Installers, PlaceCheckout(i) PROVE PlacedInv'
    <3>1. Place(i, "checkout", "place_venv") BY <2>6 DEF PlaceCheckout
    <3>2. \A k \in Installers : k # i => pc'[k] = pc[k] /\ res'[k] = res[k]
      BY <3>1 DEF Place, PromoteError
    <3>3. /\ pc'[i] \in {"place_venv", "cleanup"}
          /\ res'[i] = res[i] \/ res'[i] # "ok"
      BY <3>1 DEF Place, PromoteError
    <3>4. pc'[i] = "place_venv" => OnDisk("checkout", i)'
      BY <2>2, <3>1, PlaceIsOnDisk
    <3>5. res'[i] = "ok" => OnDisk("checkout", i)' /\ OnDisk("venv", i)'
      BY <2>1, <2>2, <3>3 DEF PlacedInv
    <3> QED BY <2>3, <3>2, <3>3, <3>4, <3>5
  <2>7. ASSUME NEW i \in Installers, PlaceVenv(i) PROVE PlacedInv'
    <3>1. Place(i, "venv", "write_manifest") /\ pc[i] = "place_venv" BY <2>7 DEF PlaceVenv
    <3>2. \A k \in Installers : k # i => pc'[k] = pc[k] /\ res'[k] = res[k]
      BY <3>1 DEF Place, PromoteError
    <3>3. /\ pc'[i] \in {"write_manifest", "cleanup"}
          /\ res'[i] = res[i] \/ res'[i] # "ok"
      BY <3>1 DEF Place, PromoteError
    <3>4. pc'[i] = "write_manifest" => OnDisk("venv", i)'
      BY <2>2, <3>1, PlaceIsOnDisk
    <3>5. OnDisk("checkout", i)' BY <2>1, <2>2, <3>1 DEF PlacedInv
    <3>6. res'[i] = "ok" => OnDisk("checkout", i)' /\ OnDisk("venv", i)'
      BY <2>1, <2>2, <3>3 DEF PlacedInv
    <3> QED BY <2>3, <3>2, <3>3, <3>4, <3>5, <3>6
  <2>8. ASSUME NEW i \in Installers, WriteManifest(i) PROVE PlacedInv'
    <3>1. pc[i] = "write_manifest" BY <2>8 DEF WriteManifest
    <3>2. OnDisk("checkout", i)' /\ OnDisk("venv", i)' BY <2>1, <2>2, <3>1 DEF PlacedInv
    <3>3. \A k \in Installers : k # i => pc'[k] = pc[k] /\ res'[k] = res[k]
      BY <2>8 DEF WriteManifest
    <3> QED BY <2>3, <3>2, <3>3
  <2>9. CASE UNCHANGED vars
    BY <2>9 DEF vars, PlacedInv, OnDisk
  <2> QED BY <2>5, <2>50, <2>6, <2>7, <2>8, <2>9 DEF Next, Step
<1>3. PlacedInv => SuccessIsOnDisk
  BY DEF PlacedInv, SuccessIsOnDisk, Trees
<1> QED BY <1>1, <1>2, <1>3, TypeCorrect, ParkInvariant, PTL DEF Spec

-----------------------------------------------------------------------------
(* One install at a time replaces the active version as a whole              *)

Whole ==
  \/ \A s \in Slots : active[s] = Empty
  \/ \E v \in Version : \A s \in Slots : active[s] = Tree(v)

\* How far the only install has come tells which entries it has emptied and
\* which it has filled.
CoherentInv ==
  /\ \A i, j \in Installers : pc[i] \in Live /\ pc[j] \in Live => i = j
  /\ Quiet => Whole
  /\ \A i \in Installers :
       /\ pc[i] \in {"idle", "checked"} \cup Building => slot[i] = "checkout"
       /\ pc[i] \in {"test", "move"} =>
            /\ slot[i] = "checkout" => Whole
            /\ slot[i] \in {"venv", "manifest"} => active["checkout"] = Empty
            /\ slot[i] = "manifest" => active["venv"] = Empty
       /\ pc[i] = "move" => active[slot[i]] # Empty
       /\ pc[i] \in {"place_checkout", "place_venv", "write_manifest"} =>
            active["manifest"] = Empty
       /\ pc[i] \in {"place_checkout", "place_venv"} => active["venv"] = Empty
       /\ pc[i] = "place_checkout" => active["checkout"] = Empty
       /\ pc[i] \in {"place_venv", "write_manifest"} => active["checkout"] = Tree(i)
       /\ pc[i] = "write_manifest" => active["venv"] = Tree(i)

\* Every step of installs in turn keeps it.
LEMMA SerialInstallsAreOrderly ==
  ASSUME Serial, ~Crashes, ~IOFaults
  PROVE  Spec => []CoherentInv
<1> USE DEF Live, Locked, Building, Promoting
<1>1. Init => CoherentInv
  BY DEF Init, CoherentInv, Whole, Version, Quiet
<1>2. TypeOK /\ CoherentInv /\ [Next]_vars => CoherentInv'
  <2> SUFFICES ASSUME TypeOK, CoherentInv, [Next]_vars PROVE CoherentInv'
    OBVIOUS
  <2> USE DEF TypeOK, CoherentInv
  <2>1. ASSUME NEW i \in Installers, RequireFails(i) \/ CheckLock(i) PROVE CoherentInv'
    BY <2>1 DEF RequireFails, CheckLock, MayBegin, Whole, Quiet
  <2>2. ASSUME NEW i \in Installers, WriteLock(i) \/ BuildFails(i) PROVE CoherentInv'
    BY <2>2 DEF WriteLock, BuildFails, Whole, Quiet
  <2>3. ASSUME NEW i \in Installers, Build(i) PROVE CoherentInv'
    BY <2>3 DEF Build, NextStages, Whole, Quiet
  <2>4. ASSUME NEW i \in Installers, ParkTest(i) PROVE CoherentInv'
    BY <2>4 DEF ParkTest, NextSlot, AfterParking, Whole, Quiet, Slots
  <2>5. ASSUME NEW i \in Installers, ParkMove(i) PROVE CoherentInv'
    <3>1. active[slot[i]] # Empty /\ pc[i] = "move" /\ slot[i] \in Slots BY <2>5 DEF ParkMove
    <3>2. /\ active' = [active EXCEPT ![slot[i]] = Empty]
          /\ slot' = [slot EXCEPT ![i] = AfterParking[slot[i]]]
          /\ pc' = [pc EXCEPT ![i] = IF slot[i] = "manifest" THEN "place_checkout" ELSE "test"]
      BY <2>5, <3>1 DEF ParkMove, NextSlot
    <3>3. \A k \in Installers : k # i => pc[k] \notin Live BY <3>1
    <3>4. ~Quiet' BY <3>1, <3>2 DEF Quiet
    <3>5. CASE slot[i] = "checkout"
      <4>1. pc'[i] = "test" /\ slot'[i] = "venv" /\ active'["checkout"] = Empty
        BY <3>2, <3>5 DEF AfterParking, Slots
      <4> QED BY <3>2, <3>3, <3>4, <4>1
    <3>6. CASE slot[i] = "venv"
      <4>1. /\ pc'[i] = "test" /\ slot'[i] = "manifest"
            /\ active'["checkout"] = Empty /\ active'["venv"] = Empty
        BY <3>1, <3>2, <3>6 DEF AfterParking, Slots
      <4> QED BY <3>2, <3>3, <3>4, <4>1
    <3>7. CASE slot[i] = "manifest"
      <4>1. pc'[i] = "place_checkout" /\ \A s \in Slots : active'[s] = Empty
        BY <3>1, <3>2, <3>7 DEF Slots
      <4> QED BY <3>2, <3>3, <3>4, <4>1 DEF Slots
    <3> QED BY <3>1, <3>5, <3>6, <3>7 DEF Slots
  <2>6. ASSUME NEW i \in Installers, PlaceCheckout(i) PROVE CoherentInv'
    BY <2>6 DEF PlaceCheckout, Place, Whole, Quiet, Slots, Empty, PromoteError
  <2>7. ASSUME NEW i \in Installers, PlaceVenv(i) PROVE CoherentInv'
    <3>1. /\ pc[i] = "place_venv" /\ active["venv"] = Empty /\ active["manifest"] = Empty
          /\ active["checkout"] = Tree(i)
      BY <2>7 DEF PlaceVenv
    <3>2. active' = [active EXCEPT !["venv"] = Tree(i)] /\ pc' = [pc EXCEPT ![i] = "write_manifest"]
          /\ slot' = slot
      BY <2>7, <3>1 DEF PlaceVenv, Place, Empty, PromoteError
    <3>3. \A k \in Installers : k # i => pc[k] \notin Live BY <3>1
    <3>4. ~Quiet' BY <3>1, <3>2 DEF Quiet
    <3>5. /\ active'["venv"] = Tree(i) /\ active'["manifest"] = Empty
          /\ active'["checkout"] = Tree(i)
      BY <3>1, <3>2 DEF Slots
    <3> QED BY <3>2, <3>3, <3>4, <3>5
  <2>8. ASSUME NEW i \in Installers, WriteManifest(i) PROVE CoherentInv'
    BY <2>8 DEF WriteManifest, Whole, Quiet, Slots, Version
  <2>9. ASSUME NEW i \in Installers, Cleanup(i) PROVE CoherentInv'
    BY <2>9 DEF Cleanup, Whole, Quiet
  <2>10. ASSUME NEW i \in Installers, IOFails(i) \/ Crash(i) PROVE FALSE
    BY <2>10 DEF IOFails, WriteLockFails, TryFails, UnlinkFails, Crash
  <2>11. CASE UNCHANGED vars
    BY <2>11 DEF vars, Whole, Quiet
  <2> QED BY <2>1, <2>2, <2>3, <2>4, <2>5, <2>6, <2>7, <2>8, <2>9, <2>10, <2>11 DEF Next, Step
<1> QED BY <1>1, <1>2, TypeCorrect, PTL DEF Spec

\* When callers wait for each other, nothing is killed and the file system
\* does not refuse a move, the active checkout, environment and manifest are
\* always one version's outside a promotion.
THEOREM SerialInstallsAreCoherent ==
  ASSUME Serial, ~Crashes, ~IOFaults
  PROVE  Spec => []ActiveCoherent
<1>1. CoherentInv => ActiveCoherent
  BY DEF CoherentInv, ActiveCoherent, Whole
<1> QED BY <1>1, SerialInstallsAreOrderly, PTL

-----------------------------------------------------------------------------
(* Installs in turn replace the version as if in one step                    *)

\* An install that may still succeed or fail has no outcome.
Unanswered == \A i \in Installers : pc[i] \notin {"cleanup"} \cup Ended => res[i] = "none"

\* An install parks no manifest before it has come to that entry.
ManifestKept ==
  \A i \in Installers :
    pc[i] \in {"idle", "checked", "test", "move"} \cup Building => previous[i]["manifest"] = Empty

OpenInv == Unanswered /\ ManifestKept

LEMMA OpenInvariant == Spec => []OpenInv
<1> USE DEF Ended, OpenInv, Unanswered, ManifestKept, Building
<1>1. Init => OpenInv
  BY DEF Init, Slots
<1>2. TypeOK /\ OpenInv /\ [Next]_vars => OpenInv'
  <2> SUFFICES ASSUME TypeOK, OpenInv, [Next]_vars PROVE OpenInv'
    OBVIOUS
  <2> USE DEF TypeOK
  <2>1. ASSUME NEW i \in Installers, RequireFails(i) \/ CheckLock(i) PROVE OpenInv'
    BY <2>1 DEF RequireFails, CheckLock
  <2>2. ASSUME NEW i \in Installers, WriteLock(i) \/ Build(i) \/ BuildFails(i) PROVE OpenInv'
    BY <2>2 DEF WriteLock, Build, NextStages, BuildFails
  <2>3. ASSUME NEW i \in Installers, ParkTest(i) PROVE OpenInv'
    BY <2>3 DEF ParkTest, NextSlot
  <2>4. ASSUME NEW i \in Installers, ParkMove(i) PROVE OpenInv'
    <3>1. CASE PromoteError(i)
      BY <2>4, <3>1 DEF ParkMove, PromoteError
    <3>2. CASE active[slot[i]] # Empty
      <4>1. /\ pc[i] = "move" /\ UNCHANGED res
            /\ previous' = [previous EXCEPT ![i] = [previous[i] EXCEPT ![slot[i]] = active[slot[i]]]]
            /\ pc' = [pc EXCEPT ![i] = IF slot[i] = "manifest" THEN "place_checkout" ELSE "test"]
        BY <2>4, <3>2 DEF ParkMove, NextSlot
      <4>2. slot[i] # "manifest" => previous'[i]["manifest"] = previous[i]["manifest"]
        BY <4>1 DEF Slots
      <4> QED BY <4>1, <4>2
    <3> QED BY <2>4, <3>1, <3>2 DEF ParkMove
  <2>5. ASSUME NEW i \in Installers, PlaceCheckout(i) \/ PlaceVenv(i) PROVE OpenInv'
    BY <2>5 DEF PlaceCheckout, PlaceVenv, Place, PromoteError
  <2>6. ASSUME NEW i \in Installers,
               WriteManifest(i) \/ IOFails(i) \/ Cleanup(i) \/ Crash(i)
        PROVE  OpenInv'
    BY <2>6 DEF WriteManifest, IOFails, WriteLockFails, TryFails, UnlinkFails, PromoteError, Cleanup, Crash
  <2>7. CASE UNCHANGED vars
    BY <2>7 DEF vars
  <2> QED BY <2>1, <2>2, <2>3, <2>4, <2>5, <2>6, <2>7 DEF Next, Step
<1> QED BY <1>1, <1>2, TypeCorrect, PTL DEF Spec

\* The version in place while install i promotes.
Found(i) ==
  IF active["manifest"] # Empty THEN active["manifest"].outer ELSE previous[i]["manifest"].outer

\* With one install under way there is no doubt which one promotes.
LEMMA OnePromoter ==
  ASSUME NEW at, NEW i \in Installers, at[i] \in Promoting,
         \A j \in Installers : at[j] \in Promoting => j = i
  PROVE  (CHOOSE j \in Installers : at[j] \in Promoting) = i
  OBVIOUS

LEMMA PlaceOfPromotion ==
  ASSUME CoherentInv, NEW i \in Installers, pc[i] \in Promoting
  PROVE  InPlace = Found(i)
<1>1. \A j \in Installers : pc[j] \in Promoting => j = i
  BY DEF CoherentInv, Live, Locked
<1>2. ~Quiet
  BY DEF Quiet
<1>3. (CHOOSE j \in Installers : pc[j] \in Promoting) = i
  BY <1>1, OnePromoter
<1> QED BY <1>2, <1>3 DEF InPlace, Found

LEMMA PlaceOfPromotionNext ==
  ASSUME CoherentInv', NEW i \in Installers, pc'[i] \in Promoting
  PROVE  InPlace' = Found(i)'
<1>1. \A j \in Installers : pc'[j] \in Promoting => j = i
  BY DEF CoherentInv, Live, Locked, Promoting, Building
<1>2. ~Quiet'
  BY DEF Quiet, Promoting
<1>3. (CHOOSE j \in Installers : pc'[j] \in Promoting) = i
  BY <1>1, OnePromoter
<1> QED BY <1>2, <1>3 DEF InPlace, Found, Promoting

\* Outside of promotions the version in place is the checkout's.
LEMMA PlaceAtRest ==
  ASSUME NEW i \in Installers, \A j \in Installers : j # i => pc[j] \notin Promoting /\ pc'[j] = pc[j],
         pc[i] \notin Promoting
  PROVE  /\ InPlace = active["checkout"].outer
         /\ pc'[i] \notin Promoting => InPlace' = active'["checkout"].outer
  BY DEF InPlace, Quiet, Promoting

\* While one install takes a step, no other is in its promotion.
LEMMA OnlyOneActs ==
  ASSUME Serial, CoherentInv, NEW i \in Installers,
         pc[i] \in Live \/ (pc[i] = "idle" /\ MayBegin(i))
  PROVE  \A j \in Installers : j # i => pc[j] \notin Promoting
  BY DEF MayBegin, CoherentInv, Live, Locked

\* Before and after its promotion an install changes nothing in place; it may
\* report an error.
LEMMA OutsidePromotion ==
  ASSUME Serial, TypeOK, CoherentInv, OpenInv, NEW i \in Installers,
         \/ RequireFails(i) \/ CheckLock(i) \/ WriteLock(i) \/ BuildFails(i) \/ Cleanup(i)
         \/ Build(i) /\ pc'[i] # "test"
  PROVE  Atomic!SlotNext \/ UNCHANGED <<InPlace, res>>
<1> USE DEF TypeOK
<1>1. \A j \in Installers : j # i => pc[j] \notin Promoting /\ pc'[j] = pc[j]
  <2>1. pc[i] \in Live \/ (pc[i] = "idle" /\ MayBegin(i))
    BY DEF RequireFails, CheckLock, WriteLock, BuildFails, Cleanup, Build, Live, Locked
  <2>2. \A j \in Installers : j # i => pc'[j] = pc[j]
    BY DEF RequireFails, CheckLock, WriteLock, BuildFails, Cleanup, Build
  <2> QED BY <2>1, <2>2, OnlyOneActs
<1>2. pc[i] \notin Promoting
  BY DEF RequireFails, CheckLock, WriteLock, BuildFails, Cleanup, Build, Promoting, Building
<1>3. pc'[i] \notin Promoting
  <2>1. CASE Build(i) /\ pc'[i] # "test"
    BY <2>1 DEF Build, NextStages, Promoting, Building
  <2>2. CASE RequireFails(i) \/ CheckLock(i) \/ WriteLock(i) \/ BuildFails(i) \/ Cleanup(i)
    BY <2>2 DEF RequireFails, CheckLock, WriteLock, BuildFails, Cleanup, Promoting
  <2> QED BY <2>1, <2>2
<1>4. UNCHANGED active
  BY DEF RequireFails, CheckLock, WriteLock, BuildFails, Cleanup, Build
<1>5. UNCHANGED InPlace
  BY <1>1, <1>2, <1>3, <1>4, PlaceAtRest
<1>6. CASE UNCHANGED res
  BY <1>5, <1>6
<1>7. CASE \E error \in Results \ {"none", "ok"} : res' = [res EXCEPT ![i] = error]
  <2>1. res[i] = "none" \/ UNCHANGED res
    BY DEF OpenInv, Unanswered, RequireFails, CheckLock, WriteLock, BuildFails, Cleanup, Build,
           Building, Ended
  <2> QED BY <1>5, <1>7, <2>1 DEF Atomic!SlotNext, Atomic!Refuse
<1>8. CASE RequireFails(i)
  BY <1>7, <1>8 DEF RequireFails, Results
<1> QED
  BY <1>6, <1>7, <1>8 DEF CheckLock, WriteLock, BuildFails, Cleanup, Build, StageErrors,
                          Building, Results

\* A promotion that begins finds the version that is in place.
LEMMA PromotionBegins ==
  ASSUME Serial, TypeOK, CoherentInv, CoherentInv', OpenInv, NEW i \in Installers,
         Build(i), pc'[i] = "test"
  PROVE  UNCHANGED <<InPlace, res>>
<1> USE DEF TypeOK
<1>1. /\ pc[i] \in Building /\ UNCHANGED <<active, previous, res>>
      /\ \A j \in Installers : j # i => pc'[j] = pc[j]
  BY DEF Build
<1>2. pc[i] \in Live /\ pc[i] \notin Promoting
  BY <1>1 DEF Live, Locked, Building, Promoting
<1>3. \A j \in Installers : pc[j] \notin Promoting
  BY <1>2, OnlyOneActs
<1>4. InPlace = active["checkout"].outer /\ Quiet
  BY <1>3 DEF InPlace, Quiet
<1>5. InPlace' = Found(i)'
  BY PlaceOfPromotionNext DEF Promoting
<1>6. previous[i]["manifest"] = Empty
  BY <1>1 DEF OpenInv, ManifestKept
<1>7. \/ active["checkout"] = Empty /\ active["manifest"] = Empty
      \/ \E v \in Version : active["checkout"] = Tree(v) /\ active["manifest"] = Tree(v)
  BY <1>4 DEF CoherentInv, Whole, Slots
<1>8. Found(i)' = active["checkout"].outer
  BY <1>1, <1>6, <1>7 DEF Found, Empty, Tree
<1> QED BY <1>1, <1>4, <1>5, <1>8

\* No move of a promotion changes the version in place.
LEMMA PromotionGoesOn ==
  ASSUME Serial, TypeOK, CoherentInv, CoherentInv', OpenInv, NEW i \in Installers,
         ParkTest(i) \/ ParkMove(i) \/ PlaceCheckout(i) \/ PlaceVenv(i)
  PROVE  UNCHANGED <<InPlace, res>>
<1> USE DEF TypeOK
<1>1. pc[i] \in Promoting
  BY DEF ParkTest, ParkMove, PlaceCheckout, PlaceVenv, Promoting
<1>2. InPlace = Found(i)
  BY <1>1, PlaceOfPromotion
<1>3. CASE ParkTest(i)
  <2>1. pc'[i] \in Promoting /\ UNCHANGED <<active, previous, res>>
    BY <1>3 DEF ParkTest, NextSlot, Promoting
  <2> QED BY <1>2, <2>1, PlaceOfPromotionNext DEF Found
<1>4. CASE ParkMove(i)
  <2>1. pc[i] = "move" /\ slot[i] \in Slots /\ active[slot[i]] # Empty
    BY <1>4 DEF ParkMove, CoherentInv
  <2>2. /\ previous' = [previous EXCEPT ![i] = [previous[i] EXCEPT ![slot[i]] = active[slot[i]]]]
        /\ active' = [active EXCEPT ![slot[i]] = Empty]
        /\ pc'[i] \in Promoting /\ UNCHANGED res
    BY <1>4, <2>1 DEF ParkMove, NextSlot, Promoting
  <2>3. CASE slot[i] = "manifest"
    <3>1. active'["manifest"] = Empty /\ previous'[i]["manifest"] = active["manifest"]
      BY <2>2, <2>3 DEF Slots
    <3> QED BY <1>2, <2>1, <2>2, <2>3, <3>1, PlaceOfPromotionNext DEF Found
  <2>4. CASE slot[i] # "manifest"
    <3>1. active'["manifest"] = active["manifest"] /\ previous'[i]["manifest"] = previous[i]["manifest"]
      BY <2>1, <2>2, <2>4 DEF Slots
    <3> QED BY <1>2, <2>2, <3>1, PlaceOfPromotionNext DEF Found
  <2> QED BY <2>3, <2>4
<1>5. ASSUME NEW t \in Trees, NEW next \in {"place_venv", "write_manifest"},
             Place(i, t, next), active[t] = Empty
      PROVE  UNCHANGED <<InPlace, res>>
  <2>1. /\ active' = [active EXCEPT ![t] = Tree(i)]
        /\ pc'[i] \in Promoting /\ UNCHANGED <<previous, res>>
    BY <1>5 DEF Place, Empty, Promoting
  <2>2. active'["manifest"] = active["manifest"]
    BY <2>1 DEF Trees, Slots
  <2> QED BY <1>2, <2>1, <2>2, PlaceOfPromotionNext DEF Found
<1>6. CASE PlaceCheckout(i) \/ PlaceVenv(i)
  BY <1>5, <1>6 DEF PlaceCheckout, PlaceVenv, CoherentInv, Trees
<1> QED BY <1>3, <1>4, <1>6

\* With its manifest an install puts its version in place and succeeds.
LEMMA PromotionEnds ==
  ASSUME Serial, TypeOK, CoherentInv, OpenInv, NEW i \in Installers, WriteManifest(i)
  PROVE  Atomic!SlotNext
<1> USE DEF TypeOK
<1>1. pc[i] = "write_manifest" /\ pc' = [pc EXCEPT ![i] = "cleanup"]
      /\ active' = [active EXCEPT !["manifest"] = Tree(i)] /\ res' = [res EXCEPT ![i] = "ok"]
  BY DEF WriteManifest
<1>2. \A j \in Installers : j # i => pc[j] \notin Promoting
  BY <1>1, OnlyOneActs DEF Live, Locked, Promoting
<1>3. Quiet'
  BY <1>1, <1>2 DEF Quiet, Promoting
<1>4. active'["checkout"] = Tree(i)
  BY <1>1 DEF CoherentInv, Slots
<1>5. InPlace' = i
  BY <1>3, <1>4 DEF InPlace, Tree
<1>6. res[i] = "none"
  BY <1>1 DEF OpenInv, Unanswered, Ended
<1> QED BY <1>1, <1>5, <1>6 DEF Atomic!SlotNext, Atomic!Succeed

\* Callers that wait for each other may take an install for one step: it
\* replaces the version as a whole and reports success, or leaves it and
\* reports an error (command_instance_install, promote_install).
THEOREM SerialInstallsAreAtomic ==
  ASSUME Serial, ~Crashes, ~IOFaults
  PROVE  Spec => InstallsAreAtomic
<1>1. Init => Atomic!SlotInit
  <2> SUFFICES ASSUME Init PROVE Atomic!SlotInit
    OBVIOUS
  <2>1. Quiet
    BY DEF Init, Quiet, Promoting
  <2>2. active["checkout"] \in {Empty, Tree(Base)} /\ res = [i \in Installers |-> "none"]
    BY DEF Init, Slots
  <2>3. InPlace \in {NoTree, Base}
    BY <2>1, <2>2 DEF InPlace, Empty, Tree
  <2> QED BY <2>2, <2>3 DEF Atomic!SlotInit
<1>2. TypeOK /\ CoherentInv /\ CoherentInv' /\ OpenInv /\ [Next]_vars =>
        [Atomic!SlotNext]_<<InPlace, res>>
  <2> SUFFICES ASSUME TypeOK, CoherentInv, CoherentInv', OpenInv, [Next]_vars
               PROVE  Atomic!SlotNext \/ UNCHANGED <<InPlace, res>>
    OBVIOUS
  <2>1. CASE UNCHANGED vars
    BY <2>1 DEF vars, InPlace, Quiet
  <2>2. ASSUME NEW i \in Installers, IOFails(i) \/ Crash(i) PROVE FALSE
    BY <2>2 DEF IOFails, WriteLockFails, TryFails, UnlinkFails, Crash
  <2> QED
    BY <2>1, <2>2, OutsidePromotion, PromotionBegins, PromotionGoesOn, PromotionEnds DEF Next, Step
<1>3. Spec => [][Atomic!SlotNext]_<<InPlace, res>>
  BY <1>2, TypeCorrect, SerialInstallsAreOrderly, OpenInvariant, PTL DEF Spec
<1> QED BY <1>1, <1>3, PTL DEF Spec, InstallsAreAtomic, Atomic!SlotSpec


-----------------------------------------------------------------------------
(* What the other commands see                                               *)

\* A version has not been active before its install places it; once an install
\* has placed its checkout, some version has been.
ViewInv ==
  \A i \in Installers :
    /\ pc[i] \in BeforePromotion \cup {"test", "move", "place_checkout"} => ~WasActive(i)
    /\ pc[i] = "place_venv" => \E v \in Version : WasActive(v)

\* The active checkout is parked: it has been active as before.
LEMMA ParkingIsRemembered ==
  ASSUME TypeOK, ParkInv, NEW i \in Installers, ParkMove(i), active[slot[i]] # Empty
  PROVE  \A v \in Version : WasActive(v)' <=> WasActive(v)
<1> USE DEF TypeOK
<1>1. /\ previous' = [previous EXCEPT ![i] = [previous[i] EXCEPT ![slot[i]] = active[slot[i]]]]
      /\ active' = [active EXCEPT ![slot[i]] = Empty]
  BY DEF ParkMove
<1>2. slot[i] \in Slots /\ previous[i] \in [Slots -> Entry] /\ "checkout" \in Slots
  BY DEF Slots
<1>3. CASE slot[i] = "checkout"
  <2>1. previous[i]["checkout"] = Empty
    <3>1. pc[i] = "move" BY DEF ParkMove
    <3> QED BY <1>2, <1>3, <3>1, FromFacts DEF ParkInv
  <2>2. previous'[i]["checkout"] = active["checkout"] /\ active'["checkout"] = Empty
    BY <1>1, <1>2, <1>3
  <2>3. \A j \in Installers : j # i => previous'[j]["checkout"] = previous[j]["checkout"]
    BY <1>1
  <2>4. Empty.outer = NoTree /\ NoTree \notin Version
    BY ConstantsAssumption DEF Empty, Version
  <2> QED BY <2>1, <2>2, <2>3, <2>4 DEF WasActive
<1>4. CASE slot[i] # "checkout"
  <2>1. active'["checkout"] = active["checkout"] BY <1>1, <1>2, <1>4
  <2>2. \A j \in Installers : previous'[j]["checkout"] = previous[j]["checkout"]
    BY <1>1, <1>2, <1>4
  <2> QED BY <2>1, <2>2 DEF WasActive
<1> QED BY <1>3, <1>4

\* A step that changes nothing for the other commands.
Unseen == UNCHANGED Seen /\ \A v \in Version : WasActive(v)' <=> WasActive(v)

LEMMA SameUnplaced ==
  ASSUME \A v \in Version : WasActive(v)' <=> WasActive(v)
  PROVE  Unplaced' = Unplaced
BY DEF Unplaced

LEMMA NothingToSee ==
  ASSUME active'["checkout"] = active["checkout"], active'["venv"] = active["venv"],
         UNCHANGED previous
  PROVE  Unseen
BY DEF Unseen, Seen, WasActive

\* An install that does not place a checkout keeps the invariant.
LEMMA ViewInvKept ==
  ASSUME ViewInv, NEW i \in Installers, \A k \in Installers : k # i => pc'[k] = pc[k],
         \A v \in Version : WasActive(v)' <=> WasActive(v), pc'[i] # "place_venv",
         pc'[i] \in BeforePromotion \cup {"test", "move", "place_checkout"} =>
           pc[i] \in BeforePromotion \cup {"test", "move", "place_checkout"}
  PROVE  ViewInv'
<1>1. \A k \in Installers : WasActive(k)' <=> WasActive(k)
  BY DEF Version
<1> QED BY <1>1 DEF ViewInv

\* An install fails, ends or goes on without touching a tree.
LEMMA OtherStepSeen ==
  ASSUME TypeOK, ViewInv, NEW i \in Installers,
         \/ RequireFails(i) \/ CheckLock(i) \/ WriteLock(i) \/ Build(i) \/ BuildFails(i)
         \/ ParkTest(i) \/ WriteManifest(i) \/ IOFails(i) \/ Cleanup(i) \/ Crash(i)
         \/ PromoteError(i) /\ pc[i] \in Promoting
  PROVE  Unseen /\ ViewInv'
<1> USE DEF TypeOK
<1>1. /\ active'["checkout"] = active["checkout"] /\ active'["venv"] = active["venv"]
      /\ UNCHANGED previous
  BY DEF RequireFails, CheckLock, WriteLock, Build, BuildFails, ParkTest, WriteManifest, Cleanup,
         Crash, IOFails, WriteLockFails, TryFails, UnlinkFails, PromoteError, Slots
<1>2. Unseen
  BY <1>1, NothingToSee
<1>3. \A k \in Installers : k # i => pc'[k] = pc[k]
  BY DEF RequireFails, CheckLock, WriteLock, Build, BuildFails, ParkTest, NextSlot, WriteManifest,
         Cleanup, Crash, IOFails, WriteLockFails, TryFails, UnlinkFails, PromoteError
<1>4. /\ pc'[i] # "place_venv"
      /\ pc'[i] \in BeforePromotion \cup {"test", "move", "place_checkout"} =>
           pc[i] \in BeforePromotion \cup {"test", "move", "place_checkout"}
  BY DEF RequireFails, CheckLock, WriteLock, Build, BuildFails, ParkTest, NextSlot, WriteManifest,
         Cleanup, Crash, IOFails, WriteLockFails, TryFails, UnlinkFails, PromoteError, BeforePromotion, Building, NextStages, Promoting
<1> QED BY <1>2, <1>3, <1>4, ViewInvKept DEF Unseen

\* The environment is moved away, or into place.
LEMMA VenvSeen ==
  ASSUME active'["checkout"] = active["checkout"]
  PROVE  /\ Seen.venv <=> active["venv"] # Empty
         /\ active'["venv"] = Empty => Seen' = [Seen EXCEPT !.venv = FALSE]
         /\ active'["venv"] # Empty => Seen' = [Seen EXCEPT !.venv = TRUE]
<1>1. Seen.venv <=> active["venv"] # Empty
  BY DEF Seen
<1>2. \A b : [Seen EXCEPT !.venv = b] = [checkout |-> active["checkout"].outer, venv |-> b]
  BY DEF Seen
<1>3. Seen' = [checkout |-> active["checkout"].outer, venv |-> (active'["venv"] # Empty)]
  BY DEF Seen
<1>4. active'["venv"] = Empty => (active'["venv"] # Empty) = FALSE
  OBVIOUS
<1>5. active'["venv"] # Empty => (active'["venv"] # Empty) = TRUE
  OBVIOUS
<1> QED BY <1>1, <1>2, <1>3, <1>4, <1>5

\* An entry is parked.
LEMMA ParkSeen ==
  ASSUME TypeOK, ParkInv, ViewInv, NEW i \in Installers, ParkMove(i)
  PROVE  (View!ParkCheckout \/ View!ParkVenv \/ Unseen) /\ ViewInv'
<1>1. CASE active[slot[i]] = Empty
  BY <1>1, OtherStepSeen DEF ParkMove, Promoting
<1>2. CASE active[slot[i]] # Empty
  <2>1. /\ active' = [active EXCEPT ![slot[i]] = Empty] /\ pc[i] = "move"
        /\ pc' = [pc EXCEPT ![i] = IF slot[i] = "manifest" THEN "place_checkout" ELSE "test"]
    BY <1>2 DEF ParkMove, NextSlot
  <2>2. \A v \in Version : WasActive(v)' <=> WasActive(v)
    BY <1>2, ParkingIsRemembered
  <2>3. Unplaced' = Unplaced
    BY <2>2, SameUnplaced
  <2>4. Unplaced # {}
    BY <2>1 DEF ViewInv, Unplaced, Version
  <2>5. slot[i] \in Slots /\ "checkout" \in Slots /\ "venv" \in Slots
    BY DEF TypeOK, Slots
  <2>6. \A s \in Slots : active'[s] = IF s = slot[i] THEN Empty ELSE active[s]
    BY <2>1, <2>5 DEF TypeOK
  <2>7. Empty.outer = NoTree
    BY DEF Empty
  <2>8. ViewInv'
    <3>1. /\ \A k \in Installers : k # i => pc'[k] = pc[k]
          /\ pc'[i] \in {"place_checkout", "test"}
      BY <2>1 DEF TypeOK
    <3> QED BY <2>1, <2>2, <3>1, ViewInvKept
  <2>9. CASE slot[i] = "checkout"
    <3>1. Seen' = [Seen EXCEPT !.checkout = NoTree]
      BY <2>5, <2>6, <2>7, <2>9 DEF Seen
    <3>2. CASE Seen.checkout # NoTree
      BY <2>3, <2>4, <2>8, <3>1, <3>2 DEF View!ParkCheckout
    <3>3. CASE Seen.checkout = NoTree
      <4>1. Seen' = Seen
        BY <3>1, <3>3 DEF Seen
      <4> QED BY <2>2, <2>8, <4>1 DEF Unseen
    <3> QED BY <3>2, <3>3
  <2>10. CASE slot[i] = "venv"
    <3>1. active["venv"] # Empty /\ active'["venv"] = Empty /\ active'["checkout"] = active["checkout"]
      BY <1>2, <2>5, <2>6, <2>10
    <3>2. Seen.venv /\ Seen' = [Seen EXCEPT !.venv = FALSE]
      BY <3>1, VenvSeen
    <3> QED BY <2>3, <2>4, <2>8, <3>2 DEF View!ParkVenv
  <2>11. CASE slot[i] = "manifest"
    <3>1. active'["checkout"] = active["checkout"] /\ active'["venv"] = active["venv"]
      BY <2>5, <2>6, <2>11
    <3> QED BY <2>2, <2>8, <3>1 DEF Unseen, Seen
  <2> QED BY <2>5, <2>9, <2>10, <2>11 DEF Slots
<1> QED BY <1>1, <1>2

\* What a move into place leaves.
LEMMA PlaceFacts ==
  ASSUME TypeOK, NEW i \in Installers, NEW t \in Trees, NEW next, Place(i, t, next),
         active[t].inner = NoTree
  PROVE  /\ active[t] # Empty => active[t].outer \in Version /\ active'[t].outer = active[t].outer
         /\ active[t] = Empty => active'[t].outer = i
         /\ active'[t] # Empty
         /\ \A s \in Slots : s # t => active'[s] = active[s]
         /\ UNCHANGED previous /\ pc' = [pc EXCEPT ![i] = next]
<1>1. t \in Slots /\ active[t] \in Entry /\ i \in Version
  BY DEF TypeOK, Trees, Slots, Version
<1>2. active[t] # Empty => active[t].outer \in Version
  BY <1>1 DEF Entry, Empty
<1>3. /\ active' = [active EXCEPT ![t] = IF active[t] = Empty THEN Tree(i)
                                         ELSE [active[t] EXCEPT !.inner = i]]
      /\ UNCHANGED previous /\ pc' = [pc EXCEPT ![i] = next]
  BY DEF Place
<1>4. /\ active'[t] = IF active[t] = Empty THEN Tree(i) ELSE [active[t] EXCEPT !.inner = i]
      /\ \A s \in Slots : s # t => active'[s] = active[s]
  BY <1>1, <1>3 DEF TypeOK
<1>5. NoTree # i
  BY ConstantsAssumption DEF Version
<1>6. active[t] = Empty => active'[t].outer = i /\ active'[t] # Empty
  BY <1>4, <1>5 DEF Tree, Empty
<1>7. active[t] # Empty => active'[t].outer = active[t].outer /\ active'[t] # Empty
  BY <1>1, <1>4, <1>5 DEF Entry, Empty
<1> QED BY <1>2, <1>3, <1>4, <1>6, <1>7

\* The staged checkout is put in place.
LEMMA PlaceCheckoutSeen ==
  ASSUME TypeOK, ViewInv, NEW i \in Installers, PlaceCheckout(i)
  PROVE  (View!PlaceCheckout(i) \/ Unseen) /\ ViewInv'
<1>1. pc[i] = "place_checkout" /\ Place(i, "checkout", "place_venv") /\ ~WasActive(i)
      /\ "checkout" \in Trees /\ "checkout" \in Slots /\ "venv" \in Slots /\ i \in Version
  BY DEF PlaceCheckout, ViewInv, Trees, Slots, Version
<1>2. CASE active["checkout"].inner # NoTree
  BY <1>1, <1>2, OtherStepSeen DEF Place, Promoting
<1>3. CASE active["checkout"].inner = NoTree
  <2>1. /\ active["checkout"] # Empty => /\ active["checkout"].outer \in Version
                                         /\ active'["checkout"].outer = active["checkout"].outer
        /\ active["checkout"] = Empty => active'["checkout"].outer = i
        /\ active'["venv"] = active["venv"] /\ UNCHANGED previous
        /\ pc' = [pc EXCEPT ![i] = "place_venv"]
    BY <1>1, <1>3, PlaceFacts
  <2>2. pc'[i] = "place_venv" /\ \A k \in Installers : k # i => pc'[k] = pc[k]
    BY <2>1 DEF TypeOK
  <2>3. CASE active["checkout"] # Empty
    <3>1. Unseen
      BY <2>1, <2>3 DEF Unseen, Seen, WasActive
    <3>2. \E v \in Version : WasActive(v)
      BY <2>1, <2>3 DEF WasActive
    <3>3. ViewInv'
      BY <2>2, <3>1, <3>2 DEF ViewInv, Unseen, Version, BeforePromotion, Building
    <3> QED BY <3>1, <3>3
  <2>4. CASE active["checkout"] = Empty
    <3>1. \A v \in Version : WasActive(v)' <=> WasActive(v) \/ v = i
      <4>1. active["checkout"].outer \notin Version
        BY <2>4, ConstantsAssumption DEF Empty, Version
      <4> QED BY <2>1, <2>4, <4>1 DEF WasActive
    <3>2. Seen.checkout = NoTree /\ Seen' = [Seen EXCEPT !.checkout = i]
      BY <2>1, <2>4 DEF Seen, Empty
    <3>3. i \in Unplaced /\ Unplaced' = Unplaced \ {i}
      BY <1>1, <3>1 DEF Unplaced
    <3>4. ViewInv'
      BY <1>1, <2>2, <3>1 DEF ViewInv, Version, BeforePromotion, Building
    <3> QED BY <3>2, <3>3, <3>4 DEF View!PlaceCheckout
  <2> QED BY <2>3, <2>4
<1> QED BY <1>2, <1>3

\* The staged environment is put in place.
LEMMA PlaceVenvSeen ==
  ASSUME TypeOK, ViewInv, NEW i \in Installers, PlaceVenv(i)
  PROVE  (View!PlaceVenv \/ Unseen) /\ ViewInv'
<1>1. pc[i] = "place_venv" /\ Place(i, "venv", "write_manifest")
      /\ "venv" \in Trees /\ "checkout" \in Slots /\ "venv" \in Slots
  BY DEF PlaceVenv, Trees, Slots
<1>2. CASE active["venv"].inner # NoTree
  BY <1>1, <1>2, OtherStepSeen DEF Place, Promoting
<1>3. CASE active["venv"].inner = NoTree
  <2>1. /\ active'["venv"] # Empty /\ active'["checkout"] = active["checkout"]
        /\ UNCHANGED previous /\ pc' = [pc EXCEPT ![i] = "write_manifest"]
    BY <1>1, <1>3, PlaceFacts
  <2>2. \A v \in Version : WasActive(v)' <=> WasActive(v)
    BY <2>1 DEF WasActive
  <2>3. Unplaced' = Unplaced /\ Unplaced # Version
    BY <1>1, <2>2, SameUnplaced DEF ViewInv, Unplaced
  <2>4. ViewInv'
    <3>1. pc'[i] = "write_manifest" /\ \A k \in Installers : k # i => pc'[k] = pc[k]
      BY <2>1 DEF TypeOK
    <3> QED BY <2>2, <3>1, ViewInvKept DEF BeforePromotion, Building
  <2>5. CASE active["venv"] = Empty
    <3>1. ~Seen.venv /\ Seen' = [Seen EXCEPT !.venv = TRUE]
      BY <2>1, <2>5, VenvSeen
    <3> QED BY <2>3, <2>4, <3>1 DEF View!PlaceVenv
  <2>6. CASE active["venv"] # Empty
    BY <2>1, <2>2, <2>4, <2>6 DEF Unseen, Seen
  <2> QED BY <2>5, <2>6
<1> QED BY <1>2, <1>3

\* Installs that race, are killed or meet I/O faults look to start, stop and
\* status like single moves of whole trees (promote_install): what module
\* InstanceProcess assumes about installs is what installs do.
THEOREM InstallsImplementTree == Spec => ImplementsTree
<1>1. Init => ViewInv /\ View!TreeInit
  <2> SUFFICES ASSUME Init PROVE ViewInv /\ View!TreeInit
    OBVIOUS
  <2>1. \A i \in Installers : pc[i] = "idle" /\ previous[i]["checkout"] = Empty
    BY DEF Init, Slots
  <2>2. Empty.outer = NoTree /\ NoTree \notin Version
    BY ConstantsAssumption DEF Empty, Version
  <2>3. CASE active = [s \in Slots |-> Empty]
    <3>1. active["checkout"] = Empty /\ active["venv"] = Empty
      BY <2>3 DEF Slots
    <3>2. \A v \in Version : ~WasActive(v)
      BY <2>1, <2>2, <3>1 DEF WasActive
    <3>3. Seen = [checkout |-> NoTree, venv |-> FALSE] /\ Unplaced = Version
      BY <2>2, <3>1, <3>2 DEF Seen, Unplaced
    <3>4. ViewInv
      BY <2>1, <3>2 DEF ViewInv, Version
    <3> QED BY <3>3, <3>4 DEF View!TreeInit
  <2>4. CASE active = [s \in Slots |-> Tree(Base)]
    <3>1. active["checkout"] = Tree(Base) /\ active["venv"] = Tree(Base)
      BY <2>4 DEF Slots
    <3>2. Tree(Base).outer = Base /\ Tree(Base) # Empty /\ Base \in Version
      BY <2>2 DEF Tree, Version
    <3>3. \A v \in Version : WasActive(v) <=> v = Base
      BY <2>1, <2>2, <3>1, <3>2 DEF WasActive
    <3>4. Seen = [checkout |-> Base, venv |-> TRUE] /\ Unplaced = Version \ {Base}
      BY <3>1, <3>2, <3>3 DEF Seen, Unplaced
    <3>5. ViewInv
      BY <2>1, <3>3, ConstantsAssumption DEF ViewInv, Version
    <3> QED BY <3>2, <3>4, <3>5 DEF View!TreeInit
  <2> QED BY <2>3, <2>4 DEF Init
<1>2. TypeOK /\ ParkInv /\ ViewInv /\ [Next]_vars =>
        ViewInv' /\ [View!TreeNext]_<<Seen, Unplaced>>
  <2> SUFFICES ASSUME TypeOK, ParkInv, ViewInv, [Next]_vars
               PROVE  ViewInv' /\ (View!TreeNext \/ Unseen)
    BY SameUnplaced DEF Unseen
  <2>1. ASSUME NEW i \in Installers, Next, PlaceCheckout(i) PROVE ViewInv' /\ (View!TreeNext \/ Unseen)
    BY <2>1, PlaceCheckoutSeen DEF View!TreeNext, Version
  <2>2. ASSUME NEW i \in Installers, ParkMove(i) \/ PlaceVenv(i)
        PROVE  ViewInv' /\ (View!TreeNext \/ Unseen)
    BY <2>2, ParkSeen, PlaceVenvSeen DEF View!TreeNext
  <2>3. ASSUME NEW i \in Installers,
               \/ RequireFails(i) \/ CheckLock(i) \/ WriteLock(i) \/ Build(i) \/ BuildFails(i)
               \/ ParkTest(i) \/ WriteManifest(i) \/ IOFails(i) \/ Cleanup(i) \/ Crash(i)
        PROVE  ViewInv' /\ Unseen
    BY <2>3, OtherStepSeen
  <2>4. CASE UNCHANGED vars
    BY <2>4 DEF vars, ViewInv, WasActive, Unseen, Seen
  <2> QED BY <2>1, <2>2, <2>3, <2>4 DEF Next, Step
<1> QED BY <1>1, <1>2, TypeCorrect, ParkInvariant, PTL DEF Spec, ImplementsTree, View!TreeSpec

=============================================================================
