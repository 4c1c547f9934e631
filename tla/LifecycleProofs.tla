-------------------------- MODULE LifecycleProofs ---------------------------
(***************************************************************************)
(* Proofs about module Lifecycle for any sequence of providers, any set of *)
(* required ones and any number of probes.                                 *)
(***************************************************************************)
EXTENDS Lifecycle, TLAPS

\* The registered providers as numbered entries of Order.
LEMMA OrderFacts ==
  /\ Len(Order) \in Nat /\ Len(Order) >= 1 /\ DOMAIN Order = 1 .. Len(Order)
  /\ \A k \in 1 .. Len(Order) : Order[k] \in Providers
  /\ \A p \in Providers : \E k \in 1 .. Len(Order) : p = Order[k]
  /\ \A j, k \in 1 .. Len(Order) : Order[j] = Order[k] => j = k
<1>1. Order \in Seq(Providers) /\ Order # <<>>
  BY OrderAssumption
<1>2. Len(Order) \in Nat /\ Len(Order) >= 1 /\ DOMAIN Order = 1 .. Len(Order)
  BY <1>1
<1>3. \A k \in DOMAIN Order : Order[k] \in Providers
  BY DEF Providers
<1>4. \A p \in Providers : \E k \in DOMAIN Order : p = Order[k]
  BY DEF Providers
<1>5. \A j, k \in DOMAIN Order : Order[j] = Order[k] => j = k
  BY OrderAssumption
<1> QED BY <1>2, <1>3, <1>4, <1>5

-----------------------------------------------------------------------------
(* The inductive invariant                                                  *)

\* The stack _started holds exactly the providers whose resource is in use.
StackIsOpen ==
  \A k \in 1 .. Len(Order) : (res[Order[k]] = "open") <=> (k <= started)

\* How far the stack is filled where lifespan is.
PhaseFits ==
  /\ phase = "starting" => started < Len(Order) /\ checks = started
  /\ phase \in {"validating", "invalid", "serving", "draining"} =>
       started = Len(Order) /\ checks = Len(Order)
  /\ phase \in {"failed", "stopped"} => started = 0

\* A probe runs only between start and stop, and begins with nothing failed.
ProbesAreServed ==
  \A q \in Probes : /\ Under(q) => phase \in {"serving", "draining"}
                    /\ probe[q].at = 0 => probe[q].failed = {}

\* What a probe has found so far was true at some time since it began.
ProbesSawIt ==
  \A q \in Probes :
    /\ Under(q) => \A p \in Providers : dep[p] \in felt[q][p]
    /\ \A p \in probe[q].failed : felt[q][p] \ {"up"} # {}
    /\ \A k \in 1 .. Len(Order) :
         k < probe[q].at /\ Order[k] \notin probe[q].failed => "up" \in felt[q][Order[k]]
    /\ ans[q] # "none" => probe[q].at = Len(Order) + 1 /\ ans[q] = Status(probe[q].failed)

Inv == TypeOK /\ StackIsOpen /\ PhaseFits /\ ProbesAreServed /\ ProbesSawIt

LEMMA InitInv == Init => Inv
<1> SUFFICES ASSUME Init PROVE Inv
  OBVIOUS
<1>1. TypeOK
  <2>1. /\ conf \in [clash : SUBSET Providers, bad : SUBSET Providers]
        /\ phase = "starting" /\ started \in 0 .. Len(Order) /\ checks \in 0 .. Len(Order)
    BY OrderFacts DEF Init
  <2>2. /\ res \in [Providers -> {"none", "open", "closed", "stuck"}]
        /\ dep \in [Providers -> Health]
    BY DEF Init, Health
  <2>3. /\ probe \in [Probes -> [at : 0 .. Len(Order) + 1, failed : SUBSET Providers]]
        /\ ans \in [Probes -> {"none", "ok", "degraded", "failed"}]
    BY OrderFacts DEF Init
  <2>4. felt \in [Probes -> [Providers -> SUBSET Health]]
    BY DEF Init
  <2> QED BY <2>1, <2>2, <2>3, <2>4 DEF TypeOK
<1>2. StackIsOpen
  <2> SUFFICES ASSUME NEW k \in 1 .. Len(Order)
               PROVE  (res[Order[k]] = "open") <=> (k <= started)
    BY DEF StackIsOpen
  <2>1. Order[k] \in Providers
    BY OrderFacts
  <2>2. res[Order[k]] # "open"
    BY <2>1 DEF Init
  <2>3. started = 0
    BY DEF Init
  <2>4. ~(k <= started)
    BY <2>3
  <2> QED BY <2>2, <2>4
<1>3. PhaseFits
  BY OrderFacts DEF Init, PhaseFits
<1>4. ProbesAreServed /\ ProbesSawIt
  BY OrderFacts DEF Init, ProbesAreServed, ProbesSawIt, Under
<1> QED BY <1>1, <1>2, <1>3, <1>4 DEF Inv

\* Steps of lifespan leave the probes alone; no probe is under way when they
\* leave serving and draining.
LEMMA LifespanKeepsInv ==
  ASSUME Inv, Lifespan \/ StartFails \/ Terminate
  PROVE  Inv'
<1>0. UNCHANGED <<conf, dep, probe, ans, felt>>
  BY DEF Lifespan, StartProvider, StartFails, Release, Released, Validate, Terminate, Drained, probing
<1>1. ASSUME phase' \in {"starting", "cleaning", "validating", "invalid", "serving", "draining",
                         "stopping", "stopped", "failed"},
             started' \in 0 .. Len(Order), checks' \in 0 .. Len(Order),
             res' \in [Providers -> {"none", "open", "closed", "stuck"}]
      PROVE  TypeOK'
  BY <1>0, <1>1 DEF Inv, TypeOK
<1>2. ProbesSawIt'
  <2>1. \A q \in Probes : Under(q)' = Under(q)
    BY <1>0 DEF Under
  <2> QED BY <1>0, <2>1 DEF Inv, ProbesSawIt
<1>3. CASE StartProvider
  <2>1. /\ started \in 0 .. Len(Order) - 1 /\ started' = started + 1 /\ checks = started
        /\ started' \in 1 .. Len(Order) /\ NextProvider = Order[started'] /\ NextProvider \in Providers
    <3>1. started \in 0 .. Len(Order) /\ started < Len(Order) /\ checks = started /\ started' = started + 1
      BY <1>3 DEF StartProvider, Inv, TypeOK, PhaseFits
    <3> QED BY <3>1, OrderFacts DEF NextProvider
  <2>2. res' = [res EXCEPT ![NextProvider] = "open"] /\ res' \in [Providers -> {"none", "open", "closed", "stuck"}]
    BY <1>3, <2>1 DEF StartProvider, Inv, TypeOK
  <2>3. /\ phase' \in {"starting", "cleaning", "validating"}
        /\ phase' = "starting" => started' < Len(Order) /\ checks' = started'
        /\ phase' = "validating" => started' = Len(Order) /\ checks' = started'
        /\ checks' \in 0 .. Len(Order)
    BY <1>3, <2>1, OrderFacts DEF StartProvider
  <2>4. TypeOK'
    BY <1>1, <2>1, <2>2, <2>3
  <2>5. StackIsOpen'
    <3> SUFFICES ASSUME NEW k \in 1 .. Len(Order)
                 PROVE  (res'[Order[k]] = "open") <=> (k <= started')
      BY DEF StackIsOpen
    <3>1. CASE k = started'
      BY <3>1, <2>1, <2>2 DEF Inv, TypeOK
    <3>2. CASE k # started'
      <4>1. Order[k] # NextProvider /\ Order[k] \in Providers
        BY <3>2, <2>1, OrderFacts
      <4>2. res'[Order[k]] = res[Order[k]]
        BY <4>1, <2>2 DEF Inv, TypeOK
      <4> QED BY <4>2, <3>2, <2>1 DEF Inv, StackIsOpen
    <3> QED BY <3>1, <3>2
  <2>6. PhaseFits'
    BY <2>3, <2>1, OrderFacts DEF PhaseFits
  <2>7. ProbesAreServed'
    BY <1>0, <1>3 DEF StartProvider, Inv, ProbesAreServed, Under
  <2> QED BY <1>2, <2>4, <2>5, <2>6, <2>7 DEF Inv
<1>4. CASE Release
  <2>1. /\ started \in 1 .. Len(Order) /\ started' = started - 1 /\ Order[started] \in Providers
        /\ UNCHANGED <<phase, checks>> /\ phase \in {"cleaning", "stopping"}
    BY <1>4, OrderFacts DEF Release, Inv, TypeOK
  <2>2. PICK how \in {"closed", "stuck"} : res' = [res EXCEPT ![Order[started]] = how]
    BY <1>4 DEF Release
  <2>3. res' \in [Providers -> {"none", "open", "closed", "stuck"}]
    BY <2>2 DEF Inv, TypeOK
  <2>4. TypeOK'
    <3>1. started' \in 0 .. Len(Order)
      BY <2>1, OrderFacts
    <3> QED BY <1>1, <2>1, <2>3, <3>1 DEF Inv, TypeOK
  <2>5. StackIsOpen'
    <3> SUFFICES ASSUME NEW k \in 1 .. Len(Order)
                 PROVE  (res'[Order[k]] = "open") <=> (k <= started')
      BY DEF StackIsOpen
    <3>1. CASE k = started
      <4>1. res'[Order[k]] = how
        BY <3>1, <2>1, <2>2 DEF Inv, TypeOK
      <4> QED BY <4>1, <3>1, <2>1
    <3>2. CASE k # started
      <4>1. Order[k] # Order[started] /\ Order[k] \in Providers
        BY <3>2, <2>1, OrderFacts
      <4>2. res'[Order[k]] = res[Order[k]]
        BY <4>1, <2>2 DEF Inv, TypeOK
      <4> QED BY <4>2, <3>2, <2>1 DEF Inv, StackIsOpen
    <3> QED BY <3>1, <3>2
  <2>6. PhaseFits'
    BY <2>1 DEF PhaseFits
  <2>7. ProbesAreServed'
    BY <1>0, <2>1 DEF Inv, ProbesAreServed, Under
  <2> QED BY <1>2, <2>4, <2>5, <2>6, <2>7 DEF Inv
<1>5. CASE Released \/ Validate \/ StartFails \/ Terminate \/ Drained
  <2>1. UNCHANGED <<started, res, checks>>
    BY <1>5 DEF Released, Validate, StartFails, Terminate, Drained
  <2>2. TypeOK'
    <3>1. phase' \in {"starting", "cleaning", "validating", "invalid", "serving", "draining",
                      "stopping", "stopped", "failed"}
      BY <1>5 DEF Released, Validate, StartFails, Terminate, Drained
    <3> QED BY <1>1, <2>1, <3>1 DEF Inv, TypeOK
  <2>3. StackIsOpen'
    BY <2>1 DEF Inv, StackIsOpen
  <2>4. PhaseFits'
    BY <1>5, <2>1 DEF Released, Validate, StartFails, Terminate, Drained, Inv, PhaseFits
  <2>5. ProbesAreServed'
    BY <1>0, <1>5 DEF Released, Validate, StartFails, Terminate, Drained, Inv, ProbesAreServed, Under
  <2> QED BY <1>2, <2>2, <2>3, <2>4, <2>5 DEF Inv
<1> QED BY <1>3, <1>4, <1>5 DEF Lifespan

\* Steps of a probe and of a dependency leave the providers alone.
LEMMA ProbingKeepsInv ==
  ASSUME Inv, (\E q \in Probes : Ready(q) \/ Check(q) \/ Answer(q)) \/ \E p \in Providers : Change(p)
  PROVE  Inv'
<1>0. UNCHANGED <<conf, phase, started, res, checks>>
  BY DEF Ready, Check, Answer, Change, process
<1>1. StackIsOpen' /\ PhaseFits'
  BY <1>0 DEF Inv, StackIsOpen, PhaseFits
<1>2. ASSUME dep' \in [Providers -> Health],
             probe' \in [Probes -> [at : 0 .. Len(Order) + 1, failed : SUBSET Providers]],
             ans' \in [Probes -> {"none", "ok", "degraded", "failed"}],
             felt' \in [Probes -> [Providers -> SUBSET Health]]
      PROVE  TypeOK'
  BY <1>0, <1>2 DEF Inv, TypeOK
<1>3. /\ dep \in [Providers -> Health]
      /\ probe \in [Probes -> [at : 0 .. Len(Order) + 1, failed : SUBSET Providers]]
      /\ ans \in [Probes -> {"none", "ok", "degraded", "failed"}]
      /\ felt \in [Probes -> [Providers -> SUBSET Health]]
  BY DEF Inv, TypeOK
<1>4. ASSUME NEW q \in Probes, Ready(q)
      PROVE  TypeOK' /\ ProbesAreServed' /\ ProbesSawIt'
  <2>1. /\ phase = "serving" /\ probe[q].at = 0 /\ UNCHANGED <<dep, ans>>
        /\ probe' = [probe EXCEPT ![q].at = 1]
        /\ felt' = [felt EXCEPT ![q] = [p \in Providers |-> {dep[p]}]]
    BY <1>4 DEF Ready
  <2>2. /\ probe'[q].at = 1 /\ probe'[q].failed = probe[q].failed
        /\ probe' \in [Probes -> [at : 0 .. Len(Order) + 1, failed : SUBSET Providers]]
    <3>1. [probe[q] EXCEPT !.at = 1] \in [at : 0 .. Len(Order) + 1, failed : SUBSET Providers]
      <4>1. probe[q] \in [at : 0 .. Len(Order) + 1, failed : SUBSET Providers]
        BY <1>3
      <4>2. 1 \in 0 .. Len(Order) + 1
        BY OrderFacts
      <4> QED BY <4>1, <4>2
    <3>2. probe' = [probe EXCEPT ![q] = [probe[q] EXCEPT !.at = 1]]
      BY <2>1
    <3>3. probe'[q] = [probe[q] EXCEPT !.at = 1]
      BY <1>3, <3>2
    <3>4. probe'[q].at = 1 /\ probe'[q].failed = probe[q].failed
      BY <1>3, <3>3
    <3> QED BY <1>3, <3>1, <3>2, <3>4
  <2>3. felt' \in [Probes -> [Providers -> SUBSET Health]]
    <3>1. [p \in Providers |-> {dep[p]}] \in [Providers -> SUBSET Health]
      BY <1>3
    <3> QED BY <1>3, <2>1, <3>1
  <2>4. TypeOK'
    BY <1>2, <1>3, <2>1, <2>2, <2>3
  <2>5. ProbesAreServed'
    BY <1>0, <1>3, <2>1, <2>2 DEF Inv, ProbesAreServed, Under
  <2>6. ProbesSawIt'
    <3>1. /\ \A o \in Probes \ {q} : probe'[o] = probe[o] /\ felt'[o] = felt[o]
          /\ felt'[q] = [p \in Providers |-> {dep[p]}]
      BY <1>3, <2>1
    <3>2. probe[q].failed = {} /\ ans[q] = "none"
      BY <2>1, OrderFacts DEF Inv, ProbesAreServed, ProbesSawIt
    <3> QED BY <2>1, <2>2, <3>1, <3>2, OrderFacts DEF Inv, ProbesSawIt, Under
  <2> QED BY <2>4, <2>5, <2>6
<1>5. ASSUME NEW q \in Probes, Check(q)
      PROVE  TypeOK' /\ ProbesAreServed' /\ ProbesSawIt'
  <2> DEFINE p == Order[probe[q].at]
             after == IF Failing(p) THEN probe[q].failed \cup {p} ELSE probe[q].failed
  <2>1. /\ Under(q) /\ UNCHANGED <<dep, ans, felt>> /\ probe[q].at <= checks
        /\ probe' = [probe EXCEPT ![q] = [at |-> probe[q].at + 1, failed |-> after]]
    BY <1>5 DEF Check
  <2>2. probe[q].at \in 1 .. Len(Order) /\ p \in Providers
    BY <1>3, <2>1, OrderFacts DEF Inv, TypeOK, Under
  <2>3. /\ after \subseteq Providers /\ probe'[q] = [at |-> probe[q].at + 1, failed |-> after]
        /\ \A o \in Probes \ {q} : probe'[o] = probe[o]
    BY <1>3, <2>1, <2>2
  <2>4. TypeOK'
    <3>1. [at |-> probe[q].at + 1, failed |-> after] \in [at : 0 .. Len(Order) + 1, failed : SUBSET Providers]
      BY <2>2, <2>3, OrderFacts
    <3> QED BY <1>2, <1>3, <2>1, <3>1
  <2>5. ProbesAreServed'
    BY <1>0, <2>1, <2>2, <2>3 DEF Inv, ProbesAreServed, Under
  <2>6. dep[p] \in felt[q][p]
    BY <2>1, <2>2 DEF Inv, ProbesSawIt
  <2>7. /\ p \in after => felt[q][p] \ {"up"} # {}
        /\ p \notin after => "up" \in felt[q][p]
    BY <2>2, <2>6 DEF Failing, Inv, ProbesSawIt
  <2>8. \A o \in after : felt[q][o] \ {"up"} # {}
    BY <2>7 DEF Inv, ProbesSawIt
  <2>9. \A k \in 1 .. Len(Order) :
          k < probe[q].at + 1 /\ Order[k] \notin after => "up" \in felt[q][Order[k]]
    <3> SUFFICES ASSUME NEW k \in 1 .. Len(Order), k < probe[q].at + 1, Order[k] \notin after
                 PROVE  "up" \in felt[q][Order[k]]
      OBVIOUS
    <3>1. CASE k = probe[q].at
      BY <3>1, <2>7
    <3>2. CASE k # probe[q].at
      <4>1. k < probe[q].at /\ Order[k] \notin probe[q].failed
        BY <3>2, <2>2
      <4> QED BY <4>1 DEF Inv, ProbesSawIt
    <3> QED BY <3>1, <3>2
  <2> HIDE DEF after
  <2>10. ProbesSawIt'
    <3> SUFFICES ASSUME NEW o \in Probes
                 PROVE  (/\ Under(o) => \A x \in Providers : dep[x] \in felt[o][x]
                         /\ \A x \in probe[o].failed : felt[o][x] \ {"up"} # {}
                         /\ \A k \in 1 .. Len(Order) :
                              k < probe[o].at /\ Order[k] \notin probe[o].failed =>
                                "up" \in felt[o][Order[k]]
                         /\ ans[o] # "none" =>
                              probe[o].at = Len(Order) + 1 /\ ans[o] = Status(probe[o].failed))'
      BY DEF ProbesSawIt
    <3>1. CASE o = q
      BY <3>1, <2>1, <2>3, <2>8, <2>9 DEF Inv, ProbesSawIt, Under
    <3>2. CASE o # q
      BY <3>2, <2>1, <2>3 DEF Inv, ProbesSawIt, Under
    <3> QED BY <3>1, <3>2
  <2> QED BY <2>4, <2>5, <2>10
<1>6. ASSUME NEW q \in Probes, Answer(q)
      PROVE  TypeOK' /\ ProbesAreServed' /\ ProbesSawIt'
  <2>1. /\ Under(q) /\ UNCHANGED <<dep, probe, felt>> /\ probe[q].at = checks + 1
        /\ ans' = [ans EXCEPT ![q] = Status(probe[q].failed)]
    BY <1>6 DEF Answer
  <2>2. checks = Len(Order)
    BY <2>1 DEF Inv, ProbesAreServed, PhaseFits
  <2>3. Status(probe[q].failed) \in {"ok", "degraded", "failed"}
    BY DEF Status
  <2>4. TypeOK'
    BY <1>2, <1>3, <2>1, <2>3
  <2>5. ProbesAreServed'
    BY <1>0, <1>3, <2>1, <2>3 DEF Inv, ProbesAreServed, Under
  <2>6. ProbesSawIt'
    BY <1>0, <1>3, <2>1, <2>2, <2>3 DEF Inv, ProbesSawIt, Under
  <2> QED BY <2>4, <2>5, <2>6
<1>7. ASSUME NEW p \in Providers, Change(p)
      PROVE  TypeOK' /\ ProbesAreServed' /\ ProbesSawIt'
  <2>1. PICK h \in Health :
          /\ dep' = [dep EXCEPT ![p] = h]
          /\ felt' = [q \in Probes |-> IF Under(q) THEN [felt[q] EXCEPT ![p] = @ \cup {h}] ELSE felt[q]]
    BY <1>7 DEF Change
  <2>2. UNCHANGED <<probe, ans>>
    BY <1>7 DEF Change
  <2>3. \A q \in Probes : Under(q)' = Under(q)
    BY <2>2 DEF Under
  <2>4. \A q \in Probes, o \in Providers :
          /\ felt[q][o] \subseteq felt'[q][o] /\ felt'[q][o] \subseteq Health
          /\ Under(q) /\ o = p => h \in felt'[q][o]
    BY <1>3, <2>1
  <2>5. TypeOK'
    <3>1. dep' \in [Providers -> Health]
      BY <1>3, <2>1
    <3>2. felt' \in [Probes -> [Providers -> SUBSET Health]]
      BY <1>3, <2>1
    <3> QED BY <1>2, <1>3, <2>2, <3>1, <3>2
  <2>6. ProbesAreServed'
    BY <1>0, <2>2, <2>3 DEF Inv, ProbesAreServed
  <2>7. ProbesSawIt'
    <3> SUFFICES ASSUME NEW q \in Probes
                 PROVE  /\ Under(q) => \A o \in Providers : dep'[o] \in felt'[q][o]
                        /\ \A o \in probe[q].failed : felt'[q][o] \ {"up"} # {}
                        /\ \A k \in 1 .. Len(Order) :
                             k < probe[q].at /\ Order[k] \notin probe[q].failed =>
                               "up" \in felt'[q][Order[k]]
      BY <2>2, <2>3 DEF Inv, ProbesSawIt
    <3>1. Under(q) => \A o \in Providers : dep'[o] \in felt'[q][o]
      BY <1>3, <2>1, <2>4 DEF Inv, ProbesSawIt
    <3>2. probe[q].failed \subseteq Providers
      BY <1>3
    <3>3. \A o \in probe[q].failed : felt'[q][o] \ {"up"} # {}
      BY <2>4, <3>2 DEF Inv, ProbesSawIt
    <3>4. \A k \in 1 .. Len(Order) :
            k < probe[q].at /\ Order[k] \notin probe[q].failed => "up" \in felt'[q][Order[k]]
      BY <2>4, OrderFacts DEF Inv, ProbesSawIt
    <3> QED BY <3>1, <3>3, <3>4
  <2> QED BY <2>5, <2>6, <2>7
<1> QED BY <1>1, <1>4, <1>5, <1>6, <1>7 DEF Inv

LEMMA StutterKeepsInv == ASSUME Inv, UNCHANGED vars PROVE Inv'
  BY DEF vars, process, probing, Inv, TypeOK, StackIsOpen, PhaseFits, ProbesAreServed,
         ProbesSawIt, Under

LEMMA Invariance == Spec => []Inv
<1>1. Inv /\ [Next]_vars => Inv'
  BY LifespanKeepsInv, ProbingKeepsInv, StutterKeepsInv DEF Next
<1> QED BY InitInv, <1>1, PTL DEF Spec

-----------------------------------------------------------------------------
(* Theorems                                                                 *)

\* Every variable keeps its type: the stack and the checks never outgrow the
\* registered providers (lifecycle.py: startup, shutdown, run_health_checks).
THEOREM TypeCorrect == Spec => []TypeOK
  BY Invariance, PTL DEF Inv

\* However the start ends, the resources of started providers are in use
\* afterwards only if a health check had no positive time limit, and then all
\* of them are (main.py: lifespan).
THEOREM OnlyInvalidConfigurationsLeak == Spec => []OnlyInvalidLeaks
<1>1. Inv => OnlyInvalidLeaks
  <2> SUFFICES ASSUME Inv, Ended PROVE (phase = "invalid") = (\E p \in Providers : res[p] = "open")
    BY DEF OnlyInvalidLeaks
  <2>1. CASE phase = "invalid"
    <3>1. 1 \in 1 .. Len(Order) /\ 1 <= started
      BY <2>1, OrderFacts DEF Inv, PhaseFits
    <3>2. Order[1] \in Providers /\ res[Order[1]] = "open"
      BY <3>1, OrderFacts DEF Inv, StackIsOpen
    <3> QED BY <2>1, <3>2
  <2>2. CASE phase # "invalid"
    <3>1. started = 0
      BY <2>2 DEF Inv, PhaseFits, Ended
    <3>2. ASSUME NEW p \in Providers PROVE res[p] # "open"
      BY <3>1, OrderFacts DEF Inv, StackIsOpen
    <3> QED BY <2>2, <3>2
  <2> QED BY <2>1, <2>2
<1> QED BY Invariance, <1>1, PTL

\* Whatever the dependencies do while a probe runs, its answer is one that
\* they justified at some time of it (run_health_checks).
THEOREM ReadyAnswersAreTrue == Spec => []ReadyIsTruthful
<1>1. Inv => ReadyIsTruthful
  <2> SUFFICES ASSUME Inv, NEW q \in Probes, ans[q] # "none"
               PROVE  /\ ans[q] = "failed" => \E p \in Required : felt[q][p] \ {"up"} # {}
                      /\ ans[q] = "ok" => \A p \in Providers : "up" \in felt[q][p]
                      /\ ans[q] = "degraded" =>
                           /\ \E p \in Providers \ Required : felt[q][p] \ {"up"} # {}
                           /\ \A p \in Required : "up" \in felt[q][p]
    BY DEF ReadyIsTruthful
  <2> DEFINE failed == probe[q].failed
  <2>1. ans[q] = Status(failed) /\ failed \subseteq Providers
    BY DEF Inv, TypeOK, ProbesSawIt
  <2>2. \A p \in failed : felt[q][p] \ {"up"} # {}
    BY DEF Inv, ProbesSawIt
  <2>3. ASSUME NEW p \in Providers \ failed PROVE "up" \in felt[q][p]
    BY OrderFacts DEF Inv, ProbesSawIt
  <2>4. Required \subseteq Providers
    BY OrderAssumption
  <2> HIDE DEF failed
  <2> QED BY <2>1, <2>2, <2>3, <2>4 DEF Status
<1> QED BY Invariance, <1>1, PTL

\* Resources are released in the reverse of the order of their start, after a
\* failed start and at the end (LifecycleProviderRegistry.shutdown).
THEOREM ReverseRelease == Spec => ReleasedInReverse
<1> DEFINE Order_ok ==
      \A j \in DOMAIN Order :
        res[Order[j]] = "open" /\ res'[Order[j]] # "open" =>
          \A k \in DOMAIN Order : k > j => res[Order[k]] # "open"
<1>1. ASSUME Inv, [Next]_vars PROVE Order_ok
  <2>1. CASE Release
    <3> SUFFICES ASSUME NEW j \in 1 .. Len(Order), res[Order[j]] = "open", res'[Order[j]] # "open",
                        NEW k \in 1 .. Len(Order), k > j
                 PROVE  res[Order[k]] # "open"
      BY OrderFacts
    <3>1. started \in 1 .. Len(Order) /\ Order[started] \in Providers
      BY <1>1, <2>1, OrderFacts DEF Inv, TypeOK, Release
    <3>2. j = started
      BY <1>1, <2>1, <3>1, OrderFacts DEF Inv, TypeOK, Release
    <3> QED BY <1>1, <3>1, <3>2 DEF Inv, StackIsOpen
  <2>2. CASE StartProvider
    BY <1>1, <2>2, OrderFacts DEF Inv, TypeOK, StartProvider, NextProvider
  <2>3. CASE UNCHANGED res
    BY <2>3
  <2>4. Release \/ StartProvider \/ UNCHANGED res
    BY <1>1 DEF Next, Lifespan, Released, Validate, Drained, StartFails, Terminate, Ready, Check,
                Answer, Change, process, vars
  <2> QED BY <2>1, <2>2, <2>3, <2>4
<1> HIDE DEF Order_ok
<1>2. Spec => [][Order_ok]_vars
  BY <1>1, Invariance, PTL DEF Spec
<1> QED BY <1>2 DEF ReleasedInReverse, Order_ok

=============================================================================
