----------------------------- MODULE Lifecycle ------------------------------
(***************************************************************************)
(* The life of the API process (app/main.py: lifespan), its providers      *)
(* (app/core/lifecycle.py, app/integrations) and the /ready probes that    *)
(* run while the things the providers depend on come and go.               *)
(***************************************************************************)
EXTENDS Naturals, Sequences

CONSTANTS
  Order,       \* the providers in the order of their registration
  Required,    \* those whose failed check fails /ready
  Probes       \* requests to /ready, each is sent at most once

Providers == {Order[k] : k \in DOMAIN Order}

ASSUME OrderAssumption ==
  /\ Order \in Seq(Providers) /\ Order # <<>>
  /\ \A j, k \in DOMAIN Order : j # k => Order[j] # Order[k]
  /\ Required \subseteq Providers

VARIABLES
  conf,       \* the providers whose health check has a name that is taken or a
              \* time limit that is not positive
  phase,      \* where lifespan is
  started,    \* how many of the providers are on the stack _started
  res,        \* res[p]: the resource of provider p; "stuck": its shutdown raised
  checks,     \* the number of registered health checks
  dep,        \* dep[p]: what provider p depends on answers, fails, or is slow
  probe,      \* probe[q]: its next check, 0 before, and the failed checks
  ans,        \* ans[q]: what it was told
  felt        \* felt[q]: the states each dependency has been in meanwhile

process == <<phase, started, res, checks>>
probing == <<probe, ans, felt>>
vars == <<conf, process, dep, probing>>

Health == {"up", "down", "slow"}

TypeOK ==
  /\ conf \in [clash : SUBSET Providers, bad : SUBSET Providers]
  /\ phase \in {"starting", "cleaning", "validating", "invalid", "serving", "draining",
                "stopping", "stopped", "failed"}
  /\ started \in 0 .. Len(Order) /\ checks \in 0 .. Len(Order)
  /\ res \in [Providers -> {"none", "open", "closed", "stuck"}]
  /\ dep \in [Providers -> Health]
  /\ probe \in [Probes -> [at : 0 .. Len(Order) + 1, failed : SUBSET Providers]]
  /\ ans \in [Probes -> {"none", "ok", "degraded", "failed"}]
  /\ felt \in [Probes -> [Providers -> SUBSET Health]]

-----------------------------------------------------------------------------
(* LifecycleProviderRegistry.startup                                        *)

NextProvider == Order[started + 1]

\* The resource is put on the stack before its check is registered, so a name
\* that is taken fails a provider that will be shut down.
StartProvider ==
  /\ phase = "starting" /\ started < Len(Order)
  /\ started' = started + 1
  /\ res' = [res EXCEPT ![NextProvider] = "open"]
  /\ IF NextProvider \in conf.clash
     THEN phase' = "cleaning" /\ UNCHANGED checks
     ELSE phase' = (IF started' = Len(Order) THEN "validating" ELSE "starting")
          /\ checks' = checks + 1
  /\ UNCHANGED <<conf, dep, probing>>

\* The provider raises before it has a resource: Redis is enabled, the storage
\* adapter does not exist, a directory cannot be made.
StartFails ==
  /\ phase = "starting" /\ started < Len(Order)
  /\ phase' = "cleaning"
  /\ UNCHANGED <<conf, started, res, checks, dep, probing>>

-----------------------------------------------------------------------------
(* shutdown, after a failed start and at the end                            *)

\* A mutant of Release: the providers are released in the order they started.
ReleaseInOrder ==
  LET k == CHOOSE k \in 1 .. Len(Order) :
             res[Order[k]] = "open" /\ \A j \in 1 .. k - 1 : res[Order[j]] # "open" IN
  /\ phase \in {"cleaning", "stopping"} /\ started > 0
  /\ started' = started - 1
  /\ \E how \in {"closed", "stuck"} : res' = [res EXCEPT ![Order[k]] = how]
  /\ UNCHANGED <<conf, phase, checks, dep, probing>>

\* A mutant of Release: an error ends the loop.
ReleaseStops ==
  /\ phase \in {"cleaning", "stopping"} /\ started > 0
  /\ \E how \in {"closed", "stuck"} :
       /\ res' = [res EXCEPT ![Order[started]] = how]
       /\ started' = IF how = "stuck" THEN 0 ELSE started - 1
  /\ UNCHANGED <<conf, phase, checks, dep, probing>>

\* A mutant of Release: the last one is read, not taken off.
ReleaseNoPop ==
  /\ phase \in {"cleaning", "stopping"} /\ started > 0
  /\ \E how \in {"closed", "stuck"} : res' = [res EXCEPT ![Order[started]] = how]
  /\ UNCHANGED <<conf, phase, started, checks, dep, probing>>

\* The last one on the stack is taken off; its error is kept and the loop goes
\* on.
Release ==
  /\ phase \in {"cleaning", "stopping"} /\ started > 0
  /\ started' = started - 1
  /\ \E how \in {"closed", "stuck"} : res' = [res EXCEPT ![Order[started]] = how]
  /\ UNCHANGED <<conf, phase, checks, dep, probing>>

\* The stack is empty: the error of the start is raised again, or lifespan ends.
Released ==
  /\ phase \in {"cleaning", "stopping"} /\ started = 0
  /\ phase' = IF phase = "cleaning" THEN "failed" ELSE "stopped"
  /\ UNCHANGED <<conf, started, res, checks, dep, probing>>

-----------------------------------------------------------------------------
(* lifespan                                                                 *)

\* HealthCheckRegistry.validate raises outside of the try that releases.
Validate ==
  /\ phase = "validating"
  /\ phase' = IF conf.bad = {} THEN "serving" ELSE "invalid"
  /\ UNCHANGED <<conf, started, res, checks, dep, probing>>

\* The server is told to end; it takes no new requests and waits for those
\* under way before it leaves lifespan.
Terminate ==
  /\ phase = "serving" /\ phase' = "draining"
  /\ UNCHANGED <<conf, started, res, checks, dep, probing>>

Under(q) == probe[q].at > 0 /\ ans[q] = "none"

Drained ==
  /\ phase = "draining" /\ \A q \in Probes : ~Under(q)
  /\ phase' = "stopping"
  /\ UNCHANGED <<conf, started, res, checks, dep, probing>>

-----------------------------------------------------------------------------
(* GET /ready: run_health_checks, one check after the other                 *)

Ready(q) ==
  /\ phase = "serving" /\ probe[q].at = 0
  /\ probe' = [probe EXCEPT ![q].at = 1]
  /\ felt' = [felt EXCEPT ![q] = [p \in Providers |-> {dep[p]}]]
  /\ UNCHANGED <<conf, process, dep, ans>>

\* A check that raises, or runs into its time limit, has failed.
Failing(p) == dep[p] # "up"

Check(q) ==
  /\ Under(q) /\ probe[q].at <= checks
  /\ LET p == Order[probe[q].at] IN
     probe' = [probe EXCEPT ![q] = [at |-> @.at + 1,
                                    failed |-> IF Failing(p) THEN @.failed \cup {p} ELSE @.failed]]
  /\ UNCHANGED <<conf, process, dep, ans, felt>>

\* A mutant of Status: every check is required.
StatusAllRequired(failed) == IF failed = {} THEN "ok" ELSE "failed"

Status(failed) ==
  IF failed \cap Required # {} THEN "failed" ELSE IF failed # {} THEN "degraded" ELSE "ok"

Answer(q) ==
  /\ Under(q) /\ probe[q].at = checks + 1
  /\ ans' = [ans EXCEPT ![q] = Status(probe[q].failed)]
  /\ UNCHANGED <<conf, process, dep, probe, felt>>

\* A dependency of a provider changes.
Change(p) ==
  /\ phase \in {"serving", "draining"}
  /\ \E h \in Health \ {dep[p]} :
       /\ dep' = [dep EXCEPT ![p] = h]
       /\ felt' = [q \in Probes |-> IF Under(q) THEN [felt[q] EXCEPT ![p] = @ \cup {h}] ELSE felt[q]]
  /\ UNCHANGED <<conf, process, probe, ans>>

-----------------------------------------------------------------------------
Init ==
  /\ conf \in [clash : SUBSET Providers, bad : SUBSET Providers]
  /\ phase = "starting" /\ started = 0 /\ checks = 0
  /\ res = [p \in Providers |-> "none"]
  /\ dep = [p \in Providers |-> "up"]
  /\ probe = [q \in Probes |-> [at |-> 0, failed |-> {}]]
  /\ ans = [q \in Probes |-> "none"]
  /\ felt = [q \in Probes |-> [p \in Providers |-> {}]]

Lifespan == StartProvider \/ Release \/ Released \/ Validate \/ Drained

Next ==
  \/ Lifespan \/ StartFails \/ Terminate
  \/ \E q \in Probes : Ready(q) \/ Check(q) \/ Answer(q)
  \/ \E p \in Providers : Change(p)

Spec == Init /\ [][Next]_vars

FairSpec == Spec /\ WF_vars(Lifespan) /\ \A q \in Probes : WF_vars(Check(q) \/ Answer(q))

-----------------------------------------------------------------------------
(* Properties                                                               *)

Ended == phase \in {"failed", "stopped", "invalid"}

\* When lifespan has ended, after a failed start or a stop, every provider that
\* was started has been shut down or has raised in its shutdown; the one way to
\* end with resources in use is a health check whose time limit is not positive.
OnlyInvalidLeaks ==
  Ended => (phase = "invalid") = (\E p \in Providers : res[p] = "open")

\* /ready answers "failed" only if a required dependency was not up at some time
\* of the probe, "ok" only if each was up at some time, "degraded" only if an
\* optional one was not and each required one was.
ReadyIsTruthful ==
  \A q \in Probes :
    LET missed(p) == felt[q][p] \ {"up"} # {}
        met(p)    == "up" \in felt[q][p] IN
    /\ ans[q] = "failed" => \E p \in Required : missed(p)
    /\ ans[q] = "ok" => \A p \in Providers : met(p)
    /\ ans[q] = "degraded" => /\ \E p \in Providers \ Required : missed(p)
                              /\ \A p \in Required : met(p)

\* Resources are released in the reverse of the order they were started in:
\* whoever is released, nobody who started later is still in use.
ReleasedInReverse ==
  [][\A j \in DOMAIN Order :
       res[Order[j]] = "open" /\ res'[Order[j]] # "open" =>
         \A k \in DOMAIN Order : k > j => res[Order[k]] # "open"]_vars

\* A start ends in a process that serves or has ended, a stop ends, and every
\* probe is answered, if each provider's startup and shutdown returns.
LifespanEnds ==
  /\ (phase = "starting") ~> (phase = "serving" \/ Ended)
  /\ (phase = "draining") ~> (phase = "stopped")
  /\ \A q \in Probes : Under(q) ~> ans[q] # "none"

=============================================================================
