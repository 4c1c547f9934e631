------------------------------ MODULE Metadata ------------------------------
(***************************************************************************)
(* The requests that create, list and inspect hosts, model roots and       *)
(* instances (app/services/comfy_service.py), over PostgreSQL at READ      *)
(* COMMITTED (app/repositories/comfy_repository.py, app/models/comfy.py).  *)
(* Each action is one SQL statement, one commit or one run of comfyctl.    *)
(* No request deletes or changes these rows, so reads of several rows that *)
(* only ask whether they are there are one step.                           *)
(***************************************************************************)
EXTENDS Catalog, FiniteSets

CONSTANTS
  Requests,    \* each is sent at most once; its rows have its name as their id
  Earlier,     \* ids of the rows that are there from the start
  Names,       \* host names other than "local"
  Paths,       \* model root paths other than the shared one
  Slugs,
  Cudas,       \* CUDA versions nvidia-smi may report; <<>> is none
  Gpus,        \* lists of GPU indexes it may report
  Faults       \* TRUE: a statement or a commit may raise a driver error

ASSUME ConstantsAssumption ==
  /\ "local" \notin Names /\ "shared" \notin Paths
  /\ Nothing \notin Requests \cup Earlier \cup Names \cup Paths \cup Slugs
  /\ Requests \cap Earlier = {} /\ Faults \in BOOLEAN

Ids == Requests \cup Earlier

VARIABLES
  pc, req, ans,
  hosts,       \* hosts[i]: the committed row with id i, and so on
  roots,
  instances,
  pend,        \* pend[r]: the rows the open transaction of r has written
  clock,       \* counts the model roots, which are listed by created_at
  pick,        \* pick[r]: the model roots and the primary one of a new instance
  before,      \* before[r]: the ids that were in use when r began
  probed       \* probed[r]: what a probe found and recommended

work == <<pend, pick>>
tables == <<hosts, roots, instances>>
vars == <<pc, req, ans, tables, work, clock, before, probed>>

NoPend == [host |-> Nothing, root |-> Nothing, instance |-> Nothing]
NoPick == [roots |-> {}, primary |-> Nothing]

-----------------------------------------------------------------------------
(* Requests                                                                 *)

Present(table) == {i \in Ids : table[i] # Nothing}

\* A client names rows it has seen; Nothing also stands for any other id.
Known(table) == Present(table) \cup {Nothing}

\* The ways a request selects a version and a runtime; the other of the two is
\* left out.
NoChoice == [version |-> Nothing, ref |-> Nothing, profile |-> Nothing, python |-> Nothing]
Choices ==
  {NoChoice,
   [NoChoice EXCEPT !.version = Versions[1].id], [NoChoice EXCEPT !.version = "unknown"],
   [NoChoice EXCEPT !.version = Versions[1].id, !.ref = "any"],
   [NoChoice EXCEPT !.profile = Profiles[1].id], [NoChoice EXCEPT !.profile = "unknown"],
   [NoChoice EXCEPT !.profile = Profiles[1].id, !.python = "any"]}

Shape == [kind |-> "list", name |-> Nothing, host |-> Nothing, root |-> Nothing,
          instance |-> Nothing, path |-> Nothing, slug |-> Nothing, roots |-> <<>>,
          primary |-> Nothing, choice |-> NoChoice]

\* GET /hosts, /model-roots, /instances, POST /hosts/{id}/probe,
\* POST /model-roots/{id}/check, GET /instances/{id}
Lookups ==
  {Shape}
    \cup {[Shape EXCEPT !.kind = "probe", !.host = h] : h \in Known(hosts)}
    \cup {[Shape EXCEPT !.kind = "check", !.root = i] : i \in Known(roots)}
    \cup {[Shape EXCEPT !.kind = "get", !.instance = i] : i \in Known(instances)}

HostCreateRequest ==
  {[Shape EXCEPT !.kind = "ssh"]}
    \cup {[Shape EXCEPT !.kind = "host", !.name = n] : n \in Names \cup {"local"}}

RootRequest(h, p) == [Shape EXCEPT !.kind = "root", !.host = h, !.path = p]

ModelRootCreateRequest ==
  {RootRequest(h, p) : h \in Known(hosts), p \in Paths \cup {"shared"}}

SlugRequest(h, s) == [Shape EXCEPT !.kind = "instance", !.host = h, !.slug = s]
BoundRequest(h, s, m, p) == [SlugRequest(h, s) EXCEPT !.roots = m, !.primary = p]
ChoiceRequest(h, s, c) == [SlugRequest(h, s) EXCEPT !.choice = c]

\* model_root_ids are distinct.
RootLists ==
  {<<>>} \cup {<<a>> : a \in Known(roots)}
    \cup ((Present(roots) \X Present(roots)) \ {<<a, a>> : a \in Ids})

InstanceCreateRequest ==
  {BoundRequest(h, s, m, p) :
     h \in Present(hosts), s \in Slugs, m \in RootLists, p \in Known(roots)}
  \cup {ChoiceRequest(h, s, c) : h \in Known(hosts), s \in Slugs, c \in Choices}

Requestable ==
  Lookups \cup HostCreateRequest \cup ModelRootCreateRequest \cup InstanceCreateRequest

-----------------------------------------------------------------------------
(* What app/api/operations.py declares                                      *)

\* A mutant of errors: the failures of comfyctl are not declared.
errors_without_comfyctl(kind) ==
  CASE kind \in {"host", "ssh"} -> {"HOST_NAME_CONFLICT", "EXECUTOR_UNSUPPORTED"}
    [] kind = "probe"           -> {"HOST_NOT_FOUND"}
    [] kind = "root"            -> {"HOST_NOT_FOUND", "MODEL_ROOT_CONFLICT"}
    [] kind = "check"           -> {"MODEL_ROOT_NOT_FOUND"}
    [] kind = "instance"        -> {"HOST_NOT_FOUND", "MODEL_ROOT_NOT_FOUND",
                                    "INSTANCE_SLUG_CONFLICT", "REQUEST_INVALID"}
    [] kind = "get"             -> {"INSTANCE_NOT_FOUND", "HOST_NOT_FOUND"}
    [] OTHER                    -> {}

errors(kind) ==
  CASE kind \in {"host", "ssh"} -> {"HOST_NAME_CONFLICT", "EXECUTOR_UNSUPPORTED"}
    [] kind = "probe"           -> {"HOST_NOT_FOUND", "COMFYCTL_FAILED"}
    [] kind = "root"            -> {"HOST_NOT_FOUND", "MODEL_ROOT_CONFLICT"}
    [] kind = "check"           -> {"MODEL_ROOT_NOT_FOUND", "COMFYCTL_FAILED"}
    [] kind = "instance"        -> {"HOST_NOT_FOUND", "MODEL_ROOT_NOT_FOUND",
                                    "INSTANCE_SLUG_CONFLICT", "REQUEST_INVALID"}
    [] kind = "get"             -> {"INSTANCE_NOT_FOUND", "HOST_NOT_FOUND"}
    [] OTHER                    -> {}

\* All of these operations require authentication.
error_codes(kind) == {"REQUEST_INVALID", "INTERNAL_ERROR", "UNAUTHORIZED"} \cup errors(kind)

-----------------------------------------------------------------------------
(* Types                                                                    *)

HostRow == [name : Names \cup {"local"}, seeded : BOOLEAN]
RootRow == [host : Ids, path : Paths \cup {"shared"}, at : Nat]
InstanceRow == [host : Ids, slug : Slugs, roots : SUBSET Ids, primary : Ids \cup {Nothing}]

Codes == {"none", "OK", "EXECUTOR_UNSUPPORTED", "HOST_NOT_FOUND", "HOST_NAME_CONFLICT",
          "MODEL_ROOT_CONFLICT", "MODEL_ROOT_NOT_FOUND", "INSTANCE_NOT_FOUND",
          "INSTANCE_SLUG_CONFLICT", "UNAUTHORIZED", "REQUEST_INVALID", "COMFYCTL_FAILED",
          "INTERNAL_ERROR"}

Recommendation ==
  [version : {v.id : v \in Entries(Versions)}, profile : {p.id : p \in Entries(Profiles)},
   gpu_ids : SUBSET Nat]

\* Nothing is told from every row and every recommendation.
ASSUME NothingAssumption ==
  Nothing \notin HostRow \cup RootRow \cup InstanceRow \cup Recommendation

Places == {"idle", "local", "seed_host", "seed_root", "seed_commit", "list", "host", "root_host",
           "root", "host_of", "slug", "roots", "instance", "bind", "commit", "get", "check",
           "probe", "smi", "done"}

Request ==
  [kind : {"list", "probe", "check", "get", "host", "ssh", "root", "instance"},
   name : Names \cup {"local", Nothing}, host : Ids \cup {Nothing}, root : Ids \cup {Nothing},
   instance : Ids \cup {Nothing}, path : Paths \cup {"shared", Nothing},
   slug : Slugs \cup {Nothing}, roots : Seq(Ids \cup {Nothing}), primary : Ids \cup {Nothing},
   choice : Choices]

TypeOK ==
  /\ pc \in [Requests -> Places] /\ req \in [Requests -> Request]
  /\ hosts \in [Ids -> HostRow \cup {Nothing}]
  /\ roots \in [Ids -> RootRow \cup {Nothing}]
  /\ instances \in [Ids -> InstanceRow \cup {Nothing}]
  /\ pend \in [Requests -> [host : HostRow \cup {Nothing}, root : RootRow \cup {Nothing},
                            instance : InstanceRow \cup {Nothing}]]
  /\ pick \in [Requests -> [roots : SUBSET Ids, primary : Ids \cup {Nothing}]]
  /\ ans \in [Requests -> [code : Codes, cause : {"none", "key", "driver"}]]
  /\ before \in [Requests -> SUBSET Ids] /\ clock \in Nat

-----------------------------------------------------------------------------
(* Steps                                                                    *)

Goto(r, next) == pc' = [pc EXCEPT ![r] = next]

\* The unit of work is left, which rolls back what was not committed.
AnswerFor(r, code, cause) ==
  /\ ans' = [ans EXCEPT ![r] = [code |-> code, cause |-> cause]]
  /\ pend' = [pend EXCEPT ![r] = NoPend]
  /\ Goto(r, "done")

Answer(r, code) == AnswerFor(r, code, "none")

Entry(q) ==
  CASE q.kind = "list" -> "local" [] q.kind \in {"host", "ssh"} -> "host"
    [] q.kind = "root" -> "root_host" [] q.kind = "instance" -> "host_of"
    [] OTHER -> q.kind

Begin(r) ==
  /\ pc[r] = "idle"
  /\ \E q \in Requestable : req' = [req EXCEPT ![r] = q] /\ Goto(r, Entry(q))
  /\ before' = [before EXCEPT ![r] = Present(hosts) \cup Present(roots) \cup Present(instances)]
  /\ UNCHANGED <<ans, tables, work, clock, probed>>

\* The middleware or the schema turns a request down before the service is
\* called, or get_current_principal does.
Refuse(r, code) ==
  /\ pc[r] = "idle"
  /\ Answer(r, code)
  /\ UNCHANGED <<req, tables, pick, clock, before, probed>>

Invalid(r) == Refuse(r, "REQUEST_INVALID")
Unauthorized(r) == Refuse(r, "UNAUTHORIZED")

\* Waiting for another transaction that has written the same key.
HostBusy(r, name) ==
  \E o \in Requests \ {r} : pend[o].host # Nothing /\ pend[o].host.name = name
RootBusy(r, host, path) ==
  \E o \in Requests \ {r} : pend[o].root # Nothing /\ pend[o].root.host = host
                              /\ pend[o].root.path = path
SlugBusy(r, host, slug) ==
  \E o \in Requests \ {r} : pend[o].instance # Nothing /\ pend[o].instance.host = host
                              /\ pend[o].instance.slug = slug

\* The unique indexes uq_hosts_name, uq_model_roots_host_path and
\* uq_instances_host_slug.
HostTaken(name) == \E i \in Present(hosts) : hosts[i].name = name
RootTaken(host, path) == \E i \in Present(roots) : roots[i].host = host /\ roots[i].path = path
SlugTaken(host, slug) ==
  \E i \in Present(instances) : instances[i].host = host /\ instances[i].slug = slug

\* ensure_default_host, which every list begins with.
SelectLocal(r) ==
  /\ pc[r] = "local"
  /\ Goto(r, IF HostTaken("local") THEN "list" ELSE "seed_host")
  /\ UNCHANGED <<req, ans, tables, work, clock, before, probed>>

\* A mutant of SeedHost: the host is committed before its model root is made.
SeedHostCommits(r) ==
  /\ pc[r] = "seed_host" /\ ~HostBusy(r, "local") /\ ~HostTaken("local")
  /\ pend' = [pend EXCEPT ![r].host = [name |-> "local", seeded |-> TRUE]]
  /\ hosts' = [hosts EXCEPT ![r] = [name |-> "local", seeded |-> TRUE]]
  /\ Goto(r, "seed_root")
  /\ UNCHANGED <<req, ans, roots, instances, pick, clock, before, probed>>

SeedHost(r) ==
  /\ pc[r] = "seed_host" /\ ~HostBusy(r, "local")
  /\ IF HostTaken("local")
     THEN AnswerFor(r, "INTERNAL_ERROR", "key")
     ELSE /\ pend' = [pend EXCEPT ![r].host = [name |-> "local", seeded |-> TRUE]]
          /\ Goto(r, "seed_root") /\ UNCHANGED ans
  /\ UNCHANGED <<req, tables, pick, clock, before, probed>>

SeedRoot(r) ==
  /\ pc[r] = "seed_root"
  /\ pend' = [pend EXCEPT ![r].root = [host |-> r, path |-> "shared", at |-> clock]]
  /\ clock' = clock + 1
  /\ Goto(r, "seed_commit")
  /\ UNCHANGED <<req, ans, tables, pick, before, probed>>

\* The rows of r's transaction become visible together.
Publish(r) ==
  /\ hosts' = [hosts EXCEPT ![r] = pend[r].host]
  /\ roots' = [roots EXCEPT ![r] = pend[r].root]
  /\ instances' = [instances EXCEPT ![r] = pend[r].instance]

SeedCommit(r) ==
  /\ pc[r] = "seed_commit"
  /\ Publish(r)
  /\ pend' = [pend EXCEPT ![r] = NoPend]
  /\ Goto(r, "list")
  /\ UNCHANGED <<req, ans, pick, clock, before, probed>>

\* list_hosts, list_model_roots, list_instances read in a second transaction.
List(r) ==
  /\ pc[r] = "list"
  /\ Answer(r, "OK")
  /\ UNCHANGED <<req, tables, pick, clock, before, probed>>

\* create_host
InsertHost(r) ==
  /\ pc[r] = "host"
  /\ \/ /\ req[r].kind = "ssh"
        /\ Answer(r, "EXECUTOR_UNSUPPORTED")
     \/ /\ req[r].kind = "host" /\ ~HostBusy(r, req[r].name) /\ HostTaken(req[r].name)
        /\ Answer(r, "HOST_NAME_CONFLICT")
     \/ /\ req[r].kind = "host" /\ ~HostBusy(r, req[r].name) /\ ~HostTaken(req[r].name)
        /\ pend' = [pend EXCEPT ![r].host = [name |-> req[r].name, seeded |-> FALSE]]
        /\ Goto(r, "commit") /\ UNCHANGED ans
  /\ UNCHANGED <<req, tables, pick, clock, before, probed>>

\* A mutant of SelectRootHost: the host is not looked up.
SelectRootHostSkipped(r) ==
  /\ pc[r] = "root_host"
  /\ Goto(r, "root")
  /\ UNCHANGED <<req, ans, tables, work, clock, before, probed>>

\* create_model_root
SelectRootHost(r) ==
  /\ pc[r] = "root_host"
  /\ IF req[r].host \in Present(hosts)
     THEN Goto(r, "root") /\ UNCHANGED <<ans, pend>>
     ELSE Answer(r, "HOST_NOT_FOUND")
  /\ UNCHANGED <<req, tables, pick, clock, before, probed>>

InsertRoot(r) ==
  LET q == req[r] IN
  /\ pc[r] = "root" /\ ~RootBusy(r, q.host, q.path)
  /\ IF RootTaken(q.host, q.path)
     THEN Answer(r, "MODEL_ROOT_CONFLICT") /\ UNCHANGED clock
     ELSE /\ pend' = [pend EXCEPT ![r].root = [host |-> q.host, path |-> q.path, at |-> clock]]
          /\ clock' = clock + 1
          /\ Goto(r, "commit") /\ UNCHANGED ans
  /\ UNCHANGED <<req, tables, pick, before, probed>>

\* create_instance
SelectHost(r) ==
  /\ pc[r] = "host_of"
  /\ IF req[r].host \in Present(hosts)
     THEN Goto(r, "slug") /\ UNCHANGED <<ans, pend>>
     ELSE Answer(r, "HOST_NOT_FOUND")
  /\ UNCHANGED <<req, tables, pick, clock, before, probed>>

\* A mutant of SelectSlug: the slug is not looked up.
SelectSlugSkipped(r) ==
  /\ pc[r] = "slug"
  /\ Goto(r, "roots")
  /\ UNCHANGED <<req, ans, tables, work, clock, before, probed>>

SelectSlug(r) ==
  /\ pc[r] = "slug"
  /\ IF SlugTaken(req[r].host, req[r].slug)
     THEN Answer(r, "INSTANCE_SLUG_CONFLICT")
     ELSE Goto(r, "roots") /\ UNCHANGED <<ans, pend>>
  /\ UNCHANGED <<req, tables, pick, clock, before, probed>>

\* The model roots asked for, else the oldest of the host.
RootsFor(q) ==
  LET own == {i \in Present(roots) : roots[i].host = q.host} IN
  IF q.roots # <<>> THEN Entries(q.roots)
  ELSE {i \in own : \A j \in own : roots[i].at <= roots[j].at}

PrimaryFor(q) ==
  IF q.primary # Nothing THEN q.primary
  ELSE IF q.roots # <<>> THEN q.roots[1]
  ELSE IF RootsFor(q) = {} THEN Nothing
  ELSE CHOOSE i \in RootsFor(q) : TRUE

\* _resolve_comfy_ref and _resolve_runtime
Resolves(c) ==
  /\ ~(c.version # Nothing /\ c.ref # Nothing)
  /\ c.version # Nothing => version_by_id(c.version) # Nothing
  /\ ~(c.profile # Nothing /\ c.python # Nothing)
  /\ c.profile # Nothing => runtime_profile_by_id(c.profile) # Nothing

\* A mutant of RootsAreUsable: a model root of any host will do.
RootsAreUsableAnyHost(q) ==
  /\ PrimaryFor(q) # Nothing => PrimaryFor(q) \in RootsFor(q)
  /\ \A i \in RootsFor(q) : i \in Present(roots)

RootsAreUsable(q) ==
  /\ PrimaryFor(q) # Nothing => PrimaryFor(q) \in RootsFor(q)
  /\ \A i \in RootsFor(q) : i \in Present(roots) /\ roots[i].host = q.host

ChooseRoots(r) ==
  LET q == req[r] IN
  /\ pc[r] = "roots"
  /\ \/ ~RootsAreUsable(q) /\ Answer(r, "MODEL_ROOT_NOT_FOUND") /\ UNCHANGED pick
     \/ RootsAreUsable(q) /\ ~Resolves(q.choice) /\ Answer(r, "REQUEST_INVALID") /\ UNCHANGED pick
     \/ /\ RootsAreUsable(q) /\ Resolves(q.choice)
        /\ pick' = [pick EXCEPT ![r] = [roots |-> RootsFor(q), primary |-> PrimaryFor(q)]]
        /\ Goto(r, "instance") /\ UNCHANGED <<ans, pend>>
  /\ UNCHANGED <<req, tables, clock, before, probed>>

\* A mutant of InsertInstance: the row is committed before it is bound.
InsertInstanceCommits(r) ==
  LET row == [host |-> req[r].host, slug |-> req[r].slug, roots |-> {},
              primary |-> Nothing] IN
  /\ pc[r] = "instance" /\ ~SlugBusy(r, row.host, row.slug) /\ ~SlugTaken(row.host, row.slug)
  /\ pend' = [pend EXCEPT ![r].instance = row]
  /\ instances' = [instances EXCEPT ![r] = row]
  /\ Goto(r, "bind")
  /\ UNCHANGED <<req, ans, hosts, roots, pick, clock, before, probed>>

\* An IntegrityError is not caught here.
InsertInstance(r) ==
  LET q == req[r] IN
  /\ pc[r] = "instance" /\ ~SlugBusy(r, q.host, q.slug)
  /\ IF SlugTaken(q.host, q.slug)
     THEN AnswerFor(r, "INTERNAL_ERROR", "key")
     ELSE /\ pend' = [pend EXCEPT ![r].instance =
               [host |-> q.host, slug |-> q.slug, roots |-> {}, primary |-> pick[r].primary]]
          /\ Goto(r, "bind") /\ UNCHANGED ans
  /\ UNCHANGED <<req, tables, pick, clock, before, probed>>

\* set_model_roots
BindRoots(r) ==
  /\ pc[r] = "bind"
  /\ pend' = [pend EXCEPT ![r].instance.roots = pick[r].roots]
  /\ Goto(r, "commit")
  /\ UNCHANGED <<req, ans, tables, pick, clock, before, probed>>

Commit(r) ==
  /\ pc[r] = "commit"
  /\ Publish(r)
  /\ Answer(r, "OK")
  /\ UNCHANGED <<req, pick, clock, before, probed>>

\* get_instance and check_model_root: one read; the check then asks comfyctl
\* about the path, and reports what it found whatever it is.
Get(r) ==
  /\ pc[r] = "get"
  /\ Answer(r, IF req[r].instance \in Present(instances) THEN "OK" ELSE "INSTANCE_NOT_FOUND")
  /\ UNCHANGED <<req, tables, pick, clock, before, probed>>

Check(r) ==
  /\ pc[r] = "check"
  /\ \E code \in IF req[r].root \in Present(roots) THEN {"OK", "COMFYCTL_FAILED"}
                                                    ELSE {"MODEL_ROOT_NOT_FOUND"} :
       Answer(r, code)
  /\ UNCHANGED <<req, tables, pick, clock, before, probed>>

ProbeSelect(r) ==
  /\ pc[r] = "probe"
  /\ IF req[r].host \in Present(hosts)
     THEN Goto(r, "smi") /\ UNCHANGED <<ans, pend>>
     ELSE Answer(r, "HOST_NOT_FOUND")
  /\ UNCHANGED <<req, tables, pick, clock, before, probed>>

\* comfyctl host probe asks nvidia-smi twice, for the GPUs and for the CUDA
\* version; each answer may be missing.  The child may also end without JSON.
Probe(r) ==
  /\ pc[r] = "smi"
  /\ \/ Answer(r, "COMFYCTL_FAILED") /\ UNCHANGED probed
     \/ \E gpus \in Gpus, cuda \in Cudas :
          /\ probed' = [probed EXCEPT ![r] = [gpus |-> gpus, cuda |-> cuda,
                                              rec |-> recommendation(cuda, gpus)]]
          /\ Answer(r, "OK")
  /\ UNCHANGED <<req, tables, pick, clock, before>>

\* The driver raises: the transaction is rolled back, or the answer to its
\* commit is lost.
Fail(r) ==
  /\ Faults /\ pc[r] \notin {"idle", "done", "smi"}
  /\ AnswerFor(r, "INTERNAL_ERROR", "driver")
  /\ UNCHANGED tables \/ (pc[r] \in {"commit", "seed_commit"} /\ Publish(r))
  /\ UNCHANGED <<req, pick, clock, before, probed>>

-----------------------------------------------------------------------------
\* The database as earlier requests have left it: no host, or some, each with
\* or without its first model root; the default host that a list has made has
\* one.
Init ==
  /\ pc = [r \in Requests |-> "idle"] /\ req = [r \in Requests |-> Shape]
  /\ ans = [r \in Requests |-> [code |-> "none", cause |-> "none"]]
  /\ hosts \in [Ids -> HostRow \cup {Nothing}] /\ Present(hosts) \subseteq Earlier
  /\ \E rooted \in SUBSET Present(hosts) :
       roots = [i \in Ids |->
         IF i \in rooted THEN [host |-> i, path |-> "shared", at |-> 0] ELSE Nothing]
  /\ \A i \in Present(hosts) :
       /\ hosts[i].seeded => hosts[i].name = "local" /\ roots[i] # Nothing
       /\ \A j \in Present(hosts) \ {i} : hosts[i].name # hosts[j].name
  /\ instances = [i \in Ids |-> Nothing]
  /\ pend = [r \in Requests |-> NoPend] /\ pick = [r \in Requests |-> NoPick]
  /\ clock = 1 /\ before = [r \in Requests |-> {}]
  /\ probed = [r \in Requests |-> Nothing]

Step(r) ==
  \/ SelectLocal(r) \/ SeedHost(r) \/ SeedRoot(r) \/ SeedCommit(r) \/ List(r)
  \/ InsertHost(r) \/ SelectRootHost(r) \/ InsertRoot(r)
  \/ SelectHost(r) \/ SelectSlug(r) \/ ChooseRoots(r) \/ InsertInstance(r) \/ BindRoots(r)
  \/ Commit(r) \/ Get(r) \/ Check(r) \/ ProbeSelect(r) \/ Probe(r)

Next == \E r \in Requests : Begin(r) \/ Invalid(r) \/ Unauthorized(r) \/ Step(r) \/ Fail(r)

Spec == Init /\ [][Next]_vars

-----------------------------------------------------------------------------
(* Properties                                                               *)

\* Every instance has model roots of its own host only, and some if its host
\* had any when the request began; its primary root is one of them; no two
\* instances of a host have one slug.  The row, its primary root and its model
\* roots are written by separate statements (create_instance, set_model_roots).
InstancesAreWellFormed ==
  \A i \in Present(instances) :
    /\ \A m \in instances[i].roots : roots[m] # Nothing /\ roots[m].host = instances[i].host
    /\ instances[i].primary # Nothing => instances[i].primary \in instances[i].roots
    /\ instances[i].roots = {} =>
         ~\E m \in before[i] : roots[m] # Nothing /\ roots[m].host = instances[i].host
    /\ \A j \in Present(instances) \ {i} :
         instances[i].host = instances[j].host => instances[i].slug # instances[j].slug

\* The default host that a list has made has its shared model root, whatever
\* fails between the two inserts and the commit (ensure_default_host).
DefaultHostComplete ==
  \A i \in Present(hosts) :
    hosts[i].seeded => \E m \in Present(roots) : roots[m].host = i /\ roots[m].path = "shared"

\* A request that fails on a unique index without an error code of its own has
\* lost a race: the row it met was not there when it began.
OnlyRacesBreak ==
  \A r \in Requests :
    ans[r].cause = "key" =>
      \E i \in Ids \ before[r] :
        \/ req[r].kind = "list" /\ i \in Present(hosts) /\ hosts[i].name = "local"
        \/ /\ req[r].kind = "instance" /\ i \in Present(instances)
           /\ instances[i].host = req[r].host /\ instances[i].slug = req[r].slug

\* A request is answered only with the error codes that its operation declares
\* and the OpenAPI document lists, whatever it raced with or ran into.
DeclaredErrorsOnly ==
  \A r \in Requests : ans[r].code \in {"none", "OK"} \cup error_codes(req[r].kind)

\* The number a version of at most three parts below 100 stands for.
Weight(v) == 10000 * Part(v, 1) + 100 * Part(v, 2) + Part(v, 3)

SmallVersion(v) == v \in Seq(Nat) /\ Len(v) <= 3 /\ \A k \in DOMAIN v : v[k] < 100

\* What load_catalog does not check and the recommendation relies on: a rule
\* with a minimum is for NVIDIA hosts, comes before the NVIDIA rules without
\* one and shares its profile with no rule that has none; both kinds of host
\* have a rule that always applies.
RulesAreOrdered ==
  /\ Rules \in Seq(Entries(Rules))
  /\ \A rule \in Entries(Rules) :
       /\ SmallVersion(rule.cuda_min)
       /\ rule.cuda_min # <<>> => rule.gpu_vendor = "nvidia"
       /\ rule.gpu_vendor = "nvidia" => rule.gpu = "first"
  /\ \A vendor \in {"nvidia", "none"} : \E rule \in Entries(Rules) :
       rule.gpu_vendor = vendor /\ rule.cuda_min = <<>>
  /\ \A j, k \in DOMAIN Rules : Rules[j].cuda_min # <<>> /\ Rules[k].cuda_min = <<>> =>
       /\ Rules[k].gpu_vendor = "nvidia" => j < k
       /\ Rules[j].runtime_profile_id # Rules[k].runtime_profile_id

\* What nvidia-smi reports: CUDA versions such as 12.4, indexes of GPUs.
ReportsAreSmall == (\A cuda \in Cudas : SmallVersion(cuda)) /\ Gpus \subseteq Seq(Nat)

\* A probe recommends a profile that is tied to a CUDA version exactly when the
\* host has a GPU and, read as numbers, a CUDA version that is new enough; it
\* names the first GPU, and there is always a recommendation (the rules of
\* catalog/comfyui.json).
RecommendationFits ==
  \A r \in Requests : probed[r] # Nothing =>
    LET tied(rule) == rule.cuda_min # <<>>
        fits(rule) == probed[r].gpus # <<>> /\ probed[r].cuda # <<>>
                        /\ Weight(probed[r].cuda) >= Weight(rule.cuda_min)
        rec == probed[r].rec IN
    /\ rec # Nothing
    /\ (\E rule \in Entries(Rules) : tied(rule) /\ fits(rule)) =
         \E rule \in Entries(Rules) : tied(rule) /\ rule.runtime_profile_id = rec.profile
    /\ rec.gpu_ids = IF probed[r].gpus = <<>> THEN {} ELSE {probed[r].gpus[1]}

\* A conflict with a unique index is answered with an error code of its own,
\* never as INTERNAL_ERROR.  The code does not keep this when requests race.
ConflictsAreNamed == \A r \in Requests : ans[r].cause = "key" => ans[r].code # "INTERNAL_ERROR"

=============================================================================
