# Verification of comfy-shell

comfy-shell manages ComfyUI installations: a web API keeps hosts, model roots,
instances and command runs in PostgreSQL and carries out what it is asked by
starting a command line tool, `comfyctl`, which installs, starts and stops
ComfyUI in directories of the host.  This directory holds TLA+ models of the
parts in which things happen at the same time or can stop half way, the TLC runs
that check them, and proofs of their main properties for every size.

## 1. Inventory

### 1.1 Components

| part | state | operations | interacts with |
| --- | --- | --- | --- |
| `comfyctl instance install` (`comfyctl/cli.py`) | `instance.lock`, the active checkout, venv and manifest, `.previous/`, `.staging/` | check and write the lock, clone, venv, packages, promote, write manifest, clean up | other `comfyctl` processes through the file system; git, uv |
| `comfyctl instance start/stop/status` | `.run/comfyui.pid`, processes, ports | port check, spawn, poll, write pid file; ownership test, signal, wait, unlink | the install (moves the working directory of a process), other processes of the host |
| `comfyctl host probe`, `model-root check`, `ready`, `logs` | none | questions to nvidia-smi, the state of a path, the port, a log file | the requests that start them |
| Command runs of the API (`services/comfy_service.py`, `executors/local.py`) | `command_runs`, `instances.comfy_ref/resolved_commit/last_launched_at` | install, reinstall, start, stop | one `comfyctl` child per execution, the database |
| Launch configuration | `instances` row, `instance_model_roots` rows | PATCH launch-config, read by every start | the database at READ COMMITTED, `comfyctl status` |
| Hosts, model roots, creation of instances | `hosts`, `model_roots`, `instances`, `instance_model_roots` | create, list, get, check, probe, ensure_default_host | unique indexes, the catalog, `comfyctl` |
| Items example (`services/item_service.py`) | `items` with a version | create, get, update and delete by compare-and-set, lists page by page | unique index of the names in use |
| Application lifecycle (`core/lifecycle.py`, `main.py`) | started providers, health registry | startup, partial failure, shutdown in reverse | Postgres, Redis, storage, HTTP client |
| Version catalog (`comfyctl/catalog.py`) | a static table | validation, version comparison, recommendation | create_instance, install |
| Scripts (`scripts/dev.sh`, `deploy.sh`, `lib/`) | pid file and metadata of the API process, compose projects | start, stop, status; up, down | processes, ports, Docker |
| Release flow (`deploy/lib/release-flow.sh`) | the release copy, its marker and metadata | prepare, push, status | git |
| HTTP layer, web UI, settings and checks | none | mapping of requests | the services |

### 1.2 What is hard

* Nothing serialises requests.  The API starts one `comfyctl` per request and
  holds no lock while it runs; `comfyctl install` has a lock file that is tested
  and written in two steps, `start` and `stop` have none.
* A handler reads the database, waits for a child process, and writes what it
  computed from the earlier read.
* Every promotion is a sequence of renames without a journal; a process may be
  killed, or a rename refused, between any two of them.
* A process is identified by a number in a file and by its working directory.
  The number may be reused, the directory may be moved.
* `comfyctl` may do its work and fail to report it; the API may be killed while
  its child goes on.
* A check and the insert it guards are two statements; the unique index decides,
  and only some services catch what it raises.  A commit may take effect and its
  answer be lost.
* A client pages through a list while others add and delete rows.
* Providers start one after the other, any of them may fail, and what has started
  has to be released; a readiness probe takes time, in which things change.

Section 6 says what each part has to guarantee and which of it is checked;
`PROJECT.json` lists the hazards one by one with the line at which they bite.

## 2. Plan

Done, in this order:

1. `InstanceInstall` - the install and its lock (checked, proved).
2. `InstanceProcess` - start, stop, status and the processes (checked, proved).
3. `ControlPlane` - requests, runs and what they record (checked, proved).
4. `LaunchConfig` - the PATCH at READ COMMITTED (checked, proved).
5. `ItemStore`, `Items` - an atomic table, and the service that implements it
   (checked, the refinement proved).
6. `Catalog`, `Metadata` - what creates hosts, model roots and instances, over
   the catalog (checked, proved).
7. `Lifecycle` - startup, failure in the middle, release in reverse, readiness
   (checked, proved).

8. `ActiveTree`, `InstanceHost` - what the commands see of the installs, and
   installs and commands composed over it (proved).
9. `VersionSlot` - what a caller that waits for an install sees of it (checked,
   the refinement proved).

Left: a refinement of `ControlPlane` by the composition.  Its host takes the
effect of a `comfyctl` in one step, which `VersionSlot` justifies for installs in
turn; overlapping ones mix their moves, which it does not show.

The shell scripts and the release flow are no longer planned (section 7).

## 3. The models

### 3.1 `InstanceInstall`

One instance directory; every member of `Installers` is one invocation of
`comfyctl instance install` and stands for the version it builds.  `pc[i]` walks
through `command_instance_install`: `CheckLock` and `WriteLock` are two steps
because the code tests `paths.lock.exists()` and writes the file later; `Build`
is one external command (clone, venv, torch, packages, version check), which may
fail with the error the code reports (`BuildFails`); `ParkTest`/`ParkMove` are
`if source.exists(): shutil.move(...)` for checkout, venv and manifest in that
order; `PlaceCheckout`, `PlaceVenv`, `WriteManifest` finish the promotion;
`Cleanup` is the `finally` clause.  An entry of the instance directory is a tree
with possibly a second one inside it, since `shutil.move` onto an existing
directory moves *into* it and fails if that name is taken too.  `Crash` kills an
invocation at any step.  `IOFails` makes a file operation raise `OSError`: the
write of the lock, before the file is there or after (`WriteLockFails`; it stands
before the `try`, so nothing is cleaned up), anything inside the `try`
(`TryFails`), or the removal of the lock (`UnlinkFails`).  `LOCK_FILE_ERROR` is
the model's name for the traceback of the first and the last.
The content of trees, log files and the JSON are left out; names of staging and
parking directories are unique (`unique_name`) and are the invocation itself.

`Seen` and `Unplaced` are what `start`, `stop` and `status` see of all this, and
`ImplementsTree` says that they see it change only as module `ActiveTree` allows.

### 3.2 `ActiveTree` and `VersionSlot`

The abstract installs: which version's checkout is in place, if any, whether a
virtual environment is, and which versions have not been in place yet.  Its moves
are those of `promote_install`, in any order: the checkout is parked, the
environment is parked, a checkout comes into place where there is none and never
for a second time, an environment comes into place.  A checkout and an
environment need not be of one version; a promotion between its moves, a failed
one and two at once are all states of this module.

`VersionSlot` is the other abstraction of the installs, for callers that wait:
a slot with a version, which an install replaces when it reports success and
keeps when it reports an error, each in one step.  `InPlace` is the version in
the slot: the active one, and during a promotion the one it has found.
`InstallsAreAtomic` says that installs in turn implement it.

### 3.3 `InstanceProcess`

`Starts` and `Stops` are invocations of the two commands; `proc[p]` is what the
host knows of process id `p`: whether it boots, listens, shuts down or is a
zombie, which start spawned it, the version its working directory belongs to,
its port, and whether it has been sent SIGTERM.  `process_owned_by_instance` is
the test of the working directory and `main.py`; the working directory follows a
moved checkout, so a process is recognised only while its version is active.
Deadlines may pass at any time.  With `Faults` the system may refuse a command a
socket or a file at every step: a port check that gets no socket raises
`COMFYCTL_FAILED` (`port_open`, also in the polling loop: `PollFails`), a pid file
that cannot be written or removed raises `OSError`, and a child that is still there
three seconds after SIGKILL raises `TimeoutExpired` (`ReapFails`).  These three
outcomes are `Untidy`: the start ends where it stands and leaves its child to
itself, or to init if it is dead (`Orphaned`).  `NoneLeft` says that no start has
ended so far with a child behind it.  Concurrent installs are the steps of
`ActiveTree`, which this module extends; a start that has found both trees may
therefore meet a missing one when it spawns.  Unrelated processes take free ids and,
with `Thieves`, the port.  One assumption is built in: a process id does not
come back between a stop's ownership test and its `os.kill` (ids are handed out
in turn).  `MaxForeign` bounds unrelated processes so that a start finds an id.

### 3.4 `InstanceHost`

The composition: one directory with the state of `InstanceInstall` and that of
`InstanceProcess`, where the commands' `tree` and `spare` are `Seen` and
`Unplaced` of the installs.  A step is a step of one of them.  Nothing is run on
this module; its theorems (section 5) say that each component keeps its promises
beside the other.

### 3.5 `ControlPlane`

Each action is one stretch of a request handler between two awaits at which
another request can run.  A request reads the row (`Begin`), an install asks
`comfyctl status` (`StatusCheck`), records its run (`RecordRun`), starts the child
(`Spawn`), closes the run when the child has exited (`Receive`) and stores the
result (`ApplyInstall`, `ApplyStart`, `ApplyStop`).  With `restart=true` an
install goes through `start_instance`, whose run is another one (`leg`).  An
install and a stop change the host in one step.  A start takes three, the port
check (`ChildChecks`), the spawn (`ChildSpawns`) and the end of the wait for the
port (`ChildStart`), and `comfy[i]` is the process it has spawned, so that starts
overlap as they do in the code: each may take the other's process, or the other
program of `OtherListens`, for its own.  `pidFile` names the execution that wrote
it last.  What a process does while it shuts down is in `InstanceProcess` only.  A
child that fails with its JSON has ended its process or, refused a socket, left it
(`Refused`); one that is killed or meets an OS error may have done its work, part
of it (`CutShort`) or nothing, and prints no JSON.  `Breaks` is an exception that
is not an `AppError`; `ApiCrash` ends all requests and leaves the children.
`overlap` records that two requests were ever under way together.  Payloads are
reduced to ok, error and no JSON; reinstall differs from install in a label and is
the same action.  Two bounds: the other program keeps the port once it has it and
takes it only from a start that has found it free, since earlier it would only
make starts fail; the instance was created with `FirstRef`.

### 3.6 `LaunchConfig`

`update_instance_launch_config` statement by statement.  PostgreSQL's READ
COMMITTED is modelled as what its documentation and this code need of it: a
statement sees what was committed when it began; an UPDATE waits for the
transaction that updated the row; a DELETE takes its snapshot, then waits for a
transaction that deleted the same rows, and does not see rows inserted after its
snapshot.  The inserts and the commit are one step, since the row lock keeps
other writers of the bindings out.  `snap` and `snapRoots` hold what a request
read and, from `Merge` on, what it will write.  A start reads the two tables the
same way and launches ComfyUI with what it read.

### 3.7 `ItemStore` and `Items`

`ItemStore` is what the items service promises: a table whose rows have an
owner, a name, a status, a version and a deleted flag, and in which every request
is answered in the one step in which it takes effect: `Write`, `Read`, `Refuse`
with a code that fits the table at that moment, or `Break`, an internal error,
after which the client does not know whether its change was made.  An update or
delete succeeds only if the version it expects is the one the item has, and raises it
by one.  Any version from 1 on may be expected, as the schemas allow, one the item
does not have yet included.  The field `met` of a request is history: the version the
item had when the request was sent.  Who expects that one is told
`ITEM_VERSION_CONFLICT` only after somebody else's change; who expects another one
may be told so at any time.

`Items` is the code, one action per SQL statement: `SelectName` is the look for an
item of that name; `Insert` and `Cas` write in the open transaction and wait for
others that have the row or the index entry in flight; `Insert` and `CheckName`
meet the unique index `uq_items_owner_name_active`; `Current` is the read after a
compare-and-set that matched no row.  `copy` is SQLAlchemy's identity map: a
session that has loaded the row reports that copy's version, so `current_version`
of a conflict may be older than the row; `ItemStore` therefore promises only a
version the row has had since the request was sent.  `NextPage` reads one page by
keyset (`created_at`, `id`); `at` and `clock` order the rows, several may have the
same reading.  `Store == INSTANCE ItemStore` maps the committed rows, the requests
and the answers; a commit is the abstract effect.  Cursors, timestamps and
payloads are abstracted.  `Named` and `MaxExpected` bound the ids that clients
name and the versions that they expect.  `create_app` does not mount the items
router and its codes are not in `error_registry`; the service is modelled because
it is the repository's pattern for concurrent updates.

### 3.8 `Catalog` and `Metadata`

`Catalog` is `comfyctl/catalog.py` over constants: what `load_catalog` accepts is
`CatalogAssumption`, since a process with another catalog does not come up.  A
version text is the sequence of its numbers (`version_parts`).  `MCMetadata` gives
the constants the values of `catalog/comfyui.json`.

`Metadata` has the requests of `comfy_service.py` that create, list, get, check
and probe.  A row is known by the request that wrote it; `pend[r]` are the rows of
its open transaction, which `Commit` makes visible together.  An insert waits for
another transaction with the same key (`HostBusy`, `RootBusy`, `SlugBusy`) and
then meets the unique index: `create_host` and `create_model_root` turn that into
an error code, `ensure_default_host` and `create_instance` do not, which the model
records as cause `"key"`.  Reads that only ask for the presence of rows are one
step, since these rows are never changed or deleted.  `Fail` is a driver error at
any statement, or a commit whose answer is lost.  `Invalid` and `Unauthorized` are
the refusals before the service is called, `error_codes` is what `operations.py`
declares for each operation.  `probed[r]` is what a probe found and was
recommended.  Names, paths and slugs are values, the name of
the default host and the shared path among those a client may send.

### 3.9 `Lifecycle`

`lifespan` of `app/main.py` with the provider registry and the health registry.
`started` is the height of the stack `_started`; `Release` takes the last provider
off, whose shutdown may raise, and goes on.  `conf` holds the mistakes a set of
providers may contain: a health check whose name is taken, found when it is
registered, and one with a time limit that is not positive, found by `Validate`.
A probe runs the checks one after the other, each seeing its dependency as it is
at that time; `felt` collects the states each dependency has been in meanwhile.
`Change` lets every provider's dependency fail or be slow, as the interface allows;
the shipped stand-ins for Redis and storage never do.  The instance has three
providers, two required and one not.

### 3.10 Conventions

`MC*` modules add the symmetry sets for TLC and the values of constants that a
`.cfg` cannot write; the `.cfg` files
give the constants their values.  A definition introduced by a comment "Mutant"
or "A mutant of X" is not part of a specification: it is a plausible bug, kept so
that the matching property can be shown to notice it.  `Serial` and the
`Crashes`/`IOFaults`/`Faults`/`CtlKills`/`Thieves` constants switch the environment, so
that a property can be checked under the weakest environment it survives.

## 4. The runs

| run | instance | shows |
| --- | --- | --- |
| `install_serial` | 3 installs in turn | the active version is whole whichever build step failed; an install is one step to callers that wait; the lock is given back (under fairness) |
| `install_race` | 3 overlapping installs, killed at any step, I/O faults | nothing installed is ever deleted; a success is on disk; only an install that was killed, or refused the write or removal of the lock file, leaves it behind; a lock left behind refuses every later install; to the other commands it all is `ActiveTree` |
| `install_fault` (violation) | 2 installs in turn, I/O faults | a promotion that fails half way leaves no active version |
| `process_serial` | 2 starts, 1 stop in turn, 3 ids, system faults | a running ComfyUI is the one the pid file names, until a fault makes a start leave its process; every command ends (under fairness) |
| `process_race` | 2 starts, 1 stop, 3 ids, 2 versions, crashes, system faults, port thieves | signals reach only the instance's own processes; a failed start leaves one only if the system made it; `stopped` is true |
| `control_race` | 2 requests, 2 refs, API crash, killed children, OS and driver errors, another listener | what is recorded did happen, but for a start that took another listener for its own process, which needs an overlap or that listener; requests end; in turn, record and host agree |
| `config_race` | 2 edits, 3 roots, one of another host | primary root bound, one request's configuration, no deadlock |
| `config_serial` | 2 edits, 1 start in turn | only named fields change; ComfyUI runs as configured |
| `config_lost` (violation) | 2 edits | an edit undoes another one's field |
| `items` | 2 requests and a client that pages, 4 ids, 2 of them for earlier rows, 3 names, 2 statuses, 1 owner, driver errors | the service implements the atomic table; one winner per version; a list has every item that was there throughout, once; no circle of requests that wait for one another without a guessed version |
| `metadata` | 2 requests, 2 earlier rows, driver errors, the shipped catalog, 8 CUDA versions | instances are whole and bound to their host's roots, the default host has its shared root, only a lost race ends as an internal error, only declared errors, the recommendation fits the host |
| `lifecycle` | 3 providers, 1 probe, every set of mistakes | what has started is released, in reverse, unless validation fails; `/ready` tells the truth; start, stop and probes end (under fairness) |

Why the bounds are enough.  Two racing installs reach every interleaving of the
promotion; the third finds the directory a race has left, and nested trees need
three.  Two starts and a stop with three ids allow a reuse of an id while another
command still holds it, and a stop that overlaps two starts or finds what either
has left; a second stop would add only another signal to a process of the instance
and another removal of the pid file.  Two requests show every order of two
handlers, and `restart=true` makes a third execution out of one of them.  Two
edits race pairwise; a longer queue at the row lock is a sequence of such pairs.
Two item requests on at most two earlier rows with three names let a name be freed
and taken, and two items be renamed to one name; each request has an id to create,
on either side of the earlier ones, expected versions lie below, at and above the
one an item has, and a page boundary falls between two rows of one instant while
the third client reads; one owner is enough because no statement crosses owners.
Two metadata requests lose every race there is, over every state that earlier
requests leave with at most two hosts; the CUDA versions lie on both sides of 12.4
in each part, shorter and longer.  Three providers have a first, a middle and a
last to fail.  For the properties of section 5 the proofs remove the bounds.

`CHECK_DEADLOCK FALSE` is in every configuration because the system may stop:
clients send a finite number of requests and nothing else has to happen.

Fairness.  `InstanceInstall`: a started `comfyctl` keeps running, and git and uv
return (the code gives them no time limit, so this is an assumption about them).
`InstanceProcess`: a `comfyctl` keeps running, and its deadlines pass; nothing
is assumed of ComfyUI.  `ControlPlane`: the event loop runs every handler that is
ready and every child ends, which rests on the former two; no fairness on
crashes, faults or arrivals of requests.  `Lifecycle`: each provider's startup and
shutdown returns, the server drains, and the event loop runs the checks of a
probe, each of which has a time limit; none on failures or on the signal to stop.
`Items` states progress as an invariant instead, `DeadlockNeedsGuess`: in every circle
of requests that wait for one another there is one that was sent with a version its
item did not have yet.  The code alone needs four requests for a circle, so in this
run none comes about and the invariant forbids each one; the theorem of section 5 is
for any number of requests.

## 5. The proofs

All are for any number of installs, commands, process ids, requests, edits,
items, lists, page sizes, hosts, providers, probes, versions and roots.

`InstanceInstallProofs`: `TypeCorrect`; `LockIsLeftOnlyByFaults` (inductive with
the types); `AbandonedLockIsFinal`; `NothingInstalledIsLost`, which needs `ParkInv`:
the entries an install has still to park are not yet in its parking directory,
so a park never overwrites; `SuccessStaysOnDisk`, by following where a tree is
from staging to its place; `SerialInstallsAreCoherent`, for installs in turn
without crashes and faults, by an invariant that says for every step of a
promotion which entries are old, gone or new.  `SerialInstallsAreAtomic`, under the
same hypotheses, is the refinement of `VersionSlot`: the step that writes the
manifest and the steps that report an error are the abstract ones, and every other
move of a promotion leaves `InPlace` as it is, since the manifest, the last entry
to be parked and to be written, names it until then and is found where it was
parked from then on (`OpenInv`).  `InstallsImplementTree` is the
refinement of `ActiveTree`.  Its invariant, `ViewInv`, says that an install which
has still to place its checkout has never been the active version, and that one
which has still to place its environment follows a version that has; what has
been active is found where it was parked, so the park of an install must not
overwrite (`ParkInv` again).

`InstanceProcessProofs`: `HostInv` holds for commands that overlap, are killed and
race with installs and unrelated processes.  It says that a process of the
instance is the only one of its start, which has not seen it end and has reported
no failure but an untidy one (`Children`), that the child of a start that polls or
reaps keeps its id (`Parents`), that what a stop signals is the process of one
start (`Targets`), whose id no unrelated process takes between the ownership test
and the signal (`Checked`), and that a command which has not begun has no outcome
(`Fresh`).  From it `TypeCorrect`, `SignalsStayAtHome`, `FailedStartsCleanUp`,
`StoppedIsGone`. `RunningStaysTracked`, `SuccessIsNoIllusion` and
`InUseByOtherIsTrue` have the hypothesis `Alone`: commands in turn, not killed,
one port that nobody else takes, no reinstall.  They are about the histories in
which no start was made to leave its process (`NoneLeft`, which once false stays
false: `LeftStays`), since after that an untracked process may hold the port.
`TurnInv` then says that at most one command is under way (`InTurn`) over one
checkout (`OneCheckout`), that while a start is past its checks nobody but its
child listens (`Listeners`), that a stop works on what the pid file names and
unlinks it when nobody listens (`Files`), and that what listens after its start
has succeeded is what the file names (`Named`).

`InstanceHost` puts the two together.  The installs read nothing that commands
write (`HostRunsInstalls`); a step of an install is, by `InstallsImplementTree`, a
step that the commands reckon with (`HostRunsCommands`).  So what is proved of one
component holds of the composition: `CommandsKeepTheirWord`,
`InstallsKeepTheirWord`.

`ControlPlaneProofs`: the inductive invariant `RecordInv` joins the types, the
chain "completed run => child exited ok => its command had its effect"
(`RunsInv`), and how far the runs of a request are at each await (`RequestsInv`).
From it `TypeCorrect`, `CompletedRunsAreReal`, `ClosedRunsKeepTheirOutcome` and
`RecordedVersionsWereInstalled`.  The last needs that the effect behind a
completed run never changes (`CompletedStays`). `RecordNamesTheDisk` and
`NothingIsLostInTurn` are about the histories in which requests have waited for
one another and nothing broke, which is a part of the state (`Undisturbed`) and,
once false, stays false (`DisturbedStays`).  While it is true `QuietInv` holds:
one request is under way, it attends its child, and the disk is what the row says
or, from the effect of an install to the moment its result is stored, what that
install put there.  `CompletedRunsAreReal` needs both: the chain for every
history, and for the undisturbed ones that a start which sees the port answer sees
its own process, because nobody else's listens (`ProcInv`).

`LaunchConfigProofs`: `ConfigInv` says that only the holder of the instances row
gets to the bindings (`LockInv`), that what it is about to write is consistent
(`MergedInv`), that the bindings it deletes are all there are (`DeleteInv`), and
that the last commit is what is stored (`LastInv`).  From it `PrimaryIsBound`,
`ConfigurationsNeverMix`, `BindingsAreInsertedOnce`; with `HolderInv`,
`RowHolderNeverWaits`; `TypeCorrect`.  `RunningMatchesTheRow` and
`EditsChangeWhatTheyName` have the hypothesis `Serial`, requests in turn: what the
one request under way has read is then still what is stored (`ReadAt`), and what
it is about to write differs from it only in the fields it names (`EditAt`).

`ItemsProofs`: `ServiceImplementsStore` is the refinement, `Spec => Store!Spec`.
A commit has to be an abstract effect, so the invariant says that an open
transaction's row is what the abstract table would write at this moment
(`ChangeFits`, `PendingFits`), that no two open transactions write one row or one
index entry (`Apart`), that the name a transaction adds is free of others
(`NameSettled`), and where each request is (`RequestFits`).  From it also
`NamesStayUnique`, `AtMostOneWins` and `RowsMoveForward`; `TypeCorrect`.
`CirclesNeedGuesses` is about waiting.  Only a rename can wait while it holds a row,
and it waits for a transaction that has added its name and only has to commit, or
for one that holds the item of that name.  If that other one expects a version its
item had when it was sent (`Follows`), the item got the name after the first rename
had looked for it, and before the second did.  So every set of such requests has one
that follows none of the others (`Acyclic`): the invariant is kept because a
request that has just begun, looked up its name, or ended follows nobody.  A request
that guesses a later version escapes the argument: it may have looked up its name
long before the item it waits to change got the version it expects.
`PagesAreExact` has an
invariant of its own, `ListInv`: the cursor splits the list, so that what a client
has met does not lie beyond it, and what it is owed it has met or lies beyond
(`Splits`).  A page is the first `limit` of the rows beyond; that it is a prefix
of them needs that `created_at, id` orders any two rows (`TotalOrder`), that the
number of rows before one grows along that order (`RanksGrow`), and a count of the
rows (`FirstAndLast`, `CutPage`).  Rows that a client has met are dated for good
(`Dated`), so the order does not change under its cursor.

`MetadataProofs`: a request fits the statement it is at (`Asked`); its open
transaction holds what it will publish and what suits the instance it creates
(`Written`, `Suits`), and nobody has seen those rows (`Fresh`); what a look-up
missed was not there when the request began (`Missed`); no two transactions, nor a
transaction and the table, have one slug (`Apart`, `Settled`).  From it
`TypeCorrect`, `InstancesStayWellFormed`, `DefaultHostIsComplete`,
`OnlyLostRacesBreak` and `AnswersAreDeclared`.  That the host's first root, which
is taken when none is named, exists needs that creation times are well-founded.
`ProbesRecommendWhatFits` has two hypotheses, since `load_catalog` accepts
catalogs for which it is false: `RulesAreOrdered`, for example that a rule with a
minimum CUDA version comes before the one without, and `ReportsAreSmall`, versions
of at most three parts below 100.  `MCMetadata` assumes both, so that TLC
evaluates them for the shipped catalog.  The lemma behind it is
`VersionsCompareAsNumbers`: comparing part by part, with missing parts as zeros, is
comparing the numbers the versions stand for.

`LifecycleProofs`: the providers in use are those on the stack (`StackIsOpen`),
each phase says how high it is (`PhaseFits`), and a probe has met the failures it
has noted (`ProbesSawIt`) while the process serves it (`ProbesAreServed`).  From it
`OnlyInvalidConfigurationsLeak`, `ReadyAnswersAreTrue`, `ReverseRelease`.

`TypeOK` of the installs and of the processes is proved and not listed in a run.

The only assumptions are the `ASSUME`s of the modules: the constants are
distinct, ids are numbers where SQL orders by them, the catalog is one that
`load_catalog` accepts, and the switches are Booleans.  A theorem that needs more
of its environment has it as a hypothesis: `SerialInstallsAreCoherent`, and the
ones named above with `Alone`, `Serial` and `RulesAreOrdered`; `InstanceHost` takes
the two `ConstantsAssumption`s of its components as one.

Only model-checked: the liveness properties (`LockReleased`, `CommandsEnd`,
`RequestsAnswered`, `LifespanEnds`; fairness is out of the prover's reach).  The
violations of
`install_fault` and `config_lost`, and the statements section 6 says are not kept,
are for TLC as well.

## 6. What each part promises, and where it does not keep it

Install.  Kept: nothing that was ever active is deleted, whatever races or
fails; a success is on disk; installs in turn keep the active version whole.
Not kept: mutual exclusion, since two installs may both find no lock
(`cli.py:429`; `LockMutex` states it), and the active version when a rename of
the promotion fails (`install_fault`); and a lock may be
left behind, by an install that was killed or that the system refused the write
or removal of the lock file (`cli.py:431`, `cli.py:543`; `LockHasOwner` says that
these are the only ways): it has to be removed by hand, which no document says.

Start and stop.  Kept: no foreign process is signalled, `stopped` is true, and a
start that finds its child dead or runs into its time limit leaves nothing.  Not
kept by three failures that end a start as it stands: a port check in the polling
loop that gets no socket (`cli.py:590`, `cli.py:220`), which is reported as
`COMFYCTL_FAILED`; a pid file that cannot be written (`cli.py:591`); a process
that is still there three seconds after SIGKILL (`cli.py:607`).  The process then
runs on, no pid file need name it, `stop` then does not find it and status calls
it another user of the port.  `OnlyFaultsLeaveChildren` says that these are the
only ways.  Not kept when commands overlap: the pid file names the running process
(proved for commands in turn), so that status may report the instance's own
ComfyUI as another user of the port (`InUseByOtherMeansNotRunning` states it, and
is proved for commands that are alone).  The same cause has a second face:
`command_instance_start` takes any listener on the port for its own child
(`cli.py:590`), so a start can report success for a ComfyUI that never listens,
where `docs/runbooks/comfyui-remote-startup-incident-2026-09-04.md:236` asks that
a failure to start is not swallowed (`SuccessMeansListening` states it, and it is
proved for commands that are alone).

Runs of the API.  Kept: no success of an install or a stop is recorded that did not
happen, a closed run stays closed, the recorded version was really installed.  Not
kept when requests overlap or another program takes the port: a start may be recorded
as completed although its process never listens (the cause is the one above;
`CompletedIsReal` says that it takes such a disturbance).  Not kept when requests
overlap: an install may replace the version of a ComfyUI started after its check
(`NothingLost` states it), and the recorded version may not be the active one, since two
results can be stored in the other order than they were promoted
(`comfy_service.py:493`; `RecordMatchesDisk` holds only when undisturbed).  An
exception that is not an `AppError`, and a crash of the API, leave a run at phase
`running` for good (`comfy_service.py:452`).

Launch configuration.  Kept: the two tables always agree, edits neither deadlock
nor fail on the index.  Not kept when edits overlap: a field the request does not
name (`config_lost`).  A start that overlaps an edit may leave ComfyUI running
with a configuration the instance no longer has, although
`docs/contracts/api-contract.md:259` asks for a stop first; `RunsAsConfigured`
holds for requests in turn.

Items.  Kept: every answer is one that the atomic table could have given; of
several changes of one version one wins; a list misses nothing that was there
throughout and shows nothing twice; clients that expect versions they have read
never make each other wait in a circle.  Not promised: that the `current_version` of
a conflict is still the current one.  A client that guesses a later version can bring
about a circle: two renames look up their names, two further renames give these
names to the items the other one wants to change, and each of the first two then
holds its row and waits for the other's name.  PostgreSQL ends one of them, which is
answered `INTERNAL_ERROR`.

Hosts, model roots and instances.  Kept: what is stored is whole, whatever fails
half way; an undeclared failure means a lost race.  Not kept: that a conflict has
a code of its own (`ConflictsAreNamed` states it).  Two creations of one slug, or
two first lists, end one of them as INTERNAL_ERROR, because `create_instance`
(`comfy_service.py:303`) and `ensure_default_host` (`comfy_service.py:196`) do
not catch what the index raises, as `create_host` does.  Two further things the
model shows: a client that creates the host "local" itself gets one without the
shared model root, which no list adds later; and two hosts may have one
`data_root`, so that equal slugs on them share an install directory.  Of the
catalog, `docs/current/implementation.md:91` says that hosts without a verified
combination are recommended `comfy_ref=master`; the shipped rules recommend the
verified version to all.

Lifecycle.  Kept: a failed start and a stop release everything, in reverse; a
probe tells the truth about the time it took.  Not kept for a health check whose
time limit is not positive: `validate` raises after the providers have started
and outside of the `try` (`main.py:48`), so they stay open; `OnlyInvalidLeaks`
says that this is the one way.

## 7. Not modelled

* Status, ready, logs and lists of runs: one query or one child process whose
  payload is passed on.  The status that other requests depend on is a step of
  theirs.
* The HTTP layer beyond declared errors and refusals: envelopes, headers, request
  ids, the OpenAPI document.  The web UI calls the API and keeps nothing.
* Settings and the repository's checks: start-up validation and one-shot tooling.
* `dev.sh`, `deploy.sh` and their libraries: bash that one developer runs in turn,
  whose state is that of Docker, lsof and ps.  One hazard is worth a reader's
  attention: `dev.sh stop` signals the process its pid file names
  (`scripts/lib/runtime.sh:124`), and the number may have been reused.
* The release flow: bash around git with a confirmation between its steps; the
  branch may move between prepare and push (`deploy/lib/release-flow.sh:571`).
* The content of files, logs and payloads is abstracted throughout.
