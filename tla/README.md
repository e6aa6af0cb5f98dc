# A TLA+ model of the greffer node agent

The greffer runs on a host, is driven by a remote manager over HTTP, and runs
"instances": docker-compose projects with an nginx sidecar that terminates TLS.
It registers with its manager, starts, stops, decommissions, backs up and
restores the instances, hands out their host ports, renews their certificates,
reports their status, migrates its own data at boot and updates itself. Almost all of its
difficulty is control: threads that share one lock per instance, compose
children that outlive the request that spawned them, answers lost after their
effect, durable files read back after a crash, and two updaters that recreate
the same containers.

## Inventory

| Component (source) | State | Operations | Hard behaviour | What makes it correct |
|---|---|---|---|---|
| Instance lock and handoff window (`app/backup.py`, `app/routers/controller.py`) | `_locks`, `_handoff`, `_inflight` | `_serialize_instance_op`, `spawn_*`, `_release_once`, `reserve_handoff`, `acquire_unless_handoff`, `track_compose_child` | a release that is called twice, a child that outlives the lock, a reservation with a deadline | one operation at a time; no stranded lock; renewal keeps out of a reserved window and away from a compose child |
| Start, stop, decommission (`controller.py`, `apps/utils/docker/compose.py`, `volume.py`) | containers, instance directory | three handlers | a returned start still at work; `down -v` that fails half-way | a decommission that says 200 left nothing |
| Backup and restore jobs (`app/backup.py`) | `.backup_inprogress`, `.restore_<id>.json`, volumes | `backup_instance`, `restore_instance`, `reconcile_on_boot` | quiesce-wait against its deadline, crash at every step, lost callbacks, partly started databases | quiescent snapshots, instance brought back, rollback pointer never lost, failed restore taken down |
| Repository operations (`app/backup.py`) | `_REPO_OP_LOCKS` | `spawn_repo_op`, prune, check, reap | a registry that drops a lock another thread has fetched | no leak, no refusal because of another tenant, one operation per repository |
| Instance status (`compose.py`) | none | `get_status` | containers move while they are inspected one by one | the verdicts the backup relies on are true |
| Certificate renewal (`app/workers/cert_renewal.py`) | `_unconfirmed` and its file, backoff, `_pass_lock` | `renew_one`, `_mint`, `_install`, `_reload`, `_restart`, `_report`; `renew_all`, the worker and `/renew-certs/` | the answer to a mint or a report lost after its effect, crash between any two steps; a pass cut short by a cap, a dead token or blind sidecars | every pending mint is owed a report on disk; only served serials are confirmed; nobody is starved by another |
| Remote self-update (`cli/greffer_cli/updater`, `apps/utils/docker/updater.py`) | containers, `:latest`, `.update.lock` | `run_remote_update` | recreate breaks off half-way, rollback of a partial update, tags that must follow | rollback restores what ran; nothing rejected remains tagged |
| Host update (`cli/greffer_cli/update.py`, `compose.py`) | compose file, the same lock | `run_update` | decisions read before the lock, signals, the other updater | no automatic downgrade; what an interrupted update leaves behind is known |
| Registration, heartbeat, monitor, watchdog (`app/workers`, `app/readiness.py`, `app/token.py`) | `registered`, `reregister_requested`, token, `prev_status`, published status map | five workers | 403 during a registration, rotated and ephemeral tokens, undelivered callbacks, a task that dies | no heartbeat parked for ever, one token for registration and beats, every status change delivered |
| L4 ports (`l4_ports.py`, `sticky_ports.py`, `repository.py`) | `_pending`, sidecar file | allocation under a lock, bind after it | reservations that lapse, redeploys, refusals after the save, a full range | no port granted twice; clients keep their addresses |
| Operations migrations (`ops_migrations`) | ledger file, legacy sentinel, flock | `apply_pending`, migrations 0001 to 0003 | crash between the work and the ledger entry, two batches at once, a migration that can never succeed | what is recorded was done; the node serves only then, and does serve |
| Rendering, validation, observation, command line, request plumbing, tunnel configuration | little or none | pure functions, read-only queries, prompts | data, not control | not modelled |

The parts meet in five places. The handlers, the jobs and the renewal worker
share the instance lock and the containers. Backup, restore, boot and monitor
act on `get_status`. The handlers and the heartbeat probe the update lock. The
migrations run before the server in the container's command, so their exit code
decides whether the node serves.
Everything reports to the manager, whose answer to one call is often the next
call (a successful restore is answered by a start, from inside the callback).

## Modules

| Module | Models | Proofs |
|---|---|---|
| `InstanceOps` | lock, handoff, handlers, backup and restore jobs, boot, and the lock side of renewal, for one instance | `InstanceOpsProofs` |
| `RepoOpLock` | registry of per-repository locks | `RepoOpLockProofs` |
| `InstanceStatus` | `get_status` against moving containers | `InstanceStatusProofs` |
| `CertRenewal` | renewal of one certificate with manager and sidecar | `RenewalProofs` |
| `RenewalPass` | the passes over all instances: order, caps, backoff, delays | `RenewalProofs` |
| `SelfUpdate` | remote updater and `greffer update` together | `SelfUpdateProofs` |
| `NodeLink` | registration, re-registration, heartbeat, monitor, watchdog, token | `NodeLinkProofs` |
| `InstanceStart` | starts of several instances: L4 ports, sidecar file, compose children | `InstanceStartProofs` |
| `OpsMigrations` | the migration batch, its ledger and the three migrations | `OpsMigrationsProofs` |
| `MigrationContract` | what the batch promises, without files, locks or processes | |

`MC<module>.tla` holds the values TLC uses and `MC<module>_<run>.cfg` one run.
A definition headed "Mutant" is a deliberately wrong variant of the one after
it; no specification uses it, and it is there to show that a property notices.

### InstanceOps

Every table of the code is keyed by instance id and no operation touches two
instances, so one instance is modelled. A thread (`pc`, `job`) is a request, a
job thread or the renewal worker. Each step of a handler or job is an action
with the name of what the code does there (`BackupMarks`, `BackupStops`,
`RestoreWritesPointer`...); between two steps anything else may happen. The
locals of a job that matter later are the fields of `job[t]`: the status it saw,
whether it stopped the instance, whether it entered the overwrite, whether it
started the database, the outcome and the restore id.

The docker-compose children are counted by kind in `kids`. A tracked child
(`up`, `stop`) has a waiter that lowers `inflight` after it exits; `exited` counts
waiters not yet back. A stray child was spawned without tracking, as the stop
of a backup is, or because its waiter thread could not start. The lock is given
back when a handler returns, so the next operation may be admitted while the
child works; `raced` records in a job that an `up -d` was at work at its
admission.

A crash ends the process and its compose clients. What they asked of the daemon
it may still finish, later and unknown to the new process: the children, and an
`up -d` that a job was waiting for, may go on as stray ones, and the command in
progress may have left the containers half-way (`CutShort`). The marker and the pointer files
remain. `_write_json` truncates and writes in place, so a pointer being written
is `torn` at that moment, and stays so if the process dies or the disk fails there.

`containers` is an aggregate with four values where the code's status has
three: the empty and the mixed set are both `unknow`, and several decisions turn on that.
`InstanceStatus` shows what the reading is worth.

`Faults` says what the environment may do wrong: `docker` (a command fails),
`disk` (a write of a pointer or marker file fails, before or after it has cut the
old contents, and the error is only logged), `thread` (a thread cannot be
started), `stop_timeout` (a quiesce-wait reaches its deadline),
`container_dies`. The exceptions of the properties are states and not switched-off faults: `raced`;
`late`, a teardown that was given up; `cut`, the restores whose file a failed
write or a crash has cut short; `gone`, which is `clean` after a decommission
that removed the containers with no `up -d` beside it and `doubtful` after any other.

### RepoOpLock

A lock object has an identity apart from its entry in the registry. A
request fetches the object (`RepoOpLock`), tries it (`Acquire`, `Refuse`), starts
a thread (`StartJob`, which may fail), and the job pops the entry (`ReapPops`)
and releases the object (`ReapReleases`).

### InstanceStatus

The daemon moves containers between docker's states at any time. One call lists
the ids, inspects them one at a time (`Inspect`, or `InspectRaises` when one is
gone), and aggregates. `moved` records what happened since the listing, so that
the properties can say under which movements a verdict is true.

### CertRenewal

Certificates are serial numbers. The manager is external and keeps at most one
pending mint; `Issues` and `ManagerHears` are what `_mint` and `_report` expect
of it. A request and its answer are separate, so the answer can be lost after
the effect. A pass ends with a save of the memory (`PassEnds`). Faults: `disk` (the ledger
file cannot be written, or cannot be read when the process loads it, and the save at the
end of the pass then writes the empty memory over its entry), `gateway` (a gateway
that answers in place of the manager) and `blind` (a handshake that
reads nothing). `excused` records that the ledger has failed or a gateway has answered.

### SelfUpdate

An image is its version; a service is its place in the recreate order. The
containers, what `docker compose` recorded on each (`made`), the local `:latest`
tags, the pin of the compose file and the lock are shared. `Remotes` run
`SpawnUpdater` to `Unlock` through discovery, verification, snapshot, retag and
recreate one by one, gate, rollback; `Hosts` run `greffer update`. A recreate by
the remote updater carries the compose labels over, so a later `docker compose up`
compares the file with the labels and not with the image that runs: `UpToDate`
is that comparison. `VersionRead` is a `docker exec` in the greffer's
container: with the fault `exec` it fails while the greffer runs, and a version nobody
knows is no downgrade.

Bookkeeping: `was`, the version when the lock was taken; `accepted`, the images that
passed a gate or were found in place; `blind`, the runs that decided on a failed
version read; `overlap`, two updates have been at work at two locks; `strayTags`
and `strayPin`, the tags and the pin that a run has left behind on its way out.

### RenewalPass

The level above `CertRenewal`: a visit is its outcome (renewed, not served, not due,
in backoff, busy, refused for the node's sake), and what counts is what the
outcome does to the rest of the pass, to the backoff of the instance and to the delay
before the next pass. `Fleets` says what the sidecars may be like: healthy, blind
(no handshake) or stuck. Instances are visited in the order of the sweep. Time is
counted in intervals of the worker: a backoff of 2^(f-1) intervals up to `Cap`,
and short delays of which `Parts` make one interval.

### NodeLink

The one-shot `register_worker` and the supervisor `reregister_worker` run
the same flow (`ResolveAddress`, `PostRegister`, `FetchCert`, `InstallFails` or
`Registered`); the heartbeat waits at its gate, sends, and on a 403 clears `registered` and
raises the request; the monitor stamps a tick, collects, reports and publishes its map,
which the heartbeat may reuse. `FreshProcess` is `create_app` with `start_workers`; the watchdog
reaches it by terminating the process, a kill does directly. Every request has two
independent flags, heard and answered. A status map carries whether the instance
has kept its status since the map's capture time (`same`); this replaces clocks. The
manager's side (claim, acceptance, what callbacks told it) is external; it may forget
a claim at any moment, also between the POST of a registration and the poll for its
certificate, which is then `Orphaned`.

### InstanceStart

Where `InstanceOps` follows all operations of one instance, this module follows
the starts of several and what they share: the port range, `_pending`, the allocation
lock and the daemon's view. Each start brings a compose of its own (`Composes`), so
a redeploy may publish other names than the one before. It loads the sidecar (`Load`,
which takes a file that cannot be read for an empty one), enumerates, picks one name
at a time, saves the sidecar, configures, renders and spawns; from the
configuration to the spawn is one step, and the child has the compose file as it is then.
Its `up -d` child leaves, recreates, binds or fails on its own (`work`), and
the children of two starts of one instance, or of a start and a stop, may overlap. A
refusal at any step keeps what it has reserved until the TTL lapses (`Lapse`). A
restart of the process drops the reservations, while the daemon may still create the containers
of a child.

`unguarded`, `raced` and `changed` are bookkeeping for the exceptions: instances whose
ports no reservation protects, that a port of one of these has been given away,
and instances whose sidecar was saved, while they ran or were being started, for
other names or without having been read. Backup, restore and boot run their own `up -d`
without a reservation; they belong to `InstanceOps` and are not part of this
module.

### OpsMigrations and MigrationContract

A process is the container's boot command or an operator's
`python -m app.cli apply_ops_migrations` with any flags. Under the flock it reads the ledger, seeds it
from the legacy sentinel, and takes the three migrations in order. 0001 and 0003
copy volumes one by one (`ExamineVolume`, `CreateVolume`, `CopyVolume`), 0002
purges staged keys. The ledger file may be damaged from the start: `garbled`, which
reads as empty, or `fatal`, on which `load` raises; and the read of a good one may
fail, which reads as empty too. `lost` collects the entries that such a batch drops
when it writes. A compose file that cannot be read or parsed is skipped without an
error. `torn` collects the volumes that were not copied in full although the migration may be
recorded: compose file skipped, inspection failed, copy cut short, or
target made by a start of the instance.

`MigrationContract` has six variables: what is recorded, what was recorded and has been
dropped, the required migration at work, whether the batch at work sees the record,
whether the node serves, whether the operator has waived migrations. The
refinement maps `done` to the ledger, `lost` to itself, `running` to the migration at work in the
process that holds the flock (`Working`), `blind` to `Blind` (that process has in its memory not
what the file records), `serving` to itself and `waived` to `skipEnv`. It is the
property `RunnerContract`: migrations run one at a time; the node serves only
when all required ones have been recorded; a recorded migration runs again, and its
entry is lost, only by the first record of a batch whose read of the ledger failed.

## Runs

Ten runs pass; two show a disagreement between the code and what it says of itself.

| Run | Instance | Shows |
|---|---|---|
| `safety` | two threads, all operations, any initial containers, every fault, one crash, two children | `TypeOK`, `OneOperationAtATime`, `NoStrandedLock`, `HandoffKeepsRenewalOut`, `RenewalStandsOff`, `SafetyPointerSurvives`, `ColdSnapshotQuiescent`, `OverwriteQuiescentIfWhole`, `AbortTearsDown`, `DecommissionSticks` |
| `backup` | two threads, cold and hot backups and renewals, two crashes, stop timeouts and thread start failures, fair | `LockAlwaysFreed`, `RestartedUnlessLate` |
| `decommission` | one thread, starts and decommissions, no fault | **violated**: `DecommissionHolds` |
| `stoptimeout` | one thread, cold backups, fair | **violated**: `NeverLeftStopped` |
| `repolock` | three threads, two repositories, four lock objects | `NoLeakedEntry`, `RefusedByOwnRepo` |
| `status` | two containers with any policy and label | `StoppedIsTrue`, `RunningIsTrue` |
| `owed` | all faults, two report attempts, two mints, one crash, fair | `PendingIsOwed`, `ConfirmedWasServed`, `PendingResolved` |
| `pass` | five instances, three or four of them blind, streak limit 2, backoff cap 2, two mints an hour, one fault, one certificate that falls due again, fair | `DueRenewed` |
| `update` | one remote and one host update, two services, two versions, every fault but `mountpoint`, pinned and `latest` files, fair | `AutoNeverBackwards`, `RemoteRollbackRestores`, `HostRollbackRestores`, `UngatedStaysOut`, `UpdatesEnd` |
| `batch` | boot and one operator batch, two volumes, one key file, any damage of the ledger, two faults, one crash, fair | `CopiedUnlessTorn`, `SentinelNeverLost`, `ServesAgain`, `RunnerContract` |
| `link` | two tokens, two statuses, two troubles of any kind, two status changes, fair | `ParkedHasWaker`, `OneRegistration`, `BeatsWithStaged`, `CapturedAtIsHonest`, `RegistersAgain`, `StatusDelivered`, `DeadWorkerHealed` |
| `ports` | two instances, one with `same_port`, composes with no, one and two names, a range of two ports, three starts, one restart, every fault | `GrantsDisjoint`, `RunningMatchesSidecar`, `SamePortKept` |

The findings in `PROJECT.json` are the two violations. `stoptimeout`: the stop of a
backup that outlives the quiesce-wait takes effect after the `finally` has issued its
`up -d`, and a running instance stays down, against "a running instance always
comes back". `decommission`: a start has returned and its `up -d` is at work; the
lock is free, so a decommission is admitted, removes everything and answers 200, and
the child brings the instance back, which is what `controller.py:198` says the
refusal of a busy instance keeps from happening.

### Bounds and why they are enough

- Two threads in `InstanceOps`: every property relates one operation to another,
  and the theorems hold for any number. Two children let an old child meet a new
  operation's child. One crash reaches every step, since a crash may follow each;
  `backup` has two, so that a boot can crash as well. One restore id is enough for
  `SafetyPointerSurvives`, which speaks of one; the theorem covers many. `decommission`
needs one thread only: the other actor is the child.
- `MaxChildren` bounds admission only: no step of an admitted operation is cut.
- Three threads in `RepoOpLock` are an owner, a stale fetcher and a fresh one. Four
  lock objects are one for each thread and one for the registry, so a fresh one
  always exists.
- Two mints make a second mint meet the debt of the first.
- In `SelfUpdate` two versions give a node something to be behind and ahead of,
  two services a recreate that fails half-way with one service already recreated.
  Each run is started at most once, so the behaviours end and `CHECK_DEADLOCK`
  is off; the same holds for the bounded starts of `ports` and the bounded
  batches of `batch`. The stacks are whole; the theorems cover stacks with
  missing services, any number of versions and the `mountpoint` fault.
- `RenewalPass`: with a streak limit and a cap of two intervals four blind instances can end
  every pass before the fifth is reached, and three cannot. The run has both fleets:
  three is the most for which `DueRenewed` claims anything, and four is where it stops.
- Two troubles in `NodeLink` let a second fault hit the recovery of the first
  (a rotation during the re-registration after a forgotten claim, a worker that
  dies while docker is away). Two status changes let a status go and come back. The two
  tokens and the two statuses are interchangeable, so the run fixes the first
  of each and loses nothing.
- Two ports for up to four names make the range run full. Three starts and a restart
  let two starts of one instance overlap with one of the other, with other names in each.
- In `OpsMigrations` one volume is found by 0001 and both by 0003, so that a
  migration meets what the other left. Two faults and a crash let a retry fail
  as well; an operator's batch takes any flags.

Thread and container symmetry is used in safety runs only.

### Fairness

`InstanceOps`: threads go on, every docker command has a timeout and every child
ends, waiters return and boot completes. Nothing makes the manager act and nothing
makes a crash or a timeout happen.
`CertRenewal`: the worker's loop makes passes keep coming (weak), and strong fairness of
`DebtProbes` and `ReportHeard` says that some pass finds the instance quiet and
that the manager is not out of reach for ever; without these no retry scheme
can settle a debt. `SelfUpdate`: a run that is alive goes on, since every command
and both gates have a deadline. `OpsMigrations`: every process goes on, and the
container's restart policy launches the command again (both are `Step`).
`NodeLink`: the event loop runs each worker (weak fairness for each, with
requests that are answered), an admin accepts or resets a claim in the end, docker
comes back, and strong fairness of `BeatRejected` and of an answered `ReportStatus`
says that of infinitely many beats and callbacks some get through.
`RenewalPass`: the worker's loop goes on; a lost token is staged again and
renewal is switched on in the end. Operator calls and busy instances are not fair.

### What the assumptions and exceptions are for

Each exception in a property is a behaviour of the code that the model reaches.

- An `up -d` at work at the admission (`raced`): the lock ends with the handler, and
  the handler with the spawn. A cold backup admitted then sees "stopped" and neither stops nor
  waits while the child starts the containers under the snapshot; a restore
  overwrites under it; a restore that aborts has torn down what the child brings back;
  and `DecommissionHolds` fails. Where none was at work the four properties hold with
  every fault.
- `DecommissionSticks` also needs the containers gone: a failed `down` is logged and the
  verify looks at volumes and the directory, so a container without a named volume may
  be left (`doubtful`).
- `AbortTearsDown` excepts `late`: a teardown that times out is logged, and the
  lock is given back.
- `SafetyPointerSurvives` excepts `cut`: `_write_json` writes in place and swallows
  the error (`backup.py:815`). A refused first write lets the overwrite begin without its pointer;
  a crash while the outcome replaces the pointer leaves a file that does not parse,
  which boot skips and `restore_status` reports as unknown.
- `RestartedUnlessLate` excepts a stop that outlives the wait for it: by its deadline
  (the finding), or by a crash during the wait with the containers still up. Boot then finds
  them running, drops the marker, and the daemon's stop takes effect afterwards
  (`backup.py:856`).
- `OverwriteQuiescentIfWhole` says "if whole" because a restore stops only an
  instance whose aggregate is `running`: with one dead container the aggregate
  is `unknow`, nothing is stopped and the volumes are overwritten under the rest.
- `RestartedUnlessLate` speaks of a fully stopped instance. A crash in the middle
  of the stop leaves a mixed one, which boot does not restart though it removes
  the marker. A restore writes no marker, so a crash between its stop and its
  pointer leaves the instance stopped.
- `RenewalStandsOff` speaks of tracked children. The untracked stop of a backup can
  outlive the lock after a stop timeout and then renewal meets it.
- After a reload that did not take and a failed restart, the new pair stays in
  the sidecar and is served after its next restart, when the manager has
  already retired it. `ConfirmedWasServed` holds nevertheless.
- `RepoOpLock` claims nothing about two operations on one repository: a spawn that
  fetched the lock before the reap acquires the orphaned object while another
  spawn gets a fresh one (`backup.py:1484`), although the comment of
  `_reap_repo_op_lock` lists only the two harmless cases.
- `PendingIsOwed` excuses four things. `_mint` takes every status but 200 for a
  refusal, a gateway's 502 after the manager has issued included, and the debt
  is dropped (`cert_renewal.py:426`); a gateway's 4xx to a report reads as the manager's
  answer; a debt whose write the disk refuses does not survive a crash; and a ledger that cannot be
  read is an empty one, which the save at the end of the pass writes over
  the entries (`cert_renewal.py:1185`).
- An instance whose containers are all label-ignored is `unknow`, not `stopped`:
  they are skipped before `saw_any` is set.
- `DueRenewed` has a limit, and it is sharp. A blind instance is visited once in `Cap`
  intervals and `StreakAbort` of them end a pass, so `StreakAbort * Cap` blind ones at the head of
  the order can end every pass, and the instances behind them expire: twelve at the
  defaults, three at a daily interval, where `_BACKOFF_CAP_SECONDS` is one interval
  (`cert_renewal.py:1057`).
- `AutoNeverBackwards` excepts a decision on a version read that failed
  (`recreate.py:535`, `compose.py:576`): `is_downgrade` of an unknown version is not
  true. It also excepts a target that cannot be ordered, which is `latest` for a host update.
- `UngatedStaysOut` excepts what a run leaves behind. The pin (`strayPin`): a signal
  between the retag of the file and its handler (`update.py:702`; the comment at 706
  claims the whole way from the retag to the gate), and a SIGKILL. A tag (`strayTags`): a retag that timed out and took
  effect, a recreate that raised past the line that records it, a `restore_latest` that failed and is only
  logged (`engine.py:76`), an updater killed on the way, and a `--to latest` that was pulled and not
  accepted, since restoring the refs does not move the local tag back.
- All four update properties except `overlap`: with the `mountpoint` fault the host
  update finds no shared lock file and takes one beside the compose file.
- `HostRollbackRestores` is about a node that runs what its compose file names. After
  a remote update the file's pin is older than what ran, and a host rollback
  takes the node back to a version it had left (`update.py:397`).
- `CopiedUnlessTorn` excepts `torn`: a compose file that cannot be read or parsed is
  skipped and the migration recorded (`_0001_namespace_catalog_volumes.py:66`); a failed `docker volume
  inspect` reads as "absent", with the same end; a failed or killed copy leaves a target
  that the retry takes for a finished one; a start of the instance may create
  the target first. For these the retry of rule 1 in `base.py:10` does not lead where a clean run
  would have.
- An unreadable ledger reads as empty. The comment at `ledger.py:104` says "refuse to
  auto-write so an operator sees it rather than silently re-running every past
  migration", yet the batch runs every migration again and `mark_applied` overwrites
  the file. The contract has this as `blind` and `lost`.
- `ServesAgain` excepts a `fatal` ledger: a file that is not UTF-8, or whose `applied`
  is null, makes every boot exit with an error until an operator repairs it.
- `GrantsDisjoint` excepts `unguarded`: a pull that outlives the TTL of its
  reservation, a container that the daemon creates after a restart of the process, and an
  instance started again while it runs or is being started. The reservation of a
  redeploy is pruned because its own old container still publishes the port; recreating
  that container then frees the port before it is bound again, and a third start
  can get it.
- `RunningMatchesSidecar` excepts `changed`: the sidecar is saved before the start can
  still be refused, so a redeploy with other ports, or one that could not read the sidecar,
  leaves a file that differs from what runs.
- `SamePortKept` excepts a start that could not read the sidecar
  (`sticky_ports.py:50`): the port is rotated and saved over.
- `RegistersAgain` and `StatusDelivered` except `Orphaned`: the poll for a certificate has no way back to the
  POST, so a claim forgotten in between keeps the node out until a restart
  (`register.py:223`).
- A refused configuration can leave a running instance without its rendered
  compose file (an env or file destination removes it before a later
  destination is refused, `compose.py:688`); a stop then does nothing. `ports` reaches this state;
  it breaks none of the port properties.
- `StatusDelivered` accepts `unsure`: when a callback was heard and its answer lost,
  and the status goes back, nothing is sent and the manager keeps the transient
  status until a heartbeat's map.
- Four hazards have no property: a restore writes no in-progress marker
  (`backup.py:1090`), two operations on one repository after a reap (`backup.py:1484`), two
  updates at two locks (`update.py:478`), and the removed compose file above
  (`compose.py:688`). The code makes no claim that could hold about any of them. Nor does it about two
  starts that push tunnel content: the one with the older content may write
  `client.toml` last (`controller.py:411`).

## Proofs

All hold for every value of the constants that satisfies the named assumption of
the module; the model's bounds are no part of them.

`InstanceOpsProofs`: `OneOperationAtATime` is not inductive, since it does not say
who may release. `BaseInv` is: `TypeOK`; `LockInv` (a critical thread holds the lock,
the one-shot flag is up exactly in a job that has not released yet, and the lock's holder
is critical or has its flag up); `RenewalInv` (a renewal exists only inside its lock,
and not while a handoff is reserved); `GateInv` (`inflight` is exactly the
live tracked children plus the waiters not back, hence zero means none lives); `RestoreInv`
(a thread at a restore step has an issued id). Each part has a step lemma with
one case per action. From it follow `TypeCorrect`, `MutualExclusion`,
`LockNotStranded`, `HandoffHonoured` and `RenewalGated`. `PointerDurable` needs more: restore
ids of different threads differ and boot runs alone (`RidInv`), and from its write
to the last change of the volumes the pointer reads back or is `cut`, and is unlinked
only when acknowledged (`PointerInv`).

The quiescence properties are theorems too, with every fault and any order of
operations. None is inductive: that the containers are down now does not say that
nothing is about to start them. `QuiesceInvariant` adds who can: while a job that was
admitted with no `up -d` at work holds the lock, no `up` child lives (`UpFree`,
`NoUps`); the locals of a job agree with where it is (`LocalsInv`); what it has read
of the containers still holds when it relies on it (`StillInv`); and a teardown that was
not given up has found all down (`TearInv`). The step lemmas rest on two frame
lemmas: another thread leaves the instance alone while one is critical, and children
other than ups only stop containers. `ColdSnapshotSafe`, `OverwriteSafe` and `AbortedRestoreDown`
follow. `DecommissionFinal` has an invariant of its own, `GoneInv`: after a clean
decommission no up is alive and no thread is where it can start a container.
No theorem of this module has a hypothesis.

`RepoOpLockProofs`: `RegistryBounded` and `RefusalsJustified`, from the invariant
that a holder owns the object it fetched, that an object belongs to one repository,
and that an entry not yet popped is backed by a thread.

`InstanceStatusProofs`: `StoppedVerdictTrue`: for any number of containers, what has been
inspected and found at rest is still at rest if nothing started. `RunningVerdictTrue` is
its counterpart, with one container known to run kept by `RunInv`.

`RenewalProofs`: `MintsAreOwed` from where the debt is on file at each step, unless
`excused`, and `RecordsAreTrue` from "what a handshake read has been served". Neither has a
hypothesis on faults.

`NodeLinkProofs`: `LinkInvariant` is inductive. Its core is `FlagInv`: a beat is
under way only while `registered` is set, a request or a registration exists only
while it is not, and only one worker registers. With which token is claimed at each
step of a registration (`TokenInv`) and which maps are true (`MapInv`) it gives
`ParkedIsWoken`, `RegistersAlone`, `BeatsWithClaim` and `MapsAreHonest`.

`InstanceStartProofs`: disjoint grants are not inductive, since a pick is
disjoint only from what its start has seen. `GrantInvariant` adds that a guarded
instance shares no port with any other, guarded or not (`ApartInv`), that its
reservations stand until its one child with ports has bound them (`HeldInv`), that the
holder of the allocation lock has seen all ports of the other guarded instances,
published or reserved (`SeenInv`), and what a start has at each step
(`PhaseInv`). `PortsGrantedOnce` follows. `SamePortSticks` adds that a `same_port` start
retraces the map it has loaded (`StickyInv`). `SidecarTrue` needs the way from
the pick to the bind as well (`MatchInv`): while no race has happened every
grant is exclusive (`OwnedInv`), every child of an instance that is not `changed` binds
what the sidecar says (`SavedAt`), and a start that finds its own ports taken by
nobody else picks the saved ones again (`RetraceAt`). The lemmas on `Lowest` and the
chosen port rest on the library's well-foundedness and cardinality facts.

`OpsMigrationsProofs`: `BatchInvariant` says that the process inside the flock is alone and
has the ledger of the disk in its memory, or has failed to read it and not yet
written it (`LedgerInv`), and what the boot batch has
recorded at each position unless it will exit with an error (`BootInv`). From
it follow `SentinelGoesLast` and the refinement `RunnerImplements`: a step lemma
with one case per action maps each to `Open`, `Begin`, `Complete`, `Abandon`, `Adopt`,
`Serve`, `Down` or a stutter of `MigrationContract`. `RecordedIsCopied` needs one more
invariant, `CopyInv`: a half-made target has a copier at work or is torn, and a run
without errors has copied all it has behind it.

`SelfUpdateProofs`: `UpdateTypes` holds with every fault; types alone are not
inductive, since a rollback retags `:latest` with the image it found, which exists only because
`done` and `todo` stay within the stack that was found (`WorkOf`). `UpdatesExclude`
is mutual exclusion, for `"mountpoint" \notin Faults`: both updates then lock the same file, and
a run is between its lock and its release exactly while that file names it
(`LockInv`). The other theorems hold with every fault, `mountpoint` included, since they
except the state `overlap`. Each property is an invariant of one run at a time:
`AtWorkUndisturbed` says that the steps of the others change neither its locals nor, while
it works, the node, so that only its own steps are left to look at.
`RemoteRollbackSound`: a service that is not in `done` and runs is on its old
image. `HostRollbackSound`: a container is the one that was found or is labelled with the
target, so that `up` with the old refs recreates it. `NeverBackwards`: `seen` is
the version that ran when the lock was taken, from the check under the lock on.
`NothingUngated` is the largest: at rest the tags and the pin are good but for the stray ones; a remote update
has tried tags exactly on `Tried`, and its gate accepts or its rollback
restores those; a host update moves no tag and has a good pin to go back to until
its own has passed; and a label that is not the running image names an accepted one
(`MadeInv`), without which a host gate would accept a pin that no container was
ever created from.

The types are proved with each inductive invariant (`TypeOK` of `InstanceOps`,
`NodeLink`, `InstanceStart`, `OpsMigrations` and `SelfUpdate`); only `safety` lists `TypeOK` as
an invariant of its run.

Model-checked only: liveness, which is beyond the prover (`LockAlwaysFreed`, `RestartedUnlessLate`,
`PendingResolved`, `DueRenewed`, `UpdatesEnd`, `ServesAgain`, `RegistersAgain`, `StatusDelivered`,
`DeadWorkerHealed`). Every other property a passing run checks is the statement of a theorem.

## Plan

In this order:

1. An abstract specification of an instance (absent, stopped, running, busy with
   one operation) that `InstanceOps` implements, with the refinement proved from
   `BaseInvariant` and `QuiesceInvariant`.
2. An abstract specification of the update of a node (at rest, being updated,
   rolled back) that `SelfUpdate` implements without `mountpoint`.
3. The shared worker pool of `render_budget.py`, with its retries and replaced workers.

## Not modelled

Rendering and validation of templates (`repository.py` apart from its ports,
`compose_shape.py`, `preflight.py`, `limits.py`): pure functions over YAML. The worker
pool of `render_budget.py`: a protocol of its own, left for later; in the models a
render is accepted or refused. The observation endpoints: read-only docker queries with
caches. The host command line apart from `update`: prompts and one env file.
Settings, authentication, logging. Tunnel and proxy images: third-party programs
and configuration files. Inside modelled components: the restic and dump commands
are a success or a failure, the options a recreate carries over are left to
docker, the `:previous` tag and the dangling prune are dropped (no code reads the
one; the other removes what nothing names), the CRL copy and the host figures of a
beat change nothing a property is about, and the snapshot helpers of
`ops_migrations/operations.py` have no caller.
