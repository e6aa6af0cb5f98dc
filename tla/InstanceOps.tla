----------------------------- MODULE InstanceOps -----------------------------
(***************************************************************************)
(* The control operations on ONE instance of a greffer: the start, stop    *)
(* and decommission handlers (app/routers/controller.py), the backup and   *)
(* restore jobs with their durable files and the boot reconciliation       *)
(* (app/backup.py), and the lock acquisition of the certificate renewal    *)
(* worker.  Every table the code keeps is keyed by instance id and no      *)
(* operation touches two instances, so one instance is the whole story.    *)
(*                                                                         *)
(* Control is kept step by step: what a thread does between two steps may  *)
(* interleave with every other thread, with the docker-compose children    *)
(* that outlive the handler that spawned them, with the clock of the       *)
(* handoff window and with a crash of the process.  Data is abstracted:    *)
(* the containers of the instance are an aggregate (absent, stopped,       *)
(* mixed, running), a snapshot or an overwrite is a phase of a job, and a  *)
(* result is success or failure.                                           *)
(***************************************************************************)
EXTENDS Integers

CONSTANTS
  Threads,        \* threads of the greffer process (request, job or worker)
  NoThread,       \* the holder of a free lock
  Ops,            \* the operations the environment asks for
  Restores,       \* restore ids the manager can issue, each one once
  NoRestore,      \* the restore id of a thread that is not restoring
  Faults,         \* what the environment may do wrong
  InitContainers, \* the aggregates an instance may start from
  MaxChildren,    \* bound: compose children, and waiters not yet back, at an admission
  MaxCrashes      \* bound: crashes of the greffer process

AllOps == {"start", "stop", "decommission", "backup", "hotbackup",
           "restore", "dbrestore", "renew"}
AllFaults == {"docker", "disk", "thread", "stop_timeout", "container_dies"}

ASSUME ConstantsAssumption ==
  /\ NoThread \notin Threads
  /\ NoRestore \notin Restores
  /\ Ops \subseteq AllOps
  /\ Faults \subseteq AllFaults
  /\ InitContainers \subseteq {"absent", "stopped", "running"}
  /\ MaxChildren \in Nat
  /\ MaxCrashes \in Nat

VARIABLES
  \* Memory of the process, lost in a crash.
  lock,        \* holder of _locks[id]
  held,        \* held[t]: the one-shot flag of _release_once in t's job
  handoff,     \* _handoff[id]: no entry, before its deadline, past it
  inflight,    \* _inflight[id]
  exited,      \* tracked children that exited, their waiter not yet back
  pc,          \* where each thread is
  job,         \* the locals of each thread
  phase,       \* boot reconciliation, then serving
  \* The host, which survives a crash of the process.
  kids,        \* live docker-compose children by kind
  containers,  \* aggregate of the instance's containers
  marker,      \* .backup_inprogress exists
  pointer,     \* pointer[r]: status in .restore_<r>.json, "none" if no file,
               \* "torn" if it is there and does not parse
  overwrote,   \* restores that have modified the volumes now on the host
  \* The manager and the bookkeeping of the model.
  acked,       \* restores whose result the manager acknowledged
  used,        \* restore ids already issued
  cut,         \* restores whose file a failed write or a crash has cut short
  gone,        \* a decommission reported success and no start followed:
               \* "clean" if nothing was at work on the instance beside it
  crashes

memory == <<lock, held, handoff, inflight, exited>>
threads == <<pc, job>>
host == <<containers, marker, pointer, overwrote>>
ledger == <<acked, used, cut, gone, crashes>>
vars == <<memory, threads, phase, kids, host, ledger>>

-----------------------------------------------------------------------------
(* Status, children and locals.                                            *)

\* Mutant: a status of its own for each of the two.
StatusRaw(c) == c

\* compose.get_status: the empty and the mixed container set share "unknow".
Status(c) == IF c \in {"running", "stopped"} THEN c ELSE "unknow"

ChildKinds == {"up", "stop", "strayUp", "strayStop"}  \* stray: not counted
Counted(k) == k \in {"up", "stop"}
NoKids == [k \in ChildKinds |-> 0]
LiveKids == kids["up"] + kids["stop"] + kids["strayUp"] + kids["strayStop"]

\* An `up -d` that an earlier start spawned, or that outlived the process that
\* did, is still at work: no operation waits for it.
UpAtWork == kids["up"] + kids["strayUp"] > 0

\* Beside the locals of the code: raced, an `up -d` was at work when the
\* operation was admitted; late, the teardown of a failed restore was given up.
IdleJob == [op |-> "none", seen |-> "unknow", stopped |-> FALSE,
            over |-> FALSE, db |-> FALSE, ok |-> FALSE, rid |-> NoRestore,
            raced |-> FALSE, late |-> FALSE]
Admitted(o) == [IdleJob EXCEPT !.op = o, !.raced = UpAtWork]

Readable(p) == p \notin {"none", "torn"}

ControlOps == {"start", "stop", "decommission"}
RestoreOps == {"restore", "dbrestore"}
BackupOps == {"backup", "hotbackup"}
JobOps == RestoreOps \cup BackupOps

Fault(f) == f \in Faults
Goto(t, l) == pc' = [pc EXCEPT ![t] = l]

\* Assignments to the locals: was_running, stopped, overwrote, db_started and
\* the status of the result.
Saw(t, s) == job' = [job EXCEPT ![t].seen = s]
HasStopped(t) == job' = [job EXCEPT ![t].stopped = TRUE]
EntersOverwrite(t) == job' = [job EXCEPT ![t].over = TRUE]
DbStarted(t) == job' = [job EXCEPT ![t].db = TRUE]
Outcome(t, b) == job' = [job EXCEPT ![t].ok = b]
GivesUp(t) == job' = [job EXCEPT ![t].late = TRUE]

\* The two endings of a waited `docker-compose up -d`: _restart ignores the
\* exit code, so a failed one is not told apart from a good one.
UpReturns ==
  \/ containers' = "running"
  \/ Fault("docker") /\ containers' \in {containers, "mixed"}

\* Popen of a child that no one waits for.
SpawnStray == kids' = [kids EXCEPT !["strayStop"] = @ + 1]

\* track_compose_child(compose.start / compose.stop): the spawn and the
\* count happen under the instance lock, and every reader of the count that
\* acts on it holds that lock too, so they are one step.  A waiter thread
\* that cannot start gives its count back and the child runs uncounted.
SpawnTracked(k, stray) ==
  \/ /\ kids' = [kids EXCEPT ![k] = @ + 1]
     /\ inflight' = inflight + 1
  \/ /\ Fault("thread")
     /\ kids' = [kids EXCEPT ![stray] = @ + 1]
     /\ UNCHANGED inflight

-----------------------------------------------------------------------------
Init ==
  /\ lock = NoThread
  /\ held = [t \in Threads |-> FALSE]
  /\ handoff = "none"
  /\ inflight = 0
  /\ exited = 0
  /\ pc = [t \in Threads |-> "idle"]
  /\ job = [t \in Threads |-> IdleJob]
  /\ phase = "serving"
  /\ kids = NoKids
  /\ containers \in InitContainers
  /\ marker = FALSE
  /\ pointer = [r \in Restores |-> "none"]
  /\ overwrote = {}
  /\ acked = {}
  /\ used = {}
  /\ cut = {}
  /\ gone = "no"
  /\ crashes = 0

(***************************************************************************)
(* Admission.  A refused request (409 instance_busy) changes nothing.      *)
(***************************************************************************)
Admissible(o) ==
  /\ phase = "serving"
  /\ o \in Ops
  /\ LiveKids + exited < MaxChildren

\* _serialize_instance_op takes the lock without blocking.
AcquireControl(t, o) ==
  /\ pc[t] = "idle" /\ o \in ControlOps /\ Admissible(o)
  /\ lock = NoThread
  /\ lock' = t
  /\ job' = [job EXCEPT ![t] = Admitted(o)]
  /\ gone' = IF o = "start" THEN "no" ELSE gone
  /\ Goto(t, "clear")
  /\ UNCHANGED <<held, handoff, inflight, exited, phase, kids, host,
                 acked, used, cut, crashes>>

\* spawn_backup: the lock, then the one-shot release, then the thread.
SpawnBackup(t, o) ==
  /\ pc[t] = "idle" /\ o \in BackupOps /\ Admissible(o)
  /\ lock = NoThread
  /\ lock' = t
  /\ held' = [held EXCEPT ![t] = TRUE]
  /\ job' = [job EXCEPT ![t] = Admitted(o)]
  /\ Goto(t, "spawn")
  /\ UNCHANGED <<handoff, inflight, exited, phase, kids, host, ledger>>

\* spawn_restore: the same, with the restore id the manager issued.
SpawnRestore(t, o, r) ==
  /\ pc[t] = "idle" /\ o \in RestoreOps /\ Admissible(o)
  /\ r \notin used
  /\ lock = NoThread
  /\ lock' = t
  /\ held' = [held EXCEPT ![t] = TRUE]
  /\ used' = used \cup {r}
  /\ job' = [job EXCEPT ![t] = [Admitted(o) EXCEPT !.rid = r]]
  /\ gone' = "no"
  /\ Goto(t, "spawn")
  /\ UNCHANGED <<handoff, inflight, exited, phase, kids, host,
                 acked, cut, crashes>>

\* Mutant: the reservation is not looked at.
AcquireRenewalBlind(t) ==
  /\ pc[t] = "idle" /\ Admissible("renew")
  /\ lock = NoThread
  /\ lock' = t
  /\ job' = [job EXCEPT ![t] = [IdleJob EXCEPT !.op = "renew"]]
  /\ Goto(t, "rn_gate")
  /\ UNCHANGED <<held, handoff, inflight, exited, phase, kids, host, ledger>>

\* acquire_unless_handoff: expiry, check and acquire under one guard.
AcquireRenewal(t) ==
  /\ pc[t] = "idle" /\ Admissible("renew")
  /\ handoff # "reserved"
  /\ handoff' = "none"
  /\ lock = NoThread
  /\ lock' = t
  /\ job' = [job EXCEPT ![t] = [IdleJob EXCEPT !.op = "renew"]]
  /\ Goto(t, "rn_gate")
  /\ UNCHANGED <<held, inflight, exited, phase, kids, host, ledger>>

\* The same call on a busy lock: an entry past its deadline is deleted still.
RenewalFindsBusy(t) ==
  /\ pc[t] = "idle" /\ Admissible("renew")
  /\ handoff = "lapsed"
  /\ lock # NoThread
  /\ handoff' = "none"
  /\ UNCHANGED <<lock, held, inflight, exited, threads, phase, kids, host,
                 ledger>>

\* The deadline of the reservation passes.
HandoffLapses ==
  /\ handoff = "reserved"
  /\ handoff' = "lapsed"
  /\ UNCHANGED <<lock, held, inflight, exited, threads, phase, kids, host,
                 ledger>>

\* Mutant: a plain lock.release(), in both places that call it.
ReleaseEachTime(t) ==
  /\ lock' = NoThread
  /\ held' = [held EXCEPT ![t] = FALSE]

\* The one-shot release: only its first call frees the lock.
ReleaseOnce(t) ==
  /\ lock' = IF held[t] THEN NoThread ELSE lock
  /\ held' = [held EXCEPT ![t] = FALSE]

(***************************************************************************)
(* Start, stop, decommission.                                              *)
(***************************************************************************)
ClearHandoff(t) ==
  /\ pc[t] = "clear"
  /\ handoff' = "none"
  /\ Goto(t, "handler")
  /\ UNCHANGED <<lock, held, inflight, exited, job, phase, kids, host, ledger>>

\* Any refusal or error before compose runs: a self-update in progress, a
\* template or port error.  Nothing was spawned.
HandlerRefuses(t) ==
  /\ pc[t] = "handler"
  /\ Goto(t, "fin")
  /\ UNCHANGED <<memory, job, phase, kids, host, ledger>>

StartGreffon(t) ==
  /\ pc[t] = "handler" /\ job[t].op = "start"
  /\ SpawnTracked("up", "strayUp")
  /\ Goto(t, "fin")
  /\ UNCHANGED <<lock, held, handoff, exited, job, phase, host, ledger>>

StopGreffon(t) ==
  /\ pc[t] = "handler" /\ job[t].op = "stop"
  /\ SpawnTracked("stop", "strayStop")
  /\ Goto(t, "fin")
  /\ UNCHANGED <<lock, held, handoff, exited, job, phase, host, ledger>>

\* Mutant: `down -v` spawned like a stop, and 200 at once.
DecommissionUnwaited(t) ==
  /\ pc[t] = "handler" /\ job[t].op = "decommission"
  /\ SpawnTracked("stop", "strayStop")
  /\ gone' = "clean"
  /\ Goto(t, "fin")
  /\ UNCHANGED <<lock, held, handoff, exited, job, phase, host, acked, used,
                 cut, crashes>>

\* `down -v` waited for, residual volumes removed, instance dir removed with
\* the durable files in it, then 200.  A non-zero exit of `down` is only
\* logged and the verify looks at volumes and directory: a container that
\* mounts no named volume may be left.
DecommissionGreffon(t) ==
  /\ pc[t] = "handler" /\ job[t].op = "decommission"
  /\ containers' = "absent" \/ (Fault("docker") /\ containers' = containers)
  /\ marker' = FALSE
  /\ pointer' = [r \in Restores |-> "none"]
  /\ overwrote' = {}
  /\ gone' = IF containers' = "absent" /\ ~job[t].raced THEN "clean"
             ELSE "doubtful"
  /\ Goto(t, "fin")
  /\ UNCHANGED <<memory, job, phase, kids, acked, used, cut, crashes>>

\* 500: the daemon failed part of the teardown, before the instance dir was
\* removed or after it (residual volumes).  Data the operator gave up is no
\* longer tracked.
DecommissionFails(t) ==
  /\ pc[t] = "handler" /\ job[t].op = "decommission" /\ Fault("docker")
  /\ containers' \in {containers, "absent"}
  /\ \/ UNCHANGED <<marker, pointer, overwrote>>
     \/ /\ marker' = FALSE
        /\ pointer' = [r \in Restores |-> "none"]
        /\ overwrote' = {}
  /\ Goto(t, "fin")
  /\ UNCHANGED <<memory, job, phase, kids, ledger>>

\* The wrapper's finally.
HandlerReturns(t) ==
  /\ pc[t] = "fin"
  /\ lock' = NoThread
  /\ job' = [job EXCEPT ![t] = IdleJob]
  /\ Goto(t, "idle")
  /\ UNCHANGED <<held, handoff, inflight, exited, phase, kids, host, ledger>>

ControlStep(t) ==
  \/ ClearHandoff(t) \/ HandlerRefuses(t)
  \/ StartGreffon(t) \/ StopGreffon(t)
  \/ DecommissionGreffon(t) \/ DecommissionFails(t)
  \/ HandlerReturns(t)

(***************************************************************************)
(* Certificate renewal, as far as it meets the other operations.           *)
(***************************************************************************)
RenewalSkips(t) ==
  /\ pc[t] = "rn_gate"
  /\ Goto(t, "fin")
  /\ UNCHANGED <<memory, job, phase, kids, host, ledger>>

\* compose_inflight read false under the lock: mint, install, verify.
RenewalInstalls(t) ==
  /\ pc[t] = "rn_gate"
  /\ inflight = 0
  /\ Goto(t, "rn_install")
  /\ UNCHANGED <<memory, job, phase, kids, host, ledger>>

RenewalDone(t) ==
  /\ pc[t] = "rn_install"
  /\ Goto(t, "fin")
  /\ UNCHANGED <<memory, job, phase, kids, host, ledger>>

RenewalStep(t) == RenewalSkips(t) \/ RenewalInstalls(t) \/ RenewalDone(t)

(***************************************************************************)
(* The job thread around a backup or a restore.                            *)
(***************************************************************************)
ThreadStarts(t) ==
  /\ pc[t] = "spawn"
  /\ Goto(t, IF job[t].op \in BackupOps THEN "bk_status" ELSE "rs_status")
  /\ UNCHANGED <<memory, job, phase, kids, host, ledger>>

\* Mutant: the error path forgets the lock.
ThreadFailsHolding(t) ==
  /\ pc[t] = "spawn" /\ Fault("thread")
  /\ job' = [job EXCEPT ![t] = IdleJob]
  /\ Goto(t, "idle")
  /\ UNCHANGED <<memory, phase, kids, host, ledger>>

\* thread.start() raised: release, answer 409.
ThreadFails(t) ==
  /\ pc[t] = "spawn" /\ Fault("thread")
  /\ ReleaseOnce(t)
  /\ job' = [job EXCEPT ![t] = IdleJob]
  /\ Goto(t, "idle")
  /\ UNCHANGED <<handoff, inflight, exited, phase, kids, host, ledger>>

\* release_lock(), before the callback.  What decided the restart and the
\* teardown is not looked at again.
ReleaseEarly(t) ==
  /\ pc[t] = "release"
  /\ ReleaseOnce(t)
  /\ job' = [job EXCEPT ![t] = [IdleJob EXCEPT !.op = job[t].op,
                                             !.rid = job[t].rid]]
  /\ Goto(t, "post")
  /\ UNCHANGED <<handoff, inflight, exited, phase, kids, host, ledger>>

\* _post_callback never raises; a lost answer leaves the file.
CallbackLost(t) ==
  /\ pc[t] = "post"
  /\ Goto(t, "locked_final")
  /\ UNCHANGED <<memory, job, phase, kids, host, ledger>>

CallbackAcked(t) ==
  /\ pc[t] = "post"
  /\ IF job[t].op \in RestoreOps
     THEN acked' = acked \cup {job[t].rid} /\ Goto(t, "rs_unlink")
     ELSE acked' = acked /\ Goto(t, "locked_final")
  /\ UNCHANGED <<memory, job, phase, kids, host, used, cut, gone, crashes>>

\* _remove(state_path) once acked.
UnlinkState(t) ==
  /\ pc[t] = "rs_unlink"
  /\ pointer' = [pointer EXCEPT ![job[t].rid] = "none"]
  /\ Goto(t, "locked_final")
  /\ UNCHANGED <<memory, job, phase, kids, containers, marker, overwrote,
                 ledger>>

\* _locked_job's finally: a second call of the one-shot release, or the
\* first when the job raised before its own finally.
LockedJobReturns(t) ==
  /\ pc[t] = "locked_final"
  /\ ReleaseOnce(t)
  /\ job' = [job EXCEPT ![t] = IdleJob]
  /\ Goto(t, "idle")
  /\ UNCHANGED <<handoff, inflight, exited, phase, kids, host, ledger>>

JobStep(t) ==
  \/ ThreadStarts(t) \/ ThreadFails(t) \/ ReleaseEarly(t)
  \/ CallbackLost(t) \/ CallbackAcked(t) \/ UnlinkState(t)
  \/ LockedJobReturns(t)

(***************************************************************************)
(* backup_instance.                                                        *)
(***************************************************************************)
\* was_running is read before the try: a daemon error here skips the finally
\* and the callback, and only _locked_job cleans up.
BackupReadsStatus(t) ==
  /\ pc[t] = "bk_status"
  /\ \/ /\ Saw(t, Status(containers))
        /\ Goto(t, "bk_check")
     \/ /\ Fault("docker")
        /\ job' = job
        /\ Goto(t, "locked_final")
  /\ UNCHANGED <<memory, phase, kids, host, ledger>>

\* The second read of the status, inside the try.
BackupChecksMissing(t) ==
  /\ pc[t] = "bk_check"
  /\ Goto(t, IF Status(containers) = "unknow" THEN "bk_unmark"
             ELSE IF job[t].op = "hotbackup" THEN "bk_hot"
             ELSE IF job[t].seen = "running" THEN "bk_mark" ELSE "bk_snap")
  /\ UNCHANGED <<memory, job, phase, kids, host, ledger>>

\* Any exception of the try goes straight to the finally.
BackupRaises(t) ==
  /\ pc[t] \in {"bk_check", "bk_stop"} /\ Fault("docker")
  /\ Goto(t, "bk_unmark")
  /\ UNCHANGED <<memory, job, phase, kids, host, ledger>>

\* Mutant: no durable marker.
BackupMarksNothing(t) ==
  /\ pc[t] = "bk_mark"
  /\ Goto(t, "bk_stop")
  /\ UNCHANGED <<memory, job, phase, kids, host, ledger>>

\* _write_json swallows an OSError.
BackupMarks(t) ==
  /\ pc[t] = "bk_mark"
  /\ marker' = TRUE \/ (Fault("disk") /\ marker' = marker)
  /\ Goto(t, "bk_stop")
  /\ UNCHANGED <<memory, job, phase, kids, containers, pointer, overwrote,
                 ledger>>

BackupStops(t) ==
  /\ pc[t] = "bk_stop"
  /\ SpawnStray
  /\ HasStopped(t)
  /\ Goto(t, "bk_wait")
  /\ UNCHANGED <<memory, phase, host, ledger>>

\* Mutant: anything but "running" passes for quiescent.
BackupHalfQuiesced(t) ==
  /\ pc[t] = "bk_wait"
  /\ Status(containers) # "running"
  /\ Goto(t, "bk_snap")
  /\ UNCHANGED <<memory, job, phase, kids, host, ledger>>

BackupQuiesced(t) ==
  /\ pc[t] = "bk_wait"
  /\ Status(containers) = "stopped"
  /\ Goto(t, "bk_snap")
  /\ UNCHANGED <<memory, job, phase, kids, host, ledger>>

\* _wait_stopped runs into its deadline, with the child still at work or with
\* nothing left that could still stop the instance; or a reading raises.
BackupStopTimeout(t) ==
  /\ pc[t] = "bk_wait"
  /\ \/ /\ Status(containers) # "stopped"
        /\ Fault("stop_timeout") \/ kids["strayStop"] = 0
     \/ Fault("docker")
  /\ Goto(t, "bk_restart")
  /\ UNCHANGED <<memory, job, phase, kids, host, ledger>>

\* The cold snapshot ends, well or not; the finally restarts what it stopped.
BackupSnapshots(t) ==
  /\ pc[t] \in {"bk_snap", "bk_hot"}
  /\ \E b \in BOOLEAN : Outcome(t, b)
  /\ Goto(t, IF job[t].stopped THEN "bk_restart" ELSE "bk_unmark")
  /\ UNCHANGED <<memory, phase, kids, host, ledger>>

BackupRestarts(t) ==
  /\ pc[t] = "bk_restart"
  /\ UpReturns
  /\ Goto(t, "bk_unmark")
  /\ UNCHANGED <<memory, job, phase, kids, marker, pointer, overwrote, ledger>>

\* Marker removed, then retention and repo statistics, then the release.
BackupUnmarks(t) ==
  /\ pc[t] = "bk_unmark"
  /\ marker' = FALSE
  /\ Goto(t, "release")
  /\ UNCHANGED <<memory, job, phase, kids, containers, pointer, overwrote,
                 ledger>>

BackupStep(t) ==
  \/ BackupReadsStatus(t) \/ BackupChecksMissing(t) \/ BackupRaises(t)
  \/ BackupMarks(t) \/ BackupStops(t) \/ BackupQuiesced(t)
  \/ BackupStopTimeout(t) \/ BackupSnapshots(t) \/ BackupRestarts(t)
  \/ BackupUnmarks(t)

(***************************************************************************)
(* restore_instance.                                                       *)
(***************************************************************************)
RestoreReadsStatus(t) ==
  /\ pc[t] = "rs_status"
  /\ \/ /\ Saw(t, Status(containers))
        /\ Goto(t, IF Status(containers) = "running" THEN "rs_stop"
                                                     ELSE "rs_safety")
     \/ /\ Fault("docker")
        /\ job' = job
        /\ Goto(t, "locked_final")
  /\ UNCHANGED <<memory, phase, kids, host, ledger>>

RestoreStops(t) ==
  /\ pc[t] = "rs_stop"
  /\ \/ SpawnStray /\ Goto(t, "rs_wait")
     \/ Fault("docker") /\ UNCHANGED kids /\ Goto(t, "rs_finally")
  /\ UNCHANGED <<memory, job, phase, host, ledger>>

RestoreQuiesced(t) ==
  /\ pc[t] = "rs_wait"
  /\ Status(containers) = "stopped"
  /\ Goto(t, "rs_safety")
  /\ UNCHANGED <<memory, job, phase, kids, host, ledger>>

\* Mutant: the result of the wait is ignored.
RestoreGoesOn(t) ==
  /\ pc[t] = "rs_wait"
  /\ Goto(t, "rs_safety")
  /\ UNCHANGED <<memory, job, phase, kids, host, ledger>>

RestoreStopTimeout(t) ==
  /\ pc[t] = "rs_wait"
  /\ \/ /\ Status(containers) # "stopped"
        /\ Fault("stop_timeout") \/ kids["strayStop"] = 0
     \/ Fault("docker")
  /\ Goto(t, "rs_finally")
  /\ UNCHANGED <<memory, job, phase, kids, host, ledger>>

\* ensure_repo, the class-map refusal and the safety snapshot: one failure.
RestoreTakesSafety(t) ==
  /\ pc[t] = "rs_safety"
  /\ Goto(t, "rs_point") \/ Goto(t, "rs_finally")
  /\ UNCHANGED <<memory, job, phase, kids, host, ledger>>

\* Mutant: the outcome is only recorded at the end.
RestoreOpensNothing(t) ==
  /\ pc[t] = "rs_point"
  /\ EntersOverwrite(t)
  /\ Goto(t, "rs_guard")
  /\ UNCHANGED <<memory, phase, kids, host, ledger>>

\* _write_json is path.write_text: opening the file empties it, then the text
\* is written.  It swallows an OSError of either and the job goes on.
OpenState(t, opened, gaveUp) ==
  \/ /\ pointer' = [pointer EXCEPT ![job[t].rid] = "torn"]
     /\ Goto(t, opened)
     /\ UNCHANGED cut
  \/ /\ Fault("disk") /\ pointer' = pointer
     /\ Goto(t, gaveUp)
     /\ cut' = IF pointer[job[t].rid] = "none" THEN cut \cup {job[t].rid} ELSE cut

WriteState(t, status) ==
  \/ pointer' = [pointer EXCEPT ![job[t].rid] = status] /\ UNCHANGED cut
  \/ Fault("disk") /\ pointer' = pointer /\ cut' = cut \cup {job[t].rid}

\* The rollback pointer, before the overwrite.
RestoreOpensPointer(t) ==
  /\ pc[t] = "rs_point"
  /\ OpenState(t, "rs_pointing", "rs_guard")
  /\ EntersOverwrite(t)
  /\ UNCHANGED <<memory, phase, kids, containers, marker, overwrote, acked,
                 used, gone, crashes>>

RestoreWritesPointer(t) ==
  /\ pc[t] = "rs_pointing"
  /\ WriteState(t, "overwriting")
  /\ Goto(t, "rs_guard")
  /\ UNCHANGED <<memory, job, phase, kids, containers, marker, overwrote, acked,
                 used, gone, crashes>>

\* db_volume_misclassified, found from docker state: nothing is overwritten.
RestoreRefusesVolumes(t) ==
  /\ pc[t] = "rs_guard" /\ job[t].op = "dbrestore"
  /\ Goto(t, "rs_finally")
  /\ UNCHANGED <<memory, job, phase, kids, host, ledger>>

\* restic restore --delete begins to change the volumes.
RestoreBeginsOverwrite(t) ==
  /\ pc[t] = "rs_guard"
  /\ overwrote' = overwrote \cup {job[t].rid}
  /\ Goto(t, "rs_overwriting")
  /\ UNCHANGED <<memory, job, phase, kids, containers, marker, pointer, ledger>>

\* A database-only app has no data volume to overwrite.
RestoreSkipsData(t) ==
  /\ pc[t] = "rs_guard" /\ job[t].op = "dbrestore"
  /\ Goto(t, "rs_db")
  /\ UNCHANGED <<memory, job, phase, kids, host, ledger>>

\* All data volumes restored, or a failure part of the way.
RestoreEndsOverwrite(t) ==
  /\ pc[t] = "rs_overwriting"
  /\ \/ /\ job[t].op = "dbrestore"
        /\ Goto(t, "rs_db")
        /\ UNCHANGED job
     \/ /\ \E b \in BOOLEAN : (b => job[t].op = "restore") /\ Outcome(t, b)
        /\ Goto(t, "rs_finally")
  /\ UNCHANGED <<memory, phase, kids, host, ledger>>

\* db_started, then only the database services come up.  With no other
\* container on the host they are the whole aggregate.
RestoreStartsDb(t) ==
  /\ pc[t] = "rs_db"
  /\ DbStarted(t)
  /\ \/ containers' = IF containers = "absent" THEN "running" ELSE "mixed"
     \/ Fault("docker") /\ containers' = containers
  /\ Goto(t, "rs_dbload")
  /\ UNCHANGED <<memory, phase, kids, marker, pointer, overwrote, ledger>>

\* Not healthy in time, no hook, or a dump that does not load: failure.
RestoreLoadsDb(t) ==
  /\ pc[t] = "rs_dbload"
  /\ \/ overwrote' = overwrote \cup {job[t].rid} /\ Goto(t, "rs_full")
     \/ overwrote' \in {overwrote, overwrote \cup {job[t].rid}}
        /\ Goto(t, "rs_finally")
  /\ UNCHANGED <<memory, job, phase, kids, containers, marker, pointer, ledger>>

\* The full `up -d`: success unless it raises (its timeout).
RestoreStartsAll(t) ==
  /\ pc[t] = "rs_full"
  /\ UpReturns
  /\ Outcome(t, TRUE) \/ (Fault("docker") /\ job' = job)
  /\ Goto(t, "rs_finally")
  /\ UNCHANGED <<memory, phase, kids, marker, pointer, overwrote, ledger>>

RestoreFinally(t) ==
  /\ pc[t] = "rs_finally"
  /\ Goto(t, IF job[t].seen = "running" /\ ~job[t].over /\ ~job[t].ok
             THEN "rs_reup"
             ELSE IF job[t].db /\ ~job[t].ok THEN "rs_down" ELSE "rs_save")
  /\ UNCHANGED <<memory, job, phase, kids, host, ledger>>

RestoreRestarts(t) ==
  /\ pc[t] = "rs_reup"
  /\ UpReturns
  /\ Goto(t, "rs_save")
  /\ UNCHANGED <<memory, job, phase, kids, marker, pointer, overwrote, ledger>>

\* The aborted database restore takes down what it started: a tracked stop.
RestoreTearsDown(t) ==
  /\ pc[t] = "rs_down"
  /\ SpawnTracked("stop", "strayStop")
  /\ Goto(t, "rs_downwait")
  /\ UNCHANGED <<lock, held, handoff, exited, job, phase, host, ledger>>

\* Mutant: missing_is_stopped accepts any "unknow", a mixed set included.
RestoreHalfTornDown(t) ==
  /\ pc[t] = "rs_downwait"
  /\ Status(containers) # "running"
  /\ Goto(t, "rs_save")
  /\ UNCHANGED <<memory, job, phase, kids, host, ledger>>

\* _wait_stopped with missing_is_stopped: the empty set counts, the mixed
\* one does not.
RestoreTornDown(t) ==
  /\ pc[t] = "rs_downwait"
  /\ containers \in {"stopped", "absent"}
  /\ Goto(t, "rs_save")
  /\ UNCHANGED <<memory, job, phase, kids, host, ledger>>

\* On a timeout it logs and goes on, and so it does when the stop cannot be
\* spawned or a reading raises.
RestoreTeardownTimeout(t) ==
  /\ \/ /\ pc[t] = "rs_downwait"
        /\ containers \notin {"stopped", "absent"}
        /\ Fault("stop_timeout") \/ kids["stop"] + kids["strayStop"] = 0
     \/ pc[t] \in {"rs_down", "rs_downwait"} /\ Fault("docker")
  /\ GivesUp(t)
  /\ Goto(t, "rs_save")
  /\ UNCHANGED <<memory, phase, kids, host, ledger>>

\* The outcome is written over the pointer, in place.
RestoreOpensOutcome(t) ==
  /\ pc[t] = "rs_save"
  /\ OpenState(t, "rs_saving", "rs_reserve")
  /\ UNCHANGED <<memory, job, phase, kids, containers, marker, overwrote, acked,
                 used, gone, crashes>>

RestoreSavesOutcome(t) ==
  /\ pc[t] = "rs_saving"
  /\ WriteState(t, IF job[t].ok THEN "success" ELSE "failed")
  /\ Goto(t, "rs_reserve")
  /\ UNCHANGED <<memory, job, phase, kids, containers, marker, overwrote, acked,
                 used, gone, crashes>>

\* Reserve while the lock is still held, and only where the manager chains
\* a start: a data-path success.
RestoreReserves(t) ==
  /\ pc[t] = "rs_reserve"
  /\ handoff' = IF job[t].ok /\ ~job[t].db THEN "reserved" ELSE handoff
  /\ Goto(t, "release")
  /\ UNCHANGED <<lock, held, inflight, exited, job, phase, kids, host, ledger>>

RestoreStep(t) ==
  \/ RestoreReadsStatus(t) \/ RestoreStops(t) \/ RestoreQuiesced(t)
  \/ RestoreStopTimeout(t) \/ RestoreTakesSafety(t)
  \/ RestoreOpensPointer(t) \/ RestoreWritesPointer(t)
  \/ RestoreRefusesVolumes(t)
  \/ RestoreBeginsOverwrite(t) \/ RestoreSkipsData(t)
  \/ RestoreEndsOverwrite(t) \/ RestoreStartsDb(t) \/ RestoreLoadsDb(t)
  \/ RestoreStartsAll(t) \/ RestoreFinally(t) \/ RestoreRestarts(t)
  \/ RestoreTearsDown(t) \/ RestoreTornDown(t)
  \/ RestoreTeardownTimeout(t) \/ RestoreOpensOutcome(t)
  \/ RestoreSavesOutcome(t) \/ RestoreReserves(t)

(***************************************************************************)
(* Compose children, the host, crash and boot.                             *)
(***************************************************************************)
IsUp(k) == k \in {"up", "strayUp"}

\* A child part of the way: some containers have changed, some have not.
ChildWorks(k) ==
  /\ kids[k] > 0
  /\ containers \in IF IsUp(k) THEN {"absent", "stopped"} ELSE {"running"}
  /\ containers' = "mixed"
  /\ UNCHANGED <<memory, threads, phase, kids, marker, pointer, overwrote,
                 ledger>>

\* A child has done its work and exits.  A counted one still has its waiter.
ChildExits(k) ==
  /\ kids[k] > 0
  /\ kids' = [kids EXCEPT ![k] = @ - 1]
  /\ exited' = IF Counted(k) THEN exited + 1 ELSE exited
  /\ \/ containers' = IF IsUp(k) THEN "running"
                      ELSE IF containers = "absent" THEN "absent"
                      ELSE "stopped"
     \/ Fault("docker") /\ containers' = containers
  /\ UNCHANGED <<lock, held, handoff, inflight, threads, phase, marker,
                 pointer, overwrote, ledger>>

\* Mutant: the entry is popped, the marks of sibling children with it.
WaiterPops ==
  /\ exited > 0
  /\ exited' = exited - 1
  /\ inflight' = 0
  /\ UNCHANGED <<lock, held, handoff, threads, phase, kids, host, ledger>>

\* proc.wait() returned: _release_compose_child.
WaiterReturns ==
  /\ exited > 0
  /\ exited' = exited - 1
  /\ inflight' = IF inflight > 1 THEN inflight - 1 ELSE 0
  /\ UNCHANGED <<lock, held, handoff, threads, phase, kids, host, ledger>>

\* A container of a running instance dies by itself.
ContainerDies ==
  /\ Fault("container_dies")
  /\ containers = "running"
  /\ containers' = "mixed"
  /\ UNCHANGED <<memory, threads, phase, kids, marker, pointer, overwrote,
                 ledger>>

\* Where a thread, or the boot, waits for an `up -d` of the whole instance.
UpWaited ==
  \/ \E t \in Threads : pc[t] \in {"bk_restart", "rs_reup", "rs_full"}
  \/ phase = "boot_marker" /\ marker /\ Status(containers) = "stopped"

\* What a command that was waited for may leave when it is cut half-way.
CutShort ==
  \/ UpWaited /\ containers' = "mixed"
  \/ \E t \in Threads :
       \/ /\ pc[t] = "rs_db"
          /\ containers' = IF containers = "absent" THEN "running" ELSE "mixed"
       \/ /\ pc[t] = "handler" /\ job[t].op = "decommission"
          /\ containers' \in IF containers \in {"running", "mixed"}
                            THEN {"mixed", "stopped", "absent"}
                            ELSE {containers, "absent"}

\* The process dies, and the docker-compose clients with it.  What they have
\* asked of the daemon it may finish all the same, at its own time: an `up` or
\* a `stop` that nothing in the new process knows of.
Crash ==
  /\ crashes < MaxCrashes
  /\ crashes' = crashes + 1
  /\ lock' = NoThread
  /\ held' = [t \in Threads |-> FALSE]
  /\ handoff' = "none"
  /\ inflight' = 0
  /\ exited' = 0
  /\ pc' = [t \in Threads |-> "idle"]
  /\ job' = [t \in Threads |-> IdleJob]
  /\ \E upGoesOn, stopGoesOn \in BOOLEAN :
       kids' = [NoKids EXCEPT
                  !["strayUp"] = IF upGoesOn
                    THEN kids["up"] + kids["strayUp"]
                         + (IF UpWaited THEN 1 ELSE 0)
                    ELSE 0,
                  !["strayStop"] = IF stopGoesOn
                    THEN kids["stop"] + kids["strayStop"] ELSE 0]
  /\ phase' = "boot_marker"
  /\ containers' = containers \/ CutShort
  /\ cut' = cut \cup {job[t].rid : t \in {u \in Threads : pc[u] = "rs_saving"}}
  /\ UNCHANGED <<marker, pointer, overwrote, acked, used, gone>>

\* reconcile_on_boot, the marker: restart what a backup left stopped, once.
BootRestarts ==
  /\ phase = "boot_marker"
  /\ IF marker /\ Status(containers) = "stopped"
     THEN UpReturns
     ELSE containers' = containers
  /\ marker' = FALSE
  /\ phase' = "boot_files"
  /\ UNCHANGED <<memory, threads, kids, pointer, overwrote, ledger>>

\* reconcile_on_boot, the restore files: post each that parses, remove the
\* acked ones.
BootReposts ==
  /\ phase = "boot_files"
  /\ \E A \in SUBSET {r \in Restores : Readable(pointer[r])} :
       /\ acked' = acked \cup A
       /\ pointer' = [r \in Restores |->
                        IF r \in A THEN "none" ELSE pointer[r]]
  /\ phase' = "serving"
  /\ UNCHANGED <<memory, threads, kids, containers, marker, overwrote,
                 used, cut, gone, crashes>>

-----------------------------------------------------------------------------
Admit(t) ==
  \/ \E o \in AllOps : AcquireControl(t, o) \/ SpawnBackup(t, o)
  \/ \E o \in AllOps, r \in Restores : SpawnRestore(t, o, r)
  \/ AcquireRenewal(t) \/ RenewalFindsBusy(t)

ThreadStep(t) ==
  ControlStep(t) \/ RenewalStep(t) \/ JobStep(t) \/ BackupStep(t)
                 \/ RestoreStep(t)

Child == \E k \in ChildKinds : ChildWorks(k) \/ ChildExits(k)

Boot == BootRestarts \/ BootReposts

Next ==
  \/ \E t \in Threads : Admit(t) \/ ThreadStep(t)
  \/ Child \/ WaiterReturns
  \/ HandoffLapses \/ ContainerDies \/ Crash \/ Boot

Spec == Init /\ [][Next]_vars

\* Every thread keeps running, every docker command returns within its
\* timeout and every child ends.  Nothing makes the manager or the operator
\* act, and nothing makes the process crash.
Fairness ==
  /\ \A t \in Threads : WF_vars(ThreadStep(t))
  /\ \A k \in ChildKinds : WF_vars(ChildExits(k))
  /\ WF_vars(WaiterReturns)
  /\ WF_vars(Boot)

FairSpec == Spec /\ Fairness

-----------------------------------------------------------------------------
(* Properties.                                                             *)

Pcs == {"idle", "clear", "handler", "fin", "rn_gate", "rn_install", "spawn",
        "bk_status", "bk_check", "bk_mark", "bk_stop", "bk_wait", "bk_snap",
        "bk_hot", "bk_restart", "bk_unmark", "rs_status", "rs_stop",
        "rs_wait", "rs_safety", "rs_point", "rs_pointing", "rs_guard",
        "rs_overwriting",
        "rs_db", "rs_dbload", "rs_full", "rs_finally", "rs_reup", "rs_down",
        "rs_downwait", "rs_save", "rs_saving", "rs_reserve", "release", "post",
        "rs_unlink", "locked_final"}

Jobs == [op : AllOps \cup {"none"}, seen : {"running", "stopped", "unknow"},
         stopped : BOOLEAN, over : BOOLEAN, db : BOOLEAN, ok : BOOLEAN,
         rid : Restores \cup {NoRestore}, raced : BOOLEAN, late : BOOLEAN]

\* Every variable keeps its type; no counter of the code goes below zero.
TypeOK ==
  /\ lock \in Threads \cup {NoThread}
  /\ held \in [Threads -> BOOLEAN]
  /\ handoff \in {"none", "reserved", "lapsed"}
  /\ inflight \in Nat
  /\ exited \in Nat
  /\ pc \in [Threads -> Pcs]
  /\ job \in [Threads -> Jobs]
  /\ phase \in {"serving", "boot_marker", "boot_files"}
  /\ kids \in [ChildKinds -> Nat]
  /\ containers \in {"absent", "stopped", "mixed", "running"}
  /\ marker \in BOOLEAN
  /\ pointer \in [Restores -> {"none", "torn", "overwriting", "failed",
                             "success"}]
  /\ overwrote \subseteq Restores
  /\ acked \subseteq Restores
  /\ used \subseteq Restores
  /\ cut \subseteq Restores
  /\ gone \in {"no", "clean", "doubtful"}
  /\ crashes \in Nat

\* Where a thread works on the instance and must be alone: from the acquire
\* to the release, which for a job comes before its callback.
Critical(t) == pc[t] \notin {"idle", "post", "rs_unlink", "locked_final"}

\* Two operations never work on the instance at the same time: the lock of
\* _serialize_instance_op, spawn_backup, spawn_restore and renewal, and the
\* one-shot release that is called twice by every job.
OneOperationAtATime ==
  \A t, u \in Threads : Critical(t) /\ Critical(u) => t = u

\* No path strands the lock: it belongs to a thread that works on the instance
\* or is about to release it, never to one that is gone or that waits for the
\* manager to answer its callback (release_lock before _post_callback, the
\* finally of _locked_job, the except around thread.start()).
NoStrandedLock ==
  \A t \in Threads : lock = t => Critical(t) \/ pc[t] = "locked_final"

\* From the success of a data restore until the manager's chained operation
\* takes the lock or the window lapses, no renewal holds the lock, so the
\* chained start is never refused because of one (acquire_unless_handoff,
\* and the reservation made before the release in restore_instance).
HandoffKeepsRenewalOut ==
  handoff = "reserved" => \A t \in Threads : job[t].op # "renew"

\* Renewal never installs a certificate while a compose child that the
\* process tracks is at work, though the child outlives the lock of the
\* handler that spawned it (track_compose_child, compose_inflight).
RenewalStandsOff ==
  \A t \in Threads :
    pc[t] = "rn_install" => kids["up"] = 0 /\ kids["stop"] = 0

\* Once a restore has changed the volumes, the id of its safety snapshot is
\* readable on disk until the manager has it: across crashes, boots and lost
\* callbacks (the pointer written before the overwrite).  The exceptions are
\* those of a write in place: a write the disk refuses, which is only logged,
\* and a crash while the outcome replaces the pointer.
SafetyPointerSurvives ==
  \A r \in overwrote :
    \/ r \in acked \/ Readable(pointer[r]) \/ r \in cut
    \/ \E t \in Threads : pc[t] = "rs_saving" /\ job[t].rid = r

Quiet == containers \in {"absent", "stopped"}

\* A cold backup snapshots nothing while a container of the instance runs
\* ("do NOT snapshot a non-quiescent instance"), whatever fails, unless an
\* `up -d` was still at work when it was admitted: the lock does not wait for
\* the child of a start, nor does the backup.
ColdSnapshotQuiescent ==
  \A t \in Threads : pc[t] = "bk_snap" /\ ~job[t].raced => Quiet

RestoreTouchesVolumes(t) ==
  pc[t] \in {"rs_safety", "rs_point", "rs_pointing", "rs_guard",
            "rs_overwriting"}

\* The safety snapshot and the overwrite of a restore happen with every
\* container of the instance stopped ("SAFETY snapshot of the now-stopped
\* instance"), where the restore saw the instance whole when it was admitted
\* (all of its containers running or all of them stopped) and no `up -d` was
\* at work then.
OverwriteQuiescentIfWhole ==
  \A t \in Threads :
    RestoreTouchesVolumes(t) /\ job[t].seen # "unknow" /\ ~job[t].raced => Quiet

\* A database restore that failed gives the lock back only after everything
\* it started is down again: no later start serves the half-loaded database
\* (the teardown wait of restore_instance).  The exceptions: a teardown it
\* gave up on, which it logs, and an `up -d` at work since its admission.
AbortTearsDown ==
  \A t \in Threads :
    /\ pc[t] \in {"rs_save", "rs_saving", "rs_reserve", "release"}
    /\ job[t].db /\ ~job[t].ok /\ ~job[t].late /\ ~job[t].raced
    => Quiet

\* After a decommission that removed the containers with no `up -d` at work
\* beside it, nothing of the instance comes back until a start or a restore is
\* asked for: not by a backup, a late stop or a boot.
DecommissionSticks == gone = "clean" => containers = "absent"

\* A decommission that reported success has left nothing and nothing comes
\* back: "return 200 on a host the pull repopulates" is what the refusal of a
\* busy instance is said to prevent.
DecommissionHolds == gone # "no" => containers = "absent"

\* Every acquisition of the instance lock ends in a release: no path of a
\* handler, a job or a failed thread start strands it.
LockAlwaysFreed == \A t \in Threads : (lock = t) ~> (lock # t)

\* With cold backups as the only operation, an instance a backup has stopped
\* is not left stopped, whatever the backup's outcome and wherever the
\* process crashes (the finally restart, the marker, reconcile_on_boot).
NeverLeftStopped == (containers = "stopped") ~> (containers # "stopped")

\* A stop has still to take effect and no backup waits for it any more.
StopOutlivesWait ==
  /\ kids["strayStop"] > 0 /\ containers # "stopped"
  /\ \A t \in Threads : pc[t] # "bk_wait"

\* The same where no stop outlives the wait for it, by the deadline of the
\* wait or by a crash after which the daemon finishes the stop: every other
\* stop of a backup is undone by its finally or, after a crash, by the boot.
RestartedUnlessLate == []~StopOutlivesWait => NeverLeftStopped

=============================================================================
