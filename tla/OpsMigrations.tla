--------------------------- MODULE OpsMigrations ----------------------------
(***************************************************************************)
(* The operations migrations (apps/utils/ops_migrations) and the container *)
(* command that runs them before uvicorn.  Several processes may run the   *)
(* batch: the boot of the container, and an operator's `python -m app.cli  *)
(* apply_ops_migrations`.  The batch holds one flock, reads the ledger,    *)
(* runs what is not in it and records each migration after its work.       *)
(*                                                                         *)
(* 0001 and 0003 copy raw-named docker volumes to namespaced ones, 0002    *)
(* deletes private keys staged in the working directory.  A volume stands  *)
(* for one (instance, declared name) of a rendered compose file.           *)
(***************************************************************************)
EXTENDS Naturals, Sequences

CONSTANTS
  Procs,       \* processes that may run the batch
  Boot,        \* the one that is the container's command
  NoProc,      \* the flock is free
  Volumes,     \* raw-named volumes of the instances
  NoVolume,
  Scan1,       \* those 0001 finds in the compose files
  Scan3,       \* those 0003 finds
  Files,       \* staged key files in the working directory
  Faults,      \* what may go wrong: "docker", "disk", "purge"
  MaxFaults,   \* bound on docker and disk faults
  MaxCrashes,  \* bound on processes killed or containers restarted
  MaxManual    \* bound on batches an operator starts

ASSUME MigrationConstants ==
  /\ Boot \in Procs /\ NoProc \notin Procs /\ NoVolume \notin Volumes
  /\ Scan1 \subseteq Volumes /\ Scan3 \subseteq Volumes
  /\ MaxFaults \in Nat /\ MaxCrashes \in Nat /\ MaxManual \in Nat

VARIABLES
  \* What survives a process.
  ledger,      \* ids recorded in .greffer-migrations.json
  damage,      \* of that file: "none"; "garbled": read as no entries; or
               \* "fatal": not UTF-8, or applied is null, and load raises
  sentinel,    \* .volumes-migrated of the version before the framework
  old,         \* raw-named volumes that exist
  target,      \* namespaced volumes: "absent", "partial" or "full"
  strays,      \* staged key files that are still there
  lock,        \* holder of the flock
  serving,     \* uvicorn runs
  skipEnv,     \* GREFFER_SKIP_OPS_MIGRATIONS is set on the container
  \* Each process.
  pc, opts,
  view,        \* the in-memory ledger
  at,          \* position in all_migrations()
  todo, item,  \* items the migration has not looked at; the one it copies
  errs,        \* summary["errors"] > 0, or run() raised
  failed,      \* some result is not ok
  \* Bookkeeping.
  torn,        \* volumes not copied in full: their compose file was not read,
               \* their inspection failed, the copy was cut short, or a start
               \* of the instance came first
  lost,        \* entries that a write of a batch which had not read them
               \* dropped from the file
  faults, crashes, manual

disk == <<ledger, damage, sentinel, lost>>
data == <<old, target, strays, torn>>
local == <<opts, view, at, todo, item, errs, failed>>
node == <<serving, skipEnv, manual>>
vars == <<disk, data, lock, node, pc, local, faults, crashes>>

Required == {"0001", "0003"}
Advisory == {"0002"}

\* all_migrations(): sorted by id.  None of them sets stop_on_failure.
AllMigrations == <<"0001", "0002", "0003">>
Ids == {"0001", "0002", "0003"}

\* Flags of the command line; the container's command passes none.
Options == [only: Ids \cup {"all"}, dryRun: BOOLEAN, failFast: BOOLEAN]
NoFlags == [only |-> "all", dryRun |-> FALSE, failFast |-> FALSE]

Current(p) == IF at[p] \in 1..3 THEN AllMigrations[at[p]] ELSE "none"
Scanned(m) == IF m = "0001" THEN Scan1 ELSE IF m = "0003" THEN Scan3 ELSE {}
Fault(f) == f \in Faults /\ faults < MaxFaults /\ faults' = faults + 1
NoFault == UNCHANGED faults

Goto(p, l) == pc' = [pc EXCEPT ![p] = l]

\* The node as earlier runs left it: what is recorded, by a sentinel or in the
\* ledger, was copied.  The ledger file may have been damaged since.
Init ==
  /\ old \in SUBSET Volumes
  /\ ledger \in SUBSET Required /\ sentinel \in BOOLEAN
  /\ damage \in {"none", "garbled", "fatal"} /\ lost = {}
  /\ target = [v \in Volumes |->
                 IF /\ v \in old
                    /\ \/ v \in Scan1 /\ (sentinel \/ "0001" \in ledger)
                       \/ v \in Scan3 /\ "0003" \in ledger
                 THEN "full" ELSE "absent"]
  /\ strays \in SUBSET Files
  /\ lock = NoProc /\ serving = FALSE /\ skipEnv \in BOOLEAN
  /\ pc = [p \in Procs |-> "idle"]
  /\ opts = [p \in Procs |-> NoFlags]
  /\ view = [p \in Procs |-> {}]
  /\ at = [p \in Procs |-> 1]
  /\ todo = [p \in Procs |-> {}]
  /\ item = [p \in Procs |-> NoVolume]
  /\ errs = [p \in Procs |-> FALSE]
  /\ failed = [p \in Procs |-> FALSE]
  /\ torn = {} /\ faults = 0 /\ crashes = 0 /\ manual = 0

-----------------------------------------------------------------------------
(* apply_pending: the batch.                                               *)

\* The container starts, or an operator types the command.  With the skip
\* variable set the batch is empty and the command exits with 0.
Launch(p) ==
  /\ pc[p] = "idle"
  /\ IF p = Boot
     THEN ~serving /\ opts' = [opts EXCEPT ![p] = NoFlags] /\ UNCHANGED manual
     ELSE /\ manual < MaxManual /\ manual' = manual + 1
          /\ \E o \in Options : opts' = [opts EXCEPT ![p] = o]
  /\ Goto(p, IF skipEnv /\ p = Boot THEN "exit" ELSE "lock")
  /\ UNCHANGED <<disk, data, lock, serving, skipEnv, view, at, todo, item,
                 errs, failed, faults, crashes>>

\* _runner_lock: blocks until the flock is free.
TakeLock(p) ==
  /\ pc[p] = "lock" /\ lock = NoProc
  /\ lock' = p
  /\ Goto(p, "load")
  /\ UNCHANGED <<disk, data, node, local, faults, crashes>>

\* apply_pending is left: its flock is released and its variables are gone.
Returns(p) ==
  /\ lock' = NoProc
  /\ Goto(p, "exit")
  /\ opts' = [opts EXCEPT ![p] = NoFlags]
  /\ view' = [view EXCEPT ![p] = {}]
  /\ at' = [at EXCEPT ![p] = 1]
  /\ todo' = [todo EXCEPT ![p] = {}]
  /\ item' = [item EXCEPT ![p] = NoVolume]
  /\ errs' = [errs EXCEPT ![p] = FALSE]
  /\ UNCHANGED <<disk, data, node, crashes>>

\* An exception leaves it, and the command exits with an error.
Raises(p) == Returns(p) /\ failed' = [failed EXCEPT ![p] = TRUE]

\* Ledger.load.  A file that cannot be parsed, or that one read of which fails,
\* is an empty view; the file stays as it is until the batch records something.
LoadLedger(p) ==
  /\ pc[p] = "load"
  /\ \/ damage = "fatal" /\ NoFault /\ Raises(p)
     \/ \E seen \in {ledger, {}} :
          /\ damage # "fatal" /\ (damage = "garbled" => seen = {})
          /\ IF damage = "none" /\ seen # ledger THEN Fault("disk") ELSE NoFault
          /\ view' = [view EXCEPT ![p] = seen]
          /\ at' = [at EXCEPT ![p] = 1]
          /\ Goto(p, IF ~sentinel THEN "next"
                     ELSE IF "0001" \in seen THEN "unlink" ELSE "seed")
          /\ UNCHANGED <<disk, data, lock, node, opts, todo, item, errs, failed,
                         crashes>>

\* _atomic_write of the in-memory ledger: the file is replaced as a whole.
Records(p, ids) ==
  /\ view' = [view EXCEPT ![p] = ids]
  /\ ledger' = ids
  /\ lost' = (ledger \cup lost) \ ids
  /\ damage' = "none"

\* Mutant: the sentinel goes before the entry is written.
SeedLedgerLate(p) ==
  \/ /\ pc[p] = "seed" /\ sentinel
     /\ sentinel' = FALSE
     /\ UNCHANGED <<ledger, damage, lost, pc, data, lock, node, local, faults,
                    crashes>>
  \/ /\ pc[p] = "seed" /\ ~sentinel
     /\ Records(p, view[p] \cup {"0001"})
     /\ Goto(p, "unlink") /\ NoFault
     /\ UNCHANGED <<sentinel, data, lock, node, opts, at, todo, item, errs,
                    failed, crashes>>

\* The legacy sentinel shim: persist the entry, then unlink the file.
SeedLedger(p) ==
  /\ pc[p] = "seed"
  /\ \/ /\ Records(p, view[p] \cup {"0001"})
        /\ Goto(p, "unlink") /\ NoFault
        /\ UNCHANGED <<sentinel, data, lock, node, opts, at, todo, item, errs,
                       failed, crashes>>
     \/ Fault("disk") /\ Raises(p)

UnlinkSentinel(p) ==
  /\ pc[p] = "unlink"
  /\ \/ sentinel' = FALSE /\ NoFault
     \/ UNCHANGED sentinel /\ Fault("disk")
  /\ Goto(p, "next")
  /\ UNCHANGED <<ledger, damage, lost, data, lock, node, local, crashes>>

IsSkipped(p) ==
  \/ opts[p].only \notin {"all", Current(p)}
  \/ Current(p) \in view[p] /\ Current(p) \notin Advisory
  \/ opts[p].dryRun

SkipMigration(p) ==
  /\ pc[p] = "next" /\ at[p] <= 3 /\ IsSkipped(p)
  /\ at' = [at EXCEPT ![p] = @ + 1]
  /\ UNCHANGED <<disk, data, lock, node, pc, opts, view, todo, item, errs,
                 failed, faults, crashes>>

\* run() lists the compose files or the staged keys.  A compose file that
\* cannot be read or parsed is skipped with a warning, and is no error.
BeginMigration(p) ==
  LET m == Current(p) IN
  /\ pc[p] = "next" /\ at[p] <= 3 /\ ~IsSkipped(p)
  /\ \E unread \in SUBSET Scanned(m) :
       /\ IF unread # {} THEN Fault("disk") ELSE NoFault
       /\ todo' = [todo EXCEPT ![p] = IF m \in Advisory THEN strays
                                      ELSE Scanned(m) \ unread]
       /\ torn' = torn \cup {v \in unread \cap old : target[v] # "full"}
  /\ errs' = [errs EXCEPT ![p] = FALSE]
  /\ Goto(p, "run")
  /\ UNCHANGED <<disk, old, target, strays, lock, node, opts, view, at, item,
                 failed, crashes>>

-----------------------------------------------------------------------------
(* run() of 0001 and 0003.                                                 *)

ItemDone(p) ==
  /\ todo' = [todo EXCEPT ![p] = @ \ {item[p]}]
  /\ item' = [item EXCEPT ![p] = NoVolume]
ItemFails(p) == errs' = [errs EXCEPT ![p] = TRUE] /\ ItemDone(p)

\* One volume: nothing to copy, or a target that is there already, is skipped.
\* `docker volume inspect` that fails for any reason reads as "absent".
ExamineVolume(p, v) ==
  /\ pc[p] = "run" /\ Current(p) \in Required /\ v \in todo[p]
  /\ \E hasOld, hasTarget \in BOOLEAN :
       /\ hasOld => v \in old
       /\ hasTarget => target[v] # "absent"
       /\ LET misread == hasOld # (v \in old)
                         \/ (hasOld /\ hasTarget # (target[v] # "absent"))
          IN
          /\ IF misread THEN Fault("docker") ELSE NoFault
          /\ torn' = IF misread /\ target[v] # "full" THEN torn \cup {v} ELSE torn
       /\ IF hasOld /\ ~hasTarget
          THEN /\ item' = [item EXCEPT ![p] = v]
               /\ Goto(p, "create")
               /\ UNCHANGED todo
          ELSE /\ todo' = [todo EXCEPT ![p] = @ \ {v}]
               /\ UNCHANGED <<item, pc>>
  /\ UNCHANGED <<disk, old, target, strays, lock, node, opts, view, at, errs,
                 failed, crashes>>

CreateVolume(p) ==
  /\ pc[p] = "create"
  /\ \/ /\ target' = [target EXCEPT ![item[p]] =
                        IF @ = "absent" THEN "partial" ELSE @]
        /\ Goto(p, "copy") /\ NoFault
        /\ UNCHANGED <<todo, item, errs>>
     \/ /\ Fault("docker") /\ ItemFails(p)
        /\ Goto(p, "run")
        /\ UNCHANGED target
  /\ UNCHANGED <<disk, old, strays, torn, lock, node, opts, view, at, failed,
                 crashes>>

\* _copy_volume: `cp -a` in a short-lived container.  The old volume stays.
CopyVolume(p) ==
  /\ pc[p] = "copy"
  /\ \/ /\ target' = [target EXCEPT ![item[p]] = "full"]
        /\ torn' = torn \ {item[p]}
        /\ ItemDone(p) /\ NoFault
        /\ UNCHANGED errs
     \/ /\ Fault("docker") /\ ItemFails(p)
        /\ torn' = torn \cup {item[p]}
        /\ UNCHANGED target
  /\ Goto(p, "run")
  /\ UNCHANGED <<disk, old, strays, lock, node, opts, view, at, failed, crashes>>

-----------------------------------------------------------------------------
(* run() of 0002, and what any run() may do.                               *)

\* A staged key file: removed, or it cannot be inspected or unlinked.
PurgeFile(p, f) ==
  /\ pc[p] = "run" /\ Current(p) \in Advisory /\ f \in todo[p]
  /\ todo' = [todo EXCEPT ![p] = @ \ {f}]
  /\ \/ strays' = strays \ {f} /\ UNCHANGED errs
     \/ /\ "purge" \in Faults /\ errs' = [errs EXCEPT ![p] = TRUE]
        /\ UNCHANGED strays
  /\ UNCHANGED <<disk, old, target, torn, lock, node, pc, opts, view, at,
                 item, failed, faults, crashes>>

\* run() raises, returns something that is no summary, or 0002 cannot list.
RunRaises(p) ==
  /\ pc[p] = "run" /\ Fault("docker")
  /\ todo' = [todo EXCEPT ![p] = {}]
  /\ errs' = [errs EXCEPT ![p] = TRUE]
  /\ UNCHANGED <<disk, data, lock, node, pc, opts, view, at, item, failed,
                 crashes>>

\* Mutant: an advisory failure is reported as it is.
EndOfRunStrict(p) ==
  /\ pc[p] = "run" /\ todo[p] = {} /\ (errs[p] \/ Current(p) \in Advisory)
  /\ failed' = [failed EXCEPT ![p] = @ \/ errs[p]]
  /\ IF errs[p] /\ opts[p].failFast
     THEN Goto(p, "finish") /\ UNCHANGED at
     ELSE Goto(p, "next") /\ at' = [at EXCEPT ![p] = @ + 1]
  /\ errs' = [errs EXCEPT ![p] = FALSE]
  /\ UNCHANGED <<disk, data, lock, node, opts, view, todo, item, faults, crashes>>

\* A failed run is not recorded, an advisory one never.  The failure of an
\* advisory migration is downgraded unless the batch halts on it.
EndOfRun(p) ==
  /\ pc[p] = "run" /\ todo[p] = {} /\ (errs[p] \/ Current(p) \in Advisory)
  /\ LET halting == errs[p] /\ opts[p].failFast
         downgraded == Current(p) \in Advisory /\ ~halting
     IN
     /\ failed' = [failed EXCEPT ![p] = @ \/ (errs[p] /\ ~downgraded)]
     /\ IF halting
        THEN Goto(p, "finish") /\ UNCHANGED at
        ELSE Goto(p, "next") /\ at' = [at EXCEPT ![p] = @ + 1]
  /\ errs' = [errs EXCEPT ![p] = FALSE]
  /\ UNCHANGED <<disk, data, lock, node, opts, view, todo, item, faults, crashes>>

\* Mutant: the error count of the summary is not looked at.
MarkAppliedAnyway(p) ==
  /\ pc[p] = "run" /\ todo[p] = {} /\ Current(p) \in Required
  /\ Records(p, view[p] \cup {Current(p)})
  /\ Goto(p, "next") /\ at' = [at EXCEPT ![p] = @ + 1] /\ NoFault
  /\ UNCHANGED <<sentinel, data, lock, node, opts, todo, item, errs, failed,
                 crashes>>

\* ledger.mark_applied, the last step; a write error leaves apply_pending.
MarkApplied(p) ==
  /\ pc[p] = "run" /\ todo[p] = {} /\ ~errs[p] /\ Current(p) \in Required
  /\ \/ /\ Records(p, view[p] \cup {Current(p)})
        /\ Goto(p, "next") /\ at' = [at EXCEPT ![p] = @ + 1] /\ NoFault
        /\ UNCHANGED <<sentinel, data, lock, node, opts, todo, item, errs,
                       failed, crashes>>
     \/ Fault("disk") /\ Raises(p)

FinishBatch(p) ==
  /\ pc[p] = "finish" \/ (pc[p] = "next" /\ at[p] > 3)
  /\ Returns(p)
  /\ UNCHANGED <<failed, faults>>

-----------------------------------------------------------------------------
(* The container.                                                          *)

\* The process is gone, and its memory with it.
Gone(p) ==
  /\ Goto(p, "idle")
  /\ opts' = [opts EXCEPT ![p] = NoFlags]
  /\ view' = [view EXCEPT ![p] = {}]
  /\ at' = [at EXCEPT ![p] = 1]
  /\ todo' = [todo EXCEPT ![p] = {}]
  /\ item' = [item EXCEPT ![p] = NoVolume]
  /\ errs' = [errs EXCEPT ![p] = FALSE]
  /\ failed' = [failed EXCEPT ![p] = FALSE]

\* Mutant: `;` in place of `&&`.
ExitAlways(p) ==
  /\ pc[p] = "exit"
  /\ serving' = (serving \/ p = Boot)
  /\ Gone(p)
  /\ UNCHANGED <<disk, data, lock, skipEnv, manual, faults, crashes>>

\* `apply_ops_migrations && exec uvicorn`: exit code 0 serves, another one
\* ends the container and the restart policy launches the command again.
Exit(p) ==
  /\ pc[p] = "exit"
  /\ serving' = (serving \/ (p = Boot /\ ~failed[p]))
  /\ Gone(p)
  /\ UNCHANGED <<disk, data, lock, skipEnv, manual, faults, crashes>>

\* A process is killed; the kernel drops its flock.
Crash(p) ==
  /\ crashes < MaxCrashes
  /\ pc[p] # "idle" \/ (p = Boot /\ serving)
  /\ crashes' = crashes + 1
  /\ serving' = (serving /\ p # Boot)
  /\ lock' = IF lock = p THEN NoProc ELSE lock
  /\ torn' = IF pc[p] = "copy" THEN torn \cup {item[p]} ELSE torn
  /\ Gone(p)
  /\ UNCHANGED <<disk, old, target, strays, skipEnv, manual, faults>>

\* While the node serves, a start of the instance creates the namespaced
\* volume, empty, if it is not there.
InstanceStarts(v) ==
  /\ serving /\ target[v] = "absent"
  /\ target' = [target EXCEPT ![v] = "partial"]
  /\ torn' = torn \cup {v}
  /\ UNCHANGED <<disk, old, strays, lock, node, pc, local, faults, crashes>>

\* Staged files appear after a purge: a restored data root, a late mount.
StrayAppears(f) ==
  /\ serving /\ f \notin strays
  /\ strays' = strays \cup {f}
  /\ UNCHANGED <<disk, old, target, torn, lock, node, pc, local, faults,
                 crashes>>

Step(p) ==
  \/ Launch(p) \/ TakeLock(p) \/ LoadLedger(p) \/ SeedLedger(p)
  \/ UnlinkSentinel(p) \/ SkipMigration(p) \/ BeginMigration(p)
  \/ \E v \in Volumes : ExamineVolume(p, v)
  \/ CreateVolume(p) \/ CopyVolume(p)
  \/ \E f \in Files : PurgeFile(p, f)
  \/ RunRaises(p) \/ EndOfRun(p) \/ MarkApplied(p) \/ FinishBatch(p) \/ Exit(p)

Next ==
  \/ \E p \in Procs : Step(p) \/ Crash(p)
  \/ \E v \in Volumes : InstanceStarts(v)
  \/ \E f \in Files : StrayAppears(f)

Spec == Init /\ [][Next]_vars

\* Every process runs on, and the restart policy relaunches the container.
FairSpec == Spec /\ \A p \in Procs : WF_vars(Step(p))

-----------------------------------------------------------------------------
(* Properties.                                                             *)

Labels == {"idle", "lock", "load", "seed", "unlink", "next", "run", "create",
           "copy", "finish", "exit"}

\* Types of the variables.
TypeOK ==
  /\ ledger \subseteq Ids /\ lost \subseteq Ids /\ sentinel \in BOOLEAN
  /\ damage \in {"none", "garbled", "fatal"}
  /\ old \subseteq Volumes /\ strays \subseteq Files /\ torn \subseteq Volumes
  /\ target \in [Volumes -> {"absent", "partial", "full"}]
  /\ lock \in Procs \cup {NoProc}
  /\ serving \in BOOLEAN /\ skipEnv \in BOOLEAN
  /\ pc \in [Procs -> Labels] /\ opts \in [Procs -> Options]
  /\ view \in [Procs -> SUBSET Ids] /\ at \in [Procs -> 1..4]
  /\ todo \in [Procs -> SUBSET (Volumes \cup Files)]
  /\ item \in [Procs -> Volumes \cup {NoVolume}]
  /\ errs \in [Procs -> BOOLEAN] /\ failed \in [Procs -> BOOLEAN]
  /\ faults \in Nat /\ crashes \in Nat /\ manual \in Nat

\* A recorded migration has copied every raw-named volume of its compose files
\* in full, except the volumes of which one of these happened, and which no
\* later run completed: the compose file was not read, `docker volume inspect`
\* failed, the copy was cut short by a failure or a crash, or a start of the
\* instance made the target first.  For these a retry records the migration
\* over a target that is not a copy, which rule 1 of base.py does not allow.
\* Every other item error or crash is made good before the entry is written.
CopiedUnlessTorn ==
  /\ "0001" \in ledger => \A v \in (old \cap Scan1) \ torn : target[v] = "full"
  /\ "0003" \in ledger => \A v \in (old \cap Scan3) \ torn : target[v] = "full"

\* "Persist before unlinking so we never lose the bit": whatever fails or
\* crashes, the sentinel of 0001 goes only when the ledger has its entry.
SentinelNeverLost == [][sentinel /\ ~sentinel' => "0001" \in ledger]_vars

\* Cleanup never bricks the node: under bounded docker and disk faults, and a
\* purge that may fail at every boot, the node serves again and again, unless
\* load raises on the damaged ledger of every boot.
ServesAgain == []<>(serving \/ damage = "fatal")

\* The migration that a batch is working on, if a required one.
Working ==
  IF lock \in Procs /\ pc[lock] \in {"run", "create", "copy"}
     /\ Current(lock) \in Required
  THEN Current(lock) ELSE "none"

\* The batch at work has not read what the file records.
Blind == lock \in Procs /\ pc[lock] # "load" /\ view[lock] # ledger

\* What the runner promises: see MigrationContract.
Contract == INSTANCE MigrationContract
  WITH done <- ledger, running <- Working, serving <- serving, waived <- skipEnv,
       blind <- Blind, lost <- lost

\* The batches of several processes implement the contract: required
\* migrations run one at a time, and the node serves only when each has been
\* recorded.  A recorded migration runs again, and its entry is lost, only by
\* the first record of a batch whose read of the ledger failed.
RunnerContract == Contract!Spec
=============================================================================
