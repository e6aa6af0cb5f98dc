------------------------- MODULE InstanceOpsProofs -------------------------
(***************************************************************************)
(* Theorems about InstanceOps, for any number of threads, restore ids,     *)
(* compose children and crashes, and any set of faults.                    *)
(***************************************************************************)
EXTENDS InstanceOps, TLAPS

\* Where a job still owes the first call of its one-shot release.
JobPcs == {"spawn", "bk_status", "bk_check", "bk_mark", "bk_stop", "bk_wait",
           "bk_snap", "bk_hot", "bk_restart", "bk_unmark", "rs_status",
           "rs_stop", "rs_wait", "rs_safety", "rs_point", "rs_pointing",
           "rs_guard", "rs_overwriting", "rs_db", "rs_dbload", "rs_full", "rs_finally",
           "rs_reup", "rs_down", "rs_downwait", "rs_save", "rs_saving",
           "rs_reserve", "release"}

RestorePcs == {"rs_status", "rs_stop", "rs_wait", "rs_safety", "rs_point",
               "rs_pointing", "rs_guard", "rs_overwriting", "rs_db", "rs_dbload", "rs_full",
               "rs_finally", "rs_reup", "rs_down", "rs_downwait", "rs_save",
               "rs_saving", "rs_reserve", "rs_unlink"}

\* The lock belongs to the thread that works on the instance, and the
\* one-shot flag is up exactly in a job that has not called it yet.
LockInv ==
  \A t \in Threads :
    /\ Critical(t) => lock = t
    /\ lock = t => Critical(t) \/ held[t]
    /\ held[t] => lock = t
    /\ pc[t] \in JobPcs => held[t]
    /\ held[t] => pc[t] \in JobPcs \cup {"locked_final"}

\* A renewal keeps the lock for as long as it exists.
RenewInv ==
  \A t \in Threads :
    job[t].op = "renew" => pc[t] \in {"rn_gate", "rn_install", "fin"}

\* The count is the live tracked children and the waiters not yet back.
CountInv == inflight = kids["up"] + kids["stop"] + exited

\* A thread at a restore step is a restore and has an issued id.
RestoreInv ==
  \A t \in Threads :
    /\ pc[t] = "spawn" => job[t].op \in JobOps
    /\ pc[t] \in RestorePcs => job[t].op \in RestoreOps
    /\ job[t].op \in RestoreOps => job[t].rid \in used

\* No two threads restore under one id, and none runs before the boot is over.
RidInv ==
  /\ \A t, u \in Threads :
       t # u /\ job[t].rid = job[u].rid => job[t].rid = NoRestore
  /\ \A t \in Threads : job[t].rid # NoRestore => job[t].rid \in used
  /\ phase # "serving" => \A t \in Threads : pc[t] = "idle"

\* Where a restore has changed nothing yet.
PrePcs == {"spawn", "rs_status", "rs_stop", "rs_wait", "rs_safety", "rs_point",
           "rs_pointing"}

\* From the write of the rollback pointer to the last change of the volumes
\* the file reads back, or the disk has refused it; it is only unlinked once
\* acknowledged.
PointerInv ==
  /\ overwrote \subseteq used
  /\ \A r \in Restores \ used : pointer[r] = "none"
  /\ \A t \in Threads :
       /\ pc[t] \in PrePcs => job[t].rid \notin overwrote
       /\ pc[t] \in PrePcs \ {"rs_pointing"} /\ job[t].rid \in Restores
            => pointer[job[t].rid] = "none"
       /\ pc[t] \in {"rs_guard", "rs_overwriting", "rs_db", "rs_dbload"}
            => Readable(pointer[job[t].rid]) \/ job[t].rid \in cut
       /\ pc[t] = "rs_unlink" => job[t].rid \in acked

\* The three pairs that are proved together.
RenewalInv == RenewInv /\ HandoffKeepsRenewalOut
GateInv == CountInv /\ RenewalStandsOff
DurableInv == PointerInv /\ SafetyPointerSurvives

\* The inductive invariant of the process: no fault is excluded.
BaseInv == TypeOK /\ LockInv /\ RenewalInv /\ GateInv /\ RestoreInv


\* A step keeps what a job is, whatever it does to its other locals.
JobKept ==
  /\ job' \in [Threads -> Jobs]
  /\ \A u \in Threads : job'[u].op = job[u].op /\ job'[u].rid = job[u].rid

\* What an operation is admitted with.
LEMMA AdmittedIs ==
  ASSUME TypeOK, NEW o \in AllOps
  PROVE  /\ Admitted(o) \in Jobs
         /\ Admitted(o).op = o /\ Admitted(o).rid = NoRestore
         /\ ~Admitted(o).db
         /\ Admitted(o).raced = UpAtWork
         /\ \A r \in Restores :
              LET j == [Admitted(o) EXCEPT !.rid = r]
              IN  j \in Jobs /\ j.op = o /\ j.rid = r /\ ~j.db
                  /\ j.raced = UpAtWork
<1> DEFINE w == UpAtWork
<1>1. w \in BOOLEAN BY DEF UpAtWork
<1>2. Admitted(o) = [IdleJob EXCEPT !.op = o, !.raced = w]
  BY DEF Admitted
<1> HIDE DEF w
<1>3. /\ Admitted(o) \in Jobs
      /\ Admitted(o).op = o /\ Admitted(o).rid = NoRestore
      /\ ~Admitted(o).db
      /\ Admitted(o).raced = w
  BY <1>1, <1>2 DEF IdleJob, Jobs
<1>4. ASSUME NEW r \in Restores
      PROVE  LET j == [Admitted(o) EXCEPT !.rid = r]
             IN  j \in Jobs /\ j.op = o /\ j.rid = r /\ ~j.db /\ j.raced = w
  BY <1>3 DEF Jobs
<1> QED BY <1>3, <1>4 DEF w

LEMMA OneJobSet ==
  ASSUME TypeOK, NEW t \in Threads, NEW j \in Jobs, j.op = job[t].op,
         j.rid = job[t].rid, job' = [job EXCEPT ![t] = j]
  PROVE  JobKept
BY DEF TypeOK, JobKept

\* Every assignment to a local keeps the operation and the restore id.
LEMMA AssignmentsKeep ==
  ASSUME TypeOK, NEW t \in Threads, NEW b \in BOOLEAN,
         NEW s \in {"running", "stopped", "unknow"},
         \/ Saw(t, s) \/ HasStopped(t) \/ EntersOverwrite(t) \/ DbStarted(t)
         \/ Outcome(t, b) \/ GivesUp(t) \/ job' = job
  PROVE  JobKept
<1>a. job[t] \in Jobs /\ job \in [Threads -> Jobs] BY DEF TypeOK
<1>b. ASSUME NEW j, job' = [job EXCEPT ![t] = j],
             \/ j = [job[t] EXCEPT !.seen = s]
             \/ j = [job[t] EXCEPT !.stopped = TRUE]
             \/ j = [job[t] EXCEPT !.over = TRUE]
             \/ j = [job[t] EXCEPT !.db = TRUE]
             \/ j = [job[t] EXCEPT !.ok = b]
             \/ j = [job[t] EXCEPT !.late = TRUE]
      PROVE  JobKept
  <2>1. j \in Jobs /\ j.op = job[t].op /\ j.rid = job[t].rid
    BY <1>a, <1>b DEF Jobs
  <2> QED BY <1>b, <2>1, OneJobSet
<1>1. CASE Saw(t, s) BY <1>1, <1>b DEF Saw
<1>2. CASE HasStopped(t) BY <1>2, <1>b DEF HasStopped
<1>3. CASE EntersOverwrite(t) BY <1>3, <1>b DEF EntersOverwrite
<1>4. CASE DbStarted(t) BY <1>4, <1>b DEF DbStarted
<1>5. CASE Outcome(t, b) BY <1>5, <1>b DEF Outcome
<1>6. CASE GivesUp(t) BY <1>6, <1>b DEF GivesUp
<1>7. CASE job' = job BY <1>7, <1>a DEF JobKept
<1> QED BY <1>1, <1>2, <1>3, <1>4, <1>5, <1>6, <1>7

\* So does every step of backup_instance and restore_instance.
LEMMA LocalsKept ==
  ASSUME TypeOK, NEW t \in Threads, BackupStep(t) \/ RestoreStep(t)
  PROVE  JobKept
<1>1. CASE BackupStep(t)
    BY <1>1, AssignmentsKeep
    DEF BackupStep, BackupReadsStatus, BackupChecksMissing, BackupRaises,
        BackupMarks, BackupStops, BackupQuiesced, BackupStopTimeout,
        BackupSnapshots, BackupRestarts, BackupUnmarks, Status
<1>2. CASE RestoreStep(t)
    BY <1>2, AssignmentsKeep
    DEF RestoreStep, RestoreReadsStatus, RestoreStops, RestoreQuiesced,
        RestoreStopTimeout, RestoreTakesSafety, RestoreOpensPointer,
      RestoreWritesPointer, 
        RestoreRefusesVolumes, RestoreBeginsOverwrite, RestoreSkipsData,
        RestoreEndsOverwrite, RestoreStartsDb, RestoreLoadsDb,
        RestoreStartsAll, RestoreFinally, RestoreRestarts, RestoreTearsDown,
        RestoreTornDown, RestoreTeardownTimeout, RestoreOpensOutcome,
      RestoreSavesOutcome,
        RestoreReserves, Status
<1> QED BY <1>1, <1>2

\* Types are kept: the counters by CountInv, the restore ids by RestoreInv.
LEMMA TypeStep ==
  ASSUME TypeOK, CountInv, RestoreInv, [Next]_vars
  PROVE  TypeOK'
<1> USE ConstantsAssumption DEF memory, threads, host, ledger, Goto,
  OpenState, WriteState, TypeOK,
  CountInv, RestoreInv, ReleaseOnce, SpawnTracked, SpawnStray, UpReturns,
  Status, Jobs, IdleJob, Pcs, NoKids, ChildKinds, RestorePcs, RestoreOps,
  Fault, BackupOps, ControlOps, AllOps, JobOps
<1>1. ASSUME NEW t \in Threads, ControlStep(t) PROVE TypeOK'
  <2>1. CASE ClearHandoff(t) BY <2>1 DEF ClearHandoff
  <2>2. CASE HandlerRefuses(t) BY <2>2 DEF HandlerRefuses
  <2>3. CASE StartGreffon(t) BY <2>3 DEF StartGreffon
  <2>4. CASE StopGreffon(t) BY <2>4 DEF StopGreffon
  <2>5. CASE DecommissionGreffon(t) BY <2>5 DEF DecommissionGreffon
  <2>6. CASE DecommissionFails(t)
    <3>1. containers' \in {"absent", "stopped", "mixed", "running"}
      BY <2>6 DEF DecommissionFails
    <3>2. CASE UNCHANGED <<marker, pointer, overwrote>>
      BY <2>6, <3>1, <3>2 DEF DecommissionFails
    <3>3. CASE /\ marker' = FALSE
               /\ pointer' = [r \in Restores |-> "none"]
               /\ overwrote' = {}
      BY <2>6, <3>1, <3>3 DEF DecommissionFails
    <3> QED BY <2>6, <3>2, <3>3 DEF DecommissionFails
  <2>7. CASE HandlerReturns(t) BY <2>7 DEF HandlerReturns
  <2> QED BY <1>1, <2>1, <2>2, <2>3, <2>4, <2>5, <2>6, <2>7 DEF ControlStep
<1>2. ASSUME NEW t \in Threads, RenewalStep(t) PROVE TypeOK'
  <2>1. CASE RenewalSkips(t) BY <2>1 DEF RenewalSkips
  <2>2. CASE RenewalInstalls(t) BY <2>2 DEF RenewalInstalls
  <2>3. CASE RenewalDone(t) BY <2>3 DEF RenewalDone
  <2> QED BY <1>2, <2>1, <2>2, <2>3 DEF RenewalStep
<1>3. ASSUME NEW t \in Threads, JobStep(t) PROVE TypeOK'
  <2>1. CASE ThreadStarts(t) BY <2>1 DEF ThreadStarts
  <2>2. CASE ThreadFails(t) BY <2>2 DEF ThreadFails
  <2>3. CASE ReleaseEarly(t) BY <2>3 DEF ReleaseEarly, IdleJob
  <2>4. CASE CallbackLost(t) BY <2>4 DEF CallbackLost
  <2>5. CASE CallbackAcked(t) BY <2>5 DEF CallbackAcked
  <2>6. CASE UnlinkState(t) BY <2>6 DEF UnlinkState
  <2>7. CASE LockedJobReturns(t) BY <2>7 DEF LockedJobReturns
  <2> QED BY <1>3, <2>1, <2>2, <2>3, <2>4, <2>5, <2>6, <2>7 DEF JobStep
<1>4. ASSUME NEW t \in Threads, BackupStep(t) PROVE TypeOK'
  <2>a. JobKept BY <1>4, LocalsKept
  <2>1. CASE BackupReadsStatus(t) BY <2>1, <2>a DEF BackupReadsStatus, JobKept
  <2>2. CASE BackupChecksMissing(t)
    BY <2>2, <2>a DEF BackupChecksMissing, JobKept
  <2>3. CASE BackupRaises(t) BY <2>3, <2>a DEF BackupRaises, JobKept
  <2>4. CASE BackupMarks(t) BY <2>4, <2>a DEF BackupMarks, JobKept
  <2>5. CASE BackupStops(t)
    <3>1. job' \in [Threads -> Jobs] BY <2>a DEF JobKept
    <3>2. pc' \in [Threads -> Pcs] BY <2>5 DEF BackupStops
    <3> QED BY <2>5, <3>1, <3>2 DEF BackupStops
  <2>6. CASE BackupQuiesced(t) BY <2>6, <2>a DEF BackupQuiesced, JobKept
  <2>7. CASE BackupStopTimeout(t) BY <2>7, <2>a DEF BackupStopTimeout, JobKept
  <2>8. CASE BackupSnapshots(t) BY <2>8, <2>a DEF BackupSnapshots, JobKept
  <2>9. CASE BackupRestarts(t) BY <2>9, <2>a DEF BackupRestarts, JobKept
  <2>10. CASE BackupUnmarks(t) BY <2>10, <2>a DEF BackupUnmarks, JobKept
  <2> QED BY <1>4, <2>1, <2>2, <2>3, <2>4, <2>5, <2>6, <2>7, <2>8, <2>9, <2>10
    DEF BackupStep
<1>5. ASSUME NEW t \in Threads, RestoreStep(t) PROVE TypeOK'
  <2>a. JobKept BY <1>5, LocalsKept
  <2>1. CASE RestoreReadsStatus(t)
    BY <2>1, <2>a DEF RestoreReadsStatus, JobKept
  <2>2. CASE RestoreStops(t) BY <2>2, <2>a DEF RestoreStops, JobKept
  <2>3. CASE RestoreQuiesced(t) BY <2>3, <2>a DEF RestoreQuiesced, JobKept
  <2>4. CASE RestoreStopTimeout(t)
    BY <2>4, <2>a DEF RestoreStopTimeout, JobKept
  <2>5. CASE RestoreTakesSafety(t)
    BY <2>5, <2>a DEF RestoreTakesSafety, JobKept
  <2>6. CASE RestoreWritesPointer(t)
    <3>1. job' \in [Threads -> Jobs] BY <2>a DEF JobKept
    <3>2. pc' \in [Threads -> Pcs] BY <2>6 DEF RestoreWritesPointer
    <3> QED BY <2>6, <3>1, <3>2 DEF RestoreWritesPointer
  <2>7. CASE RestoreRefusesVolumes(t)
    BY <2>7, <2>a DEF RestoreRefusesVolumes, JobKept
  <2>8. CASE RestoreBeginsOverwrite(t)
    BY <2>8, <2>a DEF RestoreBeginsOverwrite, JobKept
  <2>9. CASE RestoreSkipsData(t) BY <2>9, <2>a DEF RestoreSkipsData, JobKept
  <2>10. CASE RestoreEndsOverwrite(t)
    BY <2>10, <2>a DEF RestoreEndsOverwrite, JobKept
  <2>11. CASE RestoreStartsDb(t) BY <2>11, <2>a DEF RestoreStartsDb, JobKept
  <2>12. CASE RestoreLoadsDb(t) BY <2>12, <2>a DEF RestoreLoadsDb, JobKept
  <2>13. CASE RestoreStartsAll(t) BY <2>13, <2>a DEF RestoreStartsAll, JobKept
  <2>14. CASE RestoreFinally(t) BY <2>14, <2>a DEF RestoreFinally, JobKept
  <2>15. CASE RestoreRestarts(t) BY <2>15, <2>a DEF RestoreRestarts, JobKept
  <2>16. CASE RestoreTearsDown(t) BY <2>16, <2>a DEF RestoreTearsDown, JobKept
  <2>17. CASE RestoreTornDown(t) BY <2>17, <2>a DEF RestoreTornDown, JobKept
  <2>18. CASE RestoreTeardownTimeout(t)
    BY <2>18, <2>a DEF RestoreTeardownTimeout, JobKept
  <2>19. CASE RestoreSavesOutcome(t)
    BY <2>19, <2>a DEF RestoreSavesOutcome, JobKept
  <2>20. CASE RestoreReserves(t) BY <2>20, <2>a DEF RestoreReserves, JobKept
  <2>21. CASE RestoreOpensPointer(t)
    <3>1. job' \in [Threads -> Jobs] BY <2>a DEF JobKept
    <3>2. pc' \in [Threads -> Pcs] BY <2>21 DEF RestoreOpensPointer
    <3>3. job[t].rid \in Restores BY <2>21 DEF RestoreOpensPointer
    <3>4. pointer' \in [Restores -> {"none", "torn", "overwriting", "failed",
                                     "success"}]
      BY <2>21 DEF RestoreOpensPointer
    <3>5. cut' \subseteq Restores BY <2>21, <3>3 DEF RestoreOpensPointer
    <3> QED BY <2>21, <3>1, <3>2, <3>4, <3>5 DEF RestoreOpensPointer
  <2>22. CASE RestoreOpensOutcome(t)
    BY <2>22, <2>a DEF RestoreOpensOutcome, JobKept
  <2> QED BY <1>5, <2>1, <2>2, <2>3, <2>4, <2>5, <2>6, <2>7, <2>8, <2>9,
    <2>10, <2>11, <2>12, <2>13, <2>14, <2>15, <2>16, <2>17, <2>18, <2>19,
    <2>20, <2>21, <2>22 DEF RestoreStep
<1>6. ASSUME NEW t \in Threads, Admit(t) PROVE TypeOK'
  <2>1. ASSUME NEW o \in AllOps, AcquireControl(t, o) PROVE TypeOK'
    BY <2>1, AdmittedIs DEF AcquireControl, Admissible
  <2>2. ASSUME NEW o \in AllOps, SpawnBackup(t, o) PROVE TypeOK'
    BY <2>2, AdmittedIs DEF SpawnBackup, Admissible
  <2>3. ASSUME NEW o \in AllOps, NEW r \in Restores, SpawnRestore(t, o, r)
        PROVE TypeOK'
    BY <2>3, AdmittedIs DEF SpawnRestore, Admissible
  <2>4. CASE AcquireRenewal(t) BY <2>4 DEF AcquireRenewal, Admissible
  <2>5. CASE RenewalFindsBusy(t) BY <2>5 DEF RenewalFindsBusy
  <2> QED BY <1>6, <2>1, <2>2, <2>3, <2>4, <2>5 DEF Admit
<1>7. ASSUME NEW k \in ChildKinds, ChildWorks(k) \/ ChildExits(k) PROVE
  TypeOK'
    BY <1>7 DEF ChildWorks, ChildExits, Counted, IsUp
<1>8. CASE WaiterReturns BY <1>8 DEF WaiterReturns
<1>9. CASE HandoffLapses BY <1>9 DEF HandoffLapses
<1>10. CASE ContainerDies BY <1>10 DEF ContainerDies
<1>11. CASE Crash
  <2>1. containers' \in {"absent", "stopped", "mixed", "running"}
    BY <1>11 DEF Crash, CutShort
  <2>2. cut' \subseteq Restores BY <1>11 DEF Crash
  <2>3. kids' \in [ChildKinds -> Nat] BY <1>11 DEF Crash
  <2>4. /\ job' \in [Threads -> Jobs] /\ pc' \in [Threads -> Pcs]
        /\ held' \in [Threads -> BOOLEAN]
    BY <1>11 DEF Crash
  <2>5. crashes' \in Nat BY <1>11 DEF Crash
  <2> QED BY <1>11, <2>1, <2>2, <2>3, <2>4, <2>5, Zenon DEF Crash
<1>12. CASE BootRestarts BY <1>12 DEF BootRestarts
<1>13. CASE BootReposts BY <1>13 DEF BootReposts
<1>14. CASE UNCHANGED vars BY <1>14 DEF vars
<1> QED BY <1>1, <1>2, <1>3, <1>4, <1>5, <1>6, <1>7, <1>8, <1>9, <1>10, <1>11,
  <1>12, <1>13, <1>14 DEF Next, ThreadStep, Child, Boot

\* The lock and its one-shot release.  A thread that works on the instance
\* holds the lock, so no other thread's flag or critical step can be true.
LEMMA LockStep ==
  ASSUME TypeOK, LockInv, [Next]_vars
  PROVE  LockInv'
<1> USE ConstantsAssumption DEF memory, threads, host, ledger, Goto,
  OpenState, WriteState, TypeOK,
  LockInv, Critical, JobPcs, ReleaseOnce, SpawnTracked, BackupOps, RestoreOps,
  ControlOps
<1>1. ASSUME NEW t \in Threads, ControlStep(t) PROVE LockInv'
  <2>1. CASE ClearHandoff(t) BY <2>1 DEF ClearHandoff
  <2>2. CASE HandlerRefuses(t) BY <2>2 DEF HandlerRefuses
  <2>3. CASE StartGreffon(t) BY <2>3 DEF StartGreffon
  <2>4. CASE StopGreffon(t) BY <2>4 DEF StopGreffon
  <2>5. CASE DecommissionGreffon(t) BY <2>5 DEF DecommissionGreffon
  <2>6. CASE DecommissionFails(t) BY <2>6 DEF DecommissionFails
  <2>7. CASE HandlerReturns(t) BY <2>7 DEF HandlerReturns
  <2> QED BY <1>1, <2>1, <2>2, <2>3, <2>4, <2>5, <2>6, <2>7 DEF ControlStep
<1>2. ASSUME NEW t \in Threads, RenewalStep(t) PROVE LockInv'
  <2>1. CASE RenewalSkips(t) BY <2>1 DEF RenewalSkips
  <2>2. CASE RenewalInstalls(t) BY <2>2 DEF RenewalInstalls
  <2>3. CASE RenewalDone(t) BY <2>3 DEF RenewalDone
  <2> QED BY <1>2, <2>1, <2>2, <2>3 DEF RenewalStep
<1>3. ASSUME NEW t \in Threads, JobStep(t) PROVE LockInv'
  <2>1. CASE ThreadStarts(t) BY <2>1 DEF ThreadStarts
  <2>2. CASE ThreadFails(t) BY <2>2 DEF ThreadFails
  <2>3. CASE ReleaseEarly(t) BY <2>3 DEF ReleaseEarly, IdleJob
  <2>4. CASE CallbackLost(t) BY <2>4 DEF CallbackLost
  <2>5. CASE CallbackAcked(t) BY <2>5 DEF CallbackAcked
  <2>6. CASE UnlinkState(t) BY <2>6 DEF UnlinkState
  <2>7. CASE LockedJobReturns(t) BY <2>7 DEF LockedJobReturns
  <2> QED BY <1>3, <2>1, <2>2, <2>3, <2>4, <2>5, <2>6, <2>7 DEF JobStep
<1>4. ASSUME NEW t \in Threads, BackupStep(t) PROVE LockInv'
  <2>a. JobKept BY <1>4, LocalsKept
  <2>1. CASE BackupReadsStatus(t) BY <2>1 DEF BackupReadsStatus
  <2>2. CASE BackupChecksMissing(t) BY <2>2 DEF BackupChecksMissing
  <2>3. CASE BackupRaises(t) BY <2>3 DEF BackupRaises
  <2>4. CASE BackupMarks(t) BY <2>4 DEF BackupMarks
  <2>5. CASE BackupStops(t) BY <2>5 DEF BackupStops
  <2>6. CASE BackupQuiesced(t) BY <2>6 DEF BackupQuiesced
  <2>7. CASE BackupStopTimeout(t) BY <2>7 DEF BackupStopTimeout
  <2>8. CASE BackupSnapshots(t) BY <2>8 DEF BackupSnapshots
  <2>9. CASE BackupRestarts(t) BY <2>9 DEF BackupRestarts
  <2>10. CASE BackupUnmarks(t) BY <2>10 DEF BackupUnmarks
  <2> QED BY <1>4, <2>1, <2>2, <2>3, <2>4, <2>5, <2>6, <2>7, <2>8, <2>9, <2>10
    DEF BackupStep
<1>5. ASSUME NEW t \in Threads, RestoreStep(t) PROVE LockInv'
  <2>a. JobKept BY <1>5, LocalsKept
  <2>1. CASE RestoreReadsStatus(t) BY <2>1 DEF RestoreReadsStatus
  <2>2. CASE RestoreStops(t) BY <2>2 DEF RestoreStops
  <2>3. CASE RestoreQuiesced(t) BY <2>3 DEF RestoreQuiesced
  <2>4. CASE RestoreStopTimeout(t) BY <2>4 DEF RestoreStopTimeout
  <2>5. CASE RestoreTakesSafety(t) BY <2>5 DEF RestoreTakesSafety
  <2>6. CASE RestoreWritesPointer(t) BY <2>6 DEF RestoreWritesPointer
  <2>7. CASE RestoreRefusesVolumes(t) BY <2>7 DEF RestoreRefusesVolumes
  <2>8. CASE RestoreBeginsOverwrite(t) BY <2>8 DEF RestoreBeginsOverwrite
  <2>9. CASE RestoreSkipsData(t) BY <2>9 DEF RestoreSkipsData
  <2>10. CASE RestoreEndsOverwrite(t) BY <2>10 DEF RestoreEndsOverwrite
  <2>11. CASE RestoreStartsDb(t) BY <2>11 DEF RestoreStartsDb
  <2>12. CASE RestoreLoadsDb(t) BY <2>12 DEF RestoreLoadsDb
  <2>13. CASE RestoreStartsAll(t) BY <2>13 DEF RestoreStartsAll
  <2>14. CASE RestoreFinally(t) BY <2>14 DEF RestoreFinally
  <2>15. CASE RestoreRestarts(t) BY <2>15 DEF RestoreRestarts
  <2>16. CASE RestoreTearsDown(t) BY <2>16 DEF RestoreTearsDown
  <2>17. CASE RestoreTornDown(t) BY <2>17 DEF RestoreTornDown
  <2>18. CASE RestoreTeardownTimeout(t)
    BY <2>18 DEF RestoreTeardownTimeout, GivesUp
  <2>19. CASE RestoreSavesOutcome(t) BY <2>19 DEF RestoreSavesOutcome
  <2>20. CASE RestoreReserves(t) BY <2>20 DEF RestoreReserves
  <2>21. CASE RestoreOpensPointer(t)
    BY <2>21 DEF RestoreOpensPointer
  <2>22. CASE RestoreOpensOutcome(t)
    BY <2>22 DEF RestoreOpensOutcome
  <2> QED BY <1>5, <2>1, <2>2, <2>3, <2>4, <2>5, <2>6, <2>7, <2>8, <2>9,
    <2>10, <2>11, <2>12, <2>13, <2>14, <2>15, <2>16, <2>17, <2>18, <2>19,
    <2>20, <2>21, <2>22 DEF RestoreStep
<1>6. ASSUME NEW t \in Threads, Admit(t) PROVE LockInv'
  <2>1. ASSUME NEW o \in AllOps, AcquireControl(t, o) PROVE LockInv'
    BY <2>1, AdmittedIs DEF AcquireControl, Admissible
  <2>2. ASSUME NEW o \in AllOps, SpawnBackup(t, o) PROVE LockInv'
    BY <2>2, AdmittedIs DEF SpawnBackup, Admissible
  <2>3. ASSUME NEW o \in AllOps, NEW r \in Restores, SpawnRestore(t, o, r)
        PROVE LockInv'
    BY <2>3, AdmittedIs DEF SpawnRestore, Admissible
  <2>4. CASE AcquireRenewal(t) BY <2>4 DEF AcquireRenewal, Admissible
  <2>5. CASE RenewalFindsBusy(t) BY <2>5 DEF RenewalFindsBusy
  <2> QED BY <1>6, <2>1, <2>2, <2>3, <2>4, <2>5 DEF Admit
<1>7. ASSUME NEW k \in ChildKinds, ChildWorks(k) \/ ChildExits(k) PROVE
  LockInv'
    BY <1>7 DEF ChildWorks, ChildExits, Counted, IsUp
<1>8. CASE WaiterReturns BY <1>8 DEF WaiterReturns
<1>9. CASE HandoffLapses BY <1>9 DEF HandoffLapses
<1>10. CASE ContainerDies BY <1>10 DEF ContainerDies
<1>11. CASE Crash BY <1>11 DEF Crash
<1>12. CASE BootRestarts BY <1>12 DEF BootRestarts
<1>13. CASE BootReposts BY <1>13 DEF BootReposts
<1>14. CASE UNCHANGED vars BY <1>14 DEF vars
<1> QED BY <1>1, <1>2, <1>3, <1>4, <1>5, <1>6, <1>7, <1>8, <1>9, <1>10, <1>11,
  <1>12, <1>13, <1>14 DEF Next, ThreadStep, Child, Boot

\* The reservation.  It is made by a thread that holds the lock, and a
\* renewal exists only while it holds the lock itself.
LEMMA RenewStep ==
  ASSUME TypeOK, LockInv, RenewalInv, [Next]_vars
  PROVE  RenewalInv'
<1> USE ConstantsAssumption DEF memory, threads, host, ledger, Goto,
  OpenState, WriteState, TypeOK,
  Jobs, LockInv, Critical, RenewalInv, RenewInv, HandoffKeepsRenewalOut,
  ReleaseOnce, SpawnTracked, BackupOps, RestoreOps, ControlOps, IdleJob
<1>1. ASSUME NEW t \in Threads, ControlStep(t) PROVE RenewalInv'
  <2>1. CASE ClearHandoff(t) BY <2>1 DEF ClearHandoff
  <2>2. CASE HandlerRefuses(t) BY <2>2 DEF HandlerRefuses
  <2>3. CASE StartGreffon(t) BY <2>3 DEF StartGreffon
  <2>4. CASE StopGreffon(t) BY <2>4 DEF StopGreffon
  <2>5. CASE DecommissionGreffon(t) BY <2>5 DEF DecommissionGreffon
  <2>6. CASE DecommissionFails(t) BY <2>6 DEF DecommissionFails
  <2>7. CASE HandlerReturns(t) BY <2>7 DEF HandlerReturns
  <2> QED BY <1>1, <2>1, <2>2, <2>3, <2>4, <2>5, <2>6, <2>7 DEF ControlStep
<1>2. ASSUME NEW t \in Threads, RenewalStep(t) PROVE RenewalInv'
  BY <1>2
  DEF RenewalStep, RenewalSkips, RenewalInstalls, RenewalDone
<1>3. ASSUME NEW t \in Threads, JobStep(t) PROVE RenewalInv'
  <2>1. CASE ThreadStarts(t) BY <2>1 DEF ThreadStarts
  <2>2. CASE ThreadFails(t) BY <2>2 DEF ThreadFails
  <2>3. CASE ReleaseEarly(t) BY <2>3 DEF ReleaseEarly
  <2>4. CASE CallbackLost(t) BY <2>4 DEF CallbackLost
  <2>5. CASE CallbackAcked(t) BY <2>5 DEF CallbackAcked
  <2>6. CASE UnlinkState(t) BY <2>6 DEF UnlinkState
  <2>7. CASE LockedJobReturns(t) BY <2>7 DEF LockedJobReturns
  <2> QED BY <1>3, <2>1, <2>2, <2>3, <2>4, <2>5, <2>6, <2>7 DEF JobStep
<1>4. ASSUME NEW t \in Threads, BackupStep(t) PROVE RenewalInv'
  <2>1. JobKept BY <1>4, LocalsKept
  <2> QED
    BY <1>4, <2>1
    DEF JobKept, BackupStep, BackupReadsStatus, BackupChecksMissing,
        BackupRaises, BackupMarks, BackupStops, BackupQuiesced,
        BackupStopTimeout, BackupSnapshots, BackupRestarts, BackupUnmarks
<1>5. ASSUME NEW t \in Threads, RestoreStep(t) PROVE RenewalInv'
  <2>a. JobKept BY <1>5, LocalsKept
  <2>1. CASE RestoreReadsStatus(t)
    BY <2>1, <2>a DEF RestoreReadsStatus, JobKept
  <2>2. CASE RestoreStops(t) BY <2>2, <2>a DEF RestoreStops, JobKept
  <2>3. CASE RestoreQuiesced(t) BY <2>3, <2>a DEF RestoreQuiesced, JobKept
  <2>4. CASE RestoreStopTimeout(t)
    BY <2>4, <2>a DEF RestoreStopTimeout, JobKept
  <2>5. CASE RestoreTakesSafety(t)
    BY <2>5, <2>a DEF RestoreTakesSafety, JobKept
  <2>6. CASE RestoreWritesPointer(t)
    BY <2>6, <2>a DEF RestoreWritesPointer, JobKept
  <2>7. CASE RestoreRefusesVolumes(t)
    BY <2>7, <2>a DEF RestoreRefusesVolumes, JobKept
  <2>8. CASE RestoreBeginsOverwrite(t)
    BY <2>8, <2>a DEF RestoreBeginsOverwrite, JobKept
  <2>9. CASE RestoreSkipsData(t) BY <2>9, <2>a DEF RestoreSkipsData, JobKept
  <2>10. CASE RestoreEndsOverwrite(t)
    BY <2>10, <2>a DEF RestoreEndsOverwrite, JobKept
  <2>11. CASE RestoreStartsDb(t) BY <2>11, <2>a DEF RestoreStartsDb, JobKept
  <2>12. CASE RestoreLoadsDb(t) BY <2>12, <2>a DEF RestoreLoadsDb, JobKept
  <2>13. CASE RestoreStartsAll(t) BY <2>13, <2>a DEF RestoreStartsAll, JobKept
  <2>14. CASE RestoreFinally(t) BY <2>14, <2>a DEF RestoreFinally, JobKept
  <2>15. CASE RestoreRestarts(t) BY <2>15, <2>a DEF RestoreRestarts, JobKept
  <2>16. CASE RestoreTearsDown(t) BY <2>16, <2>a DEF RestoreTearsDown, JobKept
  <2>17. CASE RestoreTornDown(t) BY <2>17, <2>a DEF RestoreTornDown, JobKept
  <2>18. CASE RestoreTeardownTimeout(t)
    BY <2>18, <2>a DEF RestoreTeardownTimeout, JobKept
  <2>19. CASE RestoreSavesOutcome(t)
    BY <2>19, <2>a DEF RestoreSavesOutcome, JobKept
  <2>20. CASE RestoreReserves(t) BY <2>20, <2>a DEF RestoreReserves, JobKept
  <2>21. CASE RestoreOpensPointer(t)
    BY <2>21, <2>a DEF RestoreOpensPointer, JobKept
  <2>22. CASE RestoreOpensOutcome(t)
    BY <2>22, <2>a DEF RestoreOpensOutcome, JobKept
  <2> QED BY <1>5, <2>1, <2>2, <2>3, <2>4, <2>5, <2>6, <2>7, <2>8, <2>9,
    <2>10, <2>11, <2>12, <2>13, <2>14, <2>15, <2>16, <2>17, <2>18, <2>19,
    <2>20, <2>21, <2>22 DEF RestoreStep
<1>6. ASSUME NEW t \in Threads, Admit(t) PROVE RenewalInv'
  <2>1. ASSUME NEW o \in AllOps, AcquireControl(t, o) PROVE RenewalInv'
    BY <2>1, AdmittedIs DEF AcquireControl, Admissible
  <2>2. ASSUME NEW o \in AllOps, SpawnBackup(t, o) PROVE RenewalInv'
    BY <2>2, AdmittedIs DEF SpawnBackup, Admissible
  <2>3. ASSUME NEW o \in AllOps, NEW r \in Restores, SpawnRestore(t, o, r)
        PROVE RenewalInv'
    BY <2>3, AdmittedIs DEF SpawnRestore, Admissible
  <2>4. CASE AcquireRenewal(t) BY <2>4 DEF AcquireRenewal, Admissible
  <2>5. CASE RenewalFindsBusy(t) BY <2>5 DEF RenewalFindsBusy
  <2> QED BY <1>6, <2>1, <2>2, <2>3, <2>4, <2>5 DEF Admit
<1>7. ASSUME NEW k \in ChildKinds, ChildWorks(k) \/ ChildExits(k) PROVE
  RenewalInv'
    BY <1>7 DEF ChildWorks, ChildExits, Counted, IsUp
<1>8. CASE WaiterReturns BY <1>8 DEF WaiterReturns
<1>9. CASE HandoffLapses BY <1>9 DEF HandoffLapses
<1>10. CASE ContainerDies BY <1>10 DEF ContainerDies
<1>11. CASE Crash BY <1>11 DEF Crash
<1>12. CASE BootRestarts BY <1>12 DEF BootRestarts
<1>13. CASE BootReposts BY <1>13 DEF BootReposts
<1>14. CASE UNCHANGED vars BY <1>14 DEF vars
<1> QED BY <1>1, <1>2, <1>3, <1>4, <1>5, <1>6, <1>7, <1>8, <1>9, <1>10, <1>11,
  <1>12, <1>13, <1>14 DEF Next, ThreadStep, Child, Boot

\* The count of children, and the gate that reads it under the lock: the
\* steps that spawn a tracked child hold the lock renewal would be holding.
LEMMA CountStep ==
  ASSUME TypeOK, LockInv, GateInv, [Next]_vars
  PROVE  GateInv'
<1> USE ConstantsAssumption DEF memory, threads, host, ledger, Goto,
  OpenState, WriteState, TypeOK,
  LockInv, Critical, GateInv, CountInv, RenewalStandsOff, ReleaseOnce,
  SpawnTracked, SpawnStray, NoKids, ChildKinds
<1>1. ASSUME NEW t \in Threads, ControlStep(t) PROVE GateInv'
  <2>1. CASE ClearHandoff(t) BY <2>1 DEF ClearHandoff
  <2>2. CASE HandlerRefuses(t) BY <2>2 DEF HandlerRefuses
  <2>3. CASE StartGreffon(t) BY <2>3 DEF StartGreffon
  <2>4. CASE StopGreffon(t) BY <2>4 DEF StopGreffon
  <2>5. CASE DecommissionGreffon(t) BY <2>5 DEF DecommissionGreffon
  <2>6. CASE DecommissionFails(t) BY <2>6 DEF DecommissionFails
  <2>7. CASE HandlerReturns(t) BY <2>7 DEF HandlerReturns
  <2> QED BY <1>1, <2>1, <2>2, <2>3, <2>4, <2>5, <2>6, <2>7
    DEF ControlStep
<1>2. ASSUME NEW t \in Threads, RenewalStep(t) PROVE GateInv'
  BY <1>2
  DEF RenewalStep, RenewalSkips, RenewalInstalls, RenewalDone
<1>3. ASSUME NEW t \in Threads, JobStep(t) PROVE GateInv'
  BY <1>3
  DEF JobStep, ThreadStarts, ThreadFails, ReleaseEarly, CallbackLost,
      CallbackAcked, UnlinkState, LockedJobReturns
<1>4. ASSUME NEW t \in Threads, BackupStep(t) PROVE GateInv'
  <2>1. JobKept BY <1>4, LocalsKept
  <2> QED
    BY <1>4, <2>1
    DEF JobKept, BackupStep, BackupReadsStatus, BackupChecksMissing,
        BackupRaises, BackupMarks, BackupStops, BackupQuiesced,
        BackupStopTimeout, BackupSnapshots, BackupRestarts, BackupUnmarks
<1>5. ASSUME NEW t \in Threads, RestoreStep(t) PROVE GateInv'
  <2>a. JobKept BY <1>5, LocalsKept
  <2>1. CASE RestoreReadsStatus(t)
    BY <2>1, <2>a DEF RestoreReadsStatus, JobKept
  <2>2. CASE RestoreStops(t) BY <2>2, <2>a DEF RestoreStops, JobKept
  <2>3. CASE RestoreQuiesced(t) BY <2>3, <2>a DEF RestoreQuiesced, JobKept
  <2>4. CASE RestoreStopTimeout(t)
    BY <2>4, <2>a DEF RestoreStopTimeout, JobKept
  <2>5. CASE RestoreTakesSafety(t)
    BY <2>5, <2>a DEF RestoreTakesSafety, JobKept
  <2>6. CASE RestoreWritesPointer(t)
    BY <2>6, <2>a DEF RestoreWritesPointer, JobKept
  <2>7. CASE RestoreRefusesVolumes(t)
    BY <2>7, <2>a DEF RestoreRefusesVolumes, JobKept
  <2>8. CASE RestoreBeginsOverwrite(t)
    BY <2>8, <2>a DEF RestoreBeginsOverwrite, JobKept
  <2>9. CASE RestoreSkipsData(t) BY <2>9, <2>a DEF RestoreSkipsData, JobKept
  <2>10. CASE RestoreEndsOverwrite(t)
    BY <2>10, <2>a DEF RestoreEndsOverwrite, JobKept
  <2>11. CASE RestoreStartsDb(t) BY <2>11, <2>a DEF RestoreStartsDb, JobKept
  <2>12. CASE RestoreLoadsDb(t) BY <2>12, <2>a DEF RestoreLoadsDb, JobKept
  <2>13. CASE RestoreStartsAll(t) BY <2>13, <2>a DEF RestoreStartsAll, JobKept
  <2>14. CASE RestoreFinally(t) BY <2>14, <2>a DEF RestoreFinally, JobKept
  <2>15. CASE RestoreRestarts(t) BY <2>15, <2>a DEF RestoreRestarts, JobKept
  <2>16. CASE RestoreTearsDown(t) BY <2>16, <2>a DEF RestoreTearsDown, JobKept
  <2>17. CASE RestoreTornDown(t) BY <2>17, <2>a DEF RestoreTornDown, JobKept
  <2>18. CASE RestoreTeardownTimeout(t)
    BY <2>18, <2>a DEF RestoreTeardownTimeout, JobKept
  <2>19. CASE RestoreSavesOutcome(t)
    BY <2>19, <2>a DEF RestoreSavesOutcome, JobKept
  <2>20. CASE RestoreReserves(t) BY <2>20, <2>a DEF RestoreReserves, JobKept
  <2>21. CASE RestoreOpensPointer(t)
    BY <2>21, <2>a DEF RestoreOpensPointer, JobKept
  <2>22. CASE RestoreOpensOutcome(t)
    BY <2>22, <2>a DEF RestoreOpensOutcome, JobKept
  <2> QED BY <1>5, <2>1, <2>2, <2>3, <2>4, <2>5, <2>6, <2>7, <2>8, <2>9,
    <2>10, <2>11, <2>12, <2>13, <2>14, <2>15, <2>16, <2>17, <2>18, <2>19,
    <2>20, <2>21, <2>22 DEF RestoreStep
<1>6. ASSUME NEW t \in Threads, Admit(t) PROVE GateInv'
  <2>1. ASSUME NEW o \in AllOps, AcquireControl(t, o) PROVE GateInv'
    BY <2>1, AdmittedIs DEF AcquireControl, Admissible
  <2>2. ASSUME NEW o \in AllOps, SpawnBackup(t, o) PROVE GateInv'
    BY <2>2, AdmittedIs DEF SpawnBackup, Admissible
  <2>3. ASSUME NEW o \in AllOps, NEW r \in Restores, SpawnRestore(t, o, r)
        PROVE GateInv'
    BY <2>3, AdmittedIs DEF SpawnRestore, Admissible
  <2>4. CASE AcquireRenewal(t) BY <2>4 DEF AcquireRenewal, Admissible
  <2>5. CASE RenewalFindsBusy(t) BY <2>5 DEF RenewalFindsBusy
  <2> QED BY <1>6, <2>1, <2>2, <2>3, <2>4, <2>5 DEF Admit
<1>7. ASSUME NEW k \in ChildKinds, ChildWorks(k) \/ ChildExits(k) PROVE
  GateInv'
    BY <1>7 DEF ChildWorks, ChildExits, Counted, IsUp
<1>8. CASE WaiterReturns BY <1>8 DEF WaiterReturns
<1>9. CASE HandoffLapses BY <1>9 DEF HandoffLapses
<1>10. CASE ContainerDies BY <1>10 DEF ContainerDies
<1>11. CASE Crash BY <1>11 DEF Crash
<1>12. CASE BootRestarts BY <1>12 DEF BootRestarts
<1>13. CASE BootReposts BY <1>13 DEF BootReposts
<1>14. CASE UNCHANGED vars BY <1>14 DEF vars
<1> QED BY <1>1, <1>2, <1>3, <1>4, <1>5, <1>6, <1>7, <1>8, <1>9, <1>10, <1>11,
  <1>12, <1>13, <1>14 DEF Next, ThreadStep, Child, Boot

\* Restore steps belong to restore jobs, with an id the manager issued.
LEMMA RestoreIdStep ==
  ASSUME TypeOK, RestoreInv, [Next]_vars
  PROVE  RestoreInv'
<1> USE ConstantsAssumption DEF memory, threads, host, ledger, Goto,
  OpenState, WriteState, TypeOK,
  Jobs, RestoreInv, RestorePcs, ReleaseOnce, SpawnTracked, BackupOps,
  RestoreOps, ControlOps, JobOps, IdleJob
<1>1. ASSUME NEW t \in Threads, ControlStep(t) PROVE RestoreInv'
  BY <1>1
  DEF ControlStep, ClearHandoff, HandlerRefuses, StartGreffon, StopGreffon,
      DecommissionGreffon, DecommissionFails, HandlerReturns
<1>2. ASSUME NEW t \in Threads, RenewalStep(t) PROVE RestoreInv'
  BY <1>2
  DEF RenewalStep, RenewalSkips, RenewalInstalls, RenewalDone
<1>3. ASSUME NEW t \in Threads, JobStep(t) PROVE RestoreInv'
  <2>1. CASE ThreadStarts(t) BY <2>1 DEF ThreadStarts
  <2>2. CASE ThreadFails(t) BY <2>2 DEF ThreadFails
  <2>3. CASE ReleaseEarly(t) BY <2>3 DEF ReleaseEarly
  <2>4. CASE CallbackLost(t) BY <2>4 DEF CallbackLost
  <2>5. CASE CallbackAcked(t) BY <2>5 DEF CallbackAcked
  <2>6. CASE UnlinkState(t) BY <2>6 DEF UnlinkState
  <2>7. CASE LockedJobReturns(t) BY <2>7 DEF LockedJobReturns
  <2> QED BY <1>3, <2>1, <2>2, <2>3, <2>4, <2>5, <2>6, <2>7 DEF JobStep
<1>4. ASSUME NEW t \in Threads, BackupStep(t) PROVE RestoreInv'
  <2>1. JobKept BY <1>4, LocalsKept
  <2> QED
    BY <1>4, <2>1
    DEF JobKept, BackupStep, BackupReadsStatus, BackupChecksMissing,
        BackupRaises, BackupMarks, BackupStops, BackupQuiesced,
        BackupStopTimeout, BackupSnapshots, BackupRestarts, BackupUnmarks
<1>5. ASSUME NEW t \in Threads, RestoreStep(t) PROVE RestoreInv'
  <2>a. JobKept BY <1>5, LocalsKept
  <2>1. CASE RestoreReadsStatus(t)
    BY <2>1, <2>a DEF RestoreReadsStatus, JobKept
  <2>2. CASE RestoreStops(t) BY <2>2, <2>a DEF RestoreStops, JobKept
  <2>3. CASE RestoreQuiesced(t) BY <2>3, <2>a DEF RestoreQuiesced, JobKept
  <2>4. CASE RestoreStopTimeout(t)
    BY <2>4, <2>a DEF RestoreStopTimeout, JobKept
  <2>5. CASE RestoreTakesSafety(t)
    BY <2>5, <2>a DEF RestoreTakesSafety, JobKept
  <2>6. CASE RestoreWritesPointer(t)
    BY <2>6, <2>a DEF RestoreWritesPointer, JobKept
  <2>7. CASE RestoreRefusesVolumes(t)
    BY <2>7, <2>a DEF RestoreRefusesVolumes, JobKept
  <2>8. CASE RestoreBeginsOverwrite(t)
    BY <2>8, <2>a DEF RestoreBeginsOverwrite, JobKept
  <2>9. CASE RestoreSkipsData(t) BY <2>9, <2>a DEF RestoreSkipsData, JobKept
  <2>10. CASE RestoreEndsOverwrite(t)
    BY <2>10, <2>a DEF RestoreEndsOverwrite, JobKept
  <2>11. CASE RestoreStartsDb(t) BY <2>11, <2>a DEF RestoreStartsDb, JobKept
  <2>12. CASE RestoreLoadsDb(t) BY <2>12, <2>a DEF RestoreLoadsDb, JobKept
  <2>13. CASE RestoreStartsAll(t) BY <2>13, <2>a DEF RestoreStartsAll, JobKept
  <2>14. CASE RestoreFinally(t) BY <2>14, <2>a DEF RestoreFinally, JobKept
  <2>15. CASE RestoreRestarts(t) BY <2>15, <2>a DEF RestoreRestarts, JobKept
  <2>16. CASE RestoreTearsDown(t) BY <2>16, <2>a DEF RestoreTearsDown, JobKept
  <2>17. CASE RestoreTornDown(t) BY <2>17, <2>a DEF RestoreTornDown, JobKept
  <2>18. CASE RestoreTeardownTimeout(t)
    BY <2>18, <2>a DEF RestoreTeardownTimeout, JobKept
  <2>19. CASE RestoreSavesOutcome(t)
    BY <2>19, <2>a DEF RestoreSavesOutcome, JobKept
  <2>20. CASE RestoreReserves(t) BY <2>20, <2>a DEF RestoreReserves, JobKept
  <2>21. CASE RestoreOpensPointer(t)
    BY <2>21, <2>a DEF RestoreOpensPointer, JobKept
  <2>22. CASE RestoreOpensOutcome(t)
    BY <2>22, <2>a DEF RestoreOpensOutcome, JobKept
  <2> QED BY <1>5, <2>1, <2>2, <2>3, <2>4, <2>5, <2>6, <2>7, <2>8, <2>9,
    <2>10, <2>11, <2>12, <2>13, <2>14, <2>15, <2>16, <2>17, <2>18, <2>19,
    <2>20, <2>21, <2>22 DEF RestoreStep
<1>6. ASSUME NEW t \in Threads, Admit(t) PROVE RestoreInv'
  <2>1. ASSUME NEW o \in AllOps, AcquireControl(t, o) PROVE RestoreInv'
    BY <2>1, AdmittedIs DEF AcquireControl, Admissible
  <2>2. ASSUME NEW o \in AllOps, SpawnBackup(t, o) PROVE RestoreInv'
    BY <2>2, AdmittedIs DEF SpawnBackup, Admissible
  <2>3. ASSUME NEW o \in AllOps, NEW r \in Restores, SpawnRestore(t, o, r)
        PROVE RestoreInv'
    BY <2>3, AdmittedIs DEF SpawnRestore, Admissible
  <2>4. CASE AcquireRenewal(t) BY <2>4 DEF AcquireRenewal, Admissible
  <2>5. CASE RenewalFindsBusy(t) BY <2>5 DEF RenewalFindsBusy
  <2> QED BY <1>6, <2>1, <2>2, <2>3, <2>4, <2>5 DEF Admit
<1>7. ASSUME NEW k \in ChildKinds, ChildWorks(k) \/ ChildExits(k) PROVE
  RestoreInv'
    BY <1>7 DEF ChildWorks, ChildExits, Counted, IsUp
<1>8. CASE WaiterReturns BY <1>8 DEF WaiterReturns
<1>9. CASE HandoffLapses BY <1>9 DEF HandoffLapses
<1>10. CASE ContainerDies BY <1>10 DEF ContainerDies
<1>11. CASE Crash BY <1>11 DEF Crash
<1>12. CASE BootRestarts BY <1>12 DEF BootRestarts
<1>13. CASE BootReposts BY <1>13 DEF BootReposts
<1>14. CASE UNCHANGED vars BY <1>14 DEF vars
<1> QED BY <1>1, <1>2, <1>3, <1>4, <1>5, <1>6, <1>7, <1>8, <1>9, <1>10, <1>11,
  <1>12, <1>13, <1>14 DEF Next, ThreadStep, Child, Boot

\* Ids are issued once, and nothing runs until the boot has served the files.
LEMMA RidStep ==
  ASSUME TypeOK, RestoreInv, RidInv, [Next]_vars
  PROVE  RidInv'
<1> USE ConstantsAssumption DEF memory, threads, host, ledger, Goto,
  OpenState, WriteState, TypeOK,
  Jobs, RestoreInv, RidInv, RestorePcs, ReleaseOnce, SpawnTracked, BackupOps,
  RestoreOps, ControlOps, JobOps, IdleJob
<1>1. ASSUME NEW t \in Threads, ControlStep(t) PROVE RidInv'
  <2>1. CASE ClearHandoff(t) \/ HandlerRefuses(t)
    BY <2>1 DEF ClearHandoff, HandlerRefuses
  <2>5. CASE HandlerReturns(t)
    BY <2>5 DEF HandlerReturns
  <2>2. CASE StartGreffon(t)
    BY <2>2 DEF StartGreffon
  <2>3. CASE StopGreffon(t)
    BY <2>3 DEF StopGreffon
  <2>4. CASE DecommissionGreffon(t) \/ DecommissionFails(t)
    BY <2>4 DEF DecommissionGreffon, DecommissionFails
  <2>. QED
    BY <1>1, <2>1, <2>2, <2>3, <2>4, <2>5 DEF ControlStep
<1>2. ASSUME NEW t \in Threads, RenewalStep(t) PROVE RidInv'
  BY <1>2
  DEF RenewalStep, RenewalSkips, RenewalInstalls, RenewalDone
<1>3. ASSUME NEW t \in Threads, JobStep(t) PROVE RidInv'
  <2>1. CASE ThreadStarts(t) BY <2>1 DEF ThreadStarts
  <2>2. CASE ThreadFails(t) BY <2>2 DEF ThreadFails
  <2>3. CASE ReleaseEarly(t) BY <2>3 DEF ReleaseEarly
  <2>4. CASE CallbackLost(t) BY <2>4 DEF CallbackLost
  <2>5. CASE CallbackAcked(t) BY <2>5 DEF CallbackAcked
  <2>6. CASE UnlinkState(t) BY <2>6 DEF UnlinkState
  <2>7. CASE LockedJobReturns(t) BY <2>7 DEF LockedJobReturns
  <2> QED BY <1>3, <2>1, <2>2, <2>3, <2>4, <2>5, <2>6, <2>7 DEF JobStep
<1>4. ASSUME NEW t \in Threads, BackupStep(t) PROVE RidInv'
  <2>1. JobKept BY <1>4, LocalsKept
  <2> QED
    BY <1>4, <2>1
    DEF JobKept, BackupStep, BackupReadsStatus, BackupChecksMissing,
        BackupRaises, BackupMarks, BackupStops, BackupQuiesced,
        BackupStopTimeout, BackupSnapshots, BackupRestarts, BackupUnmarks
<1>5. ASSUME NEW t \in Threads, RestoreStep(t) PROVE RidInv'
  <2>a. JobKept BY <1>5, LocalsKept
  <2>1. CASE RestoreReadsStatus(t)
    BY <2>1, <2>a DEF RestoreReadsStatus, JobKept
  <2>2. CASE RestoreStops(t) BY <2>2, <2>a DEF RestoreStops, JobKept
  <2>3. CASE RestoreQuiesced(t) BY <2>3, <2>a DEF RestoreQuiesced, JobKept
  <2>4. CASE RestoreStopTimeout(t)
    BY <2>4, <2>a DEF RestoreStopTimeout, JobKept
  <2>5. CASE RestoreTakesSafety(t)
    BY <2>5, <2>a DEF RestoreTakesSafety, JobKept
  <2>6. CASE RestoreWritesPointer(t)
    BY <2>6, <2>a DEF RestoreWritesPointer, JobKept
  <2>7. CASE RestoreRefusesVolumes(t)
    BY <2>7, <2>a DEF RestoreRefusesVolumes, JobKept
  <2>8. CASE RestoreBeginsOverwrite(t)
    BY <2>8, <2>a DEF RestoreBeginsOverwrite, JobKept
  <2>9. CASE RestoreSkipsData(t) BY <2>9, <2>a DEF RestoreSkipsData, JobKept
  <2>10. CASE RestoreEndsOverwrite(t)
    BY <2>10, <2>a DEF RestoreEndsOverwrite, JobKept
  <2>11. CASE RestoreStartsDb(t) BY <2>11, <2>a DEF RestoreStartsDb, JobKept
  <2>12. CASE RestoreLoadsDb(t) BY <2>12, <2>a DEF RestoreLoadsDb, JobKept
  <2>13. CASE RestoreStartsAll(t) BY <2>13, <2>a DEF RestoreStartsAll, JobKept
  <2>14. CASE RestoreFinally(t) BY <2>14, <2>a DEF RestoreFinally, JobKept
  <2>15. CASE RestoreRestarts(t) BY <2>15, <2>a DEF RestoreRestarts, JobKept
  <2>16. CASE RestoreTearsDown(t) BY <2>16, <2>a DEF RestoreTearsDown, JobKept
  <2>17. CASE RestoreTornDown(t) BY <2>17, <2>a DEF RestoreTornDown, JobKept
  <2>18. CASE RestoreTeardownTimeout(t)
    BY <2>18, <2>a DEF RestoreTeardownTimeout, JobKept
  <2>19. CASE RestoreSavesOutcome(t)
    BY <2>19, <2>a DEF RestoreSavesOutcome, JobKept
  <2>20. CASE RestoreReserves(t) BY <2>20, <2>a DEF RestoreReserves, JobKept
  <2>21. CASE RestoreOpensPointer(t)
    BY <2>21, <2>a DEF RestoreOpensPointer, JobKept
  <2>22. CASE RestoreOpensOutcome(t)
    BY <2>22, <2>a DEF RestoreOpensOutcome, JobKept
  <2> QED BY <1>5, <2>1, <2>2, <2>3, <2>4, <2>5, <2>6, <2>7, <2>8, <2>9,
    <2>10, <2>11, <2>12, <2>13, <2>14, <2>15, <2>16, <2>17, <2>18, <2>19,
    <2>20, <2>21, <2>22 DEF RestoreStep
<1>6. ASSUME NEW t \in Threads, Admit(t) PROVE RidInv'
  <2>1. ASSUME NEW o \in AllOps, AcquireControl(t, o) PROVE RidInv'
    BY <2>1, AdmittedIs DEF AcquireControl, Admissible
  <2>2. ASSUME NEW o \in AllOps, SpawnBackup(t, o) PROVE RidInv'
    BY <2>2, AdmittedIs DEF SpawnBackup, Admissible
  <2>3. ASSUME NEW o \in AllOps, NEW r \in Restores, SpawnRestore(t, o, r)
        PROVE RidInv'
    BY <2>3, AdmittedIs DEF SpawnRestore, Admissible
  <2>4. CASE AcquireRenewal(t) BY <2>4 DEF AcquireRenewal, Admissible
  <2>5. CASE RenewalFindsBusy(t) BY <2>5 DEF RenewalFindsBusy
  <2> QED BY <1>6, <2>1, <2>2, <2>3, <2>4, <2>5 DEF Admit
<1>7. ASSUME NEW k \in ChildKinds, ChildWorks(k) \/ ChildExits(k) PROVE
  RidInv'
    BY <1>7 DEF ChildWorks, ChildExits, Counted, IsUp
<1>8. CASE WaiterReturns BY <1>8 DEF WaiterReturns
<1>9. CASE HandoffLapses BY <1>9 DEF HandoffLapses
<1>10. CASE ContainerDies BY <1>10 DEF ContainerDies
<1>11. CASE Crash BY <1>11 DEF Crash
<1>12. CASE BootRestarts BY <1>12 DEF BootRestarts
<1>13. CASE BootReposts BY <1>13 DEF BootReposts
<1>14. CASE UNCHANGED vars BY <1>14 DEF vars
<1> QED BY <1>1, <1>2, <1>3, <1>4, <1>5, <1>6, <1>7, <1>8, <1>9, <1>10, <1>11,
  <1>12, <1>13, <1>14 DEF Next, ThreadStep, Child, Boot

\* A step that leaves the files alone and does not move to a point where
\* more is asked of them.
LEMMA FilesAlone ==
  ASSUME pc \in [Threads -> Pcs], DurableInv, JobKept, NEW t \in Threads,
         UNCHANGED <<pointer, overwrote, acked, used, cut>>, NEW l,
         pc' = [pc EXCEPT ![t] = l], pc[t] # "rs_saving",
         l \notin PrePcs, l # "rs_unlink",
         l \in {"rs_guard", "rs_overwriting", "rs_db", "rs_dbload"}
           => pc[t] \in {"rs_guard", "rs_overwriting", "rs_db", "rs_dbload"}
  PROVE  DurableInv'
<1> USE DEF DurableInv, PointerInv, SafetyPointerSurvives, JobKept, Readable
<1>1. PointerInv' OBVIOUS
<1>2. SafetyPointerSurvives' OBVIOUS
<1> QED BY <1>1, <1>2

\* The rollback pointer.  The file of a restore is removed by the restore
\* itself once acknowledged, by the boot once acknowledged, or with the whole
\* instance by a decommission that holds the lock.
LEMMA PointerStep ==
  ASSUME TypeOK, LockInv, RestoreInv, RidInv, DurableInv, [Next]_vars
  PROVE  DurableInv'
<1> USE ConstantsAssumption DEF memory, threads, host, ledger, Goto,
  OpenState, WriteState, TypeOK,
  Jobs, LockInv, Critical, RestoreInv, RidInv, DurableInv, PointerInv,
  SafetyPointerSurvives, RestorePcs, ReleaseOnce, SpawnTracked, BackupOps,
  RestoreOps, ControlOps, JobOps, IdleJob, Fault, Readable,
  PrePcs
<1>1. ASSUME NEW t \in Threads, ControlStep(t) PROVE DurableInv'
  <2>1. CASE ClearHandoff(t) BY <2>1 DEF ClearHandoff
  <2>2. CASE HandlerRefuses(t) BY <2>2 DEF HandlerRefuses
  <2>3. CASE StartGreffon(t) BY <2>3 DEF StartGreffon
  <2>4. CASE StopGreffon(t) BY <2>4 DEF StopGreffon
  <2>5. CASE DecommissionGreffon(t) BY <2>5 DEF DecommissionGreffon
  <2>6. CASE DecommissionFails(t) BY <2>6 DEF DecommissionFails
  <2>7. CASE HandlerReturns(t) BY <2>7 DEF HandlerReturns
  <2> QED BY <1>1, <2>1, <2>2, <2>3, <2>4, <2>5, <2>6, <2>7 DEF ControlStep
<1>2. ASSUME NEW t \in Threads, RenewalStep(t) PROVE DurableInv'
  <2>1. CASE RenewalSkips(t) BY <2>1 DEF RenewalSkips
  <2>2. CASE RenewalInstalls(t) BY <2>2 DEF RenewalInstalls
  <2>3. CASE RenewalDone(t) BY <2>3 DEF RenewalDone
  <2> QED BY <1>2, <2>1, <2>2, <2>3 DEF RenewalStep
<1>3. ASSUME NEW t \in Threads, JobStep(t) PROVE DurableInv'
  <2>1. CASE ThreadStarts(t) BY <2>1 DEF ThreadStarts
  <2>2. CASE ThreadFails(t) BY <2>2 DEF ThreadFails
  <2>3. CASE ReleaseEarly(t) BY <2>3 DEF ReleaseEarly, IdleJob
  <2>4. CASE CallbackLost(t) BY <2>4 DEF CallbackLost
  <2>5. CASE CallbackAcked(t) BY <2>5 DEF CallbackAcked
  <2>6. CASE UnlinkState(t) BY <2>6 DEF UnlinkState
  <2>7. CASE LockedJobReturns(t) BY <2>7 DEF LockedJobReturns
  <2> QED BY <1>3, <2>1, <2>2, <2>3, <2>4, <2>5, <2>6, <2>7 DEF JobStep
<1>4. ASSUME NEW t \in Threads, BackupStep(t) PROVE DurableInv'
  <2>a. JobKept BY <1>4, LocalsKept
  <2>1. CASE BackupReadsStatus(t) BY <2>1, <2>a DEF BackupReadsStatus, JobKept
  <2>2. CASE BackupChecksMissing(t)
    BY <2>2, <2>a DEF BackupChecksMissing, JobKept
  <2>3. CASE BackupRaises(t) BY <2>3, <2>a DEF BackupRaises, JobKept
  <2>4. CASE BackupMarks(t) BY <2>4, <2>a DEF BackupMarks, JobKept
  <2>5. CASE BackupStops(t) BY <2>5, <2>a, FilesAlone DEF BackupStops
  <2>6. CASE BackupQuiesced(t) BY <2>6, <2>a DEF BackupQuiesced, JobKept
  <2>7. CASE BackupStopTimeout(t) BY <2>7, <2>a DEF BackupStopTimeout, JobKept
  <2>8. CASE BackupSnapshots(t) BY <2>8, <2>a, FilesAlone DEF BackupSnapshots
  <2>9. CASE BackupRestarts(t) BY <2>9, <2>a DEF BackupRestarts, JobKept
  <2>10. CASE BackupUnmarks(t) BY <2>10, <2>a DEF BackupUnmarks, JobKept
  <2> QED BY <1>4, <2>1, <2>2, <2>3, <2>4, <2>5, <2>6, <2>7, <2>8, <2>9, <2>10
    DEF BackupStep
<1>5. ASSUME NEW t \in Threads, RestoreStep(t) PROVE DurableInv'
  <2>a. JobKept BY <1>5, LocalsKept
  <2>1. CASE RestoreReadsStatus(t)
    BY <2>1, <2>a DEF RestoreReadsStatus, JobKept
  <2>2. CASE RestoreStops(t) BY <2>2, <2>a DEF RestoreStops, JobKept
  <2>3. CASE RestoreQuiesced(t) BY <2>3, <2>a DEF RestoreQuiesced, JobKept
  <2>4. CASE RestoreStopTimeout(t)
    BY <2>4, <2>a DEF RestoreStopTimeout, JobKept
  <2>5. CASE RestoreTakesSafety(t)
    BY <2>5, <2>a DEF RestoreTakesSafety, JobKept
  <2>6. CASE RestoreWritesPointer(t)
    BY <2>6, <2>a DEF RestoreWritesPointer, JobKept
  <2>7. CASE RestoreRefusesVolumes(t)
    BY <2>7, <2>a DEF RestoreRefusesVolumes, JobKept
  <2>8. CASE RestoreBeginsOverwrite(t)
    BY <2>8, <2>a DEF RestoreBeginsOverwrite, JobKept
  <2>9. CASE RestoreSkipsData(t) BY <2>9, <2>a DEF RestoreSkipsData, JobKept
  <2>10. CASE RestoreEndsOverwrite(t)
    BY <2>10, <2>a DEF RestoreEndsOverwrite, JobKept
  <2>11. CASE RestoreStartsDb(t) BY <2>11, <2>a, FilesAlone DEF RestoreStartsDb
  <2>12. CASE RestoreLoadsDb(t) BY <2>12, <2>a DEF RestoreLoadsDb, JobKept
  <2>13. CASE RestoreStartsAll(t)
    BY <2>13, <2>a, FilesAlone DEF RestoreStartsAll
  <2>14. CASE RestoreFinally(t) BY <2>14, <2>a DEF RestoreFinally, JobKept
  <2>15. CASE RestoreRestarts(t) BY <2>15, <2>a DEF RestoreRestarts, JobKept
  <2>16. CASE RestoreTearsDown(t) BY <2>16, <2>a DEF RestoreTearsDown, JobKept
  <2>17. CASE RestoreTornDown(t) BY <2>17, <2>a DEF RestoreTornDown, JobKept
  <2>18. CASE RestoreTeardownTimeout(t)
    BY <2>18, <2>a DEF RestoreTeardownTimeout, JobKept
  <2>19. CASE RestoreSavesOutcome(t)
    BY <2>19, <2>a DEF RestoreSavesOutcome, JobKept
  <2>20. CASE RestoreReserves(t) BY <2>20, <2>a DEF RestoreReserves, JobKept
  <2>21. CASE RestoreOpensPointer(t)
    <3>1. /\ pc[t] = "rs_point" /\ job[t].rid \in Restores
          /\ UNCHANGED <<overwrote, acked, used, phase>>
      BY <2>21 DEF RestoreOpensPointer
    <3>2. CASE /\ pointer' = [pointer EXCEPT ![job[t].rid] = "torn"]
               /\ pc' = [pc EXCEPT ![t] = "rs_pointing"] /\ cut' = cut
      <4>1. \A r \in overwrote : pointer'[r] = pointer[r] BY <3>1, <3>2
      <4>2. \A u \in Threads \ {t} :
              job[u].rid \in Restores => job[u].rid # job[t].rid
        BY <3>1
      <4> QED BY <2>a, <3>1, <3>2, <4>1, <4>2 DEF JobKept
    <3>3. CASE /\ pointer' = pointer /\ pc' = [pc EXCEPT ![t] = "rs_guard"]
               /\ cut' = IF pointer[job[t].rid] = "none"
                         THEN cut \cup {job[t].rid} ELSE cut
      <4>1. pointer[job[t].rid] # "torn"
        BY <3>1
      <4> QED BY <2>a, <3>1, <3>3, <4>1 DEF JobKept
    <3> QED BY <2>21, <3>2, <3>3 DEF RestoreOpensPointer
  <2>22. CASE RestoreOpensOutcome(t)
    BY <2>22, <2>a DEF RestoreOpensOutcome, JobKept
  <2> QED BY <1>5, <2>1, <2>2, <2>3, <2>4, <2>5, <2>6, <2>7, <2>8, <2>9,
    <2>10, <2>11, <2>12, <2>13, <2>14, <2>15, <2>16, <2>17, <2>18, <2>19,
    <2>20, <2>21, <2>22 DEF RestoreStep
<1>6. ASSUME NEW t \in Threads, Admit(t) PROVE DurableInv'
  <2>1. ASSUME NEW o \in AllOps, AcquireControl(t, o) PROVE DurableInv'
    BY <2>1, AdmittedIs DEF AcquireControl, Admissible
  <2>2. ASSUME NEW o \in AllOps, SpawnBackup(t, o) PROVE DurableInv'
    BY <2>2, AdmittedIs DEF SpawnBackup, Admissible
  <2>3. ASSUME NEW o \in AllOps, NEW r \in Restores, SpawnRestore(t, o, r)
        PROVE DurableInv'
    BY <2>3, AdmittedIs DEF SpawnRestore, Admissible
  <2>4. CASE AcquireRenewal(t) BY <2>4 DEF AcquireRenewal, Admissible
  <2>5. CASE RenewalFindsBusy(t) BY <2>5 DEF RenewalFindsBusy
  <2> QED BY <1>6, <2>1, <2>2, <2>3, <2>4, <2>5 DEF Admit
<1>7. ASSUME NEW k \in ChildKinds, ChildWorks(k) \/ ChildExits(k) PROVE
  DurableInv'
    BY <1>7 DEF ChildWorks, ChildExits, Counted, IsUp
<1>8. CASE WaiterReturns BY <1>8 DEF WaiterReturns
<1>9. CASE HandoffLapses BY <1>9 DEF HandoffLapses
<1>10. CASE ContainerDies BY <1>10 DEF ContainerDies
<1>11. CASE Crash BY <1>11 DEF Crash
<1>12. CASE BootRestarts BY <1>12 DEF BootRestarts
<1>13. CASE BootReposts BY <1>13 DEF BootReposts
<1>14. CASE UNCHANGED vars BY <1>14 DEF vars
<1> QED BY <1>1, <1>2, <1>3, <1>4, <1>5, <1>6, <1>7, <1>8, <1>9, <1>10, <1>11,
  <1>12, <1>13, <1>14 DEF Next, ThreadStep, Child, Boot

-----------------------------------------------------------------------------
(* The theorems.                                                           *)

\* The inductive invariant holds of a freshly booted greffer.
LEMMA BaseInvInitial == Init => BaseInv
<1> SUFFICES ASSUME Init PROVE BaseInv OBVIOUS
<1> USE ConstantsAssumption DEF Init
<1>1. TypeOK BY DEF TypeOK, IdleJob, Jobs, Pcs, NoKids, ChildKinds
<1>2. LockInv BY DEF LockInv, Critical, JobPcs
<1>3. RenewalInv BY DEF RenewalInv, RenewInv, HandoffKeepsRenewalOut, IdleJob
<1>4. GateInv BY DEF GateInv, CountInv, RenewalStandsOff, NoKids, ChildKinds
<1>5. RestoreInv BY DEF RestoreInv, RestorePcs, RestoreOps, IdleJob
<1> QED BY <1>1, <1>2, <1>3, <1>4, <1>5 DEF BaseInv

\* Every step of the system keeps the inductive invariant.
LEMMA BaseInvStep == BaseInv /\ [Next]_vars => BaseInv'
BY TypeStep, LockStep, RenewStep, CountStep, RestoreIdStep
DEF BaseInv, GateInv

\* The inductive invariant holds in every reachable state.
THEOREM BaseInvariant == Spec => []BaseInv
BY BaseInvInitial, BaseInvStep, PTL DEF Spec

\* Types, and with them that no counter of track_compose_child goes below
\* zero, however children, waiters and crashes interleave.
THEOREM TypeCorrect == Spec => []TypeOK
<1>1. BaseInv => TypeOK BY DEF BaseInv
<1> QED BY <1>1, BaseInvariant, PTL

\* Mutual exclusion of the operations on an instance, with the release that
\* every job calls twice, once before its callback and once at its end.
THEOREM MutualExclusion == Spec => []OneOperationAtATime
<1>1. BaseInv => OneOperationAtATime
  BY DEF BaseInv, LockInv, OneOperationAtATime
<1> QED BY <1>1, BaseInvariant, PTL

\* The lock is never left behind by a thread that has ended, and never kept
\* across the callback to the manager.
THEOREM LockNotStranded == Spec => []NoStrandedLock
<1>1. BaseInv => NoStrandedLock
  BY DEF BaseInv, LockInv, NoStrandedLock, Critical, JobPcs
<1> QED BY <1>1, BaseInvariant, PTL

\* No renewal holds the lock inside the handoff window of a restore.
THEOREM HandoffHonoured == Spec => []HandoffKeepsRenewalOut
<1>1. BaseInv => HandoffKeepsRenewalOut BY DEF BaseInv, RenewalInv
<1> QED BY <1>1, BaseInvariant, PTL

\* No renewal installs a certificate under a tracked compose child.
THEOREM RenewalGated == Spec => []RenewalStandsOff
<1>1. BaseInv => RenewalStandsOff BY DEF BaseInv, GateInv
<1> QED BY <1>1, BaseInvariant, PTL

\* The rollback pointer of a restore that has changed the volumes is never
\* lost before the manager has it, but to a write in place that the disk or a
\* crash cuts short.
THEOREM PointerDurable == Spec => []SafetyPointerSurvives
<1>1. Init => RidInv /\ DurableInv
  BY ConstantsAssumption
  DEF Init, RidInv, DurableInv, PointerInv, SafetyPointerSurvives, IdleJob
<1>2. BaseInv /\ RidInv /\ DurableInv /\ [Next]_vars
       => (RidInv /\ DurableInv)'
  BY RidStep, PointerStep DEF BaseInv
<1>3. DurableInv => SafetyPointerSurvives BY DEF DurableInv
<1> QED BY <1>1, <1>2, <1>3, BaseInvariant, PTL DEF Spec

-----------------------------------------------------------------------------
(* Quiescence.  Nothing starts a container behind the back of a job, of a  *)
(* decommission, or after one, that found no up at work: ups are spawned   *)
(* by the holder of the lock only.                                         *)

NoUps == kids["up"] = 0 /\ kids["strayUp"] = 0

\* The threads that rely on there being no up: jobs and decommissions that
\* found none when they were admitted.
UpFree(t) ==
  /\ ~job[t].raced
  /\ \/ pc[t] \in JobPcs
     \/ pc[t] \in {"clear", "handler"} /\ job[t].op = "decommission"

BackupPcs == {"spawn", "bk_status", "bk_check", "bk_mark", "bk_stop",
              "bk_wait", "bk_snap", "bk_hot", "bk_restart", "bk_unmark"}

\* The locals follow the position: the overwrite comes before the database,
\* and only a restore that overwrote nothing restarts what it stopped.
LocalsInv(t) ==
  /\ pc[t] \in {"rs_pointing", "rs_guard", "rs_overwriting", "rs_db"}
       => job[t].over
  /\ job[t].db => job[t].over
  /\ pc[t] \in BackupPcs => ~job[t].db
  /\ pc[t] = "rs_reup" => ~job[t].over

\* What a job has read of the containers is still true when it relies on it.
StillInv(t) ==
  ~job[t].raced =>
    /\ pc[t] = "bk_check" /\ job[t].seen # "running" => containers # "running"
    /\ pc[t] = "bk_snap" => Quiet
    /\ RestoreTouchesVolumes(t) /\ job[t].seen # "unknow" => Quiet

\* A teardown that was not given up on found all down.
TearInv(t) ==
  /\ pc[t] \in {"rs_save", "rs_saving", "rs_reserve", "release"}
  /\ job[t].db /\ ~job[t].ok /\ ~job[t].late /\ ~job[t].raced
  => Quiet

JobInv(t) ==
  /\ UpFree(t) => NoUps
  /\ LocalsInv(t)
  /\ StillInv(t)
  /\ TearInv(t)

QuiesceInv == \A t \in Threads : JobInv(t)

\* Where a backup is that finds no container: it never stops one, so it has
\* none to start.
IdleBackup(t) ==
  /\ pc[t] \in {"spawn", "bk_status", "bk_check", "bk_unmark", "release"}
  /\ job[t].op \in BackupOps

\* Nothing thread t is at can start a container.
StartsNothing(t) ==
  /\ pc[t] \in JobPcs => IdleBackup(t)
  /\ pc[t] \in {"clear", "handler"} => job[t].op # "start"

\* After a clean decommission nothing that can start a container is at work.
GoneInv ==
  gone = "clean" =>
    /\ containers = "absent"
    /\ NoUps
    /\ \A t \in Threads : StartsNothing(t)

\* What JobInv(t) reads.
Unmoved(t) ==
  pc'[t] = pc[t] /\ job'[t] = job[t] /\ kids' = kids /\ containers' = containers

LEMMA UnmovedKeeps ==
  ASSUME NEW t \in Threads, JobInv(t), Unmoved(t)
  PROVE  JobInv(t)'
BY DEF Unmoved, JobInv, UpFree, NoUps, LocalsInv, StillInv, TearInv,
  Quiet, RestoreTouchesVolumes

\* A thread outside of its critical section reads nothing of JobInv but its
\* own locals.
LEMMA OutsideKeeps ==
  ASSUME NEW t \in Threads, JobInv(t), job'[t] = job[t] \/ job'[t] = IdleJob,
         pc'[t] \in {"idle", "fin", "rn_gate", "rn_install", "post",
                     "rs_unlink", "locked_final"}
  PROVE  JobInv(t)'
BY DEF JobInv, UpFree, JobPcs, BackupPcs, LocalsInv, StillInv, TearInv, RestoreTouchesVolumes, IdleJob

\* The lock keeps every other thread's hands off the host and off the locals
\* of the thread that works on the instance.
LEMMA OthersLeaveAlone ==
  ASSUME TypeOK, LockInv, NEW t \in Threads, Critical(t), NEW u \in Threads,
         u # t, Admit(u) \/ ThreadStep(u)
  PROVE  Unmoved(t) /\ gone' = gone
<1>1. lock = t /\ lock # NoThread /\ ~Critical(u)
  BY ConstantsAssumption DEF LockInv
<1>2. pc[u] \in {"idle", "post", "rs_unlink", "locked_final"}
  BY <1>1 DEF Critical
<1> USE DEF TypeOK, Unmoved, memory, threads, host, ledger, Goto,
  OpenState, WriteState
<1>3. CASE Admit(u)
  BY <1>1, <1>3
  DEF Admit, AcquireControl, SpawnBackup, SpawnRestore, AcquireRenewal,
      RenewalFindsBusy
<1>4. CASE ControlStep(u)
  BY <1>2, <1>4
  DEF ControlStep, ClearHandoff, HandlerRefuses, StartGreffon, StopGreffon,
      DecommissionGreffon, DecommissionFails, HandlerReturns
<1>5. CASE RenewalStep(u)
  BY <1>2, <1>5 DEF RenewalStep, RenewalSkips, RenewalInstalls, RenewalDone
<1>6. CASE JobStep(u)
  BY <1>2, <1>6
  DEF JobStep, ThreadStarts, ThreadFails, ReleaseEarly, CallbackLost,
      CallbackAcked, UnlinkState, LockedJobReturns
<1>7. CASE BackupStep(u)
  BY <1>2, <1>7
  DEF BackupStep, BackupReadsStatus, BackupChecksMissing, BackupRaises,
      BackupMarks, BackupStops, BackupQuiesced, BackupStopTimeout,
      BackupSnapshots, BackupRestarts, BackupUnmarks
<1>8. CASE RestoreStep(u)
  BY <1>2, <1>8
  DEF RestoreStep, RestoreReadsStatus, RestoreStops, RestoreQuiesced,
      RestoreStopTimeout, RestoreTakesSafety, RestoreOpensPointer,
      RestoreWritesPointer, 
      RestoreRefusesVolumes, RestoreBeginsOverwrite, RestoreSkipsData,
      RestoreEndsOverwrite, RestoreStartsDb, RestoreLoadsDb,
      RestoreStartsAll, RestoreFinally, RestoreRestarts, RestoreTearsDown,
      RestoreTornDown, RestoreTeardownTimeout, RestoreOpensOutcome,
      RestoreSavesOutcome,
      RestoreReserves
<1> QED BY <1>3, <1>4, <1>5, <1>6, <1>7, <1>8 DEF ThreadStep

\* No thread touches the position or the locals of another one.
LEMMA OwnLocals ==
  ASSUME TypeOK, NEW t \in Threads, NEW u \in Threads, u # t,
         Admit(u) \/ ThreadStep(u)
  PROVE  pc'[t] = pc[t] /\ job'[t] = job[t]
<1> USE DEF TypeOK, memory, threads, Goto
<1>3. CASE Admit(u)
  BY <1>3
  DEF Admit, AcquireControl, SpawnBackup, SpawnRestore, AcquireRenewal,
      RenewalFindsBusy
<1>4. CASE ControlStep(u)
  BY <1>4
  DEF ControlStep, ClearHandoff, HandlerRefuses, StartGreffon, StopGreffon,
      DecommissionGreffon, DecommissionFails, HandlerReturns
<1>5. CASE RenewalStep(u)
  BY <1>5 DEF RenewalStep, RenewalSkips, RenewalInstalls, RenewalDone
<1>6. CASE JobStep(u)
  BY <1>6
  DEF JobStep, ThreadStarts, ThreadFails, ReleaseEarly, CallbackLost,
      CallbackAcked, UnlinkState, LockedJobReturns
<1>7. CASE BackupStep(u)
  BY <1>7
  DEF BackupStep, BackupReadsStatus, BackupChecksMissing, BackupRaises,
      BackupMarks, BackupStops, BackupQuiesced, BackupStopTimeout,
      BackupSnapshots, BackupRestarts, BackupUnmarks, Saw, HasStopped, Outcome
<1>8. CASE RestoreStep(u)
  <2> USE DEF Saw, EntersOverwrite, DbStarted, Outcome, GivesUp, OpenState,
    WriteState
  <2>1. CASE \/ RestoreReadsStatus(u) \/ RestoreStops(u) \/ RestoreQuiesced(u)
             \/ RestoreStopTimeout(u) \/ RestoreTakesSafety(u)
             \/ RestoreRefusesVolumes(u) \/ RestoreBeginsOverwrite(u)
             \/ RestoreSkipsData(u) \/ RestoreLoadsDb(u)
    BY <2>1
    DEF RestoreReadsStatus, RestoreStops, RestoreQuiesced, RestoreStopTimeout,
        RestoreTakesSafety, RestoreRefusesVolumes, RestoreBeginsOverwrite,
        RestoreSkipsData, RestoreLoadsDb
  <2>2. CASE RestoreOpensPointer(u) \/ RestoreWritesPointer(u)
    BY <2>2 DEF RestoreOpensPointer, RestoreWritesPointer
  <2>3. CASE RestoreOpensOutcome(u) \/ RestoreSavesOutcome(u)
    BY <2>3 DEF RestoreOpensOutcome, RestoreSavesOutcome
  <2>4. CASE \/ RestoreEndsOverwrite(u) \/ RestoreStartsDb(u)
             \/ RestoreStartsAll(u)
    BY <2>4 DEF RestoreEndsOverwrite, RestoreStartsDb, RestoreStartsAll
  <2>5. CASE \/ RestoreFinally(u) \/ RestoreRestarts(u) \/ RestoreTearsDown(u)
             \/ RestoreTornDown(u) \/ RestoreTeardownTimeout(u)
             \/ RestoreReserves(u)
    BY <2>5
    DEF RestoreFinally, RestoreRestarts, RestoreTearsDown, RestoreTornDown,
        RestoreTeardownTimeout, RestoreReserves
  <2> QED BY <1>8, <2>1, <2>2, <2>3, <2>4, <2>5 DEF RestoreStep
<1> QED BY <1>3, <1>4, <1>5, <1>6, <1>7, <1>8 DEF ThreadStep

\* What compose children do while nothing brings containers up.
LEMMA ChildrenOnlyStop ==
  ASSUME TypeOK, NoUps, NEW k \in ChildKinds, ChildWorks(k) \/ ChildExits(k)
  PROVE  /\ NoUps'
         /\ containers # "running" => containers' # "running"
         /\ Quiet => Quiet'
         /\ containers = "absent" => containers' = "absent"
<1> USE DEF TypeOK, ChildKinds, NoUps, Quiet
<1>1. k \in {"stop", "strayStop"}
  BY DEF ChildWorks, ChildExits
<1>2. CASE ChildWorks(k) BY <1>1, <1>2 DEF ChildWorks, IsUp
<1>3. CASE ChildExits(k)
  <2>1. NoUps' BY <1>1, <1>3 DEF ChildExits
  <2>2. \/ containers' = IF containers = "absent" THEN "absent" ELSE "stopped"
        \/ "docker" \in Faults /\ containers' = containers
    BY <1>1, <1>3 DEF ChildExits, IsUp, Fault
  <2> QED BY <2>1, <2>2
<1> QED BY <1>2, <1>3

LEMMA NoneAtWork ==
  ASSUME TypeOK, ~UpAtWork
  PROVE  NoUps
BY DEF TypeOK, UpAtWork, NoUps, ChildKinds

\* A thread's own step keeps what it relies on.
LEMMA OwnStep ==
  ASSUME TypeOK, RestoreInv, NEW t \in Threads, JobInv(t),
         Admit(t) \/ ThreadStep(t)
  PROVE  JobInv(t)'
<1> USE ConstantsAssumption DEF memory, threads, host, ledger, Goto,
  OpenState, WriteState, TypeOK,
  RestoreInv, RestorePcs, JobInv, UpFree, NoUps, JobPcs, BackupPcs, LocalsInv,
  StillInv, TearInv, Quiet, RestoreTouchesVolumes, Fault, Status,
  Jobs, RestoreOps, BackupOps, ControlOps, JobOps, ChildKinds
<1>1. CASE ControlStep(t)
  <2>1. CASE ClearHandoff(t) BY <2>1 DEF ClearHandoff
  <2>2. CASE HandlerRefuses(t) BY <2>2 DEF HandlerRefuses
  <2>3. CASE StartGreffon(t) BY <2>3 DEF StartGreffon, SpawnTracked
  <2>4. CASE StopGreffon(t) BY <2>4 DEF StopGreffon, SpawnTracked
  <2>5. CASE DecommissionGreffon(t) BY <2>5 DEF DecommissionGreffon
  <2>6. CASE DecommissionFails(t) BY <2>6 DEF DecommissionFails
  <2>7. CASE HandlerReturns(t) BY <2>7 DEF HandlerReturns, IdleJob
    <2> QED BY <1>1, <2>1, <2>2, <2>3, <2>4, <2>5, <2>6, <2>7 DEF ControlStep
<1>2. CASE RenewalStep(t)
  <2>1. CASE RenewalSkips(t) BY <2>1 DEF RenewalSkips
  <2>2. CASE RenewalInstalls(t) BY <2>2 DEF RenewalInstalls
  <2>3. CASE RenewalDone(t) BY <2>3 DEF RenewalDone
    <2> QED BY <1>2, <2>1, <2>2, <2>3 DEF RenewalStep
<1>3. CASE JobStep(t)
  <2>1. CASE ThreadStarts(t) BY <2>1 DEF ThreadStarts
  <2>2. CASE ThreadFails(t) BY <2>2 DEF ThreadFails, IdleJob
  <2>3. CASE ReleaseEarly(t) BY <2>3 DEF ReleaseEarly, IdleJob
  <2>4. CASE CallbackLost(t) BY <2>4 DEF CallbackLost
  <2>5. CASE CallbackAcked(t) BY <2>5 DEF CallbackAcked
  <2>6. CASE UnlinkState(t) BY <2>6 DEF UnlinkState
  <2>7. CASE LockedJobReturns(t) BY <2>7 DEF LockedJobReturns, IdleJob
    <2> QED BY <1>3, <2>1, <2>2, <2>3, <2>4, <2>5, <2>6, <2>7 DEF JobStep
<1>4. CASE BackupStep(t)
  <2>1. CASE BackupReadsStatus(t) BY <2>1 DEF BackupReadsStatus, Saw
  <2>2. CASE BackupChecksMissing(t) BY <2>2 DEF BackupChecksMissing
  <2>3. CASE BackupRaises(t) BY <2>3 DEF BackupRaises
  <2>4. CASE BackupMarks(t) BY <2>4 DEF BackupMarks
  <2>5. CASE BackupStops(t) BY <2>5 DEF BackupStops, HasStopped, SpawnStray
  <2>6. CASE BackupQuiesced(t) BY <2>6 DEF BackupQuiesced
  <2>7. CASE BackupStopTimeout(t) BY <2>7 DEF BackupStopTimeout
  <2>8. CASE BackupSnapshots(t) BY <2>8 DEF BackupSnapshots, Outcome
  <2>9. CASE BackupRestarts(t) BY <2>9 DEF BackupRestarts, UpReturns
  <2>10. CASE BackupUnmarks(t) BY <2>10 DEF BackupUnmarks
    <2> QED BY <1>4, <2>1, <2>2, <2>3, <2>4, <2>5, <2>6, <2>7, <2>8, <2>9,
    <2>10 DEF BackupStep
<1>5. CASE RestoreStep(t)
  <2>1. CASE RestoreReadsStatus(t) BY <2>1 DEF RestoreReadsStatus, Saw
  <2>2. CASE RestoreStops(t) BY <2>2 DEF RestoreStops, SpawnStray
  <2>3. CASE RestoreQuiesced(t) BY <2>3 DEF RestoreQuiesced
  <2>4. CASE RestoreStopTimeout(t) BY <2>4 DEF RestoreStopTimeout
  <2>5. CASE RestoreTakesSafety(t) BY <2>5 DEF RestoreTakesSafety
  <2>6. CASE RestoreWritesPointer(t) BY <2>6 DEF RestoreWritesPointer, EntersOverwrite
  <2>7. CASE RestoreRefusesVolumes(t) BY <2>7 DEF RestoreRefusesVolumes
  <2>8. CASE RestoreBeginsOverwrite(t) BY <2>8 DEF RestoreBeginsOverwrite
  <2>9. CASE RestoreSkipsData(t) BY <2>9 DEF RestoreSkipsData
  <2>10. CASE RestoreEndsOverwrite(t) BY <2>10 DEF RestoreEndsOverwrite, Outcome
  <2>11. CASE RestoreStartsDb(t) BY <2>11 DEF RestoreStartsDb, DbStarted
  <2>12. CASE RestoreLoadsDb(t) BY <2>12 DEF RestoreLoadsDb
  <2>13. CASE RestoreStartsAll(t) BY <2>13 DEF RestoreStartsAll, UpReturns, Outcome
  <2>14. CASE RestoreFinally(t) BY <2>14 DEF RestoreFinally
  <2>15. CASE RestoreRestarts(t) BY <2>15 DEF RestoreRestarts, UpReturns
  <2>16. CASE RestoreTearsDown(t) BY <2>16 DEF RestoreTearsDown, SpawnTracked
  <2>17. CASE RestoreTornDown(t) BY <2>17 DEF RestoreTornDown
  <2>18. CASE RestoreTeardownTimeout(t)
    BY <2>18 DEF RestoreTeardownTimeout, GivesUp
  <2>19. CASE RestoreSavesOutcome(t) BY <2>19 DEF RestoreSavesOutcome
  <2>20. CASE RestoreReserves(t) BY <2>20 DEF RestoreReserves
  <2>21. CASE RestoreOpensPointer(t)
    BY <2>21 DEF RestoreOpensPointer, EntersOverwrite
  <2>22. CASE RestoreOpensOutcome(t)
    BY <2>22 DEF RestoreOpensOutcome
    <2> QED BY <1>5, <2>1, <2>2, <2>3, <2>4, <2>5, <2>6, <2>7, <2>8, <2>9,
    <2>10, <2>11, <2>12, <2>13, <2>14, <2>15, <2>16, <2>17, <2>18, <2>19,
    <2>20, <2>21, <2>22 DEF RestoreStep
<1>6. CASE Admit(t)
  <2>1. ASSUME NEW o \in AllOps, AcquireControl(t, o) PROVE JobInv(t)'
    <3>1. /\ pc'[t] = "clear" /\ kids' = kids
          /\ ~job'[t].db /\ job'[t].raced = UpAtWork
      BY <2>1, AdmittedIs DEF AcquireControl
    <3>2. ~UpAtWork => NoUps BY NoneAtWork
    <3> QED BY <3>1, <3>2
  <2>2. ASSUME NEW o \in AllOps, SpawnBackup(t, o) PROVE JobInv(t)'
    <3>1. /\ pc'[t] = "spawn" /\ kids' = kids
          /\ ~job'[t].db /\ job'[t].raced = UpAtWork
      BY <2>2, AdmittedIs DEF SpawnBackup
    <3>2. ~UpAtWork => NoUps BY NoneAtWork
    <3> QED BY <3>1, <3>2
  <2>3. ASSUME NEW o \in AllOps, NEW r \in Restores, SpawnRestore(t, o, r)
        PROVE JobInv(t)'
    <3>1. /\ pc'[t] = "spawn" /\ kids' = kids
          /\ ~job'[t].db /\ job'[t].raced = UpAtWork
      BY <2>3, AdmittedIs DEF SpawnRestore
    <3>2. ~UpAtWork => NoUps BY NoneAtWork
    <3> QED BY <3>1, <3>2
  <2>4. CASE AcquireRenewal(t) BY <2>4 DEF AcquireRenewal, IdleJob
  <2>5. CASE RenewalFindsBusy(t) BY <2>5 DEF RenewalFindsBusy
  <2> QED BY <1>6, <2>1, <2>2, <2>3, <2>4, <2>5 DEF Admit
<1> QED BY <1>1, <1>2, <1>3, <1>4, <1>5, <1>6 DEF ThreadStep

\* Every step keeps what every thread relies on.
LEMMA QuiesceStep ==
  ASSUME TypeOK, LockInv, RestoreInv, RidInv, QuiesceInv, [Next]_vars
  PROVE  QuiesceInv'
<1> SUFFICES ASSUME NEW t \in Threads PROVE JobInv(t)' BY DEF QuiesceInv
<1>a. JobInv(t) BY DEF QuiesceInv
<1> USE DEF memory, threads, host, ledger
<1>1. ASSUME NEW u \in Threads, Admit(u) \/ ThreadStep(u) PROVE JobInv(t)'
  <2>1. CASE u = t BY <1>1, <1>a, <2>1, OwnStep
  <2>2. CASE u # t /\ Critical(t)
    BY <1>1, <1>a, <2>2, OthersLeaveAlone, UnmovedKeeps
  <2>3. CASE u # t /\ ~Critical(t)
    <3>1. pc'[t] = pc[t] /\ job'[t] = job[t] BY <1>1, <2>3, OwnLocals
    <3> QED BY <1>a, <2>3, <3>1, OutsideKeeps DEF Critical
  <2> QED BY <2>1, <2>2, <2>3
<1>2. ASSUME NEW k \in ChildKinds, ChildWorks(k) \/ ChildExits(k)
      PROVE JobInv(t)'
  <2>1. pc' = pc /\ job' = job BY <1>2 DEF ChildWorks, ChildExits
  <2>2. CASE UpFree(t)
    <3>1. NoUps BY <1>a, <2>2 DEF JobInv
    <3>2. UpFree(t)' BY <2>1, <2>2 DEF UpFree
    <3>3. LocalsInv(t)' BY <1>a, <2>1 DEF JobInv, LocalsInv
    <3>4. NoUps' /\ StillInv(t)'
      BY <1>2, <1>a, <2>1, <3>1, ChildrenOnlyStop
      DEF JobInv, StillInv, RestoreTouchesVolumes
    <3>5. TearInv(t)'
      BY <1>2, <1>a, <2>1, <3>1, ChildrenOnlyStop DEF JobInv, TearInv
    <3> QED BY <3>3, <3>4, <3>5 DEF JobInv
  <2>3. CASE ~UpFree(t)
    BY <1>a, <2>1, <2>3
    DEF JobInv, UpFree, JobPcs, LocalsInv, StillInv, TearInv,
        RestoreTouchesVolumes
  <2> QED BY <2>2, <2>3
<1>3. CASE WaiterReturns
  BY <1>3, <1>a, UnmovedKeeps DEF WaiterReturns, Unmoved
<1>4. CASE HandoffLapses
  BY <1>4, <1>a, UnmovedKeeps DEF HandoffLapses, Unmoved
<1>5. CASE ContainerDies
  BY <1>5, <1>a
  DEF ContainerDies, JobInv, UpFree, NoUps, LocalsInv, StillInv, TearInv, Quiet, RestoreTouchesVolumes
<1>6. CASE Crash
  BY <1>6, <1>a, OutsideKeeps DEF Crash
<1>7. CASE Boot
  <2>1. phase # "serving" /\ pc' = pc /\ job' = job
    BY <1>7 DEF Boot, BootRestarts, BootReposts
  <2>2. pc[t] = "idle" BY <2>1 DEF RidInv
  <2> QED BY <1>a, <2>1, <2>2, OutsideKeeps
<1>8. CASE UNCHANGED vars
  BY <1>8, <1>a, UnmovedKeeps DEF vars, Unmoved
<1> QED BY <1>1, <1>2, <1>3, <1>4, <1>5, <1>6, <1>7, <1>8 DEF Next, Child

\* A thread that can start nothing does not, on an instance with no container,
\* and can start nothing after its step unless it was asked to.
LEMMA OnlyStartsStart ==
  ASSUME TypeOK, RestoreInv, NEW t \in Threads, Admit(t) \/ ThreadStep(t),
         StartsNothing(t), NoUps, containers = "absent", gone' = "clean"
  PROVE  StartsNothing(t)' /\ NoUps' /\ containers' = "absent"
<1> USE ConstantsAssumption DEF TypeOK, JobPcs, NoUps, memory, threads, host,
  ledger, Goto, ChildKinds, StartsNothing, IdleBackup
<1>1. CASE ControlStep(t)
  <2>1. CASE ClearHandoff(t) BY <2>1 DEF ClearHandoff
  <2>2. CASE HandlerRefuses(t) BY <2>2 DEF HandlerRefuses
  <2>3. CASE StartGreffon(t) BY <2>3 DEF StartGreffon
  <2>4. CASE StopGreffon(t) BY <2>4 DEF StopGreffon, SpawnTracked
  <2>5. CASE DecommissionGreffon(t) BY <2>5 DEF DecommissionGreffon
  <2>6. CASE DecommissionFails(t) BY <2>6 DEF DecommissionFails
  <2>7. CASE HandlerReturns(t) BY <2>7 DEF HandlerReturns
  <2> QED BY <1>1, <2>1, <2>2, <2>3, <2>4, <2>5, <2>6, <2>7 DEF ControlStep
<1>2. CASE RenewalStep(t)
  BY <1>2 DEF RenewalStep, RenewalSkips, RenewalInstalls, RenewalDone
<1>3. CASE JobStep(t)
  <2>1. CASE CallbackAcked(t) BY <2>1 DEF CallbackAcked
  <2>2. CASE ThreadStarts(t) BY <2>2 DEF ThreadStarts
  <2>3. CASE ThreadFails(t) \/ ReleaseEarly(t) \/ LockedJobReturns(t)
    BY <2>3 DEF ThreadFails, ReleaseEarly, LockedJobReturns
  <2>4. CASE CallbackLost(t) \/ UnlinkState(t)
    BY <2>4 DEF CallbackLost, UnlinkState
  <2> QED BY <1>3, <2>1, <2>2, <2>3, <2>4 DEF JobStep
<1>4. CASE BackupStep(t)
  <2>1. CASE BackupReadsStatus(t) BY <2>1 DEF BackupReadsStatus, Saw, Jobs
  <2>2. CASE BackupChecksMissing(t)
    <3>1. Status(containers) = "unknow" BY DEF Status
    <3>2. pc' = [pc EXCEPT ![t] = "bk_unmark"]
      BY <2>2, <3>1 DEF BackupChecksMissing
    <3> QED BY <2>2, <3>2 DEF BackupChecksMissing
  <2>3. CASE BackupRaises(t) BY <2>3 DEF BackupRaises
  <2>4. CASE BackupUnmarks(t) BY <2>4 DEF BackupUnmarks
  <2> QED
    BY <1>4, <2>1, <2>2, <2>3, <2>4
    DEF BackupStep, BackupMarks, BackupStops, BackupQuiesced,
        BackupStopTimeout, BackupSnapshots, BackupRestarts
<1>5. CASE RestoreStep(t)
  BY <1>5
  DEF RestoreStep, RestoreReadsStatus, RestoreStops, RestoreQuiesced,
      RestoreStopTimeout, RestoreTakesSafety, RestoreOpensPointer,
      RestoreWritesPointer, RestoreRefusesVolumes, RestoreBeginsOverwrite,
      RestoreSkipsData, RestoreEndsOverwrite, RestoreStartsDb, RestoreLoadsDb,
      RestoreStartsAll, RestoreFinally, RestoreRestarts, RestoreTearsDown,
      RestoreTornDown, RestoreTeardownTimeout, RestoreOpensOutcome,
      RestoreSavesOutcome, RestoreReserves
<1>6. CASE Admit(t)
  <2>1. ASSUME NEW o \in AllOps, AcquireControl(t, o)
        PROVE  /\ NoUps' = NoUps /\ containers' = containers
               /\ pc'[t] = "clear" /\ job'[t].op = o /\ o # "start"
    BY <2>1, AdmittedIs DEF AcquireControl
  <2>2. ASSUME NEW o \in AllOps, SpawnBackup(t, o)
        PROVE  /\ NoUps' = NoUps /\ containers' = containers
               /\ pc'[t] = "spawn" /\ job'[t].op = o /\ o \in BackupOps
    BY <2>2, AdmittedIs DEF SpawnBackup, UpAtWork
  <2>3. ASSUME NEW o \in AllOps, NEW r \in Restores, SpawnRestore(t, o, r)
        PROVE FALSE
    BY <2>3, AdmittedIs DEF SpawnRestore
  <2>4. CASE AcquireRenewal(t) BY <2>4 DEF AcquireRenewal
  <2>5. CASE RenewalFindsBusy(t) BY <2>5 DEF RenewalFindsBusy
  <2> QED BY <1>6, <2>1, <2>2, <2>3, <2>4, <2>5 DEF Admit
<1> QED BY <1>1, <1>2, <1>3, <1>4, <1>5, <1>6 DEF ThreadStep

\* Only a decommission that succeeds says so.
LEMMA GoneByDecommission ==
  ASSUME NEW t \in Threads, Admit(t) \/ ThreadStep(t), gone # "clean",
         gone' = "clean"
  PROVE  DecommissionGreffon(t)
<1> USE DEF ledger
<1>1. CASE ControlStep(t)
  BY <1>1
  DEF ControlStep, ClearHandoff, HandlerRefuses, StartGreffon, StopGreffon,
      DecommissionFails, HandlerReturns
<1>2. CASE RenewalStep(t)
  BY <1>2 DEF RenewalStep, RenewalSkips, RenewalInstalls, RenewalDone
<1>3. CASE JobStep(t)
  BY <1>3
  DEF JobStep, ThreadStarts, ThreadFails, ReleaseEarly, CallbackLost,
      CallbackAcked, UnlinkState, LockedJobReturns
<1>4. CASE BackupStep(t)
  BY <1>4
  DEF BackupStep, BackupReadsStatus, BackupChecksMissing, BackupRaises,
      BackupMarks, BackupStops, BackupQuiesced, BackupStopTimeout,
      BackupSnapshots, BackupRestarts, BackupUnmarks
<1>5. CASE RestoreStep(t)
  BY <1>5
  DEF RestoreStep, RestoreReadsStatus, RestoreStops, RestoreQuiesced,
      RestoreStopTimeout, RestoreTakesSafety, RestoreOpensPointer,
      RestoreWritesPointer, 
      RestoreRefusesVolumes, RestoreBeginsOverwrite, RestoreSkipsData,
      RestoreEndsOverwrite, RestoreStartsDb, RestoreLoadsDb,
      RestoreStartsAll, RestoreFinally, RestoreRestarts, RestoreTearsDown,
      RestoreTornDown, RestoreTeardownTimeout, RestoreOpensOutcome,
      RestoreSavesOutcome,
      RestoreReserves
<1>6. CASE Admit(t)
  BY <1>6
  DEF Admit, AcquireControl, SpawnBackup, SpawnRestore, AcquireRenewal,
      RenewalFindsBusy
<1> QED BY <1>1, <1>2, <1>3, <1>4, <1>5, <1>6 DEF ThreadStep

\* A clean decommission leaves nothing behind that could undo it, and nothing
\* that is not asked for does.
LEMMA GoneStep ==
  ASSUME TypeOK, LockInv, RestoreInv, QuiesceInv, GoneInv, [Next]_vars
  PROVE  GoneInv'
<1> SUFFICES ASSUME gone' = "clean"
             PROVE  /\ containers' = "absent"
                    /\ NoUps'
                    /\ \A t \in Threads : StartsNothing(t)'
  BY DEF GoneInv
<1> USE DEF memory, threads, host, ledger, GoneInv
<1>1. ASSUME NEW u \in Threads, Admit(u) \/ ThreadStep(u), gone = "clean"
      PROVE  GoneInv'
  <2>1. StartsNothing(u)' /\ NoUps' /\ containers' = "absent"
    BY <1>1, OnlyStartsStart
  <2>2. \A v \in Threads \ {u} : pc'[v] = pc[v] /\ job'[v] = job[v]
    BY <1>1, OwnLocals
  <2>3. \A v \in Threads \ {u} : StartsNothing(v)'
    BY <1>1, <2>2 DEF StartsNothing, IdleBackup
  <2> QED BY <1>1, <2>1, <2>3
<1>2. ASSUME NEW u \in Threads, Admit(u) \/ ThreadStep(u), gone # "clean"
      PROVE  GoneInv'
  <2>1. DecommissionGreffon(u) BY <1>2, GoneByDecommission
  <2>2. UpFree(u) /\ Critical(u)
    BY <2>1 DEF DecommissionGreffon, UpFree, Critical
  <2>3. NoUps BY <2>2 DEF QuiesceInv, JobInv
  <2>4. containers' = "absent" /\ NoUps' /\ job' = job
    BY <2>1, <2>3 DEF DecommissionGreffon, NoUps
  <2>5. pc' = [pc EXCEPT ![u] = "fin"]
    BY <2>1 DEF DecommissionGreffon, Goto
  <2>6. \A v \in Threads \ {u} : ~Critical(v)
    BY <2>2 DEF LockInv
  <2>7. \A v \in Threads : pc'[v] \notin JobPcs \cup {"clear", "handler"}
    BY <2>5, <2>6 DEF TypeOK, Critical, JobPcs
  <2> QED BY <2>4, <2>7 DEF StartsNothing
<1>3. CASE /\ gone = "clean" /\ pc' = pc /\ job' = job
           /\ NoUps' /\ containers' = "absent"
  BY <1>3 DEF StartsNothing, IdleBackup
<1>4. ASSUME NEW k \in ChildKinds, ChildWorks(k) \/ ChildExits(k)
      PROVE  GoneInv'
  BY <1>3, <1>4, ChildrenOnlyStop DEF ChildWorks, ChildExits
<1>5. CASE WaiterReturns \/ HandoffLapses \/ ContainerDies
  BY <1>3, <1>5 DEF WaiterReturns, HandoffLapses, ContainerDies, NoUps
<1>6. CASE Crash
  <2>1. containers = "absent" /\ NoUps /\ ~UpWaited
    BY <1>6 DEF Crash, UpWaited, StartsNothing, IdleBackup, JobPcs, Status
  <2>2. containers' = "absent"
    <3>1. CASE containers' = containers BY <2>1, <3>1
    <3>2. CASE CutShort
      BY <1>6, <2>1, <3>2
      DEF Crash, CutShort, StartsNothing, IdleBackup, JobPcs
    <3> QED BY <1>6, <3>1, <3>2 DEF Crash
  <2>3. NoUps' BY <1>6, <2>1 DEF Crash, NoUps, NoKids, ChildKinds
  <2>4. \A t \in Threads : pc'[t] = "idle" BY <1>6 DEF Crash
  <2> QED BY <2>2, <2>3, <2>4 DEF JobPcs, StartsNothing
<1>7. CASE Boot
  <2>1. gone = "clean" /\ pc' = pc /\ job' = job /\ kids' = kids
    BY <1>7 DEF Boot, BootRestarts, BootReposts
  <2>2. containers' = "absent"
    BY <1>7, <2>1 DEF Boot, BootRestarts, BootReposts, Status
  <2> QED BY <1>3, <2>1, <2>2 DEF NoUps
<1>8. CASE UNCHANGED vars
  BY <1>3, <1>8 DEF vars, NoUps
<1> QED BY <1>1, <1>2, <1>4, <1>5, <1>6, <1>7, <1>8 DEF Next, Child

\* Every job and every decommission that was admitted with no up at work has
\* the containers to itself until it ends.
THEOREM QuiesceInvariant == Spec => [](RidInv /\ QuiesceInv)
<1>1. Init => RidInv
  BY ConstantsAssumption DEF Init, RidInv, IdleJob
<1>2. ASSUME Init, NEW t \in Threads PROVE JobInv(t)
  <2>1. pc[t] = "idle" /\ ~job[t].db BY <1>2 DEF Init, IdleJob
  <2> QED
    BY <2>1
    DEF JobInv, UpFree, JobPcs, BackupPcs, LocalsInv, StillInv, TearInv,
        RestoreTouchesVolumes
<1>3. BaseInv /\ RidInv /\ QuiesceInv /\ [Next]_vars
        => (RidInv /\ QuiesceInv)'
  BY RidStep, QuiesceStep DEF BaseInv
<1>4. Init => QuiesceInv BY <1>2 DEF QuiesceInv
<1> QED BY <1>1, <1>3, <1>4, BaseInvariant, PTL DEF Spec

\* A cold backup reads the status twice and waits in between; whatever the
\* compose children, the dying containers and the other threads do, and
\* whatever docker and the waits fail at, it never snapshots an instance with
\* a container up, unless an up was at work when it was admitted.
THEOREM ColdSnapshotSafe == Spec => []ColdSnapshotQuiescent
<1>1. QuiesceInv => ColdSnapshotQuiescent
  BY DEF QuiesceInv, JobInv, StillInv, ColdSnapshotQuiescent
<1> QED BY <1>1, QuiesceInvariant, PTL

\* A restore that saw the instance whole, with no up at work, takes its safety
\* snapshot and overwrites the volumes with every container down, under any
\* fault.
THEOREM OverwriteSafe == Spec => []OverwriteQuiescentIfWhole
<1>1. QuiesceInv => OverwriteQuiescentIfWhole
  BY DEF QuiesceInv, JobInv, StillInv, OverwriteQuiescentIfWhole
<1> QED BY <1>1, QuiesceInvariant, PTL

\* A failed database restore releases the lock with everything down, unless
\* it gave up on the teardown or an up was at work since its admission.
THEOREM AbortedRestoreDown == Spec => []AbortTearsDown
<1>1. QuiesceInv => AbortTearsDown
  BY DEF QuiesceInv, JobInv, TearInv, AbortTearsDown
<1> QED BY <1>1, QuiesceInvariant, PTL

\* A decommission that removed the containers with no up at work beside it is
\* not undone by a compose child, a backup, a crash or the boot that follows.
THEOREM DecommissionFinal == Spec => []DecommissionSticks
<1>1. Init => GoneInv BY DEF Init, GoneInv
<1>2. BaseInv /\ (RidInv /\ QuiesceInv) /\ GoneInv /\ [Next]_vars => GoneInv'
  BY GoneStep DEF BaseInv
<1>3. GoneInv => DecommissionSticks BY DEF GoneInv, DecommissionSticks
<1> QED BY <1>1, <1>2, <1>3, BaseInvariant, QuiesceInvariant, PTL DEF Spec

=============================================================================
