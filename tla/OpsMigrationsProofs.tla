------------------------ MODULE OpsMigrationsProofs -------------------------
(***************************************************************************)
(* The batch of operations migrations, for any number of processes,        *)
(* volumes and files and every set of faults: what it records was done,    *)
(* the sentinel goes only after its entry is written, and the batches of   *)
(* all processes together implement MigrationContract.                     *)
(***************************************************************************)
EXTENDS OpsMigrations, TLAPS

\* Steps between the flock and its release, and those of a migration.
Inside == Labels \ {"idle", "lock", "exit"}
AtWork == {"run", "create", "copy"}

\* A process is inside with the flock only, its in-memory ledger is the one on
\* disk or, after a read that failed, empty, and it seeds and unlinks for a
\* reason.
Sound(p) ==
  /\ pc[p] \in Inside => lock = p
  /\ pc[p] \in Inside \ {"load"} => view[p] = ledger \/ view[p] = {}
  /\ pc[p] = "seed" => sentinel
  /\ pc[p] = "unlink" => "0001" \in ledger
  /\ pc[p] \in AtWork => at[p] \in 1..3
  /\ pc[p] \in {"create", "copy"} =>
       Current(p) \in Required /\ item[p] \in Volumes

LedgerInv ==
  /\ ledger \subseteq Required /\ lost \subseteq Required
  /\ lock # NoProc => pc[lock] \in Inside
  /\ \A p \in Procs : Sound(p)

\* What the boot batch has behind it, unless it will exit with an error.
BootInv ==
  /\ opts[Boot] = NoFlags /\ pc[Boot] # "finish"
  /\ pc[Boot] \in {"seed", "unlink"} => at[Boot] = 1
  /\ ~failed[Boot] =>
       /\ pc[Boot] \in {"next"} \cup AtWork =>
            /\ at[Boot] > 1 => "0001" \in view[Boot]
            /\ at[Boot] > 3 => "0003" \in view[Boot]
       /\ pc[Boot] = "exit" => skipEnv \/ ledger \cup lost = Required

USE DEF Goto, NoFault

-----------------------------------------------------------------------------

\* The ids by their position.
LEMMA CurrentIs ==
  ASSUME NEW p \in Procs
  PROVE  /\ at[p] = 1 => Current(p) = "0001"
         /\ at[p] = 2 => Current(p) = "0002"
         /\ at[p] = 3 => Current(p) = "0003"
         /\ at[p] \notin 1..3 => Current(p) = "none"
BY DEF Current, AllMigrations

LEMMA FaultTyped == TypeOK /\ (NoFault \/ \E f \in Faults : Fault(f)) => faults' \in Nat
BY DEF TypeOK, Fault

\* A batch that returns keeps the types.
LEMMA ReturnsTyped ==
  ASSUME TypeOK, NEW p \in Procs, Returns(p), faults' \in Nat,
         failed' \in [Procs -> BOOLEAN]
  PROVE  TypeOK'
<1>. USE DEF Returns, disk, data, node
<1>1. pc' \in [Procs -> Labels] /\ view' \in [Procs -> SUBSET Ids]
  BY DEF TypeOK, Labels
<1>2. at' \in [Procs -> 1..4]
  BY DEF TypeOK
<1>3. opts' \in [Procs -> Options]
  <2>1. NoFlags \in Options
    BY DEF NoFlags, Options
  <2>. QED
    BY <2>1 DEF TypeOK
<1>4. /\ todo' \in [Procs -> SUBSET (Volumes \cup Files)]
      /\ item' \in [Procs -> Volumes \cup {NoVolume}]
  BY DEF TypeOK
<1>5. errs' \in [Procs -> BOOLEAN]
  BY DEF TypeOK
<1>. QED
  BY <1>1, <1>2, <1>3, <1>4, <1>5 DEF TypeOK

\* A process that is gone has its initial memory.
LEMMA GoneTyped ==
  ASSUME TypeOK, NEW p \in Procs, Gone(p)
  PROVE  /\ pc' \in [Procs -> Labels] /\ opts' \in [Procs -> Options]
         /\ view' \in [Procs -> SUBSET Ids] /\ at' \in [Procs -> 1..4]
         /\ todo' \in [Procs -> SUBSET (Volumes \cup Files)]
         /\ item' \in [Procs -> Volumes \cup {NoVolume}]
         /\ errs' \in [Procs -> BOOLEAN] /\ failed' \in [Procs -> BOOLEAN]
<1>1. pc' \in [Procs -> Labels] /\ view' \in [Procs -> SUBSET Ids]
  BY DEF Gone, TypeOK, Labels
<1>2. at' \in [Procs -> 1..4]
  BY DEF Gone, TypeOK
<1>3. opts' \in [Procs -> Options]
  <2>1. NoFlags \in Options
    BY DEF NoFlags, Options
  <2>. QED
    BY <2>1 DEF Gone, TypeOK
<1>4. /\ todo' \in [Procs -> SUBSET (Volumes \cup Files)]
      /\ item' \in [Procs -> Volumes \cup {NoVolume}]
  BY DEF Gone, TypeOK
<1>5. errs' \in [Procs -> BOOLEAN] /\ failed' \in [Procs -> BOOLEAN]
  BY DEF Gone, TypeOK
<1>. QED
  BY <1>1, <1>2, <1>3, <1>4, <1>5

\* An exception keeps the types.
LEMMA RaisesTyped ==
  ASSUME TypeOK, NEW p \in Procs, Raises(p), faults' \in Nat
  PROVE  TypeOK'
<1>1. failed' \in [Procs -> BOOLEAN]
  BY DEF Raises, TypeOK
<1>. QED
  BY <1>1, ReturnsTyped DEF Raises

\* A record of ids keeps the types.
LEMMA RecordsTyped ==
  ASSUME TypeOK, NEW p \in Procs, NEW ids \in SUBSET Ids, Records(p, ids)
  PROVE  /\ view' \in [Procs -> SUBSET Ids] /\ ledger' \subseteq Ids
         /\ damage' = "none" /\ lost' \subseteq Ids
BY DEF Records, TypeOK

\* Every action keeps the types.
LEMMA TypeStep == TypeOK /\ LedgerInv /\ [Next]_vars => TypeOK'
<1>. SUFFICES ASSUME TypeOK, LedgerInv, [Next]_vars PROVE TypeOK'
  OBVIOUS
<1>. USE MigrationConstants DEF disk, data, node, local
<1>1. ASSUME NEW p \in Procs, Step(p) PROVE TypeOK'
  <2>1. CASE Launch(p)
    <3>1. opts' \in [Procs -> Options]
      <4>1. NoFlags \in Options
        BY DEF NoFlags, Options
      <4>. QED
        BY <2>1, <4>1 DEF Launch, TypeOK
    <3>2. manual' \in Nat
      BY <2>1 DEF Launch, TypeOK
    <3>3. pc' \in [Procs -> Labels]
      BY <2>1 DEF Launch, TypeOK, Labels
    <3>. QED
      BY <2>1, <3>1, <3>2, <3>3 DEF Launch, TypeOK
  <2>2. CASE TakeLock(p)
    BY <2>2 DEF TakeLock, TypeOK, Labels
  <2>3. CASE LoadLedger(p)
    <3>0. faults' \in Nat
      BY <2>3 DEF LoadLedger, TypeOK, Fault
    <3>1. CASE Raises(p)
      BY <3>0, <3>1, RaisesTyped
    <3>2. CASE ~Raises(p)
      <4>1. pc' \in [Procs -> Labels]
        BY <2>3, <3>2 DEF LoadLedger, TypeOK, Labels
      <4>2. view' \in [Procs -> SUBSET Ids]
        BY <2>3, <3>2 DEF LoadLedger, TypeOK
      <4>3. at' \in [Procs -> 1..4]
        BY <2>3, <3>2 DEF LoadLedger, TypeOK
      <4>. QED
        BY <2>3, <3>0, <3>2, <4>1, <4>2, <4>3 DEF LoadLedger, TypeOK
    <3>. QED
      BY <3>1, <3>2
  <2>4. CASE SeedLedger(p)
    <3>1. CASE Fault("disk") /\ Raises(p)
      BY <3>1, RaisesTyped DEF Fault, TypeOK
    <3>2. CASE ~(Fault("disk") /\ Raises(p))
      <4>1. view[p] \cup {"0001"} \subseteq Ids
        BY DEF TypeOK, Ids
      <4>2. pc' \in [Procs -> Labels]
        BY <2>4, <3>2 DEF SeedLedger, TypeOK, Labels
      <4>. QED
        BY <2>4, <3>2, <4>1, <4>2, RecordsTyped DEF SeedLedger, TypeOK
    <3>. QED
      BY <2>4, <3>1, <3>2 DEF SeedLedger
  <2>5. CASE UnlinkSentinel(p)
    BY <2>5, FaultTyped DEF UnlinkSentinel, TypeOK, Labels, Fault
  <2>6. CASE SkipMigration(p)
    <3>1. at' \in [Procs -> 1..4]
      BY <2>6 DEF SkipMigration, TypeOK
    <3>. QED
      BY <2>6, <3>1 DEF SkipMigration, TypeOK
  <2>7. CASE BeginMigration(p)
    <3>1. todo' \in [Procs -> SUBSET (Volumes \cup Files)]
      BY <2>7 DEF BeginMigration, Scanned, TypeOK
    <3>2. pc' \in [Procs -> Labels] /\ errs' \in [Procs -> BOOLEAN]
      BY <2>7 DEF BeginMigration, TypeOK, Labels
    <3>3. torn' \subseteq Volumes /\ faults' \in Nat
      BY <2>7 DEF BeginMigration, Scanned, TypeOK, Fault
    <3>. QED
      BY <2>7, <3>1, <3>2, <3>3 DEF BeginMigration, TypeOK
  <2>8. ASSUME NEW v \in Volumes, ExamineVolume(p, v) PROVE TypeOK'
    <3>1. /\ pc' \in [Procs -> Labels]
          /\ todo' \in [Procs -> SUBSET (Volumes \cup Files)]
          /\ item' \in [Procs -> Volumes \cup {NoVolume}]
      BY <2>8 DEF ExamineVolume, TypeOK, Labels
    <3>2. torn' \subseteq Volumes
      BY <2>8 DEF ExamineVolume, TypeOK
    <3>3. faults' \in Nat
      BY <2>8 DEF ExamineVolume, TypeOK, Fault
    <3>. QED
      BY <2>8, <3>1, <3>2, <3>3 DEF ExamineVolume, TypeOK
  <2>9. CASE CreateVolume(p)
    <3>1. /\ pc' \in [Procs -> Labels]
          /\ todo' \in [Procs -> SUBSET (Volumes \cup Files)]
      BY <2>9 DEF CreateVolume, ItemFails, ItemDone, TypeOK, Labels
    <3>4. errs' \in [Procs -> BOOLEAN]
      BY <2>9 DEF CreateVolume, ItemFails, TypeOK
    <3>2. target' \in [Volumes -> {"absent", "partial", "full"}]
      BY <2>9 DEF CreateVolume, TypeOK
    <3>3. faults' \in Nat
      BY <2>9 DEF CreateVolume, TypeOK, Fault
    <3>5. item' \in [Procs -> Volumes \cup {NoVolume}]
      BY <2>9 DEF CreateVolume, ItemFails, ItemDone, TypeOK
    <3>. QED
      BY <2>9, <3>1, <3>2, <3>3, <3>4, <3>5 DEF CreateVolume, TypeOK
  <2>10. CASE CopyVolume(p)
    <3>0. item[p] \in Volumes
      BY <2>10 DEF CopyVolume, LedgerInv, Sound
    <3>1. /\ pc' \in [Procs -> Labels]
          /\ todo' \in [Procs -> SUBSET (Volumes \cup Files)]
      BY <2>10 DEF CopyVolume, ItemFails, ItemDone, TypeOK, Labels
    <3>4. errs' \in [Procs -> BOOLEAN]
      BY <2>10 DEF CopyVolume, ItemFails, TypeOK
    <3>2. /\ target' \in [Volumes -> {"absent", "partial", "full"}]
          /\ torn' \subseteq Volumes
      BY <2>10, <3>0 DEF CopyVolume, TypeOK
    <3>3. faults' \in Nat
      BY <2>10 DEF CopyVolume, TypeOK, Fault
    <3>5. item' \in [Procs -> Volumes \cup {NoVolume}]
      BY <2>10 DEF CopyVolume, ItemFails, ItemDone, TypeOK
    <3>. QED
      BY <2>10, <3>1, <3>2, <3>3, <3>4, <3>5 DEF CopyVolume, TypeOK
  <2>11. ASSUME NEW f \in Files, PurgeFile(p, f) PROVE TypeOK'
    <3>1. errs' \in [Procs -> BOOLEAN]
      BY <2>11 DEF PurgeFile, TypeOK
    <3>2. /\ todo' \in [Procs -> SUBSET (Volumes \cup Files)]
          /\ strays' \subseteq Files
      BY <2>11 DEF PurgeFile, TypeOK
    <3>. QED
      BY <2>11, <3>1, <3>2 DEF PurgeFile, TypeOK
  <2>12. CASE RunRaises(p)
    <3>1. errs' \in [Procs -> BOOLEAN]
      BY <2>12 DEF RunRaises, TypeOK
    <3>2. /\ todo' \in [Procs -> SUBSET (Volumes \cup Files)]
          /\ faults' \in Nat
      BY <2>12 DEF RunRaises, Fault, TypeOK
    <3>. QED
      BY <2>12, <3>1, <3>2 DEF RunRaises, TypeOK
  <2>13. CASE EndOfRun(p)
    <3>1. failed' \in [Procs -> BOOLEAN] /\ errs' \in [Procs -> BOOLEAN]
      BY <2>13 DEF EndOfRun, TypeOK
    <3>2. pc' \in [Procs -> Labels]
      BY <2>13 DEF EndOfRun, TypeOK, Labels
    <3>3. at[p] \in 1..3
      BY <2>13 DEF EndOfRun, LedgerInv, Sound, AtWork
    <3>4. at' \in [Procs -> 1..4]
      BY <2>13, <3>3 DEF EndOfRun, TypeOK
    <3>. QED
      BY <2>13, <3>1, <3>2, <3>4 DEF EndOfRun, TypeOK
  <2>14. CASE MarkApplied(p)
    <3>1. CASE Fault("disk") /\ Raises(p)
      BY <3>1, RaisesTyped DEF Fault, TypeOK
    <3>2. CASE ~(Fault("disk") /\ Raises(p))
      <4>1. view[p] \cup {Current(p)} \subseteq Ids
        BY <2>14 DEF MarkApplied, TypeOK, Ids, Required
      <4>2. pc' \in [Procs -> Labels]
        BY <2>14, <3>2 DEF MarkApplied, TypeOK, Labels
      <4>3. at[p] \in 1..3
        BY <2>14 DEF MarkApplied, LedgerInv, Sound, AtWork
      <4>4. at' \in [Procs -> 1..4]
        BY <2>14, <3>2, <4>3 DEF MarkApplied, TypeOK
      <4>. QED
        BY <2>14, <3>2, <4>1, <4>2, <4>4, RecordsTyped DEF MarkApplied, TypeOK
    <3>. QED
      BY <3>1, <3>2
  <2>15. CASE FinishBatch(p)
    BY <2>15, ReturnsTyped DEF FinishBatch, TypeOK
  <2>16. CASE Exit(p)
    <3>1. serving' \in BOOLEAN
      BY <2>16 DEF Exit
    <3>2. Gone(p)
      BY <2>16 DEF Exit
    <3>. QED
      BY <2>16, <3>1, <3>2, GoneTyped DEF Exit, TypeOK
  <2>. QED
    BY <1>1, <2>1, <2>2, <2>3, <2>4, <2>5, <2>6, <2>7, <2>8, <2>9, <2>10, <2>11,
       <2>12, <2>13, <2>14, <2>15, <2>16 DEF Step
<1>2. ASSUME NEW p \in Procs, Crash(p) PROVE TypeOK'
  <2>1. serving' \in BOOLEAN
    BY <1>2 DEF Crash
  <2>2. torn' \subseteq Volumes
    BY <1>2 DEF Crash, LedgerInv, Sound, TypeOK
  <2>3. lock' \in Procs \cup {NoProc} /\ crashes' \in Nat
    BY <1>2 DEF Crash, TypeOK
  <2>4. Gone(p)
    BY <1>2 DEF Crash
  <2>. QED
    BY <1>2, <2>1, <2>2, <2>3, <2>4, GoneTyped DEF Crash, TypeOK
<1>3. ASSUME NEW v \in Volumes, InstanceStarts(v) PROVE TypeOK'
  BY <1>3 DEF InstanceStarts, TypeOK
<1>4. ASSUME NEW f \in Files, StrayAppears(f) PROVE TypeOK'
  BY <1>4 DEF StrayAppears, TypeOK
<1>5. CASE UNCHANGED vars
  BY <1>5 DEF vars, TypeOK
<1>. QED
  BY <1>1, <1>2, <1>3, <1>4, <1>5 DEF Next

\* The flock keeps everyone else out.
LEMMA Alone ==
  ASSUME LedgerInv, NEW p \in Procs, pc[p] \in Inside, NEW q \in Procs, q # p
  PROVE  pc[q] \notin Inside
BY DEF LedgerInv, Sound

\* A step that leaves the memory of a process outside, or what it relies on.
LEMMA OtherSound ==
  ASSUME LedgerInv, NEW q \in Procs,
         pc'[q] = pc[q], at'[q] = at[q], item'[q] = item[q], view'[q] = view[q],
         pc[q] \in Inside => UNCHANGED <<lock, ledger, sentinel>>
  PROVE  Sound(q)'
<1>1. Current(q)' = Current(q)
  BY DEF Current
<1>. QED
  BY <1>1 DEF LedgerInv, Sound, Inside, Labels, AtWork

\* One process keeps the invariant, of itself and of the rest.
LEMMA StepKeepsLedger ==
  ASSUME TypeOK, LedgerInv, NEW p \in Procs, Step(p)
  PROVE  LedgerInv'
<1>. USE MigrationConstants DEF disk, data, node, local
<1>. DEFINE Others ==
       /\ \A q \in Procs \ {p} : /\ pc'[q] = pc[q] /\ at'[q] = at[q]
                                 /\ item'[q] = item[q] /\ view'[q] = view[q]
       /\ pc[p] \in Inside \/ UNCHANGED <<ledger, sentinel>>
       /\ pc[p] \in Inside \/ lock = NoProc \/ UNCHANGED lock
       /\ lock' \in {lock, NoProc} \/ (lock' = p /\ pc'[p] \in Inside)
       /\ pc[p] \in Inside => lock' = NoProc \/ pc'[p] \in Inside
<1>1. ASSUME Others, Sound(p)', ledger' \subseteq Required, lost' \subseteq Required
      PROVE  LedgerInv'
  <2>1. ASSUME NEW q \in Procs, q # p PROVE Sound(q)'
    <3>1. pc[q] \in Inside => pc[p] \notin Inside /\ lock = q
      BY <2>1, Alone DEF LedgerInv, Sound
    <3>2. pc[q] \in Inside => UNCHANGED <<lock, ledger, sentinel>>
      BY <1>1, <3>1
    <3>. QED
      BY <1>1, <2>1, <3>2, OtherSound
  <2>2. lock' # NoProc => pc'[lock'] \in Inside
    <3>1. CASE lock' = lock /\ lock # p
      BY <1>1, <3>1 DEF LedgerInv, TypeOK
    <3>2. CASE lock' = lock /\ lock = p
      BY <1>1, <3>2 DEF LedgerInv
    <3>. QED
      BY <1>1, <3>1, <3>2
  <2>. QED
    BY <1>1, <2>1, <2>2 DEF LedgerInv, Sound
<1>2. CASE Launch(p)
  <2>1. Others /\ pc'[p] \in {"lock", "exit"} /\ UNCHANGED disk
    BY <1>2 DEF Launch, TypeOK, Inside, Labels
  <2>2. Sound(p)'
    BY <2>1 DEF Sound, Inside, AtWork
  <2>. QED
    BY <1>1, <2>1, <2>2 DEF LedgerInv, Sound
<1>3. CASE TakeLock(p)
  <2>1. Others /\ pc'[p] = "load" /\ lock' = p /\ UNCHANGED disk
    BY <1>3 DEF TakeLock, TypeOK, Inside, Labels
  <2>2. Sound(p)'
    BY <2>1 DEF Sound, Inside, AtWork
  <2>. QED
    BY <1>1, <2>1, <2>2 DEF LedgerInv, Sound
<1>5. ASSUME Raises(p), pc[p] \in Inside PROVE LedgerInv'
  <2>1. Others /\ pc'[p] = "exit" /\ UNCHANGED disk
    BY <1>5 DEF Raises, Returns, TypeOK
  <2>2. Sound(p)'
    BY <2>1 DEF Sound, Inside, AtWork
  <2>. QED
    BY <1>1, <2>1, <2>2 DEF LedgerInv, Sound
<1>4. CASE LoadLedger(p)
  <2>0. pc[p] = "load" /\ pc[p] \in Inside /\ lock = p
    BY <1>4 DEF LoadLedger, LedgerInv, Sound, Inside, Labels
  <2>1. CASE Raises(p)
    BY <1>5, <2>0, <2>1
  <2>2. CASE ~Raises(p)
    <3>1. PICK seen \in {ledger, {}} :
            /\ view' = [view EXCEPT ![p] = seen] /\ at' = [at EXCEPT ![p] = 1]
            /\ Goto(p, IF ~sentinel THEN "next"
                       ELSE IF "0001" \in seen THEN "unlink" ELSE "seed")
            /\ UNCHANGED <<disk, lock, item>>
      BY <1>4, <2>2 DEF LoadLedger
    <3>2. pc'[p] = IF ~sentinel THEN "next"
                   ELSE IF "0001" \in seen THEN "unlink" ELSE "seed"
      BY <3>1 DEF TypeOK
    <3>3. \/ pc'[p] = "next"
          \/ pc'[p] = "unlink" /\ "0001" \in ledger
          \/ pc'[p] = "seed" /\ sentinel
      BY <3>1, <3>2, Zenon
    <3>4. Others /\ (view'[p] = ledger \/ view'[p] = {})
      BY <2>0, <3>1, <3>3 DEF TypeOK, Inside, Labels
    <3>5. Sound(p)'
      BY <2>0, <3>1, <3>3, <3>4 DEF Sound, Inside, AtWork
    <3>. QED
      BY <1>1, <3>1, <3>4, <3>5 DEF LedgerInv, Sound
  <2>. QED
    BY <2>1, <2>2
<1>6. CASE SeedLedger(p)
  <2>1. pc[p] = "seed" /\ pc[p] \in Inside
    BY <1>6 DEF SeedLedger, Inside, Labels
  <2>2. CASE Raises(p)
    BY <1>5, <2>1, <2>2
  <2>3. CASE ~Raises(p)
    <3>1. /\ Others /\ pc'[p] = "unlink" /\ UNCHANGED lock
          /\ lost' = (ledger \cup lost) \ ledger'
          /\ ledger' = view[p] \cup {"0001"} /\ view'[p] = ledger'
      BY <1>6, <2>1, <2>3 DEF SeedLedger, Records, TypeOK, Inside, Labels
    <3>2. lock = p /\ (view[p] = ledger \/ view[p] = {})
      BY <2>1 DEF LedgerInv, Sound, Inside, Labels
    <3>3. Sound(p)'
      BY <3>1, <3>2 DEF Sound, Inside, AtWork
    <3>. QED
      BY <1>1, <3>1, <3>2, <3>3 DEF LedgerInv, Sound, Required
  <2>. QED
    BY <2>2, <2>3
<1>7. CASE UnlinkSentinel(p)
  <2>1. /\ Others /\ pc[p] = "unlink" /\ pc'[p] = "next" /\ view' = view
        /\ UNCHANGED <<ledger, lost, lock>>
    BY <1>7 DEF UnlinkSentinel, TypeOK, Inside, Labels
  <2>2. Sound(p)'
    BY <2>1 DEF LedgerInv, Sound, Inside, Labels, AtWork
  <2>. QED
    BY <1>1, <2>1, <2>2 DEF LedgerInv, Sound
<1>8. CASE SkipMigration(p) \/ BeginMigration(p)
  <2>1. /\ Others /\ pc[p] = "next" /\ view' = view /\ UNCHANGED <<disk, lock>>
        /\ pc'[p] = "next" \/ (pc'[p] = "run" /\ at' = at /\ at[p] <= 3)
    BY <1>8 DEF SkipMigration, BeginMigration, TypeOK, Inside, Labels
  <2>2. at[p] \in 1..4
    BY DEF TypeOK
  <2>3. Sound(p)'
    BY <2>1, <2>2 DEF LedgerInv, Sound, Inside, Labels, AtWork
  <2>. QED
    BY <1>1, <2>1, <2>3 DEF LedgerInv, Sound
<1>9. ASSUME NEW v \in Volumes, ExamineVolume(p, v) PROVE LedgerInv'
  <2>1. /\ Others /\ pc[p] = "run" /\ UNCHANGED <<disk, lock, view, at>>
        /\ Current(p) \in Required
        /\ pc'[p] = "run" \/ (pc'[p] = "create" /\ item'[p] = v)
    BY <1>9 DEF ExamineVolume, TypeOK, Inside, Labels
  <2>2. Current(p)' = Current(p)
    BY <2>1 DEF Current
  <2>3. Sound(p)'
    BY <2>1, <2>2 DEF LedgerInv, Sound, Inside, Labels, AtWork
  <2>. QED
    BY <1>1, <2>1, <2>3 DEF LedgerInv, Sound
<1>10. CASE CreateVolume(p) \/ CopyVolume(p)
  <2>1. /\ Others /\ UNCHANGED <<disk, lock, view, at>>
        /\ pc[p] \in {"create", "copy"}
        /\ pc'[p] = "run" \/ (pc'[p] = "copy" /\ item' = item)
    BY <1>10 DEF CreateVolume, CopyVolume, ItemFails, ItemDone, TypeOK, Inside, Labels
  <2>2. Current(p)' = Current(p)
    BY <2>1 DEF Current
  <2>3. Sound(p)'
    BY <2>1, <2>2 DEF LedgerInv, Sound, Inside, Labels, AtWork
  <2>. QED
    BY <1>1, <2>1, <2>3 DEF LedgerInv, Sound
<1>11. CASE RunRaises(p) \/ \E f \in Files : PurgeFile(p, f)
  <2>1. Others /\ UNCHANGED <<disk, lock, view, at, item, pc>>
    BY <1>11 DEF RunRaises, PurgeFile, Inside, Labels
  <2>2. Sound(p)'
    BY <2>1, OtherSound
  <2>. QED
    BY <1>1, <2>1, <2>2 DEF LedgerInv, Sound
<1>12. CASE EndOfRun(p)
  <2>1. /\ Others /\ UNCHANGED <<disk, lock, view>>
        /\ pc[p] = "run" /\ pc'[p] \in {"finish", "next"}
    BY <1>12 DEF EndOfRun, TypeOK, Inside, Labels
  <2>2. Sound(p)'
    BY <2>1 DEF LedgerInv, Sound, Inside, Labels, AtWork
  <2>. QED
    BY <1>1, <2>1, <2>2 DEF LedgerInv, Sound
<1>13. CASE MarkApplied(p)
  <2>1. pc[p] = "run" /\ pc[p] \in Inside
    BY <1>13 DEF MarkApplied, Inside, Labels
  <2>2. CASE Raises(p)
    BY <1>5, <2>1, <2>2
  <2>3. CASE ~Raises(p)
    <3>1. /\ Others /\ pc'[p] = "next" /\ UNCHANGED lock
          /\ lost' = (ledger \cup lost) \ ledger'
          /\ ledger' = view[p] \cup {Current(p)} /\ view'[p] = ledger'
          /\ Current(p) \in Required
      BY <1>13, <2>1, <2>3 DEF MarkApplied, Records, TypeOK, Inside, Labels
    <3>2. lock = p /\ (view[p] = ledger \/ view[p] = {})
      BY <2>1 DEF LedgerInv, Sound, Inside, Labels
    <3>3. Sound(p)'
      BY <3>1, <3>2 DEF Sound, Inside, AtWork
    <3>. QED
      BY <1>1, <3>1, <3>2, <3>3 DEF LedgerInv, Sound
  <2>. QED
    BY <2>2, <2>3
<1>14. CASE FinishBatch(p)
  <2>1. Others /\ pc'[p] = "exit" /\ UNCHANGED disk
    BY <1>14 DEF FinishBatch, Returns, TypeOK, Inside, Labels
  <2>2. Sound(p)'
    BY <2>1 DEF Sound, Inside, AtWork
  <2>. QED
    BY <1>1, <2>1, <2>2 DEF LedgerInv, Sound
<1>15. CASE Exit(p)
  <2>1. Others /\ pc'[p] = "idle" /\ UNCHANGED <<disk, lock>>
    BY <1>15 DEF Exit, Gone, TypeOK, Inside, Labels
  <2>2. Sound(p)'
    BY <2>1 DEF Sound, Inside, AtWork
  <2>. QED
    BY <1>1, <2>1, <2>2 DEF LedgerInv, Sound
<1>. QED
  BY <1>2, <1>3, <1>4, <1>6, <1>7, <1>8, <1>9, <1>10, <1>11, <1>12, <1>13, <1>14,
     <1>15 DEF Step

\* Every step keeps it.
LEMMA LedgerStep == TypeOK /\ LedgerInv /\ [Next]_vars => LedgerInv'
<1>. SUFFICES ASSUME TypeOK, LedgerInv, [Next]_vars PROVE LedgerInv'
  OBVIOUS
<1>. USE MigrationConstants DEF disk, data, node, local
<1>1. ASSUME NEW p \in Procs, Crash(p) PROVE LedgerInv'
  <2>1. /\ \A q \in Procs \ {p} : /\ pc'[q] = pc[q] /\ at'[q] = at[q]
                                  /\ item'[q] = item[q] /\ view'[q] = view[q]
        /\ pc'[p] = "idle" /\ UNCHANGED disk
        /\ lock' = IF lock = p THEN NoProc ELSE lock
    BY <1>1 DEF Crash, Gone, TypeOK
  <2>2. ASSUME NEW q \in Procs, q # p PROVE Sound(q)'
    BY <2>1, <2>2, OtherSound DEF LedgerInv, Sound
  <2>3. Sound(p)'
    BY <2>1 DEF Sound, Inside, AtWork
  <2>4. lock' # NoProc => pc'[lock'] \in Inside
    BY <2>1 DEF LedgerInv, TypeOK
  <2>. QED
    BY <2>1, <2>2, <2>3, <2>4 DEF LedgerInv, Sound
<1>2. ASSUME UNCHANGED <<disk, lock, pc, view, at, item>> PROVE LedgerInv'
  <2>1. \A q \in Procs : Sound(q)'
    BY <1>2, OtherSound
  <2>. QED
    BY <1>2, <2>1 DEF LedgerInv, Sound
<1>. QED
  BY <1>1, <1>2, StepKeepsLedger DEF Next, InstanceStarts, StrayAppears, vars

-----------------------------------------------------------------------------

\* What was once recorded is in the file or known to be lost, and the skip
\* variable is the container's for good.
LEMMA LedgerGrows ==
  ASSUME TypeOK, LedgerInv, [Next]_vars
  PROVE  ledger \cup lost \subseteq ledger' \cup lost' /\ skipEnv' = skipEnv
<1>. USE DEF disk, data, node, local
<1>1. ASSUME NEW p \in Procs, SeedLedger(p) \/ MarkApplied(p)
      PROVE  ledger \cup lost \subseteq ledger' \cup lost' /\ skipEnv' = skipEnv
  BY <1>1 DEF SeedLedger, MarkApplied, Records, Raises, Returns
<1>2. ASSUME NEW p \in Procs, Step(p), ~SeedLedger(p), ~MarkApplied(p)
      PROVE  UNCHANGED <<ledger, lost, skipEnv>>
  <2>1. ASSUME Launch(p) \/ TakeLock(p) \/ LoadLedger(p) \/ UnlinkSentinel(p)
               \/ SkipMigration(p) \/ BeginMigration(p)
        PROVE  UNCHANGED <<ledger, lost, skipEnv>>
    BY <2>1 DEF Launch, TakeLock, LoadLedger, UnlinkSentinel, SkipMigration,
                BeginMigration, Raises, Returns
  <2>2. ASSUME \/ \E v \in Volumes : ExamineVolume(p, v)
               \/ CreateVolume(p) \/ CopyVolume(p)
               \/ \E f \in Files : PurgeFile(p, f)
        PROVE  UNCHANGED <<ledger, lost, skipEnv>>
    BY <2>2 DEF ExamineVolume, CreateVolume, CopyVolume, PurgeFile
  <2>3. ASSUME RunRaises(p) \/ EndOfRun(p) \/ FinishBatch(p) \/ Exit(p)
        PROVE  UNCHANGED <<ledger, lost, skipEnv>>
    BY <2>3 DEF RunRaises, EndOfRun, FinishBatch, Returns, Exit
  <2>. QED
    BY <1>2, <2>1, <2>2, <2>3 DEF Step
<1>. QED
  BY <1>1, <1>2 DEF Next, Crash, InstanceStarts, StrayAppears, vars

\* The boot batch of another process's step: its memory stays.
LEMMA BootWaits ==
  ASSUME BootInv, ledger \cup lost \subseteq ledger' \cup lost',
         ledger' \cup lost' \subseteq Required, skipEnv' = skipEnv,
         opts'[Boot] = opts[Boot], pc'[Boot] = pc[Boot], at'[Boot] = at[Boot],
         failed'[Boot] = failed[Boot], view'[Boot] = view[Boot]
  PROVE  BootInv'
<1>1. ledger \cup lost = Required => ledger' \cup lost' = Required
  OBVIOUS
<1>. QED
  BY <1>1 DEF BootInv

\* A step of the boot process itself.
LEMMA BootSteps ==
  ASSUME TypeOK, LedgerInv, LedgerInv', BootInv, Step(Boot),
         skipEnv' = skipEnv
  PROVE  BootInv'
<1>. DEFINE p == Boot
<1>. USE MigrationConstants DEF disk, data, node, local
<1>1. CASE Launch(p)
  <2>1. /\ opts'[p] = NoFlags
        /\ pc'[p] = IF skipEnv /\ p = Boot THEN "exit" ELSE "lock"
    BY <1>1 DEF Launch, TypeOK
  <2>2. pc'[p] = "lock" \/ (pc'[p] = "exit" /\ skipEnv)
    BY <2>1, Zenon
  <2>. QED
    BY <2>1, <2>2 DEF BootInv, AtWork
<1>2. CASE TakeLock(p)
  <2>1. opts' = opts /\ pc'[p] = "load"
    BY <1>2 DEF TakeLock, TypeOK
  <2>. QED
    BY <2>1 DEF BootInv, AtWork
<1>4. ASSUME Raises(p) PROVE BootInv'
  <2>1. opts'[p] = NoFlags /\ pc'[p] = "exit" /\ failed'[p] = TRUE
    BY <1>4 DEF Raises, Returns, TypeOK
  <2>. QED
    BY <2>1 DEF BootInv, AtWork
<1>3. CASE LoadLedger(p)
  <2>1. CASE ~Raises(p)
    <3>1. opts' = opts /\ at'[p] = 1 /\ pc'[p] \in {"next", "seed", "unlink"}
      BY <1>3, <2>1 DEF LoadLedger, TypeOK
    <3>. QED
      BY <3>1 DEF BootInv, AtWork
  <2>. QED
    BY <1>4, <2>1
<1>5. CASE SeedLedger(p)
  <2>1. CASE ~Raises(p)
    <3>1. /\ opts' = opts /\ pc[p] = "seed" /\ pc'[p] = "unlink" /\ at' = at
      BY <1>5, <2>1 DEF SeedLedger, TypeOK
    <3>. QED
      BY <3>1 DEF BootInv, AtWork
  <2>. QED
    BY <1>4, <2>1
<1>6. CASE UnlinkSentinel(p)
  <2>1. opts' = opts /\ pc[p] = "unlink" /\ pc'[p] = "next" /\ at' = at
    BY <1>6 DEF UnlinkSentinel, TypeOK
  <2>. QED
    BY <2>1 DEF BootInv, AtWork
<1>7. CASE SkipMigration(p)
  <2>1. /\ UNCHANGED <<opts, pc, failed, view>> /\ pc[p] = "next"
        /\ at'[p] = at[p] + 1 /\ at[p] \in 1..3
    BY <1>7 DEF SkipMigration, TypeOK
  <2>2. Current(p) \in view[p] /\ Current(p) \notin Advisory
    <3>2. opts[p] = NoFlags
      BY DEF BootInv
    <3>. QED
      BY <1>7, <3>2 DEF SkipMigration, IsSkipped, NoFlags
  <2>3. (at[p] = 1 /\ "0001" \in view[p]) \/ (at[p] = 3 /\ "0003" \in view[p])
    <3>1. Current(p) \in Required
      BY <2>1, <2>2, CurrentIs DEF Advisory, Required
    <3>. QED
      BY <2>1, <2>2, <3>1 DEF Current, AllMigrations, Required
  <2>. QED
    BY <2>1, <2>3 DEF BootInv, AtWork
<1>8. CASE \/ BeginMigration(p) \/ (\E v \in Volumes : ExamineVolume(p, v))
           \/ CreateVolume(p) \/ CopyVolume(p) \/ RunRaises(p)
           \/ \E f \in Files : PurgeFile(p, f)
  <2>1. CASE BeginMigration(p)
    <3>1. /\ UNCHANGED <<opts, at, failed, view>>
          /\ pc[p] \in {"next"} \cup AtWork /\ pc'[p] \in AtWork
      BY <2>1 DEF BeginMigration, TypeOK, AtWork
    <3>. QED
      BY <3>1 DEF BootInv, AtWork
  <2>2. CASE \E v \in Volumes : ExamineVolume(p, v)
    <3>1. /\ UNCHANGED <<opts, at, failed, view>>
          /\ pc[p] \in {"next"} \cup AtWork /\ pc'[p] \in AtWork
      BY <2>2 DEF ExamineVolume, TypeOK, AtWork
    <3>. QED
      BY <3>1 DEF BootInv, AtWork
  <2>3. CASE CreateVolume(p) \/ CopyVolume(p)
    <3>1. /\ UNCHANGED <<opts, at, failed, view>>
          /\ pc[p] \in {"next"} \cup AtWork /\ pc'[p] \in AtWork
      BY <2>3 DEF CreateVolume, CopyVolume, TypeOK, AtWork
    <3>. QED
      BY <3>1 DEF BootInv, AtWork
  <2>4. CASE RunRaises(p) \/ \E f \in Files : PurgeFile(p, f)
    <3>1. UNCHANGED <<opts, at, failed, view, pc, ledger, lost>>
      BY <2>4 DEF RunRaises, PurgeFile
    <3>. QED
      BY <3>1 DEF BootInv
  <2>. QED
    BY <1>8, <2>1, <2>2, <2>3, <2>4
<1>9. CASE EndOfRun(p)
  <2>1. /\ UNCHANGED <<opts, view>> /\ pc[p] = "run"
    BY <1>9 DEF EndOfRun
  <2>2. opts[p].failFast = FALSE
    BY DEF BootInv, NoFlags
  <2>3. pc'[p] = "next" /\ at'[p] = at[p] + 1 /\ at[p] \in 1..3
    BY <1>9, <2>1, <2>2 DEF EndOfRun, TypeOK, LedgerInv, Sound, AtWork
  <2>4. CASE Current(p) \in Advisory
    <3>1. at[p] = 2
      BY <2>3, <2>4, CurrentIs DEF Advisory
    <3>2. failed'[p] = failed[p]
      BY <1>9, <2>2, <2>4 DEF EndOfRun, TypeOK
    <3>. QED
      BY <2>1, <2>3, <3>1, <3>2 DEF BootInv, AtWork
  <2>5. CASE Current(p) \notin Advisory
    <3>1. failed'[p]
      BY <1>9, <2>5 DEF EndOfRun, TypeOK
    <3>. QED
      BY <2>1, <2>3, <3>1 DEF BootInv, AtWork
  <2>. QED
    BY <2>4, <2>5
<1>10. CASE MarkApplied(p)
  <2>1. CASE ~Raises(p)
    <3>1. /\ UNCHANGED <<opts, failed>> /\ pc[p] = "run" /\ pc'[p] = "next"
          /\ at'[p] = at[p] + 1 /\ Current(p) \in Required
          /\ view'[p] = view[p] \cup {Current(p)}
      BY <1>10, <2>1 DEF MarkApplied, Records, TypeOK
    <3>2. (at[p] = 1 /\ "0001" \in view'[p]) \/ (at[p] = 3 /\ "0003" \in view'[p])
      <4>1. at[p] \in 1..3
        BY <3>1 DEF LedgerInv, Sound, AtWork
      <4>. QED
        BY <3>1, <4>1 DEF Current, AllMigrations, Required
    <3>. QED
      BY <3>1, <3>2 DEF BootInv, AtWork
  <2>. QED
    BY <1>4, <2>1
<1>11. CASE FinishBatch(p)
  <2>1. /\ UNCHANGED <<failed, ledger, lost>> /\ pc'[p] = "exit"
        /\ pc[p] = "next" /\ at[p] > 3 /\ opts'[p] = NoFlags
    BY <1>11 DEF FinishBatch, Returns, TypeOK, BootInv
  <2>2. at[p] > 1
    BY <2>1 DEF TypeOK
  <2>3. ~failed[p] => ledger \cup lost = Required
    <3>1. view[p] \subseteq ledger /\ ledger \cup lost \subseteq Required
      BY <2>1 DEF LedgerInv, Sound, Inside, Labels
    <3>. QED
      BY <2>1, <2>2, <3>1 DEF BootInv, Required
  <2>. QED
    BY <2>1, <2>3 DEF BootInv, AtWork
<1>12. CASE Exit(p)
  <2>1. opts'[p] = NoFlags /\ pc'[p] = "idle"
    BY <1>12 DEF Exit, Gone, TypeOK
  <2>. QED
    BY <2>1 DEF BootInv, AtWork
<1>. QED
  BY <1>1, <1>2, <1>3, <1>5, <1>6, <1>7, <1>8, <1>9, <1>10, <1>11, <1>12 DEF Step

\* Every step keeps what the boot batch has behind it.
LEMMA BootStep ==
  ASSUME TypeOK, LedgerInv, LedgerInv', BootInv, [Next]_vars
  PROVE  BootInv'
<1>. USE MigrationConstants DEF disk, data, node, local
<1>1. /\ ledger \cup lost \subseteq ledger' \cup lost' /\ skipEnv' = skipEnv
      /\ ledger' \cup lost' \subseteq Required
  BY LedgerGrows DEF LedgerInv, Sound
<1>. DEFINE Waits == /\ opts'[Boot] = opts[Boot] /\ pc'[Boot] = pc[Boot]
                     /\ at'[Boot] = at[Boot] /\ failed'[Boot] = failed[Boot]
                     /\ view'[Boot] = view[Boot]
<1>2. ASSUME NEW p \in Procs, p # Boot, Step(p) PROVE Waits
  <2>1. CASE Launch(p) \/ TakeLock(p) \/ LoadLedger(p) \/ UnlinkSentinel(p)
    BY <1>2, <2>1 DEF Launch, TakeLock, LoadLedger, Raises, Returns, UnlinkSentinel, TypeOK
  <2>2. CASE SeedLedger(p) \/ MarkApplied(p)
    BY <1>2, <2>2 DEF SeedLedger, MarkApplied, Records, Raises, Returns, TypeOK
  <2>3. CASE SkipMigration(p) \/ BeginMigration(p) \/ FinishBatch(p)
    BY <1>2, <2>3 DEF SkipMigration, BeginMigration, FinishBatch, Returns, TypeOK
  <2>4. CASE \/ \E v \in Volumes : ExamineVolume(p, v)
             \/ CreateVolume(p) \/ CopyVolume(p)
    BY <1>2, <2>4 DEF ExamineVolume, CreateVolume, CopyVolume, TypeOK
  <2>5. CASE RunRaises(p) \/ \E f \in Files : PurgeFile(p, f)
    BY <1>2, <2>5 DEF RunRaises, PurgeFile
  <2>6. CASE EndOfRun(p)
    BY <1>2, <2>6 DEF EndOfRun, TypeOK
  <2>7. CASE Exit(p)
    BY <1>2, <2>7 DEF Exit, Gone, TypeOK
  <2>. QED
    BY <1>2, <2>1, <2>2, <2>3, <2>4, <2>5, <2>6, <2>7 DEF Step
<1>3. ASSUME NEW p \in Procs, p # Boot, Crash(p) PROVE Waits
  BY <1>3 DEF Crash, Gone, TypeOK
<1>4. ASSUME Crash(Boot) PROVE BootInv'
  <2>1. opts'[Boot] = NoFlags /\ pc'[Boot] = "idle"
    BY <1>4 DEF Crash, Gone, TypeOK
  <2>. QED
    BY <2>1 DEF BootInv, AtWork
<1>5. ASSUME \/ \E v \in Volumes : InstanceStarts(v)
             \/ \E f \in Files : StrayAppears(f)
             \/ UNCHANGED vars
      PROVE  Waits
  BY <1>5 DEF InstanceStarts, StrayAppears, vars
<1>6. CASE Waits
  BY <1>1, <1>6, BootWaits
<1>. QED
  BY <1>1, <1>2, <1>3, <1>4, <1>5, <1>6, BootSteps DEF Next

\* The sentinel is unlinked by a process that knows the entry is on disk.
LEMMA SentinelStep ==
  ASSUME TypeOK, LedgerInv, [Next]_vars, sentinel, ~sentinel'
  PROVE  "0001" \in ledger
<1>. USE DEF disk, data, node, local
<1>1. ASSUME NEW p \in Procs, Step(p) PROVE UnlinkSentinel(p)
  <2>1. ~(\/ Launch(p) \/ TakeLock(p) \/ LoadLedger(p) \/ SeedLedger(p)
          \/ SkipMigration(p) \/ BeginMigration(p) \/ FinishBatch(p))
    BY DEF Launch, TakeLock, LoadLedger, SeedLedger, Records, Raises, Returns,
           SkipMigration, BeginMigration, FinishBatch
  <2>2. ~(\/ \E v \in Volumes : ExamineVolume(p, v)
          \/ CreateVolume(p) \/ CopyVolume(p) \/ RunRaises(p)
          \/ \E f \in Files : PurgeFile(p, f))
    BY DEF ExamineVolume, CreateVolume, CopyVolume, RunRaises, PurgeFile
  <2>3. ~(EndOfRun(p) \/ MarkApplied(p) \/ Exit(p))
    BY DEF EndOfRun, MarkApplied, Records, Raises, Returns, Exit
  <2>. QED
    BY <1>1, <2>1, <2>2, <2>3 DEF Step
<1>2. ASSUME NEW p \in Procs, UnlinkSentinel(p) PROVE "0001" \in ledger
  BY <1>2 DEF UnlinkSentinel, LedgerInv, Sound
<1>. QED
  BY <1>1, <1>2 DEF Next, Crash, InstanceStarts, StrayAppears, vars

-----------------------------------------------------------------------------
(* The batches implement the contract.                                     *)

\* A step of a process that is not at work and does not begin.
LEMMA WorkStays ==
  ASSUME NEW p \in Procs, lock' = lock, pc[p] \notin AtWork, pc'[p] \notin AtWork,
         \A q \in Procs \ {p} : pc'[q] = pc[q] /\ at'[q] = at[q]
  PROVE  Working' = Working
BY DEF Working, AtWork, Current

\* A step inside the work.
LEMMA WorkGoesOn ==
  ASSUME UNCHANGED <<lock, at>>,
         \A q \in Procs : pc'[q] = pc[q] \/ (pc[q] \in AtWork /\ pc'[q] \in AtWork)
  PROVE  Working' = Working
BY DEF Working, AtWork, Current

\* The view of the batch at work, over a step that leaves it.
LEMMA BlindStays ==
  ASSUME UNCHANGED <<lock, ledger>>,
         lock \in Procs => /\ view'[lock] = view[lock]
                           /\ pc'[lock] = "load" <=> pc[lock] = "load"
  PROVE  Blind' = Blind
BY Zenon DEF Blind

\* While no migration runs, a batch may open or end.
LEMMA OpenImplements ==
  ASSUME Working = "none", Working' = "none",
         UNCHANGED <<ledger, lost, serving, skipEnv>>
  PROVE  [Contract!Next]_Contract!vars
<1>1. Blind' \in BOOLEAN
  BY Zenon DEF Blind
<1>2. Contract!Open
  BY <1>1, Zenon DEF Contract!Open
<1>. QED
  BY <1>2 DEF Contract!Next

\* A record of the batch at work is one of the contract.
LEMMA RecordImplements ==
  ASSUME TypeOK, LedgerInv, NEW p \in Procs, lock = p,
         pc[p] \in Inside \ {"load"}, NEW m,
         Records(p, view[p] \cup {m}), UNCHANGED <<lock, serving, skipEnv>>
  PROVE  Contract!Record(m)
<1>1. view[p] = ledger \/ view[p] = {}
  BY DEF LedgerInv, Sound
<1>2. Blind = (view[p] # ledger)
  BY Zenon DEF Blind
<1>3. /\ ledger' = view[p] \cup {m} /\ view'[p] = ledger'
      /\ lost' = (ledger \cup lost) \ ledger'
  BY DEF Records, TypeOK
<1>4. Blind' = FALSE
  BY <1>3, Zenon DEF Blind
<1>5. ledger' = {m} \cup (IF Blind THEN {} ELSE ledger)
  <2>1. CASE view[p] = ledger
    BY <1>2, <1>3, <2>1
  <2>2. CASE view[p] # ledger
    BY <1>1, <1>2, <1>3, <2>2
  <2>. QED
    BY <2>1, <2>2
<1>. QED
  BY <1>3, <1>4, <1>5, Zenon DEF Contract!Record

\* A step of a process is one of the contract, or none.
LEMMA StepImplements ==
  ASSUME TypeOK, LedgerInv, BootInv, NEW p \in Procs, Step(p)
  PROVE  [Contract!Next]_Contract!vars
<1>. USE MigrationConstants DEF disk, data, node, local
<1>1. ASSUME Working' = Working, Blind' = Blind,
             UNCHANGED <<ledger, lost, serving, skipEnv>>
      PROVE  UNCHANGED Contract!vars
  BY <1>1 DEF Contract!vars
<1>0. ASSUME Raises(p), lock = p PROVE [Contract!Next]_Contract!vars
  <2>1. UNCHANGED <<ledger, lost, serving, skipEnv>> /\ lock' = NoProc
    BY <1>0 DEF Raises, Returns
  <2>2. Working' = "none" /\ Blind' = FALSE
    BY <2>1 DEF Working, Blind
  <2>3. CASE Working = "none"
    BY <2>1, <2>2, <2>3, OpenImplements
  <2>4. CASE Working # "none"
    BY <2>1, <2>2, <2>4 DEF Contract!Next, Contract!Abandon
  <2>. QED
    BY <2>3, <2>4
<1>2. CASE Launch(p)
  <2>1. /\ UNCHANGED <<lock, ledger, lost, serving, skipEnv, view>>
        /\ \A q \in Procs \ {p} : pc'[q] = pc[q] /\ at'[q] = at[q]
        /\ pc[p] = "idle" /\ pc'[p] \in {"exit", "lock"}
    BY <1>2 DEF Launch, TypeOK
  <2>2. Working' = Working
    BY <2>1, WorkStays DEF AtWork
  <2>3. Blind' = Blind
    <3>1. lock # p
      BY <2>1 DEF LedgerInv, Inside
    <3>. QED
      BY <2>1, <3>1, BlindStays
  <2>. QED
    BY <1>1, <2>1, <2>2, <2>3
<1>3. CASE TakeLock(p) \/ FinishBatch(p)
  <2>1. /\ UNCHANGED <<ledger, lost, serving, skipEnv>>
        /\ lock' = NoProc \/ (lock' = p /\ pc'[p] = "load")
    BY <1>3 DEF TakeLock, FinishBatch, Returns, TypeOK
  <2>2. lock = NoProc \/ (lock = p /\ pc[p] \in {"next", "finish"})
    BY <1>3 DEF TakeLock, FinishBatch, LedgerInv, Sound, Inside, Labels
  <2>3. Working = "none"
    BY <2>2 DEF Working
  <2>4. Working' = "none"
    BY <2>1 DEF Working
  <2>. QED
    BY <2>1, <2>3, <2>4, OpenImplements
<1>10. CASE LoadLedger(p) \/ UnlinkSentinel(p) \/ SkipMigration(p)
  <2>1. lock = p /\ pc[p] \in {"load", "unlink", "next"}
    BY <1>10 DEF LoadLedger, UnlinkSentinel, SkipMigration, LedgerInv, Sound,
                 Inside, Labels
  <2>2. CASE ~Raises(p)
    <3>1. /\ UNCHANGED <<lock, ledger, lost, serving, skipEnv>>
          /\ pc'[p] \in {"next", "seed", "unlink"}
      BY <1>10, <2>2 DEF LoadLedger, UnlinkSentinel, SkipMigration, TypeOK
    <3>2. Working = "none" /\ Working' = "none"
      BY <2>1, <3>1 DEF Working
    <3>. QED
      BY <3>1, <3>2, OpenImplements
  <2>. QED
    BY <1>0, <2>1, <2>2
<1>4. CASE SeedLedger(p)
  <2>1. lock = p /\ pc[p] = "seed" /\ pc[p] \in Inside \ {"load"}
    BY <1>4 DEF SeedLedger, LedgerInv, Sound, Inside, Labels
  <2>2. Working = "none"
    BY <2>1 DEF Working
  <2>4. CASE ~Raises(p)
    <3>1. /\ UNCHANGED <<lock, serving, skipEnv>> /\ pc'[p] = "unlink"
          /\ Records(p, view[p] \cup {"0001"})
      BY <1>4, <2>1, <2>4 DEF SeedLedger, TypeOK
    <3>2. Working' = "none"
      BY <2>1, <3>1 DEF Working
    <3>3. Contract!Record("0001")
      BY <2>1, <3>1, RecordImplements
    <3>. QED
      BY <2>2, <3>2, <3>3 DEF Contract!Next, Contract!Adopt, Required
  <2>. QED
    BY <1>0, <2>1, <2>4
<1>5. CASE BeginMigration(p)
  <2>1. /\ UNCHANGED <<lock, at, ledger, lost, serving, skipEnv, view>>
        /\ pc'[p] = "run" /\ ~IsSkipped(p) /\ pc[p] = "next"
    BY <1>5 DEF BeginMigration, TypeOK
  <2>2. lock = p /\ (view[p] = ledger \/ view[p] = {})
    BY <2>1 DEF LedgerInv, Sound, Inside, Labels
  <2>3. Current(p)' = Current(p)
    BY <2>1 DEF Current
  <2>4. Working = "none"
    BY <2>1, <2>2 DEF Working
  <2>7. Blind' = Blind
    BY <2>1, <2>2, BlindStays
  <2>5. CASE Current(p) \in Required
    <3>1. Current(p) \notin view[p]
      BY <2>1, <2>5 DEF IsSkipped, Required, Advisory
    <3>2. Working' = Current(p)
      BY <2>1, <2>2, <2>3, <2>5 DEF Working
    <3>3. Current(p) \notin ledger \/ Blind
      BY <2>1, <2>2, <3>1 DEF Blind
    <3>. QED
      BY <2>1, <2>4, <2>5, <2>7, <3>2, <3>3 DEF Contract!Next, Contract!Begin
  <2>6. CASE Current(p) \notin Required
    <3>1. Working' = "none"
      BY <2>1, <2>2, <2>3, <2>6 DEF Working
    <3>. QED
      BY <1>1, <2>1, <2>4, <2>7, <3>1
  <2>. QED
    BY <2>5, <2>6
<1>6. CASE \/ \E v \in Volumes : ExamineVolume(p, v)
           \/ CreateVolume(p) \/ CopyVolume(p) \/ RunRaises(p)
           \/ \E f \in Files : PurgeFile(p, f)
  <2>0. ASSUME UNCHANGED <<lock, at, ledger, lost, serving, skipEnv, view>>,
               \A q \in Procs :
                 pc'[q] = pc[q] \/ (pc[q] \in AtWork /\ pc'[q] \in AtWork)
        PROVE  UNCHANGED Contract!vars
    <3>1. \A q \in Procs : pc'[q] = "load" <=> pc[q] = "load"
      BY <2>0 DEF AtWork
    <3>. QED
      BY <1>1, <2>0, <3>1, WorkGoesOn, BlindStays
  <2>1. CASE \E v \in Volumes : ExamineVolume(p, v)
    <3>1. /\ UNCHANGED <<lock, at, ledger, lost, serving, skipEnv, view>>
          /\ \A q \in Procs :
               pc'[q] = pc[q] \/ (pc[q] \in AtWork /\ pc'[q] \in AtWork)
      BY <2>1 DEF ExamineVolume, TypeOK, AtWork
    <3>. QED
      BY <2>0, <3>1
  <2>2. CASE CreateVolume(p) \/ CopyVolume(p)
    <3>1. /\ UNCHANGED <<lock, at, ledger, lost, serving, skipEnv, view>>
          /\ \A q \in Procs :
               pc'[q] = pc[q] \/ (pc[q] \in AtWork /\ pc'[q] \in AtWork)
      BY <2>2 DEF CreateVolume, CopyVolume, TypeOK, AtWork
    <3>. QED
      BY <2>0, <3>1
  <2>3. CASE RunRaises(p) \/ \E f \in Files : PurgeFile(p, f)
    <3>1. UNCHANGED <<lock, at, pc, ledger, lost, serving, skipEnv, view>>
      BY <2>3 DEF RunRaises, PurgeFile
    <3>. QED
      BY <2>0, <3>1
  <2>. QED
    BY <1>6, <2>1, <2>2, <2>3
<1>7. CASE EndOfRun(p)
  <2>1. /\ UNCHANGED <<lock, ledger, lost, serving, skipEnv, view>> /\ pc[p] = "run"
        /\ pc'[p] \in {"next", "finish"}
    BY <1>7 DEF EndOfRun, TypeOK
  <2>2. lock = p
    BY <2>1 DEF LedgerInv, Sound, Inside, Labels
  <2>3. Working' = "none" /\ Blind' = Blind
    BY <2>1, <2>2, BlindStays DEF Working
  <2>4. CASE Working = "none"
    BY <1>1, <2>1, <2>3, <2>4
  <2>5. CASE Working # "none"
    BY <2>1, <2>3, <2>5 DEF Contract!Next, Contract!Abandon
  <2>. QED
    BY <2>4, <2>5
<1>8. CASE MarkApplied(p)
  <2>1. pc[p] = "run" /\ Current(p) \in Required /\ pc[p] \in Inside \ {"load"}
    BY <1>8 DEF MarkApplied, Inside, Labels
  <2>2. lock = p
    BY <2>1 DEF LedgerInv, Sound, Inside, Labels
  <2>3. Working = Current(p) /\ Working # "none"
    BY <2>1, <2>2 DEF Working, Required
  <2>5. CASE ~Raises(p)
    <3>1. /\ UNCHANGED <<lock, serving, skipEnv>> /\ pc'[p] = "next"
          /\ Records(p, view[p] \cup {Current(p)})
      BY <1>8, <2>2, <2>5 DEF MarkApplied, TypeOK
    <3>2. Working' = "none"
      BY <2>2, <3>1 DEF Working
    <3>3. Contract!Record(Current(p))
      BY <2>1, <2>2, <3>1, RecordImplements
    <3>. QED
      BY <2>3, <3>2, <3>3 DEF Contract!Next, Contract!Complete
  <2>. QED
    BY <1>0, <2>2, <2>5
<1>9. CASE Exit(p)
  <2>1. /\ UNCHANGED <<lock, ledger, lost, skipEnv>>
        /\ \A q \in Procs \ {p} : /\ pc'[q] = pc[q] /\ at'[q] = at[q]
                                  /\ view'[q] = view[q]
        /\ pc[p] = "exit" /\ pc'[p] = "idle"
    BY <1>9 DEF Exit, Gone, TypeOK
  <2>2. Working' = Working
    BY <2>1, WorkStays DEF AtWork
  <2>6. Blind' = Blind
    <3>1. lock # p
      BY <2>1 DEF LedgerInv, Inside
    <3>. QED
      BY <2>1, <3>1, BlindStays
  <2>3. serving' = (serving \/ (p = Boot /\ ~failed[p]))
    BY <1>9 DEF Exit
  <2>4. CASE p = Boot /\ ~failed[p]
    <3>1. skipEnv \/ ledger \cup lost = Required
      BY <2>1, <2>4 DEF BootInv
    <3>2. serving' = TRUE
      BY <2>3, <2>4
    <3>. QED
      BY <2>1, <2>2, <2>6, <3>1, <3>2 DEF Contract!Next, Contract!Serve
  <2>5. CASE ~(p = Boot /\ ~failed[p])
    <3>1. serving' = serving
      BY <2>3, <2>5 DEF TypeOK
    <3>. QED
      BY <1>1, <2>1, <2>2, <2>6, <3>1
  <2>. QED
    BY <2>4, <2>5
<1>. QED
  BY <1>2, <1>3, <1>4, <1>5, <1>6, <1>7, <1>8, <1>9, <1>10 DEF Step

\* A crash is an Abandon, a Down, the end of a batch or nothing the contract
\* sees.
LEMMA CrashImplements ==
  ASSUME TypeOK, LedgerInv, NEW p \in Procs, Crash(p)
  PROVE  [Contract!Next]_Contract!vars
<1>. USE MigrationConstants DEF disk, data, node, local
<1>1. /\ UNCHANGED <<ledger, lost, skipEnv>> /\ pc'[p] = "idle"
      /\ \A q \in Procs \ {p} : /\ pc'[q] = pc[q] /\ at'[q] = at[q]
                                /\ view'[q] = view[q]
      /\ lock' = IF lock = p THEN NoProc ELSE lock
  BY DEF Crash, Gone, TypeOK
<1>2. serving' \in {serving, FALSE}
  BY DEF Crash, TypeOK
<1>3. CASE lock = p
  <2>1. Working' = "none" /\ Blind' = FALSE
    BY <1>1, <1>3 DEF Working, Blind
  <2>2. CASE Working # "none"
    BY <1>1, <1>2, <2>1, <2>2 DEF Contract!Next, Contract!Abandon
  <2>3. CASE Working = "none" /\ serving' = serving
    BY <1>1, <2>1, <2>3, OpenImplements
  <2>4. CASE Working = "none" /\ serving' = FALSE
    BY <1>1, <2>1, <2>4 DEF Contract!Next, Contract!Down
  <2>. QED
    BY <1>2, <2>2, <2>3, <2>4
<1>4. CASE lock # p
  <2>1. lock' = lock
    BY <1>1, <1>4
  <2>2. Working' = Working
    BY <1>1, <1>4, <2>1 DEF Working, Current
  <2>3. Blind' = Blind
    BY <1>1, <1>4, <2>1, BlindStays
  <2>. QED
    BY <1>1, <1>2, <2>2, <2>3 DEF Contract!Next, Contract!Down, Contract!vars
<1>. QED
  BY <1>3, <1>4

-----------------------------------------------------------------------------

\* The types, one batch at a time, what it has in its memory of the ledger (all
\* of it or, after a failed read, nothing), and what a boot batch has recorded
\* before it may exit with 0.
THEOREM BatchInvariant == Spec => [](TypeOK /\ LedgerInv /\ BootInv)
<1>1. Init => TypeOK /\ LedgerInv /\ BootInv
  <2>. SUFFICES ASSUME Init PROVE TypeOK /\ LedgerInv /\ BootInv
    OBVIOUS
  <2>. USE MigrationConstants DEF Init
  <2>1. NoFlags \in Options
    BY DEF NoFlags, Options
  <2>2. TypeOK
    <3>1. /\ ledger \subseteq Ids /\ lost \subseteq Ids /\ sentinel \in BOOLEAN
          /\ damage \in {"none", "garbled", "fatal"}
          /\ old \subseteq Volumes /\ strays \subseteq Files /\ torn \subseteq Volumes
      BY DEF Ids, Required
    <3>2. target \in [Volumes -> {"absent", "partial", "full"}]
      OBVIOUS
    <3>3. /\ pc \in [Procs -> Labels] /\ opts \in [Procs -> Options]
          /\ view \in [Procs -> SUBSET Ids] /\ at \in [Procs -> 1..4]
      BY <2>1 DEF Labels
    <3>4. /\ todo \in [Procs -> SUBSET (Volumes \cup Files)]
          /\ item \in [Procs -> Volumes \cup {NoVolume}]
      OBVIOUS
    <3>5. /\ errs \in [Procs -> BOOLEAN] /\ failed \in [Procs -> BOOLEAN]
          /\ serving \in BOOLEAN /\ skipEnv \in BOOLEAN
      OBVIOUS
    <3>. QED
      BY <3>1, <3>2, <3>3, <3>4, <3>5 DEF TypeOK
  <2>3. LedgerInv
    BY DEF LedgerInv, Sound, Inside, Labels, AtWork, Required
  <2>4. BootInv
    BY DEF BootInv, AtWork
  <2>. QED
    BY <2>2, <2>3, <2>4
<1>2. TypeOK /\ LedgerInv /\ BootInv /\ [Next]_vars
      => TypeOK' /\ LedgerInv' /\ BootInv'
  BY TypeStep, LedgerStep, BootStep
<1>. QED
  BY <1>1, <1>2, PTL DEF Spec

\* "Persist before unlinking so we never lose the bit": with any processes,
\* crashes and write errors, the sentinel of 0001 goes only once the ledger on
\* disk has its entry.
THEOREM SentinelGoesLast == Spec => SentinelNeverLost
<1>1. TypeOK /\ LedgerInv /\ [Next]_vars => [sentinel /\ ~sentinel' => "0001" \in ledger]_vars
  BY SentinelStep
<1>. QED
  BY <1>1, BatchInvariant, PTL DEF Spec, SentinelNeverLost

\* The batches of all processes implement MigrationContract: required
\* migrations run one at a time, and the node serves only when each has been
\* recorded or it was told to skip.  A recorded migration runs again, and its
\* entry is lost, only by a batch whose read of the ledger failed and until it
\* has recorded something.
THEOREM RunnerImplements == Spec => RunnerContract
<1>1. Init => Contract!Init
  <2>. SUFFICES ASSUME Init PROVE Contract!Init
    OBVIOUS
  <2>1. Working = "none" /\ Blind = FALSE
    BY MigrationConstants DEF Init, Working, Blind
  <2>. QED
    BY <2>1 DEF Init, Contract!Init
<1>2. TypeOK /\ LedgerInv /\ BootInv /\ [Next]_vars => [Contract!Next]_Contract!vars
  <2>. SUFFICES ASSUME TypeOK, LedgerInv, BootInv, [Next]_vars
                PROVE  [Contract!Next]_Contract!vars
    OBVIOUS
  <2>1. ASSUME \/ \E v \in Volumes : InstanceStarts(v)
               \/ \E f \in Files : StrayAppears(f)
               \/ UNCHANGED vars
        PROVE  UNCHANGED Contract!vars
    <3>1. UNCHANGED <<ledger, lost, serving, skipEnv, lock, at, pc, view>>
      BY <2>1 DEF InstanceStarts, StrayAppears, vars, disk, node, local
    <3>2. Working' = Working /\ Blind' = Blind
      BY <3>1, WorkGoesOn, BlindStays
    <3>. QED
      BY <3>1, <3>2 DEF Contract!vars
  <2>. QED
    BY <2>1, StepImplements, CrashImplements DEF Next
<1>. QED
  BY <1>1, <1>2, BatchInvariant, PTL DEF Spec, RunnerContract, Contract!Spec

-----------------------------------------------------------------------------
(* What is recorded was copied.                                            *)

Copied(S) == \A v \in (old \cap S) \ torn : target[v] = "full"

\* A half-made target has its copier, or is known to be torn.
Copiers ==
  \A v \in Volumes \ torn :
    target[v] = "partial" => \E p \in Procs : pc[p] = "copy" /\ item[p] = v

\* A run without errors has copied what it has behind it.
Pending(p) == pc[p] \in AtWork /\ Current(p) \in Required /\ ~errs[p]
Examined(p) ==
  \A v \in (old \cap Scanned(Current(p))) \ torn :
    target[v] = "full" \/ v \in todo[p]

CopyInv ==
  /\ "0001" \in ledger => Copied(Scan1)
  /\ "0003" \in ledger => Copied(Scan3)
  /\ sentinel => Copied(Scan1)
  /\ Copiers
  /\ \A p \in Procs : Pending(p) => Examined(p)

\* No step undoes a copy, forgets a torn volume it has not copied or makes a
\* raw one.
Monotone ==
  /\ old' = old /\ \A v \in torn : v \in torn' \/ target'[v] = "full"
  /\ \A v \in Volumes : target[v] = "full" => target'[v] = "full"

LEMMA DataMonotone ==
  ASSUME TypeOK, LedgerInv, [Next]_vars
  PROVE  Monotone
<1>. USE DEF disk, data, node, local, Monotone
<1>1. ASSUME NEW p \in Procs, Step(p) PROVE Monotone
  <2>1. CASE \/ Launch(p) \/ TakeLock(p) \/ LoadLedger(p) \/ SeedLedger(p)
             \/ UnlinkSentinel(p) \/ SkipMigration(p) \/ BeginMigration(p)
    BY <2>1 DEF Launch, TakeLock, LoadLedger, SeedLedger, Raises, Returns,
                UnlinkSentinel, SkipMigration, BeginMigration
  <2>2. CASE \E v \in Volumes : ExamineVolume(p, v)
    BY <2>2 DEF ExamineVolume
  <2>3. CASE CreateVolume(p) \/ CopyVolume(p)
    <3>1. item[p] \in Volumes
      BY <2>3 DEF CreateVolume, CopyVolume, LedgerInv, Sound
    <3>. QED
      BY <2>3, <3>1 DEF CreateVolume, CopyVolume, TypeOK
  <2>4. CASE \/ RunRaises(p) \/ EndOfRun(p) \/ MarkApplied(p) \/ FinishBatch(p)
             \/ Exit(p) \/ \E f \in Files : PurgeFile(p, f)
    BY <2>4 DEF RunRaises, EndOfRun, MarkApplied, Raises, Returns, FinishBatch,
                Exit, PurgeFile
  <2>. QED
    BY <1>1, <2>1, <2>2, <2>3, <2>4 DEF Step
<1>2. ASSUME NEW p \in Procs, Crash(p) PROVE Monotone
  BY <1>2 DEF Crash
<1>3. ASSUME NEW v \in Volumes, InstanceStarts(v) PROVE Monotone
  BY <1>3 DEF InstanceStarts, TypeOK
<1>. QED
  BY <1>1, <1>2, <1>3 DEF Next, StrayAppears, vars

LEMMA CopiedStays ==
  ASSUME TypeOK, Monotone, NEW S, Copied(S)
  PROVE  Copied(S)'
BY DEF Monotone, Copied, TypeOK

LEMMA ExaminedStays ==
  ASSUME TypeOK, Monotone, NEW p \in Procs, Examined(p), at'[p] = at[p],
         todo[p] \subseteq todo'[p]
  PROVE  Examined(p)'
<1>1. Current(p)' = Current(p)
  BY DEF Current
<1>. QED
  BY <1>1 DEF Monotone, Examined, TypeOK, Scanned

LEMMA CopiersStay ==
  ASSUME TypeOK, Monotone, Copiers,
         \A v \in Volumes \ torn' : target'[v] = "partial" => target[v] = "partial",
         \A p \in Procs : pc[p] = "copy" => pc'[p] = "copy" /\ item'[p] = item[p]
  PROVE  Copiers'
<1>. SUFFICES ASSUME NEW v \in Volumes, v \notin torn', target'[v] = "partial"
              PROVE  \E p \in Procs : pc'[p] = "copy" /\ item'[p] = v
  BY DEF Copiers
<1>1. v \in Volumes \ torn /\ target[v] = "partial"
  BY DEF Monotone
<1>2. PICK p \in Procs : pc[p] = "copy" /\ item[p] = v
  BY <1>1 DEF Copiers
<1>. QED
  BY <1>2

\* A process's step leaves the others where they are.
LEMMA StepOfOne ==
  ASSUME TypeOK, NEW p \in Procs, Step(p) \/ Crash(p), NEW q \in Procs, q # p
  PROVE  /\ pc'[q] = pc[q] /\ at'[q] = at[q] /\ item'[q] = item[q]
         /\ todo'[q] = todo[q] /\ errs'[q] = errs[q]
<1>. USE DEF disk, data, node, local, TypeOK
<1>1. CASE \/ Launch(p) \/ TakeLock(p) \/ LoadLedger(p) \/ UnlinkSentinel(p)
           \/ SkipMigration(p) \/ BeginMigration(p) \/ FinishBatch(p)
  BY <1>1 DEF Launch, TakeLock, LoadLedger, UnlinkSentinel, SkipMigration,
              BeginMigration, FinishBatch, Raises, Returns
<1>2. CASE SeedLedger(p) \/ MarkApplied(p)
  BY <1>2 DEF SeedLedger, MarkApplied, Raises, Returns
<1>3. CASE \E v \in Volumes : ExamineVolume(p, v)
  BY <1>3 DEF ExamineVolume
<1>4. CASE CreateVolume(p) \/ CopyVolume(p)
  BY <1>4 DEF CreateVolume, CopyVolume, ItemFails, ItemDone
<1>5. CASE RunRaises(p) \/ EndOfRun(p) \/ \E f \in Files : PurgeFile(p, f)
  BY <1>5 DEF RunRaises, EndOfRun, PurgeFile
<1>6. CASE Exit(p) \/ Crash(p)
  BY <1>6 DEF Exit, Crash, Gone
<1>. QED
  BY <1>1, <1>2, <1>3, <1>4, <1>5, <1>6 DEF Step

\* The half-made targets, over a step of one process.
LEMMA CopiersStep ==
  ASSUME TypeOK, LedgerInv, Monotone, Copiers, NEW p \in Procs, Step(p) \/ Crash(p)
  PROVE  Copiers'
<1>. USE DEF disk, data, node, local
<1>. DEFINE Others == \A q \in Procs : q # p => pc'[q] = pc[q] /\ item'[q] = item[q]
<1>0. Others
  BY StepOfOne
<1>1. ASSUME target' = target, pc[p] # "copy" PROVE Copiers'
  BY <1>0, <1>1, CopiersStay
<1>2. ASSUME NEW c \in Volumes, item[p] = c, pc[p] = "copy", Monotone,
             c \in torn' \/ target'[c] = "full",
             \A v \in Volumes : v # c => target'[v] = target[v]
      PROVE  Copiers'
  <2>. SUFFICES ASSUME NEW v \in Volumes, v \notin torn', target'[v] = "partial"
                PROVE  \E q \in Procs : pc'[q] = "copy" /\ item'[q] = v
    BY DEF Copiers
  <2>1. v # c /\ v \in Volumes \ torn /\ target[v] = "partial"
    BY <1>2 DEF Monotone
  <2>2. PICK q \in Procs : pc[q] = "copy" /\ item[q] = v
    BY <2>1 DEF Copiers
  <2>3. q # p
    BY <1>2, <2>1, <2>2
  <2>. QED
    BY <1>0, <2>2, <2>3
<1>3. CASE CreateVolume(p)
  <2>1. item[p] \in Volumes /\ pc[p] = "create"
    BY <1>3 DEF CreateVolume, LedgerInv, Sound
  <2>2. CASE target' = target
    BY <1>1, <2>1, <2>2
  <2>3. CASE target' # target
    <3>1. /\ pc'[p] = "copy" /\ item'[p] = item[p]
          /\ \A v \in Volumes : v # item[p] => target'[v] = target[v]
      BY <1>3, <2>1, <2>3 DEF CreateVolume, TypeOK
    <3>. SUFFICES ASSUME NEW v \in Volumes, v \notin torn', target'[v] = "partial"
                  PROVE  \E q \in Procs : pc'[q] = "copy" /\ item'[q] = v
      BY DEF Copiers
    <3>2. CASE v = item[p]
      BY <3>1, <3>2
    <3>3. CASE v # item[p]
      <4>1. v \in Volumes \ torn /\ target[v] = "partial"
        BY <3>1, <3>3 DEF Monotone
      <4>2. PICK q \in Procs : pc[q] = "copy" /\ item[q] = v
        BY <4>1 DEF Copiers
      <4>3. q # p
        BY <2>1, <4>2
      <4>. QED
        BY <1>0, <4>2, <4>3
    <3>. QED
      BY <3>2, <3>3
  <2>. QED
    BY <2>2, <2>3
<1>4. CASE CopyVolume(p)
  <2>1. item[p] \in Volumes /\ pc[p] = "copy"
    BY <1>4 DEF CopyVolume, LedgerInv, Sound
  <2>2. /\ item[p] \in torn' \/ target'[item[p]] = "full"
        /\ \A v \in Volumes : v # item[p] => target'[v] = target[v]
    BY <1>4, <2>1 DEF CopyVolume, TypeOK
  <2>. QED
    BY <1>2, <2>1, <2>2
<1>5. CASE Crash(p)
  <2>1. CASE pc[p] = "copy"
    <3>1. item[p] \in Volumes /\ item[p] \in torn' /\ target' = target
      BY <1>5, <2>1 DEF Crash, LedgerInv, Sound
    <3>. QED
      BY <1>2, <2>1, <3>1
  <2>2. CASE pc[p] # "copy"
    <3>1. target' = target
      BY <1>5 DEF Crash
    <3>. QED
      BY <1>1, <2>2, <3>1
  <2>. QED
    BY <2>1, <2>2
<1>6. ASSUME Step(p), ~CreateVolume(p), ~CopyVolume(p)
      PROVE  target' = target /\ pc[p] # "copy"
  <2>1. CASE \/ Launch(p) \/ TakeLock(p) \/ LoadLedger(p) \/ SeedLedger(p)
             \/ UnlinkSentinel(p) \/ SkipMigration(p) \/ BeginMigration(p)
    BY <2>1 DEF Launch, TakeLock, LoadLedger, SeedLedger, Raises, Returns,
                UnlinkSentinel, SkipMigration, BeginMigration
  <2>2. CASE \E v \in Volumes : ExamineVolume(p, v)
    BY <2>2 DEF ExamineVolume
  <2>4. CASE \/ RunRaises(p) \/ EndOfRun(p) \/ MarkApplied(p) \/ FinishBatch(p)
             \/ Exit(p) \/ \E f \in Files : PurgeFile(p, f)
    BY <2>4 DEF RunRaises, EndOfRun, MarkApplied, Raises, Returns, FinishBatch,
                Exit, PurgeFile
  <2>. QED
    BY <1>6, <2>1, <2>2, <2>4 DEF Step
<1>. QED
  BY <1>1, <1>3, <1>4, <1>5, <1>6

\* The run of one process, over its own step.
LEMMA ExaminedStep ==
  ASSUME TypeOK, LedgerInv, Monotone, CopyInv, NEW p \in Procs, Step(p) \/ Crash(p),
         Pending(p)'
  PROVE  Examined(p)'
<1>. USE MigrationConstants DEF disk, data, node, local
<1>1. ~(\/ Launch(p) \/ TakeLock(p) \/ LoadLedger(p) \/ UnlinkSentinel(p)
        \/ SkipMigration(p))
  BY DEF Launch, TakeLock, LoadLedger, UnlinkSentinel, SkipMigration, TypeOK,
         Raises, Returns, Pending, AtWork
<1>2. ~(SeedLedger(p) \/ MarkApplied(p) \/ FinishBatch(p))
  BY DEF SeedLedger, MarkApplied, Raises, Returns, FinishBatch, TypeOK, Pending, AtWork
<1>3. ~(EndOfRun(p) \/ Exit(p) \/ Crash(p))
  BY DEF EndOfRun, Exit, Crash, Gone, TypeOK, Pending, AtWork
<1>4. ~RunRaises(p)
  BY DEF RunRaises, TypeOK, Pending
<1>5. CASE BeginMigration(p)
  <2>1. at' = at /\ Current(p)' = Current(p)
    BY <1>5 DEF BeginMigration, Current
  <2>2. Current(p) \in Required
    BY <2>1 DEF Pending
  <2>3. \A v \in old \cap Scanned(Current(p)) :
          v \in todo'[p] \/ v \in torn' \/ target[v] = "full"
    BY <1>5, <2>2 DEF BeginMigration, TypeOK, Required, Advisory
  <2>4. old' = old /\ target' = target
    BY <1>5 DEF BeginMigration
  <2>. QED
    BY <2>1, <2>3, <2>4 DEF Examined, Scanned
<1>6. ASSUME NEW f \in Files, PurgeFile(p, f) PROVE FALSE
  <2>1. at' = at /\ Current(p)' = Current(p) /\ Current(p) \in Advisory
    BY <1>6 DEF PurgeFile, Current
  <2>. QED
    BY <2>1 DEF Pending, Required, Advisory
<1>7. CASE CreateVolume(p) \/ CopyVolume(p)
  <2>1. at' = at /\ Current(p)' = Current(p) /\ Current(p) \in Required
    BY <1>7 DEF CreateVolume, CopyVolume, Current, LedgerInv, Sound
  <2>2. /\ UNCHANGED errs
        /\ \A v \in todo[p] : v \in todo'[p] \/ (v = item[p] /\ target'[v] = "full")
    <3>1. errs'[p] # TRUE
      BY DEF Pending
    <3>2. CASE CreateVolume(p)
      BY <3>1, <3>2 DEF CreateVolume, ItemFails, TypeOK
    <3>3. CASE CopyVolume(p)
      <4>1. item[p] \in Volumes
        BY <3>3 DEF CopyVolume, LedgerInv, Sound
      <4>2. errs' = errs /\ target' = [target EXCEPT ![item[p]] = "full"] /\ ItemDone(p)
        BY <3>1, <3>3 DEF CopyVolume, ItemFails, TypeOK
      <4>. QED
        BY <4>1, <4>2 DEF ItemDone, TypeOK
    <3>. QED
      BY <1>7, <3>2, <3>3
  <2>3. pc[p] \in AtWork
    BY <1>7 DEF CreateVolume, CopyVolume, AtWork
  <2>4. Examined(p)
    BY <2>1, <2>2, <2>3 DEF CopyInv, Pending
  <2>. QED
    BY <2>1, <2>2, <2>4 DEF Examined, Monotone, TypeOK, Scanned
<1>8. ASSUME NEW v \in Volumes, ExamineVolume(p, v) PROVE Examined(p)'
  <2>1. /\ at' = at /\ Current(p)' = Current(p) /\ Current(p) \in Required
        /\ UNCHANGED <<errs, old, target>> /\ pc[p] = "run"
    BY <1>8 DEF ExamineVolume, Current
  <2>2. Examined(p)
    BY <2>1 DEF CopyInv, Pending, AtWork
  <2>3. target[v] = "partial" => v \in torn
    <3>1. ASSUME NEW q \in Procs, pc[q] = "copy" PROVE FALSE
      BY <2>1, <3>1, Alone DEF Inside, Labels
    <3>. QED
      BY <3>1 DEF CopyInv, Copiers
  <2>4. /\ \A w \in todo[p] : w # v => w \in todo'[p]
        /\ \/ v \in todo'[p] \/ v \notin old \/ v \in torn'
           \/ target[v] # "absent"
    <3>1. PICK hasOld, hasTarget \in BOOLEAN :
            /\ hasOld => v \in old
            /\ hasTarget => target[v] # "absent"
            /\ LET misread == hasOld # (v \in old)
                              \/ (hasOld /\ hasTarget # (target[v] # "absent"))
               IN torn' = IF misread /\ target[v] # "full" THEN torn \cup {v} ELSE torn
            /\ IF hasOld /\ ~hasTarget
               THEN UNCHANGED todo
               ELSE todo' = [todo EXCEPT ![p] = @ \ {v}]
      BY <1>8 DEF ExamineVolume
    <3>2. CASE hasOld /\ ~hasTarget
      BY <1>8, <3>1, <3>2 DEF ExamineVolume
    <3>3. CASE ~hasOld /\ v \in old
      BY <3>1, <3>3 DEF TypeOK
    <3>4. CASE ~hasOld /\ v \notin old
      BY <3>1, <3>4 DEF TypeOK
    <3>5. CASE hasOld /\ hasTarget
      <4>1. target[v] # "absent"
        BY <3>1, <3>5, Zenon
      <4>2. todo' = [todo EXCEPT ![p] = @ \ {v}]
        BY <3>1, <3>5, Zenon
      <4>. QED
        BY <4>1, <4>2 DEF TypeOK
    <3>. QED
      BY <3>2, <3>3, <3>4, <3>5
  <2>5. target[v] \in {"absent", "partial", "full"}
    BY DEF TypeOK
  <2>6. v \in todo'[p] \/ v \notin old \/ v \in torn' \/ target'[v] = "full"
    BY <2>1, <2>3, <2>4, <2>5 DEF Monotone
  <2>. QED
    BY <2>1, <2>2, <2>4, <2>6 DEF Examined, Monotone, Scanned
<1>. QED
  BY <1>1, <1>2, <1>3, <1>4, <1>5, <1>6, <1>7, <1>8 DEF Step

\* A new entry is the sentinel's, or that of a run without errors.
LEMMA NewEntry ==
  ASSUME TypeOK, LedgerInv, CopyInv, [Next]_vars, NEW m \in {"0001", "0003"},
         m \in ledger', m \notin ledger
  PROVE  Copied(Scanned(m))
<1>. USE DEF disk, data, node, local
<1>1. ASSUME NEW p \in Procs, SeedLedger(p) PROVE Copied(Scanned(m))
  <2>1. view[p] \subseteq ledger /\ sentinel
    BY <1>1 DEF SeedLedger, LedgerInv, Sound, Inside, Labels
  <2>2. m = "0001"
    BY <1>1, <2>1 DEF SeedLedger, Records, Raises, Returns
  <2>. QED
    BY <2>1, <2>2 DEF CopyInv, Scanned
<1>2. ASSUME NEW p \in Procs, MarkApplied(p) PROVE Copied(Scanned(m))
  <2>1. view[p] \subseteq ledger /\ pc[p] = "run" /\ Current(p) \in Required
    BY <1>2 DEF MarkApplied, LedgerInv, Sound, Inside, Labels
  <2>2. m = Current(p)
    BY <1>2, <2>1 DEF MarkApplied, Records, Raises, Returns
  <2>3. ~errs[p] /\ todo[p] = {}
    BY <1>2 DEF MarkApplied
  <2>4. Examined(p)
    BY <2>1, <2>3 DEF CopyInv, Pending, AtWork
  <2>. QED
    BY <2>2, <2>3, <2>4 DEF Examined, Copied
<1>3. ASSUME NEW p \in Procs, Step(p), ~SeedLedger(p), ~MarkApplied(p) PROVE FALSE
  <2>1. ~(\/ Launch(p) \/ TakeLock(p) \/ LoadLedger(p) \/ UnlinkSentinel(p)
          \/ SkipMigration(p) \/ BeginMigration(p) \/ FinishBatch(p))
    BY DEF Launch, TakeLock, LoadLedger, UnlinkSentinel, SkipMigration,
           BeginMigration, FinishBatch, Raises, Returns
  <2>2. ~(\/ \E v \in Volumes : ExamineVolume(p, v)
          \/ CreateVolume(p) \/ CopyVolume(p)
          \/ \E f \in Files : PurgeFile(p, f))
    BY DEF ExamineVolume, CreateVolume, CopyVolume, PurgeFile
  <2>3. ~(RunRaises(p) \/ EndOfRun(p) \/ Exit(p))
    BY DEF RunRaises, EndOfRun, Exit
  <2>. QED
    BY <1>3, <2>1, <2>2, <2>3 DEF Step
<1>. QED
  BY <1>1, <1>2, <1>3 DEF Next, Crash, InstanceStarts, StrayAppears, vars

\* A sentinel is never made.
LEMMA NoNewSentinel ==
  ASSUME [Next]_vars, sentinel' PROVE sentinel
<1>. USE DEF disk, data, node, local
<1>1. ASSUME NEW p \in Procs, Step(p) PROVE sentinel
  <2>1. CASE \/ Launch(p) \/ TakeLock(p) \/ LoadLedger(p) \/ UnlinkSentinel(p)
             \/ SkipMigration(p) \/ BeginMigration(p) \/ FinishBatch(p)
    BY <2>1 DEF Launch, TakeLock, LoadLedger, UnlinkSentinel, SkipMigration,
                BeginMigration, FinishBatch, Raises, Returns
  <2>2. CASE \/ \E v \in Volumes : ExamineVolume(p, v)
             \/ CreateVolume(p) \/ CopyVolume(p)
             \/ \E f \in Files : PurgeFile(p, f)
    BY <2>2 DEF ExamineVolume, CreateVolume, CopyVolume, PurgeFile
  <2>3. CASE RunRaises(p) \/ EndOfRun(p) \/ Exit(p) \/ SeedLedger(p) \/ MarkApplied(p)
    BY <2>3 DEF RunRaises, EndOfRun, Exit, SeedLedger, MarkApplied, Records, Raises, Returns
  <2>. QED
    BY <1>1, <2>1, <2>2, <2>3 DEF Step
<1>. QED
  BY <1>1 DEF Next, Crash, InstanceStarts, StrayAppears, vars

LEMMA CopyStep ==
  ASSUME TypeOK, LedgerInv, CopyInv, [Next]_vars
  PROVE  CopyInv'
<1>0. Monotone
  BY DataMonotone
<1>1. ("0001" \in ledger' => Copied(Scan1)') /\ ("0003" \in ledger' => Copied(Scan3)')
  <2>1. "0001" \in ledger' => Copied(Scan1)
    BY NewEntry DEF CopyInv, Scanned
  <2>2. "0003" \in ledger' => Copied(Scan3)
    BY NewEntry DEF CopyInv, Scanned
  <2>. QED
    BY <1>0, <2>1, <2>2, CopiedStays
<1>2. sentinel' => Copied(Scan1)'
  BY <1>0, CopiedStays, NoNewSentinel DEF CopyInv
<1>3. ASSUME NEW p \in Procs, Step(p) \/ Crash(p) PROVE CopyInv'
  <2>1. Copiers'
    BY <1>0, <1>3, CopiersStep DEF CopyInv
  <2>2. ASSUME NEW q \in Procs, Pending(q)' PROVE Examined(q)'
    <3>1. CASE q = p
      BY <1>0, <1>3, <2>2, <3>1, ExaminedStep
    <3>2. CASE q # p
      <4>1. /\ pc'[q] = pc[q] /\ at'[q] = at[q] /\ todo'[q] = todo[q]
            /\ errs'[q] = errs[q]
        BY <1>3, <3>2, StepOfOne
      <4>2. Pending(q)
        BY <2>2, <4>1 DEF Pending, Current
      <4>. QED
        BY <1>0, <4>1, <4>2, ExaminedStays DEF CopyInv
    <3>. QED
      BY <3>1, <3>2
  <2>. QED
    BY <1>1, <1>2, <2>1, <2>2 DEF CopyInv
<1>4. ASSUME \/ \E v \in Volumes : InstanceStarts(v)
             \/ \E f \in Files : StrayAppears(f)
             \/ UNCHANGED vars
      PROVE  CopyInv'
  <2>1. UNCHANGED <<pc, at, todo, errs, item>>
    BY <1>4 DEF InstanceStarts, StrayAppears, vars, local
  <2>2. \A v \in Volumes \ torn' : target'[v] = "partial" => target[v] = "partial"
    BY <1>4 DEF InstanceStarts, StrayAppears, vars, data, TypeOK
  <2>3. Copiers'
    BY <1>0, <2>1, <2>2, CopiersStay DEF CopyInv
  <2>4. ASSUME NEW q \in Procs, Pending(q)' PROVE Examined(q)'
    <3>1. Pending(q)
      BY <2>1, <2>4 DEF Pending, Current
    <3>. QED
      BY <1>0, <2>1, <3>1, ExaminedStays DEF CopyInv
  <2>. QED
    BY <1>1, <1>2, <2>3, <2>4 DEF CopyInv
<1>. QED
  BY <1>3, <1>4 DEF Next

\* A recorded migration has copied every raw-named volume of its compose files
\* in full, except those that no run completed after their compose file was not
\* read, their inspection failed, their copy was cut short or their instance
\* was started first; for any number of processes, volumes, faults and crashes,
\* and although a batch that cannot read the ledger runs everything again.
THEOREM RecordedIsCopied == Spec => []CopiedUnlessTorn
<1>1. Init => CopyInv
  <2>. SUFFICES ASSUME Init PROVE CopyInv
    OBVIOUS
  <2>1. ("0001" \in ledger => Copied(Scan1)) /\ (sentinel => Copied(Scan1))
    BY MigrationConstants DEF Init, Copied
  <2>2. "0003" \in ledger => Copied(Scan3)
    BY MigrationConstants DEF Init, Copied
  <2>3. Copiers
    BY DEF Init, Copiers
  <2>4. \A p \in Procs : ~Pending(p)
    BY DEF Init, Pending, AtWork
  <2>. QED
    BY <2>1, <2>2, <2>3, <2>4 DEF CopyInv
<1>2. TypeOK /\ LedgerInv /\ CopyInv /\ [Next]_vars => CopyInv'
  BY CopyStep
<1>3. CopyInv => CopiedUnlessTorn
  BY DEF CopyInv, Copied, CopiedUnlessTorn
<1>. QED
  BY <1>1, <1>2, <1>3, BatchInvariant, PTL DEF Spec
=============================================================================
