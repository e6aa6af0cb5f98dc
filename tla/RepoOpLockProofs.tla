-------------------------- MODULE RepoOpLockProofs --------------------------
(***************************************************************************)
(* Theorems about RepoOpLock, for any number of threads, repositories and  *)
(* lock objects.                                                           *)
(***************************************************************************)
EXTENDS RepoOpLock, TLAPS

\* A lock is held exactly by the thread that is between its acquire and its
\* release: nobody releases a lock another thread holds.
OwnerInv ==
  /\ \A t \in Threads : pc[t] \in Holding => owner[lk[t]] = t
  /\ \A l \in Locks : owner[l] # None =>
       pc[owner[l]] \in Holding /\ lk[owner[l]] = l

\* A lock object serves one repository for as long as anything refers to it.
SameRepoInv ==
  /\ \A t, u \in Threads : lk[t] = lk[u] /\ lk[t] # None => repo[t] = repo[u]
  /\ \A t \in Threads, r \in Repos :
       registry[r] = lk[t] /\ lk[t] # None => repo[t] = r
  /\ \A r, q \in Repos : registry[r] = registry[q] /\ registry[r] # None => r = q

\* Between the pop and the release the entry is not this lock any more.
PoppedInv ==
  \A t \in Threads :
    /\ pc[t] = "popped" => registry[repo[t]] # lk[t]
    /\ pc[t] = "idle" => lk[t] = None

IndInv == TypeOK /\ OwnerInv /\ SameRepoInv /\ PoppedInv /\ NoLeakedEntry

\* No lock exists before the first request.
LEMMA IndInvInitial == Init => IndInv
BY ConstantsAssumption
DEF Init, IndInv, TypeOK, OwnerInv, SameRepoInv, PoppedInv, NoLeakedEntry,
    Holding

\* setdefault hands out the registered lock, or one nothing refers to.
LEMMA FetchStep ==
  ASSUME IndInv, NEW t \in Threads, NEW r \in Repos, RepoOpLock(t, r)
  PROVE  IndInv'
<1> USE ConstantsAssumption DEF IndInv, RepoOpLock, Unused, Goto
<1>1. TypeOK' BY DEF TypeOK, Holding
<1>2. OwnerInv' BY DEF TypeOK, OwnerInv, Holding
<1>3. SameRepoInv' BY DEF TypeOK, SameRepoInv, PoppedInv
<1>4. PoppedInv' BY DEF TypeOK, PoppedInv, SameRepoInv
<1>5. NoLeakedEntry' BY DEF TypeOK, NoLeakedEntry, PoppedInv
<1> QED BY <1>1, <1>2, <1>3, <1>4, <1>5

\* Everything a request or a job does with the lock it fetched.
LEMMA StepKeeps ==
  ASSUME IndInv, NEW t \in Threads, Step(t)
  PROVE  IndInv'
<1> USE ConstantsAssumption DEF IndInv, TypeOK, Holding, Goto, Forget
<1>1. CASE Acquire(t)
  BY <1>1 DEF Acquire, OwnerInv, SameRepoInv, PoppedInv, NoLeakedEntry
<1>2. CASE Refuse(t)
  <2>1. owner[lk[t]] \in Threads \ {t} /\ lk[owner[lk[t]]] = lk[t]
    BY <1>2 DEF Refuse, OwnerInv
  <2>2. repo[owner[lk[t]]] = repo[t] BY <1>2, <2>1 DEF Refuse, SameRepoInv
  <2>3. NoLeakedEntry' BY <1>2, <2>1, <2>2 DEF Refuse, NoLeakedEntry
  <2> QED BY <1>2, <2>3 DEF Refuse, OwnerInv, SameRepoInv, PoppedInv
<1>3. CASE StartJob(t)
  BY <1>3 DEF StartJob, OwnerInv, SameRepoInv, PoppedInv, NoLeakedEntry
<1>4. CASE JobEnds(t)
  BY <1>4 DEF JobEnds, OwnerInv, SameRepoInv, PoppedInv, NoLeakedEntry
<1>5. CASE ReapPops(t)
  BY <1>5 DEF ReapPops, OwnerInv, SameRepoInv, PoppedInv, NoLeakedEntry
<1>6. CASE ReapReleases(t)
  <2>1. NoLeakedEntry' BY <1>6 DEF ReapReleases, NoLeakedEntry, PoppedInv
  <2>2. OwnerInv' BY <1>6 DEF ReapReleases, OwnerInv
  <2> QED BY <1>6, <2>1, <2>2 DEF ReapReleases, SameRepoInv, PoppedInv
<1> QED BY <1>1, <1>2, <1>3, <1>4, <1>5, <1>6 DEF Step

\* The inductive invariant holds in every reachable state.
THEOREM Invariance == Spec => []IndInv
<1>1. IndInv /\ UNCHANGED vars => IndInv'
  BY DEF IndInv, TypeOK, OwnerInv, SameRepoInv, PoppedInv, NoLeakedEntry, vars
<1>2. IndInv /\ [Next]_vars => IndInv'
  BY <1>1, FetchStep, StepKeeps DEF Next
<1> QED BY <1>2, IndInvInitial, PTL DEF Spec

\* The registry holds no entry that no operation is going to remove.
THEOREM RegistryBounded == Spec => []NoLeakedEntry
<1>1. IndInv => NoLeakedEntry BY DEF IndInv
<1> QED BY <1>1, Invariance, PTL

\* A 409 is always about the repository that was asked for.
THEOREM RefusalsJustified == Spec => []RefusedByOwnRepo
<1>1. IndInv => RefusedByOwnRepo
  BY ConstantsAssumption
  DEF IndInv, TypeOK, OwnerInv, SameRepoInv, RefusedByOwnRepo, Holding
<1> QED BY <1>1, Invariance, PTL
=============================================================================
