----------------------------- MODULE RepoOpLock -----------------------------
(***************************************************************************)
(* The per-repository locks of the prune and check operations              *)
(* (app/backup.py: _repo_op_lock, spawn_repo_op,                           *)
(* _spawn_per_instance_repo_op, their jobs and _reap_repo_op_lock).  The   *)
(* registry keeps one lock object per repository and forgets it when the   *)
(* operation ends, so a lock has an identity of its own: a thread may hold *)
(* a lock the registry no longer knows.  The fan-out over the instances'   *)
(* sub-repositories locks the base repository the same way and is one of   *)
(* the repositories here.                                                  *)
(***************************************************************************)
CONSTANTS
  Threads,   \* request threads, each becoming the job thread it spawns
  Repos,     \* restic repository URLs
  Locks,     \* lock objects
  None,      \* no thread, no lock, no repository
  StartFails \* thread.start() may raise

ASSUME ConstantsAssumption ==
  /\ None \notin Threads \cup Repos \cup Locks
  /\ StartFails \in BOOLEAN

VARIABLES
  registry, \* _REPO_OP_LOCKS: the lock of a repository, or None
  owner,    \* who holds each lock object
  pc,
  repo,     \* the repository a thread works on
  lk        \* the lock object a thread has fetched

vars == <<registry, owner, pc, repo, lk>>

Init ==
  /\ registry = [r \in Repos |-> None]
  /\ owner = [l \in Locks |-> None]
  /\ pc = [t \in Threads |-> "idle"]
  /\ repo = [t \in Threads |-> None]
  /\ lk = [t \in Threads |-> None]

Goto(t, l) == pc' = [pc EXCEPT ![t] = l]

Forget(t) ==
  /\ repo' = [repo EXCEPT ![t] = None]
  /\ lk' = [lk EXCEPT ![t] = None]
  /\ Goto(t, "idle")

\* Lock objects nothing refers to: threading.Lock() makes one of these.
Unused(l) ==
  /\ \A r \in Repos : registry[r] # l
  /\ \A t \in Threads : lk[t] # l

\* Mutant: one process-wide lock.
RepoOpLockShared(t, r) ==
  /\ pc[t] = "idle"
  /\ \E l \in Locks :
       /\ IF \A q \in Repos : registry[q] = None
          THEN Unused(l) ELSE \E q \in Repos : registry[q] = l
       /\ registry' = [registry EXCEPT ![r] = l]
       /\ lk' = [lk EXCEPT ![t] = l]
  /\ repo' = [repo EXCEPT ![t] = r]
  /\ Goto(t, "fetched")
  /\ UNCHANGED owner

\* _repo_op_lock: setdefault under the guard.  The guard is given back
\* before the caller acquires the lock it got.
RepoOpLock(t, r) ==
  /\ pc[t] = "idle"
  /\ \E l \in Locks :
       /\ IF registry[r] = None THEN Unused(l) ELSE registry[r] = l
       /\ registry' = [registry EXCEPT ![r] = l]
       /\ lk' = [lk EXCEPT ![t] = l]
  /\ repo' = [repo EXCEPT ![t] = r]
  /\ Goto(t, "fetched")
  /\ UNCHANGED owner

\* lock.acquire(blocking=False) succeeds.
Acquire(t) ==
  /\ pc[t] = "fetched"
  /\ owner[lk[t]] = None
  /\ owner' = [owner EXCEPT ![lk[t]] = t]
  /\ Goto(t, "start")
  /\ UNCHANGED <<registry, repo, lk>>

\* It fails: BusyError, 409.
Refuse(t) ==
  /\ pc[t] = "fetched"
  /\ owner[lk[t]] # None
  /\ Forget(t)
  /\ UNCHANGED <<registry, owner>>

\* The job thread runs, or its start raised and the lock is reaped at once.
StartJob(t) ==
  /\ pc[t] = "start"
  /\ Goto(t, "run") \/ (StartFails /\ Goto(t, "reap"))
  /\ UNCHANGED <<registry, owner, repo, lk>>

\* prune_repo, check_repo or the fan-out over the sub-repositories: they
\* catch everything and the finally reaps whatever happens.
JobEnds(t) ==
  /\ pc[t] = "run"
  /\ Goto(t, "reap")
  /\ UNCHANGED <<registry, owner, repo, lk>>

\* Mutant: no pop.
ReapKeeps(t) ==
  /\ pc[t] = "reap"
  /\ Goto(t, "popped")
  /\ UNCHANGED <<registry, owner, repo, lk>>

\* _reap_repo_op_lock, under the guard: drop the entry if it is still ours.
ReapPops(t) ==
  /\ pc[t] = "reap"
  /\ registry' = IF registry[repo[t]] = lk[t]
                 THEN [registry EXCEPT ![repo[t]] = None] ELSE registry
  /\ Goto(t, "popped")
  /\ UNCHANGED <<owner, repo, lk>>

\* Then release.
ReapReleases(t) ==
  /\ pc[t] = "popped"
  /\ owner' = [owner EXCEPT ![lk[t]] = None]
  /\ Forget(t)
  /\ UNCHANGED registry

Step(t) ==
  \/ Acquire(t) \/ Refuse(t) \/ StartJob(t) \/ JobEnds(t)
  \/ ReapPops(t) \/ ReapReleases(t)

Next == \E t \in Threads : Step(t) \/ \E r \in Repos : RepoOpLock(t, r)

Spec == Init /\ [][Next]_vars

-----------------------------------------------------------------------------
(* Properties.                                                             *)

Holding == {"start", "run", "reap", "popped"}

\* Types, and that a thread past the fetch has a lock object and a repository.
TypeOK ==
  /\ registry \in [Repos -> Locks \cup {None}]
  /\ owner \in [Locks -> Threads \cup {None}]
  /\ pc \in [Threads -> {"idle", "fetched"} \cup Holding]
  /\ repo \in [Threads -> Repos \cup {None}]
  /\ lk \in [Threads -> Locks \cup {None}]
  /\ \A t \in Threads : pc[t] # "idle" => repo[t] \in Repos /\ lk[t] \in Locks

\* The registry "can't grow one entry per tenant repo forever": an entry is
\* always backed by a thread that is on its way to remove it or to be told
\* who will.
NoLeakedEntry ==
  \A r \in Repos : registry[r] # None =>
    \E t \in Threads : repo[t] = r /\ lk[t] = registry[r]

\* A request is only turned away with 409 because of another operation on the
\* same repository, never because of one on another tenant's.
RefusedByOwnRepo ==
  \A t \in Threads :
    pc[t] = "fetched" /\ owner[lk[t]] # None =>
      LET u == owner[lk[t]] IN
        u # t /\ repo[u] = repo[t] /\ pc[u] \in Holding
=============================================================================
