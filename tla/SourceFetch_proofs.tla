------------------------- MODULE SourceFetch_proofs -------------------------
(***************************************************************************)
(* Proofs about SourceFetch for any recipes, repositories and versions:    *)
(* types, locks, mutual exclusion; with no do_openeuler_clean and nothing  *)
(* cut off half way, that every copy is whole (the inductive invariant     *)
(* WholeInv); if besides the manifest only moves forward, that every       *)
(* recipe unpacks what the manifest pins (IInv), and that SourceFetchPool  *)
(* refines SourcePool.                                                     *)
(***************************************************************************)
EXTENDS SourceFetchPool, TLAPS

USE SourceFetchAssumption
    DEF lockVars, repoVars, taskVars, Goto, Fault, Versions, Unborn, NoStamp,
        Empty, Torn, Pointers, Trees, Absent, Stale

-----------------------------------------------------------------------------
(* Types                                                                   *)

LEMMA PCTypes ==
    /\ "idle" \in PCs /\ "repos" \in PCs /\ "failed" \in PCs /\ "done" \in PCs
    /\ "sync" \in PCs /\ "init" \in PCs /\ "commit" \in PCs /\ "checkout" \in PCs
    /\ "writing" \in PCs /\ "patching" \in PCs /\ "lfs" \in PCs /\ "unlock" \in PCs
    /\ "unpack" \in PCs /\ "reading" \in PCs
BY DEF PCs, Downloading, Unpacking, AtRest

LEMMA FailType ==
    ASSUME TypeOK, NEW t \in Recipes, Fail(t)
    PROVE  /\ path' \in [Repos -> Recipes \cup {Absent, Stale}]
           /\ held' \in [Recipes -> SUBSET Repos]
           /\ pc' \in [Recipes -> PCs]
           /\ todo' \in [Recipes -> SUBSET Repos]
           /\ cur' \in [Recipes -> Repos]
           /\ stamp' = stamp /\ copy' = copy
BY PCTypes DEF TypeOK, Fail, ExitUnlocks

LEMMA LockType ==
    ASSUME TypeOK, NEW t \in Recipes, NEW r \in Repos, Lock(t, r)
    PROVE  /\ path' \in [Repos -> Recipes \cup {Absent, Stale}]
           /\ held' \in [Recipes -> SUBSET Repos]
BY DEF TypeOK, Lock

LEMMA UnlockType ==
    ASSUME TypeOK, NEW t \in Recipes, NEW rs \in SUBSET Repos, Unlock(t, rs)
    PROVE  /\ path' \in [Repos -> Recipes \cup {Absent, Stale}]
           /\ held' \in [Recipes -> SUBSET Repos]
BY DEF TypeOK, Unlock

LEMMA StepType ==
    ASSUME TypeOK, NEW t \in Recipes, Step(t)
    PROVE  TypeOK'
<1>1. ASSUME NEW r \in Repos, LockRepo(t, r) PROVE TypeOK'
  BY <1>1, LockType, PCTypes DEF TypeOK, LockRepo
<1>2. CASE SyncFromCache(t)
  <2>1. cur[t] \in Repos
    BY DEF TypeOK
  <2>2. CASE UNCHANGED <<populated, objects, head, tree>>
    BY <1>2, <2>2, PCTypes DEF TypeOK, SyncFromCache
  <2>3. ASSUME NEW v \in Versions,
               head' = [head EXCEPT ![cur[t]] = v],
               objects' = [objects EXCEPT ![cur[t]] = {v}],
               tree' = [tree EXCEPT ![cur[t]] = IF cur[t] \in Lfs THEN Pointers ELSE v],
               populated' = [populated EXCEPT ![cur[t]] = TRUE]
        PROVE  TypeOK'
    <3>1. populated' \in [Repos -> BOOLEAN]
      BY <2>3 DEF TypeOK
    <3>2. /\ head' \in [Repos -> Versions \cup {Unborn}]
          /\ objects' \in [Repos -> SUBSET Versions]
          /\ tree' \in [Repos -> Trees]
      BY <2>1, <2>3 DEF TypeOK
    <3>3. QED
      BY <1>2, <3>1, <3>2, PCTypes DEF TypeOK, SyncFromCache
  <2>4. QED
    BY <1>2, <2>2, <2>3 DEF SyncFromCache
<1>3. CASE InitRepo(t)
  <2>1. populated' \in [Repos -> BOOLEAN]
    BY <1>3 DEF TypeOK, InitRepo
  <2>2. CASE Fail(t)
    BY <1>3, <2>1, <2>2, FailType DEF TypeOK, InitRepo
  <2>3. CASE ~Fail(t)
    <3>1. /\ Goto(t, "commit")
          /\ UNCHANGED <<manifest, lockVars, todo, cur, stamp, copy,
                         objects, head, tree, gitLocks, faults>>
      BY <1>3, <2>3 DEF InitRepo
    <3>2. QED
      BY <2>1, <3>1, PCTypes DEF TypeOK
  <2>4. QED
    BY <2>2, <2>3
<1>4. CASE FetchCommit(t)
  <2>1. objects' \in [Repos -> SUBSET Versions]
    <3>1. cur[t] \in Repos /\ manifest[cur[t]] \in Versions
      BY DEF TypeOK
    <3>2. objects[cur[t]] \cup {manifest[cur[t]]} \in SUBSET Versions
      BY <3>1 DEF TypeOK
    <3>3. \/ objects' = objects
          \/ objects' = [objects EXCEPT ![cur[t]] = objects[cur[t]] \cup {manifest[cur[t]]}]
      BY <1>4 DEF FetchCommit
    <3>4. QED
      BY <3>1, <3>2, <3>3 DEF TypeOK
  <2>2. CASE Fail(t)
    BY <1>4, <2>1, <2>2, FailType DEF TypeOK, FetchCommit
  <2>3. CASE ~Fail(t)
    <3>1. /\ Goto(t, "checkout")
          /\ UNCHANGED <<manifest, lockVars, todo, cur, stamp, copy, populated,
                         head, tree, gitLocks, faults>>
      BY <1>4, <2>3 DEF FetchCommit
    <3>2. QED
      BY <2>1, <3>1, PCTypes DEF TypeOK
  <2>4. QED
    BY <2>2, <2>3
<1>5. CASE SkipCheckout(t)
  BY <1>5, PCTypes DEF TypeOK, SkipCheckout
<1>6. CASE BeginCheckout(t)
  BY <1>6, PCTypes DEF TypeOK, BeginCheckout
<1>7. CASE EndCheckout(t)
  BY <1>7, PCTypes DEF TypeOK, EndCheckout
<1>8. CASE CheckoutFails(t)
  BY <1>8, FailType DEF TypeOK, CheckoutFails
<1>9. CASE LfsDownload(t)
  BY <1>9, PCTypes DEF TypeOK, LfsDownload
<1>10. CASE UnlockRepo(t)
  BY <1>10, PCTypes, UnlockType DEF TypeOK, UnlockRepo
<1>11. CASE FetchDone(t)
  BY <1>11, PCTypes DEF TypeOK, FetchDone, Srcrev
<1>12. ASSUME NEW r \in Repos, LockForUnpack(t, r) PROVE TypeOK'
  BY <1>12, LockType DEF TypeOK, LockForUnpack
<1>13. CASE BeginUnpack(t)
  BY <1>13, PCTypes DEF TypeOK, BeginUnpack
<1>14. CASE EndUnpack(t)
  BY <1>14, PCTypes, UnlockType DEF TypeOK, EndUnpack
<1>15. QED
  BY <1>1, <1>2, <1>3, <1>4, <1>5, <1>6, <1>7, <1>8, <1>9, <1>10, <1>11,
     <1>12, <1>13, <1>14 DEF Step

LEMMA EnvironmentType ==
    ASSUME TypeOK, NEW t \in Recipes, Environment(t)
    PROVE  TypeOK'
<1>1. CASE Start(t)
  BY <1>1, PCTypes DEF TypeOK, Start, FetchSet, Sources
<1>2. CASE SyncCutShort(t)
  <2>1. populated' \in [Repos -> BOOLEAN]
    BY <1>2 DEF TypeOK, SyncCutShort
  <2> DEFINE r == cur[t]
  <2>5. r \in Repos
    BY DEF TypeOK
  <2>2. /\ head' \in [Repos -> Versions \cup {Unborn}]
        /\ objects' \in [Repos -> SUBSET Versions]
    <3>1. CASE UNCHANGED <<head, objects>>
      BY <3>1 DEF TypeOK
    <3>2. ASSUME NEW v \in Versions,
                 head' = [head EXCEPT ![r] = v],
                 objects' = [objects EXCEPT ![r] = {v}]
          PROVE  /\ head' \in [Repos -> Versions \cup {Unborn}]
                 /\ objects' \in [Repos -> SUBSET Versions]
      BY <2>5, <3>2 DEF TypeOK
    <3>3. QED
      BY <1>2, <3>1, <3>2 DEF SyncCutShort
  <2>6. tree' \in [Repos -> Trees]
    BY <1>2, <2>5 DEF TypeOK, SyncCutShort
  <2>3. faults' \in 0..MaxFaults
    BY <1>2 DEF TypeOK, SyncCutShort
  <2>4. QED
    BY <1>2, <2>1, <2>2, <2>3, <2>6, PCTypes DEF TypeOK, SyncCutShort
<1>3. CASE NetworkFails(t)
  BY <1>3, FailType DEF TypeOK, NetworkFails
<1>4. CASE Kill(t)
  <2>1. LeftBy(pc[t]) \subseteq GitLockNames
    BY DEF LeftBy, GitLockNames
  <2>2. gitLocks' \in [Repos -> SUBSET GitLockNames]
    <3>1. gitLocks[cur[t]] \cup LeftBy(pc[t]) \in SUBSET GitLockNames
      BY <2>1 DEF TypeOK
    <3>2. \/ gitLocks' = gitLocks
          \/ gitLocks' = [gitLocks EXCEPT ![cur[t]] = gitLocks[cur[t]] \cup LeftBy(pc[t])]
      BY <1>4 DEF Kill
    <3>3. QED
      BY <3>1, <3>2 DEF TypeOK
  <2>3. faults' \in 0..MaxFaults
    BY <1>4 DEF TypeOK, Kill
  <2>4. QED
    BY <1>4, <2>2, <2>3, FailType DEF TypeOK, Kill
<1>5. CASE OpeneulerClean(t)
  BY <1>5 DEF TypeOK, OpeneulerClean
<1>6. CASE FilesChange(t)
  BY <1>6, PCTypes DEF TypeOK, FilesChange
<1>7. QED
  BY <1>1, <1>2, <1>3, <1>4, <1>5, <1>6 DEF Environment

\* Every variable keeps its type, whatever the tasks, the machine and the
\* manifest do.
THEOREM TypeCorrect == Spec => []TypeOK
<1>1. Init => TypeOK
  BY PCTypes DEF Init, TypeOK, GitLockNames
<1>2. TypeOK /\ [Next]_vars => TypeOK'
  <2> SUFFICES ASSUME TypeOK, [Next]_vars PROVE TypeOK'
    OBVIOUS
  <2>1. ASSUME NEW t \in Recipes, Step(t) \/ Environment(t) PROVE TypeOK'
    BY <2>1, StepType, EnvironmentType
  <2>2. ASSUME NEW r \in Repos, Bump(r) PROVE TypeOK'
    BY <2>2, PCTypes DEF TypeOK, Bump, Moves
  <2>3. CASE UNCHANGED vars
    BY <2>3 DEF TypeOK, vars
  <2>4. QED
    BY <2>1, <2>2, <2>3 DEF Next
<1>3. QED
  BY <1>1, <1>2, PTL DEF Spec

-----------------------------------------------------------------------------
(* Locks                                                                   *)

\* The steps inside download_repo that keep the lock.
Quiet(t) ==
    /\ pc[t] \in Downloading
    /\ \E l \in Downloading : pc' = [pc EXCEPT ![t] = l]
    /\ UNCHANGED <<path, held, cur>>

\* A step of a task is one inside download_repo, a failure, or one of the
\* few that handle locks.
LEMMA StepKinds ==
    ASSUME NEW t \in Recipes, Step(t) \/ Environment(t)
    PROVE  \/ Quiet(t)
           \/ Fail(t)
           \/ \E r \in Repos : LockRepo(t, r) \/ LockForUnpack(t, r)
           \/ UnlockRepo(t) \/ FetchDone(t) \/ BeginUnpack(t) \/ EndUnpack(t)
           \/ Start(t) \/ FilesChange(t) \/ OpeneulerClean(t)
<1>1. CASE SyncFromCache(t)
  BY <1>1 DEF SyncFromCache, Quiet, Downloading
<1>2. CASE InitRepo(t)
  BY <1>2 DEF InitRepo, Quiet, Downloading
<1>3. CASE FetchCommit(t)
  BY <1>3 DEF FetchCommit, Quiet, Downloading
<1>4. CASE SkipCheckout(t) \/ BeginCheckout(t) \/ EndCheckout(t) \/ LfsDownload(t)
  BY <1>4 DEF SkipCheckout, BeginCheckout, EndCheckout, LfsDownload, Quiet, Downloading
<1>5. CASE SyncCutShort(t)
  BY <1>5 DEF SyncCutShort, Quiet, Downloading
<1>6. CASE CheckoutFails(t) \/ NetworkFails(t) \/ Kill(t)
  BY <1>6 DEF CheckoutFails, NetworkFails, Kill
<1>7. QED
  BY <1>1, <1>2, <1>3, <1>4, <1>5, <1>6 DEF Step, Environment

LEMMA PCDisjoint ==
    /\ "repos" \notin Downloading \cup Unpacking \cup AtRest
    /\ Downloading \cap Unpacking = {} /\ Downloading \cap AtRest = {}
    /\ Unpacking \cap AtRest = {}
    /\ "sync" \in Downloading /\ "unlock" \in Downloading
    /\ "unpack" \in Unpacking /\ "reading" \in Unpacking
    /\ "idle" \in AtRest /\ "done" \in AtRest /\ "failed" \in AtRest
    /\ "unpack" \notin Downloading /\ "reading" \notin Downloading
BY DEF Downloading, Unpacking, AtRest

LEMMA LockInvStep ==
    ASSUME TypeOK, LockInv, NEW t \in Recipes, Step(t) \/ Environment(t)
    PROVE  LockInv'
<1>1. CASE Quiet(t)
  BY <1>1, PCDisjoint DEF Quiet, LockInv, TypeOK, Pending, LockSet
<1>2. CASE Fail(t)
  BY <1>2, PCDisjoint DEF Fail, ExitUnlocks, LockInv, TypeOK, Pending, LockSet
<1>3. ASSUME NEW r \in Repos, LockRepo(t, r) PROVE LockInv'
  BY <1>3, PCDisjoint DEF LockRepo, Lock, LockFree, LockInv, TypeOK, Pending, LockSet
<1>4. ASSUME NEW r \in Repos, LockForUnpack(t, r) PROVE LockInv'
  BY <1>4, PCDisjoint DEF LockForUnpack, Lock, LockFree, LockInv, TypeOK, NextLocks, Pending, LockSet
<1>5. CASE UnlockRepo(t)
  BY <1>5, PCDisjoint DEF UnlockRepo, Unlock, LockInv, TypeOK, Pending, LockSet
<1>6. CASE FetchDone(t)
  BY <1>6, PCDisjoint DEF FetchDone, LockInv, TypeOK, Pending, LockSet
<1>7. CASE BeginUnpack(t)
  BY <1>7, PCDisjoint DEF BeginUnpack, LockInv, TypeOK, Pending, LockSet
<1>8. CASE EndUnpack(t)
  BY <1>8, PCDisjoint DEF EndUnpack, Unlock, LockInv, TypeOK, Pending, LockSet
<1>9. CASE Start(t)
  BY <1>9, PCDisjoint DEF Start, LockInv, TypeOK, Pending, LockSet
<1>10. CASE OpeneulerClean(t)
  BY <1>10, PCDisjoint DEF OpeneulerClean, LockInv, TypeOK, Pending, LockSet
<1>11. CASE FilesChange(t)
  BY <1>11, PCDisjoint DEF FilesChange, LockInv, TypeOK, Pending, LockSet
<1>12. QED
  BY <1>1, <1>2, <1>3, <1>4, <1>5, <1>6, <1>7, <1>8, <1>9, <1>10, <1>11, StepKinds

\* Locks are where LockInv says, with or without do_openeuler_clean.
THEOREM LocksWhereExpected == Spec => []LockInv
<1>1. Init => LockInv
  BY PCDisjoint DEF Init, LockInv, LockSet, Pending
<1>2. TypeOK /\ LockInv /\ [Next]_vars => LockInv'
  <2> SUFFICES ASSUME TypeOK, LockInv, [Next]_vars PROVE LockInv'
    OBVIOUS
  <2>1. ASSUME NEW t \in Recipes, Step(t) \/ Environment(t) PROVE LockInv'
    BY <2>1, LockInvStep
  <2>2. ASSUME NEW r \in Repos, Bump(r) PROVE LockInv'
    BY <2>2, PCDisjoint DEF Bump, LockInv, TypeOK, LockSet, Pending
  <2>3. CASE UNCHANGED vars
    BY <2>3 DEF vars, LockInv, LockSet, Pending
  <2>4. QED
    BY <2>1, <2>2, <2>3 DEF Next
<1>3. QED
  BY <1>1, <1>2, TypeCorrect, PTL DEF Spec

\* Sorted lock files exclude deadlock: chains of waits only go up.
THEOREM NoCircularWait == Spec => []WaitsAscend
<1>1. TypeOK /\ LockInv => WaitsAscend
  BY PCDisjoint DEF TypeOK, LockInv, WaitsAscend, Wants, NextLocks, Pending, LockSet
<1>2. QED
  BY <1>1, TypeCorrect, LocksWhereExpected, PTL

\* No repository stays locked by a task that is no longer running.
THEOREM NoLockLeaks == Spec => []NoLeakedLock
<1>1. TypeOK /\ LockInv => NoLeakedLock
  BY DEF TypeOK, LockInv, NoLeakedLock
<1>2. QED
  BY <1>1, TypeCorrect, LocksWhereExpected, PTL

-----------------------------------------------------------------------------
(* Mutual exclusion                                                        *)

\* Two tasks never hold the lock of one repository.
LEMMA HeldByOne ==
    ASSUME MutexInv, NEW t \in Recipes, NEW u \in Recipes, NEW r \in held[t],
           r \in held[u]
    PROVE  t = u
BY DEF MutexInv

LEMMA FreeIsNobody == \A t \in Recipes : t \notin {Absent, Stale}
  <1>1. Absent \in Int /\ Stale \in Int
    OBVIOUS
  <1>2. QED
    BY <1>1

LEMMA MutexInvStep ==
    ASSUME ~CleanRuns, TypeOK, LockInv, MutexInv,
           NEW t \in Recipes, Step(t) \/ Environment(t)
    PROVE  MutexInv'
<1>1. CASE Quiet(t)
  BY <1>1 DEF Quiet, MutexInv
<1>2. CASE Fail(t)
  BY <1>2 DEF Fail, ExitUnlocks, MutexInv, TypeOK
<1>3. ASSUME NEW r \in Repos, LockRepo(t, r) \/ LockForUnpack(t, r) PROVE MutexInv'
  <2>1. Lock(t, r)
    BY <1>3 DEF LockRepo, LockForUnpack
  <2>2. \A u \in Recipes : r \notin held[u]
    BY <2>1, FreeIsNobody DEF Lock, LockFree, MutexInv
  <2>3. QED
    BY <2>1, <2>2 DEF Lock, MutexInv, TypeOK
<1>4. CASE UnlockRepo(t) \/ EndUnpack(t)
  <2>1. PICK rs \in SUBSET held[t] : Unlock(t, rs)
    BY <1>4, PCDisjoint DEF UnlockRepo, EndUnpack, LockInv
  <2>2. QED
    BY <2>1, HeldByOne DEF Unlock, MutexInv, TypeOK
<1>5. CASE FetchDone(t) \/ BeginUnpack(t) \/ Start(t) \/ FilesChange(t)
  BY <1>5 DEF FetchDone, BeginUnpack, Start, FilesChange, MutexInv
<1>6. CASE OpeneulerClean(t)
  BY <1>6 DEF OpeneulerClean
<1>7. QED
  BY <1>1, <1>2, <1>3, <1>4, <1>5, <1>6, StepKinds

THEOREM HoldersAtThePath == ASSUME ~CleanRuns PROVE Spec => []MutexInv
<1>1. Init => MutexInv
  BY DEF Init, MutexInv
<1>2. TypeOK /\ LockInv /\ MutexInv /\ [Next]_vars => MutexInv'
  <2> SUFFICES ASSUME TypeOK, LockInv, MutexInv, [Next]_vars PROVE MutexInv'
    OBVIOUS
  <2>1. ASSUME NEW t \in Recipes, Step(t) \/ Environment(t) PROVE MutexInv'
    BY <2>1, MutexInvStep
  <2>2. CASE (\E r \in Repos : Bump(r)) \/ UNCHANGED vars
    BY <2>2 DEF Bump, vars, MutexInv
  <2>3. QED
    BY <2>1, <2>2 DEF Next
<1>3. QED
  BY <1>1, <1>2, TypeCorrect, LocksWhereExpected, PTL DEF Spec

LEMMA RewritesHolds ==
    ASSUME LockInv, NEW t \in Recipes, NEW r \in Repos, Rewrites(t, r)
    PROVE  r \in held[t]
BY DEF LockInv, Rewrites, Downloading

LEMMA ReadsHolds ==
    ASSUME LockInv, NEW t \in Recipes, NEW r \in Repos, Reads(t, r)
    PROVE  r \in held[t]
BY DEF LockInv, Reads, Pending, LockSet, Sources

\* do_unpack is serialized against do_fetch of every other recipe, whatever
\* the manifest does, tasks die of, or stop half way.
THEOREM UnpackIsSerialized == ASSUME ~CleanRuns PROVE Spec => []UnpackSerialized
<1>1. LockInv /\ MutexInv => UnpackSerialized
  <2> SUFFICES ASSUME LockInv, MutexInv,
                      NEW t \in Recipes, NEW u \in Recipes, NEW r \in Repos,
                      t # u, Rewrites(t, r), Reads(u, r) \/ Rewrites(u, r)
               PROVE  FALSE
    BY DEF UnpackSerialized
  <2>1. r \in held[t] /\ r \in held[u]
    BY RewritesHolds, ReadsHolds
  <2>2. QED
    BY <2>1, HeldByOne
<1>2. QED
  BY <1>1, LocksWhereExpected, HoldersAtThePath, PTL

\* A working tree changes only in the hands of its single lock holder.
LEMMA TreeChanger ==
    ASSUME TypeOK, LockInv, [Next]_vars, NEW r \in Repos, tree'[r] # tree[r]
    PROVE  \E t \in Recipes : pc[t] \in Downloading /\ cur[t] = r /\ r \in held[t]
<1>1. CASE UNCHANGED tree
  BY <1>1
<1>2. ASSUME NEW t \in Recipes, Step(t) \/ Environment(t), tree' # tree
      PROVE  pc[t] \in Downloading /\ \E c \in Trees : tree' = [tree EXCEPT ![cur[t]] = c]
  <2>1. CASE SyncFromCache(t)
    BY <1>2, <2>1 DEF SyncFromCache, Downloading
  <2>2. CASE SyncCutShort(t)
    BY <2>2 DEF SyncCutShort, Downloading
  <2>3. CASE BeginCheckout(t)
    BY <2>3 DEF BeginCheckout, Downloading
  <2>4. CASE EndCheckout(t)
    <3> DEFINE c == IF pc[t] = "patching" THEN Torn
                    ELSE IF cur[t] \in Lfs THEN Pointers ELSE manifest[cur[t]]
    <3>1. c \in Trees
      BY DEF TypeOK
    <3>2. tree' = [tree EXCEPT ![cur[t]] = c] /\ pc[t] \in {"writing", "patching"}
      BY <2>4 DEF EndCheckout
    <3>3. QED
      BY <3>1, <3>2 DEF Downloading
  <2>5. CASE LfsDownload(t)
    <3> DEFINE c == IF HasLfs(cur[t]) /\ tree[cur[t]] = Pointers
                    THEN head[cur[t]] ELSE tree[cur[t]]
    <3>1. c \in Trees
      BY DEF TypeOK
    <3>2. tree' = [tree EXCEPT ![cur[t]] = c] /\ pc[t] = "lfs"
      BY <2>5 DEF LfsDownload
    <3>3. QED
      BY <3>1, <3>2 DEF Downloading
  <2>6. QED
    BY <1>2, <2>1, <2>2, <2>3, <2>4, <2>5
       DEF Step, Environment, LockRepo, InitRepo, FetchCommit, SkipCheckout,
           CheckoutFails, UnlockRepo, FetchDone, LockForUnpack, BeginUnpack,
           EndUnpack, Start, NetworkFails, Kill, FilesChange, OpeneulerClean
<1>3. PICK t \in Recipes : pc[t] \in Downloading /\ \E c \in Trees : tree' = [tree EXCEPT ![cur[t]] = c]
  BY <1>1, <1>2 DEF Next, Bump, vars
<1>4. cur[t] = r
  BY <1>3 DEF TypeOK
<1>5. QED
  BY <1>3, <1>4 DEF LockInv

THEOREM TreesChangeUnderLock ==
    ASSUME ~CleanRuns PROVE Spec => TreeChangesUnderLock
<1>1. TypeOK /\ LockInv /\ MutexInv /\ [Next]_vars =>
        [\A r \in Repos : tree'[r] # tree[r] =>
           \E t \in Recipes : /\ r \in held[t] /\ cur[t] = r
                              /\ \A u \in Recipes \ {t} : r \notin held[u]]_vars
  <2> SUFFICES ASSUME TypeOK, LockInv, MutexInv, [Next]_vars,
                      NEW r \in Repos, tree'[r] # tree[r]
               PROVE  \E t \in Recipes : /\ r \in held[t] /\ cur[t] = r
                                         /\ \A u \in Recipes \ {t} : r \notin held[u]
    OBVIOUS
  <2>1. PICK t \in Recipes : cur[t] = r /\ r \in held[t]
    BY TreeChanger
  <2>2. \A u \in Recipes \ {t} : r \notin held[u]
    BY <2>1, HeldByOne
  <2>3. QED
    BY <2>1, <2>2
<1>2. QED
  BY <1>1, TypeCorrect, LocksWhereExpected, HoldersAtThePath, PTL
     DEF Spec, TreeChangesUnderLock

\* What the theorems below about the contents of the trees assume of the
\* constants: no do_openeuler_clean beside a build, no copy or checkout cut off
\* half way. The code grants neither; the runs SourceFetchClean and
\* SourceFetchCutShort have what is lost without them.
Whole == ~CleanRuns /\ ~CutShort

\* The theorems about versions also assume that the manifest only moves forward:
\* with an earlier version its SRCREV, and with it the stamp of do_fetch, returns
\* to a recipe while the checkout may be of the later one.
Settling == Whole /\ ~Reverts

-----------------------------------------------------------------------------
(* What one step of a task changes                                         *)

Task(t) == Step(t) \/ Environment(t)

\* A step of t leaves the variables of the other tasks alone.
LEMMA OthersUntouched ==
    ASSUME TypeOK, NEW t \in Recipes, Task(t), NEW u \in Recipes, u # t
    PROVE  /\ manifest' = manifest
           /\ pc'[u] = pc[u] /\ todo'[u] = todo[u] /\ cur'[u] = cur[u]
           /\ stamp'[u] = stamp[u] /\ copy'[u] = copy[u] /\ held'[u] = held[u]
<1>1. ASSUME NEW r \in Repos, LockRepo(t, r) \/ LockForUnpack(t, r)
      PROVE  /\ manifest' = manifest
             /\ pc'[u] = pc[u] /\ todo'[u] = todo[u] /\ cur'[u] = cur[u]
             /\ stamp'[u] = stamp[u] /\ copy'[u] = copy[u] /\ held'[u] = held[u]
  BY <1>1 DEF LockRepo, LockForUnpack, Lock, TypeOK
<1>2. CASE SyncFromCache(t) \/ SkipCheckout(t) \/ BeginCheckout(t) \/ EndCheckout(t)
  BY <1>2 DEF SyncFromCache, SkipCheckout, BeginCheckout, EndCheckout, TypeOK
<1>3. CASE InitRepo(t)
  BY <1>3 DEF InitRepo, Fail, ExitUnlocks, TypeOK
<1>4. CASE FetchCommit(t)
  BY <1>4 DEF FetchCommit, Fail, ExitUnlocks, TypeOK
<1>5. CASE CheckoutFails(t) \/ NetworkFails(t) \/ Kill(t)
  BY <1>5 DEF CheckoutFails, NetworkFails, Kill, Fail, ExitUnlocks, TypeOK
<1>6. CASE LfsDownload(t) \/ FetchDone(t) \/ BeginUnpack(t) \/ Start(t)
  BY <1>6 DEF LfsDownload, FetchDone, BeginUnpack, Start, TypeOK
<1>7. CASE UnlockRepo(t) \/ EndUnpack(t)
  BY <1>7 DEF UnlockRepo, EndUnpack, Unlock, TypeOK
<1>8. CASE SyncCutShort(t) \/ FilesChange(t) \/ OpeneulerClean(t)
  BY <1>8 DEF SyncCutShort, FilesChange, OpeneulerClean, TypeOK
<1>9. QED
  BY <1>1, <1>2, <1>3, <1>4, <1>5, <1>6, <1>7, <1>8 DEF Task, Step, Environment

\* The four steps that change HEAD or the working tree.
Mutates(t) == SyncFromCache(t) \/ BeginCheckout(t) \/ EndCheckout(t) \/ LfsDownload(t)

LEMMA OnlyMutators ==
    ASSUME ~CutShort, NEW t \in Recipes, Task(t), ~Mutates(t)
    PROVE  UNCHANGED <<head, tree>>
BY DEF Task, Mutates, Step, Environment, LockRepo, InitRepo, FetchCommit,
       SkipCheckout, CheckoutFails, UnlockRepo, FetchDone, LockForUnpack,
       BeginUnpack, EndUnpack, Start, NetworkFails, Kill, FilesChange, OpeneulerClean,
       SyncCutShort

LEMMA MutatesDownloading ==
    ASSUME NEW t \in Recipes, Mutates(t)
    PROVE  pc[t] \in Downloading
BY DEF Mutates, SyncFromCache, BeginCheckout, EndCheckout, LfsDownload, Downloading

\* What a step of t does to a repository: nothing unless t holds it.
LEMMA RepoUntouched ==
    ASSUME ~CutShort, TypeOK, NEW t \in Recipes, Task(t), NEW r \in Repos,
           r # cur[t] \/ ~Mutates(t)
    PROVE  head'[r] = head[r] /\ tree'[r] = tree[r]
<1>1. CASE ~Mutates(t)
  BY <1>1, OnlyMutators
<1>2. CASE SyncFromCache(t) /\ r # cur[t]
  BY <1>2 DEF SyncFromCache, TypeOK
<1>3. CASE (BeginCheckout(t) \/ EndCheckout(t) \/ LfsDownload(t)) /\ r # cur[t]
  BY <1>3 DEF BeginCheckout, EndCheckout, LfsDownload, TypeOK
<1>4. QED
  BY <1>1, <1>2, <1>3 DEF Mutates

\* A repository somebody else holds.
LEMMA HeldUntouched ==
    ASSUME ~CutShort, TypeOK, LockInv, MutexInv, NEW t \in Recipes, Task(t),
           NEW u \in Recipes, u # t, NEW r \in held[u]
    PROVE  r \in Repos /\ head'[r] = head[r] /\ tree'[r] = tree[r]
<1>1. r \in Repos
  BY DEF TypeOK
<1>2. pc[t] \in Downloading => cur[t] # r
  BY HeldByOne DEF LockInv
<1>3. QED
  BY <1>1, <1>2, MutatesDownloading, RepoUntouched

LEMMA PopulatedStays ==
    ASSUME TypeOK, NEW t \in Recipes, Task(t), NEW r \in Repos, populated[r]
    PROVE  populated'[r]
<1>1. CASE SyncFromCache(t)
  BY <1>1 DEF SyncFromCache, TypeOK
<1>2. CASE InitRepo(t)
  BY <1>2 DEF InitRepo, TypeOK
<1>3. CASE SyncCutShort(t)
  BY <1>3 DEF SyncCutShort, TypeOK
<1>4. CASE UNCHANGED populated
  BY <1>4
<1>5. QED
  BY <1>1, <1>2, <1>3, <1>4
     DEF Task, Step, Environment, LockRepo, FetchCommit, SkipCheckout,
         BeginCheckout, EndCheckout, CheckoutFails, LfsDownload, UnlockRepo,
         FetchDone, LockForUnpack, BeginUnpack, EndUnpack, Start,
         NetworkFails, Kill, FilesChange, OpeneulerClean

\* A repository that is ready stays ready, and HEAD is never lost.
LEMMA ReadyStays ==
    ASSUME Whole, WholeInv, NEW t \in Recipes, Task(t), NEW r \in Repos
    PROVE  /\ Ready(r) => Ready(r)'
           /\ head[r] # Unborn => head'[r] # Unborn
<1>1. manifest' = manifest /\ manifest[r] \in Versions
  <2>1. manifest' = manifest
    BY DEF Task, Step, Environment, LockRepo, InitRepo, FetchCommit, SyncFromCache,
         SkipCheckout, BeginCheckout, EndCheckout, CheckoutFails, LfsDownload,
         UnlockRepo, FetchDone, LockForUnpack, BeginUnpack, EndUnpack, Start,
         NetworkFails, Kill, FilesChange, OpeneulerClean, SyncCutShort
  <2>2. QED
    BY <2>1 DEF WholeInv, TypeOK
<1>2. CASE r # cur[t] \/ ~Mutates(t)
  BY <1>1, <1>2, RepoUntouched DEF WholeInv, Whole, Ready
<1>3. CASE r = cur[t] /\ SyncFromCache(t)
  BY <1>1, <1>3 DEF SyncFromCache, WholeInv, TreeInv, TypeOK, Ready
<1>4. CASE r = cur[t] /\ BeginCheckout(t)
  BY <1>1, <1>4 DEF BeginCheckout, AtVersion, WholeInv, TypeOK, Ready
<1>5. CASE r = cur[t] /\ EndCheckout(t)
  BY <1>1, <1>5 DEF EndCheckout, WholeInv, FetchOK, TypeOK, Ready
<1>6. CASE r = cur[t] /\ LfsDownload(t)
  BY <1>1, <1>6 DEF LfsDownload, WholeInv, TypeOK, Ready
<1>7. QED
  BY <1>2, <1>3, <1>4, <1>5, <1>6 DEF Mutates

-----------------------------------------------------------------------------
(* The trees                                                               *)

\* Nobody else is checking out a repository t holds.
LEMMA NotCheckingOut ==
    ASSUME WholeInv, NEW t \in Recipes, NEW r \in held[t],
           NEW u \in Recipes, CheckingOut(u, r)
    PROVE  u = t
<1>1. r \in held[u]
  BY DEF WholeInv, LockInv, CheckingOut, Downloading
<1>2. QED
  BY <1>1, HeldByOne DEF WholeInv

\* A repository t holds and is not checking out agrees with its HEAD.
LEMMA HeldSettled ==
    ASSUME WholeInv, NEW t \in Recipes, NEW r \in held[t], pc[t] # "writing"
    PROVE  /\ r \in Repos
           /\ tree[r] = head[r] \/ (tree[r] = Pointers /\ head[r] \in Versions /\ r \in Lfs)
           /\ tree[r] # Torn
<1>1. r \in Repos /\ head[r] \in Versions \cup {Unborn}
  BY DEF WholeInv, TypeOK
<1>2. \A u \in Recipes : ~CheckingOut(u, r)
  BY NotCheckingOut DEF CheckingOut
<1>3. tree[r] = head[r] \/ (tree[r] = Pointers /\ head[r] \in Versions /\ r \in Lfs)
  BY <1>1, <1>2 DEF WholeInv, TreeInv
<1>4. QED
  BY <1>1, <1>3

LEMMA DownloadingHolds ==
    ASSUME WholeInv, NEW t \in Recipes, pc[t] \in Downloading
    PROVE  cur[t] \in held[t] /\ cur[t] \in Repos
BY DEF WholeInv, LockInv, TypeOK

LEMMA TreeInvStep ==
    ASSUME Whole, WholeInv, NEW t \in Recipes, Task(t)
    PROVE  TreeInv'
<1> SUFFICES ASSUME NEW r \in Repos
             PROVE  /\ ~populated'[r] => head'[r] = Unborn
                    /\ \/ \E u \in Recipes : CheckingOut(u, r)'
                       \/ tree'[r] = head'[r]
                       \/ tree'[r] = Pointers /\ head'[r] \in Versions /\ r \in Lfs
  BY DEF TreeInv
<1>1. ~populated'[r] => ~populated[r] /\ head[r] = Unborn
  BY PopulatedStays DEF WholeInv, TreeInv
<1>2. CASE r # cur[t] \/ ~Mutates(t)
  <2>1. head'[r] = head[r] /\ tree'[r] = tree[r]
    BY <1>2, RepoUntouched DEF WholeInv, Whole
  <2>2. ASSUME NEW u \in Recipes, CheckingOut(u, r) PROVE CheckingOut(u, r)'
    <3>1. CASE u # t
      BY <2>2, <3>1, OthersUntouched DEF WholeInv, CheckingOut
    <3>2. CASE u = t
      <4>1. pc[t] = "writing" /\ ~EndCheckout(t)
        BY <1>2, <2>2, <3>2 DEF CheckingOut, Mutates
      <4>2. FALSE
        BY <4>1 DEF Task, Step, Environment, LockRepo, InitRepo, FetchCommit,
           SyncFromCache, SkipCheckout, BeginCheckout, CheckoutFails, LfsDownload,
           UnlockRepo, FetchDone, LockForUnpack, BeginUnpack, EndUnpack, Start,
           NetworkFails, Kill, FilesChange, OpeneulerClean, SyncCutShort, Whole,
           AtRest
      <4>3. QED
        BY <4>2
    <3>3. QED
      BY <3>1, <3>2
  <2>3. QED
    BY <1>1, <2>1, <2>2 DEF WholeInv, TreeInv
<1>3. CASE r = cur[t] /\ SyncFromCache(t)
  <2>1. CASE UNCHANGED <<populated, head, tree>>
    <3>1. r \in held[t] /\ pc[t] # "writing"
      BY <1>3, DownloadingHolds DEF SyncFromCache, Downloading
    <3>2. QED
      BY <1>1, <2>1, <3>1, HeldSettled
  <2>2. CASE ~UNCHANGED <<populated, head, tree>>
    BY <1>3, <2>2 DEF SyncFromCache, WholeInv, TypeOK
  <2>3. QED
    BY <2>1, <2>2
<1>4. CASE r = cur[t] /\ BeginCheckout(t)
  <2>1. r \in held[t] /\ pc[t] # "writing"
    BY <1>4, DownloadingHolds DEF BeginCheckout, Downloading
  <2>2. tree[r] # Torn
    BY <2>1, HeldSettled
  <2>3. CheckingOut(t, r)' /\ head'[r] = head[r]
    BY <1>4, <2>2 DEF BeginCheckout, CheckingOut, WholeInv, TypeOK
  <2>4. QED
    BY <1>1, <2>3
<1>5. CASE r = cur[t] /\ EndCheckout(t)
  <2>1. pc[t] = "writing" /\ populated[r] /\ manifest[r] \in Versions
    BY <1>5 DEF EndCheckout, WholeInv, FetchOK, TypeOK, Downloading
  <2>2. QED
    BY <1>1, <1>5, <2>1 DEF EndCheckout, WholeInv, TypeOK
<1>6. CASE r = cur[t] /\ LfsDownload(t)
  <2>1. r \in held[t] /\ pc[t] # "writing"
    BY <1>6, DownloadingHolds DEF LfsDownload, Downloading
  <2>2. tree[r] = head[r] \/ (tree[r] = Pointers /\ head[r] \in Versions /\ r \in Lfs)
    BY <2>1, HeldSettled
  <2>3. QED
    BY <1>1, <1>6, <2>2 DEF LfsDownload, HasLfs, WholeInv, TypeOK
<1>7. QED
  BY <1>2, <1>3, <1>4, <1>5, <1>6 DEF Mutates

-----------------------------------------------------------------------------
(* What other tasks know stays true                                        *)

LEMMA OthersKeep ==
    ASSUME Whole, WholeInv, NEW t \in Recipes, Task(t), NEW u \in Recipes, u # t
    PROVE  FetchOK(u)' /\ CopyWhole(u)'
<1>1. /\ manifest' = manifest
      /\ pc'[u] = pc[u] /\ todo'[u] = todo[u] /\ cur'[u] = cur[u]
      /\ copy'[u] = copy[u] /\ held'[u] = held[u]
  BY OthersUntouched DEF WholeInv
<1>2. FetchOK(u) /\ CopyWhole(u)
  BY DEF WholeInv
<1>3. FetchSet(u) \subseteq Repos /\ Sources(u) \subseteq Repos
  BY DEF FetchSet, Sources
<1>4. ASSUME pc[u] \in Downloading
      PROVE  /\ tree'[cur[u]] = tree[cur[u]] /\ head'[cur[u]] = head[cur[u]]
             /\ populated[cur[u]] => populated'[cur[u]]
  <2>1. cur[u] \in held[u] /\ cur[u] \in Repos
    BY <1>4, DownloadingHolds
  <2>2. QED
    BY <2>1, HeldUntouched, PopulatedStays DEF WholeInv, Whole
<1>5. FetchOK(u)'
  <2>1. \A r \in FetchSet(u) : Ready(r) => Ready(r)'
    BY <1>3, ReadyStays
  <2>2. {"writing", "lfs", "unlock"} \subseteq Downloading
    BY DEF Downloading
  <2>3. QED
    BY <1>1, <1>2, <1>4, <2>1, <2>2 DEF FetchOK, Ready, FetchSet, Sources
<1>6. CopyWhole(u)'
  <2>1. ASSUME pc[u] = "reading", NEW r \in Sources(u) PROVE tree'[r] = tree[r]
    <3>1. r \in held[u]
      BY <1>3, <2>1, ReadsHolds DEF WholeInv, Reads
    <3>2. QED
      BY <3>1, HeldUntouched DEF WholeInv, Whole
  <2>2. QED
    BY <1>1, <1>2, <2>1 DEF CopyWhole
<1>7. QED
  BY <1>5, <1>6

LEMMA OthersKeepStamp ==
    ASSUME Whole, IInv, NEW t \in Recipes, Task(t), NEW u \in Recipes, u # t
    PROVE  StampOK(u)' /\ CopyOK(u)'
<1>1. /\ manifest' = manifest
      /\ pc'[u] = pc[u] /\ stamp'[u] = stamp[u] /\ copy'[u] = copy[u]
  BY OthersUntouched DEF IInv, WholeInv
<1>2. StampOK(u) /\ CopyOK(u)
  BY DEF IInv
<1>3. FetchSet(u) \subseteq Repos /\ LocalName[u] \in Repos
  BY DEF FetchSet, Sources
<1>4. StampOK(u)'
  BY <1>1, <1>2, <1>3, ReadyStays DEF IInv, StampOK, FetchStamped, Srcrev
<1>5. CopyOK(u)'
  BY <1>1, <1>2 DEF CopyOK
<1>6. QED
  BY <1>4, <1>5

-----------------------------------------------------------------------------
(* What a task knows itself                                                *)

\* What do_openeuler_fetch may rely on after each of its own steps.
LEMMA OwnFetch ==
    ASSUME Whole, WholeInv, NEW t \in Recipes, Task(t)
    PROVE  FetchOK(t)'
<1>1. \A r \in FetchSet(t) : r \in Repos /\ (Ready(r) => Ready(r)')
  BY ReadyStays DEF FetchSet, Sources
<1>2. /\ FetchOK(t) /\ TypeOK
      /\ pc[t] \in Downloading => cur[t] \in held[t] /\ cur[t] \in Repos
  BY DownloadingHolds DEF WholeInv
<1>3. \A r \in Repos : populated[r] => populated'[r]
  BY PopulatedStays DEF WholeInv
<1>4. CASE pc' = [pc EXCEPT ![t] = "failed"] /\ todo' = [todo EXCEPT ![t] = {}]
  BY <1>2, <1>4, PCDisjoint DEF FetchOK, TypeOK, Downloading
<1>5. CASE Start(t)
  BY <1>5, <1>2 DEF Start, FetchOK, TypeOK, FetchSet, Sources, Downloading
<1>6. ASSUME NEW r \in Repos, LockRepo(t, r) PROVE FetchOK(t)'
  <2>1. /\ pc'[t] = "sync" /\ cur'[t] = r /\ todo' = todo /\ r \in todo[t]
        /\ pc[t] = "repos"
    BY <1>6, <1>2 DEF LockRepo, TypeOK
  <2>2. QED
    BY <1>1, <1>2, <2>1 DEF FetchOK, FetchSet, Sources
<1>7. CASE SyncFromCache(t)
  <2>1. pc[t] = "sync" /\ pc'[t] = "init" /\ cur' = cur /\ todo' = todo
    BY <1>7, <1>2 DEF SyncFromCache, TypeOK
  <2>2. QED
    BY <1>1, <1>2, <2>1 DEF FetchOK, FetchSet, Sources, Downloading
<1>8. CASE InitRepo(t) /\ ~Fail(t)
  <2>1. /\ pc[t] = "init" /\ pc'[t] = "commit" /\ cur' = cur /\ todo' = todo
        /\ populated'[cur[t]]
    BY <1>8, <1>2 DEF InitRepo, TypeOK, Downloading
  <2>2. QED
    BY <1>1, <1>2, <2>1 DEF FetchOK, FetchSet, Sources, Downloading
<1>9. CASE (FetchCommit(t) /\ ~Fail(t)) \/ SkipCheckout(t)
  <2>1. /\ pc[t] \in {"commit", "checkout"} /\ pc'[t] \in {"checkout", "lfs"}
        /\ cur' = cur /\ todo' = todo /\ head' = head /\ manifest' = manifest
        /\ pc'[t] = "lfs" => AtVersion(cur[t])
    BY <1>9, <1>2 DEF FetchCommit, SkipCheckout, TypeOK
  <2>2. QED
    BY <1>1, <1>2, <1>3, <2>1 DEF FetchOK, FetchSet, Sources, Downloading, AtVersion
<1>10. CASE BeginCheckout(t)
  <2>1. tree[cur[t]] # Torn
    BY <1>10, <1>2, HeldSettled DEF BeginCheckout, Downloading
  <2>2. /\ pc[t] = "checkout" /\ pc'[t] = "writing" /\ cur' = cur /\ todo' = todo
        /\ tree'[cur[t]] = Torn
    BY <1>10, <1>2, <2>1 DEF BeginCheckout, TypeOK
  <2>3. QED
    BY <1>1, <1>2, <1>3, <2>2 DEF FetchOK, FetchSet, Sources, Downloading
<1>11. CASE EndCheckout(t)
  <2>1. /\ pc[t] = "writing" /\ pc'[t] = "lfs" /\ cur' = cur /\ todo' = todo
        /\ manifest' = manifest /\ head'[cur[t]] = manifest[cur[t]]
    BY <1>11, <1>2 DEF EndCheckout, TypeOK, FetchOK
  <2>2. QED
    BY <1>1, <1>2, <1>3, <2>1 DEF FetchOK, FetchSet, Sources, Downloading
<1>12. CASE LfsDownload(t)
  <2>1. /\ pc[t] = "lfs" /\ pc'[t] = "unlock" /\ cur' = cur /\ todo' = todo
        /\ cur[t] \in held[t] /\ cur[t] \in Repos
    BY <1>12, <1>2 DEF LfsDownload, TypeOK, Downloading
  <2>2. \/ tree[cur[t]] = head[cur[t]]
        \/ tree[cur[t]] = Pointers /\ cur[t] \in Lfs
    BY <2>1, HeldSettled
  <2>3. Ready(cur[t])'
    BY <1>12, <1>2, <2>1, <2>2 DEF LfsDownload, HasLfs, TypeOK, FetchOK, Ready
  <2>4. QED
    BY <1>1, <1>2, <1>3, <2>1, <2>3 DEF FetchOK, FetchSet, Sources, Downloading, Ready
<1>13. CASE UnlockRepo(t)
  <2>1. /\ pc[t] = "unlock" /\ pc'[t] = "repos" /\ todo'[t] = todo[t] \ {cur[t]}
    BY <1>13, <1>2 DEF UnlockRepo, TypeOK
  <2>2. \A r \in FetchSet(t) \ todo'[t] : Ready(r)
    BY <1>2, <2>1 DEF FetchOK, Downloading
  <2>3. QED
    BY <1>1, <1>2, <2>1, <2>2 DEF FetchOK, FetchSet, Sources, Downloading
<1>14. CASE /\ todo' = todo /\ cur' = cur
            /\ pc'[t] \in Unpacking \cup {"done"}
  BY <1>2, <1>14, PCDisjoint DEF FetchOK, FetchSet, Sources, Downloading, Unpacking
<1>15. ASSUME NEW r \in Repos, LockForUnpack(t, r) PROVE FetchOK(t)'
  BY <1>2, <1>14, <1>15 DEF LockForUnpack, Unpacking
<1>16. CASE FetchDone(t) \/ BeginUnpack(t) \/ EndUnpack(t)
  BY <1>2, <1>14, <1>16 DEF FetchDone, BeginUnpack, EndUnpack, Unpacking, TypeOK
<1>17. CASE Fail(t)
  BY <1>17, <1>4 DEF Fail
<1>18. CASE FilesChange(t)
  BY <1>2, <1>18, PCDisjoint DEF FilesChange, FetchOK, FetchSet, Sources, TypeOK, Downloading
<1>19. QED
  BY <1>5, <1>6, <1>7, <1>8, <1>9, <1>10, <1>11, <1>12, <1>13, <1>15, <1>16, <1>17, <1>18
     DEF Task, Step, Environment, Whole, SyncCutShort, OpeneulerClean,
         CheckoutFails, NetworkFails, Kill

\* Where do_unpack and the end of a recipe come from.
LEMMA UnpackComesFrom ==
    ASSUME Whole, TypeOK, NEW t \in Recipes, Task(t)
    PROVE  /\ pc'[t] \in Unpacking \cup {"done"} =>
                \/ FetchDone(t)
                \/ stamp' = stamp /\ (pc[t] \in Unpacking \/ FetchStamped(t))
           /\ pc'[t] = "reading" => BeginUnpack(t)
           /\ pc'[t] = "done" => EndUnpack(t)
           /\ stamp' = stamp \/ FetchDone(t) \/ FilesChange(t)
<1>1. CASE Quiet(t) /\ stamp' = stamp
  BY <1>1, PCDisjoint DEF Quiet, TypeOK, Downloading, Unpacking
<1>2. CASE Fail(t)
  BY <1>2, PCDisjoint DEF Fail, TypeOK, Unpacking
<1>3. ASSUME NEW r \in Repos, LockRepo(t, r) \/ LockForUnpack(t, r)
      PROVE  /\ pc'[t] \in Unpacking \cup {"done"} => stamp' = stamp /\ pc[t] \in Unpacking
             /\ pc'[t] # "reading" /\ pc'[t] # "done" /\ stamp' = stamp
  BY <1>3 DEF LockRepo, LockForUnpack, TypeOK, Unpacking
<1>4. CASE Start(t) \/ UnlockRepo(t)
  BY <1>4 DEF Start, UnlockRepo, TypeOK, Unpacking
<1>5. CASE FetchDone(t)
  BY <1>5 DEF FetchDone, TypeOK, Unpacking
<1>6. CASE BeginUnpack(t) \/ EndUnpack(t)
  BY <1>6 DEF BeginUnpack, EndUnpack, TypeOK, Unpacking
<1>7. stamp' = stamp \/ FetchDone(t) \/ FilesChange(t)
  BY DEF Task, Step, Environment, LockRepo, SyncFromCache, InitRepo, FetchCommit,
         Fail, SkipCheckout, BeginCheckout, EndCheckout, CheckoutFails, LfsDownload,
         UnlockRepo, LockForUnpack, BeginUnpack, EndUnpack, Start, SyncCutShort,
         NetworkFails, Kill, OpeneulerClean
<1>8. CASE FilesChange(t)
  BY <1>8 DEF FilesChange, TypeOK, Unpacking
<1>9. QED
  BY <1>1, <1>2, <1>3, <1>4, <1>5, <1>6, <1>7, <1>8, StepKinds
     DEF Task, Whole, OpeneulerClean

LEMMA SrcrevType ==
    ASSUME TypeOK, NEW t \in Recipes
    PROVE  Srcrev(t) \in Nat /\ Srcrev(t) # NoStamp /\ LocalName[t] \in Repos
<1>1. LocalName[t] \in Repos /\ manifest[LocalName[t]] \in 1..MaxVersion
  BY DEF TypeOK
<1>2. QED
  BY <1>1 DEF Srcrev

LEMMA OwnStamp ==
    ASSUME Whole, IInv, NEW t \in Recipes, Task(t)
    PROVE  StampOK(t)'
<1>1. manifest' = manifest /\ Srcrev(t)' = Srcrev(t)
  <2>1. manifest' = manifest
    BY DEF Task, Step, Environment, LockRepo, InitRepo, FetchCommit, SyncFromCache,
         SkipCheckout, BeginCheckout, EndCheckout, CheckoutFails, LfsDownload,
         UnlockRepo, FetchDone, LockForUnpack, BeginUnpack, EndUnpack, Start,
         NetworkFails, Kill, FilesChange, OpeneulerClean, SyncCutShort
  <2>2. QED
    BY <2>1 DEF Srcrev
<1>2. Srcrev(t) \in Nat /\ LocalName[t] \in Repos /\ FetchSet(t) \subseteq Repos
  BY SrcrevType DEF FetchSet, Sources, IInv, WholeInv
<1>3. \A r \in Repos : /\ Ready(r) => Ready(r)'
                       /\ head[r] # Unborn => head'[r] # Unborn
  BY ReadyStays DEF IInv
<1>4. StampOK(t) /\ TypeOK /\ FetchOK(t)
  BY DEF IInv, WholeInv
<1>5. CASE FetchDone(t)
  <2>1. stamp'[t] = Srcrev(t)
    BY <1>4, <1>5 DEF FetchDone, TypeOK
  <2>2. \A r \in FetchSet(t) : Ready(r) /\ head[r] # Unborn
    <3>1. \A r \in FetchSet(t) : Ready(r) /\ manifest[r] \in Versions
      BY <1>2, <1>4, <1>5 DEF FetchDone, FetchOK, TypeOK
    <3>2. QED
      BY <3>1 DEF Ready
  <2>3. \A r \in FetchSet(t) : Ready(r)' /\ head'[r] # Unborn
    BY <1>2, <1>3, <2>2
  <2>4. FetchStamped(t)' /\ stamp'[t] <= Srcrev(t)'
    BY <1>1, <1>2, <2>1 DEF FetchStamped
  <2>5. QED
    BY <2>3, <2>4 DEF StampOK, FetchSet, Sources
<1>6. CASE stamp' = stamp /\ ~FetchDone(t)
  <2>1. pc'[t] \in Unpacking \cup {"done"} => FetchStamped(t)
    BY <1>4, <1>6, UnpackComesFrom DEF StampOK
  <2>2. QED
    BY <1>1, <1>2, <1>3, <1>4, <1>6, <2>1 DEF StampOK, FetchStamped, FetchSet, Sources
<1>7. CASE FilesChange(t)
  <2>1. stamp'[t] = NoStamp /\ pc'[t] = "idle"
    BY <1>4, <1>7 DEF FilesChange, TypeOK
  <2>2. stamp'[t] <= Srcrev(t)' /\ ~FetchStamped(t)'
    BY <1>1, <1>2, <2>1 DEF FetchStamped
  <2>3. QED
    BY <2>1, <2>2 DEF StampOK, Unpacking
<1>8. QED
  BY <1>4, <1>5, <1>6, <1>7, UnpackComesFrom

\* What do_unpack finds under the locks it holds.
LEMMA UnderLocks ==
    ASSUME WholeInv, NEW t \in Recipes, pc[t] \in Unpacking, Pending(t) = {},
           NEW r \in Sources(t)
    PROVE  /\ tree[r] \in Trees \ {Torn}
           /\ tree[r] = head[r] \/ tree[r] = Pointers
           /\ r \in Repos
<1>1. r \in held[t] /\ pc[t] # "writing"
  BY DEF Pending, LockSet, Sources, Unpacking
<1>2. QED
  BY <1>1, HeldSettled DEF WholeInv, TypeOK

LEMMA OwnCopyWhole ==
    ASSUME Whole, WholeInv, NEW t \in Recipes, Task(t)
    PROVE  CopyWhole(t)'
<1>1. Sources(t) \subseteq Repos
  BY DEF Sources
<1>2. TypeOK /\ CopyWhole(t)
  BY DEF WholeInv
<1>3. CASE BeginUnpack(t)
  <2>1. /\ pc[t] = "unpack" /\ Pending(t) = {} /\ tree' = tree /\ pc'[t] = "reading"
        /\ \A r \in Sources(t) : copy'[t][r] = {tree[r]}
    BY <1>1, <1>2, <1>3 DEF BeginUnpack, TypeOK
  <2>2. \A r \in Sources(t) : tree[r] # Torn
    BY <2>1, UnderLocks DEF Unpacking
  <2>3. QED
    BY <2>1, <2>2 DEF CopyWhole, Sources
<1>4. CASE EndUnpack(t)
  <2>1. /\ pc[t] = "reading" /\ pc'[t] = "done"
        /\ \A r \in Sources(t) : copy'[t][r] = copy[t][r] \cup {tree[r]}
    BY <1>1, <1>2, <1>4 DEF EndUnpack, TypeOK
  <2>2. Pending(t) = {} /\ pc[t] \in Unpacking
    BY <2>1 DEF WholeInv, LockInv, Unpacking
  <2>3. \A r \in Sources(t) : copy'[t][r] = {tree[r]} /\ tree[r] \in Trees \ {Torn}
    BY <1>2, <2>1, <2>2, UnderLocks DEF CopyWhole
  <2>4. QED
    BY <2>1, <2>3 DEF CopyWhole, Sources
<1>5. CASE pc'[t] # "reading" /\ pc'[t] # "done"
  BY <1>5 DEF CopyWhole
<1>6. QED
  BY <1>2, <1>3, <1>4, <1>5, UnpackComesFrom

LEMMA OwnCopy ==
    ASSUME Whole, IInv, NEW t \in Recipes, Task(t)
    PROVE  CopyOK(t)'
<1>1. FetchSet(t) \subseteq Sources(t) /\ Sources(t) \subseteq Repos
  BY DEF FetchSet, Sources
<1>2. TypeOK /\ StampOK(t) /\ CopyWhole(t) /\ WholeInv
  BY DEF IInv, WholeInv
<1>3. CASE EndUnpack(t)
  <2>1. /\ pc[t] = "reading" /\ manifest' = manifest /\ pc'[t] = "done"
        /\ \A r \in Sources(t) : copy'[t][r] = copy[t][r] \cup {tree[r]}
    BY <1>1, <1>2, <1>3 DEF EndUnpack, TypeOK
  <2>2. Pending(t) = {} /\ pc[t] \in Unpacking
    BY <1>2, <2>1 DEF WholeInv, LockInv, Unpacking
  <2>3. \A r \in Sources(t) : copy'[t][r] = {tree[r]}
    BY <1>2, <2>1 DEF CopyWhole
  <2>4. FetchStamped(t) /\ stamp[t] # NoStamp
    BY <1>2, <2>2, SrcrevType DEF StampOK, FetchStamped
  <2>5. ASSUME NEW r \in FetchSet(t) PROVE tree[r] \in Settled
    <3>1. head[r] \in Versions
      BY <1>1, <1>2, <2>4 DEF StampOK, TypeOK
    <3>2. QED
      BY <1>1, <1>2, <2>2, <3>1, UnderLocks DEF Settled
  <2>6. LocalName[t] \in FetchSet(t) => tree[LocalName[t]] = manifest[LocalName[t]]
    BY <1>2, <2>4 DEF StampOK, Ready
  <2>7. QED
    BY <1>1, <2>1, <2>3, <2>5, <2>6 DEF CopyOK, Sources, FetchSet, Settled
<1>4. CASE pc'[t] # "done"
  BY <1>4 DEF CopyOK
<1>5. QED
  BY <1>2, <1>3, <1>4, UnpackComesFrom

-----------------------------------------------------------------------------
(* The manifest moves                                                      *)

LEMMA BumpKeepsWhole ==
    ASSUME WholeInv, NEW b \in Repos, Bump(b)
    PROVE  TreeInv' /\ \A t \in Recipes : FetchOK(t)' /\ CopyWhole(t)'
<1>1. /\ UNCHANGED <<todo, cur, stamp, copy, populated, head, tree>>
      /\ \A t \in Recipes : pc[t] \in AtRest /\ pc'[t] \in AtRest
      /\ \A t \in Recipes : pc'[t] = "done" => pc[t] = "done"
  BY DEF Bump, WholeInv, TypeOK, AtRest
<1>2. TreeInv'
  <2>1. \A t \in Recipes, r \in Repos : ~CheckingOut(t, r)
    BY <1>1 DEF CheckingOut, AtRest
  <2>2. QED
    BY <1>1, <2>1 DEF WholeInv, TreeInv
<1>3. ASSUME NEW t \in Recipes PROVE FetchOK(t)' /\ CopyWhole(t)'
  <2>1. FetchOK(t) /\ CopyWhole(t)
    BY DEF WholeInv
  <2>2. FetchOK(t)'
    BY <1>1, <2>1 DEF FetchOK, FetchSet, Sources, Downloading, AtRest
  <2>3. CopyWhole(t)'
    BY <1>1, <2>1 DEF CopyWhole, Sources, AtRest
  <2>4. QED
    BY <2>2, <2>3
<1>4. QED
  BY <1>2, <1>3

LEMMA BumpStep ==
    ASSUME Settling, IInv, NEW b \in Repos, Bump(b), NEW t \in Recipes
    PROVE  StampOK(t)' /\ CopyOK(t)'
<1>1. /\ manifest' \in [Repos -> Versions] /\ manifest'[b] > manifest[b]
      /\ \A r \in Repos \ {b} : manifest'[r] = manifest[r]
  BY DEF Bump, Moves, IInv, WholeInv, TypeOK, Settling
<1>2. /\ UNCHANGED <<todo, cur, stamp, copy, populated, head, tree>>
      /\ b \in Pinned
      /\ pc[t] \in AtRest /\ pc'[t] \in AtRest
      /\ pc'[t] = pc[t] \/ (LocalName[t] = b /\ pc'[t] = "idle")
      /\ pc'[t] = "done" => pc[t] = "done" /\ LocalName[t] # b
  BY DEF Bump, IInv, WholeInv, TypeOK, AtRest
<1>4. /\ StampOK(t) /\ CopyOK(t) /\ TypeOK
      /\ stamp[t] \in Int /\ Srcrev(t) \in Int /\ LocalName[t] \in Repos
      /\ FetchSet(t) \subseteq Repos
  BY SrcrevType DEF IInv, WholeInv, TypeOK, FetchSet, Sources
<1>6. CASE LocalName[t] = b
  <2>1. Srcrev(t)' \in Int /\ Srcrev(t)' > Srcrev(t)
    BY <1>1, <1>2, <1>4, <1>6 DEF Srcrev, TypeOK
  <2>2. ~FetchStamped(t)' /\ stamp'[t] <= Srcrev(t)'
    BY <1>2, <1>4, <2>1 DEF StampOK, FetchStamped
  <2>3. pc'[t] \notin Unpacking \cup {"done"}
    BY <1>2, <1>6, PCDisjoint
  <2>4. StampOK(t)'
    BY <1>2, <1>4, <2>2, <2>3 DEF StampOK, FetchSet, Sources
  <2>5. CopyOK(t)'
    BY <2>3 DEF CopyOK, Unpacking
  <2>6. QED
    BY <2>4, <2>5
<1>7. CASE LocalName[t] # b
  <2>1. /\ pc'[t] = pc[t] /\ manifest'[LocalName[t]] = manifest[LocalName[t]]
        /\ Srcrev(t)' = Srcrev(t)
    BY <1>1, <1>2, <1>4, <1>7 DEF Srcrev
  <2>2. StampOK(t)'
    BY <1>2, <1>4, <2>1 DEF StampOK, FetchStamped, FetchSet, Sources, Ready
  <2>3. CopyOK(t)'
    BY <1>2, <1>4, <2>1 DEF CopyOK, FetchSet, Sources
  <2>4. QED
    BY <2>2, <2>3
<1>8. QED
  BY <1>6, <1>7

-----------------------------------------------------------------------------
(* Theorems                                                                *)

LEMMA InitWholeInv == Init => WholeInv
<1> SUFFICES ASSUME Init PROVE WholeInv
  OBVIOUS
<1>1. TypeOK
  BY PCTypes DEF Init, TypeOK, GitLockNames
<1>2. LockInv /\ MutexInv
  BY PCDisjoint DEF Init, LockInv, LockSet, Pending, MutexInv
<1>3. TreeInv
  BY DEF Init, TreeInv
<1>4. \A t \in Recipes : FetchOK(t) /\ CopyWhole(t)
  BY DEF Init, FetchOK, CopyWhole, Downloading
<1>5. QED
  BY <1>1, <1>2, <1>3, <1>4 DEF WholeInv

LEMMA InitIInv == Init => IInv
<1> SUFFICES ASSUME Init, NEW t \in Recipes PROVE StampOK(t) /\ CopyOK(t)
  BY InitWholeInv DEF IInv
<1>1. Srcrev(t) \in Int /\ Srcrev(t) >= 0
  <2>1. LocalName[t] \in Repos /\ manifest[LocalName[t]] = 1
    BY DEF Init
  <2>2. QED
    BY <2>1 DEF Srcrev
<1>2. QED
  BY <1>1 DEF Init, StampOK, CopyOK, FetchStamped, Unpacking

\* A step that moves the manifest or leaves everything alone keeps the locks.
LEMMA OtherLocks ==
    ASSUME WholeInv, (\E r \in Repos : Bump(r)) \/ UNCHANGED vars
    PROVE  LockInv' /\ MutexInv'
<1>1. UNCHANGED <<path, held>> /\ MutexInv'
  BY DEF Bump, vars, WholeInv, MutexInv
<1>2. CASE UNCHANGED vars
  <2>1. \A t \in Recipes : /\ pc'[t] = pc[t] /\ cur'[t] = cur[t] /\ held'[t] = held[t]
                          /\ Pending(t)' = Pending(t)
    BY <1>2 DEF vars, Pending, LockSet
  <2>2. QED
    BY <1>1, <2>1 DEF WholeInv, LockInv, LockSet
<1>3. ASSUME NEW r \in Repos, Bump(r) PROVE LockInv'
  <2>1. \A t \in Recipes : pc[t] \in AtRest /\ pc'[t] \in AtRest
    BY <1>3 DEF Bump, WholeInv, TypeOK, AtRest
  <2>2. QED
    BY <1>1, <2>1, PCDisjoint DEF WholeInv, LockInv
<1>4. QED
  BY <1>1, <1>2, <1>3

LEMMA WholeInvStep ==
    ASSUME Whole, WholeInv, [Next]_vars
    PROVE  WholeInv'
<1>1. TypeOK'
  <2>1. ASSUME NEW t \in Recipes, Step(t) \/ Environment(t) PROVE TypeOK'
    BY <2>1, StepType, EnvironmentType DEF WholeInv
  <2>2. ASSUME NEW r \in Repos, Bump(r) PROVE TypeOK'
    BY <2>2, PCTypes DEF Bump, Moves, WholeInv, TypeOK
  <2>3. CASE UNCHANGED vars
    BY <2>3 DEF vars, WholeInv, TypeOK
  <2>4. QED
    BY <2>1, <2>2, <2>3 DEF Next
<1>2. ASSUME NEW t \in Recipes, Task(t) PROVE WholeInv'
  <2>1. LockInv' /\ MutexInv'
    BY <1>2, LockInvStep, MutexInvStep DEF WholeInv, Task, Whole
  <2>2. \A u \in Recipes : FetchOK(u)' /\ CopyWhole(u)'
    BY <1>2, OwnFetch, OwnCopyWhole, OthersKeep
  <2>3. QED
    BY <1>1, <1>2, <2>1, <2>2, TreeInvStep DEF WholeInv
<1>3. ASSUME NEW r \in Repos, Bump(r) PROVE WholeInv'
  BY <1>1, <1>3, BumpKeepsWhole, OtherLocks DEF WholeInv
<1>4. CASE UNCHANGED vars
  <2>1. TreeInv'
    BY <1>4 DEF vars, WholeInv, TreeInv, CheckingOut
  <2>2. \A t \in Recipes : FetchOK(t)' /\ CopyWhole(t)'
    BY <1>4 DEF vars, WholeInv, FetchOK, CopyWhole, Ready, FetchSet, Sources
  <2>3. QED
    BY <1>1, <1>4, <2>1, <2>2, OtherLocks DEF WholeInv
<1>5. QED
  BY <1>2, <1>3, <1>4 DEF Next, Task

\* WholeInv is inductive, wherever the manifest moves.
THEOREM WholeInductive == ASSUME Whole PROVE Spec => []WholeInv
BY InitWholeInv, WholeInvStep, PTL DEF Spec

\* IInv is inductive, if the manifest only moves forward.
THEOREM Inductive == ASSUME Settling PROVE Spec => []IInv
<1>1. IInv /\ [Next]_vars => IInv'
  <2> SUFFICES ASSUME IInv, [Next]_vars PROVE IInv'
    OBVIOUS
  <2>1. Whole /\ WholeInv /\ WholeInv'
    BY WholeInvStep DEF IInv, Settling
  <2>2. ASSUME NEW t \in Recipes, Task(t) PROVE IInv'
    <3>1. \A u \in Recipes : StampOK(u)' /\ CopyOK(u)'
      BY <2>1, <2>2, OwnStamp, OwnCopy, OthersKeepStamp
    <3>2. QED
      BY <2>1, <3>1 DEF IInv
  <2>3. ASSUME NEW r \in Repos, Bump(r) PROVE IInv'
    BY <2>1, <2>3, BumpStep DEF IInv
  <2>4. CASE UNCHANGED vars
    <3>1. \A t \in Recipes : StampOK(t)' /\ CopyOK(t)'
      BY <2>4 DEF vars, IInv, StampOK, CopyOK, FetchStamped, Srcrev, Ready,
                  FetchSet, Sources
    <3>2. QED
      BY <2>1, <3>1 DEF IInv
  <2>5. QED
    BY <2>2, <2>3, <2>4 DEF Next, Task
<1>2. QED
  BY <1>1, InitIInv, PTL DEF Spec

\* A recipe that is done has the complete tree of the version its manifest
\* entry pins, whatever tasks were killed between two steps, failed or ran next
\* to it, if Settling.
THEOREM UnpacksTheCurrent == ASSUME Settling PROVE Spec => []UnpackCurrent
<1>1. IInv => UnpackCurrent
  BY DEF IInv, CopyOK, UnpackCurrent
<1>2. QED
  BY <1>1, Inductive, PTL

\* A recipe never unpacks a tree another task is in the middle of rewriting, if no
\* clean runs and nothing is cut off half way (Whole).
THEOREM CopiesAreWhole == ASSUME Whole PROVE Spec => []CopyNotTorn
<1>1. WholeInv => CopyNotTorn
  BY DEF WholeInv, CopyWhole, CopyNotTorn
<1>2. QED
  BY <1>1, WholeInductive, PTL

\* A checkout that is complete and of the pinned version is not written again,
\* if Whole, whatever versions the manifest names.
THEOREM NoNeedlessRewrite == ASSUME Whole PROVE Spec => NoRewriteAtVersion
<1>1. WholeInv /\ [Next]_vars =>
        [\A r \in Repos :
           tree[r] = manifest[r] /\ manifest'[r] = manifest[r] => tree'[r] = tree[r]]_vars
  <2> SUFFICES ASSUME WholeInv, Next, NEW r \in Repos,
                      tree[r] = manifest[r], manifest'[r] = manifest[r]
               PROVE  tree'[r] = tree[r]
    OBVIOUS
  <2>1. ASSUME NEW b \in Repos, Bump(b) PROVE tree' = tree
    BY <2>1 DEF Bump
  <2>2. ASSUME NEW t \in Recipes, Task(t) PROVE tree'[r] = tree[r]
    <3>1. manifest[r] \in Versions
      BY DEF WholeInv, TypeOK
    <3>2. head[r] = manifest[r]
      <4>1. \A u \in Recipes : ~CheckingOut(u, r)
        BY <3>1 DEF WholeInv, FetchOK, CheckingOut
      <4>2. QED
        BY <3>1, <4>1 DEF WholeInv, TreeInv
    <3>3. Ready(r)'
      BY <2>2, <3>2, ReadyStays DEF Ready
    <3>4. QED
      BY <3>3 DEF Ready
  <2>3. QED
    BY <2>1, <2>2 DEF Next, Task
<1>2. QED
  BY <1>1, WholeInductive, PTL DEF Spec, NoRewriteAtVersion

-----------------------------------------------------------------------------
(* Refinement                                                              *)

\* What the recipe t has been given of the repository r.
GivenOf(t, r) ==
    IF pc[t] = "done" /\ r \in FetchSet(t) THEN Unpacked(t, r) ELSE 0

LEMMA GivenIs == Given = [t \in Recipes \ Disabled |-> [r \in Repos |-> GivenOf(t, r)]]
BY DEF Given, GivenOf

LEMMA UnpackedIs ==
    ASSUME NEW t \in Recipes, NEW r \in Repos, NEW c \in Settled, copy[t][r] = {c}
    PROVE  Unpacked(t, r) = c
BY DEF Unpacked

\* Only the end of do_unpack gives a recipe anything, and only a change of its
\* files or of the manifest takes it back.
LEMMA OthersGiven ==
    ASSUME Whole, WholeInv, NEW t \in Recipes, Task(t), NEW u \in Recipes,
           NEW r \in Repos, u # t \/ ~(EndUnpack(t) \/ FilesChange(t))
    PROVE  GivenOf(u, r)' = GivenOf(u, r)
<1>1. CASE u # t
  <2>1. pc'[u] = pc[u] /\ copy'[u] = copy[u]
    BY <1>1, OthersUntouched DEF WholeInv
  <2>2. Unpacked(u, r)' = Unpacked(u, r)
    BY <2>1 DEF Unpacked, Settled
  <2>3. QED
    BY <2>1, <2>2 DEF GivenOf, FetchSet, Sources
<1>2. CASE u = t
  <2>1. pc'[t] # "done"
    BY <1>2, UnpackComesFrom DEF WholeInv
  <2>2. pc[t] # "done"
    BY <1>2 DEF Task, Step, Environment, LockRepo, SyncFromCache, InitRepo, FetchCommit,
           SkipCheckout, BeginCheckout, EndCheckout, CheckoutFails, LfsDownload,
           UnlockRepo, FetchDone, LockForUnpack, BeginUnpack, EndUnpack, Start,
           SyncCutShort, NetworkFails, Kill, OpeneulerClean, Whole, AtRest
  <2>3. QED
    BY <1>2, <2>1, <2>2 DEF GivenOf
<1>3. QED
  BY <1>1, <1>2

\* The end of do_unpack is the delivery.
LEMMA EndUnpackDelivers ==
    ASSUME Settling, IInv, IInv', NEW t \in Recipes \ Disabled, EndUnpack(t)
    PROVE  Pool!Deliver(t)
<1> DEFINE g == [r \in Repos |-> GivenOf(t, r)']
<1>1. pc[t] = "reading" /\ pc'[t] = "done" /\ manifest' = manifest
  BY DEF EndUnpack, IInv, WholeInv, TypeOK
<1>2. ASSUME NEW r \in Repos, r \in FetchSet(t)
      PROVE  /\ GivenOf(t, r)' \in Settled
             /\ r = LocalName[t] => GivenOf(t, r)' = manifest[r]
  <2>1. \E c \in Settled : copy'[t][r] = {c}
    BY <1>1, <1>2 DEF IInv, CopyOK, FetchSet, Sources, Settled
  <2>2. PICK c \in Settled : copy'[t][r] = {c}
    BY <2>1
  <2>3. GivenOf(t, r)' = c
    BY <1>1, <1>2, <2>2 DEF GivenOf, Unpacked, Settled, FetchSet, Sources
  <2>4. r = LocalName[t] => c = manifest[r]
    BY <1>1, <1>2, <2>2 DEF IInv, CopyOK, FetchSet, Sources
  <2>5. QED
    BY <2>2, <2>3, <2>4
<1>3. \A r \in Repos : r \notin FetchSet(t) => GivenOf(t, r)' = 0
  BY DEF GivenOf, FetchSet, Sources
<1>4. 0 \notin Settled
  BY DEF Settled
<1>5. g \in [Repos -> Settled \cup {0}]
  BY <1>2, <1>3
<1>6. \A r \in Repos : g[r] \in Settled <=> r \in FetchSet(t)
  BY <1>2, <1>3, <1>4
<1>7. LocalName[t] \in FetchSet(t) => g[LocalName[t]] = manifest[LocalName[t]]
  BY <1>2
<1>8. Given[t] = [r \in Repos |-> 0]
  BY <1>1, GivenIs DEF GivenOf
<1>9. Given' = [Given EXCEPT ![t] = g]
  <2>1. Given' = [u \in Recipes \ Disabled |-> [r \in Repos |-> GivenOf(u, r)']]
    BY DEF Given, GivenOf, FetchSet, Sources
  <2>2. \A u \in Recipes \ Disabled, r \in Repos :
           u # t => GivenOf(u, r)' = GivenOf(u, r)
    BY OthersGiven DEF Task, Step, IInv, Settling
  <2>3. QED
    BY <2>1, <2>2, GivenIs
<1>10. QED
  BY <1>1, <1>5, <1>6, <1>7, <1>8, <1>9 DEF Pool!Deliver, Pool!Nothing

\* A change of the local files of a recipe takes back what it was given.
LEMMA FilesChangeWithdraws ==
    ASSUME Settling, IInv, NEW t \in Recipes \ Disabled, FilesChange(t)
    PROVE  Pool!Withdraw(t)
<1>1. pc'[t] = "idle" /\ manifest' = manifest
  BY DEF FilesChange, IInv, WholeInv, TypeOK
<1>2. Given' = [u \in Recipes \ Disabled |-> [r \in Repos |-> GivenOf(u, r)']]
  BY DEF Given, GivenOf, FetchSet, Sources
<1>3. \A r \in Repos : GivenOf(t, r)' = 0
  BY <1>1 DEF GivenOf
<1>4. \A u \in Recipes \ Disabled, r \in Repos :
         u # t => GivenOf(u, r)' = GivenOf(u, r)
  BY OthersGiven DEF Task, Environment, IInv, Settling
<1>5. Given' = [Given EXCEPT ![t] = [r \in Repos |-> 0]]
  BY <1>2, <1>3, <1>4, GivenIs
<1>6. QED
  BY <1>1, <1>5 DEF Pool!Withdraw, Pool!Nothing

\* A change of the manifest takes back what the recipes it concerns were given.
LEMMA BumpPins ==
    ASSUME Settling, IInv, NEW b \in Repos, Bump(b)
    PROVE  Pool!Pin(b)
<1>1. \E v \in Versions : manifest' = [manifest EXCEPT ![b] = v]
  BY DEF Bump, Moves
<1>2. ASSUME NEW t \in Recipes, NEW r \in Repos
      PROVE  GivenOf(t, r)' = IF LocalName[t] = b THEN 0 ELSE GivenOf(t, r)
  <2>1. /\ pc'[t] = IF LocalName[t] = b THEN "idle" ELSE pc[t]
        /\ copy' = copy
    BY DEF Bump
  <2>2. Unpacked(t, r)' = Unpacked(t, r)
    BY <2>1 DEF Unpacked, Settled
  <2>3. QED
    BY <2>1, <2>2 DEF GivenOf, FetchSet, Sources
<1>3. Given' = [u \in Recipes \ Disabled |-> [r \in Repos |-> GivenOf(u, r)']]
  BY DEF Given, GivenOf, FetchSet, Sources
<1>4. Given' = [t \in Recipes \ Disabled |->
                  IF LocalName[t] = b THEN [r \in Repos |-> 0] ELSE Given[t]]
  BY <1>2, <1>3, GivenIs
<1>5. QED
  BY <1>1, <1>4 DEF Pool!Pin, Pool!Nothing

\* If no clean runs, nothing is cut off half way and the manifest only moves
\* forward (Settling), all the locking, checking out, failing and starting again
\* amounts to the atomic deliveries of SourcePool.
THEOREM FetchImplementsPool == ASSUME Settling PROVE Spec => ImplementsPool
<1>1. Init => Pool!PoolInit
  <2> SUFFICES ASSUME Init PROVE Pool!PoolInit
    OBVIOUS
  <2>1. manifest \in [Repos -> Versions]
    BY DEF Init
  <2>2. Given = [t \in Recipes \ Disabled |-> [r \in Repos |-> 0]]
    BY GivenIs DEF Init, GivenOf
  <2>3. QED
    BY <2>1, <2>2 DEF Pool!PoolInit, Pool!Nothing
<1>2. IInv /\ IInv' /\ [Next]_vars => [Pool!PoolNext]_(Pool!poolVars)
  <2> SUFFICES ASSUME IInv, IInv', [Next]_vars
               PROVE  Pool!PoolNext \/ UNCHANGED <<manifest, Given>>
    BY DEF Pool!poolVars
  <2>1. ASSUME NEW b \in Repos, Bump(b) PROVE Pool!PoolNext
    BY <2>1, BumpPins DEF Pool!PoolNext
  <2>2. ASSUME NEW t \in Recipes \ Disabled, EndUnpack(t) PROVE Pool!PoolNext
    BY <2>2, EndUnpackDelivers DEF Pool!PoolNext
  <2>3. ASSUME NEW t \in Recipes \ Disabled, FilesChange(t) PROVE Pool!PoolNext
    BY <2>3, FilesChangeWithdraws DEF Pool!PoolNext
  <2>4. ASSUME NEW t \in Recipes, Task(t),
               t \in Disabled \/ ~(EndUnpack(t) \/ FilesChange(t))
        PROVE  UNCHANGED <<manifest, Given>>
    <3>1. \A u \in Recipes \ Disabled, r \in Repos : GivenOf(u, r)' = GivenOf(u, r)
      BY <2>4, OthersGiven DEF IInv, Settling
    <3>2. Given' = [u \in Recipes \ Disabled |-> [r \in Repos |-> GivenOf(u, r)']]
      BY DEF Given, GivenOf, FetchSet, Sources
    <3>3. manifest' = manifest
      BY <2>4 DEF Task, Step, Environment, LockRepo, InitRepo, FetchCommit,
         SyncFromCache, SkipCheckout, BeginCheckout, EndCheckout, CheckoutFails,
         LfsDownload, UnlockRepo, FetchDone, LockForUnpack, BeginUnpack, EndUnpack,
         Start, NetworkFails, Kill, FilesChange, OpeneulerClean, SyncCutShort
    <3>4. QED
      BY <3>1, <3>2, <3>3, GivenIs
  <2>5. CASE UNCHANGED vars
    BY <2>5 DEF vars, Given, Unpacked, Settled, FetchSet, Sources
  <2>6. QED
    BY <2>1, <2>2, <2>3, <2>4, <2>5 DEF Next, Task
<1>3. QED
  BY <1>1, <1>2, Inductive, PTL DEF Spec, ImplementsPool, Pool!PoolSpec
=============================================================================
