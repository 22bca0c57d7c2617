-------------------------- MODULE OeeArchive_proofs --------------------------
(***************************************************************************)
(* Whatever the builds, recipes and versions: one task at a time works in  *)
(* oee_archive, so what a retry removes is stale and what a download needs *)
(* stays in place between its steps.                                       *)
(***************************************************************************)
EXTENDS OeeArchive, TLAPS

\* Whoever works in the repository has oee_archive.lock.
OwnerInv == \A t \in Recipes : pc[t] \in Downloading => owner = t

\* A git that is running has its lock file.
LiveInv ==
    \A t \in Recipes : pc[t] \in {"fetching", "writing"} => LockOf(pc[t]) \in gitLocks

\* After the first retry of an operation no lock file is left but its own.
HealedInv ==
    \A t \in Recipes : attempt[t] > 1 =>
        /\ pc[t] \in Downloading \ {"pull"}
        /\ gitLocks \subseteq (IF pc[t] \in {"fetching", "writing"}
                               THEN {LockOf(pc[t])} ELSE {})

\* A sub directory is of HEAD's version, unless a checkout rewrites it or a kill
\* has cut one short.
DirsInv ==
    \A s \in SubDirs :
        \/ /\ dirs[s] = Torn
           /\ \/ faults > 0
              \/ \E t \in Recipes : pc[t] = "writing" /\ s \in Rewritten(Pinned(t))
        \/ dirs[s] = Empty /\ head = Unborn
        \/ dirs[s] \in {Content(s, head), Pointers} /\ head \in Versions

\* What a download has achieved.
ProgressInv ==
    \A t \in Recipes :
        /\ raised[t] => pc[t] = "restore"
        /\ ((pc[t] = "restore" /\ ~raised[t]) \/ pc[t] = "pull") => head = Pinned(t)
        /\ pc[t] = "pull" => ~exclude
        /\ pc[t] \in {"unpack", "reading", "done"} => fetched[t]

\* While every manifest pins the first version, what was downloaded stays.
FirstInv ==
    (\A b \in Builds : manifest[b] = 1) =>
        /\ head \in {Unborn, 1}
        /\ head = 1 => \A s \in SubDirs : dirs[s] # Torn
        /\ \A t \in Recipes : fetched[t] =>
             head = 1 /\ dirs[SubDir[t]] = Content(SubDir[t], 1)
        /\ \A t \in Recipes : pc[t] \in {"reading", "done"} =>
             copy[t] = {Content(SubDir[t], 1)}

\* The part that holds even if operations are not retried at all, and the rest.
BaseInv == TypeOK /\ OwnerInv /\ LiveInv /\ HealedInv /\ DirsInv
IInv == BaseInv /\ ProgressInv /\ FirstInv

USE OeeArchiveAssumption
    DEF taskVars, repoVars, Goto, Fault, Versions, Unborn, Empty, Torn, Pointers

Task(t) == Step(t) \/ Start(t) \/ NetworkFails(t) \/ Kill(t)

-----------------------------------------------------------------------------
(* Types                                                                   *)

PCs == Downloading \cup AtRest \cup {"wait", "unpack", "reading"}

LEMMA LockNames ==
    /\ LockOf("fetch") = "shallow" /\ LockOf("fetching") = "shallow"
    /\ LockOf("checkout") = "index" /\ LockOf("writing") = "index"
    /\ \A label \in Downloading \ {"pull"} : LockOf(label) \in {"config", "shallow", "index"}
BY DEF LockOf, Downloading

LEMMA ContentType == \A s \in SubDirs, v \in Versions : Content(s, v) \in Versions
BY DEF Content

LEMMA PinnedType == ASSUME TypeOK, NEW t \in Recipes PROVE Pinned(t) \in Versions
BY DEF TypeOK, Pinned

TaskTypes ==
    /\ owner \in Recipes \cup {Nobody}
    /\ pc \in [Recipes -> PCs]
    /\ attempt \in [Recipes -> 1..MaxRetries]
    /\ raised \in [Recipes -> BOOLEAN]
    /\ fetched \in [Recipes -> BOOLEAN]
    /\ copy \in [Recipes -> SUBSET (Versions \cup {Empty, Torn, Pointers})]

RepoTypes ==
    /\ head \in Versions \cup {Unborn}
    /\ dirs \in [SubDirs -> Versions \cup {Empty, Torn, Pointers}]
    /\ stored \in [SubDirs -> SUBSET Versions]
    /\ exclude \in BOOLEAN
    /\ gitLocks \subseteq {"config", "shallow", "index"}

LEMMA TypesSplit ==
    TypeOK <=> /\ manifest \in [Builds -> Versions] /\ faults \in 0..MaxFaults
               /\ TaskTypes /\ RepoTypes
BY DEF TypeOK, TaskTypes, RepoTypes, PCs

\* The three ways an operation can end leave the task's variables well typed.
LEMMA EndTypes ==
    ASSUME TaskTypes, NEW t \in Recipes,
           Fail(t) \/ Raise(t) \/ (\E label \in PCs : Advance(t, label))
    PROVE  TaskTypes'
<1>1. CASE Fail(t)
  BY <1>1 DEF Fail, OwnerAfter, TaskTypes, PCs, AtRest
<1>2. CASE Raise(t)
  <2>1. CASE pc[t] \in {"fetch", "fetching", "checkout"}
    <3>1. /\ pc' = [pc EXCEPT ![t] = "restore"] /\ attempt' = [attempt EXCEPT ![t] = 1]
          /\ raised' = [raised EXCEPT ![t] = TRUE] /\ UNCHANGED <<owner, fetched, copy>>
      BY <1>2, <2>1 DEF Raise
    <3>2. QED
      BY <3>1 DEF TaskTypes, PCs, Downloading
  <2>2. CASE pc[t] \notin {"fetch", "fetching", "checkout"}
    BY <1>1, <1>2, <2>2 DEF Raise
  <2>3. QED
    BY <2>1, <2>2
<1>3. CASE \E label \in PCs : Advance(t, label)
  BY <1>3 DEF Advance, TaskTypes
<1>4. QED
  BY <1>1, <1>2, <1>3

LEMMA TaskTypesStep ==
    ASSUME TypeOK, NEW t \in Recipes, Task(t)
    PROVE  TaskTypes'
<1> USE TypesSplit
<1>1. CASE Blocked(t)
  <2>1. CASE attempt[t] < MaxRetries
    BY <1>1, <2>1 DEF Blocked, Retry, RetryFrom, TaskTypes, PCs, Downloading
  <2>2. CASE ~(attempt[t] < MaxRetries)
    <3>1. Raise(t) \/ Advance(t, "pull")
      BY <1>1, <2>2 DEF Blocked
    <3>2. QED
      BY <3>1, EndTypes DEF PCs, Downloading
  <2>3. QED
    BY <2>1, <2>2
<1>2. CASE InitRepo(t) \/ SetExclude(t) \/ EndCheckout(t) \/ CheckoutRefused(t) \/ RestoreExclude(t)
  <2>1. Fail(t) \/ Raise(t) \/ \E label \in PCs : Advance(t, label)
    BY <1>2 DEF InitRepo, SetExclude, EndCheckout, CheckoutRefused, RestoreExclude,
                PCs, Downloading
  <2>2. QED
    BY <2>1, EndTypes
<1>3. CASE NetworkFails(t) \/ Kill(t)
  BY <1>3, EndTypes DEF NetworkFails, Kill
<1>4. CASE TakeLock(t) \/ BeginFetch(t) \/ EndFetch(t) \/ BeginCheckout(t) \/ LfsPull(t)
  BY <1>4 DEF TakeLock, BeginFetch, EndFetch, BeginCheckout, LfsPull, TaskTypes,
              PCs, Downloading
<1>5. CASE BeginUnpack(t) \/ EndUnpack(t)
  <2> DEFINE seen == {dirs[SubDir[t]]}
  <2>1. SubDir[t] \in SubDirs
    OBVIOUS
  <2>2. seen \subseteq Versions \cup {Empty, Torn, Pointers}
    BY <2>1 DEF RepoTypes
  <2>3. copy' = [copy EXCEPT ![t] = seen] \/ copy' = [copy EXCEPT ![t] = @ \cup seen]
    BY <1>5 DEF BeginUnpack, EndUnpack
  <2>4. copy' \in [Recipes -> SUBSET (Versions \cup {Empty, Torn, Pointers})]
    BY <2>2, <2>3 DEF TaskTypes
  <2>5. QED
    BY <1>5, <2>4 DEF BeginUnpack, EndUnpack, TaskTypes, PCs, AtRest
<1>6. CASE Start(t)
  BY <1>6 DEF Start, TaskTypes, PCs
<1>7. QED
  BY <1>1, <1>2, <1>3, <1>4, <1>5, <1>6 DEF Task, Step

LEMMA RepoTypesStep ==
    ASSUME TypeOK, DirsInv, NEW t \in Recipes, Task(t)
    PROVE  RepoTypes'
<1> USE TypesSplit
<1>1. CASE Blocked(t)
  BY <1>1 DEF Blocked, Retry, ClearStaleLocks, RepoTypes
<1>2. CASE InitRepo(t) \/ SetExclude(t) \/ CheckoutRefused(t) \/ RestoreExclude(t)
  BY <1>2 DEF InitRepo, SetExclude, CheckoutRefused, RestoreExclude, RestoredExclude,
              RepoTypes
<1>3. CASE BeginFetch(t) \/ EndFetch(t) \/ BeginCheckout(t)
  BY <1>3, LockNames DEF BeginFetch, EndFetch, BeginCheckout, RepoTypes
<1>4. CASE EndCheckout(t)
  BY <1>4, ContentType, PinnedType DEF EndCheckout, RepoTypes
<1>5. CASE LfsPull(t)
  <2>1. SubDir[t] \in SubDirs
    OBVIOUS
  <2>2. dirs[SubDir[t]] = Pointers => Content(SubDir[t], head) \in Versions
    BY <2>1, ContentType DEF DirsInv
  <2>3. QED
    BY <1>5, <2>1, <2>2 DEF LfsPull, RepoTypes
<1>6. CASE NetworkFails(t)
  BY <1>6, LockNames DEF NetworkFails, RepoTypes
<1>7. CASE Kill(t)
  BY <1>7, LockNames DEF Kill, RepoTypes, Downloading
<1>8. CASE Start(t) \/ TakeLock(t) \/ BeginUnpack(t) \/ EndUnpack(t)
  BY <1>8 DEF Start, TakeLock, BeginUnpack, EndUnpack, RepoTypes
<1>9. QED
  BY <1>1, <1>2, <1>3, <1>4, <1>5, <1>6, <1>7, <1>8 DEF Task, Step

LEMMA TypeStep ==
    ASSUME TypeOK, DirsInv, NEW t \in Recipes, Task(t)
    PROVE  TypeOK'
<1>1. manifest' = manifest /\ faults' \in 0..MaxFaults
  BY DEF Task, Step, Start, TakeLock, InitRepo, SetExclude, BeginFetch, EndFetch,
         BeginCheckout, EndCheckout, CheckoutRefused, RestoreExclude, LfsPull,
         Blocked, BeginUnpack, EndUnpack, NetworkFails, Kill, TypeOK
<1>2. QED
  <2>1. manifest' \in [Builds -> Versions]
    BY <1>1 DEF TypeOK
  <2>2. QED
    BY <1>1, <2>1, TaskTypesStep, RepoTypesStep DEF TaskTypes, RepoTypes, TypeOK, PCs

-----------------------------------------------------------------------------
(* One task at a time                                                      *)

\* A step of t leaves the variables of the other tasks alone.
LEMMA OthersUntouched ==
    ASSUME TypeOK, NEW t \in Recipes, Task(t), NEW u \in Recipes, u # t
    PROVE  /\ manifest' = manifest /\ faults' >= faults
           /\ pc'[u] = pc[u] /\ attempt'[u] = attempt[u] /\ raised'[u] = raised[u]
           /\ fetched'[u] = fetched[u] /\ copy'[u] = copy[u]
<1> DEFINE Kept == /\ pc'[u] = pc[u] /\ attempt'[u] = attempt[u] /\ raised'[u] = raised[u]
                   /\ fetched'[u] = fetched[u] /\ copy'[u] = copy[u]
<1>1. ASSUME Fail(t) \/ Raise(t) \/ (\E label \in PCs : Advance(t, label)) PROVE Kept
  BY <1>1 DEF Fail, Raise, Advance, TypeOK
<1>2. manifest' = manifest /\ faults' >= faults
  BY DEF Task, Step, Start, TakeLock, InitRepo, SetExclude, BeginFetch, EndFetch,
         BeginCheckout, EndCheckout, CheckoutRefused, RestoreExclude, LfsPull,
         Blocked, BeginUnpack, EndUnpack, NetworkFails, Kill, TypeOK
<1>3. CASE Blocked(t)
  BY <1>1, <1>3 DEF Blocked, Retry, TypeOK, PCs, Downloading
<1>4. CASE InitRepo(t) \/ SetExclude(t) \/ EndCheckout(t) \/ CheckoutRefused(t) \/ RestoreExclude(t)
  <2>1. Fail(t) \/ Raise(t) \/ \E label \in PCs : Advance(t, label)
    BY <1>4 DEF InitRepo, SetExclude, EndCheckout, CheckoutRefused, RestoreExclude,
                PCs, Downloading
  <2>2. QED
    BY <1>2, <1>1, <2>1
<1>5. CASE NetworkFails(t) \/ Kill(t)
  <2>1. Fail(t) \/ Raise(t)
    BY <1>5 DEF NetworkFails, Kill
  <2>2. QED
    BY <1>2, <1>1, <2>1
<1>6. CASE TakeLock(t) \/ BeginFetch(t) \/ EndFetch(t) \/ BeginCheckout(t) \/ LfsPull(t)
  BY <1>6 DEF TakeLock, BeginFetch, EndFetch, BeginCheckout, LfsPull, TypeOK
<1>7. CASE BeginUnpack(t) \/ EndUnpack(t) \/ Start(t)
  BY <1>7 DEF BeginUnpack, EndUnpack, Start, TypeOK
<1>8. QED
  BY <1>2, <1>3, <1>4, <1>5, <1>6, <1>7 DEF Task, Step

\* The repository only changes in the hands of a download.
LEMMA OutsideUntouched ==
    ASSUME NEW t \in Recipes, Task(t), pc[t] \notin Downloading
    PROVE  UNCHANGED repoVars
BY DEF Task, Step, Start, TakeLock, InitRepo, SetExclude, BeginFetch, EndFetch,
       BeginCheckout, EndCheckout, CheckoutRefused, RestoreExclude, LfsPull, Blocked,
       BeginUnpack, EndUnpack, NetworkFails, Kill, Unblocked, Downloading

\* A step goes on with a download, begins one with the lock, or ends it without.
LEMMA OwnerSteps ==
    ASSUME TypeOK, OwnerInv, NEW t \in Recipes, Task(t)
    PROVE  \/ pc'[t] \in Downloading /\ pc[t] \in Downloading /\ owner' = owner
           \/ pc'[t] \in Downloading /\ pc[t] = "wait" /\ owner = Nobody /\ owner' = t
           \/ /\ pc'[t] \notin Downloading
              /\ pc[t] \in Downloading => owner = t
              /\ owner' = owner \/ (owner = t /\ owner' = Nobody)
<1> DEFINE Goal ==
           \/ pc'[t] \in Downloading /\ pc[t] \in Downloading /\ owner' = owner
           \/ pc'[t] \in Downloading /\ pc[t] = "wait" /\ owner = Nobody /\ owner' = t
           \/ /\ pc'[t] \notin Downloading
              /\ pc[t] \in Downloading => owner = t
              /\ owner' = owner \/ (owner = t /\ owner' = Nobody)
<1>1. CASE Fail(t)
  BY <1>1 DEF Fail, OwnerAfter, OwnerInv, TypeOK, Downloading
<1>2. CASE Raise(t)
  BY <1>1, <1>2 DEF Raise, TypeOK, Downloading
<1>3. ASSUME NEW label \in Downloading, Advance(t, label), pc[t] \in Downloading PROVE Goal
  BY <1>3 DEF Advance, TypeOK
<1>4. CASE Blocked(t)
  BY <1>2, <1>3, <1>4 DEF Blocked, Retry, RetryFrom, TypeOK, Downloading
<1>5. CASE InitRepo(t) \/ SetExclude(t) \/ EndCheckout(t) \/ CheckoutRefused(t) \/ RestoreExclude(t)
  BY <1>1, <1>2, <1>3, <1>5 DEF InitRepo, SetExclude, EndCheckout, CheckoutRefused,
     RestoreExclude, Unblocked, Downloading
<1>6. CASE NetworkFails(t) \/ Kill(t)
  BY <1>1, <1>2, <1>6 DEF NetworkFails, Kill
<1>7. CASE TakeLock(t) \/ BeginFetch(t) \/ EndFetch(t) \/ BeginCheckout(t)
  BY <1>7 DEF TakeLock, LockFree, BeginFetch, EndFetch, BeginCheckout, Unblocked,
              TypeOK, Downloading
<1>8. CASE LfsPull(t) \/ BeginUnpack(t) \/ EndUnpack(t) \/ Start(t)
  BY <1>8 DEF LfsPull, BeginUnpack, EndUnpack, Start, OwnerInv, TypeOK, Downloading, AtRest
<1>9. QED
  BY <1>4, <1>5, <1>6, <1>7, <1>8 DEF Task, Step

LEMMA OwnerInvStep ==
    ASSUME TypeOK, OwnerInv, NEW t \in Recipes, Task(t)
    PROVE  OwnerInv'
<1> SUFFICES ASSUME NEW u \in Recipes, pc'[u] \in Downloading PROVE owner' = u
  BY DEF OwnerInv
<1>1. CASE u = t
  BY <1>1, OwnerSteps DEF OwnerInv
<1>2. CASE u # t
  <2>1. pc[u] \in Downloading /\ owner = u
    BY <1>2, OthersUntouched DEF OwnerInv
  <2>2. QED
    BY <1>2, <2>1, OwnerSteps DEF OwnerInv, TypeOK
<1>3. QED
  BY <1>1, <1>2

\* While one task downloads, the steps of the others leave its repository alone.
LEMMA RepoIsMine ==
    ASSUME TypeOK, OwnerInv, NEW t \in Recipes, Task(t),
           NEW u \in Recipes, u # t, pc[u] \in Downloading
    PROVE  UNCHANGED repoVars
BY OutsideUntouched DEF OwnerInv

-----------------------------------------------------------------------------
(* Which steps change what                                                 *)

LEMMA LeaveWriting ==
    ASSUME NEW t \in Recipes, Task(t), pc[t] = "writing"
    PROVE  EndCheckout(t) \/ Kill(t)
BY DEF Task, Step, Start, TakeLock, InitRepo, SetExclude, BeginFetch, EndFetch,
       BeginCheckout, CheckoutRefused, RestoreExclude, LfsPull, Blocked, BeginUnpack,
       EndUnpack, NetworkFails, Unblocked

LEMMA RewriteSteps ==
    ASSUME NEW t \in Recipes, Task(t)
    PROVE  UNCHANGED <<head, dirs>> \/ BeginCheckout(t) \/ EndCheckout(t) \/ LfsPull(t)
BY DEF Task, Step, Start, TakeLock, InitRepo, SetExclude, BeginFetch, EndFetch,
       CheckoutRefused, RestoreExclude, Blocked, BeginUnpack, EndUnpack, NetworkFails, Kill

\* How many attempts an operation has had, and what they have removed.
LEMMA AttemptSteps ==
    ASSUME TypeOK, NEW t \in Recipes, Task(t)
    PROVE  \/ attempt'[t] = 1
           \/ Blocked(t) /\ Retry(t)
           \/ BeginFetch(t) \/ EndFetch(t) \/ BeginCheckout(t)
           \/ attempt' = attempt /\ pc[t] \notin Downloading \ {"pull"}
<1>1. ASSUME Fail(t) \/ Raise(t) \/ \E label \in PCs : Advance(t, label)
      PROVE  attempt'[t] = 1
  BY <1>1 DEF Fail, Raise, Advance, TypeOK
<1>2. CASE Blocked(t)
  <2>1. Retry(t) \/ Raise(t) \/ Advance(t, "pull")
    BY <1>2 DEF Blocked
  <2>2. QED
    BY <1>1, <1>2, <2>1 DEF PCs, Downloading
<1>3. CASE InitRepo(t) \/ SetExclude(t) \/ EndCheckout(t) \/ CheckoutRefused(t) \/ RestoreExclude(t)
  <2>1. Fail(t) \/ Raise(t) \/ \E label \in PCs : Advance(t, label)
    BY <1>3 DEF InitRepo, SetExclude, EndCheckout, CheckoutRefused, RestoreExclude,
                PCs, Downloading
  <2>2. QED
    BY <1>1, <2>1
<1>4. CASE NetworkFails(t) \/ Kill(t)
  BY <1>1, <1>4 DEF NetworkFails, Kill
<1>5. CASE Start(t) \/ TakeLock(t) \/ LfsPull(t) \/ BeginUnpack(t) \/ EndUnpack(t)
  BY <1>5 DEF Start, TakeLock, LfsPull, BeginUnpack, EndUnpack, Downloading
<1>6. QED
  BY <1>2, <1>3, <1>4, <1>5 DEF Task, Step

\* A git is started by two steps only.
LEMMA GitStarts ==
    ASSUME TypeOK, NEW t \in Recipes, Task(t), pc'[t] \in {"fetching", "writing"}
    PROVE  BeginFetch(t) \/ BeginCheckout(t)
<1>1. ASSUME Fail(t) \/ Raise(t)
      PROVE  FALSE
  BY <1>1 DEF Fail, Raise, TypeOK
<1>2. ASSUME NEW label \in {"exclude", "fetch", "restore", "pull"}, Advance(t, label)
      PROVE  FALSE
  BY <1>2 DEF Advance, TypeOK
<1>3. CASE Blocked(t)
  BY <1>1, <1>2, <1>3 DEF Blocked, Retry, RetryFrom, TypeOK
<1>4. CASE InitRepo(t) \/ SetExclude(t) \/ EndCheckout(t) \/ CheckoutRefused(t) \/ RestoreExclude(t)
  BY <1>1, <1>2, <1>4 DEF InitRepo, SetExclude, EndCheckout, CheckoutRefused, RestoreExclude
<1>5. CASE NetworkFails(t) \/ Kill(t)
  BY <1>1, <1>5 DEF NetworkFails, Kill
<1>6. CASE Start(t) \/ TakeLock(t) \/ EndFetch(t) \/ LfsPull(t) \/ BeginUnpack(t) \/ EndUnpack(t)
  BY <1>6 DEF Start, TakeLock, EndFetch, LfsPull, BeginUnpack, EndUnpack, TypeOK
<1>7. QED
  BY <1>3, <1>4, <1>5, <1>6 DEF Task, Step

-----------------------------------------------------------------------------
(* Lock files                                                              *)

LEMMA LiveInvStep ==
    ASSUME TypeOK, OwnerInv, LiveInv, NEW t \in Recipes, Task(t)
    PROVE  LiveInv'
<1> SUFFICES ASSUME NEW u \in Recipes, pc'[u] \in {"fetching", "writing"}
             PROVE  LockOf(pc'[u]) \in gitLocks'
  BY DEF LiveInv
<1>1. CASE u = t
  BY <1>1, GitStarts DEF BeginFetch, BeginCheckout, LockOf, TypeOK
<1>2. CASE u # t
  <2>1. pc'[u] = pc[u]
    BY <1>2, OthersUntouched
  <2>2. gitLocks' = gitLocks
    BY <1>2, <2>1, RepoIsMine DEF Downloading
  <2>3. QED
    BY <2>1, <2>2 DEF LiveInv
<1>3. QED
  BY <1>1, <1>2

LEMMA HealedInvStep ==
    ASSUME TypeOK, OwnerInv, HealedInv, NEW t \in Recipes, Task(t)
    PROVE  HealedInv'
<1> DEFINE Own(label) == IF label \in {"fetching", "writing"} THEN {LockOf(label)} ELSE {}
<1> SUFFICES ASSUME NEW u \in Recipes, attempt'[u] > 1
             PROVE  pc'[u] \in Downloading \ {"pull"} /\ gitLocks' \subseteq Own(pc'[u])
  BY DEF HealedInv
<1>1. CASE u # t
  <2>1. pc'[u] = pc[u] /\ attempt'[u] = attempt[u]
    BY <1>1, OthersUntouched
  <2>2. pc[u] \in Downloading \ {"pull"} /\ gitLocks \subseteq Own(pc[u])
    BY <2>1 DEF HealedInv
  <2>3. gitLocks' = gitLocks
    BY <1>1, <2>2, RepoIsMine
  <2>4. QED
    BY <2>1, <2>2, <2>3
<1>2. CASE u = t
  <2>1. CASE Blocked(t) /\ Retry(t)
    BY <1>2, <2>1 DEF Blocked, Retry, RetryFrom, ClearStaleLocks, TypeOK, Downloading
  <2>2. CASE BeginFetch(t) \/ EndFetch(t) \/ BeginCheckout(t)
    <3>1. attempt' = attempt
      BY <2>2 DEF BeginFetch, EndFetch, BeginCheckout
    <3>2. gitLocks \subseteq Own(pc[t])
      BY <1>2, <3>1 DEF HealedInv
    <3>3. QED
      BY <1>2, <2>2, <3>2, LockNames DEF BeginFetch, EndFetch, BeginCheckout, Unblocked,
                                         TypeOK, Downloading
  <2>3. CASE attempt' = attempt /\ pc[t] \notin Downloading \ {"pull"}
    BY <1>2, <2>3 DEF HealedInv
  <2>4. QED
    BY <1>2, <2>1, <2>2, <2>3, AttemptSteps
<1>3. QED
  BY <1>1, <1>2

\* With more than one attempt no operation ever gives up on a lock file.
LEMMA NoGivingUp ==
    ASSUME MaxRetries > 1, TypeOK, HealedInv, NEW t \in Recipes, Blocked(t)
    PROVE  Retry(t)
<1> SUFFICES ASSUME ~(attempt[t] < MaxRetries) PROVE FALSE
  BY DEF Blocked
<1>1. attempt[t] > 1
  BY DEF TypeOK
<1>2. pc[t] \in {"init", "exclude", "fetch", "checkout", "restore"} /\ LockOf(pc[t]) \in gitLocks
  BY DEF Blocked
<1>3. QED
  BY <1>1, <1>2 DEF HealedInv

-----------------------------------------------------------------------------
(* Contents                                                                *)

LEMMA DirsInvStep ==
    ASSUME TypeOK, OwnerInv, DirsInv, NEW t \in Recipes, Task(t)
    PROVE  DirsInv'
<1> DEFINE Busy(s) == \E u \in Recipes : pc[u] = "writing" /\ s \in Rewritten(Pinned(u))
<1> SUFFICES ASSUME NEW s \in SubDirs
             PROVE  \/ dirs'[s] = Torn /\ (faults' > 0 \/ Busy(s)')
                    \/ dirs'[s] = Empty /\ head' = Unborn
                    \/ dirs'[s] \in {Content(s, head'), Pointers} /\ head' \in Versions
  BY DEF DirsInv, Content
<1>1. manifest' = manifest /\ (faults > 0 => faults' > 0)
  BY DEF Task, Step, Start, TakeLock, InitRepo, SetExclude, BeginFetch, EndFetch,
         BeginCheckout, EndCheckout, CheckoutRefused, RestoreExclude, LfsPull,
         Blocked, BeginUnpack, EndUnpack, NetworkFails, Kill, TypeOK
<1>2. \/ dirs[s] = Torn /\ (faults > 0 \/ Busy(s))
      \/ dirs[s] = Empty /\ head = Unborn
      \/ dirs[s] \in {Content(s, head), Pointers} /\ head \in Versions
  BY DEF DirsInv
<1>3. CASE UNCHANGED <<head, dirs>>
  <2>1. ASSUME Busy(s) PROVE faults' > 0 \/ Busy(s)'
    <3>1. PICK u \in Recipes : pc[u] = "writing" /\ s \in Rewritten(Pinned(u))
      BY <2>1
    <3>2. CASE u # t
      BY <1>1, <1>3, <3>1, <3>2, OthersUntouched DEF Pinned, Rewritten, Content
    <3>3. CASE u = t
      <4>1. EndCheckout(t) \/ Kill(t)
        BY <3>1, <3>3, LeaveWriting
      <4>2. CASE Kill(t)
        BY <4>2 DEF Kill, TypeOK
      <4>3. CASE EndCheckout(t)
        <5>1. dirs'[s] # Torn
          BY <3>1, <3>3, <4>3, ContentType, PinnedType DEF EndCheckout
        <5>2. dirs'[s] = dirs[s] /\ head' = head
          BY <1>3
        <5>3. QED
          <6>1. head = Pinned(t) /\ Pinned(t) \in Versions
            BY <5>2, <4>3, PinnedType DEF EndCheckout
          <6>2. QED
            BY <6>1, <3>1, <3>3 DEF Rewritten
      <4>4. QED
        BY <4>1, <4>2, <4>3
    <3>4. QED
      BY <3>2, <3>3
  <2>2. QED
    BY <1>1, <1>2, <1>3, <2>1 DEF TypeOK
<1>4. CASE BeginCheckout(t)
  <2>1. /\ pc'[t] = "writing" /\ head' = head
        /\ dirs'[s] = IF s \in Rewritten(Pinned(t)) THEN Torn ELSE dirs[s]
    BY <1>4 DEF BeginCheckout, TypeOK
  <2>2. CASE s \in Rewritten(Pinned(t))
    <3>1. s \in Rewritten(Pinned(t))'
      BY <1>1, <2>1, <2>2 DEF Pinned, Rewritten, Content
    <3>2. QED
      BY <2>1, <2>2, <3>1
  <2>3. CASE s \notin Rewritten(Pinned(t))
    <3>1. ~Busy(s)
      BY <1>4, <2>3 DEF OwnerInv, BeginCheckout, Unblocked, Downloading
    <3>2. QED
      BY <1>1, <1>2, <2>1, <2>3, <3>1 DEF TypeOK
  <2>4. QED
    BY <2>2, <2>3
<1>5. CASE EndCheckout(t)
  <2> DEFINE v == Pinned(t)
  <2>1. /\ pc[t] = "writing" /\ head' = v /\ v \in Versions
        /\ s \in Rewritten(v) => dirs'[s] \in {Content(s, v), Pointers}
        /\ s \notin Rewritten(v) => dirs'[s] = dirs[s]
    BY <1>5, PinnedType DEF EndCheckout
  <2>2. CASE s \notin Rewritten(v)
    <3>1. ~Busy(s)
      BY <2>1, <2>2 DEF OwnerInv, Downloading
    <3>2. head # Unborn /\ Content(s, v) = Content(s, head)
      BY <2>2 DEF Rewritten
    <3>3. (dirs[s] = Torn /\ faults > 0) \/ dirs[s] \in {Content(s, v), Pointers}
      BY <1>2, <3>1, <3>2
    <3>4. QED
      BY <1>1, <2>1, <2>2, <3>3
  <2>3. QED
    BY <2>1, <2>2
<1>6. CASE LfsPull(t)
  <2>1. ~Busy(s)
    BY <1>6 DEF OwnerInv, LfsPull, Downloading
  <2>2. /\ head' = head
        /\ dirs'[s] = dirs[s] \/ (dirs[s] = Pointers /\ dirs'[s] = Content(s, head))
    BY <1>6 DEF LfsPull, TypeOK
  <2>3. \/ dirs[s] = Torn /\ faults > 0
        \/ dirs[s] = Empty /\ head = Unborn
        \/ dirs[s] \in {Content(s, head), Pointers} /\ head \in Versions
    BY <1>2, <2>1
  <2>4. QED
    BY <1>1, <2>2, <2>3
<1>7. QED
  BY <1>3, <1>4, <1>5, <1>6, RewriteSteps

\* What one task has achieved, and what only its own steps can undo.
Progress(t) ==
    /\ raised[t] => pc[t] = "restore"
    /\ ((pc[t] = "restore" /\ ~raised[t]) \/ pc[t] = "pull") => head = Pinned(t)
    /\ pc[t] = "pull" => ~exclude
    /\ pc[t] \in {"unpack", "reading", "done"} => fetched[t]

LEMMA OwnProgress ==
    ASSUME MaxRetries > 1, TypeOK, HealedInv, NEW t \in Recipes, Progress(t), Task(t)
    PROVE  Progress(t)'
<1>1. ASSUME Fail(t) PROVE Progress(t)'
  BY <1>1 DEF Fail, Progress, TypeOK
<1>2. ASSUME Raise(t), manifest' = manifest, head' = head, exclude' = exclude PROVE Progress(t)'
  <2>1. CASE pc[t] \in {"fetch", "fetching", "checkout"}
    BY <1>2, <2>1 DEF Raise, Progress, TypeOK
  <2>2. CASE pc[t] \notin {"fetch", "fetching", "checkout"}
    BY <1>1, <1>2, <2>2 DEF Raise
  <2>3. QED
    BY <2>1, <2>2
<1>3. manifest' = manifest /\ Pinned(t)' = Pinned(t)
  BY DEF Task, Step, Start, TakeLock, InitRepo, SetExclude, BeginFetch, EndFetch,
         BeginCheckout, EndCheckout, CheckoutRefused, RestoreExclude, LfsPull,
         Blocked, BeginUnpack, EndUnpack, NetworkFails, Kill, Pinned
<1>4. CASE Blocked(t)
  <2>1. Retry(t)
    BY <1>4, NoGivingUp
  <2>2. QED
    BY <1>3, <1>4, <2>1 DEF Blocked, Retry, RetryFrom, Progress, TypeOK
<1>5. CASE InitRepo(t) \/ SetExclude(t)
  BY <1>5 DEF InitRepo, SetExclude, Unblocked, Advance, Progress, TypeOK
<1>6. CASE EndCheckout(t)
  BY <1>3, <1>6 DEF EndCheckout, Advance, Progress, TypeOK
<1>7. CASE CheckoutRefused(t)
  BY <1>2, <1>7 DEF CheckoutRefused
<1>8. CASE RestoreExclude(t)
  <2>1. CASE raised[t]
    BY <1>1, <1>8, <2>1 DEF RestoreExclude
  <2>2. CASE ~raised[t]
    BY <1>3, <1>8, <2>2 DEF RestoreExclude, RestoredExclude, Unblocked, Advance, Progress, TypeOK
  <2>3. QED
    BY <2>1, <2>2
<1>9. CASE NetworkFails(t) \/ Kill(t)
  BY <1>1, <1>2, <1>9 DEF NetworkFails, Kill
<1>10. CASE TakeLock(t) \/ BeginFetch(t) \/ EndFetch(t) \/ BeginCheckout(t)
  BY <1>10 DEF TakeLock, BeginFetch, EndFetch, BeginCheckout, Unblocked, Progress, TypeOK
<1>11. CASE LfsPull(t) \/ BeginUnpack(t) \/ EndUnpack(t)
  BY <1>11 DEF LfsPull, BeginUnpack, EndUnpack, Progress, TypeOK
<1>12. CASE Start(t)
  BY <1>12 DEF Start, Progress, TypeOK
<1>13. QED
  BY <1>4, <1>5, <1>6, <1>7, <1>8, <1>9, <1>10, <1>11, <1>12 DEF Task, Step

LEMMA ProgressInvStep ==
    ASSUME MaxRetries > 1, TypeOK, OwnerInv, HealedInv, ProgressInv,
           NEW t \in Recipes, Task(t)
    PROVE  ProgressInv'
<1>1. ASSUME NEW u \in Recipes, u # t PROVE Progress(u)'
  <2>1. Progress(u)
    BY DEF ProgressInv, Progress
  <2>2. /\ manifest' = manifest /\ pc'[u] = pc[u]
        /\ raised'[u] = raised[u] /\ fetched'[u] = fetched[u]
    BY <1>1, OthersUntouched
  <2>3. pc[u] \in {"restore", "pull"} => head' = head /\ exclude' = exclude
    BY <1>1, RepoIsMine DEF Downloading
  <2>4. QED
    BY <2>1, <2>2, <2>3 DEF Progress, Pinned
<1>2. Progress(t)'
  BY OwnProgress DEF ProgressInv, Progress
<1>3. QED
  BY <1>1, <1>2 DEF ProgressInv, Progress

\* The steps that end a download, and those that read.
LEMMA FetchedSteps ==
    ASSUME NEW t \in Recipes, Task(t)
    PROVE  fetched' = fetched \/ LfsPull(t)
BY DEF Task, Step, Start, TakeLock, InitRepo, SetExclude, BeginFetch, EndFetch,
       BeginCheckout, EndCheckout, CheckoutRefused, RestoreExclude, Blocked, BeginUnpack,
       EndUnpack, NetworkFails, Kill, Fail, Raise, Advance, Retry

\* What a download that ends has delivered.
LEMMA PullDelivers ==
    ASSUME TypeOK, OwnerInv, DirsInv, ProgressInv, NEW t \in Recipes, LfsPull(t)
    PROVE  /\ head' = head /\ head = Pinned(t)
           /\ \/ dirs[SubDir[t]] = Torn /\ faults > 0 /\ dirs'[SubDir[t]] = Torn
              \/ dirs'[SubDir[t]] = Content(SubDir[t], Pinned(t))
           /\ \A s \in SubDirs : s # SubDir[t] => dirs'[s] = dirs[s]
<1> DEFINE s == SubDir[t]
<1>1. pc[t] = "pull" /\ head' = head /\ head = Pinned(t) /\ ~exclude /\ s \in SubDirs
  BY DEF LfsPull, ProgressInv
<1>2. dirs' = [dirs EXCEPT ![s] = IF dirs[s] = Pointers THEN Content(s, head) ELSE @]
  BY <1>1 DEF LfsPull
<1>3. ~\E u \in Recipes : pc[u] = "writing"
  BY <1>1 DEF OwnerInv, Downloading
<1>4. (dirs[s] = Torn /\ faults > 0) \/ dirs[s] \in {Content(s, head), Pointers}
  BY <1>1, <1>3, PinnedType DEF DirsInv
<1>5. QED
  BY <1>1, <1>2, <1>4 DEF TypeOK

LEMMA ReadSteps ==
    ASSUME TypeOK, NEW t \in Recipes, Task(t), pc'[t] \in {"reading", "done"}
    PROVE  BeginUnpack(t) \/ EndUnpack(t)
<1>1. ASSUME Fail(t) \/ Raise(t) PROVE FALSE
  BY <1>1 DEF Fail, Raise, TypeOK
<1>2. ASSUME NEW label \in Downloading, Advance(t, label) PROVE FALSE
  BY <1>2 DEF Advance, TypeOK, Downloading
<1>3. CASE Blocked(t)
  BY <1>1, <1>2, <1>3 DEF Blocked, Retry, RetryFrom, TypeOK, Downloading
<1>4. CASE InitRepo(t) \/ SetExclude(t) \/ EndCheckout(t) \/ CheckoutRefused(t) \/ RestoreExclude(t)
  BY <1>1, <1>2, <1>4 DEF InitRepo, SetExclude, EndCheckout, CheckoutRefused, RestoreExclude,
                          Downloading
<1>5. CASE NetworkFails(t) \/ Kill(t)
  BY <1>1, <1>5 DEF NetworkFails, Kill
<1>6. CASE Start(t) \/ TakeLock(t) \/ BeginFetch(t) \/ EndFetch(t) \/ BeginCheckout(t) \/ LfsPull(t)
  BY <1>6 DEF Start, TakeLock, BeginFetch, EndFetch, BeginCheckout, LfsPull, TypeOK
<1>7. QED
  BY <1>3, <1>4, <1>5, <1>6 DEF Task, Step

\* The parts of FirstInv: the repository, and what was read from it.
FirstRepo ==
    /\ head \in {Unborn, 1}
    /\ head = 1 => \A s \in SubDirs : dirs[s] # Torn
    /\ \A t \in Recipes : fetched[t] => head = 1 /\ dirs[SubDir[t]] = Content(SubDir[t], 1)
FirstCopy(t) == pc[t] \in {"reading", "done"} => copy[t] = {Content(SubDir[t], 1)}

LEMMA FirstRepoStep ==
    ASSUME TypeOK, OwnerInv, DirsInv, ProgressInv, FirstRepo,
           \A b \in Builds : manifest[b] = 1, NEW t \in Recipes, Task(t)
    PROVE  FirstRepo'
<1>1. Pinned(t) = 1
  BY DEF Pinned
<1>2. head = 1 => Rewritten(1) = {}
  BY DEF Rewritten
<1>3. CASE LfsPull(t)
  <2>1. head = 1 /\ head' = 1 /\ SubDir[t] \in SubDirs
    BY <1>1, <1>3, PullDelivers
  <2>2. dirs'[SubDir[t]] = Content(SubDir[t], 1)
    BY <1>1, <1>3, <2>1, PullDelivers DEF FirstRepo
  <2>3. \A s \in SubDirs : s # SubDir[t] => dirs'[s] = dirs[s]
    BY <1>3, PullDelivers
  <2>4. fetched' = [fetched EXCEPT ![t] = TRUE]
    BY <1>3 DEF LfsPull
  <2>5. \A s \in SubDirs : dirs'[s] # Torn
    BY <2>1, <2>2, <2>3, ContentType DEF FirstRepo
  <2>6. ASSUME NEW u \in Recipes, fetched'[u] PROVE dirs'[SubDir[u]] = Content(SubDir[u], 1)
    <3>1. SubDir[u] = SubDir[t] \/ fetched[u]
      BY <2>4, <2>6 DEF TypeOK
    <3>2. QED
      BY <3>1, <2>2, <2>3 DEF FirstRepo
  <2>7. QED
    BY <2>1, <2>5, <2>6 DEF FirstRepo, Content
<1>4. CASE ~LfsPull(t)
  <2>1. fetched' = fetched
    BY <1>4, FetchedSteps
  <2>2. CASE UNCHANGED <<head, dirs>>
    BY <2>1, <2>2 DEF FirstRepo, Content
  <2>3. CASE BeginCheckout(t)
    <3>1. head' = head
      BY <2>3 DEF BeginCheckout
    <3>2. head = 1 => \A s \in SubDirs : dirs'[s] = dirs[s]
      BY <1>1, <1>2, <2>3 DEF BeginCheckout
    <3>3. QED
      BY <2>1, <3>1, <3>2 DEF FirstRepo, Content
  <2>4. CASE EndCheckout(t)
    <3>1. head' = 1
      BY <1>1, <2>4 DEF EndCheckout
    <3>2. head = 1 => \A s \in SubDirs : dirs'[s] = dirs[s]
      BY <1>1, <1>2, <2>4 DEF EndCheckout
    <3>3. head = Unborn => \A s \in SubDirs : dirs'[s] # Torn
      BY <1>1, <2>4, ContentType, PinnedType DEF EndCheckout, Rewritten
    <3>4. QED
      BY <2>1, <3>1, <3>2, <3>3 DEF FirstRepo, Content
  <2>5. QED
    BY <1>4, <2>2, <2>3, <2>4, RewriteSteps
<1>5. QED
  BY <1>3, <1>4

LEMMA FirstCopyStep ==
    ASSUME TypeOK, ProgressInv, FirstRepo, \A u \in Recipes : FirstCopy(u),
           NEW t \in Recipes, Task(t), NEW u \in Recipes
    PROVE  FirstCopy(u)'
<1>1. CASE u # t
  BY <1>1, OthersUntouched DEF FirstCopy, Content
<1>2. CASE u = t
  <2> SUFFICES ASSUME pc'[t] \in {"reading", "done"} PROVE copy'[t] = {Content(SubDir[t], 1)}
    BY <1>2 DEF FirstCopy, Content
  <2>1. CASE BeginUnpack(t)
    <3>1. dirs[SubDir[t]] = Content(SubDir[t], 1)
      BY <2>1 DEF BeginUnpack, ProgressInv, FirstRepo
    <3>2. QED
      BY <2>1, <3>1 DEF BeginUnpack, TypeOK
  <2>2. CASE EndUnpack(t)
    <3>1. dirs[SubDir[t]] = Content(SubDir[t], 1) /\ copy[t] = {Content(SubDir[t], 1)}
      BY <2>2 DEF EndUnpack, ProgressInv, FirstRepo, FirstCopy
    <3>2. copy'[t] = copy[t] \cup {dirs[SubDir[t]]}
      BY <2>2 DEF EndUnpack, TypeOK
    <3>3. QED
      BY <3>1, <3>2
  <2>3. QED
    BY <2>1, <2>2, ReadSteps
<1>3. QED
  BY <1>1, <1>2

LEMMA FirstInvStep ==
    ASSUME TypeOK, OwnerInv, DirsInv, ProgressInv, FirstInv, NEW t \in Recipes, Task(t)
    PROVE  FirstInv'
<1> SUFFICES ASSUME \A b \in Builds : manifest'[b] = 1
             PROVE  FirstRepo' /\ \A u \in Recipes : FirstCopy(u)'
  BY DEF FirstInv, FirstRepo, FirstCopy
<1>1. manifest' = manifest
  BY DEF Task, Step, Start, TakeLock, InitRepo, SetExclude, BeginFetch, EndFetch,
         BeginCheckout, EndCheckout, CheckoutRefused, RestoreExclude, LfsPull,
         Blocked, BeginUnpack, EndUnpack, NetworkFails, Kill
<1>2. FirstRepo /\ \A u \in Recipes : FirstCopy(u)
  BY <1>1 DEF FirstInv, FirstRepo, FirstCopy
<1>3. QED
  BY <1>1, <1>2, FirstRepoStep, FirstCopyStep

-----------------------------------------------------------------------------
(* The inductive invariant                                                 *)

LEMMA InitBase == Init => BaseInv
<1> SUFFICES ASSUME Init PROVE BaseInv
  OBVIOUS
<1>1. TaskTypes
  BY DEF Init, TaskTypes, PCs, AtRest
<1>2. RepoTypes
  BY DEF Init, RepoTypes
<1>3. manifest \in [Builds -> Versions] /\ faults \in 0..MaxFaults
  BY DEF Init
<1>4. OwnerInv /\ LiveInv /\ HealedInv /\ DirsInv
  BY DEF Init, OwnerInv, LiveInv, HealedInv, DirsInv, Downloading
<1>5. QED
  BY <1>1, <1>2, <1>3, <1>4, TypesSplit DEF BaseInv

\* A manifest moves only when no task of its build runs.
LEMMA BumpMoves ==
    ASSUME TypeOK, NEW b \in Builds, Bump(b)
    PROVE  /\ \A t \in Recipes :
                \/ pc'[t] = pc[t] /\ Pinned(t)' = Pinned(t)
                \/ pc'[t] = "idle" /\ pc[t] \in AtRest
           /\ manifest' \in [Builds -> Versions] /\ manifest'[b] # 1
           /\ UNCHANGED <<owner, attempt, raised, fetched, copy, repoVars, faults>>
<1>1. PICK v \in Versions : v > manifest[b] /\ manifest' = [manifest EXCEPT ![b] = v]
  BY DEF Bump, Moves
<1>2. manifest[b] \in Nat /\ manifest[b] >= 1
  BY DEF TypeOK
<1>3. manifest' \in [Builds -> Versions] /\ manifest'[b] # 1
  BY <1>1, <1>2 DEF TypeOK
<1>4. ASSUME NEW t \in Recipes, BuildOf[t] # b
      PROVE  pc'[t] = pc[t] /\ Pinned(t)' = Pinned(t)
  BY <1>1, <1>4 DEF Bump, Pinned, TypeOK
<1>5. ASSUME NEW t \in Recipes, BuildOf[t] = b
      PROVE  pc'[t] = "idle" /\ pc[t] \in AtRest
  BY <1>5 DEF Bump
<1>6. QED
  BY <1>3, <1>4, <1>5 DEF Bump

LEMMA BumpBase ==
    ASSUME BaseInv, NEW b \in Builds, Bump(b)
    PROVE  BaseInv'
<1>1. TypeOK
  BY DEF BaseInv
<1>2. TypeOK'
  <2>1. pc' \in [Recipes -> PCs]
    BY <1>1 DEF Bump, TypeOK, PCs, AtRest
  <2>2. QED
    BY <1>1, <2>1, BumpMoves DEF TypeOK, PCs
<1>3. OwnerInv' /\ LiveInv'
  BY <1>1, BumpMoves DEF BaseInv, OwnerInv, LiveInv, Downloading
<1>4. HealedInv'
  BY <1>1, BumpMoves DEF BaseInv, HealedInv, Downloading, AtRest
<1>5. DirsInv'
  <2>1. ASSUME NEW s \in SubDirs, NEW u \in Recipes, pc[u] = "writing",
               s \in Rewritten(Pinned(u))
        PROVE  pc'[u] = "writing" /\ s \in Rewritten(Pinned(u))'
    <3>1. pc'[u] = "writing" /\ Pinned(u)' = Pinned(u)
      BY <1>1, <2>1, BumpMoves DEF AtRest
    <3>2. QED
      BY <1>1, <2>1, <3>1, BumpMoves DEF Rewritten, Content
  <2>2. QED
    BY <1>1, <2>1, BumpMoves DEF BaseInv, DirsInv, Content
<1>6. QED
  BY <1>2, <1>3, <1>4, <1>5 DEF BaseInv

\* One task at a time works in the repository; its git has its lock file; a
\* sub directory is HEAD's unless a checkout is at it or was killed at it.
THEOREM ArchiveBase == Spec => []BaseInv
<1>1. BaseInv /\ [Next]_vars => BaseInv'
  <2> SUFFICES ASSUME BaseInv, [Next]_vars PROVE BaseInv'
    OBVIOUS
  <2>1. ASSUME NEW t \in Recipes, Task(t) PROVE BaseInv'
    BY <2>1, TypeStep, OwnerInvStep, LiveInvStep, HealedInvStep, DirsInvStep DEF BaseInv
  <2>2. ASSUME NEW b \in Builds, Bump(b) PROVE BaseInv'
    BY <2>2, BumpBase
  <2>3. CASE UNCHANGED vars
    BY <2>3 DEF vars, BaseInv, TypeOK, OwnerInv, LiveInv, HealedInv, DirsInv,
                Rewritten, Pinned, Content
  <2>4. QED
    BY <2>1, <2>2, <2>3 DEF Next, Task
<1>2. QED
  BY <1>1, InitBase, PTL DEF Spec

\* Every variable keeps its type.
THEOREM ArchiveTypeCorrect == Spec => []TypeOK
<1>1. BaseInv => TypeOK
  BY DEF BaseInv
<1>2. QED
  BY <1>1, ArchiveBase, PTL

\* _oee_clear_stale_locks never removes the lock file of a git that is running.
THEOREM ClearsNoLiveLock == Spec => ClearsOnlyStale
<1>1. BaseInv' => [\A t \in Recipes :
                     pc[t] \in {"fetching", "writing"} /\ pc'[t] = pc[t] =>
                        LockOf(pc[t]) \in gitLocks']_vars
  BY DEF BaseInv, LiveInv
<1>2. QED
  BY <1>1, ArchiveBase, PTL DEF ClearsOnlyStale

\* With it, what a download has achieved and what the recipes have copied.
THEOREM ArchiveInductive == ASSUME MaxRetries > 1 PROVE Spec => []IInv
<1>1. Init => ProgressInv /\ FirstInv
  BY DEF Init, ProgressInv, FirstInv
<1>2. BaseInv /\ ProgressInv /\ FirstInv /\ [Next]_vars => ProgressInv' /\ FirstInv'
  <2> SUFFICES ASSUME BaseInv, ProgressInv, FirstInv, [Next]_vars
               PROVE  ProgressInv' /\ FirstInv'
    OBVIOUS
  <2>1. ASSUME NEW t \in Recipes, Task(t) PROVE ProgressInv' /\ FirstInv'
    BY <2>1, ProgressInvStep, FirstInvStep DEF BaseInv
  <2>2. ASSUME NEW b \in Builds, Bump(b) PROVE ProgressInv' /\ FirstInv'
    BY <2>2, BumpMoves DEF BaseInv, ProgressInv, FirstInv, AtRest
  <2>3. CASE UNCHANGED vars
    BY <2>3 DEF vars, ProgressInv, FirstInv, Pinned, Content
  <2>4. QED
    BY <2>1, <2>2, <2>3 DEF Next, Task
<1>3. QED
  BY <1>1, <1>2, ArchiveBase, PTL DEF Spec, IInv

\* As long as no manifest has moved, whatever crashes, every recipe unpacks the
\* complete sub directory of the version pinned.
THEOREM OneVersionUnpacked == ASSUME MaxRetries > 1 PROVE Spec => []UnpacksOneVersion
<1>1. IInv => UnpacksOneVersion
  BY DEF IInv, FirstInv, UnpacksOneVersion
<1>2. QED
  BY <1>1, ArchiveInductive, PTL

\* A step of one task decides about that task only.
LEMMA TaskOf ==
    ASSUME TypeOK, Next, NEW t \in Recipes,
           \/ pc'[t] # pc[t] /\ pc'[t] # "idle"
           \/ raised'[t] # raised[t] \/ fetched'[t] # fetched[t]
    PROVE  Task(t)
<1>1. ASSUME NEW b \in Builds, Bump(b) PROVE FALSE
  BY <1>1 DEF Bump, TypeOK
<1>2. PICK u \in Recipes : Task(u)
  BY <1>1 DEF Next, Task
<1>3. QED
  BY <1>2, OthersUntouched

\* A download that succeeds has delivered what its manifest pins.
THEOREM DownloadsDeliver == ASSUME MaxRetries > 1 PROVE Spec => DownloadDelivers
<1>1. IInv /\ [Next]_vars =>
        [\A t \in Recipes : fetched'[t] /\ ~fetched[t] =>
           /\ head' = Pinned(t)
           /\ dirs'[SubDir[t]] \in {Content(SubDir[t], Pinned(t)), Torn}
           /\ dirs'[SubDir[t]] = Torn => faults > 0]_vars
  <2> SUFFICES ASSUME IInv, Next, NEW t \in Recipes, fetched'[t], ~fetched[t]
               PROVE  /\ head' = Pinned(t)
                      /\ dirs'[SubDir[t]] \in {Content(SubDir[t], Pinned(t)), Torn}
                      /\ dirs'[SubDir[t]] = Torn => faults > 0
    BY DEF vars
  <2>1. LfsPull(t)
    BY TaskOf, FetchedSteps DEF IInv, BaseInv
  <2>2. Content(SubDir[t], Pinned(t)) # Torn
    BY ContentType, PinnedType DEF IInv, BaseInv
  <2>3. QED
    BY <2>1, <2>2, PullDelivers DEF IInv, BaseInv
<1>2. QED
  BY <1>1, ArchiveInductive, PTL DEF Spec, DownloadDelivers

\* What makes a task fail, or start to.
LEMMA FailSteps ==
    ASSUME MaxRetries > 1, TypeOK, HealedInv, NEW t \in Recipes, Task(t),
           \/ pc'[t] = "failed" /\ pc[t] # "failed" /\ ~raised[t]
           \/ raised'[t] /\ ~raised[t]
    PROVE  CheckoutRefused(t) \/ NetworkFails(t) \/ Kill(t)
<1>1. ASSUME NEW label \in {"exclude", "fetch", "restore", "pull"}, Advance(t, label)
      PROVE  FALSE
  BY <1>1 DEF Advance, TypeOK
<1>2. CASE Blocked(t)
  BY <1>2, NoGivingUp DEF Blocked, Retry, RetryFrom, TypeOK
<1>3. CASE InitRepo(t) \/ SetExclude(t) \/ EndCheckout(t)
  BY <1>1, <1>3 DEF InitRepo, SetExclude, EndCheckout
<1>4. CASE RestoreExclude(t)
  <2>1. CASE raised[t]
    BY <2>1
  <2>2. CASE ~raised[t]
    BY <1>1, <1>4, <2>2 DEF RestoreExclude
  <2>3. QED
    BY <2>1, <2>2
<1>5. CASE Start(t) \/ TakeLock(t) \/ BeginFetch(t) \/ EndFetch(t) \/ BeginCheckout(t)
  BY <1>5 DEF Start, TakeLock, BeginFetch, EndFetch, BeginCheckout, TypeOK
<1>6. CASE LfsPull(t) \/ BeginUnpack(t) \/ EndUnpack(t)
  BY <1>6 DEF LfsPull, BeginUnpack, EndUnpack, TypeOK
<1>7. QED
  BY <1>2, <1>3, <1>4, <1>5, <1>6 DEF Task, Step

\* Lock files left by a crash are healed: only new faults, and files a kill has
\* left half written, make a download fail.
THEOREM LeftoversHeal == ASSUME MaxRetries > 1 PROVE Spec => OnlyFaultsFail
<1>1. IInv /\ [Next]_vars =>
        [\A t \in Recipes :
           \/ pc'[t] = "failed" /\ pc[t] # "failed" /\ ~raised[t]
           \/ raised'[t] /\ ~raised[t]
           => faults' > faults \/ \E s \in SubDirs : dirs[s] = Torn]_vars
  <2> SUFFICES ASSUME IInv, Next, NEW t \in Recipes,
                      \/ pc'[t] = "failed" /\ pc[t] # "failed" /\ ~raised[t]
                      \/ raised'[t] /\ ~raised[t]
               PROVE  faults' > faults \/ \E s \in SubDirs : dirs[s] = Torn
    BY DEF vars
  <2>1. Task(t)
    BY TaskOf DEF IInv, BaseInv
  <2>2. CASE CheckoutRefused(t)
    BY <2>2 DEF CheckoutRefused, Rewritten
  <2>3. CASE NetworkFails(t) \/ Kill(t)
    BY <2>3 DEF NetworkFails, Kill, IInv, BaseInv, TypeOK
  <2>4. QED
    BY <2>1, <2>2, <2>3, FailSteps DEF IInv, BaseInv
<1>2. QED
  BY <1>1, ArchiveInductive, PTL DEF Spec, OnlyFaultsFail
=============================================================================
