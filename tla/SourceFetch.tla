---------------------------- MODULE SourceFetch ----------------------------
(***************************************************************************)
(* How the recipes of one or several concurrent builds share the source    *)
(* checkouts under ${OPENEULER_SP_DIR}/openeuler (openeuler.bbclass).      *)
(*                                                                         *)
(* do_fetch first runs do_openeuler_fetch, which brings every repository   *)
(* of OPENEULER_REPO_NAMES to the version manifest.yaml pins, one          *)
(* repository at a time, each under that repository's file.lock.           *)
(* do_unpack then copies those checkouts while it holds the file.lock of   *)
(* all of them, which src_uri_set put in its [lockfiles].                  *)
(*                                                                         *)
(* A "recipe" here is a recipe of a particular build: two builds sharing   *)
(* OPENEULER_SP_DIR contribute their recipes to the same set.              *)
(***************************************************************************)
EXTENDS Integers, FiniteSets

CONSTANTS
    Recipes,      \* recipes, each with its do_fetch and its do_unpack
    Repos,        \* source repositories, numbered in the order of their paths
    MaxVersion,   \* versions a manifest entry can have are 1..MaxVersion
    Pinned,       \* repositories that have an entry in manifest.yaml
    Archive,      \* the repositories do_openeuler_fetch skips: {oee_archive}
    RepoNames,    \* OPENEULER_REPO_NAMES of each recipe, as a set
    LocalName,    \* OPENEULER_LOCAL_NAME of each recipe
    Disabled,     \* recipes with OPENEULER_FETCH = "disable" or no SRC_URI
    Cached,       \* repositories that have a copy under CACHE_SRC_DIR
    Lfs,          \* repositories whose .gitattributes has filter=lfs
    CutShort,     \* rsync and git checkout may be killed half way
    Reverts,      \* manifest.yaml may go back to an earlier version
    CleanRuns,    \* another build may run do_openeuler_clean meanwhile
    MaxFaults     \* bound: kills, network failures, reruns, cleans and changes
                  \* of local files

ASSUME SourceFetchAssumption ==
    /\ Repos \subseteq Nat
    /\ Recipes \cap Int = {}
    /\ MaxVersion \in Nat \ {0}
    /\ Pinned \subseteq Repos /\ Archive \subseteq Repos
    /\ RepoNames \in [Recipes -> SUBSET Repos]
    /\ LocalName \in [Recipes -> Repos]
    /\ Disabled \subseteq Recipes
    /\ CutShort \in BOOLEAN /\ Reverts \in BOOLEAN /\ CleanRuns \in BOOLEAN
    /\ MaxFaults \in Nat

VARIABLES
    manifest,     \* manifest[r]: the version manifest.yaml pins for r
    path,         \* path[r]: who has locked the inode <r>/file.lock names
    held,         \* held[t]: repositories whose file.lock t's process has locked
    pc,           \* pc[t]: where the tasks of t stand
    todo,         \* todo[t]: repositories the loop of do_openeuler_fetch still has
    cur,          \* cur[t]: the repository download_repo works on (else LocalName)
    stamp,        \* stamp[t]: the SRCREV of the last completed do_fetch of t
    copy,         \* copy[t][r]: the contents of r's tree do_unpack of t has seen
    populated,    \* populated[r]: r's directory holds more than file.lock
    objects,      \* objects[r]: versions whose commit is in r's object store
    head,         \* head[r]: the version HEAD names, Unborn if none
    tree,         \* tree[r]: what r's working tree holds
    gitLocks,     \* gitLocks[r]: *.lock files a killed git left in r's .git
    faults        \* how many of them so far

repoVars == <<populated, objects, head, tree, gitLocks>>
taskVars == <<pc, todo, cur, stamp, copy>>
lockVars == <<path, held>>
vars == <<manifest, lockVars, taskVars, repoVars, faults>>

-----------------------------------------------------------------------------
(* Values                                                                  *)

Versions == 1..MaxVersion
Unborn == 0             \* no commit: a repository just created by git init
NoStamp == -1           \* do_fetch has not completed yet
Empty == 0              \* no file
Torn == -1              \* some files missing or of another version
Pointers == -2          \* HEAD's files, the large ones still LFS pointers
Trees == Versions \cup {Empty, Torn, Pointers}

Absent == -1            \* no file.lock at that path
Stale == -2             \* a file.lock nobody has locked (its process is gone)

Downloading == {"sync", "init", "commit", "checkout", "writing", "patching", "lfs", "unlock"}
Unpacking == {"unpack", "reading"}
AtRest == {"idle", "done", "failed"}
PCs == Downloading \cup Unpacking \cup AtRest \cup {"repos"}

GitLockNames == {"config", "shallow", "index"}

-----------------------------------------------------------------------------
(* What the recipe's variables give                                        *)

\* The repositories do_openeuler_fetch downloads and do_unpack copies: those of
\* OPENEULER_REPO_NAMES that manifest.yaml has.
Sources(t) == RepoNames[t] \cap Pinned
FetchSet(t) == IF t \in Disabled THEN {} ELSE Sources(t) \ Archive

\* A plausible bug: only the repository of OPENEULER_LOCAL_NAME is locked.
LockSetLocalOnly(t) == {LocalName[t]} \cap Pinned

\* src_uri_set: the lock files it puts in do_unpack[lockfiles].
LockSet(t) == RepoNames[t] \cap Pinned

\* A plausible bug: the lock files are taken as OPENEULER_REPO_NAMES lists them.
NextLocksUnsorted(t) == LockSet(t) \ held[t]

\* bitbake takes the lock files in the order of the flag, which is sorted.
Pending(t) == LockSet(t) \ held[t]
NextLocks(t) == {r \in Pending(t) : \A s \in Pending(t) : r <= s}

\* src_uri_set: SRCREV follows the manifest entry of OPENEULER_LOCAL_NAME only.
Srcrev(t) == IF LocalName[t] \in Pinned THEN manifest[LocalName[t]] ELSE 0

\* bitbake runs do_fetch again when the recipe's SRCREV is not the stamped one.
FetchStamped(t) == stamp[t] = Srcrev(t)

-----------------------------------------------------------------------------
(* file.lock: bb.utils.lockfile, unlockfile and fileslocked (bitbake)      *)

\* A plausible bug: a lock that does not exclude (LOCK_SH for LOCK_EX).
LockShared(r) == TRUE

\* lockfile() opens the path (creating the file), locks that inode and starts
\* again unless the path still names it: it succeeds exactly when the inode
\* at the path is locked by nobody.
LockFree(r) == path[r] \in {Absent, Stale}

Lock(t, r) ==
    /\ LockFree(r)
    /\ path' = [path EXCEPT ![r] = t]
    /\ held' = [held EXCEPT ![t] = @ \cup {r}]

\* unlockfile() unlinks whatever file the path names by now, then unlocks.
Unlock(t, rs) ==
    /\ path' = [r \in Repos |-> IF r \in rs THEN Absent ELSE path[r]]
    /\ held' = [held EXCEPT ![t] = @ \ rs]

\* A plausible bug: a lock that is the existence of the file, not an flock.
ExitKeepsLocks(t) == UNCHANGED <<path, held>>

\* A process that ends without unlockfile() frees its inodes, unlinking none.
ExitUnlocks(t) ==
    /\ path' = [r \in Repos |-> IF path[r] = t THEN Stale ELSE path[r]]
    /\ held' = [held EXCEPT ![t] = {}]

\* bb.fatal: the task's process ends, its loop is gone with it.
Fail(t) ==
    /\ pc' = [pc EXCEPT ![t] = "failed"]
    /\ todo' = [todo EXCEPT ![t] = {}]
    /\ cur' = [cur EXCEPT ![t] = LocalName[t]]
    /\ ExitUnlocks(t)
    /\ UNCHANGED <<stamp, copy>>

Fault ==
    /\ faults < MaxFaults
    /\ faults' = faults + 1

Goto(t, label) == pc' = [pc EXCEPT ![t] = label]

-----------------------------------------------------------------------------
(* do_fetch: do_openeuler_fetch                                            *)

\* bitbake starts the recipe, or starts it again after a failure: from
\* do_fetch, or from do_unpack if the stamp of do_fetch is still valid.
Start(t) ==
    /\ \/ pc[t] = "idle" /\ UNCHANGED faults
       \/ pc[t] = "failed" /\ Fault
    /\ Goto(t, IF FetchStamped(t) THEN "unpack" ELSE "repos")
    /\ todo' = [todo EXCEPT ![t] = IF FetchStamped(t) THEN {} ELSE FetchSet(t)]
    /\ copy' = [copy EXCEPT ![t] = [r \in Repos |-> {}]]
    /\ UNCHANGED <<manifest, lockVars, cur, stamp, repoVars>>

\* for repo_name in repo_list: download_repo takes the lock of one repository.
\* The order of the loop is abstracted: every order is a behaviour.
LockRepo(t, r) ==
    /\ pc[t] = "repos"
    /\ r \in todo[t]
    /\ Lock(t, r)
    /\ cur' = [cur EXCEPT ![t] = r]
    /\ Goto(t, "sync")
    /\ UNCHANGED <<manifest, todo, stamp, copy, repoVars, faults>>

\* sync_repo_from_cache: only when the directory holds nothing but file.lock.
\* The copy may be of any version; large files may be pointers there too.
SyncFromCache(t) ==
    LET r == cur[t] IN
    /\ pc[t] = "sync"
    /\ \/ /\ r \in Cached /\ ~populated[r]
          /\ \E v \in Versions :
               /\ head' = [head EXCEPT ![r] = v]
               /\ objects' = [objects EXCEPT ![r] = {v}]
               /\ tree' = [tree EXCEPT ![r] = IF r \in Lfs THEN Pointers ELSE v]
          /\ populated' = [populated EXCEPT ![r] = TRUE]
       \/ /\ ~(r \in Cached /\ ~populated[r])
          /\ UNCHANGED <<populated, objects, head, tree>>
    /\ Goto(t, "init")
    /\ UNCHANGED <<manifest, lockVars, todo, cur, stamp, copy, gitLocks, faults>>

\* rsync stops half way and its return code is ignored: .git may be complete
\* and the working tree not, rsync copies a directory before the next one.
SyncCutShort(t) ==
    LET r == cur[t] IN
    /\ CutShort /\ Fault
    /\ pc[t] = "sync" /\ r \in Cached /\ ~populated[r]
    /\ \/ \E v \in Versions :
            /\ head' = [head EXCEPT ![r] = v]
            /\ objects' = [objects EXCEPT ![r] = {v}]
       \/ UNCHANGED <<head, objects>>
    /\ tree' = [tree EXCEPT ![r] = Torn]
    /\ populated' = [populated EXCEPT ![r] = TRUE]
    /\ Goto(t, "init")
    /\ UNCHANGED <<manifest, lockVars, todo, cur, stamp, copy, gitLocks>>

\* init_repo_dir and the choice of the remote write .git/config.
InitRepo(t) ==
    LET r == cur[t] IN
    /\ pc[t] = "init"
    /\ populated' = [populated EXCEPT ![r] = TRUE]
    /\ \/ /\ "config" \notin gitLocks[r]
          /\ Goto(t, "commit")
          /\ UNCHANGED <<lockVars, todo, cur, stamp, copy>>
       \/ "config" \in gitLocks[r] /\ Fail(t)
    /\ UNCHANGED <<manifest, objects, head, tree, gitLocks, faults>>

\* repo.commit(version), and remote.fetch(version, depth=1) if it raises.
FetchCommit(t) ==
    LET r == cur[t] IN
    /\ pc[t] = "commit"
    /\ \/ /\ manifest[r] \in objects[r] \/ "shallow" \notin gitLocks[r]
          /\ objects' = [objects EXCEPT ![r] = @ \cup {manifest[r]}]
          /\ Goto(t, "checkout")
          /\ UNCHANGED <<lockVars, todo, cur, stamp, copy>>
       \/ /\ manifest[r] \notin objects[r] /\ "shallow" \in gitLocks[r]
          /\ Fail(t)
          /\ UNCHANGED objects
    /\ UNCHANGED <<manifest, populated, head, tree, gitLocks, faults>>

\* Plausible bugs: checking out every time, as before the code had this test,
\* and skipping the checkout as soon as the commit is in the object store.
AtVersionNever(r) == FALSE
AtVersionHasCommit(r) == head[r] # Unborn /\ manifest[r] \in objects[r]

\* repo.head.is_valid() and str(repo.head.commit) == version
AtVersion(r) == head[r] = manifest[r]

\* A plausible bug: nothing checked out, so nothing left to do, and a tree an
\* interrupted run left with LFS pointers keeps them.
SkipCheckoutAndLfs(t) ==
    /\ pc[t] = "checkout"
    /\ AtVersion(cur[t])
    /\ Goto(t, "unlock")
    /\ UNCHANGED <<manifest, lockVars, todo, cur, stamp, copy, repoVars, faults>>

SkipCheckout(t) ==
    /\ pc[t] = "checkout"
    /\ AtVersion(cur[t])
    /\ Goto(t, "lfs")
    /\ UNCHANGED <<manifest, lockVars, todo, cur, stamp, copy, repoVars, faults>>

\* index.lock is there: a killed git left it, or a git is at work (of a task
\* that was let in by a clean, which unlinks a file.lock in use).
IndexLocked(r) ==
    \/ "index" \in gitLocks[r]
    \/ \E u \in Recipes : pc[u] \in {"writing", "patching"} /\ cur[u] = r

\* git checkout: takes index.lock, rewrites the files, moves HEAD last. From
\* here to EndCheckout the working tree is of no version.
BeginCheckout(t) ==
    LET r == cur[t] IN
    /\ pc[t] = "checkout"
    /\ ~AtVersion(r)
    /\ ~IndexLocked(r)
    /\ tree' = [tree EXCEPT ![r] = Torn]
    /\ Goto(t, IF tree[r] = Torn THEN "patching" ELSE "writing")
    /\ UNCHANGED <<manifest, lockVars, todo, cur, stamp, copy, populated,
                   objects, head, gitLocks, faults>>

\* Over an incomplete tree git only writes the files that differ between the
\* two commits: what was missing stays missing.
EndCheckout(t) ==
    LET r == cur[t] IN
    /\ pc[t] \in {"writing", "patching"}
    /\ head' = [head EXCEPT ![r] = manifest[r]]
    /\ tree' = [tree EXCEPT ![r] =
                  IF pc[t] = "patching" THEN Torn
                  ELSE IF r \in Lfs THEN Pointers ELSE manifest[r]]
    /\ Goto(t, "lfs")
    /\ UNCHANGED <<manifest, lockVars, todo, cur, stamp, copy, populated,
                   objects, gitLocks, faults>>

\* git refuses: there is an index.lock, or the files that it would rewrite are
\* not those of HEAD.
CheckoutFails(t) ==
    LET r == cur[t] IN
    /\ pc[t] = "checkout"
    /\ ~AtVersion(r)
    /\ IndexLocked(r) \/ tree[r] = Torn
    /\ Fail(t)
    /\ UNCHANGED <<manifest, repoVars, faults>>

\* lfs_download, if has_lfs: run whether or not anything was checked out.
HasLfs(r) == r \in Lfs

LfsDownload(t) ==
    LET r == cur[t] IN
    /\ pc[t] = "lfs"
    /\ tree' = [tree EXCEPT ![r] =
                  IF HasLfs(r) /\ @ = Pointers THEN head[r] ELSE @]
    /\ Goto(t, "unlock")
    /\ UNCHANGED <<manifest, lockVars, todo, cur, stamp, copy, populated,
                   objects, head, gitLocks, faults>>

\* The end of download_repo.
UnlockRepo(t) ==
    /\ pc[t] = "unlock"
    /\ Unlock(t, {cur[t]})
    /\ todo' = [todo EXCEPT ![t] = @ \ {cur[t]}]
    /\ cur' = [cur EXCEPT ![t] = LocalName[t]]
    /\ Goto(t, "repos")
    /\ UNCHANGED <<manifest, stamp, copy, repoVars, faults>>

\* do_fetch ends, its stamp carries the SRCREV it ran for. The upstream URIs
\* were removed from SRC_URI, the rest of base_do_fetch finds its files.
FetchDone(t) ==
    /\ pc[t] = "repos"
    /\ todo[t] = {}
    /\ stamp' = [stamp EXCEPT ![t] = Srcrev(t)]
    /\ Goto(t, "unpack")
    /\ UNCHANGED <<manifest, lockVars, todo, cur, copy, repoVars, faults>>

-----------------------------------------------------------------------------
(* do_unpack                                                               *)

LockForUnpack(t, r) ==
    /\ pc[t] = "unpack"
    /\ r \in NextLocks(t)
    /\ Lock(t, r)
    /\ UNCHANGED <<manifest, taskVars, repoVars, faults>>

\* The copy starts once every lock is held ...
BeginUnpack(t) ==
    /\ pc[t] = "unpack"
    /\ Pending(t) = {}
    /\ copy' = [copy EXCEPT ![t] =
                  [r \in Repos |-> IF r \in Sources(t)
                                   THEN {tree[r]} ELSE {}]]
    /\ Goto(t, "reading")
    /\ UNCHANGED <<manifest, lockVars, todo, cur, stamp, repoVars, faults>>

\* ... and reads on until it ends: it has then seen what the trees held at
\* both times. bb.utils.fileslocked gives every lock back.
EndUnpack(t) ==
    /\ pc[t] = "reading"
    /\ copy' = [copy EXCEPT ![t] =
                  [r \in Repos |-> IF r \in Sources(t)
                                   THEN @[r] \cup {tree[r]} ELSE {}]]
    /\ Unlock(t, held[t])
    /\ Goto(t, "done")
    /\ UNCHANGED <<manifest, todo, cur, stamp, repoVars, faults>>

-----------------------------------------------------------------------------
(* What goes wrong, and what other people do                               *)

\* A network failure: of remote.fetch, of git lfs fetch.
NetworkFails(t) ==
    /\ Fault
    /\ \/ pc[t] = "commit" /\ manifest[cur[t]] \notin objects[cur[t]]
       \/ pc[t] = "lfs" /\ cur[t] \in Lfs
    /\ Fail(t)
    /\ UNCHANGED <<manifest, repoVars>>

\* The *.lock files a git killed at this point can leave behind.
LeftBy(label) ==
    CASE label = "init" -> {"config"}
      [] label = "commit" -> {"shallow"}
      [] label \in {"checkout", "writing", "patching"} -> {"index"}
      [] OTHER -> {}

\* The build is interrupted, the machine goes down, the OOM killer strikes.
Kill(t) ==
    /\ Fault
    /\ pc[t] \notin AtRest
    /\ pc[t] \in {"writing", "patching"} => CutShort
    /\ Fail(t)
    /\ \/ UNCHANGED gitLocks
       \/ gitLocks' = [gitLocks EXCEPT ![cur[t]] = @ \cup LeftBy(pc[t])]
    /\ UNCHANGED <<manifest, populated, objects, head, tree>>

\* A plausible bug: a version the manifest cannot have.
MovesPast(v) == {v + 1}

\* manifest.yaml is read once per bitbake session (parse_manifest), so an
\* entry changes between sessions. Recipes whose SRCREV changes start over.
Moves(v) == {w \in Versions : w > v \/ (Reverts /\ w # v)}

Bump(r) ==
    /\ r \in Pinned
    /\ \A t \in Recipes : pc[t] \in AtRest
    /\ \E v \in Moves(manifest[r]) : manifest' = [manifest EXCEPT ![r] = v]
    /\ pc' = [t \in Recipes |-> IF LocalName[t] = r THEN "idle" ELSE pc[t]]
    /\ UNCHANGED <<lockVars, todo, cur, stamp, copy, repoVars, faults>>

\* do_fetch[file-checksums]: a local file of the recipe has changed since its
\* do_fetch, whose stamp is then worth nothing. Files of a repository do not
\* count (openeuler_get_checksum_file_list leaves them out).
FilesChange(t) ==
    /\ Fault
    /\ pc[t] \in AtRest
    /\ stamp[t] # NoStamp
    /\ stamp' = [stamp EXCEPT ![t] = NoStamp]
    /\ Goto(t, "idle")
    /\ UNCHANGED <<manifest, lockVars, todo, cur, copy, repoVars>>

\* do_openeuler_clean of a recipe in another build: os.remove(file.lock).
OpeneulerClean(t) ==
    /\ CleanRuns /\ Fault
    /\ path[LocalName[t]] # Absent
    /\ path' = [path EXCEPT ![LocalName[t]] = Absent]
    /\ UNCHANGED <<manifest, held, taskVars, repoVars>>

-----------------------------------------------------------------------------
(* Specification                                                           *)

Init ==
    /\ manifest \in [Repos -> {1}]
    /\ path = [r \in Repos |-> Absent]
    /\ held = [t \in Recipes |-> {}]
    /\ pc = [t \in Recipes |-> "idle"]
    /\ todo = [t \in Recipes |-> {}]
    /\ cur = LocalName
    /\ stamp = [t \in Recipes |-> NoStamp]
    /\ copy = [t \in Recipes |-> [r \in Repos |-> {}]]
    /\ populated = [r \in Repos |-> FALSE]
    /\ objects = [r \in Repos |-> {}]
    /\ head = [r \in Repos |-> Unborn]
    /\ tree = [r \in Repos |-> Empty]
    /\ gitLocks = [r \in Repos |-> {}]
    /\ faults = 0

\* The steps of a task that is running: the process goes on by itself.
Step(t) ==
    \/ \E r \in Repos : LockRepo(t, r)
    \/ SyncFromCache(t)
    \/ InitRepo(t)
    \/ FetchCommit(t)
    \/ SkipCheckout(t)
    \/ BeginCheckout(t)
    \/ EndCheckout(t)
    \/ CheckoutFails(t)
    \/ LfsDownload(t)
    \/ UnlockRepo(t)
    \/ FetchDone(t)
    \/ \E r \in Repos : LockForUnpack(t, r)
    \/ BeginUnpack(t)
    \/ EndUnpack(t)

Environment(t) ==
    \/ Start(t)
    \/ SyncCutShort(t)
    \/ NetworkFails(t)
    \/ Kill(t)
    \/ FilesChange(t)
    \/ OpeneulerClean(t)

Next ==
    \/ \E t \in Recipes : Step(t) \/ Environment(t)
    \/ \E r \in Repos : Bump(r)

Spec == Init /\ [][Next]_vars

\* A running process is scheduled, and a lock that stays free is eventually
\* taken by a task blocked on it. Nobody owes a start, a rerun or a bump.
FairSpec == Spec /\ \A t \in Recipes : WF_vars(Step(t))

-----------------------------------------------------------------------------
(* Properties                                                              *)

\* Every variable keeps its type.
TypeOK ==
    /\ manifest \in [Repos -> Versions]
    /\ path \in [Repos -> Recipes \cup {Absent, Stale}]
    /\ held \in [Recipes -> SUBSET Repos]
    /\ pc \in [Recipes -> PCs]
    /\ todo \in [Recipes -> SUBSET Repos]
    /\ cur \in [Recipes -> Repos]
    /\ stamp \in [Recipes -> Versions \cup {0, NoStamp}]
    /\ copy \in [Recipes -> [Repos -> SUBSET Trees]]
    /\ populated \in [Repos -> BOOLEAN]
    /\ objects \in [Repos -> SUBSET Versions]
    /\ head \in [Repos -> Versions \cup {Unborn}]
    /\ tree \in [Repos -> Trees]
    /\ gitLocks \in [Repos -> SUBSET GitLockNames]
    /\ faults \in 0..MaxFaults

\* The comment of src_uri_set, "so bitbake serializes unpack against fetch":
\* while do_unpack copies a repository no other task rewrites its tree.
Rewrites(t, r) == pc[t] \in {"sync", "writing", "patching", "lfs"} /\ cur[t] = r
Reads(t, r) == pc[t] = "reading" /\ r \in Sources(t)
UnpackSerialized ==
    \A t, u \in Recipes, r \in Repos :
        t # u => ~(Rewrites(t, r) /\ (Reads(u, r) \/ Rewrites(u, r)))

\* No unpacked source mixes two states of a checkout or holds half of one.
CopyNotTorn ==
    \A t \in Recipes : pc[t] = "done" =>
        \A r \in Sources(t) : \E c \in Trees \ {Torn} : copy[t][r] = {c}

\* A recipe that is done has unpacked, of the repository its SRCREV comes
\* from, exactly the complete tree of the version manifest.yaml pins.
UnpackCurrent ==
    \A t \in Recipes : pc[t] = "done" /\ LocalName[t] \in FetchSet(t) =>
        copy[t][LocalName[t]] = {manifest[LocalName[t]]}

\* The same of every manifest repository the recipe downloads. It is what
\* openeuler.conf says of a manifest change ("no need to set BB_SRCREV_POLICY
\* = "clear" for manifest changes to take effect").
AllCurrent ==
    \A t \in Recipes : pc[t] = "done" =>
        \A r \in FetchSet(t) : copy[t][r] = {manifest[r]}

\* Sorted lock files cannot deadlock: when t waits for a lock of u and u
\* waits too, u waits for a lock further on, so no chain of waits closes.
Wants(t, r) ==
    \/ pc[t] = "repos" /\ r \in todo[t]
    \/ pc[t] = "unpack" /\ r \in NextLocks(t)
WaitsAscend ==
    \A t, u \in Recipes, r, s \in Repos :
        Wants(t, r) /\ path[r] = u /\ Wants(u, s) => r < s

\* "Skipping the no-op checkout removes the rewrite": a complete tree of the
\* pinned version is left alone, for readers that hold no lock at all.
NoRewriteAtVersion ==
    [][\A r \in Repos :
         tree[r] = manifest[r] /\ manifest'[r] = manifest[r] => tree'[r] = tree[r]]_vars

\* A working tree only changes in the hands of the one task that holds the
\* repository's lock, and never while another task holds it as well.
TreeChangesUnderLock ==
    [][\A r \in Repos : tree'[r] # tree[r] =>
         \E t \in Recipes : /\ r \in held[t] /\ cur[t] = r
                            /\ \A u \in Recipes \ {t} : r \notin held[u]]_vars

\* Whatever a task ends with, it leaves no lock taken in its name: a repository
\* is never locked by a task that is not running.
NoLeakedLock ==
    \A t \in Recipes, r \in Repos :
        path[r] = t => r \in held[t] /\ pc[t] \in PCs \ AtRest

\* Every task that started ends, with its sources or with an error: no task
\* waits forever for the lock of another.
EveryTaskEnds ==
    \A t \in Recipes : pc[t] \notin AtRest ~> pc[t] \in {"done", "failed"}
=============================================================================
