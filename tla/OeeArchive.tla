----------------------------- MODULE OeeArchive -----------------------------
(***************************************************************************)
(* The one oee_archive repository all builds share (oee-archive.bbclass).  *)
(*                                                                         *)
(* A recipe that inherits oee-archive runs do_download_oee_archive before  *)
(* do_fetch: under ${OPENEULER_SP_DIR}/oee_archive.lock it checks out the  *)
(* version manifest.yaml pins, all large files as LFS pointers, and pulls  *)
(* the large files of the recipe's own sub directory. A git operation that *)
(* trips over a *.lock file removes all of them and is tried again.        *)
(* do_fetch skips the repository (openeuler.bbclass), do_unpack copies the *)
(* sub directory; nobody who writes it takes the lock do_unpack takes.     *)
(***************************************************************************)
EXTENDS Integers, FiniteSets

CONSTANTS
    Recipes,      \* recipes that inherit oee-archive, of all builds
    Builds,       \* builds sharing OPENEULER_SP_DIR, each with its manifest
    BuildOf,      \* the build of each recipe
    SubDirs,      \* sub directories of the repository
    SubDir,       \* OEE_ARCHIVE_SUB_DIR of each recipe
    Changing,     \* sub directories in which every version differs
    MaxVersion,   \* versions a manifest can pin are 1..MaxVersion
    MaxRetries,   \* max_retries of _oee_git_retry
    Nobody,       \* no recipe
    MaxFaults     \* bound: kills, network failures and reruns

ASSUME OeeArchiveAssumption ==
    /\ BuildOf \in [Recipes -> Builds]
    /\ SubDir \in [Recipes -> SubDirs]
    /\ Changing \subseteq SubDirs
    /\ MaxVersion \in Nat \ {0} /\ MaxRetries \in Nat \ {0}
    /\ Nobody \notin Recipes
    /\ MaxFaults \in Nat

VARIABLES
    manifest,     \* manifest[b]: the version the manifest of build b pins
    owner,        \* who has locked oee_archive.lock
    pc,           \* pc[t]: where the tasks of t stand
    attempt,      \* attempt[t]: of the git operation t is in
    raised,       \* raised[t]: check_oee_archive_repo_version is failing
    fetched,      \* fetched[t]: do_download_oee_archive of t has its stamp
    copy,         \* copy[t]: the contents of its sub directory do_unpack saw
    head,         \* the version HEAD names, Unborn if none
    dirs,         \* dirs[s]: what the sub directory s holds
    stored,       \* stored[s]: contents of s whose large files .git/lfs has
    exclude,      \* lfs.fetchexclude is '*'
    gitLocks,     \* the *.lock files in .git
    faults        \* kills, network failures and reruns so far

taskVars == <<pc, attempt, raised, fetched, copy>>
repoVars == <<head, dirs, stored, exclude, gitLocks>>
vars == <<manifest, owner, taskVars, repoVars, faults>>

Versions == 1..MaxVersion
Unborn == 0
Empty == 0          \* no file
Torn == -1          \* a checkout rewrites it, or was killed doing so
Pointers == -2      \* the large files are LFS pointers

\* What s holds in version v: a sub directory that does not change keeps its
\* first contents.
Content(s, v) == IF s \in Changing THEN v ELSE 1

Downloading == {"init", "exclude", "fetch", "fetching", "checkout", "writing",
                "restore", "pull"}
AtRest == {"idle", "done", "failed"}
Pinned(t) == manifest[BuildOf[t]]

Goto(t, label) == pc' = [pc EXCEPT ![t] = label]

Fault ==
    /\ faults < MaxFaults
    /\ faults' = faults + 1

-----------------------------------------------------------------------------
(* _oee_git_retry                                                          *)

\* The operation the steps of a retry belong to starts at this label.
RetryFrom(label) == IF label = "checkout" THEN "fetch" ELSE label

\* A plausible bug: the retry waits but removes nothing.
ClearNothing == gitLocks

\* _oee_clear_stale_locks
ClearStaleLocks == {}

\* The error names a lock: remove all locks, back off and call fn() again.
Retry(t) ==
    /\ attempt' = [attempt EXCEPT ![t] = @ + 1]
    /\ gitLocks' = ClearStaleLocks
    /\ Goto(t, RetryFrom(pc[t]))
    /\ UNCHANGED <<owner, raised, fetched, copy>>

\* A plausible bug: a lock that is the existence of a file, not an flock.
OwnerKept(t) == owner

\* bitbake's lock is freed when the process that holds it ends.
OwnerAfter(t) == IF owner = t THEN Nobody ELSE owner

Fail(t) ==
    /\ Goto(t, "failed")
    /\ owner' = OwnerAfter(t)
    /\ attempt' = [attempt EXCEPT ![t] = 1]
    /\ raised' = [raised EXCEPT ![t] = FALSE]
    /\ UNCHANGED <<fetched, copy>>

\* An error a retry does not handle, or not any more. Out of _fetch_checkout
\* it goes through the finally that restores lfs.fetchexclude.
Raise(t) ==
    IF pc[t] \in {"fetch", "fetching", "checkout"}
    THEN /\ Goto(t, "restore")
         /\ attempt' = [attempt EXCEPT ![t] = 1]
         /\ raised' = [raised EXCEPT ![t] = TRUE]
         /\ UNCHANGED <<owner, fetched, copy>>
    ELSE Fail(t)

\* The operation succeeded: on to the next, with its own five attempts.
Advance(t, label) ==
    /\ Goto(t, label)
    /\ attempt' = [attempt EXCEPT ![t] = 1]
    /\ UNCHANGED <<owner, raised, fetched, copy>>

\* The *.lock file the operation at this label creates.
LockOf(label) ==
    CASE label \in {"init", "exclude", "restore"} -> "config"
      [] label \in {"fetch", "fetching"} -> "shallow"
      [] label \in {"checkout", "writing"} -> "index"

\* Blocked by a lock file, at its last attempt the operation gives up. The
\* restore of fetchexclude gives up silently.
Blocked(t) ==
    /\ pc[t] \in {"init", "exclude", "fetch", "checkout", "restore"}
    /\ LockOf(pc[t]) \in gitLocks
    /\ IF attempt[t] < MaxRetries
       THEN Retry(t)
       ELSE /\ IF pc[t] = "restore" /\ ~raised[t] THEN Advance(t, "pull") ELSE Raise(t)
            /\ UNCHANGED gitLocks
    /\ UNCHANGED <<manifest, head, dirs, stored, exclude, faults>>

Unblocked(t, label) == pc[t] = label /\ LockOf(label) \notin gitLocks

-----------------------------------------------------------------------------
(* do_download_oee_archive                                                 *)

\* bitbake starts the recipe, or starts it again. The stamp of
\* do_download_oee_archive stays valid whatever the manifest says, because
\* MANIFEST_LIST is left out of the task hashes.
Start(t) ==
    /\ \/ pc[t] = "idle" /\ UNCHANGED faults
       \/ pc[t] = "failed" /\ Fault
    /\ Goto(t, IF fetched[t] THEN "unpack" ELSE "wait")
    /\ copy' = [copy EXCEPT ![t] = {}]
    /\ UNCHANGED <<manifest, owner, attempt, raised, fetched, repoVars>>

\* A plausible bug: the lock file is in /tmp, of which every build has its own.
LockFreePerBuild(t) == owner \notin {u \in Recipes : BuildOf[u] = BuildOf[t]}

\* do_download_oee_archive[lockfiles]
LockFree(t) == owner = Nobody

TakeLock(t) ==
    /\ pc[t] = "wait"
    /\ LockFree(t)
    /\ owner' = t
    /\ Goto(t, "init")
    /\ UNCHANGED <<manifest, attempt, raised, fetched, copy, repoVars, faults>>

\* init_oee_archive_repo_dir and _remote: git init, sslverify, the remote.
InitRepo(t) ==
    /\ Unblocked(t, "init")
    /\ Advance(t, "exclude")
    /\ UNCHANGED <<manifest, repoVars, faults>>

SetExclude(t) ==
    /\ Unblocked(t, "exclude")
    /\ exclude' = TRUE
    /\ Advance(t, "fetch")
    /\ UNCHANGED <<manifest, head, dirs, stored, gitLocks, faults>>

\* repo.git.fetch('upstream', version, '--depth=1') and the checkout are one
\* operation to the retry: neither resets the attempts.
BeginFetch(t) ==
    /\ Unblocked(t, "fetch")
    /\ gitLocks' = gitLocks \cup {LockOf("fetch")}
    /\ Goto(t, "fetching")
    /\ UNCHANGED <<manifest, owner, attempt, raised, fetched, copy, head, dirs,
                   stored, exclude, faults>>

EndFetch(t) ==
    /\ pc[t] = "fetching"
    /\ gitLocks' = gitLocks \ {LockOf("fetch")}
    /\ Goto(t, "checkout")
    /\ UNCHANGED <<manifest, owner, attempt, raised, fetched, copy, head, dirs,
                   stored, exclude, faults>>

\* The sub directories a checkout of version v rewrites.
Rewritten(v) ==
    {s \in SubDirs : head = Unborn \/ Content(s, v) # Content(s, head)}

\* repo.git.checkout(version), whatever HEAD is: git locks its index and
\* writes the files that differ from HEAD's.
BeginCheckout(t) ==
    /\ Unblocked(t, "checkout")
    /\ \A s \in Rewritten(Pinned(t)) : dirs[s] # Torn
    /\ gitLocks' = gitLocks \cup {LockOf("checkout")}
    /\ dirs' = [s \in SubDirs |-> IF s \in Rewritten(Pinned(t)) THEN Torn ELSE dirs[s]]
    /\ Goto(t, "writing")
    /\ UNCHANGED <<manifest, owner, attempt, raised, fetched, copy, head,
                   stored, exclude, faults>>

\* While fetchexclude is '*' a large file .git/lfs does not have is written as
\* a pointer.
EndCheckout(t) ==
    LET v == Pinned(t) IN
    /\ pc[t] = "writing"
    /\ dirs' = [s \in SubDirs |->
                  IF s \notin Rewritten(v) THEN dirs[s]
                  ELSE IF Content(s, v) \in stored[s] THEN Content(s, v)
                  ELSE Pointers]
    /\ head' = v
    /\ gitLocks' = gitLocks \ {LockOf("checkout")}
    /\ Advance(t, "restore")
    /\ UNCHANGED <<manifest, stored, exclude, faults>>

\* git refuses to overwrite files that are not those of HEAD, as a checkout
\* that was killed leaves them.
CheckoutRefused(t) ==
    /\ Unblocked(t, "checkout")
    /\ \E s \in Rewritten(Pinned(t)) : dirs[s] = Torn
    /\ Raise(t)
    /\ UNCHANGED <<manifest, repoVars, faults>>

\* A plausible bug: '' is never written back, so nothing is ever pulled.
RestoreForgotten == exclude

\* _restore_lfs
RestoredExclude == FALSE

\* The finally: after it the error goes on, if there is one.
RestoreExclude(t) ==
    /\ Unblocked(t, "restore")
    /\ exclude' = RestoredExclude
    /\ IF raised[t] THEN Fail(t) ELSE Advance(t, "pull")
    /\ UNCHANGED <<manifest, head, dirs, stored, gitLocks, faults>>

\* git lfs pull --include <sub dir>/*: the large files of that directory, of
\* HEAD's version. The task ends and gives its lock back.
LfsPull(t) ==
    LET s == SubDir[t]
        pulled == ~exclude /\ dirs[s] = Pointers IN
    /\ pc[t] = "pull"
    /\ dirs' = [dirs EXCEPT ![s] = IF pulled THEN Content(s, head) ELSE @]
    /\ stored' = [stored EXCEPT ![s] = IF pulled THEN @ \cup {Content(s, head)} ELSE @]
    /\ fetched' = [fetched EXCEPT ![t] = TRUE]
    /\ owner' = Nobody
    /\ Goto(t, "unpack")
    /\ UNCHANGED <<manifest, attempt, raised, copy, head, exclude, gitLocks, faults>>

-----------------------------------------------------------------------------
(* do_unpack                                                               *)

BeginUnpack(t) ==
    /\ pc[t] = "unpack"
    /\ copy' = [copy EXCEPT ![t] = {dirs[SubDir[t]]}]
    /\ Goto(t, "reading")
    /\ UNCHANGED <<manifest, owner, attempt, raised, fetched, repoVars, faults>>

EndUnpack(t) ==
    /\ pc[t] = "reading"
    /\ copy' = [copy EXCEPT ![t] = @ \cup {dirs[SubDir[t]]}]
    /\ Goto(t, "done")
    /\ UNCHANGED <<manifest, owner, attempt, raised, fetched, repoVars, faults>>

-----------------------------------------------------------------------------
(* Failures and the manifest                                               *)

\* The server cannot be reached, its error names no lock file.
NetworkFails(t) ==
    /\ Fault
    /\ pc[t] \in {"fetching", "pull"}
    /\ Raise(t)
    /\ gitLocks' = IF pc[t] = "fetching" THEN gitLocks \ {LockOf("fetch")} ELSE gitLocks
    /\ UNCHANGED <<manifest, head, dirs, stored, exclude>>

\* A git that is killed may leave its lock file behind.
Kill(t) ==
    /\ Fault
    /\ pc[t] \notin AtRest
    /\ Fail(t)
    /\ IF pc[t] \in Downloading \ {"pull"}
       THEN \/ gitLocks' = gitLocks \cup {LockOf(pc[t])}
            \/ gitLocks' = gitLocks \ (IF pc[t] \in {"fetching", "writing"}
                                       THEN {LockOf(pc[t])} ELSE {})
       ELSE UNCHANGED gitLocks
    /\ UNCHANGED <<manifest, head, dirs, stored, exclude>>

\* A plausible bug: a version the manifest cannot have.
MovesPast(v) == {v + 1}

\* The versions manifest.yaml can be moved to.
Moves(v) == {w \in Versions : w > v}

\* The manifest of a build moves on between two of its sessions. SRCREV is
\* that of oee_archive (src_uri_set), so do_fetch and do_unpack run again.
Bump(b) ==
    /\ \A t \in Recipes : BuildOf[t] = b => pc[t] \in AtRest
    /\ \E v \in Moves(manifest[b]) : manifest' = [manifest EXCEPT ![b] = v]
    /\ pc' = [t \in Recipes |-> IF BuildOf[t] = b THEN "idle" ELSE pc[t]]
    /\ UNCHANGED <<owner, attempt, raised, fetched, copy, repoVars, faults>>

-----------------------------------------------------------------------------
(* Specification                                                           *)

Init ==
    /\ manifest = [b \in Builds |-> 1]
    /\ owner = Nobody
    /\ pc = [t \in Recipes |-> "idle"]
    /\ attempt = [t \in Recipes |-> 1]
    /\ raised = [t \in Recipes |-> FALSE]
    /\ fetched = [t \in Recipes |-> FALSE]
    /\ copy = [t \in Recipes |-> {}]
    /\ head = Unborn
    /\ dirs = [s \in SubDirs |-> Empty]
    /\ stored = [s \in SubDirs |-> {}]
    /\ exclude = FALSE
    /\ gitLocks = {}
    /\ faults = 0

Step(t) ==
    \/ TakeLock(t)
    \/ InitRepo(t)
    \/ SetExclude(t)
    \/ BeginFetch(t)
    \/ EndFetch(t)
    \/ BeginCheckout(t)
    \/ EndCheckout(t)
    \/ CheckoutRefused(t)
    \/ RestoreExclude(t)
    \/ LfsPull(t)
    \/ Blocked(t)
    \/ BeginUnpack(t)
    \/ EndUnpack(t)

Next ==
    \/ \E t \in Recipes : Step(t) \/ Start(t) \/ NetworkFails(t) \/ Kill(t)
    \/ \E b \in Builds : Bump(b)

Spec == Init /\ [][Next]_vars

\* A running process is scheduled, and a lock that stays free is taken by a task
\* waiting for it. Nobody owes a start, a rerun or a bump.
FairSpec == Spec /\ \A t \in Recipes : WF_vars(Step(t))

-----------------------------------------------------------------------------
(* Properties                                                              *)

\* Every variable keeps its type.
TypeOK ==
    /\ manifest \in [Builds -> Versions]
    /\ owner \in Recipes \cup {Nobody}
    /\ pc \in [Recipes -> Downloading \cup AtRest \cup {"wait", "unpack", "reading"}]
    /\ attempt \in [Recipes -> 1..MaxRetries]
    /\ raised \in [Recipes -> BOOLEAN]
    /\ fetched \in [Recipes -> BOOLEAN]
    /\ copy \in [Recipes -> SUBSET (Versions \cup {Empty, Torn, Pointers})]
    /\ head \in Versions \cup {Unborn}
    /\ dirs \in [SubDirs -> Versions \cup {Empty, Torn, Pointers}]
    /\ stored \in [SubDirs -> SUBSET Versions]
    /\ exclude \in BOOLEAN
    /\ gitLocks \subseteq {"config", "shallow", "index"}
    /\ faults \in 0..MaxFaults

\* "Any leftover *.lock is stale and can be removed safely": no retry removes
\* the lock file of a git that is still running.
ClearsOnlyStale ==
    [][\A t \in Recipes :
         pc[t] \in {"fetching", "writing"} /\ pc'[t] = pc[t] =>
            LockOf(pc[t]) \in gitLocks']_vars

\* What a download that succeeds leaves behind, even after failures of others:
\* the version of its manifest and every file of its sub directory. The one
\* exception: a checkout killed half way by which HEAD has not moved yet, since
\* checking out HEAD's own version keeps the half of the files it finds.
DownloadDelivers ==
    [][\A t \in Recipes : fetched'[t] /\ ~fetched[t] =>
         /\ head' = Pinned(t)
         /\ dirs'[SubDir[t]] \in {Content(SubDir[t], Pinned(t)), Torn}
         /\ dirs'[SubDir[t]] = Torn => faults > 0]_vars

\* Lock files a crash left behind never make a download fail, nor start to fail:
\* it takes a new fault, or a working tree a kill has left half rewritten.
OnlyFaultsFail ==
    [][\A t \in Recipes :
         \/ pc'[t] = "failed" /\ pc[t] # "failed" /\ ~raised[t]
         \/ raised'[t] /\ ~raised[t]
         => faults' > faults \/ \E s \in SubDirs : dirs[s] = Torn]_vars

\* As long as no build has moved its manifest, every recipe that is done has
\* unpacked the complete sub directory of the version pinned.
UnpacksOneVersion ==
    (\A b \in Builds : manifest[b] = 1) =>
        \A t \in Recipes : pc[t] = "done" => copy[t] = {Content(SubDir[t], 1)}

\* The same for any manifest: "SRCREV changed because of the corresponding
\* changes in manifest.yaml, do_fetch will re-run".
UnpacksPinned ==
    \A t \in Recipes : pc[t] = "done" => copy[t] = {Content(SubDir[t], Pinned(t))}

\* A recipe that started ends: nobody waits forever for oee_archive.lock.
EveryRecipeEnds ==
    \A t \in Recipes : pc[t] \notin AtRest ~> pc[t] \in {"done", "failed"}
=============================================================================
