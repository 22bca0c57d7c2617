-------------------------- MODULE SourceFetchPool --------------------------
(***************************************************************************)
(* The source fetching of openeuler.bbclass implements SourcePool: seen    *)
(* through what the recipes that are done have unpacked, all the locks,    *)
(* checkouts, kills and reruns are one atomic delivery per recipe.         *)
(* Below the mapping, the inductive invariants of SourceFetch.             *)
(***************************************************************************)
EXTENDS SourceFetch

\* A settled checkout: all the files of one version, the large ones maybe
\* still LFS pointers.
Settled == Versions \cup {Pointers}

\* What t unpacked of r, Torn if it saw more than one state of it.
Unpacked(t, r) ==
    IF \E c \in Settled : copy[t][r] = {c}
    THEN CHOOSE c \in Settled : copy[t][r] = {c}
    ELSE Torn

Given ==
    [t \in Recipes \ Disabled |->
       [r \in Repos |-> IF pc[t] = "done" /\ r \in FetchSet(t)
                        THEN Unpacked(t, r) ELSE 0]]

Pool == INSTANCE SourcePool WITH
    Recipes <- Recipes \ Disabled,
    Contents <- Settled,
    Needs <- [t \in Recipes |-> FetchSet(t)],
    Primary <- LocalName,
    given <- Given

\* Every behaviour of the tasks is a behaviour of the atomic provider.
ImplementsPool == Pool!PoolSpec

-----------------------------------------------------------------------------
(* Invariants, from the weakest assumptions to the strongest               *)

\* Where a task holds which locks. A lock is held by the process named at its
\* path; do_unpack holds a lower segment of its sorted locks.
LockInv ==
    /\ \A t \in Recipes, r \in Repos : path[r] = t => r \in held[t]
    /\ \A t \in Recipes :
         /\ pc[t] \in AtRest \cup {"repos"} => held[t] = {}
         /\ pc[t] \in Downloading => held[t] = {cur[t]}
         /\ pc[t] \in Unpacking => held[t] \subseteq LockSet(t)
         /\ pc[t] = "reading" => Pending(t) = {}
         /\ \A s \in held[t], r \in Pending(t) : pc[t] = "unpack" => s < r

\* Without do_openeuler_clean the path also names every holder.
MutexInv == \A t \in Recipes : \A r \in held[t] : path[r] = t

\* r's tree and HEAD are those of the pinned version.
Ready(r) == head[r] = manifest[r] /\ tree[r] = manifest[r]
CheckingOut(t, r) == pc[t] = "writing" /\ cur[t] = r

\* Without half-finished copies and checkouts a tree is torn only while a task
\* is checking it out, and agrees with HEAD at any other time.
TreeInv ==
    \A r \in Repos :
        /\ ~populated[r] => head[r] = Unborn
        /\ \/ \E t \in Recipes : CheckingOut(t, r)
           \/ tree[r] = head[r]
           \/ tree[r] = Pointers /\ head[r] \in Versions /\ r \in Lfs

\* What a task may rely on at each point of do_openeuler_fetch.
FetchOK(t) ==
    /\ pc[t] # "patching"
    /\ todo[t] \subseteq FetchSet(t)
    /\ pc[t] \in Downloading => cur[t] \in todo[t]
    /\ pc[t] \in Downloading \ {"sync", "init"} => populated[cur[t]]
    /\ pc[t] = "writing" => tree[cur[t]] = Torn
    /\ pc[t] = "lfs" => head[cur[t]] = manifest[cur[t]]
    /\ pc[t] = "unlock" => Ready(cur[t])
    /\ pc[t] \in Downloading \cup {"repos"} =>
         \A r \in FetchSet(t) \ todo[t] : Ready(r)

\* What the stamp of do_fetch is worth: the repository of its SRCREV is still
\* as do_fetch left it, the others were fetched at some time.
StampOK(t) ==
    /\ stamp[t] <= Srcrev(t)
    /\ FetchStamped(t) /\ LocalName[t] \in FetchSet(t) => Ready(LocalName[t])
    /\ stamp[t] # NoStamp => \A r \in FetchSet(t) : head[r] # Unborn
    /\ pc[t] \in Unpacking \cup {"done"} => FetchStamped(t)

\* What do_unpack has seen: one state of every repository, and never a torn one.
CopyWhole(t) ==
    /\ pc[t] = "reading" =>
         \A r \in Sources(t) : copy[t][r] = {tree[r]} /\ tree[r] # Torn
    /\ pc[t] = "done" =>
         \A r \in Sources(t) : \E c \in Trees \ {Torn} : copy[t][r] = {c}

\* Of what the recipe downloads it is a settled one, of its own repository the
\* pinned version.
CopyOK(t) ==
    pc[t] = "done" =>
        /\ \A r \in FetchSet(t) : \E c \in Settled : copy[t][r] = {c}
        /\ LocalName[t] \in FetchSet(t) =>
             copy[t][LocalName[t]] = {manifest[LocalName[t]]}

\* The inductive invariant behind CopyNotTorn, however the manifest moves.
WholeInv ==
    /\ TypeOK /\ LockInv /\ MutexInv /\ TreeInv
    /\ \A t \in Recipes : FetchOK(t) /\ CopyWhole(t)

\* The inductive invariant behind UnpackCurrent and the refinement: a stamp is
\* worth something only if no version returns.
IInv ==
    /\ WholeInv
    /\ \A t \in Recipes : StampOK(t) /\ CopyOK(t)
=============================================================================
