----------------------------- MODULE SourcePool -----------------------------
(***************************************************************************)
(* What the shared source checkouts promise to a recipe, with no locks, no *)
(* git and no processes: a recipe is given, in one step, one settled state *)
(* of every repository it downloads, never a mixture of two; of the        *)
(* repository its SRCREV comes from it is given the pinned version; and it *)
(* keeps what it was given until that version, or a local file of its own, *)
(* changes.                                                                *)
(***************************************************************************)
EXTENDS Integers

CONSTANTS
    Recipes,      \* the recipes that download their sources
    Repos,        \* source repositories
    Versions,     \* the versions a repository can be pinned to
    Contents,     \* the settled states of a checkout: versions, and others
    Needs,        \* Needs[t]: the repositories t downloads
    Primary       \* Primary[t]: the repository the SRCREV of t comes from

VARIABLES
    manifest,     \* manifest[r]: the version pinned for r
    given         \* given[t][r]: what t got of r, 0 for nothing

poolVars == <<manifest, given>>

Nothing == [r \in Repos |-> 0]

PoolInit ==
    /\ manifest \in [Repos -> Versions]
    /\ given = [t \in Recipes |-> Nothing]

\* A repository of Needs[t] other than the primary one may be in a state from
\* before its last pin: only the primary one makes t start over.
Deliver(t) ==
    /\ given[t] = Nothing
    /\ \E g \in [Repos -> Contents \cup {0}] :
         /\ \A r \in Repos : g[r] \in Contents <=> r \in Needs[t]
         /\ Primary[t] \in Needs[t] => g[Primary[t]] = manifest[Primary[t]]
         /\ given' = [given EXCEPT ![t] = g]
    /\ UNCHANGED manifest

\* A local file of t changes: t starts over.
Withdraw(t) ==
    /\ given' = [given EXCEPT ![t] = Nothing]
    /\ UNCHANGED manifest

Pin(r) ==
    /\ \E v \in Versions : manifest' = [manifest EXCEPT ![r] = v]
    /\ given' = [t \in Recipes |-> IF Primary[t] = r THEN Nothing ELSE given[t]]

PoolNext ==
    \/ \E t \in Recipes : Deliver(t) \/ Withdraw(t)
    \/ \E r \in Repos : Pin(r)

PoolSpec == PoolInit /\ [][PoolNext]_poolVars
=============================================================================
