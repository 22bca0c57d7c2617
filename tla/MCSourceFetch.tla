--------------------------- MODULE MCSourceFetch ---------------------------
(***************************************************************************)
(* Two recipes over two repositories, as linux-openeuler.inc has them:     *)
(* 1 is kernel-${PV}, 2 is src-kernel-${PV} (in the order of their paths). *)
(* Both recipes need both; linux takes its SRCREV from 1, phytium from 2.  *)
(***************************************************************************)
EXTENDS SourceFetchPool

CONSTANTS linux, phytium

MCRecipes == {linux, phytium}
MCRepos == {1, 2}
MCRepoNames == [t \in MCRecipes |-> MCRepos]
MCLocalName == [t \in MCRecipes |-> IF t = phytium THEN 2 ELSE 1]
=============================================================================
