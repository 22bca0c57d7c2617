---------------------------- MODULE MCOeeArchive ----------------------------
(***************************************************************************)
(* Three recipes: rustc and cargo of one build share the sub directory     *)
(* rust, which changes with every version; upx of another build uses one   *)
(* that never changes.                                                     *)
(***************************************************************************)
EXTENDS OeeArchive

CONSTANTS rustc, cargo, upx, buildA, buildB, rust, tools

MCRecipes == {rustc, cargo, upx}
MCBuilds == {buildA, buildB}
MCBuildOf == [t \in MCRecipes |-> IF t = upx THEN buildB ELSE buildA]
MCSubDirs == {rust, tools}
MCSubDir == [t \in MCRecipes |-> IF t = upx THEN tools ELSE rust]
MCChanging == {rust}
=============================================================================
