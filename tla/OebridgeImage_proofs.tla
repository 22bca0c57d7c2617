----------------------- MODULE OebridgeImage_proofs -----------------------
(***************************************************************************)
(* For all packages and any number of failures: the image has every        *)
(* package, and where no step has failed their owners too.                 *)
(***************************************************************************)
EXTENDS OebridgeImage, TLAPS

\* What the trees hold when a step of a task begins.
Filled ==
    /\ task = "prepare" => rootfs = Owned(Base)
    /\ task = "prepare" /\ step \in {2, 3} => DOMAIN temp = Base
    /\ task = "install" => Base \subseteq DOMAIN temp /\ DOMAIN temp \subseteq Packages
    /\ task = "install" /\ step = 2 => Base \cup Real \subseteq DOMAIN temp
    /\ task \in {"extra", "restore"} => DOMAIN temp = Packages
    /\ task = "restore" /\ step = 5 => DOMAIN rootfs = Packages
    /\ task = "image" => DOMAIN rootfs = Packages

Right(tree) == \A t \in DOMAIN tree : tree[t] = "package"

\* Where no step has failed, but that FileMissing ends do_dnf_run_extra.
Kept ==
    failures = 0 =>
      /\ failed => task = "extra"
      /\ task = "prepare" /\ step = 3 => Right(temp)
      /\ task \in {"install", "extra"} => Right(temp)
      /\ task = "restore" /\ step = 1 => Right(temp)
      /\ task = "restore" /\ step \in 2 .. 5 => Right(perms) /\ DOMAIN perms = Packages
      /\ task = "image" => Right(rootfs)

ImageInv == failures \in Nat /\ Filled /\ Kept

LEMMA TreeDomains ==
    /\ \A things : DOMAIN Owned(things) = things /\ Right(Owned(things))
    /\ \A tree : DOMAIN GivenAway(tree) = DOMAIN tree
    /\ \A tree, pkgs : /\ DOMAIN With(tree, pkgs) = DOMAIN tree \cup pkgs
                       /\ Right(tree) => Right(With(tree, pkgs))
  BY DEF Owned, Right, GivenAway, With

LEMMA ImageInit == Init => ImageInv
  BY DEF Init, ImageInv, Filled, Kept

LEMMA PrepareInv ==
    ASSUME ImageInv, CopyToTemp \/ OwnTemp \/ EndPrepare PROVE ImageInv'
  <1>1. CASE CopyToTemp
    BY <1>1, TreeDomains
       DEF ImageInv, Filled, Kept, CopyToTemp, At, Continue
  <1>2. CASE OwnTemp
    <2>1. temp' = Owned(Base) /\ DOMAIN temp' = Base /\ Right(temp')
      BY <1>2, TreeDomains DEF OwnTemp, At, ImageInv, Filled
    <2>2. task = "prepare" /\ task' = "prepare" /\ step' = 3 /\ rootfs' = rootfs
          /\ failures' = failures /\ ~failed'
      BY <1>2 DEF OwnTemp, At, Continue
    <2> QED  BY <2>1, <2>2 DEF ImageInv, Filled, Kept
  <1>3. CASE EndPrepare
    <2>1. task = "prepare" /\ step = 3 /\ task' = "install" /\ step' = 1 /\ ~failed
          /\ temp' = temp /\ failures' = failures /\ failed' = failed
      BY <1>3 DEF EndPrepare, At, EndTask, trees
    <2>2. DOMAIN temp = Base /\ (failures = 0 => Right(temp))
      BY <2>1 DEF ImageInv, Filled, Kept
    <2>3. Right(temp)' = Right(temp)  BY <2>1 DEF Right
    <2> QED  BY <2>1, <2>2, <2>3 DEF ImageInv, Filled, Kept, Packages
  <1> QED  BY <1>1, <1>2, <1>3

LEMMA InstallInv ==
    ASSUME ImageInv, InstallReal \/ InstallExtra PROVE ImageInv'
  <1>1. task = "install" /\ ~failed /\ failed' = failed /\ failures' = failures
    BY DEF InstallReal, InstallExtra, At, Continue, EndTask
  <1>2. /\ Base \subseteq DOMAIN temp /\ DOMAIN temp \subseteq Packages
        /\ failures = 0 => Right(temp)
    BY <1>1 DEF ImageInv, Filled, Kept
  <1>3. CASE InstallReal
    <2>1. temp' = With(temp, Real) /\ task' = "install" /\ step' = 2
      BY <1>3 DEF InstallReal, At, Continue
    <2>2. DOMAIN temp' = DOMAIN temp \cup Real /\ (Right(temp) => Right(temp'))
      BY <2>1, TreeDomains
    <2> QED  BY <1>1, <1>2, <2>1, <2>2 DEF ImageInv, Filled, Kept, Packages
  <1>4. CASE InstallExtra
    <2>1. temp' = With(temp, Extra) /\ task' = "extra" /\ step' = 1 /\ step = 2
      BY <1>4 DEF InstallExtra, At, EndTask
    <2>2. DOMAIN temp' = DOMAIN temp \cup Extra /\ (Right(temp) => Right(temp'))
      BY <2>1, TreeDomains
    <2>3. Base \cup Real \subseteq DOMAIN temp
      BY <1>1, <2>1 DEF ImageInv, Filled
    <2> QED  BY <1>1, <1>2, <2>1, <2>2, <2>3 DEF ImageInv, Filled, Kept, Packages
  <1> QED  BY <1>3, <1>4

LEMMA ExtraInv ==
    ASSUME ImageInv, SkipExtra \/ RunFile \/ RemoveFile \/ EndExtra \/ FileMissing
    PROVE  ImageInv'
  <1>1. task = "extra" /\ failures' = failures /\ temp' = temp
        /\ (task' = "extra" \/ (task' = "restore" /\ step' = 1 /\ ~failed'))
    BY DEF SkipExtra, RunFile, RemoveFile, EndExtra, FileMissing, At, Continue, EndTask, trees
  <1>2. DOMAIN temp = Packages /\ (failures = 0 => Right(temp))
    BY <1>1 DEF ImageInv, Filled, Kept
  <1> QED  BY <1>1, <1>2 DEF ImageInv, Filled, Kept, Right

LEMMA RestoreInv ==
    ASSUME ImageInv,
           DumpPermissions \/ GiveTempAway \/ RemoveRootfs \/ CopyBack \/ EndRestore
    PROVE  ImageInv'
  <1>1. task = "restore" /\ ~failed /\ failed' = failed /\ failures' = failures
        /\ DOMAIN temp = Packages
    BY DEF DumpPermissions, GiveTempAway, RemoveRootfs, CopyBack, EndRestore, At, Continue,
           EndTask, ImageInv, Filled
  <1>2. CASE DumpPermissions
    <2>1. step = 1 /\ task' = task /\ step' = 2 /\ temp' = temp /\ perms' = temp
      BY <1>2 DEF DumpPermissions, At, Continue
    <2>2. failures = 0 => Right(perms')  BY <1>1, <2>1 DEF ImageInv, Kept
    <2> QED  BY <1>1, <2>1, <2>2 DEF ImageInv, Filled, Kept
  <1>3. CASE GiveTempAway \/ RemoveRootfs \/ CopyBack
    <2>1. step \in 2 .. 4 /\ task' = task /\ step' = step + 1 /\ perms' = perms
      BY <1>3 DEF GiveTempAway, RemoveRootfs, CopyBack, At, Continue
    <2>2. DOMAIN temp' = Packages  BY <1>1, <1>3, TreeDomains
      DEF GiveTempAway, RemoveRootfs, CopyBack
    <2>3. step' = 5 => DOMAIN rootfs' = Packages
      BY <1>1, <1>3, <2>1 DEF GiveTempAway, RemoveRootfs, CopyBack, At
    <2>4. failures = 0 => Right(perms') /\ DOMAIN perms' = Packages
      BY <1>1, <2>1 DEF ImageInv, Kept
    <2> QED  BY <1>1, <2>1, <2>2, <2>3, <2>4 DEF ImageInv, Filled, Kept
  <1>4. CASE EndRestore
    <2>1. step = 5 /\ task' = "image"
          /\ rootfs' = [t \in DOMAIN rootfs |-> IF t \in DOMAIN perms THEN perms[t] ELSE rootfs[t]]
      BY <1>4 DEF EndRestore, At, EndTask
    <2>2. DOMAIN rootfs' = Packages  BY <1>1, <2>1 DEF ImageInv, Filled
    <2>3. failures = 0 => Right(rootfs')
      BY <1>1, <2>1, <2>2 DEF ImageInv, Kept, Right
    <2> QED  BY <1>1, <2>1, <2>2, <2>3 DEF ImageInv, Filled, Kept
  <1> QED  BY <1>2, <1>3, <1>4

LEMMA FailsInv == ASSUME ImageInv, NEW kill \in BOOLEAN, Fails(kill) PROVE ImageInv'
  <1>1. PICK done \in SUBSET Unpacking :
          temp' = IF ~kill /\ (task = "install" \/ At("prepare", 3))
                  THEN GivenAway(With(temp, done)) ELSE With(temp, done)
    BY DEF Fails
  <1>2. task' = task /\ step' = step /\ failures' = failures + 1 /\ task # "image"
    BY DEF Fails
  <1>3. DOMAIN temp' = DOMAIN temp \cup done  BY <1>1, TreeDomains
  <1>4. task = "install" \/ done = {}  BY DEF Unpacking, At
  <1>5. done \subseteq Real \/ done \subseteq Extra  BY DEF Unpacking
  <1>6. rootfs' = rootfs \/ (task = "restore" /\ step \in {3, 4})  BY DEF Fails
  <1>7. failures' \in Nat /\ failures' # 0  BY <1>2 DEF ImageInv
  <1>8. Filled'
    BY <1>2, <1>3, <1>4, <1>5, <1>6 DEF ImageInv, Filled, Packages
  <1> QED  BY <1>7, <1>8 DEF ImageInv, Kept

LEMMA AgainInv == ASSUME ImageInv, Rerun \/ Clean PROVE ImageInv'
  <1>1. CASE Rerun
    <2>1. failed /\ task' = task /\ step' = 1 /\ ~failed' /\ failures' = failures
          /\ rootfs' = rootfs /\ temp' = temp /\ perms' = perms
      BY <1>1 DEF Rerun, trees
    <2>2. failures = 0 => task = "extra" /\ Right(temp)
      BY <2>1 DEF ImageInv, Kept
    <2>3. Right(temp)' = Right(temp)  BY <2>1 DEF Right
    <2> QED  BY <2>1, <2>2, <2>3 DEF ImageInv, Filled, Kept
  <1>2. CASE Clean
    BY <1>2 DEF Clean, ImageInv, Filled, Kept
  <1> QED  BY <1>1, <1>2

LEMMA ImageNext == ImageInv /\ [Next]_vars => ImageInv'
  <1> SUFFICES ASSUME ImageInv, [Next]_vars PROVE ImageInv'  OBVIOUS
  <1>1. CASE UNCHANGED vars
    BY <1>1 DEF vars, ImageInv, Filled, Kept, Right
  <1>2. CASE Next
    BY <1>2, PrepareInv, InstallInv, ExtraInv, RestoreInv, FailsInv, AgainInv DEF Next
  <1> QED  BY <1>1, <1>2

LEMMA ImageInvariant == Spec => []ImageInv
  BY ImageInit, ImageNext, PTL DEF Spec

(***************************************************************************)
(* The tasks of image-oebridge.bbclass: do_image finds every package in    *)
(* the rootfs, whatever failed, was killed, was run again or cleaned.      *)
(***************************************************************************)
THEOREM OebridgeImageComplete == Spec => []ImageComplete
  <1>1. ImageInv => ImageComplete  BY DEF ImageInv, Filled, ImageComplete
  <1> QED  BY <1>1, ImageInvariant, PTL

(***************************************************************************)
(* getfacl and setfacl bring the owners back into the image, as long as no *)
(* task has to be run again.                                               *)
(***************************************************************************)
THEOREM OebridgePermissionsKept == Spec => []PermissionsKept
  <1>1. ImageInv => PermissionsKept
    BY DEF ImageInv, Kept, Right, PermissionsKept, PermissionsRestored
  <1> QED  BY <1>1, ImageInvariant, PTL
=============================================================================
