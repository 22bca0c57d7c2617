--------------------------- MODULE OebridgeImage ---------------------------
(***************************************************************************)
(* The tasks of image-oebridge.bbclass between do_rootfs and do_image:     *)
(* the rootfs is copied to temp/rootfs, packages of the openEuler server   *)
(* are installed there by dnf in a chroot, the extra files of the image    *)
(* are run, and the result is copied back.  The copy is made without       *)
(* pseudo, so owners and modes travel beside it in a dump of getfacl.      *)
(*                                                                         *)
(* Any step may fail, or the build be killed; the next build runs the task *)
(* that did not end again, from its first step, on what it left.           *)
(***************************************************************************)
EXTENDS Naturals, Sequences

CONSTANTS Base,         \* what do_rootfs and host-side dnf put into the image
          Real, Extra,  \* the packages of :real and :extra
          MaxFailures   \* failures and kills that are explored

VARIABLES
    task,       \* the task that runs
    step,       \* its next step
    failed,     \* it has failed
    rootfs,     \* IMAGE_ROOTFS: who owns each of the things that are in it
    temp,       \* temp/rootfs
    perms,      \* rootfs_permission, for the copy back
    files,      \* extra files still in temp/rootfs
    ran,        \* extra files run to their end
    failures

vars == <<task, step, failed, rootfs, temp, perms, files, ran, failures>>
trees == <<rootfs, temp, perms>>
extras == <<files, ran>>

Packages == Base \cup Real \cup Extra

\* The names OEBRIDGE_EXTRA_*FILE_PATH gives, in the order they are run.
Files == <<"pre_hostenv", "extra", "post_hostenv">>

Owned(things) == [t \in things |-> "package"]

\* chown -R to the owner of temp, the build user
GivenAway(tree) == [t \in DOMAIN tree |-> "builder"]

\* What dnf has unpacked is owned as its package says.
With(tree, pkgs) == [t \in DOMAIN tree \cup pkgs |-> IF t \in DOMAIN tree THEN tree[t] ELSE "package"]

Init ==
    /\ task = "prepare" /\ step = 1 /\ failed = FALSE
    /\ rootfs = Owned(Base) /\ temp = <<>> /\ perms = <<>>
    /\ files = {} /\ ran = {} /\ failures = 0

At(t, s) == task = t /\ step = s /\ ~failed

Continue == step' = step + 1 /\ UNCHANGED <<task, failed, failures>>

EndTask(next) == task' = next /\ step' = 1 /\ UNCHANGED <<failed, failures>>

-----------------------------------------------------------------------------
(* do_dnf_rootfs_prepare *)

\* rm -rf temp/rootfs, then cp -rfP rootfs temp/, the extra files with it.
CopyToTemp ==
    /\ At("prepare", 1)
    /\ temp' = GivenAway(rootfs)
    /\ files' = {Files[i] : i \in DOMAIN Files}
    /\ Continue
    /\ UNCHANGED <<rootfs, perms, ran>>

\* getfacl of rootfs, setfacl on temp/rootfs
OwnTemp ==
    /\ At("prepare", 2)
    /\ temp' = rootfs
    /\ Continue
    /\ UNCHANGED <<rootfs, perms, extras>>

\* dnf-plugins-core is installed: the chroot works.
EndPrepare ==
    /\ At("prepare", 3)
    /\ EndTask("install")
    /\ UNCHANGED <<trees, extras>>

-----------------------------------------------------------------------------
(* do_dnf_install_pkg *)

InstallReal ==
    /\ At("install", 1)
    /\ temp' = With(temp, Real)
    /\ Continue
    /\ UNCHANGED <<rootfs, perms, extras>>

InstallExtra ==
    /\ At("install", 2)
    /\ temp' = With(temp, Extra)
    /\ EndTask("extra")
    /\ UNCHANGED <<rootfs, perms, extras>>

-----------------------------------------------------------------------------
(* do_dnf_run_extra *)

\* Whether any of them is run hangs on the one in the middle.
SkipExtra ==
    /\ At("extra", 1) /\ "extra" \notin files
    /\ step' = 7
    /\ UNCHANGED <<task, failed, failures, trees, extras>>

\* The file is run; removing it is the next step.
RunFile ==
    /\ task = "extra" /\ step \in {1, 3, 5} /\ ~failed
    /\ step = 1 => "extra" \in files
    /\ LET f == Files[(step + 1) \div 2]
       IN  f \in files /\ ran' = ran \cup {f}
    /\ Continue
    /\ UNCHANGED <<trees, files>>

RemoveFile ==
    /\ task = "extra" /\ step \in {2, 4, 6} /\ ~failed
    /\ files' = files \ {Files[step \div 2]}
    /\ Continue
    /\ UNCHANGED <<trees, ran>>

\* pip3 install
EndExtra ==
    /\ At("extra", 7)
    /\ EndTask("restore")
    /\ UNCHANGED <<trees, extras>>

-----------------------------------------------------------------------------
(* do_dnf_rootfs_restore *)

DumpPermissions ==
    /\ At("restore", 1)
    /\ perms' = temp
    /\ Continue
    /\ UNCHANGED <<rootfs, temp, extras>>

\* chown -R to the build user and chmod -R 777
GiveTempAway ==
    /\ At("restore", 2)
    /\ temp' = GivenAway(temp)
    /\ Continue
    /\ UNCHANGED <<rootfs, perms, extras>>

RemoveRootfs ==
    /\ At("restore", 3)
    /\ rootfs' = <<>>
    /\ Continue
    /\ UNCHANGED <<temp, perms, extras>>

CopyBack ==
    /\ At("restore", 4)
    /\ rootfs' = temp
    /\ Continue
    /\ UNCHANGED <<temp, perms, extras>>

\* setfacl --restore
EndRestore ==
    /\ At("restore", 5)
    /\ rootfs' = [t \in DOMAIN rootfs |-> IF t \in DOMAIN perms THEN perms[t] ELSE rootfs[t]]
    /\ EndTask("image")
    /\ UNCHANGED <<temp, perms, extras>>

-----------------------------------------------------------------------------
(* What a step that is cut short has done, and whether its task tidies up. *)

Unpacking == IF At("install", 1) THEN Real ELSE IF At("install", 2) THEN Extra ELSE {}

\* except Exception: restore_temp_rootfs_owner, in install and at the end of
\* prepare.  A kill does not get there.
Fails(kill) ==
    /\ ~failed /\ task # "image" /\ failures < MaxFailures
    /\ failed' = TRUE /\ failures' = failures + 1
    /\ \E done \in SUBSET Unpacking :
         temp' = IF ~kill /\ (task = "install" \/ At("prepare", 3))
                 THEN GivenAway(With(temp, done)) ELSE With(temp, done)
    /\ \/ UNCHANGED rootfs
       \/ \* rm or cp stopped on the way
          /\ task = "restore" /\ step \in {3, 4}
          /\ \E some \in SUBSET DOMAIN temp : rootfs' = [p \in some |-> "builder"]
    /\ UNCHANGED <<task, step, perms, extras>>

\* bash of a file that is not there any more
FileMissing ==
    /\ task = "extra" /\ step \in {1, 3, 5} /\ ~failed
    /\ step = 1 => "extra" \in files
    /\ Files[(step + 1) \div 2] \notin files
    /\ failed' = TRUE
    /\ UNCHANGED <<task, step, trees, extras, failures>>

\* The next build runs the task again.
Rerun ==
    /\ failed
    /\ failed' = FALSE /\ step' = 1
    /\ UNCHANGED <<task, trees, extras, failures>>

\* do_oebridge_clean, do_clean, and a new do_rootfs
Clean ==
    /\ failed
    /\ task' = "prepare" /\ step' = 1 /\ failed' = FALSE
    /\ rootfs' = Owned(Base) /\ temp' = <<>> /\ perms' = <<>>
    /\ files' = {} /\ ran' = {}
    /\ UNCHANGED failures

Next ==
    \/ CopyToTemp \/ OwnTemp \/ EndPrepare
    \/ InstallReal \/ InstallExtra
    \/ SkipExtra \/ RunFile \/ RemoveFile \/ EndExtra
    \/ DumpPermissions \/ GiveTempAway \/ RemoveRootfs \/ CopyBack \/ EndRestore
    \/ \E kill \in BOOLEAN : Fails(kill)
    \/ FileMissing \/ Rerun \/ Clean

Spec == Init /\ [][Next]_vars

-----------------------------------------------------------------------------
TypeOK ==
    /\ task \in {"prepare", "install", "extra", "restore", "image"} /\ step \in 1 .. 7
    /\ failed \in BOOLEAN /\ failures \in 0 .. MaxFailures
    /\ \A tree \in {rootfs, temp, perms} :
         /\ tree = [t \in DOMAIN tree |-> tree[t]] /\ DOMAIN tree \subseteq Packages
         /\ \A t \in DOMAIN tree : tree[t] \in {"package", "builder"}
    /\ files \subseteq {Files[i] : i \in DOMAIN Files}
    /\ ran \subseteq {Files[i] : i \in DOMAIN Files}

\* do_image finds every package, however often the tasks had to be run.
ImageComplete == task = "image" => DOMAIN rootfs = Packages

(***************************************************************************)
(* getfacl and setfacl "snapshot and restore rootfs ACLs" (the comment of  *)
(* DEPENDS): in the image, things are owned as their packages say.         *)
(***************************************************************************)
PermissionsRestored ==
    task = "image" => \A t \in DOMAIN rootfs : rootfs[t] = "package"

\* Where no step has failed, they are.
PermissionsKept == failures = 0 => PermissionsRestored

\* Every extra file has run, if do_dnf_run_extra was never run again.
ExtraFilesRan ==
    task \in {"restore", "image"} /\ failures = 0 => ran = {Files[i] : i \in DOMAIN Files}
=============================================================================
