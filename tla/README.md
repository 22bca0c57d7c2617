# Verification of yocto-meta-openeuler

TLA+ models of the programs of this repository whose steps depend on each
other - through state other actors can see, a crash can leave behind, or a long
sequence of calls builds up - the TLC runs that check them on small instances,
and TLAPS proofs of what matters most for every instance.

Most of the repository is data: recipes, patches, configuration. The logic of
its own is in the bbclasses that run inside bitbake tasks, in Python tools that
sign images, generate recipes and talk to boards, in scripts that run on the
target, in the CI pipelines and in a few C programs. This file takes the
inventory of them, says which module models which part, what is checked and
proved, and what comes next.

## Inventory

### A. Shared source checkouts - `meta-openeuler/classes/openeuler.bbclass`

*State.* One git checkout per source repository under
`${OPENEULER_SP_DIR}/openeuler/<repo>`: object store, HEAD, working tree, the
lock files of git, and `<repo>/file.lock`. `manifest.yaml`, which pins a version
per repository. bitbake's stamps, keyed by each recipe's SRCREV.

*Operations.* `parse_manifest` reads the manifest once per bitbake session.
`src_uri_set` sets each recipe's SRCREV from the entry of
`OPENEULER_LOCAL_NAME` and gives `do_unpack` the lock files of all repositories
in `OPENEULER_REPO_NAMES`, sorted. `do_openeuler_fetch` (prepended to
`do_fetch`) runs `download_repo` for each repository, under its lock: copy from
`CACHE_SRC_DIR` if the directory is empty, `git init`, the remote, fetch the
commit if missing, check out unless HEAD is at the version, download LFS files,
give the lock back. `do_unpack` copies the checkouts. `do_openeuler_clean`
removes a lock file.

*Interaction.* Recipes and whole builds share the directories; only the flocks
serialize them. The lock is given back between `do_fetch` and `do_unpack`.

*Hard.* Copying a tree another recipe rewrites; taking several locks; reruns
that decide on HEAD alone after a crash; a manifest that moves; unlinking a lock
file somebody holds.

*Correct when* a recipe that is done has one whole state of each repository, of
the version its SRCREV names; rewrites never meet readers; nobody waits forever.

### B. The oee_archive repository - `oee-archive.bbclass`

*State.* One checkout for all recipes and builds, with `lfs.fetchexclude` in its
configuration, git's `*.lock` files, and `oee_archive.lock` beside it.
*Operations.* `do_download_oee_archive`: init, remote, `fetchexclude = *`, fetch
and checkout, restore `fetchexclude` in a `finally`, `git lfs pull` of one sub
directory. Every git operation is retried up to five times after all `*.lock`
files are removed. `do_fetch` skips the repository; `do_unpack` copies a sub
directory.
*Hard.* Removing locks of a live git; crashes that leave locks and
`fetchexclude`; a checkout of another build's version during a copy; the task's
stamp, which does not follow the manifest.
*Correct when* a download that succeeds delivers the files of its version,
leftovers of a crash do not fail the next download, and what is unpacked is
what the manifest pins.

### C. Package name map - `openeuler_source.bbclass`

Looks up `maplist.yaml` at parse time and sets PV, OPENEULER_LOCAL_NAME and
SRC_URI. No state. Not modelled: its result is the constant `LocalName`.

### D. OEBridge - `oebridge.bbclass`, `oebridge-common.bbclass`, `image-oebridge.bbclass`

*State.* `rootfs` and `temp/rootfs` of an image, who owns what in them, a dump of
the permissions, extra files to run once; and a registry file of
assumed-provided packages that concurrent `do_download_oepkg` tasks edit with
`sed -i` and append to. *Operations.* `do_dnf_rootfs_prepare`,
`do_dnf_install_pkg`, `do_dnf_run_extra`, `do_dnf_rootfs_restore` between
`do_rootfs` and `do_image`: copy the rootfs, install with `dnf` in a chroot, run
the extra files, dump the permissions, copy back, restore them. *Hard.* Failures,
kills and reruns in the middle of a task that changes the owners of everything.
*Correct when* the image holds every package, owned as the package says.

### E. CI pipelines - `.oebuild/workflows`

A gate deals images out to parallel agents (`split_build`); a CI job replaces
the shared sstate cache while gates read it. *Correct when* every image is built
exactly once and a gate reads one sstate cache.

### F. Volatile files at boot - `populate-openeuler-volatile.sh`

Creates volatile files and directories from configuration, some creations in
the background, and writes a cache script that replays them at the next boot.
*Hard.* Order of background work; a boot interrupted while the cache is written.
*Correct when* the replay has the same result as the configuration.

### G. Automounter - `udev-extraconf/mount.sh`

One shell per udev event, concurrent, sharing `/proc/mounts`, `/run/media` and
marks in `/tmp`. *Correct when*, with events settled, exactly the devices
present are mounted.

### H. First boot - `init_resize.sh`, `init_once.sh`

One-time steps that remove their own trigger. *Hard.* Power cuts between steps.
*Correct when* the next boot finishes or repeats what was cut.

### I. Drivers and middleware

`i2c_soft.c`: transfers against driver removal. `softbus_client_main.c`: session
callbacks against the main thread.

### J. Image signing tool - `3591rc/signtool` of meta-hisilicon

*State.* One output file, built up by ten or more functions that each seek and
write; options that shift where the headers, the image, the certificates, the
signed tail, the hash tree, the address and the magic number go.
*Operations.* `esbc_header.py` puts a header to the image; `image_pack.py` calls
the functions of one of three platforms (`hi1910`, `ascend610`, `as31xm1` =
`hi1111A`) in one of two orders; `enc_img.py` encrypts a finished image.
*Hard.* Hashes that must be of the final header, lengths that must be final,
pieces that overlap for some combination of options, fields of 32 bits.
*Correct when* the boot loader finds every piece whole where the headers say.

### K. SM3 and SM4 - `signtool/image_pack/hi_platform/gm`

*State.* `SM3_Update` keeps a buffer, how much of it is filled and a length of two
words between calls; `sm4_cbc_op` chains blocks. *Hard.* Block boundaries, where
the length no longer fits, carries, buffers used again. *Correct when* the digest
does not depend on how the data is cut and decryption recovers the image.

### L. Go module recipe generator - `scripts/oe-go-mod-autogen.py`

*State.* Caches on disk (`repos/<basename>`, `wget-contents`), tables built line by
line of `go.mod`, three generated files. *Operations.* Check out the repository,
read `go.mod`, ask for the repository of each module (and of its prefixes), clone
or fetch it, find the revision and subpath, write `src_uri.inc`,
`relocation.inc` and `modules.txt`. *Hard.* Repositories of one basename share a
directory; lookups that fail; runs that are interrupted, or repeated after
upstream has moved; modules nested in modules. *Correct when* every SRCREV is the
revision `go.mod` means, and unpacking and relocating lose no module.

### M. Serial console - `.agents/skills/serial-ssh-debug/scripts/serial_console.py`

*State.* What was read so far, the try of the login. The board has a state of its
own. *Operations.* drain, look for a prompt, log in in up to three tries, type
commands. *Hard.* Answers that come in pieces, after the timeout, or contain what
the next wait looks for. *Correct when* the commands run, in the shell and in
order, the password goes to its prompt, and the script ends.

## Modules

| module | models | role |
|---|---|---|
| `SourceFetch` | A | the tasks, locks, checkouts, faults, manifest |
| `SourcePool` | A | abstract specification: one atomic delivery per recipe |
| `SourceFetchPool` | A | the refinement mapping and the inductive invariants |
| `SourceFetch_proofs` | A | types, locks, mutual exclusion, the inductive invariant, and the refinement |
| `MCSourceFetch` | A | instance for TLC |
| `OeeArchive`, `MCOeeArchive` | B | the shared archive, and its instance for TLC |
| `OeeArchive_proofs` | B | all its safety properties |
| `OebridgeImage`, `MCOebridgeImage` | D | the dnf tasks with failures and reruns |
| `OebridgeImage_proofs` | D | completeness, and permissions of builds without failure |
| `ImageFile` | J | a file as pieces: seek, write, hash, read |
| `PlatformAscend610`, `PlatformHi1111A`, `PlatformHi1910` | J | one platform each: every writing function as an operator on a file |
| `ImagePack`, `MCImagePack` | J | the three tools, calling the platforms; instance for TLC |
| `ImagePack_proofs` | J | all its safety properties |
| `Sm3`, `Sm4`, `MCGm` | K | digest and cipher; `MCGm` composes them (key first, then image) |
| `Sm3_proofs`, `Sm4_proofs` | K | the digest of every message the standard is about, decryption |
| `GoModAutogen`, `MCGoModAutogen` | L | the generator over repeated runs |
| `GoModAutogen_proofs` | L | all its safety properties |
| `SerialConsole`, `MCSerialConsole` | M | script and board |
| `SerialConsole_proofs` | M | all its safety properties |

### SourceFetch and the code

A member of `Recipes` is a recipe of one build; its `pc` stands for its
`do_fetch` and `do_unpack` processes, which bitbake runs one after the other.
Labels `sync` to `unlock` are the stages of `download_repo` in the code's order;
`repos` is the loop of `do_openeuler_fetch`, taken in any order; `unpack` is
`do_unpack` taking its locks, `reading` its copy.

| code | definition |
|---|---|
| `bb.utils.lockfile` / `unlockfile`, process exit | `Lock`, `Unlock`, `ExitUnlocks` |
| `sync_repo_from_cache` | `SyncFromCache`, `SyncCutShort` |
| `init_repo_dir`, remote | `InitRepo` |
| `repo.commit`, `remote.fetch` | `FetchCommit` |
| the HEAD test and `repo.git.checkout` | `AtVersion`, `SkipCheckout`, `BeginCheckout`, `EndCheckout`, `CheckoutFails` |
| `has_lfs`, `lfs_download` | `LfsDownload` |
| `do_unpack[lockfiles]`, the copy | `LockForUnpack`, `BeginUnpack`, `EndUnpack` |
| `SRCREV`, stamps, `BB_BASEHASH_IGNORE_VARS` | `Srcrev`, `FetchStamped`, `Start`, `FetchDone` |
| `manifest.yaml` | `Bump` |
| `do_fetch[file-checksums]` | `FilesChange` |
| `do_openeuler_clean` | `OpeneulerClean` |

A lock is two variables, because unlinking a lock file separates them: `path[r]`
says who has locked the inode the *name* `<r>/file.lock` leads to, `held[t]` what
a process has locked. They agree until `do_openeuler_clean` unlinks the name.

Abstractions. A version is a number, larger is later; `manifest` starts at 1. A
tree is a version, `Empty`, `Pointers` (complete but for LFS files) or `Torn`. A
checkout is `Torn` between its two steps, so a copy that overlaps it sees that.
A copy is the set of states of a tree between its start and its end. The manifest
changes only when no session runs (it is parsed once per session), and all
sessions have the same one. Remotes are one: the comparison of URLs is left out.
After a checkout was cut off over other files, git keeps what it does not have
to rewrite (`patching`). A local `file://` source of a recipe, the only files
`openeuler_get_checksum_file_list` counts, may change while the recipe is at rest;
its `do_fetch` then runs again whatever its stamp says.

### OeeArchive and the code

`pc` runs through the operations given to `_oee_git_retry`: `init`, `exclude`,
`fetch` .. `writing` (fetch and checkout are *one* operation, retried from the
fetch), `restore`, `pull`. `attempt` is the retry counter, `raised` says that the
`finally` runs with an exception under way. Each build has its own manifest.
Three operations that each write `.git/config` (init, sslverify, the remote) are
one step. `fetched` is the stamp of `do_download_oee_archive`; nothing ever
invalidates it, because its hash ignores `MANIFEST_LIST`.

### OebridgeImage and the code

`task` and `step` are the task bitbake runs and its next command. A tree maps what
is in it to its owner, `package` (as its package says) or `builder` (the build
user, after `chown -R` and `chmod -R 777`); modes go with owners. `Fails(kill)` cuts any
step short: dnf after any part of its packages, `rm` and `cp` after any part of the
files; unless it is a kill, the `except` of prepare and install runs
`restore_temp_rootfs_owner`. `Rerun` is the next build: tasks that have ended keep
their stamps, the one that failed starts from its first command. `Clean` is
`do_oebridge_clean` with a new `do_rootfs`.

### ImagePack and the code

`file` is the temporary file `main` writes, as a set of pieces `[f, at, len, val,
over]` (`ImageFile`): what it is, where, and for fields the value, for hashes what
they were taken of. `PutPiece` removes what it overlaps, as writing does, so "whole"
means that nothing was written over it since. `pc` is the next call of `main`; each call
is one action, and the platform's function is an operator from file to file in the
order of its writes. `Raise` has the exceptions: a value that does not fit its
`struct.pack`, a function a platform lacks, a cipher on parts of blocks, a missing
hash tree. `EncImg` is a run of `enc_img.py` on the result. Offsets are the code's.

The properties are about the command lines in `Supported`; what they leave out is
listed below, because the code loses pieces there.

### Sm3, Sm4 and the code

`SM3_compress` and the two substitutions of SM4 are parameters: `hashed` records
what was compressed (two messages have one digest if the same bytes went in), `T`
and `TKey` are any functions. `Absorb` is one turn of the loop of `SM3_Update`,
`KeyRound`, `EncryptRound` and `DecryptRound` one round each. `InitAgain` is the second
digest of `hmac_sm3` in the same buffer. `trace` is a history variable: the state
after each round, which the proof follows backwards. The boot loader is external.

### GoModAutogen and the code

Names, repositories, directories and tags are sequences of parts, so that "prefix of
the module name", "longest end that is a tag" and "below a directory" are what they
are in the code. The upstream world is a constant per generation: tags, branch tip,
commits and their directories; `RunAgain` may move to the next one.
`repos[b]` is a clone: of which URL, with whose tags and commits, at which HEAD, and
whether `check_subpath` is checked out. `probe` walks up the prefixes of a name as
`get_repo_url_rev` does; `Answer` is the chain wget, pkg.go.dev, site mapper.
`LongestTag`, `RepoOf` and `Expected` state what the network would have answered,
independently of the order in which the code asks.

Two names are made of a module by putting another character between its parts: the
cache file, `replace('/', '_')`, and `SRCREV_<name>`, the last part or the last two
with a `-`. Neither is one-to-one, and the characters may occur in a part:
`Underscored` and `Hyphened` cut a part at them, and `Joined` names have the
pieces of all parts. `h/a_sub` and `h/a/sub` have one cache file and thus one
repository, that of the first of them, in every run.

`FetchMain` notes the main repository under its own name, which is what a requirement
of that module falls back to. `parse` reads no `go.mod` when there is none, or a
`vendor` directory: in the model, when the clone taken for the main repository is
another one (`Parse`).

### SerialConsole and the code

`pc` is the wait of the host, `out` what `read_until` has read, `wire` what the board has
printed and nobody has read, `typed` what the board has not read. A read takes any
part of `wire`. Every wait may time out at any time; `late` notes a timeout before the
board was silent. The board is external: getty, login, a shell that echoes.

## Runs

| run | instance | shows |
|---|---|---|
| `SourceFetch` | 2 recipes that need both of 2 repositories (one with LFS, one cached), 2 versions, 2 faults (kill, network, rerun, changed local file) | all safety properties and the refinement of `SourcePool` |
| `SourceFetchAdverse` | as the first, 1 fault of any kind | no leaked lock, no circular wait, every task ends, even when copies and checkouts are cut off and lock files in use are removed |
| `SourceFetchCutShort` | as the first, copies and checkouts may be cut off | **violation** of `UnpackCurrent` |
| `SourceFetchClean` | as the first, `do_openeuler_clean` runs, 3 faults | **violation** of `CopyNotTorn` |
| `SourceFetchStale` | as the first | **violation** of `AllCurrent` |
| `OeeArchive` | 2 recipes of one build in one sub directory, 1 of another build, 2 versions, 2 faults | types, downloads deliver, stale locks and nothing else removed, leftovers heal, all end |
| `OeeArchiveBump` | as before, no fault | **violation** of `UnpacksPinned` |
| `OebridgeRetry` | one package of each kind, one failure or kill | **violation** of `PermissionsRestored` |
| `ImagePack` | all options that move something, of all platforms; images of 0x6F0, 0x1234, 0xC010 and 2^32 bytes, two certificate, three tail and two partition sizes | no piece is overwritten, headers lead to the code, hashes and sizes are of the finished file, key material is under the hash |
| `Gm` | messages of up to 18 bytes in up to 3 Updates, twice in one buffer; SM4 of up to 2 blocks and the padding | the digest is that of the padded message, the boot loader recovers the image |
| `GoModAutogen` | `go.mod` files of up to 3 of 12 requires (up to 2 with one of 4 replace parts) and some with the main module or a second name, 10 module names, 7 repositories, 2 generations, 2 runs, 1 fault | every revision is of its repository and, alone in it and in its cache file, of the longest tag; every repository was answered for the name or a look-alike; one `SRCREV_<name>` each; no module is lost, at all, to a later unpack, or to a later relocation |
| `SerialConsole` | 2 commands, 3 tries, root with no, the expected and another password | password, commands, and failed logins; the script ends and the commands all run |

*Bounds.* The first instance is that of `linux-openeuler.inc`: two recipes that
both need `kernel-*` and `src-kernel-*` and take their SRCREV from different ones.
Two tasks that take two locks each are the smallest case of a lock cycle; two
versions give one manifest change per repository, so that every stamp can be
stale; two faults allow a kill and the rerun it needs, or a kill and a network
failure. `MaxFaults` is the only artificial bound on behaviours. The proofs
below do not depend on any of these bounds; those on locks and whole copies
cover a manifest that goes back (`Reverts`), which no run enables. In `OeeArchive`, `rust` changes with
every version and `tools` never does: git rewrites one and leaves the other alone.

In `ImagePack` the four sizes are: less than a certificate with its offset, not
whole cipher blocks, more than the on-chip ROM takes, and 2^32. The last is scaled to
0x200000 together with `Word32`, so that the fields overflow where they would and
everything still lies where it lies. Options a platform does not read keep their
default; `MCOptions` says which. In `Gm` a byte has two bits, a word two
bytes and a block eight: then 18 bytes reach the third block and the second length
word, which real sizes would reach at 2^29 bytes. The cipher has two-bit words and
four rounds; all its properties are about any round function, and proved. In `GoModAutogen`
two repositories of one basename, a module in a subdirectory, a major version
directory, a vanity name that is a prefix of another, a mapped and a Mercurial one are
the cases the code distinguishes; two runs are enough to meet a cache, three requires to
have one line between two of one repository. In `SerialConsole` 3 tries are the
code's. One failure is all `OebridgeRetry` needs.

*Deadlock* is not checked: when everything is done, nothing is left to do. That
nobody is stuck is what `EveryTaskEnds`, `EveryRecipeEnds` and `ExecEnds` say. The
other programs are sequential and end.

*Fairness* is weak fairness of each task's `Step`: the operating system
schedules a running process, and a process blocked on an flock gets it if it
stays free. Nothing makes anybody start a build, rerun it, move a manifest, or
fail. Weak fairness is enough because other tasks can take a lock away from a
waiter only finitely often. `SerialConsole` has weak fairness of the host, of its
timeouts (each wait has a deadline by the clock, so it ends even while the board
keeps printing) and of the board (it reads what was typed, and a command
ends): without the last, `CommandsAllRun` could not be expected of anybody.

## What the runs found

Five statements of the repository that its code does not keep (details in
`PROJECT.json`, "findings"):

1. `sync_repo_from_cache` ignores the return code of rsync; HEAD then vouches
   for a tree that is incomplete (`SourceFetchCutShort`).
2. `do_openeuler_clean` removes a lock file that may be held. The next task locks
   a new file of that name and rewrites the tree `do_unpack` is copying: the trace ends
   with a copy that has files of two states. It takes a recipe that starts again at
   `do_unpack` (killed there, while the manifest moves the repository its SRCREV is
   not of) and one that checks the new version out (`SourceFetchClean`).
3. SRCREV follows one repository; new pins of the others do not take effect
   (`SourceFetchStale`).
4. A new pin of `oee_archive` reruns `do_fetch`, which skips it, and not
   `do_download_oee_archive` (`OeeArchiveBump`).
5. After a failed dnf task the next build dumps the permissions of a tree that was
   given to the build user, and restores those (`OebridgeRetry`).

One more divergence needs no run: `docs/source/infrastructure/manifest/index.rst`
(lines 122-124), `docs/source/infrastructure/openeuler_fetch/index.rst` (line 15)
and the comment at `openeuler.bbclass:200` say that the original `do_fetch` goes
on where `do_openeuler_fetch` fails or the manifest is missing; the code ends the
task with `bb.fatal` (lines 231-235). `SourceFetch` has what the code does.

### What the properties leave out because the code breaks it

The models contain the following behaviours; the properties name each case as an
exception. No line of the repository promises otherwise, so they are no findings.

*Signing tool.* `-S` is honoured in full only by `hi1910` with `--addsoc`: without it
the second header declares 0x4000, `ascend610` writes magic and salt and `as31xm1` the
hash into the image, and `hi1910 -S` without `-D` writes a header behind the size it has
noted. `-D` and `-B` both use 0x1000. With the header behind the image, `--addsoc` writes
certificate and signature into the image, `as31xm1` writes `code_len` (+0x4E0) into
the header after hashing it, and the partition size is never compared with what is
written. A tail longer than 0x7F0 overlaps its neighbour. `as31xm1 -enc` always raises
(`sm3_pbkdf2` returns nothing), `-sm` too (`sm3_cal` is not defined). `enc_img.py` uses
the offsets of `ascend610` for `as31xm1` too, and with sm4 the noted size is a block short.

*SM3, SM4.* `SM3_Update` reduces the low length word modulo 2^64, so several
Updates that pass 2^29 bytes together lose the carry. `sm4_cbc_op` with flag 1 is
not CBC decryption (it chains its own output), and `hmac_sm3` does not hash keys of
more than 64 bytes; the tools use neither case.

*Go modules.* `git branch -D check_subpath` fails while that branch is checked out: the
second module of one repository has no subpath, another tag, or is lost, in the first run
as in every later one. `git fetch <url>` brings no tags, so releases since the clone
are not found in it. The clone of the main repository is taken for the right one
by its HEAD alone. A `)` never ends a `replace (` block, `lstrip` eats leading letters of
one-line directives, sites are sorted by destination and source together, and the
answer for a shorter prefix is cached for good when the longer one timed out.
Two modules replaced by one share its subpath. Of two modules with one cache file the
second is served from the repository of the first (`LookAlike`), and where the last
two parts of one module make a name of another, `SRCREV_<name>` is assigned twice
(`OneSrcrevEach`).

*Serial console.* The echo of a command contains the end mark, so the
next command is typed while it runs (the shell still reads them in order). After
a late answer the password may be typed at the login prompt or in the shell.
Without a password, a `~` or `#` alone ends the wait and the login can fail.

*OEBridge.* `do_dnf_run_extra` removes each extra file once it has run: its rerun
fails at the first one that is missing, or skips all (`FileMissing`, `SkipExtra`).

## Proofs

Everything is proved for arbitrary constants under `SourceFetchAssumption`:
repositories are numbers (the order of the sorted lock files), recipes are not
numbers (a recipe is none of the marks `Absent` and `Stale`), the rest are types.

`SourceFetch_proofs`, with no further assumption - kills, cut off copies, a
manifest going back and `do_openeuler_clean` included:

* `TypeCorrect`: `TypeOK`.
* `LocksWhereExpected`: the strengthening `LockInv` says which locks a task holds
  at each label, and that `do_unpack` holds a lower segment of its sorted locks.
* `NoCircularWait` (`WaitsAscend`): a task waiting in `do_fetch` holds nothing, so
  a holder that waits is in `do_unpack`, wants its least missing lock, and that
  is above all it holds. `NoLockLeaks` (`NoLeakedLock`) follows from it too.

With `~CleanRuns`: `path` names every holder (`MutexInv`), hence
`UnpackIsSerialized` and `TreesChangeUnderLock`.

The second half of the module is about what the trees hold, and needs assumptions
the code does not grant. With `Whole` = no `do_openeuler_clean`, nothing cut off half
way (a task may still be killed between any two steps), and a manifest that goes
anywhere:

* `WholeInductive`: `Spec => []WholeInv`. A copy is whole because a repository
  whose lock is held and that is not being checked out agrees with its HEAD
  (`TreeInv`), and this because of what a download relies on at each label
  (`FetchOK`) and of the locks. `CopiesAreWhole` and `NoNeedlessRewrite` follow.

With `Settling` = `Whole` and a manifest that only moves forward:

* `Inductive`: `Spec => []IInv`. `UnpackCurrent` is far from inductive: that a
  done recipe has the right copy depends on the tree when it was copied, hence on
  the stamp being worth something (`StampOK`: while it is valid, the tree of the
  primary repository is still at its version), hence on other tasks never moving a
  tree away from the manifest. `UnpacksTheCurrent` follows.
* `FetchImplementsPool`: `Spec => Pool!PoolSpec`. `EndUnpack` maps to `Deliver`,
  `Bump` to `Pin`, `FilesChange` to `Withdraw`, every other step to a stutter.

A step is split in what it does to its own task (`OwnFetch`, `OwnStamp`,
`OwnCopyWhole`, `OwnCopy`), to the trees (`TreeInvStep`), and to the other tasks
(`OthersKeep`, `OthersKeepStamp`); `BumpKeepsWhole` and `BumpStep` are the manifest.

These assumptions are needed. Without `~CleanRuns` a copy is torn (run
`SourceFetchClean`), without `~CutShort` it is incomplete (run
`SourceFetchCutShort`). Forward moves are needed for `StampOK`: when a `do_unpack`
fails, another recipe fetches the next version, and the manifest then goes back, the
stamp of `do_fetch` is valid again and the tree is at the other version.

`OeeArchive_proofs`, for any builds, recipes, sub directories and versions:

* `ArchiveBase`: `OwnerInv` (whoever downloads has `oee_archive.lock`), `LiveInv`
  (a running git has its lock file), `HealedInv` (after one retry no lock file is
  left but the operation's own) and `DirsInv` (a sub directory is HEAD's, unless a
  checkout rewrites it or a kill has cut one short). Since the owner is one, a step
  of another task leaves the repository alone (`RepoIsMine`), and each invariant
  needs an argument for the task that moves only. `ArchiveTypeCorrect` and
  `ClearsNoLiveLock` follow. Types need `DirsInv`: a pull writes the contents of
  HEAD's version, which exists because pointers come from a checkout.
* With `MaxRetries > 1` (the code has 5): an operation never gives up on a lock file
  (`NoGivingUp`), so `fetchexclude` is restored before every pull (`ProgressInv`),
  hence `DownloadsDeliver`, `LeftoversHeal` and, with `FirstInv`,
  `OneVersionUnpacked`.

`OebridgeImage_proofs`, for any packages and any number of failures:
`OebridgeImageComplete` (`ImageComplete`) and `OebridgePermissionsKept` - without a failure the
image is owned as it should be. The invariant `ImageInv` says what `temp` and `rootfs`
hold at each step (`Filled`), and that owners are right where nothing has failed,
between the dump and its restoration in the dump (`Kept`).

`Sm3_proofs`, for any block larger than the length field, any widths and inputs:
`Sm3AbsorbsInOrder` (`AbsorbedInOrder`) from `Sm3Inv`, which adds types and that
nothing is left between Updates; and `Sm3DigestOfPadded` (`DigestOfPadded`), which is two
facts. Over several Updates, `Counting`: the length words are the bit length while it
fits one word. In one Update, whose carry is exact, the two words are the bit length
of every message the standard defines a digest of (`StandardLength`: less than 2^64 bits).
Both ways to close a message (`FinalShape`) then give the padding of the standard.
`PowersPositive` and `PowersMultiply` are the facts of arithmetic assumed, for the few
exponents the module names (and evaluated by TLC): powers of two are positive, and
2^(a+b) is the product of 2^a and 2^b.

`Sm4_proofs`, for any group of words, substitutions, constants, number of rounds
divisible by four, keys, initial vectors and images: `Sm4RecoversImage`
(`Recovered`). `Encrypted` describes `trace` as the run of rounds from the chained block
to the cipher block; `Mirrored` says that decryption is at the mirror image of the state
encryption had as many rounds before its end. A round changes one
word by the other three, so the same round key on the reversed word order undoes it,
because the exclusive or with a word is its own inverse.

`SerialConsole_proofs`, for any commands, accounts and number of tries: `CmdsMarked` says
that a command is none of the three lines of the login, because the script types it
behind `echo ===BEGIN===;`.

* `SerialCommandsOnlyInShell` (`CommandsOnlyInShell`) holds with every timeout early or
  late, so the argument is about tokens and not about time: `ShellInv` says that
  whenever the stream (`out` and `wire` together) holds a shell prompt or the host is
  past one, the board is in the shell, and that what is typed, running and run is a
  beginning of the commands (`Ordered`). That a prompt of two tokens may be cut anywhere is
  `HoldsAt`, `Cut` and `PromptAt`.
* `SerialPasswordOnlyAtPrompt` and `SerialLoginFailsOnlyLate` need `Timely`: while no timeout
  has come before its answer, the board is where the wait of the host supposes, wait
  by wait (`LoginPlace`). One lemma per wait says what its return leads to
  (`ReturnNaming`, ..), one what the board prints in it (`ReadsNaming`, ..).

`GoModAutogen_proofs`, for any `go.mod` files, repositories, generations of them, and numbers
of runs and faults. Assumed: types (`WorldTyped`, `WidthTyped`), that a repository loses no
commit (`HistoryGrows`; a fetched clone may have the tags of one generation and the
commits of another), that an empty answer is no repository (`UrlNamed`), and
that `go.mod` requires a module once (`RequiredOnce`; the go command writes no other).

* `GInv` is what every run keeps, interrupted, repeated or unanswered: a clone is of one URL
  and has the commits of a generation up to the one that is served (`Clones`), the tables
  only have modules of lines before this one, each in the tree of its repository
  (`Tables`). `GoModTypeOK`, `GoModRevisionOfItsRepo` and `GoModSubpathInTree` follow.
  That the checkout never moves to a URL of the same basename is `FetchModuleIs`.
* `GoModRevisionOfLongestTag` is about the first run while all requests are answered,
  and a module that shares neither its repository nor its cache file with another line
  (`Alone`): the code serves two look-alikes from one repository, in whatever order
  they come. `LInv` adds `Probing` (each longer beginning of the name was asked for in vain), `Answers`
  (what is cached in a file is what the network says for one of the modules it serves) and `CheckedOut` (where `check_subpath` is checked
  out, an earlier line was found). The walk of the code over the ends of a tag, first
  hit wins, is then the longest of them (`HitIsLongest`).
* `GoModUnpackedTogether` and `GoModVendoredTogether`: `FInv` says that each required
  module is noted once (`Once`), that the files are sorted and have every entry (`Written`).
  `SortSeq` cannot be expanded, so `SortedIs` shows that what it chooses exists, by
  insertion into a shorter list (`OneMoreInOrder`); the order is by number of characters, which
  a proper prefix has fewer of (`PrefixIs`).
* `GoModLostOnlyByFault`: `KInv` adds that what can be resolved is noted once its
  line is handled (`Kept`), and that a shorter name is asked for only by a module the site
  mapper has nothing against (`Unreasoned`).

The recursive functions over `go.mod`, names and lists are unfolded one step at a time;
that they are defined at every length is shown by the least length at which they
would not be (`EveryFileIsRead`, `EveryPathIsCounted`, `EveryListIsUnpacked`).

`ImagePack_proofs`, for every command line and any sizes of image, certificate, signature,
tail, hash tree and partition. Assumed: `SizesFit` (the certificate fits between its
offset and that of the signature, and so on), and `Megabytes`, that a partition has at
least one; the address field is at the end of it.

* `Wrote` is all that is known of a write: pieces apart from it stay, and what is new lies
  inside it. From it follow, platform by platform, what each call of `main` puts where.
* `ImagePackTypeOK` (`TypeOK`) holds for all command lines (`Grown`: what is written stays
  within the file). The others are about the command lines the properties name: `Fits` and
  `FitsHi1910` say which those are.
* None of the five is inductive: each speaks of the finished file. `IInv` adds, per value
  of `pc`, the pieces that are written and whole by then (`Facts`, `Facts1910`) and what
  a call that was not taken, or raised, has made impossible (`Flow`). A hash stays
  fresh only because no later write lies across the end of what it covers, so `HeadBoxed`
  says that no piece does. `ImagePackInductive` is `Spec => []IInv`, with one lemma per
  call of `main` and family of platforms; `EncDone` is what `enc_img.py` leaves.

With that every invariant of a passing run has a theorem but `UrlAnswered` and
`OneSrcrevEach` of `GoModAutogen`.

*Only model-checked*: these two; liveness under fairness (`EveryTaskEnds`, `EveryRecipeEnds`, `ExecEnds`,
`CommandsAllRun`), which is out of the prover's reach. The violations are traces.

## Not modelled

* *Registry of OEBridge* (`oebridge.bbclass:63-79`): `sed -i` of one task between `open` and
  `write` of another loses its line or brings a removed one back. The lines are
  only used to leave packages out of a dnf run, and nothing states that they are complete.
* *Volatile files*, *automounter*: shell programs of the target; first in the plan.
* *First boot*: each step removes its own trigger before it works, so a power cut
  leaves it undone for good. There is nothing more to it for a model to find.
* *CI pipelines*, *I2C driver*, *soft bus client*: what runs concurrently is decided by
  Jenkins, the kernel and a library that are not in the repository.
* *Commit message rules* (`gitlint`): stateless checks of wording.
* *`autobbappend.py`, `ros2recipe.py`*: text templates; the first is Python 2 and
  does not run with Python 3. `meson-setup.py` and `conf.py`: no state.
* *Other helpers of signtool* (`ini_gen.py`, `file_tail.py`, `nvcnt_padding.py`, `tools.py`): one
  record or digest in a straight line.
* *`mcu_tool.c`, installer scripts, `dtbtool`, `lib/oe/external.py`*: sequential programs over
  files, terminals or serial lines.
* Recipes, patches, configuration and documentation are data.

## Plan

1. `Volatile` (F): background creations and the cache script built from them, with the
   interrupted boot; replaying the cache against the configuration as refinement.
2. `Automount` (G): events of two devices whose names are prefixes of each other, handlers
   as processes that share `/proc/mounts` and the marks in `/tmp`.
3. `SoftI2c` (I): transfers against removal of the driver.
4. Proofs of `UrlAnswered` (over `Parsed`, since cache files outlive a run) and of
   `OneSrcrevEach`.
5. `OepkgRegistry` (D): the edits of the registry against an abstract set.

Abstract specifications worth stating are `SourcePool` (done), the volatile files the
configuration asks for, and the set of mounted devices.
