---------------------------- MODULE GoModAutogen ----------------------------
(***************************************************************************)
(* scripts/oe-go-mod-autogen.py: from the go.mod of a repository to the    *)
(* src_uri.inc, relocation.inc and modules.txt of a recipe.  Its caches in *)
(* the work directory (repos/<basename>, and wget-contents/<module>, where *)
(* every "/" of the module is a "_") outlive a run; a run may fail to      *)
(* reach the network, be interrupted and be started again after the        *)
(* repositories have moved on.                                             *)
(*                                                                         *)
(* Module names, repositories and directories are sequences of parts.      *)
(***************************************************************************)
EXTENDS Integers, SequencesExt

CONSTANTS
    MainUrl, MainRev,   \* --repo, --rev
    GoMods,             \* the go.mod files: sequences of lines
    Up,                 \* Up[g][url]: the tags, tip and commits of generation g
    Dirs,               \* the directories of a commit
    GoImport,           \* what https://<name>?go-get=1 says of a name
    PkgGoDev,           \* the repository https://pkg.go.dev/<name> shows
    Major,              \* the major version of a version
    Commits,            \* the versions that are a revision, of 12 digits
    Width,              \* characters of a part
    LstripRequire, LstripReplace,  \* str.lstrip of a part
    Underscored, Hyphened,  \* what "_" and "-" separate in a part
    MaxRuns, MaxFaults

None == <<>>

Generations == DOMAIN Up
Urls == UNION {DOMAIN Up[g] : g \in Generations}
Base(url) == Last(url)
Absent == [origin |-> None, tags |-> 0, have |-> 0, head |-> "none", check |-> FALSE]

Parts == DOMAIN Width
Revs == DOMAIN Major \cup {"none"}

\* A line of go.mod: "require (" has no module, a local directory no version.
Line == [k : STRING, m : Seq(Parts), rev : Revs, to : Seq(Parts)]

ASSUME WorldTyped ==
    /\ MaxRuns \in Nat \ {0} /\ MaxFaults \in Nat
    /\ Generations = 1 .. Len(Up) /\ Len(Up) \in Nat \ {0}
    /\ MainUrl \in Urls
    /\ \A g \in Generations : MainUrl \in DOMAIN Up[g]
    /\ \A g \in Generations : \A u \in DOMAIN Up[g] :
         /\ Up[g][u].tip \in Up[g][u].commits
         /\ \A t \in DOMAIN Up[g][u].tags : Up[g][u].tags[t] \in Up[g][u].commits
         /\ "none" \notin Up[g][u].commits
    /\ LstripRequire \in [Parts -> Parts] /\ LstripReplace \in [Parts -> Parts]

ASSUME WidthTyped == Width \in [Parts -> Nat]

ASSUME SplitTyped ==
    /\ Underscored \in [Parts -> Seq(STRING)]
    /\ Hyphened \in [Parts -> Seq(STRING)]

\* An empty answer is no repository.
ASSUME UrlNamed == None \notin Urls

\* A repository loses no commit: what a clone has, its origin has.
ASSUME HistoryGrows ==
    \A g, h \in Generations : g <= h =>
      \A u \in DOMAIN Up[g] \cap DOMAIN Up[h] : Up[g][u].commits \subseteq Up[h][u].commits

-----------------------------------------------------------------------------
(* parse_go_mod: the lines of go.mod *)

\* A line that starts with ")" never reaches the code that would end the
\* replace block.
ParseLine(s, line) ==
    IF line.k = "require (" THEN [s EXCEPT !.inrequire = TRUE]
    ELSE IF line.k = ")" THEN [s EXCEPT !.inrequire = FALSE]
    ELSE IF line.k = "require" \/ s.inrequire
    THEN [s EXCEPT !.require = Append(@, [m |-> line.m, rev |-> line.rev])]
    ELSE IF line.k = "replace (" THEN [s EXCEPT !.inreplace = TRUE]
    ELSE IF line.k = "replace" \/ s.inreplace
    THEN [s EXCEPT !.replace = Append(@, line)]
    ELSE s

\* A one line directive is stripped of every leading character of "require "
\* or "replace ", the first ones of its module among them.
Stripped(line) ==
    IF line.k = "require" THEN [line EXCEPT !.m = <<LstripRequire[@[1]]>> \o Tail(@)]
    ELSE IF line.k = "replace" THEN [line EXCEPT !.m = <<LstripReplace[@[1]]>> \o Tail(@)]
    ELSE line

Reading(mod) ==
    LET after[n \in 0 .. Len(mod)] ==
          IF n = 0
          THEN [inrequire |-> FALSE, inreplace |-> FALSE, require |-> <<>>, replace |-> <<>>]
          ELSE ParseLine(after[n - 1], Stripped(mod[n]))
    IN  after

Parsed(mod) == Reading(mod)[Len(mod)]

\* go.mod requires a module once: modules_require is keyed by its name.
ASSUME RequiredOnce ==
    \A mod \in GoMods :
      /\ mod \in Seq(Line)
      /\ \A n \in DOMAIN mod : mod[n].k \in {"require", "replace"} => mod[n].m # None
      /\ \A i \in DOMAIN Parsed(mod).require :
           /\ Parsed(mod).require[i].m # None
           /\ \A j \in DOMAIN Parsed(mod).require \ {i} :
                Parsed(mod).require[j].m # Parsed(mod).require[i].m

VARIABLES
    pc,         \* what the run does next
    gen,        \* the generation the network serves
    gomod,      \* go.mod of MainUrl at MainRev
    repos,      \* repos/<basename>
    cache,      \* wget-contents/*.repo_url.cache
    runs, faults,
    require, replace,       \* require_lines, replace_lines
    next,       \* the require line being handled
    probe,      \* module_name_to_check
    url,        \* its repo_url
    repoinfo,   \* modules_repoinfo
    subpaths,   \* modules_subpaths
    unhandled,  \* modules_unhandled
    required,   \* modules_require and modules_srcpaths, in order
    srcUri, sites, modulesTxt           \* the files written

disk == <<repos, cache, srcUri, sites, modulesTxt>>
tables == <<repoinfo, subpaths, unhandled, required>>
lines == <<require, replace>>
world == <<gen, gomod, runs>>
vars == <<pc, world, faults, disk, lines, next, probe, url, tables>>

Bases == {Base(u) : u \in Urls}

Init ==
    /\ pc = "main" /\ require = <<>> /\ replace = <<>>
    /\ next = 1 /\ probe = None /\ url = None
    /\ repoinfo = <<>> /\ subpaths = <<>> /\ unhandled = {} /\ required = <<>>
    /\ gen = 1 /\ gomod \in GoMods /\ runs = 1 /\ faults = 0
    /\ repos = [b \in Bases |-> Absent] /\ cache = <<>>
    /\ srcUri = <<>> /\ sites = <<>> /\ modulesTxt = <<>>

\* A request that is not answered; MaxFaults of them are explored.
Answered(up) == \/ up /\ UNCHANGED faults
                \/ ~up /\ faults < MaxFaults /\ faults' = faults + 1

-----------------------------------------------------------------------------
(* fetch_and_checkout_repo *)

Cloned(u) == [origin |-> u, tags |-> gen, have |-> gen,
              head |-> Up[gen][u].tip, check |-> FALSE]

\* git fetch <url> brings the commits of the branch, and no tag.
Fetched(l) == [l EXCEPT !.have = gen]

Tags(l) == Up[l.tags][l.origin].tags

\* A plausible bug: the tags of nested modules are not looked up.
KnownPlain(l, tag) == Len(tag) = 1 /\ tag \in DOMAIN Tags(l)

Known(l, tag) == tag \in DOMAIN Tags(l)

\* The constructor: HEAD, or a clean clone, then checkout -B gomodautogen.
HeadIsRev(l) ==
    /\ l # Absent
    /\ \/ Known(l, <<MainRev>>) /\ Tags(l)[<<MainRev>>] = l.head
       \/ /\ ~Known(l, <<MainRev>>) /\ Known(l, <<Base(MainUrl), MainRev>>)
          /\ Tags(l)[<<Base(MainUrl), MainRev>>] = l.head

\* The revision of the repository itself is noted too.
FetchMain(up) ==
    LET b == Base(MainUrl)
        l == Cloned(MainUrl)
        skip == HeadIsRev(repos[b])
        found == {i \in 1 .. Len(MainUrl) + 1 :
                    Known(l, SubSeq(Append(MainUrl, MainRev), i, Len(MainUrl) + 1))}
        rev == Tags(l)[SubSeq(Append(MainUrl, MainRev), Min(found), Len(MainUrl) + 1)]
    IN  /\ pc = "main"
        /\ skip => up
        /\ Answered(up)
        /\ repos' = [repos EXCEPT ![b] =
                       IF skip THEN @
                       ELSE IF ~up THEN Absent
                       ELSE IF found = {} THEN l
                       ELSE [l EXCEPT !.head = rev]]
        /\ IF skip \/ (up /\ found # {})
           THEN /\ pc' = "parse"
                /\ repoinfo' = [m \in {MainUrl} |-> [url |-> MainUrl, rev |-> repos'[b].head]]
           ELSE pc' = "raised" /\ UNCHANGED repoinfo
        /\ UNCHANGED <<world, cache, srcUri, sites, modulesTxt, lines, next, probe, url,
                       subpaths, unhandled, required>>

\* A plausible bug: a directory of that name is taken for the repository.
CloneIfAbsent(l, u) == l = Absent

\* Without checkout: the directory has the name of another repository's too.
MustClone(l, u) == l = Absent \/ l.origin # u

\* git branch -D check_subpath fails where that branch is checked out, and
\* then checkout -b check_subpath fails too.
SubpathRaises(l) == l.check

\* A plausible bug: the last part is not looked for in the tree.
RequiredCommitLastPart(l, m, rev) ==
    IF rev \notin Up[l.have][l.origin].commits \/ SubpathRaises(l)
    THEN [rev |-> "none", subpath |-> None, moved |-> "none"]
    ELSE [rev |-> rev, moved |-> rev, subpath |-> <<Last(m)>>]

\* get_requiredrev of a revision: where the module is, is guessed from the
\* longest end of its name that is a directory.
RequiredCommit(l, m, rev) ==
    LET ends == {i \in 1 .. Len(m) : SubSeq(m, i, Len(m)) \in Dirs[rev]}
    IN  IF rev \notin Up[l.have][l.origin].commits \/ SubpathRaises(l)
        THEN [rev |-> "none", subpath |-> None, moved |-> "none"]
        ELSE [rev |-> rev, moved |-> rev,
              subpath |-> IF ends = {} THEN None ELSE SubSeq(m, Min(ends), Len(m))]

InitialTag(m, rev) == Append(IF Last(m) = Major[rev] THEN Front(m) ELSE m, rev)

\* The subpath of a tag, with the last part of the name where it is a directory.
SubpathOf(m, rev, tag, commit) ==
    LET dir == Front(tag)
    IN  IF Last(m) = Major[rev] /\ Append(dir, Last(m)) \in Dirs[commit]
        THEN Append(dir, Last(m)) ELSE dir

\* get_requiredrev of a version: the longest end of the initial tag that is
\* a tag and whose subpath can be looked at.
RequiredTag(l, m, rev) ==
    LET tag   == InitialTag(m, rev)
        End(i) == SubSeq(tag, i, Len(tag))
        hits  == {i \in 1 .. Len(tag) : Known(l, End(i)) /\ (i = Len(tag) \/ ~SubpathRaises(l))}
        hit   == End(Min(hits))
        commit == Tags(l)[hit]
        sub   == IF Len(hit) = 1 THEN None ELSE SubpathOf(m, rev, hit, commit)
    IN  IF hits = {} THEN [rev |-> "none", subpath |-> None, moved |-> "none"]
        ELSE [rev     |-> IF sub = None \/ sub \in Dirs[commit] THEN commit ELSE "none",
              subpath |-> IF sub # None /\ sub \in Dirs[commit] THEN sub ELSE None,
              moved   |-> IF Len(hit) = 1 THEN "none" ELSE commit]

RequiredRev(l, m, rev) ==
    IF rev \in Commits THEN RequiredCommit(l, m, rev) ELSE RequiredTag(l, m, rev)

-----------------------------------------------------------------------------
(* parse, parse_go_mod *)

\* A repository with a vendor directory or without a go.mod has no lines.
Parse ==
    /\ pc = "parse"
    /\ IF repos[Base(MainUrl)].origin = MainUrl
       THEN require' = Parsed(gomod).require /\ replace' = Parsed(gomod).replace
       ELSE UNCHANGED lines       \* another repository, here without a go.mod
    /\ pc' = "line"
    /\ UNCHANGED <<world, faults, disk, next, probe, url, tables>>

\* modules_replace: a local directory has no version, and other lines no "=>".
Replacing(m) == {i \in DOMAIN replace : replace[i].m = m /\ replace[i].to # None}

Actual(line) ==
    IF Replacing(line.m) = {} THEN line
    ELSE LET r == replace[Max(Replacing(line.m))] IN [m |-> r.to, rev |-> r.rev]

Current == Actual(require[next])

\* The name with another character between its parts, as its pieces.
Joined(m, Pieces) == FlattenSeq([i \in DOMAIN m |-> Pieces[m[i]]])

\* A plausible bug: the file has the basename of the module.
BasenameFile(m) == <<Last(m)>>

\* wget-contents/<module>.repo_url.cache: h/a_b and h/a/b have one file.
CacheFile(m) == Joined(m, Underscored)

NextLine ==
    /\ pc = "line"
    /\ IF next > Len(require) THEN pc' = "src_uri" /\ UNCHANGED <<probe, url>>
       ELSE IF CacheFile(Current.m) \in DOMAIN cache
       THEN pc' = "fetch" /\ url' = cache[CacheFile(Current.m)] /\ UNCHANGED probe
       ELSE pc' = "probe" /\ probe' = Current.m /\ UNCHANGED url
    /\ UNCHANGED <<world, faults, disk, lines, next, tables>>

-----------------------------------------------------------------------------
(* get_repo_url_rev, use_wget_to_get_repo_url *)

Put(f, k, v) == [x \in DOMAIN f \cup {k} |-> IF x = k THEN v ELSE f[x]]

\* inet.af/x stands for github.com/inetaf/x.
SiteMapper(m) ==
    IF m[1] = "inet.af" /\ Len(m) > 1 THEN <<"github.com", "inetaf">> \o Tail(m) ELSE None

Answer(m, wget, pkg) ==
    IF wget /\ m \in DOMAIN GoImport
    THEN IF GoImport[m].vcs = "git" THEN GoImport[m].url ELSE None
    ELSE IF pkg /\ m \in DOMAIN PkgGoDev THEN PkgGoDev[m]
    ELSE SiteMapper(m)

\* A plausible bug: a name nobody answers for keeps its reason.
LeavesEveryReason(m, wget, pkg) == Answer(m, wget, pkg) = None

\* Another vcs leaves its reason, the mapper an empty one.
LeavesReason(m, wget, pkg) ==
    IF wget /\ m \in DOMAIN GoImport THEN GoImport[m].vcs # "git"
    ELSE ~(pkg /\ m \in DOMAIN PkgGoDev) /\ SiteMapper(m) # None

\* A plausible bug: the next line is skipped.
SkipLine == pc' = "line" /\ next' = next + 2

EndLine == pc' = "line" /\ next' = next + 1

Probe(wget, pkg) ==
    LET m == Current.m
        answer == Answer(probe, wget, pkg)
        reasons == IF LeavesReason(probe, wget, pkg) THEN unhandled \cup {probe}
                   ELSE IF answer # None THEN unhandled
                   ELSE unhandled \ {probe}
    IN  /\ pc = "probe"
        /\ ~wget \/ ~pkg => Answered(FALSE)
        /\ wget /\ pkg => Answered(TRUE)
        /\ \/ /\ answer # None
              /\ url' = answer /\ cache' = Put(cache, CacheFile(m), answer) /\ pc' = "fetch"
              /\ unhandled' = reasons
              /\ UNCHANGED <<probe, next>>
           \/ /\ answer = None
              /\ UNCHANGED <<url, cache>>
              /\ IF m \in reasons THEN EndLine /\ unhandled' = reasons /\ UNCHANGED probe
                 ELSE IF Len(probe) = 1
                 THEN EndLine /\ unhandled' = reasons \cup {m} /\ UNCHANGED probe
                 ELSE probe' = Front(probe) /\ unhandled' = reasons /\ UNCHANGED <<pc, next>>
        /\ UNCHANGED <<world, repos, srcUri, sites, modulesTxt, lines, repoinfo, subpaths, required>>

\* get_url_srcrev, and the rest of the loop of parse_go_mod.  An entry of an
\* earlier line answers for this one when the module could not be fetched.
FetchModule(up) ==
    LET m     == Current.m
        b     == Base(url)
        clone == MustClone(repos[b], url)
        l     == IF clone THEN Cloned(url) ELSE Fetched(repos[b])
        got   == IF ~up THEN [rev |-> "none", subpath |-> None, moved |-> "none"]
                 ELSE RequiredRev(l, m, Current.rev)
        infos == IF got.rev = "none" THEN repoinfo
                 ELSE Put(repoinfo, m, [url |-> url, rev |-> got.rev])
        subs  == IF got.subpath = None THEN subpaths ELSE Put(subpaths, m, got.subpath)
    IN  /\ pc = "fetch"
        /\ IF url \in DOMAIN Up[gen] THEN Answered(up) ELSE ~up /\ UNCHANGED faults
        /\ repos' = [repos EXCEPT ![b] =
                       IF ~up THEN (IF clone THEN Absent ELSE @)
                       ELSE IF got.moved = "none" THEN l
                       ELSE [l EXCEPT !.head = got.moved, !.check = TRUE]]
        /\ repoinfo' = infos /\ subpaths' = subs
        /\ IF m \in DOMAIN infos
           THEN /\ required' = Append(required,
                     [m |-> require[next].m, actual |-> m, rev |-> Current.rev,
                      url |-> infos[m].url, srcrev |-> infos[m].rev,
                      srcpath |-> IF m \in DOMAIN subs THEN m \o subs[m] ELSE m])
                /\ UNCHANGED unhandled
           ELSE required' = required /\ unhandled' = unhandled \cup {m}
        /\ EndLine
        /\ UNCHANGED <<world, cache, srcUri, sites, modulesTxt, lines, probe, url>>

-----------------------------------------------------------------------------
(* The generated files *)

Chars(path) ==
    LET upto[n \in 0 .. Len(path)] ==
          IF n = 0 THEN 0 ELSE upto[n - 1] + Width[path[n]] + 1
    IN  upto[Len(path)]

LastPart(m) == Joined(<<Last(m)>>, Hyphened)
LastTwoParts(m) == Joined(IF Len(m) > 1 THEN SubSeq(m, Len(m) - 1, Len(m)) ELSE m, Hyphened)

\* A plausible bug: a second module of one basename has its name.
BasenamesOf(list) == [i \in DOMAIN list |-> LastPart(list[i].m)]

\* SRCREV_<name>: the last part of the module, or its last two.
NamesOf(list) ==
    FoldLeft(LAMBDA names, e :
               Append(names, IF LastPart(e.m) \in Range(names)
                             THEN LastTwoParts(e.m) ELSE LastPart(e.m)),
             <<>>, list)

\* list.sort(key=...): entries of one key keep their order.
Sorted(list, key) ==
    LET Ahead(i, j) == key[i] < key[j] \/ (key[i] = key[j] /\ i < j)
        order == CHOOSE p \in Bijection(DOMAIN list, DOMAIN list) :
                   \A i, j \in DOMAIN list : i < j => Ahead(p[i], p[j])
    IN  [i \in DOMAIN list |-> list[order[i]]]

\* A plausible bug: src_uri.inc keeps the order of go.mod.
InOrder(content) == 0

TakeFirstLen(content) == Chars(content.dest)

GenSrcUriInc ==
    LET contents == [i \in DOMAIN required |->
                       [dest |-> required[i].actual, srcrev |-> required[i].srcrev,
                        name |-> NamesOf(required)[i]]]
    IN  /\ pc = "src_uri"
        /\ srcUri' = Sorted(contents, [i \in DOMAIN contents |-> TakeFirstLen(contents[i])])
        /\ pc' = "relocation"
        /\ UNCHANGED <<world, faults, repos, cache, sites, modulesTxt, lines, next, probe, url, tables>>

\* A plausible bug: the sites are not sorted.
NoLen(s) == 0

\* "<dest>:<source>:force"
SiteLen(s) == Chars(s.dest) + Chars(s.source)

GenRelocationInc ==
    LET all == [i \in DOMAIN required |->
                  [dest |-> required[i].m, source |-> required[i].srcpath]]
    IN  /\ pc = "relocation"
        /\ sites' = Sorted(all, [i \in DOMAIN all |-> SiteLen(all[i])])
        /\ pc' = "modules_txt"
        /\ UNCHANGED <<world, faults, repos, cache, srcUri, modulesTxt, lines, next, probe, url, tables>>

GenModulesTxt ==
    /\ pc = "modules_txt"
    /\ modulesTxt' = [require |-> require, replace |-> replace]
    /\ pc' = "done"
    /\ UNCHANGED <<world, faults, repos, cache, srcUri, sites, lines, next, probe, url, tables>>

\* Ctrl-C between two calls.
Interrupt ==
    /\ pc \notin {"done", "raised", "interrupted"} /\ faults < MaxFaults
    /\ pc' = "interrupted" /\ faults' = faults + 1
    /\ UNCHANGED <<world, disk, lines, next, probe, url, tables>>

\* The script is run again, in the same work directory.
RunAgain ==
    /\ pc \in {"done", "raised", "interrupted"} /\ runs < MaxRuns
    /\ runs' = runs + 1
    /\ gen' \in gen .. Len(Up)
    /\ pc' = "main" /\ require' = <<>> /\ replace' = <<>>
    /\ next' = 1 /\ probe' = None /\ url' = None
    /\ repoinfo' = <<>> /\ subpaths' = <<>> /\ unhandled' = {} /\ required' = <<>>
    /\ UNCHANGED <<gomod, faults, disk>>

Next ==
    \/ \E up \in BOOLEAN : FetchMain(up) \/ FetchModule(up)
    \/ Parse \/ NextLine
    \/ \E wget, pkg \in BOOLEAN : Probe(wget, pkg)
    \/ GenSrcUriInc \/ GenRelocationInc \/ GenModulesTxt
    \/ Interrupt \/ RunAgain

Spec == Init /\ [][Next]_vars

-----------------------------------------------------------------------------
(* What the network would answer without faults *)

RepoOf(m) ==
    LET answers == {i \in 1 .. Len(m) : Answer(SubSeq(m, 1, i), TRUE, TRUE) # None}
    IN  IF answers = {} \/ (m \in DOMAIN GoImport /\ GoImport[m].vcs # "git") THEN None
        ELSE Answer(SubSeq(m, 1, Max(answers)), TRUE, TRUE)

TagsOf(u, m, rev) ==
    LET tag == InitialTag(m, rev)
    IN  {SubSeq(tag, i, Len(tag)) : i \in 1 .. Len(tag)} \cap DOMAIN Up[gen][u].tags

LongestTag(u, m, rev) ==
    CHOOSE t \in TagsOf(u, m, rev) : \A x \in TagsOf(u, m, rev) : Len(x) <= Len(t)

\* Names that differ in "/" and "_" only.
LookAlike(m, n) == Joined(m, Underscored) = Joined(n, Underscored)

\* No other line of go.mod is served from this repository or looks alike, and
\* the module is not the one whose go.mod this is.
Alone(i) ==
    LET m == Actual(require[i]).m
    IN  /\ m # MainUrl
        /\ \A j \in DOMAIN require \ {i} :
             LET n == Actual(require[j]).m IN RepoOf(n) # RepoOf(m) /\ ~LookAlike(n, m)

Expected(line) ==
    LET u == RepoOf(line.m)
    IN  IF line.rev \in Commits THEN line.rev
        ELSE Up[gen][u].tags[LongestTag(u, line.m, line.rev)]

Resolvable(line) ==
    LET u == RepoOf(line.m)
    IN  /\ u \in DOMAIN Up[gen]
        /\ IF line.rev \in Commits THEN line.rev \in Up[gen][u].commits
           ELSE /\ TagsOf(u, line.m, line.rev) # {}
                /\ LET t == LongestTag(u, line.m, line.rev)
                   IN  Len(t) > 1 => SubpathOf(line.m, line.rev, t, Expected(line)) \in Dirs[Expected(line)]

-----------------------------------------------------------------------------
TypeOK ==
    /\ pc \in {"main", "parse", "line", "probe", "fetch", "src_uri", "relocation",
               "modules_txt", "done", "raised", "interrupted"}
    /\ gen \in Generations /\ runs \in 1 .. MaxRuns /\ faults \in 0 .. MaxFaults
    /\ next \in 1 .. Len(require) + 1
    /\ \A b \in Bases : repos[b] # Absent =>
         /\ Base(repos[b].origin) = b /\ repos[b].tags <= repos[b].have
         /\ repos[b].head \in Up[repos[b].have][repos[b].origin].commits

(***************************************************************************)
(* The revision noted for a module is a commit of the repository noted for *)
(* it, though repositories of one basename take turns in one directory.    *)
(***************************************************************************)
RevisionOfItsRepo ==
    \A i \in DOMAIN required :
      /\ required[i].url \in DOMAIN Up[gen]
      /\ required[i].srcrev \in Up[gen][required[i].url].commits

(***************************************************************************)
(* Whatever fails, in this run or an earlier one, the repository noted for *)
(* a module was answered for a beginning of its name, or of the name of a  *)
(* module that looks alike; the one whose go.mod this is has its own.      *)
(***************************************************************************)
AnswersFor(m) ==
    {Answer(SubSeq(m, 1, n), wget, pkg) : n \in 1 .. Len(m), wget \in BOOLEAN, pkg \in BOOLEAN}

UrlAnswered ==
    \A i \in DOMAIN required :
      \/ required[i].actual = MainUrl /\ required[i].url = MainUrl
      \/ \E j \in DOMAIN require :
           LET m == Actual(require[j]).m
           IN  LookAlike(m, required[i].actual) /\ required[i].url \in AnswersFor(m)

(***************************************************************************)
(* The SRCREV is the revision go.mod names, or the one of the longest tag: *)
(* in a first run that reaches the network, for a module that shares its   *)
(* repository with no other (check_subpath stays checked out after it) nor *)
(* its cache file (the first one's repository answers for both).           *)
(***************************************************************************)
RevisionOfLongestTag ==
    runs = 1 /\ faults = 0 =>
      \A i \in DOMAIN require : \A j \in DOMAIN required :
        Alone(i) /\ required[j].m = require[i].m =>
          /\ required[j].url = RepoOf(Actual(require[i]).m)
          /\ required[j].srcrev = Expected(Actual(require[i]))

\* Such a module is in the generated files when it can be resolved at all.
LostOnlyByFault ==
    pc = "done" /\ runs = 1 /\ faults = 0 =>
      \A i \in DOMAIN require : Alone(i) /\ Resolvable(Actual(require[i])) =>
        /\ \E j \in DOMAIN srcUri : srcUri[j].dest = Actual(require[i]).m
        /\ \E j \in DOMAIN sites : sites[j].dest = require[i].m

\* A subpath noted for a module is a directory of the revision noted for it,
\* unless two lines are replaced by one module.
SubpathInTree ==
    \A i \in DOMAIN required :
      LET e == required[i]
      IN  /\ e.srcpath # e.actual
          /\ \A j \in DOMAIN require : Actual(require[j]).m = e.actual => require[j].m = e.m
          => SubSeq(e.srcpath, Len(e.actual) + 1, Len(e.srcpath)) \in Dirs[e.srcrev]

(***************************************************************************)
(* The fetcher unpacks src_uri.inc in its order and prunes the directory   *)
(* first; do_compile:prepend takes the sites in their order and removes    *)
(* the destination first.  Neither loses a module to a later one.  Sites   *)
(* are sorted by destination and source together, so a module goes lost    *)
(* below one whose source has the longer path.                             *)
(***************************************************************************)
Replaced(tree, e) == {d \in tree : ~IsPrefix(e.dest, d.dest)} \cup {e}

Unpacking(list) ==
    LET after[n \in 0 .. Len(list)] ==
          IF n = 0 THEN {} ELSE Replaced(after[n - 1], list[n])
    IN  after

Unpacked(list) == Unpacking(list)[Len(list)]

\* src_uri.inc assigns no SRCREV_<name> twice, so that each module has its
\* own, unless the last two parts of one module make a name of another.
OneSrcrevEach ==
    LET clash(m, n) == LastTwoParts(m) \in {LastPart(n), LastTwoParts(n)}
        apart == \A i, j \in DOMAIN required : i # j => ~clash(required[i].m, required[j].m)
    IN  pc = "done" /\ apart =>
          \A i, j \in DOMAIN srcUri : srcUri[i].name = srcUri[j].name => i = j

Below(x, y) == x.dest # y.dest /\ IsPrefix(y.dest, x.dest)

UnpackedTogether ==
    pc = "done" =>
      \A i \in DOMAIN srcUri : \E d \in Unpacked(srcUri) : d.dest = srcUri[i].dest

VendoredTogether ==
    pc = "done" =>
      \A i \in DOMAIN sites :
        (\A j \in DOMAIN sites : Below(sites[i], sites[j])
                                  => Chars(sites[j].source) <= Chars(sites[i].source))
        => sites[i] \in Unpacked(sites)
=============================================================================
