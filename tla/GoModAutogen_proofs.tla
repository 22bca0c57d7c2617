------------------------ MODULE GoModAutogen_proofs ------------------------
(***************************************************************************)
(* What oe-go-mod-autogen.py writes for a module, for every go.mod, every  *)
(* upstream and every answer: its revision and subpath, and that it is in  *)
(* the generated files and is unpacked from them.                          *)
(***************************************************************************)
EXTENDS GoModAutogen, SequenceTheorems, WellFoundedInduction, TLAPS

-----------------------------------------------------------------------------
(* The inductive invariant *)

AllCommits == UNION {Up[g][u].commits : g \in Generations, u \in Urls}

Clone == [origin : Urls \cup {None}, tags : Generations \cup {0},
          have : Generations \cup {0}, head : UNION {{"none"}, AllCommits}, check : BOOLEAN]

Module == [m : Seq(Parts), rev : Revs]

Word == Parts \cup Revs

Entry == [m : Seq(Parts), actual : Seq(Parts), rev : Revs, url : Urls,
          srcrev : AllCommits, srcpath : Seq(Parts)]

Pcs == {"main", "parse", "line", "probe", "fetch", "src_uri", "relocation",
        "modules_txt", "done", "raised", "interrupted"}

Counters ==
    /\ pc \in Pcs /\ gomod \in GoMods
    /\ gen \in Generations /\ runs \in 1 .. MaxRuns /\ faults \in 0 .. MaxFaults

\* Nothing has been read, or all of go.mod.
ReadOnce ==
    \/ require = <<>> /\ replace = <<>>
    \/ require = Parsed(gomod).require /\ replace = Parsed(gomod).replace

Fresh ==
    pc \in {"main", "parse"} =>
      /\ require = <<>> /\ replace = <<>> /\ next = 1
      /\ subpaths = <<>> /\ required = <<>>
      /\ repoinfo = IF pc = "main" THEN <<>> ELSE
           [m \in {MainUrl} |-> [url |-> MainUrl, rev |-> repos[Base(MainUrl)].head]]

Handling ==
    /\ next \in 1 .. Len(require) + 1
    /\ pc \in {"probe", "fetch"} => next <= Len(require)

\* A clone is of some generation up to the one that is served.
Clones ==
    /\ repos \in [Bases -> Clone]
    /\ \A b \in Bases : repos[b] # Absent =>
         LET l == repos[b]
         IN  /\ Base(l.origin) = b
             /\ l.tags \in 1 .. l.have /\ l.have <= gen
             /\ l.origin \in DOMAIN Up[l.tags] /\ l.origin \in DOMAIN Up[l.have]
             /\ l.head \in Up[l.have][l.origin].commits

\* The modules of the lines before this one.
Before == {Actual(require[j]).m : j \in 1 .. next - 1}

Tables ==
    /\ DOMAIN repoinfo \subseteq Before \cup {MainUrl}
    /\ DOMAIN subpaths \subseteq Before
    /\ required \in Seq(Entry)
    /\ require # <<>> => \A m \in DOMAIN repoinfo :
         /\ repoinfo[m].url \in DOMAIN Up[gen]
         /\ repoinfo[m].rev \in Up[gen][repoinfo[m].url].commits
    /\ \A m \in DOMAIN subpaths : subpaths[m] \in Seq(Parts)

GInv ==
    /\ Counters /\ ReadOnce /\ Fresh /\ Handling /\ Clones /\ Tables
    /\ RevisionOfItsRepo /\ SubpathInTree

-----------------------------------------------------------------------------
(* The first run, while every request is answered *)

OtherVcs(m) == m \in DOMAIN GoImport /\ GoImport[m].vcs # "git"

\* Every longer beginning of the name has been asked for in vain.
Probing ==
    pc = "probe" =>
      LET m == Current.m
      IN  /\ Len(probe) \in 1 .. Len(m) /\ probe = SubSeq(m, 1, Len(probe))
          /\ \A i \in Len(probe) + 1 .. Len(m) : Answer(SubSeq(m, 1, i), TRUE, TRUE) = None
          /\ Len(probe) < Len(m) => ~OtherVcs(m)

ModuleOf(j) == Actual(require[j]).m

\* The cache file was written for one of the lines up to this one.
Served(file, u) == \E j \in 1 .. next : CacheFile(ModuleOf(j)) = file /\ RepoOf(ModuleOf(j)) = u

Answers ==
    /\ gen = 1
    /\ pc \in {"main", "parse"} => cache = <<>>
    /\ \A file \in DOMAIN cache : Served(file, cache[file])
    /\ pc = "fetch" => Served(CacheFile(Current.m), url)

\* check_subpath is checked out where a module before this one was found.
CheckedOut ==
    \A b \in Bases : repos[b].check =>
      \E j \in 1 .. next - 1 : RepoOf(Actual(require[j]).m) = repos[b].origin

FirstRun == runs = 1 /\ faults = 0 => Probing /\ Answers /\ CheckedOut

LInv == GInv /\ FirstRun /\ RevisionOfLongestTag

-----------------------------------------------------------------------------
(* Numbers *)

LEMMA Least ==
    ASSUME NEW S \in SUBSET Nat, S # {}
    PROVE  \E x \in S : \A y \in S : x <= y
  <1>1. \E x \in S : \A y \in S : ~(<<y, x>> \in OpToRel(<, Nat))
    BY NatLessThanWellFounded, WFMin
  <1>2. PICK x \in S : \A y \in S : ~(<<y, x>> \in OpToRel(<, Nat))  BY <1>1
  <1>3. ASSUME NEW y \in S  PROVE  ~(y < x)
    <2>1. <<y, x>> \in Nat \X Nat /\ <<y, x>>[1] = y /\ <<y, x>>[2] = x  OBVIOUS
    <2> QED  BY <1>2, <2>1 DEF OpToRel
  <1>4. \A y \in S : x <= y  BY <1>3
  <1> QED  BY <1>4

LEMMA MinOf ==
    ASSUME NEW S \in SUBSET Nat, S # {}
    PROVE  Min(S) \in S /\ \A y \in S : Min(S) <= y
  <1>1. PICK x \in S : \A y \in S : x <= y  BY Least
  <1> QED  BY <1>1 DEF Min

LEMMA MaxOf ==
    ASSUME NEW n \in Nat, NEW S \in SUBSET (1 .. n), S # {}
    PROVE  Max(S) \in S /\ \A y \in S : y <= Max(S)
  <1> DEFINE T == {i \in 0 .. n : n - i \in S}
  <1>1. T \in SUBSET Nat  OBVIOUS
  <1>2. T # {}
    <2>1. PICK x \in S : TRUE  OBVIOUS
    <2>2. n - x \in 0 .. n /\ n - (n - x) = x  BY <2>1
    <2> QED  BY <2>1, <2>2
  <1>3. PICK t \in T : \A y \in T : t <= y  BY <1>1, <1>2, Least
  <1>4. n - t \in S  BY <1>3
  <1>5. ASSUME NEW y \in S  PROVE  y <= n - t
    <2>1. n - y \in 0 .. n /\ n - (n - y) = y  OBVIOUS
    <2>2. n - y \in T  BY <2>1
    <2>3. t <= n - y  BY <1>3, <2>2
    <2> QED  BY <2>3
  <1> HIDE DEF T
  <1>6. \E x \in S : \A y \in S : x >= y  BY <1>4, <1>5
  <1> QED  BY <1>6 DEF Max

-----------------------------------------------------------------------------
(* go.mod *)

Start == [inrequire |-> FALSE, inreplace |-> FALSE, require |-> <<>>, replace |-> <<>>]

\* f is the reading of the first n lines.
Reads(mod, n, f) ==
    f = [i \in 0 .. n |->
           IF i = 0 THEN Start ELSE ParseLine(f[i - 1], Stripped(mod[i]))]

LEMMA OneMoreLine ==
    ASSUME NEW mod, NEW n \in Nat, NEW f, Reads(mod, n, f)
    PROVE  \E g : Reads(mod, n + 1, g)
  <1> DEFINE g == [i \in 0 .. n + 1 |->
                     IF i = n + 1 THEN ParseLine(f[n], Stripped(mod[n + 1])) ELSE f[i]]
  <1>1. ASSUME NEW i \in 0 .. n + 1
        PROVE  g[i] = IF i = 0 THEN Start ELSE ParseLine(g[i - 1], Stripped(mod[i]))
    <2>1. CASE i = n + 1
      <3>1. g[i] = ParseLine(f[n], Stripped(mod[n + 1])) /\ g[i - 1] = f[n]  BY <2>1
      <3> QED  BY <3>1, <2>1
    <2>2. CASE i \in 1 .. n
      <3>1. g[i] = f[i] /\ g[i - 1] = f[i - 1]  BY <2>2
      <3>2. f[i] = ParseLine(f[i - 1], Stripped(mod[i]))  BY <2>2 DEF Reads
      <3> QED  BY <3>1, <3>2, <2>2
    <2>3. CASE i = 0
      <3>1. g[i] = f[i] /\ f[0] = Start  BY <2>3 DEF Reads
      <3> QED  BY <3>1, <2>3
    <2> QED  BY <2>1, <2>2, <2>3
  <1>2. g = [i \in 0 .. n + 1 |->
               IF i = 0 THEN Start ELSE ParseLine(g[i - 1], Stripped(mod[i]))]
    BY <1>1, Zenon
  <1> QED  BY <1>2 DEF Reads

LEMMA EveryFileIsRead ==
    ASSUME NEW mod, NEW n \in Nat
    PROVE  \E f : Reads(mod, n, f)
  <1> DEFINE Bad == {k \in Nat : ~ \E f : Reads(mod, k, f)}
  <1>1. SUFFICES ASSUME Bad # {}  PROVE FALSE  OBVIOUS
  <1>2. PICK k \in Bad : \A y \in Bad : k <= y  BY <1>1, Least
  <1>3. Reads(mod, 0, [i \in 0 .. 0 |-> Start])  BY DEF Reads
  <1>4. k # 0  BY <1>2, <1>3
  <1>5. k - 1 \in Nat /\ k - 1 \notin Bad /\ k - 1 + 1 = k  BY <1>2, <1>4
  <1>6. PICK f : Reads(mod, k - 1, f)  BY <1>5
  <1>7. \E g : Reads(mod, k, g)  BY <1>5, <1>6, OneMoreLine
  <1> QED  BY <1>2, <1>7

LEMMA ReadingReads ==
    ASSUME NEW mod, Len(mod) \in Nat
    PROVE  Reads(mod, Len(mod), Reading(mod))
  <1>1. Reading(mod) = CHOOSE f : Reads(mod, Len(mod), f)
    BY Zenon DEF Reading, Reads, Start
  <1> QED  BY <1>1, EveryFileIsRead

ParseState == [inrequire : BOOLEAN, inreplace : BOOLEAN,
               require : Seq(Module), replace : Seq(Line)]

LEMMA StrippedModule ==
    ASSUME NEW m \in Seq(Parts), m # None, NEW strip \in [Parts -> Parts]
    PROVE  <<strip[m[1]]>> \o Tail(m) \in Seq(Parts)
  <1>1. m[1] \in Parts /\ Tail(m) \in Seq(Parts)
    BY EmptySeq, ElementOfSeq, HeadTailProperties DEF None
  <1>2. <<strip[m[1]]>> \in Seq(Parts)  BY <1>1
  <1> QED  BY <1>1, <1>2, ConcatProperties

LEMMA StrippedTyped ==
    ASSUME NEW line \in Line, line.k \in {"require", "replace"} => line.m # None
    PROVE  Stripped(line) \in Line
  <1>1. line.m \in Seq(Parts)  BY DEF Line
  <1>2. CASE line.k = "require"
    <2>1. <<LstripRequire[line.m[1]]>> \o Tail(line.m) \in Seq(Parts)
      BY <1>1, <1>2, StrippedModule, WorldTyped
    <2>2. Stripped(line) = [line EXCEPT !.m = <<LstripRequire[line.m[1]]>> \o Tail(line.m)]
      BY <1>2 DEF Stripped
    <2> HIDE DEF Stripped
    <2> QED  BY <2>1, <2>2 DEF Line
  <1>3. CASE line.k = "replace"
    <2>1. <<LstripReplace[line.m[1]]>> \o Tail(line.m) \in Seq(Parts)
      BY <1>1, <1>3, StrippedModule, WorldTyped
    <2>2. Stripped(line) = [line EXCEPT !.m = <<LstripReplace[line.m[1]]>> \o Tail(line.m)]
      BY <1>3 DEF Stripped
    <2> QED  BY <2>1, <2>2 DEF Line
  <1>4. CASE line.k \notin {"require", "replace"}
    BY <1>4 DEF Stripped
  <1> QED  BY <1>2, <1>3, <1>4

LEMMA ParseLineTyped ==
    ASSUME NEW s \in ParseState, NEW line \in Line
    PROVE  ParseLine(s, line) \in ParseState
  <1>1. Append(s.require, [m |-> line.m, rev |-> line.rev]) \in Seq(Module)
    BY AppendProperties DEF ParseState, Line, Module
  <1>2. Append(s.replace, line) \in Seq(Line)
    BY AppendProperties DEF ParseState
  <1> QED  BY <1>1, <1>2 DEF ParseLine, ParseState

LEMMA ReadingTyped ==
    ASSUME NEW mod \in GoMods
    PROVE  Parsed(mod) \in ParseState
  <1>1. mod \in Seq(Line) /\ Len(mod) \in Nat  BY RequiredOnce
  <1> DEFINE f == Reading(mod)
             Bad == {k \in 0 .. Len(mod) : f[k] \notin ParseState}
  <1>2. /\ f[0] = Start
        /\ \A i \in 1 .. Len(mod) : f[i] = ParseLine(f[i - 1], Stripped(mod[i]))
    BY <1>1, ReadingReads DEF Reads
  <1>3. Start \in ParseState  BY EmptySeq DEF Start, ParseState
  <1>4. ASSUME NEW i \in 1 .. Len(mod)  PROVE  Stripped(mod[i]) \in Line
    <2>1. mod[i] \in Line  BY <1>1, ElementOfSeq
    <2>2. mod[i].k \in {"require", "replace"} => mod[i].m # None  BY <1>1, RequiredOnce
    <2> QED  BY <2>1, <2>2, StrippedTyped
  <1>5. Bad = {}
    <2>1. SUFFICES ASSUME Bad # {}  PROVE FALSE  OBVIOUS
    <2>2. PICK k \in Bad : \A y \in Bad : k <= y
      <3>1. Bad \in SUBSET Nat  BY <1>1
      <3> QED  BY <2>1, <3>1, Least
    <2>3. k # 0  BY <2>2, <1>2, <1>3
    <2>4. k \in 1 .. Len(mod) /\ k - 1 \in 0 .. Len(mod) /\ k - 1 \notin Bad  BY <2>2, <2>3, <1>1
    <2>5. f[k - 1] \in ParseState  BY <2>4
    <2>6. f[k] \in ParseState  BY <2>4, <2>5, <1>2, <1>4, ParseLineTyped
    <2> QED  BY <2>2, <2>6
  <1> QED  BY <1>1, <1>5 DEF Parsed

-----------------------------------------------------------------------------
(* The module that stands for a required one *)

LEMMA LinesTyped ==
    ASSUME gomod \in GoMods, ReadOnce
    PROVE  /\ require \in Seq(Module) /\ replace \in Seq(Line)
           /\ \A i \in DOMAIN require : require[i].m # None
           /\ \A i, j \in DOMAIN require : require[i].m = require[j].m => i = j
  <1>1. CASE require = <<>> /\ replace = <<>>
    BY <1>1, EmptySeq
  <1>2. CASE require = Parsed(gomod).require /\ replace = Parsed(gomod).replace
    <2>1. require \in Seq(Module) /\ replace \in Seq(Line)
      BY <1>2, ReadingTyped DEF ParseState
    <2>2. \A i \in DOMAIN require :
            require[i].m # None
            /\ \A j \in DOMAIN require \ {i} : require[j].m # require[i].m
      BY <1>2, RequiredOnce
    <2> QED  BY <2>1, <2>2
  <1> QED  BY <1>1, <1>2 DEF ReadOnce

LEMMA ReplacingMax ==
    ASSUME replace \in Seq(Line), NEW m, Replacing(m) # {}
    PROVE  Max(Replacing(m)) \in Replacing(m)
  <1>1. Replacing(m) \in SUBSET (1 .. Len(replace)) /\ Len(replace) \in Nat
    BY LenProperties DEF Replacing
  <1> QED  BY <1>1, MaxOf

LEMMA ActualTyped ==
    ASSUME replace \in Seq(Line), NEW line \in Module, line.m # None
    PROVE  Actual(line) \in Module /\ Actual(line).m # None
  <1>1. CASE Replacing(line.m) = {}
    BY <1>1 DEF Actual
  <1>2. CASE Replacing(line.m) # {}
    <2> DEFINE r == replace[Max(Replacing(line.m))]
    <2>1. Max(Replacing(line.m)) \in DOMAIN replace /\ r.to # None
      BY <1>2, ReplacingMax DEF Replacing
    <2>2. r \in Line  BY <2>1, LenProperties, ElementOfSeq
    <2>3. Actual(line) = [m |-> r.to, rev |-> r.rev]  BY <1>2 DEF Actual
    <2> HIDE DEF r
    <2> QED  BY <2>1, <2>2, <2>3 DEF Line, Module
  <1> QED  BY <1>1, <1>2

LEMMA ActualOfLine ==
    ASSUME gomod \in GoMods, ReadOnce, NEW i \in DOMAIN require
    PROVE  Actual(require[i]) \in Module /\ Actual(require[i]).m # None
  <1>1. require[i] \in Module /\ require[i].m # None /\ replace \in Seq(Line)
    BY LinesTyped, LenProperties, ElementOfSeq
  <1> QED  BY <1>1, ActualTyped

-----------------------------------------------------------------------------
(* What a clone knows *)

\* What a clone of this generation says of a tag or a commit.
UpToDate(l) ==
    /\ l \in Clone /\ l.have = gen /\ l.tags \in 1 .. gen
    /\ l.origin \in DOMAIN Up[l.tags] /\ l.origin \in DOMAIN Up[gen]
    /\ l.head \in Up[gen][l.origin].commits

LEMMA KnownCommits ==
    ASSUME NEW g \in Generations, NEW u \in DOMAIN Up[g]
    PROVE  Up[g][u].commits \subseteq AllCommits
  BY DEF AllCommits, Urls

LEMMA TagIsCommit ==
    ASSUME gen \in Generations, NEW l, UpToDate(l), NEW t \in DOMAIN Tags(l)
    PROVE  Tags(l)[t] \in Up[gen][l.origin].commits /\ Tags(l)[t] # "none"
  <1>1. gen \in 1 .. Len(Up) /\ l.tags \in Generations /\ l.tags <= gen
    BY WorldTyped DEF UpToDate
  <1>2. Tags(l)[t] \in Up[l.tags][l.origin].commits
    BY <1>1, WorldTyped DEF UpToDate, Tags
  <1>3. Up[l.tags][l.origin].commits \subseteq Up[gen][l.origin].commits
    BY <1>1, HistoryGrows DEF UpToDate
  <1> QED  BY <1>1, <1>2, <1>3, WorldTyped DEF UpToDate

LEMMA ClonedUpToDate ==
    ASSUME gen \in Generations, NEW u \in DOMAIN Up[gen]
    PROVE  UpToDate(Cloned(u)) /\ Cloned(u).origin = u /\ ~Cloned(u).check
  <1>1. gen \in 1 .. gen /\ u \in Urls  BY WorldTyped DEF Urls
  <1>2. Up[gen][u].tip \in Up[gen][u].commits  BY WorldTyped
  <1>3. Up[gen][u].tip \in UNION {{"none"}, AllCommits}  BY <1>2, KnownCommits
  <1> QED  BY <1>1, <1>2, <1>3 DEF Cloned, UpToDate, Clone

LEMMA FetchedUpToDate ==
    ASSUME gen \in Generations, Clones, NEW b \in Bases, repos[b] # Absent,
           repos[b].origin \in DOMAIN Up[gen]
    PROVE  /\ UpToDate(Fetched(repos[b])) /\ Fetched(repos[b]).origin = repos[b].origin
           /\ Fetched(repos[b]).check = repos[b].check
  <1> DEFINE l == repos[b]
  <1>1. /\ l \in Clone /\ l.tags \in 1 .. l.have /\ l.have <= gen
        /\ l.origin \in DOMAIN Up[l.tags] /\ l.origin \in DOMAIN Up[l.have]
        /\ l.head \in Up[l.have][l.origin].commits
    BY DEF Clones
  <1>2. l.have \in Generations /\ l.have \in Nat  BY <1>1, WorldTyped DEF Clone
  <1>3. l.head \in Up[gen][l.origin].commits
    BY <1>1, <1>2, HistoryGrows
  <1> HIDE DEF l
  <1>4. Fetched(l) = [origin |-> l.origin, tags |-> l.tags, have |-> gen,
                      head |-> l.head, check |-> l.check]
    BY <1>1 DEF Fetched, Clone
  <1>5. l.tags \in 1 .. gen  BY <1>1, <1>2, WorldTyped
  <1>6. Fetched(l) \in Clone
    BY <1>1, <1>4 DEF Clone
  <1>7. /\ Fetched(l).origin = l.origin /\ Fetched(l).check = l.check
        /\ Fetched(l).have = gen /\ Fetched(l).tags = l.tags /\ Fetched(l).head = l.head
    BY <1>4
  <1>8. l.origin \in DOMAIN Up[gen]  BY DEF l
  <1>9. UpToDate(Fetched(l))
    BY <1>1, <1>3, <1>5, <1>6, <1>7, <1>8, Zenon DEF UpToDate
  <1> QED  BY <1>7, <1>9 DEF l

\* The revision, the subpath and what is checked out.
Found(l, got) ==
    /\ got.rev # "none" => got.rev \in Up[gen][l.origin].commits
    /\ got.moved # "none" => got.moved \in Up[gen][l.origin].commits
    /\ got.subpath # None =>
         got.rev # "none" /\ got.subpath \in Seq(Parts) /\ got.subpath \in Dirs[got.rev]

LEMMA PartOf ==
    ASSUME NEW S, NEW s \in Seq(S), NEW i \in 1 .. Len(s)
    PROVE  /\ SubSeq(s, i, Len(s)) \in Seq(S)
           /\ Len(SubSeq(s, i, Len(s))) = Len(s) - i + 1
  <1>1. i \in Int /\ Len(s) \in Int /\ i <= Len(s)  BY LenProperties
  <1>2. \A j \in i .. Len(s) : s[j] \in S  BY <1>1, ElementOfSeq
  <1> QED  BY <1>1, <1>2, SubSeqProperties

LEMMA FrontOf ==
    ASSUME NEW S, NEW s \in Seq(S), s # <<>>
    PROVE  /\ Front(s) \in Seq(S) /\ Last(s) \in S /\ Len(Front(s)) = Len(s) - 1
           /\ \A j \in 1 .. Len(s) - 1 : Front(s)[j] = s[j]
  <1>1. Len(s) \in Nat \ {0}  BY EmptySeq
  <1>2. \A j \in 1 .. Len(s) - 1 : s[j] \in S  BY <1>1, ElementOfSeq
  <1> DEFINE n == Len(s) - 1
  <1>3. 1 \in Int /\ n \in Int  BY <1>1
  <1>4. /\ SubSeq(s, 1, n) \in Seq(S)
        /\ Len(SubSeq(s, 1, n)) = IF 1 <= n THEN n - 1 + 1 ELSE 0
        /\ \A j \in 1 .. n - 1 + 1 : SubSeq(s, 1, n)[j] = s[1 + j - 1]
    BY <1>2, <1>3, SubSeqProperties
  <1>5. Last(s) \in S  BY <1>1, ElementOfSeq DEF Last
  <1>6. Front(s) = SubSeq(s, 1, n)  BY DEF Front
  <1>7. \A j \in 1 .. n - 1 + 1 : 1 + j - 1 = j  BY <1>3
  <1>8. \A k \in Nat : k - 1 + 1 = k /\ (IF 1 <= k THEN k - 1 + 1 ELSE 0) = k  OBVIOUS
  <1>10. n \in Nat  BY <1>1
  <1> HIDE DEF n
  <1>9. ASSUME NEW j \in 1 .. n  PROVE  SubSeq(s, 1, n)[j] = s[j]
    <2>1. j \in 1 .. n - 1 + 1 /\ 1 + j - 1 = j  BY <1>10
    <2> QED  BY <1>4, <2>1
  <1>11. Len(SubSeq(s, 1, n)) = n  BY <1>4, <1>8, <1>10
  <1> QED  BY <1>4, <1>5, <1>6, <1>9, <1>11 DEF n

LEMMA CommitFound ==
    ASSUME gen \in Generations, NEW l, UpToDate(l), NEW m \in Seq(Parts), NEW rev
    PROVE  Found(l, RequiredCommit(l, m, rev))
  <1> DEFINE ends == {i \in 1 .. Len(m) : SubSeq(m, i, Len(m)) \in Dirs[rev]}
             s == IF ends = {} THEN None ELSE SubSeq(m, Min(ends), Len(m))
  <1>1. CASE rev \notin Up[l.have][l.origin].commits \/ SubpathRaises(l)
    BY <1>1 DEF RequiredCommit, Found
  <1>2. CASE rev \in Up[l.have][l.origin].commits /\ ~SubpathRaises(l)
    <2>1. RequiredCommit(l, m, rev) = [rev |-> rev, moved |-> rev, subpath |-> s]
      BY <1>2 DEF RequiredCommit
    <2>2. rev \in Up[gen][l.origin].commits /\ rev # "none"
      BY <1>2, WorldTyped DEF UpToDate
    <2>3. ASSUME s # None  PROVE  s \in Seq(Parts) /\ s \in Dirs[rev]
      <3>1. ends # {} /\ ends \in SUBSET Nat  BY <2>3
      <3>2. Min(ends) \in ends  BY <3>1, MinOf
      <3>3. s = SubSeq(m, Min(ends), Len(m))  BY <3>1
      <3>4. Min(ends) \in 1 .. Len(m) /\ SubSeq(m, Min(ends), Len(m)) \in Dirs[rev]  BY <3>2
      <3> HIDE DEF ends, s
      <3> QED  BY <3>3, <3>4, PartOf
    <2> HIDE DEF s
    <2> QED  BY <2>1, <2>2, <2>3 DEF Found
  <1> QED  BY <1>1, <1>2

LEMMA InitialTagTyped ==
    ASSUME NEW m \in Seq(Parts), m # None, NEW rev \in Revs
    PROVE  InitialTag(m, rev) \in Seq(Word) /\ Len(InitialTag(m, rev)) \in Nat \ {0}
  <1> DEFINE stem == IF Last(m) = Major[rev] THEN Front(m) ELSE m
  <1>1. stem \in Seq(Parts)  BY FrontOf DEF None
  <1>2. stem \in Seq(Word) /\ rev \in Word  BY <1>1, SeqMonotonic DEF Word
  <1>3. InitialTag(m, rev) = Append(stem, rev)  BY DEF InitialTag
  <1> HIDE DEF stem
  <1> QED  BY <1>2, <1>3, AppendProperties, LenProperties

LEMMA FrontOfTag ==
    ASSUME NEW m \in Seq(Parts), m # None, NEW rev \in Revs,
           NEW i \in 1 .. Len(InitialTag(m, rev))
    PROVE  Front(SubSeq(InitialTag(m, rev), i, Len(InitialTag(m, rev)))) \in Seq(Parts)
  <1> DEFINE stem == IF Last(m) = Major[rev] THEN Front(m) ELSE m
             tag  == InitialTag(m, rev)
             hit  == SubSeq(tag, i, Len(tag))
  <1>1. stem \in Seq(Parts)  BY FrontOf DEF None
  <1>2. tag = Append(stem, rev)  BY DEF InitialTag
  <1>3. tag \in Seq(Word) /\ Len(tag) \in Nat /\ i \in 1 .. Len(tag)  BY InitialTagTyped
  <1> HIDE DEF stem, tag
  <1>4. stem \in Seq(Word) /\ rev \in Word  BY <1>1, SeqMonotonic DEF Word
  <1>5. Len(tag) = Len(stem) + 1 /\ \A j \in 1 .. Len(stem) : tag[j] = stem[j]
    BY <1>2, <1>4, AppendProperties
  <1>6. Len(stem) \in Nat /\ \A j \in 1 .. Len(stem) : stem[j] \in Parts
    BY <1>1, LenProperties, ElementOfSeq
  <1>7. hit \in Seq(Word) /\ Len(hit) = Len(tag) - i + 1  BY <1>3, PartOf
  <1>8. \A j \in 1 .. Len(tag) - i + 1 : hit[j] = tag[i + j - 1]
    <2>1. i \in Int /\ Len(tag) \in Int /\ i <= Len(tag)  BY <1>3
    <2>2. \A j \in i .. Len(tag) : tag[j] \in Word  BY <1>3, ElementOfSeq
    <2> QED  BY <2>1, <2>2, SubSeqProperties
  <1> HIDE DEF hit
  <1>9. ASSUME NEW j \in 1 .. Len(hit) - 1  PROVE  hit[j] \in Parts
    <2>1. j \in 1 .. Len(tag) - i + 1 /\ i + j - 1 \in 1 .. Len(stem)
      BY <1>3, <1>5, <1>6, <1>7
    <2> QED  BY <2>1, <1>5, <1>6, <1>8
  <1>10. 1 \in Int /\ Len(hit) - 1 \in Int  BY <1>3, <1>7
  <1>11. SubSeq(hit, 1, Len(hit) - 1) \in Seq(Parts)  BY <1>9, <1>10, SubSeqProperties
  <1> QED  BY <1>11 DEF hit, tag, Front

LEMMA TagFound ==
    ASSUME gen \in Generations, NEW l, UpToDate(l),
           NEW m \in Seq(Parts), m # None, NEW rev \in Revs
    PROVE  Found(l, RequiredTag(l, m, rev))
  <1> DEFINE tag    == InitialTag(m, rev)
             End(i) == SubSeq(tag, i, Len(tag))
             hits   == {i \in 1 .. Len(tag) :
                          Known(l, End(i)) /\ (i = Len(tag) \/ ~SubpathRaises(l))}
             hit    == End(Min(hits))
             commit == Tags(l)[hit]
             sub    == IF Len(hit) = 1 THEN None ELSE SubpathOf(m, rev, hit, commit)
             got    == RequiredTag(l, m, rev)
  <1>1. CASE hits = {}
    <2>1. got = [rev |-> "none", subpath |-> None, moved |-> "none"]
      BY <1>1 DEF RequiredTag
    <2> HIDE DEF got
    <2> QED  BY <2>1 DEF Found, got
  <1>2. CASE hits # {}
    <2>1. got = [rev     |-> IF sub = None \/ sub \in Dirs[commit] THEN commit ELSE "none",
                 subpath |-> IF sub # None /\ sub \in Dirs[commit] THEN sub ELSE None,
                 moved   |-> IF Len(hit) = 1 THEN "none" ELSE commit]
      BY <1>2 DEF RequiredTag
    <2>2. Min(hits) \in hits
      <3>1. hits \in SUBSET Nat  OBVIOUS
      <3> QED  BY <1>2, <3>1, MinOf
    <2>3. Min(hits) \in 1 .. Len(tag) /\ hit \in DOMAIN Tags(l)  BY <2>2 DEF Known
    <2>4. tag \in Seq(Word) /\ Len(tag) \in Nat  BY InitialTagTyped
    <2> HIDE DEF tag, hits
    <2>5. Front(hit) \in Seq(Parts)  BY <2>3, FrontOfTag DEF tag
    <2>6. commit \in Up[gen][l.origin].commits /\ commit # "none"  BY <2>3, TagIsCommit
    <2> HIDE DEF hit, commit
    <2>8. sub # None => sub \in Seq(Parts)
      <3>1. Last(m) \in Parts  BY FrontOf DEF None
      <3>2. Append(Front(hit), Last(m)) \in Seq(Parts)  BY <2>5, <3>1, AppendProperties
      <3> QED  BY <2>5, <3>2 DEF SubpathOf
    <2> HIDE DEF sub, got
    <2> QED  BY <2>1, <2>6, <2>8 DEF Found, got
  <1> QED  BY <1>1, <1>2

LEMMA RevFound ==
    ASSUME gen \in Generations, NEW l, UpToDate(l),
           NEW m \in Seq(Parts), m # None, NEW rev \in Revs
    PROVE  Found(l, RequiredRev(l, m, rev))
  BY CommitFound, TagFound DEF RequiredRev

-----------------------------------------------------------------------------
(* The steps *)

LEMMA RequestBound ==
    ASSUME faults \in 0 .. MaxFaults, NEW up \in BOOLEAN, Answered(up)
    PROVE  faults' \in 0 .. MaxFaults
  BY WorldTyped DEF Answered

LEMMA BeforeKept ==
    ASSUME UNCHANGED lines, UNCHANGED next
    PROVE  Before' = Before
  BY DEF Before, Actual, Replacing, lines

LEMMA BeforeGrows ==
    ASSUME UNCHANGED lines, next \in Nat \ {0}, next' = next + 1
    PROVE  Before \subseteq Before' /\ Actual(require[next]).m \in Before'
  <1>1. \A j : Actual(require[j]).m' = Actual(require[j]).m
    BY DEF Actual, Replacing, lines
  <1>2. 1 .. next - 1 \subseteq 1 .. next' - 1 /\ next \in 1 .. next' - 1  OBVIOUS
  <1> QED  BY <1>1, <1>2 DEF Before

LEMMA SubpathKept ==
    ASSUME SubpathInTree, UNCHANGED <<lines, required>>
    PROVE  SubpathInTree'
  <1>1. \A j : Actual(require[j]).m' = Actual(require[j]).m
    BY DEF Actual, Replacing, lines
  <1> QED  BY <1>1 DEF SubpathInTree, lines

LEMMA RevisionKept ==
    ASSUME RevisionOfItsRepo, UNCHANGED <<gen, required>>
    PROVE  RevisionOfItsRepo'
  BY DEF RevisionOfItsRepo

LEMMA ClonesKept ==
    ASSUME Clones, UNCHANGED <<gen, repos>>
    PROVE  Clones'
  BY DEF Clones

LEMMA ReadOnceKept ==
    ASSUME ReadOnce, UNCHANGED <<gomod, lines>>
    PROVE  ReadOnce'
  BY DEF ReadOnce, lines, Parsed, Reading

LEMMA TablesKept ==
    ASSUME Tables, UNCHANGED <<gen, lines, repoinfo, subpaths, required>>,
           Before \subseteq Before'
    PROVE  Tables'
  <1>1. require' = require  BY DEF lines
  <1> QED  BY <1>1 DEF Tables

\* A step between two requests, or within the parsing of one line.
LEMMA Quiet ==
    ASSUME GInv, UNCHANGED <<world, repos, lines, next, repoinfo, subpaths, required>>,
           pc' \in Pcs \ {"main", "parse"}, pc' \in {"probe", "fetch"} => next <= Len(require),
           faults' \in 0 .. MaxFaults
    PROVE  GInv'
  <1>1. Counters'  BY DEF GInv, Counters, world
  <1>2. ReadOnce'  BY ReadOnceKept DEF GInv, world
  <1>3. Fresh'  BY DEF Fresh
  <1>4. Handling'  BY DEF GInv, Handling, lines
  <1>5. Clones'  BY ClonesKept DEF GInv, world
  <1>6. Tables'  BY BeforeKept, TablesKept DEF GInv, world
  <1>7. RevisionOfItsRepo' /\ SubpathInTree'  BY RevisionKept, SubpathKept DEF GInv, world
  <1> QED  BY <1>1, <1>2, <1>3, <1>4, <1>5, <1>6, <1>7 DEF GInv

\* The end of a line that nothing was noted for.
LEMMA LineEnds ==
    ASSUME GInv, pc = "probe", EndLine,
           UNCHANGED <<world, repos, lines, repoinfo, subpaths, required>>,
           faults' \in 0 .. MaxFaults
    PROVE  GInv'
  <1>0. pc' = "line" /\ next' = next + 1  BY DEF EndLine
  <1>1. next \in 1 .. Len(require) /\ Len(require) \in Nat
    <2>1. Len(require) \in Nat  BY LinesTyped, LenProperties DEF GInv, Counters
    <2> QED  BY <2>1 DEF GInv, Handling
  <1>2. Counters'  BY <1>0 DEF GInv, Counters, world, Pcs
  <1>3. ReadOnce'  BY ReadOnceKept DEF GInv, world
  <1>4. Fresh'  BY <1>0 DEF Fresh
  <1>5. Handling'  BY <1>0, <1>1 DEF Handling, lines
  <1>6. Clones'  BY ClonesKept DEF GInv, world
  <1>7. Before \subseteq Before'  BY <1>0, <1>1, BeforeGrows
  <1>8. Tables'  BY <1>7, TablesKept DEF GInv, world
  <1>9. RevisionOfItsRepo' /\ SubpathInTree'  BY RevisionKept, SubpathKept DEF GInv, world
  <1> QED  BY <1>2, <1>3, <1>4, <1>5, <1>6, <1>8, <1>9 DEF GInv

LEMMA InitGInv == Init => GInv
  <1> SUFFICES ASSUME Init  PROVE GInv  OBVIOUS
  <1>1. Counters  BY WorldTyped DEF Init, Counters, Pcs
  <1>2. ReadOnce /\ Fresh  BY DEF Init, ReadOnce, Fresh
  <1>3. Handling
    <2>1. Len(require) = 0  BY EmptySeq DEF Init
    <2> QED  BY <2>1 DEF Init, Handling
  <1>4. Clones
    <2>1. Absent \in Clone  BY DEF Absent, Clone
    <2> QED  BY <2>1 DEF Init, Clones
  <1>5. Tables  BY EmptySeq DEF Init, Tables
  <1>6. RevisionOfItsRepo /\ SubpathInTree
    BY DEF Init, RevisionOfItsRepo, SubpathInTree
  <1> QED  BY <1>1, <1>2, <1>3, <1>4, <1>5, <1>6 DEF GInv

\* The HEAD of a clone is still a commit of its repository.
LEMMA HeadIsKnown ==
    ASSUME gen \in Generations, Clones, NEW b \in Bases, repos[b] # Absent,
           repos[b].origin \in DOMAIN Up[gen]
    PROVE  repos[b].head \in Up[gen][repos[b].origin].commits
  <1>1. UpToDate(Fetched(repos[b])) /\ Fetched(repos[b]).origin = repos[b].origin
    BY FetchedUpToDate
  <1>2. Fetched(repos[b]).head = repos[b].head
    BY DEF Fetched, Clones, Clone
  <1> QED  BY <1>1, <1>2 DEF UpToDate

LEMMA StepParse == ASSUME GInv, Parse  PROVE GInv'
  <1>0. /\ pc = "parse" /\ pc' = "line"
        /\ UNCHANGED <<world, faults, repos, next, repoinfo, subpaths, required>>
    BY DEF Parse, disk, tables
  <1>1. require = <<>> /\ replace = <<>> /\ next = 1 /\ subpaths = <<>> /\ required = <<>>
        /\ repoinfo = [m \in {MainUrl} |->
                        [url |-> MainUrl, rev |-> repos[Base(MainUrl)].head]]
    BY <1>0 DEF GInv, Fresh
  <1>2. Counters'  BY <1>0 DEF GInv, Counters, world, Pcs
  <1>3. ReadOnce'
    <2>1. \/ require' = Parsed(gomod).require /\ replace' = Parsed(gomod).replace
          \/ UNCHANGED lines
      BY DEF Parse
    <2>2. Parsed(gomod)' = Parsed(gomod)  BY <1>0 DEF world, Parsed, Reading
    <2> HIDE DEF Parsed
    <2> QED  BY <2>1, <2>2, <1>1 DEF ReadOnce, lines
  <1>4. Fresh'  BY <1>0 DEF Fresh
  <1>5. Handling'
    <2>1. require' = <<>> \/ require' = Parsed(gomod).require
      BY <1>1 DEF Parse, lines
    <2>2. require' \in Seq(Module)
      BY <2>1, ReadingTyped, EmptySeq DEF GInv, Counters, ParseState
    <2>3. Len(require') \in Nat  BY <2>2, LenProperties
    <2> QED  BY <2>3, <1>0, <1>1 DEF Handling
  <1>6. Clones'  BY <1>0, ClonesKept DEF GInv, world
  <1>7. Tables'
    <2>1. ASSUME require' # <<>>
          PROVE  /\ MainUrl \in DOMAIN Up[gen]
                 /\ repos[Base(MainUrl)].head \in Up[gen][MainUrl].commits
      <3>1. repos[Base(MainUrl)].origin = MainUrl  BY <1>1, <2>1 DEF Parse, lines
      <3>2. MainUrl # None /\ Base(MainUrl) \in Bases
        BY WorldTyped, UrlNamed DEF Bases
      <3>3. gen \in Generations /\ MainUrl \in DOMAIN Up[gen]
        BY WorldTyped DEF GInv, Counters
      <3>4. repos[Base(MainUrl)] # Absent  BY <3>1, <3>2 DEF Absent
      <3>5. repos[Base(MainUrl)].head \in Up[gen][MainUrl].commits
        BY <3>1, <3>2, <3>3, <3>4, HeadIsKnown DEF GInv
      <3> QED  BY <3>3, <3>5
    <2>2. DOMAIN repoinfo' = {MainUrl}
          /\ repoinfo'[MainUrl] = [url |-> MainUrl, rev |-> repos[Base(MainUrl)].head]
      BY <1>0, <1>1
    <2>3. gen' = gen  BY <1>0 DEF world
    <2>4. required' = <<>> /\ subpaths' = <<>>  BY <1>0, <1>1
    <2> QED  BY <2>1, <2>2, <2>3, <2>4, EmptySeq DEF Tables
  <1>8. RevisionOfItsRepo' /\ SubpathInTree'
    BY <1>0, <1>1 DEF RevisionOfItsRepo, SubpathInTree
  <1> QED  BY <1>2, <1>3, <1>4, <1>5, <1>6, <1>7, <1>8 DEF GInv

LEMMA StepRunAgain == ASSUME GInv, RunAgain  PROVE GInv'
  <1>0. /\ pc' = "main" /\ require' = <<>> /\ replace' = <<>> /\ next' = 1
        /\ repoinfo' = <<>> /\ subpaths' = <<>> /\ required' = <<>>
        /\ runs' = runs + 1 /\ runs < MaxRuns /\ gen' \in gen .. Len(Up)
        /\ UNCHANGED <<gomod, faults, repos>>
    BY DEF RunAgain, disk
  <1>1. Counters'  BY <1>0, WorldTyped DEF GInv, Counters, Pcs
  <1>2. ReadOnce' /\ Fresh'  BY <1>0 DEF ReadOnce, Fresh
  <1>3. Handling'
    <2>1. Len(require') = 0  BY <1>0, EmptySeq
    <2> QED  BY <1>0, <2>1 DEF Handling
  <1>4. Clones'
    <2>1. gen \in Nat /\ gen' \in Nat /\ gen <= gen'
      BY <1>0, WorldTyped DEF GInv, Counters
    <2>2. \A b \in Bases : repos[b] # Absent => repos[b].have \in Nat
      BY WorldTyped DEF GInv, Clones, Clone
    <2> QED  BY <1>0, <2>1, <2>2 DEF GInv, Clones
  <1>5. Tables'  BY <1>0, EmptySeq DEF Tables
  <1>6. RevisionOfItsRepo' /\ SubpathInTree'
    BY <1>0 DEF RevisionOfItsRepo, SubpathInTree
  <1> QED  BY <1>1, <1>2, <1>3, <1>4, <1>5, <1>6 DEF GInv

LEMMA AbsentIsClone == Absent \in Clone
  BY DEF Absent, Clone

LEMMA CloneStored ==
    ASSUME Clones, gen \in Generations, UNCHANGED gen, NEW b, NEW l,
           b \in Bases => l = Absent \/ (UpToDate(l) /\ Base(l.origin) = b),
           repos' = [repos EXCEPT ![b] = l]
    PROVE  Clones'
  <1>1. CASE b \notin Bases
    <2>1. repos' = repos  BY <1>1 DEF Clones
    <2> QED  BY <2>1, ClonesKept
  <1>2. CASE b \in Bases
    <2>1. l \in Clone  BY <1>2, AbsentIsClone DEF UpToDate
    <2>2. repos' \in [Bases -> Clone]  BY <2>1 DEF Clones
    <2>3. ASSUME l # Absent
          PROVE  /\ Base(l.origin) = b /\ l.tags \in 1 .. l.have /\ l.have <= gen
                 /\ l.origin \in DOMAIN Up[l.tags] /\ l.origin \in DOMAIN Up[l.have]
                 /\ l.head \in Up[l.have][l.origin].commits
      BY <1>2, <2>3, WorldTyped DEF UpToDate
    <2>4. \A c \in Bases \ {b} : repos'[c] = repos[c]  BY DEF Clones
    <2>5. repos'[b] = l  BY <1>2 DEF Clones
    <2> QED  BY <2>2, <2>3, <2>4, <2>5 DEF Clones
  <1> QED  BY <1>1, <1>2

LEMMA HeadMoved ==
    ASSUME gen \in Generations, NEW l, UpToDate(l), NEW c \in Up[gen][l.origin].commits,
           NEW check \in BOOLEAN
    PROVE  /\ UpToDate([l EXCEPT !.head = c, !.check = check])
           /\ [l EXCEPT !.head = c, !.check = check].origin = l.origin
           /\ [l EXCEPT !.head = c, !.check = check].check = check
  <1> DEFINE k == [l EXCEPT !.head = c, !.check = check]
  <1>1. c \in AllCommits  BY KnownCommits DEF UpToDate
  <1>2. l \in Clone  BY DEF UpToDate
  <1>3. k \in Clone  BY <1>1, <1>2 DEF Clone
  <1>4. k.origin = l.origin /\ k.check = check /\ k.have = l.have /\ k.tags = l.tags /\ k.head = c
    BY <1>2 DEF Clone
  <1> HIDE DEF k
  <1>5. UpToDate(k)  BY <1>3, <1>4 DEF UpToDate
  <1> QED  BY <1>4, <1>5 DEF k

LEMMA StepFetchMain == ASSUME GInv, NEW up \in BOOLEAN, FetchMain(up)  PROVE GInv'
  <1> DEFINE b == Base(MainUrl)
             l == Cloned(MainUrl)
             skip == HeadIsRev(repos[b])
             found == {i \in 1 .. Len(MainUrl) + 1 :
                         Known(l, SubSeq(Append(MainUrl, MainRev), i, Len(MainUrl) + 1))}
             rev == Tags(l)[SubSeq(Append(MainUrl, MainRev), Min(found), Len(MainUrl) + 1)]
  <1>0. /\ pc = "main" /\ pc' \in {"parse", "raised"} /\ Answered(up)
        /\ UNCHANGED <<world, lines, next, subpaths, required>>
        /\ \/ pc' = "raised" /\ UNCHANGED repoinfo
           \/ repoinfo' = [m \in {MainUrl} |-> [url |-> MainUrl, rev |-> repos'[b].head]]
        /\ repos' = [repos EXCEPT ![b] = IF skip THEN @
                                         ELSE IF ~up THEN Absent
                                         ELSE IF found = {} THEN l
                                         ELSE [l EXCEPT !.head = rev]]
    BY DEF FetchMain, tables
  <1>1. gen \in Generations /\ MainUrl \in DOMAIN Up[gen] /\ b \in Bases
    BY WorldTyped DEF GInv, Counters, Bases
  <1>2. Counters'  BY <1>0, RequestBound DEF GInv, Counters, world, Pcs
  <1>3. ReadOnce'  BY <1>0, ReadOnceKept DEF GInv, world
  <1>4. Fresh'  BY <1>0 DEF GInv, Fresh, lines
  <1>5. Handling'  BY <1>0 DEF GInv, Handling, lines
  <1>6. Clones'
    <2>1. UpToDate(l) /\ l.origin = MainUrl /\ l.check = FALSE
      BY <1>1, ClonedUpToDate DEF Cloned
    <2>2. ASSUME found # {}
          PROVE  UpToDate([l EXCEPT !.head = rev]) /\ [l EXCEPT !.head = rev].origin = MainUrl
      <3>1. found \in SUBSET Nat  OBVIOUS
      <3>2. Min(found) \in found  BY <2>2, <3>1, MinOf
      <3>3. rev \in Up[gen][l.origin].commits
        <4>1. SubSeq(Append(MainUrl, MainRev), Min(found), Len(MainUrl) + 1) \in DOMAIN Tags(l)
          BY <3>2 DEF Known
        <4> QED  BY <4>1, <1>1, <2>1, TagIsCommit
      <3>4. l \in Clone  BY <2>1 DEF UpToDate
      <3> HIDE DEF l, rev
      <3>5. [l EXCEPT !.head = rev] = [l EXCEPT !.head = rev, !.check = FALSE]
        BY <2>1, <3>4 DEF Clone
      <3>6. /\ UpToDate([l EXCEPT !.head = rev, !.check = FALSE])
            /\ [l EXCEPT !.head = rev, !.check = FALSE].origin = l.origin
        BY <3>3, <1>1, <2>1, HeadMoved
      <3> QED  BY <3>5, <3>6, <2>1, Zenon
    <2> HIDE DEF l, rev, found, skip
    <2>3. CASE skip
      <3>1. repos' = repos  BY <1>0, <2>3 DEF GInv, Clones
      <3> QED  BY <3>1, <1>0, ClonesKept DEF GInv, world
    <2>4. CASE ~skip
      <3> DEFINE new == IF ~up THEN Absent ELSE IF found = {} THEN l ELSE [l EXCEPT !.head = rev]
      <3>1. repos' = [repos EXCEPT ![b] = new]  BY <1>0, <2>4
      <3>2. new = Absent \/ (UpToDate(new) /\ new.origin = MainUrl)  BY <2>1, <2>2
      <3> HIDE DEF new
      <3>3. UNCHANGED gen /\ Clones  BY <1>0 DEF world, GInv
      <3> QED  BY <3>1, <3>2, <3>3, <1>1, CloneStored
    <2> QED  BY <2>3, <2>4
  <1>7. Tables'
    <2>1. require' = <<>> /\ required' = <<>> /\ subpaths' = <<>> /\ repoinfo = <<>>
      BY <1>0 DEF GInv, Fresh, lines
    <2>2. DOMAIN repoinfo' \subseteq {MainUrl}  BY <1>0, <2>1, EmptySeq
    <2> QED  BY <2>1, <2>2, EmptySeq DEF Tables
  <1>8. RevisionOfItsRepo' /\ SubpathInTree'
    BY <1>0, RevisionKept, SubpathKept DEF GInv, world
  <1> QED  BY <1>2, <1>3, <1>4, <1>5, <1>6, <1>7, <1>8 DEF GInv

LEMMA SuffixOfCat ==
    ASSUME NEW S, NEW s \in Seq(S), NEW t \in Seq(S)
    PROVE  SubSeq(s \o t, Len(s) + 1, Len(s \o t)) = t
  <1>1. Len(s) \in Nat /\ Len(t) \in Nat /\ Len(s \o t) = Len(s) + Len(t)
    BY LenProperties, ConcatProperties
  <1>2. CASE t = <<>>
    <2>1. Len(s \o t) < Len(s) + 1 /\ Len(s) + 1 \in Int /\ Len(s \o t) \in Int
      BY <1>1, <1>2, EmptySeq
    <2> QED  BY <1>2, <2>1, SubSeqEmpty
  <1>3. CASE t # <<>>
    <2>1. Len(t) \in Nat \ {0}  BY <1>3, EmptySeq
    <2>2. /\ Len(s) + 1 \in Len(s) + 1 .. Len(s) + Len(t)
          /\ Len(s) + Len(t) \in Len(s) + 1 .. Len(s) + Len(t)
          /\ Len(s) + 1 - Len(s) = 1 /\ Len(s) + Len(t) - Len(s) = Len(t)
      BY <1>1, <2>1
    <2>3. SubSeq(s \o t, Len(s) + 1, Len(s) + Len(t))
            = SubSeq(t, Len(s) + 1 - Len(s), Len(s) + Len(t) - Len(s))
      BY <2>2, SubSeqOfConcat2
    <2>4. SubSeq(s \o t, Len(s) + 1, Len(s) + Len(t)) = SubSeq(t, 1, Len(t))
      BY <2>2, <2>3
    <2>5. SubSeq(t, 1, Len(t)) = t  BY SubSeqFull
    <2> QED  BY <1>1, <2>4, <2>5
  <1> QED  BY <1>2, <1>3

\* The names of FetchModule.
Wanted == Current.m
InDir == Base(url)
FetchedClone == IF MustClone(repos[InDir], url) THEN Cloned(url) ELSE Fetched(repos[InDir])
Nothing == [rev |-> "none", subpath |-> None, moved |-> "none"]
Got(up) == IF ~up THEN Nothing ELSE RequiredRev(FetchedClone, Wanted, Current.rev)
Infos(up) == IF Got(up).rev = "none" THEN repoinfo
             ELSE Put(repoinfo, Wanted, [url |-> url, rev |-> Got(up).rev])
Subs(up) == IF Got(up).subpath = None THEN subpaths ELSE Put(subpaths, Wanted, Got(up).subpath)
Noted(up) == [m |-> require[next].m, actual |-> Wanted, rev |-> Current.rev,
              url |-> Infos(up)[Wanted].url, srcrev |-> Infos(up)[Wanted].rev,
              srcpath |-> IF Wanted \in DOMAIN Subs(up) THEN Wanted \o Subs(up)[Wanted]
                          ELSE Wanted]

LEMMA FetchModuleIs ==
    ASSUME NEW up \in BOOLEAN, FetchModule(up)
    PROVE  /\ pc = "fetch" /\ pc' = "line" /\ next' = next + 1
           /\ IF url \in DOMAIN Up[gen] THEN Answered(up) ELSE ~up /\ UNCHANGED faults
           /\ repos' = [repos EXCEPT ![InDir] =
                IF ~up THEN (IF MustClone(repos[InDir], url) THEN Absent ELSE @)
                ELSE IF Got(up).moved = "none" THEN FetchedClone
                ELSE [FetchedClone EXCEPT !.head = Got(up).moved, !.check = TRUE]]
           /\ repoinfo' = Infos(up) /\ subpaths' = Subs(up)
           /\ required' = IF Wanted \in DOMAIN Infos(up) THEN Append(required, Noted(up))
                          ELSE required
           /\ UNCHANGED <<world, cache, lines, probe, url>>
  BY DEF FetchModule, EndLine, Wanted, InDir, FetchedClone, Nothing, Got, Infos, Subs, Noted

LEMMA InHand ==
    ASSUME GInv, url \in DOMAIN Up[gen]
    PROVE  InDir \in Bases /\ UpToDate(FetchedClone) /\ FetchedClone.origin = url
  <1>1. gen \in Generations /\ Clones  BY DEF GInv, Counters
  <1>2. InDir \in Bases  BY <1>1 DEF Bases, Urls, InDir
  <1>3. CASE MustClone(repos[InDir], url)
    BY <1>1, <1>2, <1>3, ClonedUpToDate DEF FetchedClone
  <1>4. CASE ~MustClone(repos[InDir], url)
    <2>1. repos[InDir] # Absent /\ repos[InDir].origin = url  BY <1>4 DEF MustClone
    <2> QED  BY <1>1, <1>2, <1>4, <2>1, FetchedUpToDate DEF FetchedClone
  <1> QED  BY <1>3, <1>4

LEMMA WantedTyped ==
    ASSUME GInv, pc = "fetch"
    PROVE  /\ next \in 1 .. Len(require) /\ Len(require) \in Nat /\ next \in DOMAIN require
           /\ Wanted \in Seq(Parts) /\ Wanted # None /\ Current.rev \in Revs
           /\ require[next].m \in Seq(Parts)
  <1>1. gomod \in GoMods /\ ReadOnce  BY DEF GInv, Counters
  <1>2. require \in Seq(Module)  BY <1>1, LinesTyped
  <1>3. Len(require) \in Nat /\ DOMAIN require = 1 .. Len(require)  BY <1>2, LenProperties
  <1>4. next \in 1 .. Len(require)  BY <1>3 DEF GInv, Handling
  <1>5. Current \in Module /\ Current.m # None  BY <1>1, <1>3, <1>4, ActualOfLine DEF Current
  <1>6. require[next] \in Module  BY <1>2, <1>3, <1>4, ElementOfSeq
  <1> QED  BY <1>3, <1>4, <1>5, <1>6 DEF Module, Wanted

LEMMA GotFound ==
    ASSUME GInv, NEW up \in BOOLEAN, FetchModule(up)
    PROVE  /\ Got(up).rev # "none" =>
                url \in DOMAIN Up[gen] /\ Got(up).rev \in Up[gen][url].commits
           /\ Got(up).moved # "none" =>
                url \in DOMAIN Up[gen] /\ Got(up).moved \in Up[gen][url].commits
           /\ Got(up).subpath # None =>
                Got(up).rev # "none" /\ Got(up).subpath \in Seq(Parts)
                /\ Got(up).subpath \in Dirs[Got(up).rev]
  <1>1. CASE ~up
    <2>1. Got(up) = Nothing  BY <1>1 DEF Got
    <2> QED  BY <2>1 DEF Nothing
  <1>2. CASE up
    <2>1. url \in DOMAIN Up[gen] /\ pc = "fetch"  BY <1>2, FetchModuleIs
    <2>2. UpToDate(FetchedClone) /\ FetchedClone.origin = url  BY <2>1, InHand
    <2>3. Wanted \in Seq(Parts) /\ Wanted # None /\ Current.rev \in Revs
      BY <2>1, WantedTyped
    <2>4. Found(FetchedClone, RequiredRev(FetchedClone, Wanted, Current.rev))
      BY <2>2, <2>3, RevFound DEF GInv, Counters
    <2>5. Got(up) = RequiredRev(FetchedClone, Wanted, Current.rev)  BY <1>2 DEF Got
    <2>6. Found(FetchedClone, Got(up))  BY <2>4, <2>5
    <2> QED  BY <2>1, <2>2, <2>6 DEF Found
  <1> QED  BY <1>1, <1>2

\* What FetchModule finds in its tables for the module.
LEMMA InfosOwn ==
    ASSUME GInv, NEW up \in BOOLEAN, FetchModule(up), NEW m \in DOMAIN Infos(up)
    PROVE  /\ Infos(up)[m].url \in DOMAIN Up[gen]
           /\ Infos(up)[m].rev \in Up[gen][Infos(up)[m].url].commits
           /\ m = Wanted \/ m \in DOMAIN repoinfo
  <1>0. require # <<>>
    <2>1. next \in 1 .. Len(require)  BY FetchModuleIs, WantedTyped
    <2> QED  BY <2>1, EmptySeq
  <1>1. CASE m \in DOMAIN repoinfo /\ Infos(up)[m] = repoinfo[m]
    BY <1>0, <1>1 DEF GInv, Tables
  <1>2. CASE m = Wanted /\ Infos(up)[m] = [url |-> url, rev |-> Got(up).rev]
             /\ Got(up).rev # "none"
    BY <1>2, GotFound
  <1>3. CASE Got(up).rev = "none"
    <2>1. Infos(up) = repoinfo  BY <1>3 DEF Infos
    <2> QED  BY <1>1, <2>1
  <1>4. CASE Got(up).rev # "none"
    <2>1. Infos(up) = Put(repoinfo, Wanted, [url |-> url, rev |-> Got(up).rev])
      BY <1>4 DEF Infos
    <2>2. \/ m = Wanted /\ Infos(up)[m] = [url |-> url, rev |-> Got(up).rev]
          \/ m \in DOMAIN repoinfo /\ Infos(up)[m] = repoinfo[m]
      BY <2>1 DEF Put
    <2> QED  BY <1>1, <1>2, <1>4, <2>2
  <1> QED  BY <1>3, <1>4

LEMMA SubsTyped ==
    ASSUME GInv, NEW up \in BOOLEAN, FetchModule(up), NEW m \in DOMAIN Subs(up)
    PROVE  /\ Subs(up)[m] \in Seq(Parts)
           /\ m = Wanted \/ m \in DOMAIN subpaths
  <1>1. CASE Got(up).subpath = None
    <2>1. Subs(up) = subpaths  BY <1>1 DEF Subs
    <2> QED  BY <2>1 DEF GInv, Tables
  <1>2. CASE Got(up).subpath # None
    <2>1. Subs(up) = Put(subpaths, Wanted, Got(up).subpath)  BY <1>2 DEF Subs
    <2>2. \/ m = Wanted /\ Subs(up)[m] = Got(up).subpath
          \/ m \in DOMAIN subpaths /\ Subs(up)[m] = subpaths[m]
      BY <2>1 DEF Put
    <2> QED  BY <1>2, <2>2, GotFound DEF GInv, Tables
  <1> QED  BY <1>1, <1>2

LEMMA NotedTyped ==
    ASSUME GInv, NEW up \in BOOLEAN, FetchModule(up), Wanted \in DOMAIN Infos(up)
    PROVE  Noted(up) \in Entry
  <1>1. /\ Wanted \in Seq(Parts) /\ Current.rev \in Revs /\ require[next].m \in Seq(Parts)
    BY FetchModuleIs, WantedTyped
  <1>2. Infos(up)[Wanted].url \in Urls /\ Infos(up)[Wanted].rev \in AllCommits
    <2>1. gen \in Generations  BY DEF GInv, Counters
    <2>2. /\ Infos(up)[Wanted].url \in DOMAIN Up[gen]
          /\ Infos(up)[Wanted].rev \in Up[gen][Infos(up)[Wanted].url].commits
      BY InfosOwn
    <2> QED  BY <2>1, <2>2, KnownCommits DEF Urls
  <1> DEFINE path == IF Wanted \in DOMAIN Subs(up) THEN Wanted \o Subs(up)[Wanted] ELSE Wanted
  <1>3. path \in Seq(Parts)
    <2>1. Wanted \in DOMAIN Subs(up) => Wanted \o Subs(up)[Wanted] \in Seq(Parts)
      BY <1>1, SubsTyped, ConcatProperties
    <2> QED  BY <1>1, <2>1
  <1>4. Noted(up) = [m |-> require[next].m, actual |-> Wanted, rev |-> Current.rev,
                     url |-> Infos(up)[Wanted].url, srcrev |-> Infos(up)[Wanted].rev,
                     srcpath |-> path]
    BY DEF Noted
  <1> HIDE DEF path
  <1> QED  BY <1>1, <1>2, <1>3, <1>4 DEF Entry

\* The subpath that is noted with a module was found for its revision.
LEMMA NotedInTree ==
    ASSUME GInv, NEW up \in BOOLEAN, FetchModule(up), Wanted \in DOMAIN Infos(up),
           Noted(up).srcpath # Noted(up).actual,
           \A j \in DOMAIN require :
             Actual(require[j]).m = Noted(up).actual => require[j].m = Noted(up).m
    PROVE  SubSeq(Noted(up).srcpath, Len(Noted(up).actual) + 1, Len(Noted(up).srcpath))
             \in Dirs[Noted(up).srcrev]
  <1>1. /\ Noted(up).actual = Wanted /\ Noted(up).m = require[next].m
        /\ Noted(up).srcrev = Infos(up)[Wanted].rev
        /\ Noted(up).srcpath = IF Wanted \in DOMAIN Subs(up) THEN Wanted \o Subs(up)[Wanted]
                               ELSE Wanted
    BY DEF Noted
  <1>2. Wanted \in DOMAIN Subs(up)  BY <1>1
  <1>3. pc = "fetch" /\ next \in 1 .. Len(require) /\ Len(require) \in Nat
        /\ next \in DOMAIN require /\ Wanted \in Seq(Parts)
    BY FetchModuleIs, WantedTyped
  <1>4. Wanted \notin DOMAIN subpaths
    <2>1. SUFFICES ASSUME Wanted \in DOMAIN subpaths  PROVE FALSE  OBVIOUS
    <2>2. PICK j \in 1 .. next - 1 : Wanted = Actual(require[j]).m
      BY <2>1 DEF GInv, Tables, Before
    <2>3. ReadOnce /\ gomod \in GoMods  BY DEF GInv, Counters
    <2>4. require \in Seq(Module) /\ DOMAIN require = 1 .. Len(require)
      BY <2>3, LinesTyped, LenProperties
    <2>5. j \in DOMAIN require /\ j # next  BY <1>3, <2>2, <2>4
    <2>6. require[j].m = require[next].m  BY <1>1, <2>2, <2>5
    <2> QED  BY <1>3, <2>3, <2>5, <2>6, LinesTyped
  <1>5. Got(up).subpath # None /\ Subs(up)[Wanted] = Got(up).subpath
    BY <1>2, <1>4 DEF Subs, Put
  <1>6. /\ Got(up).rev # "none" /\ Got(up).subpath \in Seq(Parts)
        /\ Got(up).subpath \in Dirs[Got(up).rev]
    BY <1>5, GotFound
  <1>7. Infos(up)[Wanted].rev = Got(up).rev
    <2>1. Infos(up) = Put(repoinfo, Wanted, [url |-> url, rev |-> Got(up).rev])
      BY <1>6 DEF Infos
    <2>2. Infos(up)[Wanted] = [url |-> url, rev |-> Got(up).rev]  BY <2>1 DEF Put
    <2> QED  BY <2>2
  <1>9. SubSeq(Wanted \o Got(up).subpath, Len(Wanted) + 1, Len(Wanted \o Got(up).subpath))
          = Got(up).subpath
    BY <1>3, <1>6, SuffixOfCat
  <1>10. Noted(up).srcpath = Wanted \o Got(up).subpath  BY <1>1, <1>2, <1>5
  <1> QED  BY <1>1, <1>6, <1>7, <1>9, <1>10

LEMMA Appended ==
    ASSUME NEW S, NEW s \in Seq(S), NEW e \in S, NEW i \in DOMAIN Append(s, e)
    PROVE  (i \in DOMAIN s /\ Append(s, e)[i] = s[i]) \/ Append(s, e)[i] = e
  <1>1. /\ Append(s, e) \in Seq(S) /\ Len(Append(s, e)) = Len(s) + 1
        /\ \A j \in 1 .. Len(s) : Append(s, e)[j] = s[j]
        /\ Append(s, e)[Len(s) + 1] = e
    BY AppendProperties
  <1>2. i \in 1 .. Len(s) + 1 /\ DOMAIN s = 1 .. Len(s) /\ Len(s) \in Nat
    BY <1>1, LenProperties
  <1> QED  BY <1>1, <1>2

LEMMA StepFetchModule == ASSUME GInv, NEW up \in BOOLEAN, FetchModule(up)  PROVE GInv'
  <1>0. /\ pc = "fetch" /\ pc' = "line" /\ next' = next + 1
        /\ repoinfo' = Infos(up) /\ subpaths' = Subs(up)
        /\ required' = IF Wanted \in DOMAIN Infos(up) THEN Append(required, Noted(up))
                       ELSE required
        /\ UNCHANGED <<world, lines>>
    BY FetchModuleIs
  <1>1. next \in 1 .. Len(require) /\ Len(require) \in Nat  BY <1>0, WantedTyped
  <1>2. Counters'
    <2>1. faults' \in 0 .. MaxFaults
      <3>1. Answered(up) \/ UNCHANGED faults  BY FetchModuleIs
      <3> QED  BY <3>1, RequestBound DEF GInv, Counters
    <2> QED  BY <1>0, <2>1 DEF GInv, Counters, world, Pcs
  <1>3. ReadOnce'  BY <1>0, ReadOnceKept DEF GInv, world
  <1>4. Fresh'  BY <1>0 DEF Fresh
  <1>5. Handling'  BY <1>0, <1>1 DEF Handling, lines
  <1>6. Clones'
    <2> DEFINE new == IF ~up THEN (IF MustClone(repos[InDir], url) THEN Absent ELSE repos[InDir])
                      ELSE IF Got(up).moved = "none" THEN FetchedClone
                      ELSE [FetchedClone EXCEPT !.head = Got(up).moved, !.check = TRUE]
    <2>1. repos' = [repos EXCEPT ![InDir] = new]  BY FetchModuleIs
    <2>2. UNCHANGED gen /\ Clones /\ gen \in Generations
      BY <1>0 DEF world, GInv, Counters
    <2>3. CASE ~up
      <3>1. CASE MustClone(repos[InDir], url)
        <4>1. new = Absent  BY <2>3, <3>1
        <4> QED  BY <2>1, <2>2, <4>1, CloneStored
      <3>2. CASE ~MustClone(repos[InDir], url)
        <4>1. new = repos[InDir]  BY <2>3, <3>2
        <4>2. repos' = repos  BY <2>1, <2>2, <4>1 DEF Clones
        <4> QED  BY <2>2, <4>2, ClonesKept
      <3> QED  BY <3>1, <3>2
    <2>4. CASE up
      <3>1. url \in DOMAIN Up[gen]  BY <2>4, FetchModuleIs
      <3>2. UpToDate(FetchedClone) /\ FetchedClone.origin = url  BY <3>1, InHand
      <3>3. UpToDate(new) /\ new.origin = url
        <4>1. CASE Got(up).moved = "none"  BY <2>4, <3>2, <4>1
        <4>2. CASE Got(up).moved # "none"
          <5>1. Got(up).moved \in Up[gen][FetchedClone.origin].commits
            BY <3>2, <4>2, GotFound
          <5>2. new = [FetchedClone EXCEPT !.head = Got(up).moved, !.check = TRUE]
            BY <2>4, <4>2
          <5> HIDE DEF new
          <5> QED  BY <2>2, <3>2, <5>1, <5>2, HeadMoved
        <4> QED  BY <4>1, <4>2
      <3> HIDE DEF new
      <3> QED  BY <2>1, <2>2, <3>3, CloneStored DEF InDir
    <2> QED  BY <2>3, <2>4
  <1>7. Before \subseteq Before' /\ Wanted \in Before'
    BY <1>0, <1>1, BeforeGrows DEF Wanted, Current
  <1>8. required' \in Seq(Entry)
    <2>1. required \in Seq(Entry)  BY DEF GInv, Tables
    <2> QED  BY <1>0, <2>1, NotedTyped, AppendProperties
  <1>9. Tables'
    <2>1. gen' = gen  BY <1>0 DEF world
    <2>2. DOMAIN repoinfo' \subseteq Before' \cup {MainUrl}
      BY <1>0, <1>7, InfosOwn DEF GInv, Tables
    <2>3. DOMAIN subpaths' \subseteq Before'
      BY <1>0, <1>7, SubsTyped DEF GInv, Tables
    <2> QED  BY <1>0, <1>8, <2>1, <2>2, <2>3, InfosOwn, SubsTyped DEF Tables
  <1>10. \A i \in DOMAIN required' :
           \/ i \in DOMAIN required /\ required'[i] = required[i]
           \/ Wanted \in DOMAIN Infos(up) /\ required'[i] = Noted(up)
    <2>1. required \in Seq(Entry)  BY DEF GInv, Tables
    <2> QED  BY <1>0, <2>1, NotedTyped, Appended
  <1>11. RevisionOfItsRepo'
    <2>1. gen' = gen  BY <1>0 DEF world
    <2>2. Noted(up).url = Infos(up)[Wanted].url /\ Noted(up).srcrev = Infos(up)[Wanted].rev
      BY DEF Noted
    <2>3. ASSUME NEW i \in DOMAIN required'
          PROVE  required'[i].url \in DOMAIN Up[gen]
                 /\ required'[i].srcrev \in Up[gen][required'[i].url].commits
      BY <1>10, <2>2, InfosOwn DEF GInv, RevisionOfItsRepo
    <2> QED  BY <2>1, <2>3 DEF RevisionOfItsRepo
  <1>12. SubpathInTree'
    <2>1. \A j : Actual(require[j]).m' = Actual(require[j]).m
      BY <1>0 DEF Actual, Replacing, lines
    <2>2. require' = require  BY <1>0 DEF lines
    <2>3. ASSUME NEW i \in DOMAIN required',
                 required'[i].srcpath # required'[i].actual,
                 \A j \in DOMAIN require :
                   Actual(require[j]).m = required'[i].actual => require[j].m = required'[i].m
          PROVE  SubSeq(required'[i].srcpath, Len(required'[i].actual) + 1, Len(required'[i].srcpath))
                   \in Dirs[required'[i].srcrev]
      <3>1. CASE i \in DOMAIN required /\ required'[i] = required[i]
        BY <2>3, <3>1 DEF GInv, SubpathInTree
      <3>2. CASE Wanted \in DOMAIN Infos(up) /\ required'[i] = Noted(up)
        BY <2>3, <3>2, NotedInTree
      <3> QED  BY <1>10, <3>1, <3>2
    <2> QED  BY <2>1, <2>2, <2>3 DEF SubpathInTree
  <1> QED  BY <1>2, <1>3, <1>4, <1>5, <1>6, <1>9, <1>11, <1>12 DEF GInv

LEMMA StepNextLine == ASSUME GInv, NextLine  PROVE GInv'
  <1>1. /\ UNCHANGED <<world, repos, lines, next, repoinfo, subpaths, required, faults>>
        /\ pc' \in {"src_uri", "fetch", "probe"}
        /\ pc' \in {"probe", "fetch"} => ~(next > Len(require))
    BY DEF NextLine, disk, tables
  <1>2. gomod \in GoMods /\ ReadOnce /\ next \in Nat /\ faults \in 0 .. MaxFaults
    BY DEF GInv, Counters, Handling
  <1>3. Len(require) \in Nat  BY <1>2, LinesTyped, LenProperties
  <1> QED  BY <1>1, <1>2, <1>3, Quiet DEF Pcs

LEMMA StepProbe == ASSUME GInv, NEW wget \in BOOLEAN, NEW pkg \in BOOLEAN, Probe(wget, pkg)
                   PROVE  GInv'
  <1>1. /\ pc = "probe" /\ UNCHANGED <<world, repos, lines, repoinfo, subpaths, required>>
        /\ Answered(FALSE) \/ Answered(TRUE)
        /\ \/ pc' = "fetch" /\ UNCHANGED next
           \/ UNCHANGED <<pc, next>>
           \/ EndLine
    BY DEF Probe
  <1>2. faults' \in 0 .. MaxFaults
    <2>1. faults \in 0 .. MaxFaults  BY DEF GInv, Counters
    <2> QED  BY <1>1, <2>1, RequestBound
  <1>3. next <= Len(require)  BY <1>1 DEF GInv, Handling
  <1>4. CASE EndLine  BY <1>1, <1>2, <1>4, LineEnds
  <1>5. CASE (pc' = "fetch" \/ UNCHANGED pc) /\ UNCHANGED next
    <2>1. pc' \in Pcs \ {"main", "parse"}  BY <1>1, <1>5 DEF Pcs
    <2> QED  BY <1>1, <1>2, <1>3, <1>5, <2>1, Quiet
  <1> QED  BY <1>1, <1>4, <1>5

LEMMA StepRest ==
    ASSUME GInv, GenSrcUriInc \/ GenRelocationInc \/ GenModulesTxt \/ Interrupt
    PROVE  GInv'
  <1>1. /\ UNCHANGED <<world, repos, lines, next, repoinfo, subpaths, required>>
        /\ pc' \in {"relocation", "modules_txt", "done", "interrupted"}
        /\ \/ UNCHANGED faults
           \/ faults < MaxFaults /\ faults' = faults + 1
    BY DEF GenSrcUriInc, GenRelocationInc, GenModulesTxt, Interrupt, disk, tables
  <1>2. faults' \in 0 .. MaxFaults  BY <1>1, WorldTyped DEF GInv, Counters
  <1> QED  BY <1>1, <1>2, Quiet DEF Pcs

LEMMA StutterGInv == ASSUME GInv, UNCHANGED vars  PROVE GInv'
  <1>1. UNCHANGED <<world, repos, lines, next, repoinfo, subpaths, required, faults, pc>>
    BY DEF vars, disk, tables
  <1>2. CASE pc \in {"main", "parse"}
    <2>1. Counters'  BY <1>1 DEF GInv, Counters, world
    <2>2. ReadOnce'  BY <1>1, ReadOnceKept DEF GInv, world
    <2>3. Fresh' /\ Handling'  BY <1>1 DEF GInv, Fresh, Handling, lines
    <2>4. Clones'  BY <1>1, ClonesKept DEF GInv, world
    <2>5. Tables'  BY <1>1, BeforeKept, TablesKept DEF GInv, world
    <2>6. RevisionOfItsRepo' /\ SubpathInTree'
      BY <1>1, RevisionKept, SubpathKept DEF GInv, world
    <2> QED  BY <2>1, <2>2, <2>3, <2>4, <2>5, <2>6 DEF GInv
  <1>3. CASE pc \notin {"main", "parse"}
    <2>1. pc' \in Pcs \ {"main", "parse"} /\ faults' \in 0 .. MaxFaults
          /\ (pc' \in {"probe", "fetch"} => next <= Len(require))
      BY <1>1, <1>3 DEF GInv, Counters, Handling
    <2> QED  BY <1>1, <2>1, Quiet
  <1> QED  BY <1>2, <1>3

LEMMA NextGInv == GInv /\ [Next]_vars => GInv'
  <1> SUFFICES ASSUME GInv, [Next]_vars  PROVE GInv'  OBVIOUS
  <1>1. ASSUME NEW up \in BOOLEAN, FetchMain(up)  PROVE GInv'  BY <1>1, StepFetchMain
  <1>2. ASSUME NEW up \in BOOLEAN, FetchModule(up)  PROVE GInv'  BY <1>2, StepFetchModule
  <1>3. CASE Parse  BY <1>3, StepParse
  <1>4. CASE NextLine  BY <1>4, StepNextLine
  <1>5. ASSUME NEW wget \in BOOLEAN, NEW pkg \in BOOLEAN, Probe(wget, pkg)  PROVE GInv'
    BY <1>5, StepProbe
  <1>6. CASE GenSrcUriInc \/ GenRelocationInc \/ GenModulesTxt \/ Interrupt
    BY <1>6, StepRest
  <1>7. CASE RunAgain  BY <1>7, StepRunAgain
  <1>8. CASE UNCHANGED vars  BY <1>8, StutterGInv
  <1> QED  BY <1>1, <1>2, <1>3, <1>4, <1>5, <1>6, <1>7, <1>8, Zenon DEF Next

LEMMA GInvTyped == GInv => TypeOK
  <1> SUFFICES ASSUME GInv  PROVE TypeOK  OBVIOUS
  <1>1. \A b \in Bases : repos[b] # Absent =>
          /\ Base(repos[b].origin) = b /\ repos[b].tags <= repos[b].have
          /\ repos[b].head \in Up[repos[b].have][repos[b].origin].commits
    BY DEF GInv, Clones
  <1> QED  BY <1>1 DEF GInv, Counters, Handling, Pcs, TypeOK

LEMMA GInvAlways == Spec => []GInv
  BY InitGInv, NextGInv, PTL DEF Spec

(***************************************************************************)
(* The cursor never leaves go.mod, and every directory below repos/ holds  *)
(* the repository it is named for, at a commit that it has.                *)
(***************************************************************************)
THEOREM GoModTypeOK == Spec => []TypeOK
  BY GInvAlways, GInvTyped, PTL

(***************************************************************************)
(* fetch_and_checkout_repo: the SRCREV of a module is a commit of the      *)
(* repository in its SRC_URI, however often repositories of one basename   *)
(* replace each other, whatever earlier runs left and requests fail.       *)
(***************************************************************************)
THEOREM GoModRevisionOfItsRepo == Spec => []RevisionOfItsRepo
  <1>1. GInv => RevisionOfItsRepo  BY DEF GInv
  <1> QED  BY <1>1, GInvAlways, PTL

(***************************************************************************)
(* get_requiredrev: a subpath in modules_srcpaths is a directory of the    *)
(* revision that is noted with it, never of another line's revision.       *)
(***************************************************************************)
THEOREM GoModSubpathInTree == Spec => []SubpathInTree
  <1>1. GInv => SubpathInTree  BY DEF GInv
  <1> QED  BY <1>1, GInvAlways, PTL

-----------------------------------------------------------------------------
(* The longest tag and the longest name that is answered for *)

Hits(l, tag) == {i \in 1 .. Len(tag) : /\ Known(l, SubSeq(tag, i, Len(tag)))
                                       /\ i = Len(tag) \/ ~SubpathRaises(l)}

\* In a clone that is not on check_subpath the tag found is the longest.
LEMMA HitIsLongest ==
    ASSUME gen \in Generations, NEW l, l.tags = gen, ~l.check,
           NEW m \in Seq(Parts), m # None, NEW rev \in Revs,
           Hits(l, InitialTag(m, rev)) # {}
    PROVE  LET tag == InitialTag(m, rev)
           IN  /\ SubSeq(tag, Min(Hits(l, tag)), Len(tag)) = LongestTag(l.origin, m, rev)
               /\ LongestTag(l.origin, m, rev) \in TagsOf(l.origin, m, rev)
               /\ Len(LongestTag(l.origin, m, rev)) \in Nat \ {0}
  <1> DEFINE tag    == InitialTag(m, rev)
             End(i) == SubSeq(tag, i, Len(tag))
             hits   == Hits(l, tag)
             hit    == End(Min(hits))
             all    == TagsOf(l.origin, m, rev)
  <1>2. tag \in Seq(Word) /\ Len(tag) \in Nat \ {0}  BY InitialTagTyped
  <1>3. Min(hits) \in hits /\ \A y \in hits : Min(hits) <= y
    <2>1. hits \in SUBSET Nat  BY DEF Hits
    <2> QED  BY <2>1, MinOf
  <1>4. Tags(l) = Up[gen][l.origin].tags  BY DEF Tags
  <1>5. hits = {i \in 1 .. Len(tag) : End(i) \in DOMAIN Tags(l)}
    BY DEF Hits, Known, SubpathRaises
  <1>6. all = {End(i) : i \in 1 .. Len(tag)} \cap DOMAIN Tags(l)
    BY <1>4 DEF TagsOf
  <1> HIDE DEF tag, hits, all
  <1>7. \A i \in 1 .. Len(tag) : Len(End(i)) = Len(tag) - i + 1  BY <1>2, PartOf
  <1> HIDE DEF End
  <1>8. hit \in all
    <2>1. Min(hits) \in 1 .. Len(tag) /\ End(Min(hits)) \in DOMAIN Tags(l)  BY <1>3, <1>5
    <2> QED  BY <2>1, <1>6
  <1>9. Min(hits) \in 1 .. Len(tag) /\ Len(hit) = Len(tag) - Min(hits) + 1
    BY <1>3, <1>5, <1>7
  <1>10. ASSUME NEW x \in all  PROVE  Len(x) <= Len(hit) /\ (Len(hit) <= Len(x) => x = hit)
    <2>1. PICK i \in 1 .. Len(tag) : x = End(i) /\ End(i) \in DOMAIN Tags(l)  BY <1>6
    <2>2. i \in hits  BY <2>1, <1>5
    <2>3. Min(hits) <= i /\ Len(x) = Len(tag) - i + 1  BY <1>3, <1>7, <2>1, <2>2
    <2>4. Len(x) <= Len(hit)  BY <1>2, <1>9, <2>3
    <2>5. ASSUME Len(hit) <= Len(x)  PROVE i = Min(hits)  BY <1>2, <1>9, <2>3, <2>5
    <2> QED  BY <2>1, <2>4, <2>5
  <1>11. Len(hit) \in Nat \ {0}  BY <1>2, <1>9
  <1> HIDE DEF hit
  <1>12. LongestTag(l.origin, m, rev) = hit
    <2>1. LongestTag(l.origin, m, rev) = CHOOSE t \in all : \A x \in all : Len(x) <= Len(t)
      BY Zenon DEF LongestTag, all
    <2> DEFINE t == CHOOSE t \in all : \A x \in all : Len(x) <= Len(t)
    <2>2. t \in all /\ \A x \in all : Len(x) <= Len(t)  BY <1>8, <1>10
    <2> HIDE DEF t
    <2>3. t = hit  BY <1>8, <1>10, <2>2
    <2> QED  BY <2>1, <2>3 DEF t
  <1> QED  BY <1>8, <1>11, <1>12, Zenon DEF hit, End, hits, tag, all

LEMMA RequiredTagIs ==
    ASSUME NEW l, NEW m, NEW rev
    PROVE  LET tag    == InitialTag(m, rev)
               hits   == Hits(l, tag)
               hit    == SubSeq(tag, Min(hits), Len(tag))
               commit == Tags(l)[hit]
               sub    == IF Len(hit) = 1 THEN None ELSE SubpathOf(m, rev, hit, commit)
           IN  RequiredTag(l, m, rev).rev =
                 IF hits = {} THEN "none"
                 ELSE IF sub = None \/ sub \in Dirs[commit] THEN commit ELSE "none"
  <1> DEFINE tag    == InitialTag(m, rev)
             hits   == Hits(l, tag)
             hit    == SubSeq(tag, Min(hits), Len(tag))
             commit == Tags(l)[hit]
             sub    == IF Len(hit) = 1 THEN None ELSE SubpathOf(m, rev, hit, commit)
  <1>1. RequiredTag(l, m, rev)
          = IF hits = {} THEN [rev |-> "none", subpath |-> None, moved |-> "none"]
            ELSE [rev     |-> IF sub = None \/ sub \in Dirs[commit] THEN commit ELSE "none",
                  subpath |-> IF sub # None /\ sub \in Dirs[commit] THEN sub ELSE None,
                  moved   |-> IF Len(hit) = 1 THEN "none" ELSE commit]
    BY Zenon DEF RequiredTag, Hits
  <1> HIDE DEF hits, hit, commit, sub
  <1>2. RequiredTag(l, m, rev).rev =
          IF hits = {} THEN "none"
          ELSE IF sub = None \/ sub \in Dirs[commit] THEN commit ELSE "none"
    BY <1>1
  <1> QED  BY <1>2, Zenon DEF hits, hit, commit, sub

LEMMA TagIsLongest ==
    ASSUME gen \in Generations, NEW l, l.tags = gen, ~l.check,
           NEW m \in Seq(Parts), m # None, NEW rev \in Revs,
           RequiredTag(l, m, rev).rev # "none"
    PROVE  RequiredTag(l, m, rev).rev = Up[gen][l.origin].tags[LongestTag(l.origin, m, rev)]
  <1> DEFINE tag  == InitialTag(m, rev)
             hits == Hits(l, tag)
             hit  == SubSeq(tag, Min(hits), Len(tag))
  <1>1. hits # {} /\ RequiredTag(l, m, rev).rev = Tags(l)[hit]
    <2>1. hits # {}  BY RequiredTagIs, Zenon
    <2> QED  BY <2>1, RequiredTagIs, Zenon
  <1>2. hit = LongestTag(l.origin, m, rev)  BY <1>1, HitIsLongest, Zenon
  <1>3. Tags(l) = Up[gen][l.origin].tags  BY DEF Tags
  <1> QED  BY <1>1, <1>2, <1>3

\* A tag whose directory is there resolves the version.
LEMMA TagResolves ==
    ASSUME gen \in Generations, NEW l, l.tags = gen, ~l.check,
           NEW m \in Seq(Parts), m # None, NEW rev \in Revs,
           TagsOf(l.origin, m, rev) # {},
           LET t == LongestTag(l.origin, m, rev)
               c == Up[gen][l.origin].tags[t]
           IN  Len(t) > 1 => SubpathOf(m, rev, t, c) \in Dirs[c]
    PROVE  /\ RequiredTag(l, m, rev).rev = Up[gen][l.origin].tags[LongestTag(l.origin, m, rev)]
           /\ LongestTag(l.origin, m, rev) \in TagsOf(l.origin, m, rev)
  <1> DEFINE tag  == InitialTag(m, rev)
             hits == Hits(l, tag)
             hit  == SubSeq(tag, Min(hits), Len(tag))
             c    == Up[gen][l.origin].tags[hit]
  <1>1. Tags(l) = Up[gen][l.origin].tags  BY DEF Tags
  <1>2. hits # {}
    <2>1. PICK i \in 1 .. Len(tag) : SubSeq(tag, i, Len(tag)) \in DOMAIN Up[gen][l.origin].tags
      BY DEF TagsOf
    <2>2. i \in hits  BY <1>1, <2>1 DEF Hits, Known, SubpathRaises
    <2> QED  BY <2>2
  <1>3. /\ hit = LongestTag(l.origin, m, rev)
        /\ LongestTag(l.origin, m, rev) \in TagsOf(l.origin, m, rev)
        /\ Len(LongestTag(l.origin, m, rev)) \in Nat \ {0}
    BY <1>2, HitIsLongest, Zenon
  <1>4. RequiredTag(l, m, rev).rev =
          IF \/ (IF Len(hit) = 1 THEN None ELSE SubpathOf(m, rev, hit, c)) = None
             \/ (IF Len(hit) = 1 THEN None ELSE SubpathOf(m, rev, hit, c)) \in Dirs[c]
          THEN c ELSE "none"
    BY <1>1, <1>2, RequiredTagIs, Zenon
  <1> HIDE DEF hit
  <1>5. Len(hit) > 1 => SubpathOf(m, rev, hit, c) \in Dirs[c]
    BY <1>3
  <1>6. Len(hit) = 1 \/ Len(hit) > 1
    <2>1. \A x \in Nat \ {0} : x = 1 \/ x > 1  OBVIOUS
    <2> QED  BY <1>3, <2>1
  <1> HIDE DEF c
  <1>7. RequiredTag(l, m, rev).rev = c  BY <1>4, <1>5, <1>6, Zenon
  <1> QED  BY <1>3, <1>7 DEF c

\* The repository of the longest beginning that is answered for.
LEMMA RepoOfProbe ==
    ASSUME NEW T, NEW m \in Seq(T), NEW k \in 1 .. Len(m),
           \A i \in k + 1 .. Len(m) : Answer(SubSeq(m, 1, i), TRUE, TRUE) = None,
           k < Len(m) => ~OtherVcs(m),
           Answer(SubSeq(m, 1, k), TRUE, TRUE) # None
    PROVE  RepoOf(m) = Answer(SubSeq(m, 1, k), TRUE, TRUE)
  <1> DEFINE answers == {i \in 1 .. Len(m) : Answer(SubSeq(m, 1, i), TRUE, TRUE) # None}
  <1>1. Len(m) \in Nat  BY LenProperties
  <1>2. k \in answers  OBVIOUS
  <1>3. ASSUME NEW i \in answers  PROVE  i <= k
    <2>1. i \in 1 .. Len(m) /\ Answer(SubSeq(m, 1, i), TRUE, TRUE) # None  OBVIOUS
    <2> HIDE DEF answers
    <2>2. i \notin k + 1 .. Len(m)  BY <2>1
    <2> QED  BY <1>1, <2>1, <2>2
  <1>4. Max(answers) = k
    <2>1. Max(answers) \in answers /\ \A y \in answers : y <= Max(answers)
      BY <1>1, <1>2, MaxOf
    <2>2. answers \subseteq 1 .. Len(m)  BY Zenon
    <2> HIDE DEF answers
    <2>3. Max(answers) \in Nat /\ k \in Nat
      <3>1. Max(answers) \in 1 .. Len(m)  BY <2>1, <2>2, Zenon
      <3>2. \A n \in Nat : \A x \in 1 .. n : x \in Nat  OBVIOUS
      <3> QED  BY <1>1, <3>1, <3>2, Zenon
    <2>4. Max(answers) <= k /\ k <= Max(answers)  BY <1>2, <1>3, <2>1
    <2> QED  BY <2>3, <2>4
  <1>5. ~OtherVcs(m)
    <2>1. CASE k < Len(m)  BY <2>1
    <2>2. CASE k = Len(m)
      <3>1. SubSeq(m, 1, k) = m  BY <2>2, SubSeqFull
      <3>2. Answer(m, TRUE, TRUE) # None  BY <3>1
      <3> QED  BY <3>2 DEF Answer, OtherVcs
    <2> QED  BY <1>1, <2>1, <2>2
  <1>6. RepoOf(m) = IF answers = {} \/ OtherVcs(m) THEN None
                    ELSE Answer(SubSeq(m, 1, Max(answers)), TRUE, TRUE)
    BY Zenon DEF RepoOf, OtherVcs
  <1> HIDE DEF answers
  <1> QED  BY <1>2, <1>4, <1>5, <1>6

-----------------------------------------------------------------------------
(* The steps of the first run *)

FirstNow == runs = 1 /\ faults = 0

LEMMA StillFirst ==
    ASSUME GInv, [Next]_vars, FirstNow'
    PROVE  FirstNow /\ UNCHANGED faults /\ ~RunAgain /\ ~Interrupt
  <1>1. runs \in Nat \ {0} /\ faults \in Nat  BY WorldTyped DEF GInv, Counters
  <1>2. ~RunAgain  BY <1>1 DEF FirstNow, RunAgain
  <1>3. ~Interrupt  BY <1>1 DEF FirstNow, Interrupt
  <1>4. runs' = runs
    <2>1. CASE Next
      BY <1>2, <1>3, <2>1 DEF Next, FetchMain, FetchModule, Parse, NextLine, Probe,
         GenSrcUriInc, GenRelocationInc, GenModulesTxt, world
    <2>2. CASE UNCHANGED vars  BY <2>2 DEF vars, world
    <2> QED  BY <2>1, <2>2
  <1>5. faults' = faults \/ faults' = faults + 1
    <2>1. CASE Next
      BY <1>2, <1>3, <2>1 DEF Next, FetchMain, FetchModule, Parse, NextLine, Probe, Answered,
         GenSrcUriInc, GenRelocationInc, GenModulesTxt
    <2>2. CASE UNCHANGED vars  BY <2>2 DEF vars
    <2> QED  BY <2>1, <2>2
  <1> QED  BY <1>1, <1>2, <1>3, <1>4, <1>5 DEF FirstNow

LEMMA AnswersNow ==
    ASSUME FirstNow, UNCHANGED faults, NEW up \in BOOLEAN, Answered(up)
    PROVE  up
  BY DEF FirstNow, Answered

LEMMA ModuleKept == ASSUME UNCHANGED lines  PROVE \A j : ModuleOf(j)' = ModuleOf(j)
  BY DEF ModuleOf, Actual, Replacing, lines

LEMMA CurrentKept == ASSUME UNCHANGED <<lines, next>>  PROVE Current' = Current
  BY DEF Current, Actual, Replacing, lines

LEMMA CheckedOutKept ==
    ASSUME CheckedOut, UNCHANGED <<lines, repos>>, next \in Nat, next' \in Nat, next <= next'
    PROVE  CheckedOut'
  <1>1. \A j : ModuleOf(j)' = ModuleOf(j)  BY ModuleKept
  <1>2. \A a, b \in Nat : a <= b => \A j \in 1 .. a - 1 : j \in 1 .. b - 1  OBVIOUS
  <1>3. \A j \in 1 .. next - 1 : j \in 1 .. next' - 1  BY <1>2
  <1> QED  BY <1>1, <1>3 DEF CheckedOut, ModuleOf

LongestIn(S) == CHOOSE t \in S : \A x \in S : Len(x) <= Len(t)

LEMMA SameExpected ==
    ASSUME UNCHANGED gen, \A i : Actual(require[i])' = Actual(require[i])
    PROVE  \A i : Expected(Actual(require[i]))' = Expected(Actual(require[i]))
  <1>1. \A u, m, rev : TagsOf(u, m, rev)' = TagsOf(u, m, rev)
    BY DEF TagsOf
  <1>2. \A u, m, rev : /\ LongestTag(u, m, rev) = LongestIn(TagsOf(u, m, rev))
                       /\ LongestTag(u, m, rev)' = LongestIn(TagsOf(u, m, rev)')
    BY DEF LongestTag, LongestIn
  <1>3. \A u, m, rev : LongestTag(u, m, rev)' = LongestTag(u, m, rev)
    BY <1>1, <1>2, Zenon
  <1>4. \A line : Expected(line)' = Expected(line)
    BY <1>3, Zenon DEF Expected
  <1> QED  BY <1>4, Zenon

LEMMA LongestKept ==
    ASSUME RevisionOfLongestTag, FirstNow, UNCHANGED <<gen, lines, required>>
    PROVE  RevisionOfLongestTag'
  <1>1. \A j : Actual(require[j])' = Actual(require[j])
    BY DEF Actual, Replacing, lines
  <1>2. \A i : Alone(i)' = Alone(i)  BY <1>1 DEF Alone, lines
  <1>3. \A i : Expected(Actual(require[i]))' = Expected(Actual(require[i]))
    BY <1>1, SameExpected
  <1> QED  BY <1>1, <1>2, <1>3 DEF RevisionOfLongestTag, FirstNow, lines

InFirst == Probing /\ Answers /\ CheckedOut

LEMMA NothingCheckedOut ==
    ASSUME CheckedOut, next = 1
    PROVE  \A b \in Bases : ~repos[b].check
  BY DEF CheckedOut

LEMMA ServedKept ==
    ASSUME UNCHANGED lines, next \in Nat, next' \in Nat, next <= next',
           NEW file, NEW u, Served(file, u)
    PROVE  Served(file, u)'
  <1>1. \A j : ModuleOf(j)' = ModuleOf(j)  BY ModuleKept
  <1>2. \A j \in 1 .. next : j \in 1 .. next'  OBVIOUS
  <1> QED  BY <1>1, <1>2 DEF Served

\* A step that asks nobody.
LEMMA AnswersKept ==
    ASSUME Answers, UNCHANGED <<gen, lines, cache>>, next \in Nat, next' \in Nat, next <= next',
           pc' \notin {"main", "parse"} \/ pc' = pc, pc' = "fetch" => UNCHANGED <<pc, next, url>>
    PROVE  Answers'
  <1>1. gen' = 1 /\ (pc' \in {"main", "parse"} => cache' = <<>>)  BY DEF Answers
  <1>2. \A file \in DOMAIN cache' : Served(file, cache[file])'
    <2>1. cache' = cache  OBVIOUS
    <2>2. \A file \in DOMAIN cache : Served(file, cache[file])  BY DEF Answers
    <2>3. \A j : ModuleOf(j)' = ModuleOf(j)  BY ModuleKept
    <2>4. \A j \in 1 .. next : j \in 1 .. next'  OBVIOUS
    <2> QED  BY <2>1, <2>2, <2>3, <2>4 DEF Served
  <1>3. ASSUME pc' = "fetch"  PROVE Served(CacheFile(Current.m), url)'
    <2>1. UNCHANGED <<pc, next, url>>  BY <1>3
    <2>2. Current' = Current  BY <2>1, CurrentKept
    <2>3. Served(CacheFile(Current.m), url)  BY <1>3, <2>1 DEF Answers
    <2>5. \A j : ModuleOf(j)' = ModuleOf(j)  BY ModuleKept
    <2> QED  BY <2>1, <2>2, <2>3, <2>5 DEF Served
  <1> QED  BY <1>1, <1>2, <1>3 DEF Answers

LEMMA FirstFetchMain ==
    ASSUME GInv, InFirst, FirstNow, NEW up \in BOOLEAN, FetchMain(up), UNCHANGED faults
    PROVE  InFirst'
  <1> DEFINE b == Base(MainUrl)
             l == Cloned(MainUrl)
  <1>1. /\ pc = "main" /\ pc' \in {"parse", "raised"}
        /\ UNCHANGED <<world, lines, next, cache>>
        /\ \E new : /\ repos' = [repos EXCEPT ![b] = new]
                    /\ \/ new = repos[b] \/ new = Absent \/ new = l
                       \/ \E rev : new = [l EXCEPT !.head = rev]
    BY DEF FetchMain
  <1>2. next = 1  BY <1>1 DEF GInv, Fresh
  <1>3. Probing' /\ Answers'
    <2>1. cache' = <<>> /\ gen' = 1  BY <1>1 DEF InFirst, Answers, world
    <2>2. DOMAIN cache' = {}  BY <2>1, EmptySeq
    <2>3. pc' # "probe" /\ pc' # "fetch"  BY <1>1
    <2>4. Probing'  BY <2>3 DEF Probing
    <2> QED  BY <2>1, <2>2, <2>3, <2>4 DEF Answers
  <1>4. PICK new : /\ repos' = [repos EXCEPT ![b] = new]
                   /\ \/ new = repos[b] \/ new = Absent \/ new = l
                      \/ \E rev : new = [l EXCEPT !.head = rev]
    BY <1>1
  <1>5. b \in Bases /\ repos \in [Bases -> Clone]
    BY WorldTyped DEF Bases, GInv, Clones
  <1>6. ~repos[b].check /\ ~Absent.check /\ ~l.check
    BY <1>2, <1>5, NothingCheckedOut DEF InFirst, Absent, Cloned
  <1>7. ASSUME NEW rev  PROVE  [l EXCEPT !.head = rev].check = l.check
    BY DEF Cloned
  <1> HIDE DEF l
  <1>8. ~new.check  BY <1>4, <1>6, <1>7
  <1>9. \A c \in Bases : ~repos'[c].check
    BY <1>2, <1>4, <1>5, <1>8, NothingCheckedOut DEF InFirst
  <1>10. CheckedOut'  BY <1>9 DEF CheckedOut
  <1> QED  BY <1>3, <1>10 DEF InFirst

LEMMA FirstParse ==
    ASSUME GInv, InFirst, Parse
    PROVE  InFirst'
  <1>1. /\ pc = "parse" /\ pc' = "line"
        /\ UNCHANGED <<world, next, cache, repos>>
    BY DEF Parse, disk
  <1>2. next = 1  BY <1>1 DEF GInv, Fresh
  <1>3. Probing' /\ Answers'
    <2>1. cache' = <<>> /\ gen' = 1  BY <1>1 DEF InFirst, Answers, world
    <2> QED  BY <1>1, <2>1, EmptySeq DEF Probing, Answers
  <1>4. CheckedOut'  BY <1>1, <1>2, NothingCheckedOut DEF InFirst, CheckedOut
  <1> QED  BY <1>3, <1>4 DEF InFirst

LEMMA CurrentTyped ==
    ASSUME GInv, next <= Len(require)
    PROVE  Current.m \in Seq(Parts) /\ Len(Current.m) \in Nat \ {0} /\ Current.rev \in Revs
  <1>1. gomod \in GoMods /\ ReadOnce  BY DEF GInv, Counters
  <1>2. require \in Seq(Module)  BY <1>1, LinesTyped
  <1>3. Len(require) \in Nat /\ DOMAIN require = 1 .. Len(require)  BY <1>2, LenProperties
  <1>4. next \in 1 .. Len(require)  BY <1>3 DEF GInv, Handling
  <1>5. Current \in Module /\ Current.m # None  BY <1>1, <1>3, <1>4, ActualOfLine DEF Current
  <1> QED  BY <1>5, EmptySeq DEF Module, None

LEMMA FirstNextLine ==
    ASSUME GInv, InFirst, NextLine
    PROVE  InFirst'
  <1>1. /\ UNCHANGED <<world, lines, next, cache, repos>>
        /\ \/ pc' = "src_uri"
           \/ /\ pc' = "fetch" /\ CacheFile(Current.m) \in DOMAIN cache
              /\ url' = cache[CacheFile(Current.m)]
           \/ pc' = "probe" /\ probe' = Current.m /\ ~(next > Len(require))
    BY DEF NextLine, disk
  <1>2. Current' = Current  BY <1>1, CurrentKept
  <1>3. Answers'
    <2>1. next \in Nat /\ gen' = gen  BY <1>1 DEF GInv, Handling, world
    <2>2. CASE pc' # "fetch"
      BY <1>1, <2>1, <2>2, AnswersKept DEF InFirst
    <2>3. CASE pc' = "fetch"
      <3> DEFINE file == CacheFile(Current.m)
      <3>1. file \in DOMAIN cache /\ url' = cache[file]  BY <1>1, <2>3
      <3>2. file' = file  BY <1>2
      <3> HIDE DEF file
      <3>3. \A f \in DOMAIN cache : Served(f, cache[f])'
        BY <1>1, <2>1, ServedKept DEF InFirst, Answers
      <3>4. Served(file, url)'
        BY <1>1, <3>1, <3>2, <3>3 DEF Served
      <3>5. gen' = 1  BY <2>1 DEF InFirst, Answers
      <3> QED  BY <1>1, <2>3, <3>3, <3>4, <3>5 DEF Answers, file
    <2> QED  BY <2>2, <2>3
  <1>4. Probing'
    <2>1. SUFFICES ASSUME pc' = "probe"  PROVE Probing'  BY DEF Probing
    <2>2. probe' = Current.m /\ ~(next > Len(require))  BY <1>1, <2>1
    <2>3. next \in Nat /\ Len(require) \in Nat
      BY LinesTyped, LenProperties DEF GInv, Counters, Handling
    <2> DEFINE m == Current.m
    <2>4. m \in Seq(Parts) /\ Len(m) \in Nat \ {0}  BY <2>2, <2>3, CurrentTyped
    <2>5. m = SubSeq(m, 1, Len(m))  BY <2>4, SubSeqFull
    <2>6. Len(m) \in 1 .. Len(m) /\ Len(m) + 1 .. Len(m) = {} /\ ~(Len(m) < Len(m))
      BY <2>4
    <2> HIDE DEF m
    <2>7. m' = m /\ probe' = m  BY <1>2, <2>2 DEF m
    <2> QED  BY <2>5, <2>6, <2>7 DEF Probing, m
  <1>5. CheckedOut'
    <2>1. next \in Nat  BY DEF GInv, Handling
    <2> QED  BY <1>1, <2>1, CheckedOutKept DEF InFirst
  <1> QED  BY <1>3, <1>4, <1>5 DEF InFirst

LEMMA ShorterName ==
    ASSUME NEW T, NEW m \in Seq(T), NEW k \in 2 .. Len(m)
    PROVE  /\ Len(SubSeq(m, 1, k)) = k
           /\ Front(SubSeq(m, 1, k)) = SubSeq(m, 1, k - 1)
           /\ Len(SubSeq(m, 1, k - 1)) = k - 1
  <1>1. Len(m) \in Nat  BY LenProperties
  <1>2. \A i \in 1 .. Len(m) : m[i] \in T  BY ElementOfSeq
  <1>3. ASSUME NEW n \in 1 .. Len(m)
        PROVE  SubSeq(m, 1, n) \in Seq(T) /\ Len(SubSeq(m, 1, n)) = n
    <2>1. 1 \in Int /\ n \in Int /\ 1 <= n  OBVIOUS
    <2>2. \A i \in 1 .. n : m[i] \in T  BY <1>1, <1>2
    <2>3. Len(SubSeq(m, 1, n)) = IF 1 <= n THEN n - 1 + 1 ELSE 0
      BY <2>1, <2>2, SubSeqProperties
    <2>4. SubSeq(m, 1, n) \in Seq(T)  BY <2>1, <2>2, SubSeqProperties
    <2>5. \A x \in Int : x - 1 + 1 = x  OBVIOUS
    <2> QED  BY <2>1, <2>3, <2>4, <2>5, Zenon
  <1>4. k \in 1 .. Len(m) /\ k - 1 \in 1 .. Len(m)  BY <1>1
  <1>5. Len(SubSeq(m, 1, k)) = k /\ Len(SubSeq(m, 1, k - 1)) = k - 1  BY <1>3, <1>4
  <1>6. SubSeq(SubSeq(m, 1, k), 1, k - 1) = SubSeq(m, 1, k - 1)
    <2>1. SubSeq(m, 1, k) \in Seq(T)  BY <1>3, <1>4
    <2>2. 1 \in 1 .. Len(m) /\ 1 \in 1 .. k - 1 + 1 /\ k - 1 \in 1 .. k - 1 + 1
      BY <1>1
    <2>3. SubSeq(SubSeq(m, 1, k), 1, k - 1) = SubSeq(m, 1 + 1 - 1, 1 + (k - 1) - 1)
      BY <1>4, <2>1, <2>2, SubSeqOfSubSeq
    <2>4. \A x \in Int : 1 + 1 - 1 = 1 /\ 1 + x - 1 = x  OBVIOUS
    <2>5. k - 1 \in Int  OBVIOUS
    <2> QED  BY <2>3, <2>4, <2>5, Zenon
  <1> QED  BY <1>5, <1>6, Zenon DEF Front

LEMMA FirstProbe ==
    ASSUME GInv, InFirst, FirstNow, UNCHANGED faults,
           NEW wget \in BOOLEAN, NEW pkg \in BOOLEAN, Probe(wget, pkg)
    PROVE  InFirst'
  <1> DEFINE m == Current.m
             k == Len(probe)
             answer == Answer(probe, TRUE, TRUE)
  <1>1. wget = TRUE /\ pkg = TRUE
    <2>1. ~Answered(FALSE)  BY AnswersNow
    <2> QED  BY <2>1 DEF Probe
  <1>2. /\ pc = "probe" /\ UNCHANGED <<world, lines, repos>>
        /\ \/ /\ answer # None /\ url' = answer /\ cache' = Put(cache, CacheFile(m), answer)
              /\ pc' = "fetch" /\ UNCHANGED <<probe, next>>
           \/ answer = None /\ UNCHANGED cache /\ EndLine
           \/ /\ answer = None /\ UNCHANGED <<pc, next, cache>> /\ probe' = Front(probe)
              /\ Len(probe) # 1 /\ (LeavesReason(probe, TRUE, TRUE) => m # probe)
    BY <1>1 DEF Probe
  <1>3. next \in Nat \ {0} /\ next <= Len(require)  BY <1>2 DEF GInv, Handling
  <1>4. m \in Seq(Parts) /\ Len(m) \in Nat \ {0}  BY <1>3, CurrentTyped
  <1>5. /\ k \in 1 .. Len(m) /\ probe = SubSeq(m, 1, k)
        /\ \A i \in k + 1 .. Len(m) : Answer(SubSeq(m, 1, i), TRUE, TRUE) = None
        /\ k < Len(m) => ~OtherVcs(m)
    BY <1>2 DEF InFirst, Probing
  <1>6. gen = 1 /\ gen' = gen /\ Answers /\ \A x \in DOMAIN cache : Served(x, cache[x])
    BY <1>2 DEF InFirst, Answers, world
  <1>7. UNCHANGED next \/ next' = next + 1  BY <1>2 DEF EndLine
  <1>8. CheckedOut'  BY <1>2, <1>3, <1>7, CheckedOutKept DEF InFirst
  <1>9. CASE answer # None /\ url' = answer /\ cache' = Put(cache, CacheFile(m), answer)
             /\ pc' = "fetch" /\ UNCHANGED <<probe, next>>
    <2>1. RepoOf(m) = answer
      <3> HIDE DEF m, k
      <3> QED  BY <1>4, <1>5, <1>9, RepoOfProbe
    <2>2. Current' = Current  BY <1>2, <1>9, CurrentKept
    <2> HIDE DEF answer, m, k
    <2>3. ModuleOf(next) = m /\ ModuleOf(next)' = m /\ m' = m /\ next \in 1 .. next
      BY <1>2, <1>3, <1>9, <2>2, ModuleKept DEF ModuleOf, Current, m
    <2>4. Served(CacheFile(m), answer)'
      <3>1. next' = next  BY <1>9
      <3>2. answer' = answer  BY <1>9 DEF answer
      <3> QED  BY <2>1, <2>3, <3>1, <3>2 DEF Served
    <2>5. Answers'
      <3>1. \A j : ModuleOf(j)' = ModuleOf(j)  BY <1>2, ModuleKept
      <3>2. \A x \in DOMAIN cache' : \/ x = CacheFile(m) /\ cache'[x] = answer
                                     \/ x \in DOMAIN cache /\ cache'[x] = cache[x]
        BY <1>9 DEF Put
      <3>6. next' = next  BY <1>9
      <3>3. \A x \in DOMAIN cache' : Served(x, cache[x])'
        BY <1>6, <2>1, <2>3, <3>1, <3>2, <3>6 DEF Served
      <3>4. Served(CacheFile(Current.m), url)'
        <4>1. (Current.m)' = m /\ url' = RepoOf(m)  BY <1>9, <2>1, <2>3 DEF m
        <4> QED  BY <2>3, <3>6, <4>1 DEF Served
      <3>5. gen' = 1 /\ pc' = "fetch"  BY <1>6, <1>9
      <3> QED  BY <3>3, <3>4, <3>5 DEF Answers
    <2>6. Probing'  BY <1>9 DEF Probing
    <2> QED  BY <1>8, <2>5, <2>6 DEF InFirst
  <1>10. CASE UNCHANGED cache /\ EndLine
    <2>1. pc' = "line" /\ next' = next + 1  BY <1>10 DEF EndLine
    <2>2. Answers'  BY <1>2, <1>3, <1>6, <1>10, <2>1, AnswersKept
    <2> QED  BY <1>8, <2>1, <2>2 DEF InFirst, Probing
  <1>11. CASE /\ answer = None /\ UNCHANGED <<pc, next, cache>> /\ probe' = Front(probe)
              /\ Len(probe) # 1 /\ (LeavesReason(probe, TRUE, TRUE) => m # probe)
    <2>1. Answers'  BY <1>2, <1>3, <1>6, <1>11, AnswersKept
    <2>2. Current' = Current  BY <1>2, <1>11, CurrentKept
    <2>3. k \in 2 .. Len(m)  BY <1>5, <1>11
    <2> DEFINE p == SubSeq(m, 1, k - 1)
    <2>4. probe' = p /\ Len(p) = k - 1
      <3> HIDE DEF m, k
      <3> QED  BY <1>4, <1>5, <1>11, <2>3, ShorterName
    <2>5. ~OtherVcs(m)
      <3>1. CASE k < Len(m)  BY <1>5, <3>1
      <3>2. CASE k = Len(m)
        <4>1. probe = m  BY <1>4, <1>5, <3>2, SubSeqFull
        <4> HIDE DEF m
        <4>2. ~LeavesReason(m, TRUE, TRUE)  BY <1>11, <4>1
        <4> QED  BY <4>2 DEF LeavesReason, OtherVcs
      <3> QED  BY <1>4, <1>5, <3>1, <3>2
    <2>6. ASSUME NEW i \in k .. Len(m)  PROVE Answer(SubSeq(m, 1, i), TRUE, TRUE) = None
      <3>1. CASE i = k  BY <1>5, <1>11, <3>1
      <3>2. CASE i # k
        <4>1. i \in k + 1 .. Len(m)
          <5> HIDE DEF m, k, p
          <5>1. \A a, b, c \in Int : a \in b .. c /\ a # b => a \in b + 1 .. c  OBVIOUS
          <5>2. i \in Int /\ k \in Int /\ Len(m) \in Int  BY <1>4, <2>3
          <5> QED  BY <3>2, <5>1, <5>2
        <4> QED  BY <1>5, <4>1
      <3> QED  BY <3>1, <3>2
    <2> HIDE DEF m, k, p
    <2>7. Len(p) + 1 .. Len(m) = k .. Len(m) /\ Len(p) \in 1 .. Len(m)
      BY <1>4, <2>3, <2>4
    <2>8. m' = m  BY <2>2 DEF m
    <2>9. /\ Len(probe') \in 1 .. Len(m) /\ probe' = SubSeq(m, 1, Len(probe'))
          /\ \A i \in Len(probe') + 1 .. Len(m) : Answer(SubSeq(m, 1, i), TRUE, TRUE) = None
          /\ ~OtherVcs(m)
      <3>1. p = SubSeq(m, 1, Len(p))  BY <2>4 DEF p
      <3> QED  BY <2>4, <2>5, <2>6, <2>7, <3>1, Zenon
    <2>10. Probing'  BY <2>2, <2>9 DEF Probing, m
    <2> QED  BY <1>8, <2>1, <2>10 DEF InFirst
  <1> QED  BY <1>2, <1>9, <1>10, <1>11

LEMMA Unshared ==
    ASSUME GInv, pc = "fetch", Alone(next), NEW j \in 1 .. next - 1
    PROVE  RepoOf(ModuleOf(j)) # RepoOf(Wanted)
  <1>1. next \in 1 .. Len(require) /\ Len(require) \in Nat  BY WantedTyped
  <1>2. require \in Seq(Module) /\ DOMAIN require = 1 .. Len(require)
    BY LinesTyped, LenProperties DEF GInv, Counters
  <1>3. j \in DOMAIN require \ {next}  BY <1>1, <1>2
  <1>4. Wanted = ModuleOf(next)  BY DEF Wanted, Current, ModuleOf
  <1> QED  BY <1>3, <1>4 DEF Alone, ModuleOf

\* No other line has filled the cache file of a module that is alone.
LEMMA OwnAnswer ==
    ASSUME GInv, InFirst, pc = "fetch", Alone(next)
    PROVE  url = RepoOf(Wanted)
  <1>1. PICK j \in 1 .. next : CacheFile(ModuleOf(j)) = CacheFile(Wanted)
                               /\ RepoOf(ModuleOf(j)) = url
    BY DEF InFirst, Answers, Served, Wanted
  <1>2. next \in 1 .. Len(require) /\ Len(require) \in Nat  BY WantedTyped
  <1>3. Wanted = ModuleOf(next)  BY DEF Wanted, Current, ModuleOf
  <1>4. ASSUME j # next  PROVE FALSE
    <2>1. DOMAIN require = 1 .. Len(require)  BY LinesTyped, LenProperties DEF GInv, Counters
    <2>2. j \in DOMAIN require \ {next}  BY <1>2, <1>4, <2>1
    <2>3. ~LookAlike(ModuleOf(j), ModuleOf(next))  BY <2>2 DEF Alone, ModuleOf
    <2> QED  BY <1>1, <1>3, <2>3 DEF LookAlike, CacheFile
  <1> QED  BY <1>1, <1>3, <1>4

\* What is fetched for a module alone in its repository is not on check_subpath.
LEMMA AloneInClone ==
    ASSUME GInv, InFirst, pc = "fetch", url \in DOMAIN Up[gen], Alone(next)
    PROVE  /\ UpToDate(FetchedClone) /\ FetchedClone.origin = url /\ ~FetchedClone.check
           /\ FetchedClone.tags = gen /\ FetchedClone.have = gen
  <1>1. url = RepoOf(Wanted) /\ gen = 1 /\ gen \in Generations
    BY OwnAnswer DEF InFirst, Answers, GInv, Counters
  <1>2. InDir \in Bases /\ UpToDate(FetchedClone) /\ FetchedClone.origin = url  BY InHand
  <1>3. FetchedClone.tags = gen /\ FetchedClone.have = gen  BY <1>1, <1>2 DEF UpToDate
  <1>4. ~FetchedClone.check
    <2>1. CASE MustClone(repos[InDir], url)
      BY <1>1, <2>1, ClonedUpToDate DEF FetchedClone
    <2>2. CASE ~MustClone(repos[InDir], url)
      <3>1. repos[InDir] # Absent /\ repos[InDir].origin = url  BY <2>2 DEF MustClone
      <3>2. FetchedClone.check = repos[InDir].check
        BY <1>1, <1>2, <2>2, <3>1, FetchedUpToDate DEF FetchedClone, GInv
      <3>3. ASSUME repos[InDir].check  PROVE FALSE
        <4>1. PICK j \in 1 .. next - 1 : RepoOf(ModuleOf(j)) = url
          BY <1>2, <3>1, <3>3 DEF InFirst, CheckedOut, ModuleOf
        <4> QED  BY <1>1, <4>1, Unshared
      <3> QED  BY <3>2, <3>3
    <2> QED  BY <2>1, <2>2
  <1> QED  BY <1>2, <1>3, <1>4

\* In a first run a module that is alone is noted as expected.
LEMMA NotedAsExpected ==
    ASSUME GInv, InFirst, FirstNow, UNCHANGED faults, NEW up \in BOOLEAN, FetchModule(up),
           Wanted \in DOMAIN Infos(up), Alone(next)
    PROVE  Noted(up).url = RepoOf(Wanted) /\ Noted(up).srcrev = Expected(Current)
  <1>1. pc = "fetch" /\ url = RepoOf(Wanted) /\ gen = 1
    BY FetchModuleIs, OwnAnswer DEF InFirst, Answers
  <1>2. Wanted \notin DOMAIN repoinfo
    <2>1. SUFFICES ASSUME Wanted \in DOMAIN repoinfo  PROVE FALSE  OBVIOUS
    <2>2. Wanted # MainUrl  BY DEF Alone, Wanted, Current
    <2>3. PICK j \in 1 .. next - 1 : Wanted = ModuleOf(j)
      BY <2>1, <2>2 DEF GInv, Tables, Before, ModuleOf
    <2> QED  BY <1>1, <2>3, Unshared
  <1>3. Got(up).rev # "none"  BY <1>2 DEF Infos
  <1>4. Infos(up)[Wanted] = [url |-> url, rev |-> Got(up).rev]  BY <1>3 DEF Infos, Put
  <1>5. up
    <2>1. SUFFICES ASSUME ~up  PROVE FALSE  OBVIOUS
    <2>2. Got(up) = Nothing  BY <2>1 DEF Got
    <2> QED  BY <1>3, <2>2 DEF Nothing
  <1>6. url \in DOMAIN Up[gen] /\ gen \in Generations
    BY <1>5, FetchModuleIs DEF GInv, Counters
  <1>7. /\ UpToDate(FetchedClone) /\ FetchedClone.origin = url /\ ~FetchedClone.check
        /\ FetchedClone.tags = gen
    BY <1>1, <1>6, AloneInClone
  <1>10. Wanted \in Seq(Parts) /\ Wanted # None /\ Current.rev \in Revs
    BY <1>1, WantedTyped
  <1>11. Got(up) = RequiredRev(FetchedClone, Wanted, Current.rev)  BY <1>5 DEF Got
  <1>12. Got(up).rev = Expected(Current)
    <2>1. CASE Current.rev \in Commits
      <3>1. Got(up) = RequiredCommit(FetchedClone, Wanted, Current.rev)
        BY <1>11, <2>1 DEF RequiredRev
      <3>2. Got(up).rev = Current.rev  BY <1>3, <3>1 DEF RequiredCommit
      <3> QED  BY <2>1, <3>2 DEF Expected
    <2>2. CASE Current.rev \notin Commits
      <3>1. Got(up) = RequiredTag(FetchedClone, Wanted, Current.rev)
        BY <1>11, <2>2 DEF RequiredRev
      <3>2. RequiredTag(FetchedClone, Wanted, Current.rev).rev
              = Up[gen][url].tags[LongestTag(url, Wanted, Current.rev)]
        BY <1>3, <1>6, <1>7, <1>10, <3>1, TagIsLongest
      <3>3. Expected(Current) = Up[gen][url].tags[LongestTag(url, Wanted, Current.rev)]
        BY <1>1, <2>2, Zenon DEF Expected, Wanted
      <3> QED  BY <3>1, <3>2, <3>3
    <2> QED  BY <2>1, <2>2
  <1> QED  BY <1>1, <1>4, <1>12 DEF Noted

LEMMA FirstFetchModule ==
    ASSUME GInv, InFirst, FirstNow, UNCHANGED faults, NEW up \in BOOLEAN, FetchModule(up)
    PROVE  InFirst'
  <1>1. /\ pc = "fetch" /\ pc' = "line" /\ next' = next + 1
        /\ UNCHANGED <<world, cache, lines>>
        /\ repos' = [repos EXCEPT ![InDir] =
             IF ~up THEN (IF MustClone(repos[InDir], url) THEN Absent ELSE @)
             ELSE IF Got(up).moved = "none" THEN FetchedClone
             ELSE [FetchedClone EXCEPT !.head = Got(up).moved, !.check = TRUE]]
    BY FetchModuleIs
  <1>2. Probing' /\ Answers'
    <2>1. next \in Nat /\ gen' = gen  BY <1>1 DEF GInv, Handling, world
    <2>2. Answers'  BY <1>1, <2>1, AnswersKept DEF InFirst
    <2> QED  BY <1>1, <2>2 DEF Probing
  <1>3. next \in Nat \ {0} /\ gen \in Generations /\ repos \in [Bases -> Clone]
    BY DEF GInv, Handling, Clones, Counters
  <1>4. \A j : ModuleOf(j)' = ModuleOf(j)  BY <1>1, ModuleKept
  <1>5. \A j \in 1 .. next - 1 : j \in 1 .. next' - 1  BY <1>1, <1>3
  <1>6. \A j \in 1 .. next : j \in 1 .. next' - 1  BY <1>1, <1>3
  <1>7. \E j \in 1 .. next : RepoOf(ModuleOf(j)) = url  BY <1>1 DEF InFirst, Answers, Served
  <1>8. \A b \in Bases : repos[b].check =>
          \E j \in 1 .. next - 1 : RepoOf(ModuleOf(j)) = repos[b].origin
    BY DEF InFirst, CheckedOut, ModuleOf
  <1>9. ASSUME NEW b \in Bases, repos'[b].check
        PROVE  \E j \in 1 .. next' - 1 : RepoOf(ModuleOf(j)) = repos'[b].origin
    <2>1. CASE repos'[b] = repos[b]  BY <1>5, <1>8, <1>9, <2>1
    <2>2. CASE b = InDir /\ repos'[b] = Absent  BY <1>9, <2>2 DEF Absent
    <2>3. CASE b = InDir /\ up
      <3>1. url \in DOMAIN Up[gen]  BY <2>3, FetchModuleIs
      <3>2. UpToDate(FetchedClone) /\ FetchedClone.origin = url  BY <3>1, InHand
      <3>3. repos'[b] = IF Got(up).moved = "none" THEN FetchedClone
                        ELSE [FetchedClone EXCEPT !.head = Got(up).moved, !.check = TRUE]
        BY <1>1, <1>3, <2>3
      <3>4. repos'[b].origin = url
        <4>1. FetchedClone \in Clone  BY <3>2 DEF UpToDate
        <4> QED  BY <3>2, <3>3, <4>1 DEF Clone
      <3> QED  BY <1>6, <1>7, <3>4
    <2> QED  BY <1>1, <1>3, <2>1, <2>2, <2>3
  <1>10. CheckedOut'  BY <1>4, <1>9 DEF CheckedOut, ModuleOf
  <1> QED  BY <1>2, <1>10 DEF InFirst

LEMMA LongestFetchModule ==
    ASSUME GInv, InFirst, FirstNow, UNCHANGED faults, RevisionOfLongestTag,
           NEW up \in BOOLEAN, FetchModule(up)
    PROVE  RevisionOfLongestTag'
  <1>1. /\ pc = "fetch" /\ UNCHANGED <<world, lines>>
        /\ required' = IF Wanted \in DOMAIN Infos(up) THEN Append(required, Noted(up))
                       ELSE required
    BY FetchModuleIs
  <1>2. gen' = gen /\ require' = require  BY <1>1 DEF world, lines
  <1>3. CASE Wanted \notin DOMAIN Infos(up)
    BY <1>1, <1>2, <1>3, LongestKept
  <1>4. CASE Wanted \in DOMAIN Infos(up)
    <2>1. required \in Seq(Entry) /\ Noted(up) \in Entry
      BY <1>4, NotedTyped DEF GInv, Tables
    <2>2. \A j \in DOMAIN required' :
            (j \in DOMAIN required /\ required'[j] = required[j]) \/ required'[j] = Noted(up)
      BY <1>1, <1>4, <2>1, Appended
    <2>3. \A i : Actual(require[i])' = Actual(require[i])
      BY <1>1 DEF Actual, Replacing, lines
    <2>4. \A i : Alone(i)' = Alone(i)  BY <2>3, <1>2 DEF Alone
    <2>5. \A i : Expected(Actual(require[i]))' = Expected(Actual(require[i]))
      BY <1>1, <2>3, SameExpected DEF world
    <2>6. ASSUME NEW i \in DOMAIN require, NEW j \in DOMAIN required',
                 Alone(i), required'[j].m = require[i].m
          PROVE  /\ required'[j].url = RepoOf(Actual(require[i]).m)
                 /\ required'[j].srcrev = Expected(Actual(require[i]))
      <3>1. CASE j \in DOMAIN required /\ required'[j] = required[j]
        BY <2>6, <3>1 DEF RevisionOfLongestTag, FirstNow
      <3>2. CASE required'[j] = Noted(up)
        <4>1. next \in DOMAIN require  BY <1>1, WantedTyped
        <4>2. require[i].m = require[next].m  BY <2>6, <3>2 DEF Noted
        <4>3. i = next  BY <4>1, <4>2, LinesTyped DEF GInv, Counters
        <4>4. Alone(next) /\ Current = Actual(require[i]) /\ Wanted = Actual(require[i]).m
          BY <2>6, <4>3 DEF Current, Wanted
        <4> QED  BY <1>4, <3>2, <4>4, NotedAsExpected
      <3> QED  BY <2>2, <3>1, <3>2
    <2> QED  BY <1>2, <2>3, <2>4, <2>5, <2>6 DEF RevisionOfLongestTag
  <1> QED  BY <1>3, <1>4

LEMMA FirstRest ==
    ASSUME GInv, InFirst, \/ GenSrcUriInc \/ GenRelocationInc \/ GenModulesTxt
                          \/ UNCHANGED vars
    PROVE  InFirst'
  <1>1. /\ UNCHANGED <<world, repos, lines, next, cache, probe, url>>
        /\ pc' \in {"main", "parse", "probe", "fetch"} => pc' = pc
    BY DEF GenSrcUriInc, GenRelocationInc, GenModulesTxt, vars, disk
  <1>2. Current' = Current  BY <1>1, CurrentKept
  <1>3. Probing'  BY <1>1, <1>2 DEF InFirst, Probing, world
  <1>4. next \in Nat /\ gen' = gen  BY <1>1 DEF GInv, Handling, world
  <1>6. Answers'  BY <1>1, <1>4, AnswersKept DEF InFirst
  <1>5. CheckedOut'  BY <1>1, <1>4, CheckedOutKept DEF InFirst
  <1> QED  BY <1>3, <1>5, <1>6 DEF InFirst

LEMMA NextFirst == ASSUME LInv, [Next]_vars, FirstNow'  PROVE InFirst' /\ RevisionOfLongestTag'
  <1>1. FirstNow /\ UNCHANGED faults /\ ~RunAgain /\ ~Interrupt /\ GInv
    BY StillFirst DEF LInv
  <1>2. InFirst /\ RevisionOfLongestTag
    BY <1>1 DEF LInv, FirstRun, FirstNow, InFirst
  <1>3. CASE UNCHANGED <<gen, lines, required>> /\ InFirst'
    BY <1>1, <1>2, <1>3, LongestKept
  <1>4. ASSUME NEW up \in BOOLEAN, FetchMain(up)  PROVE InFirst' /\ RevisionOfLongestTag'
    <2>1. UNCHANGED <<gen, lines, required>>  BY <1>4 DEF FetchMain, world, tables
    <2> QED  BY <1>1, <1>2, <1>3, <1>4, <2>1, FirstFetchMain
  <1>5. ASSUME NEW up \in BOOLEAN, FetchModule(up)  PROVE InFirst' /\ RevisionOfLongestTag'
    BY <1>1, <1>2, <1>5, FirstFetchModule, LongestFetchModule
  <1>6. CASE Parse
    <2>1. required = <<>> /\ UNCHANGED required
      BY <1>1, <1>6 DEF GInv, Fresh, Parse, tables
    <2>2. RevisionOfLongestTag'  BY <2>1 DEF RevisionOfLongestTag
    <2> QED  BY <1>1, <1>2, <1>6, <2>2, FirstParse
  <1>7. CASE NextLine
    <2>1. UNCHANGED <<gen, lines, required>>  BY <1>7 DEF NextLine, world, tables
    <2> QED  BY <1>1, <1>2, <1>3, <1>7, <2>1, FirstNextLine
  <1>8. ASSUME NEW wget \in BOOLEAN, NEW pkg \in BOOLEAN, Probe(wget, pkg)
        PROVE  InFirst' /\ RevisionOfLongestTag'
    <2>1. UNCHANGED <<gen, lines, required>>  BY <1>8 DEF Probe, world
    <2> QED  BY <1>1, <1>2, <1>3, <1>8, <2>1, FirstProbe
  <1>9. CASE \/ GenSrcUriInc \/ GenRelocationInc \/ GenModulesTxt \/ UNCHANGED vars
    <2>1. UNCHANGED <<gen, lines, required>>
      BY <1>9 DEF GenSrcUriInc, GenRelocationInc, GenModulesTxt, vars, world, tables
    <2> QED  BY <1>1, <1>2, <1>3, <1>9, <2>1, FirstRest
  <1> QED  BY <1>1, <1>4, <1>5, <1>6, <1>7, <1>8, <1>9, Zenon DEF Next

LEMMA InitLInv == Init => LInv
  <1> SUFFICES ASSUME Init  PROVE LInv  OBVIOUS
  <1>1. GInv  BY InitGInv
  <1>2. Probing /\ Answers  BY DEF Init, Probing, Answers
  <1>3. CheckedOut  BY DEF Init, CheckedOut, Absent
  <1>4. RevisionOfLongestTag  BY DEF Init, RevisionOfLongestTag
  <1> QED  BY <1>1, <1>2, <1>3, <1>4 DEF LInv, FirstRun

LEMMA NextLInv == LInv /\ [Next]_vars => LInv'
  <1> SUFFICES ASSUME LInv, [Next]_vars  PROVE LInv'  OBVIOUS
  <1>1. GInv'  BY NextGInv DEF LInv
  <1>2. CASE FirstNow'
    <2>1. InFirst' /\ RevisionOfLongestTag'  BY <1>2, NextFirst
    <2> QED  BY <1>1, <2>1 DEF LInv, FirstRun, InFirst
  <1>3. CASE ~FirstNow'
    BY <1>1, <1>3 DEF LInv, FirstRun, FirstNow, RevisionOfLongestTag
  <1> QED  BY <1>2, <1>3

(***************************************************************************)
(* get_repo_url_rev and get_requiredrev: in a first run that reaches the   *)
(* network a module alone in its repository and with its cache file gets   *)
(* the repository of the longest beginning of its name that anybody        *)
(* answers for, and of it the commit go.mod names or that of the longest   *)
(* tag.                                                                    *)
(***************************************************************************)
THEOREM GoModRevisionOfLongestTag == Spec => []RevisionOfLongestTag
  <1>1. LInv => RevisionOfLongestTag  BY DEF LInv
  <1> QED  BY <1>1, InitLInv, NextLInv, PTL DEF Spec

-----------------------------------------------------------------------------
(* The characters of a path *)

\* f counts the characters of the first n parts.
Counts(path, n, f) ==
    f = [i \in 0 .. n |-> IF i = 0 THEN 0 ELSE f[i - 1] + Width[path[i]] + 1]

LEMMA OneMorePart ==
    ASSUME NEW path, NEW n \in Nat, NEW f, Counts(path, n, f)
    PROVE  \E g : Counts(path, n + 1, g)
  <1>0. \A i \in 1 .. n : f[i] = f[i - 1] + Width[path[i]] + 1  BY DEF Counts
  <1> DEFINE g == [i \in 0 .. n + 1 |->
                     IF i = n + 1 THEN f[n] + Width[path[n + 1]] + 1 ELSE f[i]]
  <1>1. ASSUME NEW i \in 0 .. n + 1
        PROVE  g[i] = IF i = 0 THEN 0 ELSE g[i - 1] + Width[path[i]] + 1
    <2>1. CASE i = n + 1
      <3>1. g[i] = f[n] + Width[path[n + 1]] + 1 /\ g[i - 1] = f[n]  BY <2>1
      <3> QED  BY <3>1, <2>1
    <2>2. CASE i \in 1 .. n
      <3>1. g[i] = f[i] /\ g[i - 1] = f[i - 1]  BY <2>2
      <3>2. f[i] = f[i - 1] + Width[path[i]] + 1  BY <1>0, <2>2
      <3> QED  BY <3>1, <3>2, <2>2
    <2>3. CASE i = 0
      <3>1. g[i] = f[i] /\ f[0] = 0  BY <2>3 DEF Counts
      <3> QED  BY <3>1, <2>3
    <2> QED  BY <2>1, <2>2, <2>3
  <1>2. g = [i \in 0 .. n + 1 |-> IF i = 0 THEN 0 ELSE g[i - 1] + Width[path[i]] + 1]
    BY <1>1, Zenon
  <1> QED  BY <1>2 DEF Counts

LEMMA EveryPathIsCounted ==
    ASSUME NEW path, NEW n \in Nat
    PROVE  \E f : Counts(path, n, f)
  <1> DEFINE Bad == {k \in Nat : ~ \E f : Counts(path, k, f)}
  <1>1. SUFFICES ASSUME Bad # {}  PROVE FALSE  OBVIOUS
  <1>2. PICK k \in Bad : \A y \in Bad : k <= y  BY <1>1, Least
  <1>3. Counts(path, 0, [i \in 0 .. 0 |-> 0])  BY DEF Counts
  <1>4. k # 0  BY <1>2, <1>3
  <1>5. k - 1 \in Nat /\ k - 1 \notin Bad /\ k - 1 + 1 = k  BY <1>2, <1>4
  <1>6. PICK f : Counts(path, k - 1, f)  BY <1>5
  <1>7. \E g : Counts(path, k, g)  BY <1>5, <1>6, OneMorePart
  <1> QED  BY <1>2, <1>7

LEMMA CharsCounts ==
    ASSUME NEW path \in Seq(Parts)
    PROVE  \E f : Counts(path, Len(path), f) /\ Chars(path) = f[Len(path)]
  <1>1. Chars(path) = (CHOOSE f : Counts(path, Len(path), f))[Len(path)]
    BY Zenon DEF Chars, Counts
  <1>2. Len(path) \in Nat  BY LenProperties
  <1> QED  BY <1>1, <1>2, EveryPathIsCounted

\* Every part has a character, its slash.
LEMMA CountsGrow ==
    ASSUME NEW path \in Seq(Parts), NEW f, Counts(path, Len(path), f)
    PROVE  /\ \A i \in 0 .. Len(path) : f[i] \in Nat
           /\ \A i, j \in 0 .. Len(path) : i < j => f[i] < f[j]
  <1>1. Len(path) \in Nat  BY LenProperties
  <1>2. f[0] = 0 /\ \A i \in 1 .. Len(path) : f[i] = f[i - 1] + Width[path[i]] + 1
    BY <1>1 DEF Counts
  <1>3. \A i \in 1 .. Len(path) : Width[path[i]] \in Nat
    <2>1. \A i \in 1 .. Len(path) : path[i] \in Parts  BY ElementOfSeq
    <2> QED  BY <2>1, WidthTyped
  <1> DEFINE Bad == {k \in 0 .. Len(path) :
                       ~(f[k] \in Nat /\ \A i \in 0 .. k : i < k => f[i] < f[k])}
  <1>4. Bad = {}
    <2>1. SUFFICES ASSUME Bad # {}  PROVE FALSE  OBVIOUS
    <2>2. PICK k \in Bad : \A y \in Bad : k <= y
      <3>1. Bad \in SUBSET Nat  BY <1>1
      <3> QED  BY <2>1, <3>1, Least
    <2>3. k # 0  BY <2>2, <1>2
    <2>4. k \in 1 .. Len(path) /\ k - 1 \in 0 .. Len(path) /\ k - 1 \notin Bad
      BY <2>2, <2>3, <1>1
    <2>5. f[k - 1] \in Nat /\ \A i \in 0 .. k - 1 : i < k - 1 => f[i] < f[k - 1]  BY <2>4
    <2>6. f[k] \in Nat /\ f[k - 1] < f[k]  BY <2>4, <2>5, <1>2, <1>3
    <2>7. \A i \in 0 .. k - 1 : i = k - 1 \/ i < k - 1  BY <2>4
    <2>8. \A i \in 0 .. k : i < k => i \in 0 .. k - 1  BY <2>4
    <2>9. \A i \in 0 .. k - 1 : f[i] \in Nat
      <3>1. ASSUME NEW i \in 0 .. k - 1  PROVE f[i] \in Nat
        <4>1. i \in 0 .. Len(path) /\ i \notin Bad  BY <2>2, <2>4, <1>1
        <4> QED  BY <4>1
      <3> QED  BY <3>1
    <2>10. ASSUME NEW i \in 0 .. k, i < k  PROVE f[i] < f[k]
      <3>1. i \in 0 .. k - 1  BY <2>8, <2>10
      <3>2. CASE i = k - 1  BY <2>6, <3>2
      <3>3. CASE i < k - 1
        <4>1. f[i] < f[k - 1]  BY <2>5, <3>1, <3>3
        <4> QED  BY <2>5, <2>6, <2>9, <3>1, <4>1
      <3> QED  BY <2>7, <3>1, <3>2, <3>3
    <2> QED  BY <2>2, <2>6, <2>10
  <1>5. \A k \in 0 .. Len(path) : f[k] \in Nat /\ \A i \in 0 .. k : i < k => f[i] < f[k]
    BY <1>4
  <1>6. \A i, j \in 0 .. Len(path) : i < j => i \in 0 .. j  BY <1>1
  <1> QED  BY <1>5, <1>6

LEMMA SameCounts ==
    ASSUME NEW s \in Seq(Parts), NEW t \in Seq(Parts), NEW f, NEW g,
           Counts(s, Len(s), f), Counts(t, Len(t), g),
           Len(s) <= Len(t), \A i \in 1 .. Len(s) : s[i] = t[i]
    PROVE  \A i \in 0 .. Len(s) : f[i] = g[i]
  <1>1. Len(s) \in Nat /\ Len(t) \in Nat  BY LenProperties
  <1>2. f[0] = 0 /\ \A i \in 1 .. Len(s) : f[i] = f[i - 1] + Width[s[i]] + 1
    BY <1>1 DEF Counts
  <1>3. g[0] = 0 /\ \A i \in 1 .. Len(t) : g[i] = g[i - 1] + Width[t[i]] + 1
    BY <1>1 DEF Counts
  <1> DEFINE Bad == {k \in 0 .. Len(s) : f[k] # g[k]}
  <1>4. Bad = {}
    <2>1. SUFFICES ASSUME Bad # {}  PROVE FALSE  OBVIOUS
    <2>2. PICK k \in Bad : \A y \in Bad : k <= y
      <3>1. Bad \in SUBSET Nat  BY <1>1
      <3> QED  BY <2>1, <3>1, Least
    <2>3. k # 0  BY <2>2, <1>2, <1>3
    <2>4. k \in 1 .. Len(s) /\ k \in 1 .. Len(t) /\ k - 1 \in 0 .. Len(s) /\ k - 1 \notin Bad
      BY <2>2, <2>3, <1>1
    <2>5. f[k - 1] = g[k - 1] /\ s[k] = t[k]  BY <2>4
    <2>6. f[k] = f[k - 1] + Width[s[k]] + 1 /\ g[k] = g[k - 1] + Width[t[k]] + 1
      BY <2>4, <1>2, <1>3
    <2> QED  BY <2>2, <2>5, <2>6
  <1> QED  BY <1>4

LEMMA PrefixIs ==
    ASSUME NEW s \in Seq(Parts), NEW t \in Seq(Parts), IsPrefix(s, t)
    PROVE  Len(s) <= Len(t) /\ \A i \in 1 .. Len(s) : s[i] = t[i]
  <1>1. Len(s) \in Nat /\ Len(t) \in Nat /\ Len(s) <= Len(t)
        /\ SubSeq(s, 1, Len(s)) = SubSeq(t, 1, Len(s))
    BY LenProperties DEF IsPrefix
  <1>2. SubSeq(s, 1, Len(s)) = s  BY SubSeqFull
  <1>3. \A i \in 1 .. Len(s) : SubSeq(t, 1, Len(s))[i] = t[i]
    <2>1. 1 \in Int /\ Len(s) \in Int  BY <1>1
    <2>2. \A i \in 1 .. Len(s) : t[i] \in Parts
      <3>1. \A i \in 1 .. Len(t) : t[i] \in Parts  BY ElementOfSeq
      <3>2. 1 .. Len(s) \subseteq 1 .. Len(t)  BY <1>1
      <3> QED  BY <3>1, <3>2
    <2>3. \A i \in 1 .. Len(s) - 1 + 1 : SubSeq(t, 1, Len(s))[i] = t[1 + i - 1]
      BY <2>1, <2>2, SubSeqProperties
    <2>4. \A i \in 1 .. Len(s) : i \in 1 .. Len(s) - 1 + 1 /\ 1 + i - 1 = i  BY <1>1
    <2> QED  BY <2>3, <2>4
  <1> QED  BY <1>1, <1>2, <1>3

LEMMA CharsTyped ==
    ASSUME NEW path \in Seq(Parts)
    PROVE  Chars(path) \in Nat
  <1>1. PICK f : Counts(path, Len(path), f) /\ Chars(path) = f[Len(path)]  BY CharsCounts
  <1>2. Len(path) \in 0 .. Len(path)  BY LenProperties
  <1> QED  BY <1>1, <1>2, CountsGrow

\* A directory above another has the shorter path.
LEMMA CharsOfPrefix ==
    ASSUME NEW s \in Seq(Parts), NEW t \in Seq(Parts), IsPrefix(s, t), s # t
    PROVE  Chars(s) < Chars(t)
  <1>1. PICK f : Counts(s, Len(s), f) /\ Chars(s) = f[Len(s)]  BY CharsCounts
  <1>2. PICK g : Counts(t, Len(t), g) /\ Chars(t) = g[Len(t)]  BY CharsCounts
  <1>3. Len(s) <= Len(t) /\ \A i \in 1 .. Len(s) : s[i] = t[i]  BY PrefixIs
  <1>4. Len(s) \in Nat /\ Len(t) \in Nat  BY LenProperties
  <1>5. f[Len(s)] = g[Len(s)]  BY <1>1, <1>2, <1>3, <1>4, SameCounts
  <1>6. Len(s) < Len(t)
    <2>1. ASSUME Len(s) = Len(t)  PROVE s = t  BY <1>3, <2>1, SeqEqual
    <2> QED  BY <1>3, <1>4, <2>1
  <1>7. Len(s) \in 0 .. Len(t) /\ Len(t) \in 0 .. Len(t)  BY <1>3, <1>4
  <1>8. g[Len(s)] < g[Len(t)]  BY <1>2, <1>6, <1>7, CountsGrow
  <1> QED  BY <1>1, <1>2, <1>5, <1>8

-----------------------------------------------------------------------------
(* Unpacking one after the other *)

\* f are the trees after the first entries of the list.
Unpacks(list, n, f) ==
    f = [i \in 0 .. n |-> IF i = 0 THEN {} ELSE Replaced(f[i - 1], list[i])]

LEMMA UnpacksNext ==
    ASSUME NEW list, NEW n \in Nat, NEW f, Unpacks(list, n, f)
    PROVE  f[0] = {} /\ \A i \in 1 .. n : f[i] = Replaced(f[i - 1], list[i])
  <1>1. \A i \in 0 .. n : f[i] = IF i = 0 THEN {} ELSE Replaced(f[i - 1], list[i])
    BY Zenon DEF Unpacks
  <1>2. 0 \in 0 .. n /\ \A i \in 1 .. n : i \in 0 .. n /\ i # 0  OBVIOUS
  <1> QED  BY <1>1, <1>2, Zenon

LEMMA OneMoreEntry ==
    ASSUME NEW list, NEW n \in Nat, NEW f, Unpacks(list, n, f)
    PROVE  \E g : Unpacks(list, n + 1, g)
  <1>0. f[0] = {} /\ \A i \in 1 .. n : f[i] = Replaced(f[i - 1], list[i])
    BY UnpacksNext
  <1> DEFINE g == [i \in 0 .. n + 1 |->
                     IF i = n + 1 THEN Replaced(f[n], list[n + 1]) ELSE f[i]]
  <1>1. ASSUME NEW i \in 0 .. n + 1
        PROVE  g[i] = IF i = 0 THEN {} ELSE Replaced(g[i - 1], list[i])
    <2>1. CASE i = n + 1
      <3>1. g[i] = Replaced(f[n], list[n + 1]) /\ g[i - 1] = f[n]  BY <2>1
      <3> QED  BY <3>1, <2>1
    <2>2. CASE i \in 1 .. n
      <3>1. g[i] = f[i] /\ g[i - 1] = f[i - 1]  BY <2>2
      <3> QED  BY <1>0, <3>1, <2>2
    <2>3. CASE i = 0
      <3>1. g[i] = f[i] /\ f[0] = {}  BY <1>0, <2>3
      <3> QED  BY <3>1, <2>3
    <2> QED  BY <2>1, <2>2, <2>3
  <1>2. g = [i \in 0 .. n + 1 |-> IF i = 0 THEN {} ELSE Replaced(g[i - 1], list[i])]
    BY <1>1, Zenon
  <1> QED  BY <1>2 DEF Unpacks

LEMMA EveryListIsUnpacked ==
    ASSUME NEW list, NEW n \in Nat
    PROVE  \E f : Unpacks(list, n, f)
  <1> DEFINE Bad == {k \in Nat : ~ \E f : Unpacks(list, k, f)}
  <1>1. SUFFICES ASSUME Bad # {}  PROVE FALSE  OBVIOUS
  <1>2. PICK k \in Bad : \A y \in Bad : k <= y  BY <1>1, Least
  <1>3. Unpacks(list, 0, [i \in 0 .. 0 |-> {}])  BY DEF Unpacks
  <1>4. k # 0  BY <1>2, <1>3
  <1>5. k - 1 \in Nat /\ k - 1 \notin Bad /\ k - 1 + 1 = k  BY <1>2, <1>4
  <1>6. PICK f : Unpacks(list, k - 1, f)  BY <1>5
  <1>7. \E g : Unpacks(list, k, g)  BY <1>5, <1>6, OneMoreEntry
  <1> QED  BY <1>2, <1>7

\* An entry is there in the end when none behind it is above it.
LEMMA Survives ==
    ASSUME NEW list, Len(list) \in Nat, NEW i \in 1 .. Len(list),
           \A j \in i + 1 .. Len(list) : ~IsPrefix(list[j].dest, list[i].dest)
    PROVE  list[i] \in Unpacked(list)
  <1> DEFINE f == Unpacking(list)
             n == Len(list)
             Bad == {k \in i .. n : list[i] \notin f[k]}
  <1>1. Unpacks(list, n, f)
    <2>1. Unpacking(list) = CHOOSE g : Unpacks(list, n, g)  BY Zenon DEF Unpacking, Unpacks
    <2> QED  BY <2>1, EveryListIsUnpacked
  <1> HIDE DEF f
  <1>2. \A k \in 1 .. n : f[k] = Replaced(f[k - 1], list[k])  BY <1>1, UnpacksNext
  <1>3. Bad = {}
    <2>1. SUFFICES ASSUME Bad # {}  PROVE FALSE  OBVIOUS
    <2>2. PICK k \in Bad : \A y \in Bad : k <= y
      <3>1. Bad \in SUBSET Nat  OBVIOUS
      <3> QED  BY <2>1, <3>1, Least
    <2>3. k \in 1 .. n /\ f[k] = Replaced(f[k - 1], list[k])  BY <1>2, <2>2
    <2>4. k # i  BY <2>2, <2>3 DEF Replaced
    <2>5. k \in i + 1 .. n /\ k - 1 \in i .. n /\ k - 1 \notin Bad  BY <2>2, <2>4
    <2>6. list[i] \in f[k - 1] /\ ~IsPrefix(list[k].dest, list[i].dest)  BY <2>5
    <2>7. list[i] \in f[k]  BY <2>3, <2>6 DEF Replaced
    <2> QED  BY <2>2, <2>7
  <1>4. n \in i .. n  OBVIOUS
  <1>5. list[i] \in f[n]  BY <1>3, <1>4
  <1> QED  BY <1>5 DEF Unpacked, f

-----------------------------------------------------------------------------
(* list.sort *)

Ahead(key, i, j) == key[i] < key[j] \/ (key[i] = key[j] /\ i < j)

\* p puts the first n in order.
Orders(key, n, p) ==
    /\ p \in [1 .. n -> 1 .. n]
    /\ \A v \in 1 .. n : \E i \in 1 .. n : p[i] = v
    /\ \A i, j \in 1 .. n : i < j => Ahead(key, p[i], p[j])

LEMMA AheadOrder ==
    ASSUME NEW n \in Nat, NEW key \in [1 .. n -> Nat]
    PROVE  /\ \A i, j, k \in 1 .. n : Ahead(key, i, j) /\ Ahead(key, j, k) => Ahead(key, i, k)
           /\ \A i \in 1 .. n : ~Ahead(key, i, i)
           /\ \A i, j \in 1 .. n : i = j \/ Ahead(key, i, j) \/ Ahead(key, j, i)
  BY DEF Ahead

\* One more is put in front of those it is ahead of.
LEMMA OneMoreInOrder ==
    ASSUME NEW n \in Nat, NEW key \in [1 .. n + 1 -> Nat], NEW p, Orders(key, n, p)
    PROVE  \E q : Orders(key, n + 1, q)
  <1> DEFINE new == n + 1
             Behind == {k \in 1 .. n : Ahead(key, new, p[k])} \cup {new}
  <1>1. PICK at \in Behind : \A k \in Behind : at <= k
    <2>1. Behind \in SUBSET Nat /\ new \in Behind  OBVIOUS
    <2> QED  BY <2>1, Least
  <1>2. at \in 1 .. n + 1 /\ (at \in 1 .. n => Ahead(key, new, p[at]))
    BY <1>1
  <1>3. \A k \in 1 .. n : k < at => ~Ahead(key, new, p[k])
    BY <1>1, <1>2
  <1> HIDE DEF Behind
  <1>4. /\ \A i, j, k \in 1 .. n + 1 : Ahead(key, i, j) /\ Ahead(key, j, k) => Ahead(key, i, k)
        /\ \A i \in 1 .. n + 1 : ~Ahead(key, i, i)
        /\ \A i, j \in 1 .. n + 1 : i = j \/ Ahead(key, i, j) \/ Ahead(key, j, i)
    <2>1. n + 1 \in Nat  OBVIOUS
    <2> QED  BY <2>1, AheadOrder
  <1>5. /\ \A k \in 1 .. n : p[k] \in 1 .. n /\ p[k] \in 1 .. n + 1 /\ p[k] # new
        /\ \A v \in 1 .. n : \E i \in 1 .. n : p[i] = v
        /\ \A i, j \in 1 .. n : i < j => Ahead(key, p[i], p[j])
        /\ new \in 1 .. n + 1
    <2>1. \A k \in 1 .. n : p[k] \in 1 .. n  BY DEF Orders
    <2>2. \A v \in 1 .. n : v \in 1 .. n + 1 /\ v # new  OBVIOUS
    <2>3. new \in 1 .. n + 1  OBVIOUS
    <2> QED  BY <2>1, <2>2, <2>3 DEF Orders
  <1> DEFINE q == [k \in 1 .. n + 1 |-> IF k < at THEN p[k]
                                        ELSE IF k = at THEN new ELSE p[k - 1]]
  <1>6. /\ \A k \in 1 .. n + 1 : k < at => k \in 1 .. n /\ q[k] = p[k]
        /\ q[at] = new
        /\ \A k \in 1 .. n + 1 : at < k => k - 1 \in 1 .. n /\ q[k] = p[k - 1]
    BY <1>2
  <1>7. q \in [1 .. n + 1 -> 1 .. n + 1]
    <2>1. ASSUME NEW k \in 1 .. n + 1  PROVE q[k] \in 1 .. n + 1
      <3>1. CASE k < at  BY <1>5, <1>6, <3>1
      <3>2. CASE k = at  BY <1>5, <1>6, <3>2
      <3>3. CASE at < k  BY <1>5, <1>6, <3>3
      <3> QED  BY <1>2, <3>1, <3>2, <3>3
    <2> QED  BY <2>1, Zenon
  <1> HIDE DEF q, new
  <1>8. ASSUME NEW v \in 1 .. n + 1  PROVE \E i \in 1 .. n + 1 : q[i] = v
    <2>1. CASE v = new  BY <1>2, <1>6, <2>1
    <2>2. CASE v # new
      <3>1. v \in 1 .. n  BY <2>2 DEF new
      <3>2. PICK i \in 1 .. n : p[i] = v  BY <3>1, <1>5
      <3>3. CASE i < at
        <4>1. i \in 1 .. n + 1  OBVIOUS
        <4> QED  BY <1>6, <3>2, <3>3, <4>1
      <3>4. CASE ~(i < at)
        <4>1. i + 1 \in 1 .. n + 1 /\ at < i + 1 /\ i + 1 - 1 = i  BY <1>2, <3>4
        <4> QED  BY <1>6, <3>2, <4>1
      <3> QED  BY <3>3, <3>4
    <2> QED  BY <2>1, <2>2
  <1>9. ASSUME NEW k \in 1 .. n, k < at  PROVE  Ahead(key, p[k], new)
    BY <1>3, <1>4, <1>5, <1>9
  <1>10. ASSUME NEW k \in 1 .. n, ~(k < at)  PROVE  Ahead(key, new, p[k])
    <2>1. at \in 1 .. n /\ Ahead(key, new, p[at])  BY <1>2, <1>10
    <2>2. CASE k = at  BY <2>1, <2>2
    <2>3. CASE at < k
      <3>1. Ahead(key, p[at], p[k])  BY <1>5, <2>1, <2>3
      <3> QED  BY <1>4, <1>5, <2>1, <3>1
    <2> QED  BY <1>2, <1>10, <2>2, <2>3
  <1>11. ASSUME NEW i \in 1 .. n + 1, NEW j \in 1 .. n + 1, i < j
         PROVE  Ahead(key, q[i], q[j])
    <2>1. CASE j < at
      <3>1. i < at  BY <1>2, <1>11, <2>1
      <3> QED  BY <1>5, <1>6, <1>11, <2>1, <3>1
    <2>2. CASE j = at
      <3>1. i < at  BY <1>11, <2>2
      <3> QED  BY <1>6, <1>9, <2>2, <3>1
    <2>3. CASE at < j /\ i < at
      <3>1. j - 1 \in 1 .. n /\ q[j] = p[j - 1] /\ ~(j - 1 < at)  BY <1>2, <1>6, <2>3
      <3>2. i \in 1 .. n /\ q[i] = p[i]  BY <1>6, <2>3
      <3>3. Ahead(key, p[i], new) /\ Ahead(key, new, p[j - 1])  BY <1>9, <1>10, <2>3, <3>1, <3>2
      <3> QED  BY <1>4, <1>5, <3>1, <3>2, <3>3
    <2>4. CASE at < j /\ i = at
      <3>1. j - 1 \in 1 .. n /\ q[j] = p[j - 1] /\ ~(j - 1 < at)  BY <1>2, <1>6, <2>4
      <3> QED  BY <1>6, <1>10, <2>4, <3>1
    <2>5. CASE at < j /\ at < i
      <3>1. i - 1 \in 1 .. n /\ j - 1 \in 1 .. n /\ q[i] = p[i - 1] /\ q[j] = p[j - 1]
        BY <1>6, <2>5
      <3>2. i - 1 < j - 1  BY <1>11
      <3> QED  BY <1>5, <3>1, <3>2
    <2> QED  BY <1>2, <2>1, <2>2, <2>3, <2>4, <2>5
  <1>12. Orders(key, n + 1, q)  BY <1>7, <1>8, <1>11 DEF Orders
  <1> QED  BY <1>12

LEMMA OrderExists ==
    ASSUME NEW n \in Nat, NEW key \in [1 .. n -> Nat]
    PROVE  \E p : Orders(key, n, p)
  <1> DEFINE Bad == {k \in 0 .. n : ~ \E p : Orders(key, k, p)}
  <1>1. Bad = {}
    <2>1. SUFFICES ASSUME Bad # {}  PROVE FALSE  OBVIOUS
    <2>2. PICK k \in Bad : \A y \in Bad : k <= y
      <3>1. Bad \in SUBSET Nat  OBVIOUS
      <3> QED  BY <2>1, <3>1, Least
    <2>3. Orders(key, 0, [i \in 1 .. 0 |-> i])  BY DEF Orders
    <2>4. k # 0  BY <2>2, <2>3
    <2>5. k - 1 \in Nat /\ k - 1 \in 0 .. n /\ k - 1 \notin Bad /\ k - 1 + 1 = k
      BY <2>2, <2>4
    <2>6. PICK p : Orders(key, k - 1, p)  BY <2>5
    <2> DEFINE part == [i \in 1 .. k |-> key[i]]
    <2>7. part \in [1 .. k - 1 + 1 -> Nat] /\ \A i \in 1 .. k : part[i] = key[i]
      BY <2>2, <2>5
    <2> HIDE DEF part
    <2>8. Orders(part, k - 1, p)
      <3>1. \A i, j \in 1 .. k : Ahead(part, i, j) <=> Ahead(key, i, j)  BY <2>7 DEF Ahead
      <3>2. \A i \in 1 .. k - 1 : p[i] \in 1 .. k  BY <2>5, <2>6 DEF Orders
      <3> QED  BY <2>6, <3>1, <3>2 DEF Orders
    <2>9. PICK q : Orders(part, k, q)  BY <2>5, <2>7, <2>8, OneMoreInOrder
    <2>10. Orders(key, k, q)
      <3>1. \A i, j \in 1 .. k : Ahead(part, i, j) <=> Ahead(key, i, j)  BY <2>7 DEF Ahead
      <3>2. \A i \in 1 .. k : q[i] \in 1 .. k  BY <2>9 DEF Orders
      <3> QED  BY <2>9, <3>1, <3>2 DEF Orders
    <2> QED  BY <2>2, <2>10
  <1>2. n \in 0 .. n  OBVIOUS
  <1> QED  BY <1>1, <1>2

LEMMA OrderedOnce ==
    ASSUME NEW n \in Nat, NEW key \in [1 .. n -> Nat], NEW p, Orders(key, n, p),
           NEW i \in 1 .. n, NEW j \in 1 .. n, p[i] = p[j]
    PROVE  i = j
  <1>1. p[i] \in 1 .. n  BY DEF Orders
  <1>2. ~Ahead(key, p[i], p[i])  BY <1>1, AheadOrder
  <1>3. \A a, b \in 1 .. n : a < b => Ahead(key, p[a], p[b])  BY DEF Orders
  <1>4. ~(i < j) /\ ~(j < i)  BY <1>2, <1>3
  <1> QED  BY <1>4

\* p sorts the first n entries by their keys.
Sorts(key, n, p) ==
    /\ p \in [1 .. n -> 1 .. n]
    /\ \A v \in 1 .. n : \E i \in 1 .. n : p[i] = v
    /\ \A i, j \in 1 .. n : p[i] = p[j] => i = j
    /\ \A i, j \in 1 .. n : i < j => key[p[i]] <= key[p[j]]

\* The sorted list has the entries of the list, by their keys.
LEMMA SortedIs ==
    ASSUME NEW n \in Nat, NEW list, DOMAIN list = 1 .. n, NEW key \in [1 .. n -> Nat]
    PROVE  \E p : Sorts(key, n, p) /\ Sorted(list, key) = [i \in 1 .. n |-> list[p[i]]]
  <1> DEFINE Order(p) == \A i, j \in DOMAIN list : i < j => Ahead(key, p[i], p[j])
             order == CHOOSE p \in Bijection(DOMAIN list, DOMAIN list) : Order(p)
  <1>1. Sorted(list, key) = [i \in DOMAIN list |-> list[order[i]]]
    BY Zenon DEF Sorted, Ahead
  <1>2. \E p \in Bijection(DOMAIN list, DOMAIN list) : Order(p)
    <2>1. PICK p : Orders(key, n, p)  BY OrderExists
    <2>2. \A i, j \in 1 .. n : p[i] = p[j] => i = j  BY <2>1, OrderedOnce
    <2>3. p \in Bijection(1 .. n, 1 .. n)
      BY <2>1, <2>2 DEF Orders, Bijection, Injection, Surjection, IsInjective
    <2> QED  BY <2>1, <2>3 DEF Orders
  <1>3. order \in Bijection(DOMAIN list, DOMAIN list) /\ Order(order)  BY <1>2
  <1> HIDE DEF order
  <1>4. order \in [1 .. n -> 1 .. n] /\ \A v \in 1 .. n : \E i \in 1 .. n : order[i] = v
    BY <1>3 DEF Bijection, Surjection
  <1>5. Orders(key, n, order)  BY <1>3, <1>4 DEF Orders
  <1> HIDE DEF Order
  <1>6. \A i, j \in 1 .. n : order[i] = order[j] => i = j  BY <1>5, OrderedOnce
  <1>7. ASSUME NEW i \in 1 .. n, NEW j \in 1 .. n, i < j
        PROVE  key[order[i]] <= key[order[j]]
    <2>1. Ahead(key, order[i], order[j])  BY <1>5, <1>7 DEF Orders
    <2>2. key[order[i]] \in Nat /\ key[order[j]] \in Nat  BY <1>4
    <2> QED  BY <2>1, <2>2 DEF Ahead
  <1>8. Sorts(key, n, order)  BY <1>4, <1>6, <1>7 DEF Sorts
  <1> QED  BY <1>1, <1>8

-----------------------------------------------------------------------------
(* The generated files *)

\* A module is noted once.
Once ==
    /\ \A i \in DOMAIN required : \E j \in 1 .. next - 1 : required[i].m = require[j].m
    /\ \A i, j \in DOMAIN required : required[i].m = required[j].m => i = j

\* The files are written when go.mod has been gone through.
Through == pc \in {"src_uri", "relocation", "modules_txt", "done"} => next = Len(require) + 1

Numbered(list) == Len(list) \in Nat /\ DOMAIN list = 1 .. Len(list)

SrcUriSorted ==
    /\ Numbered(srcUri)
    /\ \A i \in DOMAIN srcUri : srcUri[i].dest \in Seq(Parts)
    /\ \A i, j \in DOMAIN srcUri : i < j => Chars(srcUri[i].dest) <= Chars(srcUri[j].dest)

SitesSorted ==
    /\ Numbered(sites)
    /\ \A i \in DOMAIN sites : sites[i].dest \in Seq(Parts) /\ sites[i].source \in Seq(Parts)
    /\ \A i, j \in DOMAIN sites : sites[i].dest = sites[j].dest => i = j
    /\ \A i, j \in DOMAIN sites : i < j => SiteLen(sites[i]) <= SiteLen(sites[j])

Written ==
    /\ pc \in {"relocation", "modules_txt", "done"} =>
         \A i \in DOMAIN required : \E k \in DOMAIN srcUri : srcUri[k].dest = required[i].actual
    /\ pc \in {"modules_txt", "done"} =>
         \A i \in DOMAIN required : \E k \in DOMAIN sites : sites[k].dest = required[i].m

FInv == GInv /\ Once /\ Through /\ SrcUriSorted /\ SitesSorted /\ Written

\* The line is a module's, and no other of its repository has been handled.
Resolved(i) == Alone(i) /\ Resolvable(Actual(require[i]))

Kept ==
    \A i \in 1 .. next - 1 : Resolved(i) =>
      \E j \in DOMAIN required :
        required[j].m = require[i].m /\ required[j].actual = Actual(require[i]).m

\* Once a shorter name is asked for, the module has no reason against it.
Unreasoned == pc = "probe" /\ probe # Current.m => Current.m \notin unhandled

-----------------------------------------------------------------------------
(* What is written *)

LEMMA ListOf ==
    ASSUME NEW n \in Nat, NEW f, f = [i \in 1 .. n |-> f[i]]
    PROVE  Numbered(f) /\ Len(f) = n
  <1> DEFINE S == {f[i] : i \in 1 .. n}
  <1>1. f \in [1 .. n -> S]  BY Zenon
  <1>2. f \in Seq(S) /\ DOMAIN f = 1 .. n
    <2> HIDE DEF S
    <2>1. f \in Seq(S)  BY <1>1, SeqDef
    <2> QED  BY <1>1, <2>1
  <1>3. Len(f) \in Nat /\ DOMAIN f = 1 .. Len(f)  BY <1>2, LenProperties
  <1>4. Len(f) = n
    <2>1. 1 .. Len(f) = 1 .. n  BY <1>2, <1>3
    <2>2. \A a, b \in Nat : 1 .. a = 1 .. b => a = b
      <3>1. SUFFICES ASSUME NEW a \in Nat, NEW b \in Nat, 1 .. a = 1 .. b, a < b  PROVE FALSE
        OBVIOUS
      <3>2. b \in 1 .. b /\ b \notin 1 .. a  BY <3>1
      <3> QED  BY <3>1, <3>2
    <2> QED  BY <1>3, <2>1, <2>2, Zenon
  <1> QED  BY <1>3, <1>4 DEF Numbered

LEMMA RequiredIs ==
    ASSUME GInv
    PROVE  /\ Len(required) \in Nat /\ DOMAIN required = 1 .. Len(required)
           /\ \A i \in DOMAIN required :
                /\ required[i].m \in Seq(Parts) /\ required[i].actual \in Seq(Parts)
                /\ required[i].srcpath \in Seq(Parts)
  <1>1. required \in Seq(Entry)  BY DEF GInv, Tables
  <1>2. Len(required) \in Nat /\ DOMAIN required = 1 .. Len(required)  BY <1>1, LenProperties
  <1>3. \A i \in 1 .. Len(required) : required[i] \in Entry  BY <1>1, ElementOfSeq
  <1> QED  BY <1>2, <1>3 DEF Entry

\* src_uri.inc names every module, those above others first.
LEMMA SrcUriWritten ==
    ASSUME GInv, GenSrcUriInc
    PROVE  /\ SrcUriSorted'
           /\ \A i \in DOMAIN required :
                \E k \in DOMAIN srcUri' : srcUri'[k].dest = required[i].actual
  <1> DEFINE n == Len(required)
             contents == [i \in DOMAIN required |->
                            [dest |-> required[i].actual, srcrev |-> required[i].srcrev,
                             name |-> NamesOf(required)[i]]]
             key == [i \in DOMAIN contents |-> TakeFirstLen(contents[i])]
  <1>1. srcUri' = Sorted(contents, key)  BY Zenon DEF GenSrcUriInc
  <1>2. n \in Nat /\ DOMAIN required = 1 .. n  BY RequiredIs
  <1>3. DOMAIN contents = 1 .. n /\ \A i \in 1 .. n : contents[i].dest = required[i].actual
    BY <1>2
  <1> HIDE DEF contents
  <1>4. \A i \in 1 .. n : key[i] = Chars(contents[i].dest)  BY <1>3 DEF TakeFirstLen
  <1>5. \A i \in 1 .. n : contents[i].dest \in Seq(Parts) /\ key[i] \in Nat
    BY <1>2, <1>3, <1>4, RequiredIs, CharsTyped
  <1>6. key \in [1 .. n -> Nat]
    <2>1. key = [i \in 1 .. n |-> key[i]]  BY <1>3
    <2> HIDE DEF key
    <2> QED  BY <1>5, <2>1
  <1> HIDE DEF key, n
  <1>7. PICK p : Sorts(key, n, p) /\ Sorted(contents, key) = [i \in 1 .. n |-> contents[p[i]]]
    BY <1>2, <1>3, <1>6, SortedIs, Zenon
  <1>8. srcUri' = [i \in 1 .. n |-> srcUri'[i]] /\ DOMAIN srcUri' = 1 .. n
        /\ \A i \in 1 .. n : srcUri'[i] = contents[p[i]]
    BY <1>1, <1>7
  <1>9. Numbered(srcUri')  BY <1>2, <1>8, ListOf, Zenon
  <1>10. \A i \in 1 .. n : p[i] \in 1 .. n  BY <1>7 DEF Sorts
  <1>11. \A i \in 1 .. n : srcUri'[i].dest \in Seq(Parts) /\ Chars(srcUri'[i].dest) = key[p[i]]
    BY <1>4, <1>5, <1>8, <1>10
  <1>12. SrcUriSorted'
    <2>1. \A i \in DOMAIN srcUri' : srcUri'[i].dest \in Seq(Parts)  BY <1>8, <1>11
    <2>2. ASSUME NEW i \in DOMAIN srcUri', NEW j \in DOMAIN srcUri', i < j
          PROVE  Chars(srcUri'[i].dest) <= Chars(srcUri'[j].dest)
      <3>1. i \in 1 .. n /\ j \in 1 .. n  BY <1>8
      <3>2. key[p[i]] <= key[p[j]]  BY <1>7, <2>2, <3>1 DEF Sorts
      <3> QED  BY <1>11, <3>1, <3>2
    <2> QED  BY <1>9, <2>1, <2>2 DEF SrcUriSorted
  <1>13. ASSUME NEW i \in DOMAIN required
         PROVE  \E k \in DOMAIN srcUri' : srcUri'[k].dest = required[i].actual
    <2>1. i \in 1 .. n  BY <1>2
    <2>2. PICK k \in 1 .. n : p[k] = i  BY <1>7, <2>1 DEF Sorts
    <2> QED  BY <1>3, <1>8, <2>1, <2>2
  <1> QED  BY <1>12, <1>13

LEMMA SiteLenTyped ==
    ASSUME NEW s, s.dest \in Seq(Parts), s.source \in Seq(Parts)
    PROVE  SiteLen(s) \in Nat
  BY CharsTyped DEF SiteLen

\* relocation.inc has one site for every module, the shorter ones first.
LEMMA SitesWritten ==
    ASSUME GInv, Once, GenRelocationInc
    PROVE  /\ SitesSorted'
           /\ \A i \in DOMAIN required :
                \E k \in DOMAIN sites' : sites'[k].dest = required[i].m
  <1> DEFINE n == Len(required)
             all == [i \in DOMAIN required |->
                       [dest |-> required[i].m, source |-> required[i].srcpath]]
             key == [i \in DOMAIN all |-> SiteLen(all[i])]
  <1>1. sites' = Sorted(all, key)  BY Zenon DEF GenRelocationInc
  <1>2. n \in Nat /\ DOMAIN required = 1 .. n  BY RequiredIs
  <1>3. DOMAIN all = 1 .. n
        /\ \A i \in 1 .. n : all[i].dest = required[i].m /\ all[i].source = required[i].srcpath
    BY <1>2
  <1> HIDE DEF all
  <1>4. \A i \in 1 .. n : key[i] = SiteLen(all[i])  BY <1>3
  <1>5. \A i \in 1 .. n : /\ all[i].dest \in Seq(Parts) /\ all[i].source \in Seq(Parts)
                          /\ key[i] \in Nat
    BY <1>2, <1>3, <1>4, RequiredIs, SiteLenTyped
  <1>6. key \in [1 .. n -> Nat]
    <2>1. key = [i \in 1 .. n |-> key[i]]  BY <1>3
    <2> HIDE DEF key
    <2> QED  BY <1>5, <2>1
  <1>7. \A i, j \in 1 .. n : all[i].dest = all[j].dest => i = j
    BY <1>2, <1>3 DEF Once
  <1> HIDE DEF key, n
  <1>8. PICK p : Sorts(key, n, p) /\ Sorted(all, key) = [i \in 1 .. n |-> all[p[i]]]
    BY <1>2, <1>3, <1>6, SortedIs, Zenon
  <1>9. sites' = [i \in 1 .. n |-> sites'[i]] /\ DOMAIN sites' = 1 .. n
        /\ \A i \in 1 .. n : sites'[i] = all[p[i]]
    BY <1>1, <1>8
  <1>10. Numbered(sites')  BY <1>2, <1>9, ListOf, Zenon
  <1>11. \A i \in 1 .. n : p[i] \in 1 .. n  BY <1>8 DEF Sorts
  <1>12. \A i \in 1 .. n : /\ sites'[i].dest \in Seq(Parts) /\ sites'[i].source \in Seq(Parts)
                           /\ SiteLen(sites'[i]) = key[p[i]]
    BY <1>4, <1>5, <1>9, <1>11
  <1>13. \A i, j \in 1 .. n : sites'[i].dest = sites'[j].dest => i = j
    <2>1. SUFFICES ASSUME NEW i \in 1 .. n, NEW j \in 1 .. n, sites'[i].dest = sites'[j].dest
          PROVE  i = j
      OBVIOUS
    <2>2. all[p[i]].dest = all[p[j]].dest  BY <1>9, <2>1
    <2>3. p[i] = p[j]  BY <1>7, <1>11, <2>2
    <2> QED  BY <1>8, <2>3 DEF Sorts
  <1>14. SitesSorted'
    <2>1. \A i \in DOMAIN sites' : sites'[i].dest \in Seq(Parts) /\ sites'[i].source \in Seq(Parts)
      BY <1>9, <1>12
    <2>2. \A i, j \in DOMAIN sites' : sites'[i].dest = sites'[j].dest => i = j
      BY <1>9, <1>13
    <2>3. ASSUME NEW i \in DOMAIN sites', NEW j \in DOMAIN sites', i < j
          PROVE  SiteLen(sites'[i]) <= SiteLen(sites'[j])
      <3>1. i \in 1 .. n /\ j \in 1 .. n  BY <1>9
      <3>2. key[p[i]] <= key[p[j]]  BY <1>8, <2>3, <3>1 DEF Sorts
      <3> QED  BY <1>12, <3>1, <3>2
    <2> QED  BY <1>10, <2>1, <2>2, <2>3 DEF SitesSorted
  <1>15. ASSUME NEW i \in DOMAIN required
         PROVE  \E k \in DOMAIN sites' : sites'[k].dest = required[i].m
    <2>1. i \in 1 .. n  BY <1>2
    <2>2. PICK k \in 1 .. n : p[k] = i  BY <1>8, <2>1 DEF Sorts
    <2> QED  BY <1>3, <1>9, <2>1, <2>2
  <1> QED  BY <1>14, <1>15

-----------------------------------------------------------------------------
(* The steps that write *)

LEMMA LinesNow ==
    ASSUME GInv
    PROVE  /\ Len(require) \in Nat /\ DOMAIN require = 1 .. Len(require)
           /\ next \in 1 .. Len(require) + 1
           /\ \A i, j \in DOMAIN require : require[i].m = require[j].m => i = j
  <1>1. gomod \in GoMods /\ ReadOnce  BY DEF GInv, Counters
  <1>2. require \in Seq(Module)  BY <1>1, LinesTyped
  <1>3. \A i, j \in DOMAIN require : require[i].m = require[j].m => i = j
    BY <1>1, LinesTyped
  <1> QED  BY <1>2, <1>3, LenProperties DEF GInv, Handling

LEMMA OnceKept ==
    ASSUME Once, UNCHANGED <<required, require>>, next \in Nat, next' \in Nat, next <= next'
    PROVE  Once'
  <1>1. \A a, b \in Nat : a <= b => \A j \in 1 .. a - 1 : j \in 1 .. b - 1  OBVIOUS
  <1>2. \A j \in 1 .. next - 1 : j \in 1 .. next' - 1  BY <1>1
  <1> QED  BY <1>2 DEF Once

LEMMA FilesKept ==
    ASSUME SrcUriSorted, SitesSorted, UNCHANGED <<srcUri, sites>>
    PROVE  SrcUriSorted' /\ SitesSorted'
  <1>1. SrcUriSorted'  BY DEF SrcUriSorted
  <1>2. SitesSorted'  BY DEF SitesSorted
  <1> QED  BY <1>1, <1>2

\* A step that writes no file and notes nothing.
LEMMA QuietFiles ==
    ASSUME FInv, GInv', UNCHANGED <<srcUri, sites, required, require>>,
           UNCHANGED next \/ next' = next + 1,
           pc' \in {"src_uri", "relocation", "modules_txt", "done"} =>
             UNCHANGED <<pc, next>> \/ (pc' = "src_uri" /\ next' = Len(require) + 1)
    PROVE  FInv'
  <1>1. next \in Nat /\ next' \in Nat /\ next <= next'  BY DEF FInv, GInv, Handling
  <1>2. Once'  BY <1>1, OnceKept DEF FInv
  <1>3. Through'  BY DEF FInv, Through
  <1>4. SrcUriSorted' /\ SitesSorted'  BY FilesKept DEF FInv
  <1>5. Written'  BY DEF FInv, Written
  <1> QED  BY <1>2, <1>3, <1>4, <1>5 DEF FInv

LEMMA NothingNoted ==
    ASSUME FInv, GInv', UNCHANGED <<srcUri, sites>>, required' = <<>>,
           pc' \notin {"src_uri", "relocation", "modules_txt", "done"}
    PROVE  FInv'
  <1>1. Once' /\ Through' /\ Written'  BY DEF Once, Through, Written
  <1> QED  BY <1>1, FilesKept DEF FInv

LEMMA FilesFetchModule == ASSUME FInv, GInv', NEW up \in BOOLEAN, FetchModule(up)  PROVE FInv'
  <1>1. /\ pc = "fetch" /\ pc' = "line" /\ next' = next + 1
        /\ required' = IF Wanted \in DOMAIN Infos(up) THEN Append(required, Noted(up))
                       ELSE required
        /\ UNCHANGED <<require, srcUri, sites>>
    BY FetchModuleIs DEF FetchModule, lines
  <1>2. GInv  BY DEF FInv
  <1>3. next \in 1 .. Len(require) /\ next \in DOMAIN require /\ Len(require) \in Nat
    BY <1>1, <1>2, WantedTyped
  <1>4. CASE Wanted \notin DOMAIN Infos(up)
    BY <1>1, <1>4, QuietFiles
  <1>5. CASE Wanted \in DOMAIN Infos(up)
    <2> DEFINE n == Len(required)
    <2>1. required \in Seq(Entry) /\ Noted(up) \in Entry
      BY <1>2, <1>5, NotedTyped DEF GInv, Tables
    <2>2. /\ n \in Nat /\ DOMAIN required = 1 .. n /\ DOMAIN required' = 1 .. n + 1
          /\ \A i \in 1 .. n : required'[i] = required[i]
          /\ required'[n + 1] = Noted(up)
      BY <1>1, <1>5, <2>1, AppendProperties, LenProperties
    <2>3. Noted(up).m = require[next].m  BY DEF Noted
    <2>4. \A j \in 1 .. next - 1 : j \in 1 .. next' - 1 /\ j \in DOMAIN require /\ j # next
      BY <1>1, <1>2, <1>3, LinesNow
    <2>5. next \in 1 .. next' - 1  BY <1>1, <1>3
    <2> HIDE DEF n
    <2>6. \A i \in 1 .. n + 1 : i \in 1 .. n \/ i = n + 1  BY <2>2
    <2>7. \A i \in 1 .. n : \E j \in 1 .. next - 1 : required[i].m = require[j].m
      BY <2>2 DEF FInv, Once
    <2>8. \A i \in DOMAIN required' : \E j \in 1 .. next' - 1 : required'[i].m = require[j].m
      BY <2>2, <2>3, <2>4, <2>5, <2>6, <2>7
    <2>9. ASSUME NEW i \in 1 .. n  PROVE  required[i].m # require[next].m
      <3>1. PICK j \in 1 .. next - 1 : required[i].m = require[j].m  BY <2>7
      <3> QED  BY <1>2, <1>3, <2>4, <3>1, LinesNow
    <2>10. \A i, j \in DOMAIN required' : required'[i].m = required'[j].m => i = j
      <3>1. \A i, j \in 1 .. n : required[i].m = required[j].m => i = j
        BY <2>2 DEF FInv, Once
      <3> QED  BY <2>2, <2>3, <2>6, <2>9, <3>1
    <2>11. Once'  BY <1>1, <2>8, <2>10 DEF Once
    <2>12. Through' /\ Written'  BY <1>1 DEF Through, Written
    <2>13. SrcUriSorted' /\ SitesSorted'  BY <1>1, FilesKept DEF FInv
    <2> QED  BY <2>11, <2>12, <2>13 DEF FInv
  <1> QED  BY <1>4, <1>5

LEMMA FilesSrcUri == ASSUME FInv, GInv', GenSrcUriInc  PROVE FInv'
  <1>1. /\ pc = "src_uri" /\ pc' = "relocation"
        /\ UNCHANGED <<required, require, next, sites>>
    BY DEF GenSrcUriInc, tables, lines
  <1>2. /\ SrcUriSorted'
        /\ \A i \in DOMAIN required :
             \E k \in DOMAIN srcUri' : srcUri'[k].dest = required[i].actual
    BY SrcUriWritten DEF FInv
  <1>3. Once'  BY <1>1, OnceKept DEF FInv, GInv, Handling
  <1>4. Through'  BY <1>1 DEF FInv, Through
  <1>5. SitesSorted'  BY <1>1 DEF FInv, SitesSorted
  <1>6. Written'  BY <1>1, <1>2 DEF Written
  <1> QED  BY <1>2, <1>3, <1>4, <1>5, <1>6 DEF FInv

LEMMA FilesRelocation == ASSUME FInv, GInv', GenRelocationInc  PROVE FInv'
  <1>1. /\ pc = "relocation" /\ pc' = "modules_txt"
        /\ UNCHANGED <<required, require, next, srcUri>>
    BY DEF GenRelocationInc, tables, lines
  <1>2. /\ SitesSorted'
        /\ \A i \in DOMAIN required :
             \E k \in DOMAIN sites' : sites'[k].dest = required[i].m
    BY SitesWritten DEF FInv
  <1>3. Once'  BY <1>1, OnceKept DEF FInv, GInv, Handling
  <1>4. Through'  BY <1>1 DEF FInv, Through
  <1>5. SrcUriSorted'  BY <1>1 DEF FInv, SrcUriSorted
  <1>6. Written'  BY <1>1, <1>2 DEF FInv, Written
  <1> QED  BY <1>2, <1>3, <1>4, <1>5, <1>6 DEF FInv

LEMMA FilesModulesTxt == ASSUME FInv, GInv', GenModulesTxt  PROVE FInv'
  <1>1. /\ pc = "modules_txt" /\ pc' = "done"
        /\ UNCHANGED <<required, require, next, srcUri, sites>>
    BY DEF GenModulesTxt, tables, lines
  <1>2. Once'  BY <1>1, OnceKept DEF FInv, GInv, Handling
  <1>3. Through' /\ Written'  BY <1>1 DEF FInv, Through, Written
  <1> QED  BY <1>1, <1>2, <1>3, FilesKept DEF FInv

LEMMA InitFInv == Init => FInv
  <1> SUFFICES ASSUME Init  PROVE FInv  OBVIOUS
  <1>1. GInv  BY InitGInv
  <1>2. Numbered(<<>>)  BY EmptySeq DEF Numbered
  <1>3. Once /\ Through /\ Written  BY DEF Init, Once, Through, Written
  <1>4. SrcUriSorted /\ SitesSorted  BY <1>2 DEF Init, SrcUriSorted, SitesSorted
  <1> QED  BY <1>1, <1>3, <1>4 DEF FInv

LEMMA NextFInv == FInv /\ [Next]_vars => FInv'
  <1> SUFFICES ASSUME FInv, [Next]_vars  PROVE FInv'  OBVIOUS
  <1>0. GInv' /\ GInv  BY NextGInv DEF FInv
  <1>1. ASSUME NEW up \in BOOLEAN, FetchMain(up)  PROVE FInv'
    <2>1. /\ UNCHANGED <<srcUri, sites, required, require, next>> /\ pc' \in {"parse", "raised"}
      BY <1>1 DEF FetchMain, tables, lines
    <2> QED  BY <1>0, <2>1, QuietFiles
  <1>2. ASSUME NEW up \in BOOLEAN, FetchModule(up)  PROVE FInv'
    BY <1>0, <1>2, FilesFetchModule
  <1>3. CASE Parse
    <2>1. required' = <<>> /\ UNCHANGED <<srcUri, sites>> /\ pc' = "line"
      BY <1>0, <1>3 DEF GInv, Fresh, Parse, tables, disk
    <2> QED  BY <1>0, <2>1, NothingNoted
  <1>4. CASE NextLine
    <2>1. /\ UNCHANGED <<srcUri, sites, required, require, next>>
          /\ pc' \in {"src_uri", "fetch", "probe"}
          /\ pc' = "src_uri" => next > Len(require)
      BY <1>4 DEF NextLine, tables, disk, lines
    <2>2. next > Len(require) => next = Len(require) + 1  BY <1>0, LinesNow
    <2> QED  BY <1>0, <2>1, <2>2, QuietFiles
  <1>5. ASSUME NEW wget \in BOOLEAN, NEW pkg \in BOOLEAN, Probe(wget, pkg)  PROVE FInv'
    <2>1. /\ UNCHANGED <<srcUri, sites, required, require>>
          /\ UNCHANGED next \/ next' = next + 1
          /\ pc' \in {"line", "fetch", "probe"}
      BY <1>5 DEF Probe, EndLine, lines
    <2> QED  BY <1>0, <2>1, QuietFiles
  <1>6. CASE GenSrcUriInc  BY <1>0, <1>6, FilesSrcUri
  <1>7. CASE GenRelocationInc  BY <1>0, <1>7, FilesRelocation
  <1>8. CASE GenModulesTxt  BY <1>0, <1>8, FilesModulesTxt
  <1>9. CASE Interrupt
    <2>1. UNCHANGED <<srcUri, sites, required, require, next>> /\ pc' = "interrupted"
      BY <1>9 DEF Interrupt, tables, disk, lines
    <2> QED  BY <1>0, <2>1, QuietFiles
  <1>10. CASE RunAgain
    <2>1. required' = <<>> /\ UNCHANGED <<srcUri, sites>> /\ pc' = "main"
      BY <1>10 DEF RunAgain, disk
    <2> QED  BY <1>0, <2>1, NothingNoted
  <1>11. CASE UNCHANGED vars
    <2>1. UNCHANGED <<srcUri, sites, required, require, next, pc>>
      BY <1>11 DEF vars, tables, disk, lines
    <2> QED  BY <1>0, <2>1, QuietFiles
  <1> QED  BY <1>1, <1>2, <1>3, <1>4, <1>5, <1>6, <1>7, <1>8, <1>9, <1>10, <1>11, Zenon DEF Next

LEMMA FInvAlways == Spec => []FInv
  BY InitFInv, NextFInv, PTL DEF Spec

-----------------------------------------------------------------------------
(* What the files unpack to *)

\* The last entry of a directory stays: those behind it have no shorter path.
LEMMA SortedUnpacked ==
    ASSUME SrcUriSorted, NEW i \in DOMAIN srcUri
    PROVE  \E d \in Unpacked(srcUri) : d.dest = srcUri[i].dest
  <1> DEFINE n == Len(srcUri)
             Same == {j \in 1 .. n : srcUri[j].dest = srcUri[i].dest}
  <1>1. n \in Nat /\ DOMAIN srcUri = 1 .. n  BY DEF SrcUriSorted, Numbered
  <1>2. Same \subseteq 1 .. n /\ i \in Same  BY <1>1
  <1>3. PICK k \in Same : \A y \in Same : y <= k
    <2> HIDE DEF Same
    <2>1. Max(Same) \in Same /\ \A y \in Same : y <= Max(Same)  BY <1>1, <1>2, MaxOf
    <2> QED  BY <2>1
  <1>4. k \in 1 .. n /\ srcUri[k].dest = srcUri[i].dest  OBVIOUS
  <1>5. ASSUME NEW j \in k + 1 .. n, IsPrefix(srcUri[j].dest, srcUri[k].dest)
        PROVE  FALSE
    <2>1. j \in 1 .. n /\ k < j /\ j # k  BY <1>1, <1>4
    <2>2. j \notin Same  BY <1>1, <1>3, <1>4, <2>1
    <2>3. srcUri[j].dest # srcUri[k].dest  BY <1>4, <2>1, <2>2
    <2>4. srcUri[j].dest \in Seq(Parts) /\ srcUri[k].dest \in Seq(Parts)
          /\ Chars(srcUri[k].dest) <= Chars(srcUri[j].dest)
      BY <1>1, <1>4, <2>1 DEF SrcUriSorted
    <2>5. Chars(srcUri[j].dest) < Chars(srcUri[k].dest)
      BY <1>5, <2>3, <2>4, CharsOfPrefix
    <2> QED  BY <2>4, <2>5, CharsTyped
  <1>6. srcUri[k] \in Unpacked(srcUri)
    <2> HIDE DEF Same
    <2> QED  BY <1>1, <1>4, <1>5, Survives
  <1> QED  BY <1>4, <1>6

LEMMA SortedVendored ==
    ASSUME SitesSorted, NEW i \in DOMAIN sites,
           \A j \in DOMAIN sites : Below(sites[i], sites[j])
                                    => Chars(sites[j].source) <= Chars(sites[i].source)
    PROVE  sites[i] \in Unpacked(sites)
  <1> DEFINE n == Len(sites)
  <1>1. n \in Nat /\ DOMAIN sites = 1 .. n  BY DEF SitesSorted, Numbered
  <1>2. ASSUME NEW j \in i + 1 .. n, IsPrefix(sites[j].dest, sites[i].dest)
        PROVE  FALSE
    <2>1. j \in 1 .. n /\ i \in 1 .. n /\ i < j /\ j # i  BY <1>1
    <2>2. /\ sites[j].dest \in Seq(Parts) /\ sites[i].dest \in Seq(Parts)
          /\ sites[j].source \in Seq(Parts) /\ sites[i].source \in Seq(Parts)
          /\ sites[j].dest # sites[i].dest
          /\ SiteLen(sites[i]) <= SiteLen(sites[j])
      BY <1>1, <2>1 DEF SitesSorted
    <2>3. Chars(sites[j].source) <= Chars(sites[i].source)
      BY <1>1, <1>2, <2>1, <2>2 DEF Below
    <2>4. Chars(sites[j].dest) < Chars(sites[i].dest)  BY <1>2, <2>2, CharsOfPrefix
    <2>5. /\ Chars(sites[j].source) \in Nat /\ Chars(sites[i].source) \in Nat
          /\ Chars(sites[j].dest) \in Nat /\ Chars(sites[i].dest) \in Nat
      BY <2>2, CharsTyped
    <2> QED  BY <2>2, <2>3, <2>4, <2>5 DEF SiteLen
  <1> QED  BY <1>1, <1>2, Survives

(***************************************************************************)
(* gen_src_uri_inc: the entries are sorted by destination, so no module is *)
(* pruned by another one that is unpacked above it, whatever go.mod says.  *)
(***************************************************************************)
THEOREM GoModUnpackedTogether == Spec => []UnpackedTogether
  <1>1. FInv => UnpackedTogether  BY SortedUnpacked DEF FInv, UnpackedTogether
  <1> QED  BY <1>1, FInvAlways, PTL

(***************************************************************************)
(* gen_relocation_inc: the sites are sorted by destination and source, so  *)
(* a module is lost only below one whose source has the longer path.       *)
(***************************************************************************)
THEOREM GoModVendoredTogether == Spec => []VendoredTogether
  <1>1. FInv => VendoredTogether  BY SortedVendored DEF FInv, VendoredTogether
  <1> QED  BY <1>1, FInvAlways, PTL

-----------------------------------------------------------------------------
(* No module is lost *)

KInv == FInv /\ LInv /\ (FirstNow => Kept /\ Unreasoned)

\* A module that can be resolved is.
LEMMA ResolvedIsNoted ==
    ASSUME GInv, InFirst, FirstNow, UNCHANGED faults, NEW up \in BOOLEAN, FetchModule(up),
           Resolved(next)
    PROVE  Wanted \in DOMAIN Infos(up)
  <1>1. pc = "fetch" /\ url = RepoOf(Wanted) /\ gen \in Generations
    BY FetchModuleIs, OwnAnswer DEF GInv, Counters, Resolved
  <1>2. Current = Actual(require[next]) /\ Wanted = Current.m  BY DEF Current, Wanted
  <1>3. Alone(next) /\ url \in DOMAIN Up[gen]
        /\ IF Current.rev \in Commits THEN Current.rev \in Up[gen][url].commits
           ELSE /\ TagsOf(url, Wanted, Current.rev) # {}
                /\ LET t == LongestTag(url, Wanted, Current.rev)
                   IN  Len(t) > 1 => SubpathOf(Wanted, Current.rev, t, Expected(Current))
                                       \in Dirs[Expected(Current)]
    BY <1>1, <1>2, Zenon DEF Resolved, Resolvable
  <1>4. up
    <2>1. Answered(up)  BY <1>3, FetchModuleIs
    <2> QED  BY <2>1, AnswersNow
  <1>5. Got(up) = RequiredRev(FetchedClone, Wanted, Current.rev)  BY <1>4 DEF Got
  <1>6. /\ UpToDate(FetchedClone) /\ FetchedClone.origin = url /\ ~FetchedClone.check
        /\ FetchedClone.tags = gen /\ FetchedClone.have = gen
    BY <1>1, <1>3, AloneInClone
  <1>7. Wanted \in Seq(Parts) /\ Wanted # None /\ Current.rev \in Revs
    BY <1>1, WantedTyped
  <1>8. /\ "none" \notin Up[gen][url].commits
        /\ \A t \in DOMAIN Up[gen][url].tags : Up[gen][url].tags[t] \in Up[gen][url].commits
    BY <1>1, <1>3, WorldTyped
  <1>9. Got(up).rev # "none"
    <2>1. CASE Current.rev \in Commits
      <3>1. Got(up) = RequiredCommit(FetchedClone, Wanted, Current.rev)
        BY <1>5, <2>1 DEF RequiredRev
      <3>2. Current.rev \in Up[FetchedClone.have][FetchedClone.origin].commits
        BY <1>3, <1>6, <2>1
      <3>3. Got(up).rev = Current.rev
        BY <1>6, <3>1, <3>2 DEF RequiredCommit, SubpathRaises
      <3> QED  BY <1>3, <1>8, <2>1, <3>3
    <2>2. CASE Current.rev \notin Commits
      <3> DEFINE t == LongestTag(url, Wanted, Current.rev)
                 c == Up[gen][url].tags[t]
      <3>1. Got(up) = RequiredTag(FetchedClone, Wanted, Current.rev)
        BY <1>5, <2>2 DEF RequiredRev
      <3>2. Expected(Current) = c
        BY <1>1, <1>2, <2>2, Zenon DEF Expected
      <3>3. TagsOf(url, Wanted, Current.rev) # {}
            /\ (Len(t) > 1 => SubpathOf(Wanted, Current.rev, t, c) \in Dirs[c])
        BY <1>3, <2>2, <3>2
      <3>4. RequiredTag(FetchedClone, Wanted, Current.rev).rev = c
            /\ t \in TagsOf(url, Wanted, Current.rev)
        BY <1>1, <1>6, <1>7, <3>3, TagResolves
      <3>5. t \in DOMAIN Up[gen][url].tags  BY <3>4 DEF TagsOf
      <3> HIDE DEF t
      <3> QED  BY <1>8, <3>1, <3>4, <3>5
    <2> QED  BY <2>1, <2>2
  <1> QED  BY <1>9 DEF Infos, Put

LEMMA SameResolved ==
    ASSUME UNCHANGED <<gen, lines>>
    PROVE  \A i : Resolved(i)' = Resolved(i)
  <1>1. \A i : Actual(require[i])' = Actual(require[i])
    BY DEF Actual, Replacing, lines
  <1>2. \A i : Alone(i)' = Alone(i)  BY <1>1 DEF Alone, lines
  <1>3. \A u, m, rev : TagsOf(u, m, rev)' = TagsOf(u, m, rev)
    BY DEF TagsOf
  <1>4. \A u, m, rev : /\ LongestTag(u, m, rev) = LongestIn(TagsOf(u, m, rev))
                       /\ LongestTag(u, m, rev)' = LongestIn(TagsOf(u, m, rev)')
    BY DEF LongestTag, LongestIn
  <1>5. \A u, m, rev : LongestTag(u, m, rev)' = LongestTag(u, m, rev)
    BY <1>3, <1>4, Zenon
  <1>6. \A line : Expected(line)' = Expected(line)
    BY <1>5, Zenon DEF Expected
  <1>7. \A line : Resolvable(line)' = Resolvable(line)
    BY <1>3, <1>5, <1>6, Zenon DEF Resolvable
  <1>8. \A i : Resolvable(Actual(require[i]))' = Resolvable(Actual(require[i]))
    BY <1>1, <1>7, Zenon
  <1> QED  BY <1>2, <1>8, Zenon DEF Resolved

LEMMA KeptKept ==
    ASSUME Kept, UNCHANGED <<gen, lines, required, next>>
    PROVE  Kept'
  <1>1. \A i : Resolved(i)' = Resolved(i)  BY SameResolved
  <1>2. \A i : Actual(require[i])' = Actual(require[i])
    BY DEF Actual, Replacing, lines
  <1> QED  BY <1>1, <1>2 DEF Kept, lines

LEMMA KeptFetchModule ==
    ASSUME GInv, InFirst, FirstNow, UNCHANGED faults, Kept, NEW up \in BOOLEAN, FetchModule(up)
    PROVE  Kept'
  <1>1. /\ pc = "fetch" /\ next' = next + 1 /\ UNCHANGED <<gen, lines, require>>
        /\ required' = IF Wanted \in DOMAIN Infos(up) THEN Append(required, Noted(up))
                       ELSE required
    BY FetchModuleIs DEF world, lines
  <1>2. next \in Nat \ {0}  BY DEF GInv, Handling
  <1>3. \A i : Resolved(i)' = Resolved(i)  BY <1>1, SameResolved
  <1>4. \A i : Actual(require[i])' = Actual(require[i])
    BY <1>1 DEF Actual, Replacing, lines
  <1>5. \A j \in DOMAIN required : j \in DOMAIN required' /\ required'[j] = required[j]
    <2>1. CASE Wanted \notin DOMAIN Infos(up)  BY <1>1, <2>1
    <2>2. CASE Wanted \in DOMAIN Infos(up)
      <3>1. required \in Seq(Entry) /\ Noted(up) \in Entry
        BY <2>2, NotedTyped DEF GInv, Tables
      <3> QED  BY <1>1, <2>2, <3>1, AppendProperties, LenProperties
    <2> QED  BY <2>1, <2>2
  <1>6. ASSUME NEW i \in 1 .. next' - 1, Resolved(i)
        PROVE  \E j \in DOMAIN required' :
                 required'[j].m = require[i].m /\ required'[j].actual = Actual(require[i]).m
    <2>1. CASE i \in 1 .. next - 1
      <3>1. PICK j \in DOMAIN required :
              required[j].m = require[i].m /\ required[j].actual = Actual(require[i]).m
        BY <1>6, <2>1 DEF Kept
      <3> QED  BY <1>5, <3>1
    <2>2. CASE i = next
      <3>1. Wanted \in DOMAIN Infos(up)  BY <1>6, <2>2, ResolvedIsNoted
      <3>2. required \in Seq(Entry) /\ Noted(up) \in Entry
        BY <3>1, NotedTyped DEF GInv, Tables
      <3>3. /\ Len(required) + 1 \in DOMAIN required'
            /\ required'[Len(required) + 1] = Noted(up)
        BY <1>1, <3>1, <3>2, AppendProperties, LenProperties
      <3>4. Noted(up).m = require[i].m /\ Noted(up).actual = Actual(require[i]).m
        BY <2>2 DEF Noted, Wanted, Current
      <3> QED  BY <3>3, <3>4
    <2> QED  BY <1>1, <1>2, <1>6, <2>1, <2>2
  <1> QED  BY <1>1, <1>3, <1>4, <1>6 DEF Kept

\* A line given up while everybody answers has no repository.
LEMMA ProbeInVain ==
    ASSUME GInv, InFirst, FirstNow, UNCHANGED faults, Unreasoned,
           NEW wget \in BOOLEAN, NEW pkg \in BOOLEAN, Probe(wget, pkg)
    PROVE  /\ Unreasoned'
           /\ UNCHANGED next \/ (next' = next + 1 /\ ~Resolved(next))
  <1> DEFINE m == Current.m
             k == Len(probe)
             answer == Answer(probe, TRUE, TRUE)
             reasons == IF LeavesReason(probe, TRUE, TRUE) THEN unhandled \cup {probe}
                        ELSE IF answer # None THEN unhandled
                        ELSE unhandled \ {probe}
  <1>1. wget = TRUE /\ pkg = TRUE
    <2>1. ~Answered(FALSE)  BY AnswersNow
    <2> QED  BY <2>1 DEF Probe
  <1>2. /\ pc = "probe" /\ UNCHANGED <<world, lines>>
        /\ \/ pc' = "fetch" /\ UNCHANGED next
           \/ answer = None /\ EndLine /\ (m \in reasons \/ Len(probe) = 1)
           \/ answer = None /\ UNCHANGED next /\ m \notin reasons /\ unhandled' = reasons
    BY <1>1 DEF Probe
  <1>3. next \in Nat \ {0} /\ next <= Len(require)  BY <1>2 DEF GInv, Handling
  <1>4. m \in Seq(Parts) /\ Len(m) \in Nat \ {0}  BY <1>3, CurrentTyped
  <1>5. /\ k \in 1 .. Len(m) /\ probe = SubSeq(m, 1, k)
        /\ \A i \in k + 1 .. Len(m) : Answer(SubSeq(m, 1, i), TRUE, TRUE) = None
        /\ k < Len(m) => ~OtherVcs(m)
    BY <1>2 DEF InFirst, Probing
  <1>6. CASE pc' = "fetch" /\ UNCHANGED next  BY <1>6 DEF Unreasoned
  <1>7. CASE answer = None /\ UNCHANGED next /\ m \notin reasons /\ unhandled' = reasons
    <2>1. Current' = Current  BY <1>2, <1>7, CurrentKept
    <2> HIDE DEF reasons
    <2> QED  BY <1>7, <2>1 DEF Unreasoned
  <1>8. CASE answer = None /\ EndLine /\ (m \in reasons \/ Len(probe) = 1)
    <2>1. pc' = "line" /\ next' = next + 1  BY <1>8 DEF EndLine
    <2>2. RepoOf(m) = None
      <3>1. CASE Len(probe) = 1
        <4>1. \A i \in 1 .. Len(m) : Answer(SubSeq(m, 1, i), TRUE, TRUE) = None
          <5>1. Answer(SubSeq(m, 1, 1), TRUE, TRUE) = None  BY <1>5, <1>8, <3>1
          <5>2. \A i \in 2 .. Len(m) : Answer(SubSeq(m, 1, i), TRUE, TRUE) = None
            <6>1. k + 1 = 2  BY <3>1
            <6> HIDE DEF k, m
            <6> QED  BY <1>5, <6>1
          <5>3. \A i \in 1 .. Len(m) : i = 1 \/ i \in 2 .. Len(m)  BY <1>4
          <5> HIDE DEF m
          <5> QED  BY <5>1, <5>2, <5>3, Zenon
        <4>2. {i \in 1 .. Len(m) : Answer(SubSeq(m, 1, i), TRUE, TRUE) # None} = {}
          BY <4>1, Zenon
        <4> HIDE DEF m
        <4> QED  BY <4>2, Zenon DEF RepoOf
      <3>2. CASE Len(probe) # 1 /\ m \in reasons
        <4>1. LeavesReason(probe, TRUE, TRUE) /\ m = probe
          <5>1. CASE m # probe
            <6>1. m \notin unhandled  BY <1>2, <5>1 DEF Unreasoned
            <6> QED  BY <3>2, <5>1, <6>1
          <5>2. CASE m = probe  BY <1>8, <3>2, <5>2
          <5> QED  BY <5>1, <5>2
        <4>2. OtherVcs(probe)
          <5>1. \/ probe \in DOMAIN GoImport /\ GoImport[probe].vcs # "git"
                \/ probe \notin DOMAIN GoImport /\ probe \notin DOMAIN PkgGoDev
                   /\ SiteMapper(probe) # None
            BY <4>1 DEF LeavesReason
          <5>2. ~(probe \notin DOMAIN GoImport /\ probe \notin DOMAIN PkgGoDev
                   /\ SiteMapper(probe) # None)
            BY <1>8 DEF Answer
          <5> QED  BY <5>1, <5>2 DEF OtherVcs
        <4> HIDE DEF m
        <4> QED  BY <4>1, <4>2, Zenon DEF RepoOf, OtherVcs
      <3> QED  BY <1>8, <3>1, <3>2
    <2>3. gen \in Generations  BY DEF GInv, Counters
    <2>4. None \notin DOMAIN Up[gen]  BY <2>3, UrlNamed DEF Urls
    <2>5. ~Resolvable(Current)  BY <2>2, <2>4, Zenon DEF Resolvable
    <2>6. ~Resolved(next)  BY <2>5, Zenon DEF Resolved, Current
    <2> QED  BY <2>1, <2>6 DEF Unreasoned
  <1> QED  BY <1>2, <1>6, <1>7, <1>8

LEMMA KeptProbe ==
    ASSUME GInv, InFirst, FirstNow, UNCHANGED faults, Unreasoned, Kept,
           NEW wget \in BOOLEAN, NEW pkg \in BOOLEAN, Probe(wget, pkg)
    PROVE  Kept' /\ Unreasoned'
  <1>1. /\ Unreasoned'
        /\ UNCHANGED next \/ (next' = next + 1 /\ ~Resolved(next))
    BY ProbeInVain
  <1>2. UNCHANGED <<gen, lines, required>>  BY DEF Probe, world
  <1>3. CASE UNCHANGED next  BY <1>1, <1>2, <1>3, KeptKept
  <1>4. CASE next' = next + 1 /\ ~Resolved(next)
    <2>1. next \in Nat \ {0}  BY DEF GInv, Handling
    <2>2. \A i \in 1 .. next' - 1 : i \in 1 .. next - 1 \/ i = next  BY <1>4, <2>1
    <2>3. \A i : Resolved(i)' = Resolved(i)  BY <1>2, SameResolved
    <2>4. \A i : Actual(require[i])' = Actual(require[i])
      BY <1>2 DEF Actual, Replacing, lines
    <2> QED  BY <1>1, <1>2, <1>4, <2>2, <2>3, <2>4 DEF Kept, lines
  <1> QED  BY <1>1, <1>3, <1>4

LEMMA KeptNext ==
    ASSUME GInv, InFirst, FirstNow, UNCHANGED faults, Kept, Unreasoned, [Next]_vars,
           ~RunAgain, ~Interrupt
    PROVE  Kept' /\ Unreasoned'
  <1>1. CASE UNCHANGED <<gen, lines, required, next>> /\ Unreasoned'
    BY <1>1, KeptKept
  <1>2. ASSUME NEW up \in BOOLEAN, FetchMain(up)  PROVE Kept' /\ Unreasoned'
    <2>1. /\ UNCHANGED <<gen, lines, required, next>> /\ pc' \in {"parse", "raised"}
      BY <1>2 DEF FetchMain, world, tables
    <2> QED  BY <1>1, <2>1 DEF Unreasoned
  <1>3. ASSUME NEW up \in BOOLEAN, FetchModule(up)  PROVE Kept' /\ Unreasoned'
    <2>1. pc' = "line"  BY <1>3, FetchModuleIs
    <2>2. Kept'  BY <1>3, KeptFetchModule
    <2> QED  BY <2>1, <2>2 DEF Unreasoned
  <1>4. CASE Parse
    <2>1. next = 1 /\ UNCHANGED next /\ pc' = "line"  BY <1>4 DEF GInv, Fresh, Parse
    <2> QED  BY <2>1 DEF Kept, Unreasoned
  <1>5. CASE NextLine
    <2>1. /\ UNCHANGED <<gen, lines, required, next>>
          /\ pc' \in {"src_uri", "fetch"} \/ (pc' = "probe" /\ probe' = Current.m)
      BY <1>5 DEF NextLine, world, tables
    <2>2. Current' = Current  BY <2>1, CurrentKept
    <2> QED  BY <1>1, <2>1, <2>2 DEF Unreasoned
  <1>6. ASSUME NEW wget \in BOOLEAN, NEW pkg \in BOOLEAN, Probe(wget, pkg)
        PROVE  Kept' /\ Unreasoned'
    BY <1>6, KeptProbe
  <1>7. CASE GenSrcUriInc \/ GenRelocationInc \/ GenModulesTxt
    <2>1. /\ UNCHANGED <<gen, lines, required, next>>
          /\ pc' \in {"relocation", "modules_txt", "done"}
      BY <1>7 DEF GenSrcUriInc, GenRelocationInc, GenModulesTxt, world, tables
    <2> QED  BY <1>1, <2>1 DEF Unreasoned
  <1>8. CASE UNCHANGED vars
    <2>1. UNCHANGED <<gen, lines, required, next, pc, probe, unhandled>>
      BY <1>8 DEF vars, world, tables
    <2>2. Current' = Current  BY <2>1, CurrentKept
    <2> QED  BY <1>1, <2>1, <2>2 DEF Unreasoned
  <1> QED  BY <1>2, <1>3, <1>4, <1>5, <1>6, <1>7, <1>8, Zenon DEF Next

LEMMA InitKInv == Init => KInv
  <1> SUFFICES ASSUME Init  PROVE KInv  OBVIOUS
  <1>1. FInv /\ LInv  BY InitFInv, InitLInv
  <1>2. Kept /\ Unreasoned  BY DEF Init, Kept, Unreasoned
  <1> QED  BY <1>1, <1>2 DEF KInv

LEMMA NextKInv == KInv /\ [Next]_vars => KInv'
  <1> SUFFICES ASSUME KInv, [Next]_vars  PROVE KInv'  OBVIOUS
  <1>1. FInv' /\ LInv'  BY NextFInv, NextLInv DEF KInv
  <1>2. ASSUME FirstNow'  PROVE Kept' /\ Unreasoned'
    <2>1. GInv /\ LInv  BY DEF KInv, FInv
    <2>2. FirstNow /\ UNCHANGED faults /\ ~RunAgain /\ ~Interrupt
      BY <1>2, <2>1, StillFirst
    <2>3. InFirst  BY <2>1, <2>2 DEF LInv, FirstRun, FirstNow, InFirst
    <2> QED  BY <2>1, <2>2, <2>3, KeptNext DEF KInv
  <1> QED  BY <1>1, <1>2 DEF KInv

LEMMA NothingLost ==
    ASSUME KInv, pc = "done", FirstNow, NEW i \in DOMAIN require, Resolved(i)
    PROVE  /\ \E j \in DOMAIN srcUri : srcUri[j].dest = Actual(require[i]).m
           /\ \E j \in DOMAIN sites : sites[j].dest = require[i].m
  <1>1. i \in 1 .. next - 1  BY LinesNow DEF KInv, FInv, Through
  <1>2. PICK j \in DOMAIN required :
          required[j].m = require[i].m /\ required[j].actual = Actual(require[i]).m
    BY <1>1 DEF KInv, Kept
  <1>3. /\ \E k \in DOMAIN srcUri : srcUri[k].dest = required[j].actual
        /\ \E k \in DOMAIN sites : sites[k].dest = required[j].m
    BY DEF KInv, FInv, Written
  <1> QED  BY <1>2, <1>3

(***************************************************************************)
(* parse_go_mod: in a first run that reaches the network every module that *)
(* is alone in its repository and with its cache file and can be resolved  *)
(* is in src_uri.inc and in relocation.inc.                                *)
(***************************************************************************)
THEOREM GoModLostOnlyByFault == Spec => []LostOnlyByFault
  <1>1. KInv => LostOnlyByFault
    BY NothingLost, Zenon DEF LostOnlyByFault, FirstNow, Resolved
  <1> QED  BY <1>1, InitKInv, NextKInv, PTL DEF Spec
=============================================================================
