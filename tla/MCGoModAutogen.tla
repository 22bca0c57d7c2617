--------------------------- MODULE MCGoModAutogen ---------------------------
(***************************************************************************)
(* Two repositories of basename a (h/a with a nested module, k/a with a    *)
(* module of major version 2), one behind a vanity name that is itself a   *)
(* prefix of another, one known to pkg.go.dev or to the mapper only.  The  *)
(* cache file of h/a/sub is the one of h/a_sub, which has a repository of  *)
(* its own, and SRCREV_k-a is the name of h/k-a and, after h/a, of k/a.    *)
(* Generation 2 has a new tag and a new commit in h/a.                     *)
(***************************************************************************)
EXTENDS GoModAutogen

HA == <<"h", "a">>   HS == <<"h", "a", "sub">>
KA == <<"k", "a">>   KV == <<"k", "a", "v2">>
VX == <<"v", "x">>   FORK == <<"fork", "of">>
INET == <<"inet.af", "p">>  MAPPED == <<"github.com", "inetaf", "p">>
HG == <<"hg", "x">>  MAIN == <<"h", "main">>
HU == <<"h", "a_sub">>  HK == <<"h", "k-a">>

Repo(tags, tip, commits) == [tags |-> tags, tip |-> tip, commits |-> commits]

MCUp ==
    LET main == Repo(<<"v1">> :> "m1", "m2", {"m1", "m2"})
        ha1  == Repo(<<"v1">> :> "a1" @@ <<"sub", "v1">> :> "a2", "a2", {"a1", "a2"})
        ha2  == Repo(ha1.tags @@ <<"v3">> :> "a3", "a3", {"a1", "a2", "a3"})
        ka   == Repo(<<"v1">> :> "k1" @@ <<"v2.0">> :> "k2", "k1", {"k1", "k2"})
        vx   == Repo(<<"x", "v1">> :> "x1", "x1", {"x1"})
        fork == Repo(<<"of", "v1">> :> "f1" @@ <<"v3">> :> "f2", "f2", {"f1", "f2"})
        inet == Repo(<<"p", "v1">> :> "p1", "p1", {"p1"})
        hu   == Repo(<<"v1">> :> "u1", "u1", {"u1"})
        rest == MAIN :> main @@ KA :> ka @@ VX :> vx @@ FORK :> fork @@ MAPPED :> inet
                  @@ HU :> hu
    IN  <<rest @@ HA :> ha1, rest @@ HA :> ha2>>

MCDirs ==
    [c \in {"m1", "m2", "a1", "a2", "a3", "k1", "k2", "x1", "f1", "f2", "p1", "u1"} |->
       CASE c \in {"a1", "a2", "a3"} -> {<<"sub">>}
         [] c = "x1" -> {<<"x">>}
         [] c = "k2" -> {<<"v2">>}
         [] c = "f1" -> {<<"of">>}
         [] OTHER -> {}]

MCGoImport ==
    LET git(u) == [vcs |-> "git", url |-> u]
    IN  HA :> git(HA) @@ KA :> git(KA) @@ <<"v">> :> git(KA)
          @@ FORK :> git(FORK) @@ HG :> [vcs |-> "hg", url |-> HG]
          @@ MAIN :> git(MAIN) @@ HU :> git(HU) @@ HK :> git(KA)

MCPkgGoDev == VX :> VX @@ KV :> KA

MCMajor == [v \in {"v1", "v3", "v2.0", "a1", "a3", "x1", "k2"} |->
              IF v = "v2.0" THEN "v2" ELSE v]

MCWidth == [p \in {"h", "k", "v", "x", "a", "sub", "v2", "fork", "of", "inet.af", "p",
                   "github.com", "inetaf", "hg", "main", "net.af", "netaf", "",
                   "a_sub", "k-a"} |->
              CASE p \in {"fork", "main"} -> 4 [] p \in {"github.com"} -> 10
                [] p = "a_sub" -> 5 [] p \in {"sub", "k-a"} -> 3 [] p \in {"of", "v2", "hg"} -> 2
                [] p \in {"inet.af", "inetaf"} -> 7
                [] p = "net.af" -> 6 [] p = "netaf" -> 5 [] p = "" -> 0 [] OTHER -> 1]

\* The characters of "require " are r, e, q, u and i, those of "replace "
\* r, e, p, l, a and c.
MCLstripRequire ==
    [p \in DOMAIN MCWidth |-> CASE p = "inet.af" -> "net.af" [] p = "inetaf" -> "netaf" [] OTHER -> p]
MCLstripReplace == [p \in DOMAIN MCWidth |-> IF p \in {"a", "p"} THEN "" ELSE p]

MCUnderscored ==
    [p \in DOMAIN MCWidth |-> IF p = "a_sub" THEN <<"a", "sub">> ELSE <<p>>]
MCHyphened == [p \in DOMAIN MCWidth |-> IF p = "k-a" THEN <<"k", "a">> ELSE <<p>>]

GoLine(k, m, rev, to) == [k |-> k, m |-> m, rev |-> rev, to |-> to]
Mark(k) == GoLine(k, None, "none", None)
Require(m, rev) == GoLine("entry", m, rev, None)
MCCommits == {"a1", "a3", "x1", "k2"}

Requires ==
    {Require(HA, "v1"), Require(HA, "a1"), Require(HA, "v3"), Require(HS, "v1"),
     Require(HS, "a1"), Require(KA, "v1"), Require(KV, "v2.0"), Require(KV, "k2"),
     Require(VX, "v1"), Require(INET, "v1"), Require(HG, "v1"), Require(HU, "v1")}

Replaces ==
    {<<>>,
     <<GoLine("replace", HA, "v1", FORK)>>,
     <<Mark("replace ("), GoLine("entry", KA, "v1", FORK), GoLine("entry", HS, "none", None),
       Mark(")"), Mark("other")>>,
     <<Mark("replace ("), GoLine("entry", HA, "v1", FORK), GoLine("entry", HS, "v3", FORK), Mark(")")>>}

MCGoMods ==
    {<<Mark("require (")>> \o rs \o <<Mark(")")>> \o rp :
       rs \in {r \in SeqOf(Requires, 2) : \A i, j \in DOMAIN r : i # j => r[i].m # r[j].m},
       rp \in Replaces}
    \cup
    {<<Mark("require (")>> \o rs \o <<Mark(")")>> :
       rs \in {r \in [1 .. 3 -> Requires] : \A i, j \in 1 .. 3 : i # j => r[i].m # r[j].m}}
    \cup
    {<<Mark("require (")>> \o rs \o <<Mark(")")>> :
       rs \in {<<Require(MAIN, "v3"), Require(HA, "v1")>>,
              <<Require(HA, "v1"), Require(KA, "v1"), Require(HK, "v1")>>,
              <<Require(HK, "v1"), Require(HA, "v1")>>}}
    \cup {<<GoLine("require", INET, "v1", None), GoLine("require", HA, "v1", None)>>}
=============================================================================
