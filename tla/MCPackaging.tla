---------------------------- MODULE MCPackaging ----------------------------
(* Packages as the loader's vendored libraries see them, one part at a time. *)
(* pkg_resources: two versions of a, one as an egg and one as a development  *)
(* tree of b, a c that only an installer has, and plugins that need them     *)
(* (WorkingSet); two processes that extract the resources of an egg          *)
(* (EggCache).  What requirements and patterns mean: specifier sets and      *)
(* markers (Specifiers), semantic versions (SemVer), globs (GlobMatch) and   *)
(* the tags of wheels (WheelTags).                                           *)
EXTENDS WorkingSet, Specifiers, EggCache

Req(key, vers) == [key |-> key, vers |-> vers, extras |-> <<>>, marker |-> ""]
With(r, extra) == [r EXCEPT !.extras = <<extra>>]
If(r, extra) == [r EXCEPT !.marker = extra]
Line(r) == [k |-> "req", req |-> r]
Section(extra, mark) == [k |-> "section", extra |-> extra, marker |-> mark]

Egg(key, ver, loc, lines, ns) ==
  [key |-> key, ver |-> ver, loc |-> loc, dir |-> "lib", prec |-> 3, plat |-> <<>>, meta |-> "egg",
   lines |-> lines, ns |-> ns]

a1 == Egg("a", 1, "a1", <<Line(Req("b", {1, 2})), Section("x", ""), Line(Req("c", {1})),
                          Section("x", "false"), Line(Req("c", {2})), Section("y", "")>>, {"n"})
a2 == [Egg("a", 2, "a2", <<Line(Req("b", {2}))>>, {}) EXCEPT !.plat = <<"macosx", 10, 9, "x86">>]
a3 == [Egg("a", 3, "a3", <<>>, {}) EXCEPT !.plat = <<"macosx", 10, 20, "x86">>]
b1 == Egg("b", 1, "b1", <<>>, {})
b2 == [Egg("b", 2, "src", <<Section("x", ""), Line(If(Req("c", {1}), "x"))>>, {"n"})
         EXCEPT !.meta = "wheel", !.prec = -1, !.dir = "root"]
c1 == Egg("c", 1, "c1", <<Line(Req("a", {1, 2}))>>, {"n", "n.m"})
p1 == Egg("p", 1, "p1", <<Line(With(Req("b", {2}), "x")), Line(Req("c", {1}))>>, {})
p2 == Egg("p", 2, "p2", <<Line(Req("a", {2}))>>, {})
q1 == Egg("q", 1, "q1", <<Line(Req("a", {1}))>>, {})

Entry(kind, name, d) == [kind |-> kind, name |-> name, ver |-> d.ver, empty |-> FALSE, dist |-> d, link |-> ""]
Own(d) == <<Entry("unpacked", 1, d)>>

MCDisk == [i \in {"lib", "src", "links", "a1", "a2", "b1", "c1"} |->
  CASE i = "lib" -> <<Entry("egg", 1, a1), Entry("egg", 1, a2), Entry("egg", 1, a3), Entry("egg", 2, b1),
                      Entry("other", 3, b1)>>
    [] i = "src" -> <<Entry("dist-info", 2, b2), [Entry("egg-info", 3, b1) EXCEPT !.empty = TRUE]>>
    [] i = "links" -> <<[Entry("egg-link", 2, NoDist) EXCEPT !.link = "src"]>>
    [] i = "a1" -> Own(a1) [] i = "a2" -> Own(a2) [] i = "b1" -> Own(b1) [] i = "c1" -> Own(c1)]

MCLocOrder == <<"a", "a1", "a2", "a3", "b", "b1", "c", "c1", "lib", "links", "p", "p1", "p2", "q", "q1", "src">>
MCPlatform == <<"macosx", 10, 12, "x86">>
MCSysPaths == {<<"lib">>, <<"a1", "lib">>, <<"lib", "b1", "src">>, <<"links", "lib">>, <<"src", "a1">>}
MCMainRequires == {<<>>, <<Req("a", {1, 2})>>, <<Req("a", {2}), Req("b", {2})>>, <<Req("c", {1})>>}
MCRequests == {<<Req("a", {1, 2})>>, <<With(Req("a", {1}), "y")>>, <<With(Req("b", {1, 2}), "x")>>,
               <<Req("b", {2}), Req("a", {1, 2})>>, <<Req("c", {1})>>, <<If(Req("z", {1}), "x"), Req("a", {1})>>}
MCPlugins == [k \in {"p", "q"} |-> IF k = "p" THEN <<p1, p2>> ELSE <<q1>>]
MCInstallable == <<c1, b1, a1>>
MCPackages == {"n", "n.m"}
MCParent == [p \in MCPackages |-> IF p = "n" THEN None ELSE "n"]
MCProvided == [p \in MCPackages |-> IF p = "n" THEN {"a1", "src", "c1"} ELSE {"src", "c1"}]

-----------------------------------------------------------------------------
T(release, pre, post, dev, local) ==
  [epoch |-> 0, release |-> release, pre |-> pre, post |-> post, dev |-> dev,
   local |-> local, legacy |-> <<>>]
Plain(release) == T(release, <<>>, <<>>, <<>>, <<>>)
Old(tokens) == [Plain(<<>>) EXCEPT !.legacy = tokens]
Word(n) == <<<<-1, n>>>>
LocalText == T(<<1, 0>>, <<>>, <<>>, <<>>, Word(1))

S(op, text_, wild) == [op |-> op, text |-> text_, wild |-> wild]

MCAsks ==
  {S(">=", T(<<1, 0>>, <<"alpha", NoNumber>>, <<>>, <<>>, <<>>), FALSE),
   S("<", Plain(<<1, 1>>), FALSE),
   S("<=", T(<<1>>, <<>>, <<"rev", 1>>, <<>>, <<>>), FALSE),
   S(">", Plain(<<1, 0>>), FALSE),
   S("==", Plain(<<1, 0>>), TRUE),
   S("!=", T(<<1>>, <<"c", 1>>, <<>>, <<>>, <<>>), TRUE),
   S("==", Plain(<<1>>), FALSE),
   S("==", Plain(<<1, 0>>), FALSE),
   S("!=", LocalText, FALSE),
   S("~=", Plain(<<1, 0>>), FALSE),
   S("~=", T(<<1, 0>>, <<"a", 1>>, <<"-", 1>>, <<>>, <<>>), FALSE),
   S("~=", Plain(<<1, 0, 0>>), FALSE),
   S("===", LocalText, FALSE),
   S(">", LocalText, FALSE),
   S(">", [LocalText EXCEPT !.release = <<1>>], FALSE),
   S("===", Plain(<<1, 0>>), TRUE),
   S("<", Old(<<Digits + 1, Rank("x")>>), FALSE)}

MCItems ==
  {Parse(t) : t \in
     {Plain(<<1>>), Plain(<<1, 0>>), Plain(<<1, 0, 2>>), Plain(<<1, 1>>),
      T(<<1, 0>>, <<"alpha", 1>>, <<>>, <<>>, <<>>),
      T(<<1>>, <<"preview", 1>>, <<>>, <<NoNumber>>, <<>>),
      T(<<1, 0>>, <<>>, <<>>, <<1>>, <<>>),
      T(<<1, 0>>, <<>>, <<"r", 1>>, <<>>, <<>>),
      LocalText, T(<<1, 0>>, <<>>, <<>>, <<>>, <<<<1, 0>>>>),
      [Plain(<<1, 0>>) EXCEPT !.epoch = 1],
      Old(<<Digits + 1, Rank("x")>>), Old(<<Rank("x"), Digits>>)}}

MCEnv == [python_version |-> Plain(<<3, 1>>), os_name |-> Old(<<Rank("x")>>),
          full |-> T(<<3, 1>>, <<"b", 1>>, <<>>, <<>>, <<>>)]
Var(name) == [var |-> name, text |-> Old(<<Rank("x")>>)]
Lit(t) == [var |-> "", text |-> t]
I(lhs, op, rhs) == [lhs |-> lhs, op |-> op, rhs |-> rhs, wild |-> FALSE]

MCMarkerItems ==
  [newPython |-> I(Var("python_version"), ">=", Lit(Plain(<<3>>))),
   betaPython |-> I(Var("full"), "<", Lit(Old(<<Rank("a"), Digits + 3>>))),
   inName |-> I(Lit(Old(<<Rank("a")>>)), "in", Var("os_name")),
   noExtra |-> I(Var("extra"), "==", Lit(Old(<<Rank("x")>>)))]

MCTextStarts == {<<>>, <<"1", ".", "0", ".", "0">>, <<"0", ".", "0", "1">>}

Linux == [impl |-> "cp", py |-> <<3, 8>>, debug |-> "unset", debugBuild |-> TRUE,
          pymalloc |-> TRUE, wide |-> TRUE, system |-> "Linux", arch |-> "x86_64",
          bits32 |-> FALSE, version |-> <<10, 5>>, glibc |-> <<2, 12>>,
          armhf |-> TRUE, i686 |-> FALSE, soabi |-> TRUE]

MCMachines ==
  {[Linux EXCEPT !.py = py, !.impl = impl, !.bits32 = bits, !.glibc = glibc,
                 !.arch = arch, !.debug = debug] :
     py \in {<<2, 7>>, <<3, 3>>, <<3, 8>>}, impl \in {"cp", "pp"}, bits \in BOOLEAN,
     glibc \in {<<>>, <<2, 4>>, <<2, 12>>, <<2, 17>>, <<3, 1>>},
     arch \in {"x86_64", "aarch64", "mips"}, debug \in {"no", "unset"}}
  \cup {[Linux EXCEPT !.system = "Darwin", !.version = <<10, minor>>, !.arch = arch,
                      !.bits32 = bits, !.py = <<3, 3>>] :
           minor \in {3, 5, 7}, arch \in {"x86_64", "ppc64", "ppc", "arm64"},
           bits \in BOOLEAN}
  \cup {[Linux EXCEPT !.system = "Windows"]}

-----------------------------------------------------------------------------
CONSTANTS TextStarts, MaxTyped, MaxNumber, GlobTokens, PathChars, MaxPattern, MaxPath,
          Machines
VARIABLES part, text, typed, semver, pattern, path, machine, emitted

Sem == INSTANCE SemVer
Glob == INSTANCE GlobMatch
Tags == INSTANCE WheelTags

semVars == <<text, typed, semver>>
globVars == <<pattern, path>>
tagVars == <<machine, emitted>>
meaningVars == <<specVars, marker, semVars, globVars, tagVars>>

MCDirs == [d \in {"dir"} |-> <<"f", "g">>]
MCEager == <<"g", "f">>

\* an empty cache, while another part runs
CacheIdle == CacheInit /\ ~nt /\ egg = [p \in Procs |-> "v1"] /\ real = [f \in Files |-> "none"]
NoSet == /\ sysPath = <<>> /\ ws = NoState /\ declared = <<>> /\ modPath = <<>> /\ saved = NoState
         /\ granted = {} /\ replaced = FALSE /\ moved = FALSE /\ ops = 0 /\ pc = "idle"

MCInit ==
  /\ part \in {"set", "cache", "spec", "marker", "semver", "glob", "tags"}
  /\ IF part = "set" THEN Init ELSE NoSet
  /\ IF part = "cache" THEN CacheInit ELSE CacheIdle
  /\ SpecInit /\ MarkerInit /\ Glob!GlobInit
  /\ IF part = "semver" THEN Sem!SemInit
     ELSE text = <<>> /\ typed = 0 /\ semver = Sem!Invalid
  /\ IF part = "tags" THEN Tags!TagInit ELSE machine = Linux /\ emitted = <<>>

MeaningNext ==
  \/ part = "spec" /\ SpecNext /\ UNCHANGED <<marker, semVars, globVars, tagVars>>
  \/ part = "marker" /\ MarkerNext /\ UNCHANGED <<specVars, semVars, globVars, tagVars>>
  \/ part = "semver" /\ Sem!SemNext /\ UNCHANGED <<specVars, marker, globVars, tagVars>>
  \/ part = "glob" /\ Glob!GlobNext /\ UNCHANGED <<specVars, marker, semVars, tagVars>>
  \/ part = "tags" /\ Tags!Yield /\ UNCHANGED <<specVars, marker, semVars, globVars>>

MCNext ==
  /\ UNCHANGED part
  /\ \/ part = "set" /\ WsNext /\ UNCHANGED <<cacheVars, meaningVars>>
     \/ part = "cache" /\ CacheNext /\ UNCHANGED <<wsVars, meaningVars>>
     \/ MeaningNext /\ UNCHANGED <<wsVars, cacheVars>>

Spec == MCInit /\ [][MCNext]_<<part, wsVars, cacheVars, meaningVars>>

-----------------------------------------------------------------------------
\* SemVer.NextIsLeast (Version.coerce, next_major, next_minor and next_patch).
NextIsLeast == Sem!NextIsLeast

\* GlobMatch.GlobFollowsNames (globmatch.translation).
GlobFollowsNames == Glob!GlobFollowsNames

\* WheelTags.TagsRunHere (packaging.tags.sys_tags).
TagsRunHere == Tags!TagsRunHere
=============================================================================
