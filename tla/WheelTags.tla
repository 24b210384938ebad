----------------------------- MODULE WheelTags -----------------------------
(* The tags of the wheels a machine can install, the best first             *)
(* (packaging/tags.py).  A tag is [interp, abi, plat], each a tuple of      *)
(* words and numbers.  The machine is what the code asks of the running     *)
(* interpreter:                                                             *)
(*   impl, py      its short name and version, "cp" and <<3, 8>>;           *)
(*   debug         Py_DEBUG: "yes", "no", or "unset" (then the debug        *)
(*                 allocator or a debug extension tells);                   *)
(*   debugBuild    whether one of those two is there;                       *)
(*   pymalloc      WITH_PYMALLOC, not unset to false;                       *)
(*   wide          a four byte unicode;                                     *)
(*   system, arch, bits32, version   of the platform; the version is macOS';*)
(*   glibc         <<major, minor>> of the C library, <<>> when unknown;    *)
(*   armhf         whether the ELF header of the interpreter is that of an  *)
(*                 armhf program, i686 whether that of an i386 one;         *)
(*   soabi         whether SOABI is set.                                    *)
EXTENDS Integers, Sequences, FiniteSets, SequencesExt

CONSTANT Machines

VARIABLES machine, emitted  \* what the generator has yielded

tagVars == <<machine, emitted>>

Down(a, b) == [i \in 1..(IF a >= b THEN a - b + 1 ELSE 0) |-> a - i + 1]
Each(s, Op(_)) == FoldLeft(LAMBDA all, x : all \o Op(x), <<>>, s)
Tag(i, a, p) == [interp |-> i, abi |-> a, plat |-> p]
OnAll(i, a, plats) == [k \in DOMAIN plats |-> Tag(i, a, plats[k])]
Before(v, w) == v[1] < w[1] \/ (v[1] = w[1] /\ v[2] < w[2])

(* _cpython_abis: the flags of the build; since 3.8 a debug interpreter     *)
(* also takes the extensions of a release build.                            *)
CpythonAbis(m) ==
  LET debug == m.debug = "yes" \/ (m.debug = "unset" /\ m.debugBuild)
      flag(b, f) == IF b THEN <<f>> ELSE <<>>
      old == Before(m.py, <<3, 8>>)
      flags == flag(debug, "d") \o flag(old /\ m.pymalloc, "m")
               \o flag(Before(m.py, <<3, 3>>) /\ m.wide, "u")
  IN <<<<"cp">> \o m.py \o flags>>
     \o (IF debug /\ ~old THEN <<<<"cp">> \o m.py>> ELSE <<>>)

(* cpython_tags: the own ABI, the stable one, none; then the stable ABI of  *)
(* each earlier minor version down to 3.2.                                  *)
Abi3Applies(m) == ~Before(m.py, <<3, 2>>)

CpythonTags(m, plats) ==
  LET interp == <<"cp">> \o m.py
      stable(minor) == OnAll(<<"cp", m.py[1], minor>>, <<"abi3">>, plats)
  IN Each(CpythonAbis(m), LAMBDA abi : OnAll(interp, abi, plats))
     \o (IF Abi3Applies(m) THEN OnAll(interp, <<"abi3">>, plats) ELSE <<>>)
     \o OnAll(interp, <<"none">>, plats)
     \o (IF Abi3Applies(m) THEN Each(Down(m.py[2] - 1, 2), stable) ELSE <<>>)

(* generic_tags: the ABI the build names, then none *)
GenericTags(m, plats) ==
  Each((IF m.soabi THEN <<<<"soabi">>>> ELSE <<>>) \o <<<<"none">>>>,
       LAMBDA abi : OnAll(<<m.impl>> \o m.py, abi, plats))

(* _py_interpreter_range and compatible_tags *)
PyInterpreterRange(m) ==
  <<<<"py">> \o m.py, <<"py", m.py[1]>>>>
  \o [i \in 1..m.py[2] |-> <<"py", m.py[1], m.py[2] - i>>]

CompatibleTags(m, plats) ==
  Each(PyInterpreterRange(m), LAMBDA i : OnAll(i, <<"none">>, plats))
  \o Each(PyInterpreterRange(m), LAMBDA i : OnAll(i, <<"none">>, <<<<"any">>>>))

(* _mac_arch, _mac_binary_formats and mac_platforms: every minor version    *)
(* down to 0, in the formats it had.                                        *)
MacArch(m) == IF ~m.bits32 THEN m.arch
              ELSE IF m.arch \in {"ppc", "ppc64"} THEN "ppc" ELSE "i386"

MacBinaryFormats(v, arch) ==
  CASE arch = "x86_64" -> IF Before(v, <<10, 4>>) THEN <<>>
                          ELSE <<arch, "intel", "fat64", "fat32", "universal">>
    [] arch = "i386" -> IF Before(v, <<10, 4>>) THEN <<>>
                        ELSE <<arch, "intel", "fat32", "fat", "universal">>
    [] arch = "ppc64" -> IF Before(<<10, 5>>, v) \/ Before(v, <<10, 4>>) THEN <<>>
                         ELSE <<arch, "fat64", "universal">>
    [] arch = "ppc" -> IF Before(<<10, 6>>, v) THEN <<>>
                       ELSE <<arch, "fat32", "fat", "universal">>
    [] OTHER -> <<arch, "universal">>

MacPlatforms(m) ==
  Each(Down(m.version[2], 0),
       LAMBDA minor : LET formats == MacBinaryFormats(<<m.version[1], minor>>, MacArch(m))
                      IN [k \in DOMAIN formats |->
                            <<"macosx", m.version[1], minor, formats[k]>>])

(* _linux_platforms: the manylinux names of the architecture, newest first; *)
(* from the first that the C library satisfies on they are all taken.       *)
LinuxArch(m) == CASE m.bits32 /\ m.arch = "x86_64" -> "i686"
                  [] m.bits32 /\ m.arch = "aarch64" -> "armv7l"
                  [] OTHER -> m.arch

ManylinuxAbi(m) == CASE LinuxArch(m) = "armv7l" -> m.armhf
                     [] LinuxArch(m) = "i686" -> m.i686
                     [] OTHER -> TRUE

Names2014 == {"x86_64", "i686", "aarch64", "armv7l", "ppc64", "ppc64le", "s390x"}
Needs(name) == CASE name = "manylinux2014" -> <<2, 17>>
                 [] name = "manylinux2010" -> <<2, 12>>
                 [] name = "manylinux1" -> <<2, 5>>

(* _check_glibc_version: the same major version, at least the minor one *)
MutGlibc(m, need) == m.glibc # <<>> /\ ~Before(m.glibc, need)

GlibcCompatible(m, need) ==
  m.glibc # <<>> /\ m.glibc[1] = need[1] /\ m.glibc[2] >= need[2]

LinuxPlatforms(m) ==
  LET arch == LinuxArch(m)
      support == (IF arch \in Names2014 THEN <<"manylinux2014">> ELSE <<>>)
                 \o (IF arch \in {"x86_64", "i686"}
                     THEN <<"manylinux2010", "manylinux1">> ELSE <<>>)
      good == {i \in DOMAIN support : ManylinuxAbi(m)
                                      /\ GlibcCompatible(m, Needs(support[i]))}
      from == {i \in DOMAIN support : \E g \in good : g <= i}
  IN [k \in 1..Cardinality(from) |->
        <<support[Len(support) - Cardinality(from) + k], arch>>]
     \o <<<<"linux", arch>>>>

PlatformTags(m) ==
  CASE m.system = "Darwin" -> MacPlatforms(m)
    [] m.system = "Linux" -> LinuxPlatforms(m)
    [] OTHER -> <<<<"generic", m.arch>>>>

SysTags(m) ==
  LET plats == PlatformTags(m)
  IN (IF m.impl = "cp" THEN CpythonTags(m, plats) ELSE GenericTags(m, plats))
     \o CompatibleTags(m, plats)

-----------------------------------------------------------------------------
TagInit == machine \in Machines /\ emitted = <<>>

(* The generator yields the next tag.                                       *)
Yield == /\ Len(emitted) < Len(SysTags(machine))
         /\ emitted' = Append(emitted, SysTags(machine)[Len(emitted) + 1])
         /\ UNCHANGED machine

(* Every wheel a tag stands for runs on the machine, and no tag comes       *)
(* twice, so that the first match is the best one: an interpreter of at     *)
(* most its version, a stable ABI from 3.2 on, a manylinux name of at most  *)
(* its C library, a macOS of at most its version (packaging/tags.py,        *)
(* sys_tags and the generators it chains).                                  *)
Runs(m, t) ==
  /\ Len(t.interp) = 3 => ~Before(m.py, Tail(t.interp))
  /\ t.abi = <<"abi3">> => ~Before(Tail(t.interp), <<3, 2>>)
  /\ t.abi[1] = "cp" => Tail(t.interp) = m.py /\ t.interp[1] = "cp"
  /\ t.plat[1] \in {"manylinux2014", "manylinux2010", "manylinux1"} =>
        m.glibc[1] = 2 /\ ~Before(m.glibc, Needs(t.plat[1]))
  /\ t.plat[1] = "macosx" => ~Before(m.version, <<t.plat[2], t.plat[3]>>)

TagsRunHere ==
  emitted # <<>> => /\ Runs(machine, Last(emitted))
                    /\ \A i \in DOMAIN Front(emitted) : emitted[i] # Last(emitted)
=============================================================================
