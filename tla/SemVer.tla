------------------------------- MODULE SemVer -------------------------------
(* The vendored semantic_version: versions, their texts, their order and    *)
(* the steps to the next one.  A text is a sequence of characters of        *)
(* CharOrder; a Version is [major, minor, patch, prerelease, build], the    *)
(* last two tuples of identifiers, each a text.  The deprecated partial     *)
(* versions are left out.                                                   *)
EXTENDS Integers, Sequences, FiniteSets, SequencesExt

CONSTANTS TextStarts,  \* the beginnings of the texts that are typed
          MaxTyped,    \* bound on the characters typed behind a beginning
          MaxNumber    \* bound on the numbers of a version

VARIABLES text,        \* what is typed
          typed,       \* how many of its characters
          semver       \* a Version

semVars == <<text, typed, semver>>

(* The characters in the order of their codes; "_" stands for all that a    *)
(* version may not hold.                                                    *)
CharOrder == <<"+", "-", ".", "0", "1", "_", "a">>
Code(c) == CHOOSE i \in DOMAIN CharOrder : CharOrder[i] = c
DigitChars == {"0", "1"}
IdentChars == {"0", "1", "a", "-"}

Invalid == [major |-> -1, minor |-> -1, patch |-> -1,
            prerelease |-> <<>>, build |-> <<>>]

IsNumeric(s) == s # <<>> /\ \A i \in DOMAIN s : s[i] \in DigitChars
Value(s) == FoldLeft(LAMBDA n, c : 10 * n + (IF c = "1" THEN 1 ELSE 0), 0, s)
HasLeadingZero(s) == IsNumeric(s) /\ Len(s) > 1 /\ s[1] = "0"

Cut(s, i, j) == SubSeq(s, i, j)
First(s, chars) ==
  LET at == {i \in DOMAIN s : s[i] \in chars}
  IN IF at = {} THEN Len(s) + 1 ELSE CHOOSE i \in at : \A j \in at : i <= j
From(s, i) == Cut(s, i, Len(s))

(* The parts between the dots *)
RECURSIVE SplitDots(_)
SplitDots(s) ==
  LET i == First(s, {"."})
  IN IF i > Len(s) THEN <<s>> ELSE <<Cut(s, 1, i - 1)>> \o SplitDots(From(s, i + 1))

JoinDots(parts) ==
  IF parts = <<>> THEN <<>>
  ELSE FoldLeft(LAMBDA s, p : s \o <<".">> \o p, Head(parts), Tail(parts))

(* _validate_identifiers *)
Identifiers(parts, zeroes) ==
  \A i \in DOMAIN parts : parts[i] # <<>> /\ (~HasLeadingZero(parts[i]) \/ zeroes)

InClass(s) == s # <<>> /\ \A i \in DOMAIN s : s[i] \in IdentChars \cup {"."}

(* parse: three numbers, then "-" and a pre-release, then "+" and a build;  *)
(* the pre-release goes up to the first "+".                                *)
ParseSem(s) ==
  LET plus == First(s, {"+"})
      dash == First(Cut(s, 1, plus - 1), {"-"})
      core == SplitDots(Cut(s, 1, dash - 1))
      pre == Cut(s, dash + 1, plus - 1)
      build == From(s, plus + 1)
      parts(t, given) == IF given THEN SplitDots(t) ELSE <<>>
      hasPre == dash < plus
      hasBuild == plus <= Len(s)
  IN IF /\ Len(core) = 3
        /\ \A i \in 1..3 : IsNumeric(core[i]) /\ ~HasLeadingZero(core[i])
        /\ hasPre => InClass(pre) /\ Identifiers(SplitDots(pre), FALSE)
        /\ hasBuild => InClass(build) /\ Identifiers(SplitDots(build), TRUE)
     THEN [major |-> Value(core[1]), minor |-> Value(core[2]),
           patch |-> Value(core[3]),
           prerelease |-> parts(pre, hasPre), build |-> parts(build, hasBuild)]
     ELSE Invalid

(* __str__; the numbers of a text have the digits of DigitChars *)
Digit(n) == IF n = 0 THEN <<"0">> ELSE <<"1">>
RECURSIVE Decimal(_)
Decimal(n) == IF n < 10 THEN Digit(n) ELSE Decimal(n \div 10) \o Digit(n % 10)

Str(v) ==
  JoinDots(<<Decimal(v.major), Decimal(v.minor), Decimal(v.patch)>>)
  \o (IF v.prerelease = <<>> THEN <<>> ELSE <<"-">> \o JoinDots(v.prerelease))
  \o (IF v.build = <<>> THEN <<>> ELSE <<"+">> \o JoinDots(v.build))

(* lstrip('0') or '0' *)
StripZeros(s) ==
  LET i == First(s, {"1"}) IN IF i > Len(s) THEN <<"0">> ELSE From(s, i)

(* coerce.  base_re takes up to three numbers; missing ones are "0".  What  *)
(* follows is a build behind "+" or ".", and otherwise a pre-release, the   *)
(* "-" in front of it dropped, and a build behind its first "+"; characters *)
(* that are not allowed become "-", further "+" in the build become ".".    *)
RECURSIVE BaseEnd(_, _)
BaseEnd(s, n) ==
  LET stop == First(s, {CharOrder[i] : i \in DOMAIN CharOrder} \ DigitChars)
      dotted == /\ n > 1 /\ stop \in 2..(Len(s) - 1)
                /\ s[stop] = "." /\ s[stop + 1] \in DigitChars
  IN IF dotted THEN stop + BaseEnd(From(s, stop + 1), n - 1) ELSE stop - 1

Replace(s, chars, by) == [i \in DOMAIN s |-> IF s[i] \in chars THEN by ELSE s[i]]

Coerce(s) ==
  LET end == BaseEnd(s, 3)
      numbers == SplitDots(Cut(s, 1, end)) \o <<<<"0">>, <<"0">>>>
      base == JoinDots([i \in 1..3 |-> StripZeros(numbers[i])])
      rest == Replace(From(s, end + 1), {"_"}, "-")
      tail == IF rest[1] = "-" THEN Tail(rest) ELSE rest
      plus == IF rest[1] \in {"+", "."} THEN 1 ELSE First(tail, {"+"})
      pre == Cut(tail, 1, plus - 1)
      build == Replace(From(tail, plus + 1), {"+"}, ".")
  IN IF end = 0 THEN Invalid
     ELSE IF rest = <<>> THEN ParseSem(base)
     ELSE ParseSem(base \o (IF pre = <<>> THEN <<>> ELSE <<"-">> \o pre)
                        \o (IF build = <<>> THEN <<>> ELSE <<"+">> \o build))

-----------------------------------------------------------------------------
(* Order.  A numeric identifier is below an alphanumeric one; a version     *)
(* without pre-release is above all of its pre-releases (MaxIdentifier).    *)
TextLess(s, t) ==
  \E i \in DOMAIN t : /\ \A j \in 1..(i - 1) : j \in DOMAIN s /\ s[j] = t[j]
                      /\ i \in DOMAIN s => Code(s[i]) < Code(t[i])

IdentLess(s, t) ==
  IF IsNumeric(s) THEN IsNumeric(t) => Value(s) < Value(t)
  ELSE ~IsNumeric(t) /\ TextLess(s, t)

IdentsLess(p, q) ==
  IF p = <<>> \/ q = <<>> THEN p # <<>>
  ELSE \E i \in DOMAIN q :
          /\ \A j \in 1..(i - 1) : j \in DOMAIN p /\ p[j] = q[j]
          /\ i \in DOMAIN p => IdentLess(p[i], q[i])

(* precedence_key compared; the build does not count *)
Below(v, w) ==
  \/ v.major < w.major
  \/ v.major = w.major /\ v.minor < w.minor
  \/ v.major = w.major /\ v.minor = w.minor /\ v.patch < w.patch
  \/ /\ <<v.major, v.minor, v.patch>> = <<w.major, w.minor, w.patch>>
     /\ v.prerelease # w.prerelease /\ IdentsLess(v.prerelease, w.prerelease)

-----------------------------------------------------------------------------
Release(a, b, c) == [major |-> a, minor |-> b, patch |-> c,
                     prerelease |-> <<>>, build |-> <<>>]

MutNextMajor(v) ==
  Release(IF v.prerelease # <<>> /\ v.patch = 0 THEN v.major ELSE v.major + 1, 0, 0)

NextMajor(v) ==
  Release(IF v.prerelease # <<>> /\ v.minor = 0 /\ v.patch = 0
          THEN v.major ELSE v.major + 1, 0, 0)

NextMinor(v) ==
  Release(v.major, IF v.prerelease # <<>> /\ v.patch = 0
                   THEN v.minor ELSE v.minor + 1, 0)

NextPatch(v) ==
  Release(v.major, v.minor, IF v.prerelease # <<>> THEN v.patch ELSE v.patch + 1)

Truncate(v, level) ==
  CASE level = "build" -> v
    [] level = "prerelease" -> [v EXCEPT !.build = <<>>]
    [] level = "patch" -> Release(v.major, v.minor, v.patch)
    [] level = "minor" -> Release(v.major, v.minor, 0)
    [] level = "major" -> Release(v.major, 0, 0)

-----------------------------------------------------------------------------
(* A text is typed and coerced; the version that comes of it is moved on.   *)
SemInit == text \in TextStarts /\ typed = 0 /\ semver = Invalid

Type(c) == /\ typed < MaxTyped /\ semver = Invalid
           /\ text' = Append(text, c) /\ typed' = typed + 1
           /\ UNCHANGED semver

Read == /\ semver = Invalid /\ Coerce(text) # Invalid
        /\ semver' = Coerce(text)
        /\ UNCHANGED <<text, typed>>

Move == /\ semver # Invalid
        /\ \/ semver.major < MaxNumber /\ semver' = NextMajor(semver)
           \/ semver.minor < MaxNumber /\ semver' = NextMinor(semver)
           \/ semver.patch < MaxNumber /\ semver' = NextPatch(semver)
           \/ \E level \in {"build", "prerelease", "patch", "minor", "major"} :
                 semver' = Truncate(semver, level)
        /\ UNCHANGED <<text, typed>>

SemNext == Read \/ Move \/ \E i \in DOMAIN CharOrder : Type(CharOrder[i])

Releases == {Release(a, b, c) : a, b, c \in 0..(MaxNumber + 1)}

IsLeast(w, v, kind) ==
  /\ w \in kind /\ Below(v, w)
  /\ \A x \in kind : Below(v, x) => ~Below(x, w)

(* From any text to the next version: coerce agrees with parse on a text    *)
(* that parses, what it makes of any other is a version whose own text      *)
(* reads back as itself, and from there the next patch, minor or major      *)
(* version is the least release of its kind above, from a pre-release too:  *)
(* 1.0.0-a is followed by 1.0.0 (semantic_version.py, coerce, parse,        *)
(* __str__, next_major, next_minor and next_patch).                         *)
NextIsLeast ==
  LET v == semver IN
  /\ ParseSem(text) # Invalid => Coerce(text) = ParseSem(text)
  /\ Coerce(text) # Invalid => ParseSem(Str(Coerce(text))) = Coerce(text)
  /\ v # Invalid /\ {v.major, v.minor, v.patch} \subseteq 0..MaxNumber =>
       /\ IsLeast(NextPatch(v), v, Releases)
       /\ IsLeast(NextMinor(v), v, {r \in Releases : r.patch = 0})
       /\ IsLeast(NextMajor(v), v, {r \in Releases : r.patch = 0 /\ r.minor = 0})
=============================================================================
