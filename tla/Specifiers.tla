----------------------------- MODULE Specifiers -----------------------------
(* Versions, version specifiers, sets of them and the markers of a          *)
(* requirement, as the vendored packaging library reads and evaluates them  *)
(* (packaging/version.py, _structures.py, utils.py, specifiers.py and       *)
(* markers.py).                                                             *)
(*                                                                          *)
(* The text of a version is the record of what VERSION_PATTERN's groups     *)
(* caught:                                                                  *)
(*   epoch, release   numbers; an epoch of 0 is one that is not written;    *)
(*   pre, post        <<>> or <<the word as it was spelled, its number>>;   *)
(*                    the post-release "-1" has the word "-";               *)
(*   dev              <<>> or <<its number>>;                               *)
(*   local            segments: <<n, 0>> a number, <<-1, w>> a word, the    *)
(*                    w-th from "x" on;                                     *)
(*   legacy           <<>>, or the tokens of a text that the pattern does   *)
(*                    not match (the other fields are then empty).          *)
(* NoNumber stands for a number that is not written.  Case, the optional    *)
(* "v" and the separators in front of a word are left out.  A Version is    *)
(* such a record too, the one its __str__ writes: canonical words, every    *)
(* number present.                                                          *)
(*                                                                          *)
(* A specifier is [op, text, wild]: its operator, the text behind it        *)
(* (as above) and whether ".*" ends it.  The prereleases of a   *)
(* set is <<>> (None), <<TRUE>> or <<FALSE>>.                               *)
EXTENDS Integers, Sequences, FiniteSets, SequencesExt, FiniteSetsExt

CONSTANTS Asks,       \* the specifiers a caller combines
          Items,      \* the versions the set is asked about
          MaxAsks,    \* bound on the specifiers combined into one set
          MarkerItems, \* the comparisons a marker is made of, by name
          Env,        \* the environment a marker is evaluated in
          MaxTokens   \* bound on the tokens of a marker

VARIABLES specSet,    \* the SpecifierSet: [specs, pre]
          asked,      \* history: every specifier combined into it
          marker      \* the tokens of a marker

specVars == <<specSet, asked>>

-----------------------------------------------------------------------------
(* Versions *)

NoNumber == -1
Infinity == <<1000>>
NegativeInfinity == <<-1>>

IsLegacy(t) == t.legacy # <<>>

(* _parse_letter_version: a number that is left out is 0, and the           *)
(* alternative spellings are folded into a, b, rc and post.                 *)
ParseLetterVersion(part) ==
  IF part = <<>> THEN <<>>
  ELSE LET word == part[1]
           letter == CASE word = "alpha" -> "a"
                       [] word = "beta" -> "b"
                       [] word \in {"c", "pre", "preview"} -> "rc"
                       [] word \in {"rev", "r", "-"} -> "post"
                       [] OTHER -> word
       IN <<letter, IF part[2] = NoNumber THEN 0 ELSE part[2]>>

(* parse: a Version when the pattern matches, else a LegacyVersion, which   *)
(* keeps its text.                                                          *)
Parse(t) ==
  IF IsLegacy(t) THEN t
  ELSE [t EXCEPT !.pre = ParseLetterVersion(@),
                 !.post = ParseLetterVersion(@),
                 !.dev = IF @ = <<NoNumber>> THEN <<0>> ELSE @]

(* The properties that are taken from the groups; a LegacyVersion answers   *)
(* False to the three questions.                                            *)
IsPrerelease(v) == ~IsLegacy(v) /\ (v.dev # <<>> \/ v.pre # <<>>)
IsPostrelease(v) == ~IsLegacy(v) /\ v.post # <<>>
Public(v) == [v EXCEPT !.local = <<>>]
BaseVersion(v) == [v EXCEPT !.pre = <<>>, !.post = <<>>, !.dev = <<>>,
                            !.local = <<>>]

-----------------------------------------------------------------------------
(* Ordering.  Words are compared as strings; "*" in front of a word sorts   *)
(* it before every number, so a number n is Digits + n.                     *)

WordOrder == <<"!", "+", "@", "a", "alpha", "b", "beta", "c", "final", "final-",
               "post", "r", "rev", "x">>
Digits == 20

(* _legacy_version_replacement_map and the rank of what it gives *)
Rank(word) ==
  LET w == CASE word \in {"pre", "preview", "rc"} -> "c"
             [] word = "-" -> "final-"
             [] word = "dev" -> "@"
             [] OTHER -> word
  IN CHOOSE i \in DOMAIN WordOrder : WordOrder[i] = w

Number(n) == IF n = NoNumber THEN <<>> ELSE <<Digits + n>>
Lettered(part) ==
  IF part = <<>> THEN <<>> ELSE <<Rank(part[1])>> \o Number(part[2])

(* _legacy_version_component_re.split on a text: its numbers and words, the *)
(* dots dropped.                                                            *)
Tokens(t) ==
  IF IsLegacy(t) THEN t.legacy
  ELSE (IF t.epoch = 0 THEN <<>> ELSE Number(t.epoch) \o <<Rank("!")>>)
       \o [i \in DOMAIN t.release |-> Digits + t.release[i]]
       \o Lettered(t.pre) \o Lettered(t.post)
       \o (IF t.dev = <<>> THEN <<>> ELSE Lettered(<<"dev", t.dev[1]>>))
       \o (IF t.local = <<>> THEN <<>>
           ELSE <<Rank("+")>> \o
                [i \in DOMAIN t.local |->
                   IF t.local[i][1] >= 0 THEN Digits + t.local[i][1]
                   ELSE Rank("x") + t.local[i][2] - 1])

WithoutTrailing(s, x) ==
  LET last == {i \in DOMAIN s : s[i] # x}
  IN SubSeq(s, 1, IF last = {} THEN 0 ELSE CHOOSE i \in last :
                                              \A j \in last : j <= i)

(* _legacy_cmpkey: a word drops the zeros in front of it, and a word before *)
(* "final" first drops the dashes.                                          *)
LegacyStep(parts, token) ==
  IF token >= Digits THEN Append(parts, token)
  ELSE LET undashed == IF token < Rank("final")
                       THEN WithoutTrailing(parts, Rank("final-")) ELSE parts
       IN Append(WithoutTrailing(undashed, Digits), token)

LegacyKey(tokens) ==
  <<<<-1>>, FoldLeft(LegacyStep, <<>>, Append(tokens, Rank("final")))>>

(* _cmpkey *)
CmpKey(v) ==
  <<<<v.epoch>>,
    WithoutTrailing(v.release, 0),
    IF v.pre # <<>> THEN <<Rank(v.pre[1]), v.pre[2]>>
    ELSE IF v.post = <<>> /\ v.dev # <<>> THEN NegativeInfinity ELSE Infinity,
    IF v.post = <<>> THEN NegativeInfinity ELSE <<v.post[2]>>,
    IF v.dev = <<>> THEN Infinity ELSE v.dev,
    FlattenSeq(v.local)>>

Key(v) == IF IsLegacy(v) THEN LegacyKey(Tokens(v)) ELSE CmpKey(v)

(* Python's order on tuples *)
TupleLess(s, t) ==
  \E i \in DOMAIN t : /\ \A j \in 1..(i - 1) : j \in DOMAIN s /\ s[j] = t[j]
                      /\ i \in DOMAIN s => s[i] < t[i]

KeyLess(k, l) ==
  \E i \in DOMAIN k \cap DOMAIN l :
     /\ \A j \in 1..(i - 1) : k[j] = l[j]
     /\ TupleLess(k[i], l[i])

Less(v, w) == KeyLess(Key(v), Key(w))
Same(v, w) == Key(v) = Key(w)

(* canonicalize_version: the trailing zeros of a release are dropped, its   *)
(* first number is kept; a legacy text is kept as it is.                    *)
Canonical(t) ==
  IF IsLegacy(t) THEN t
  ELSE [Parse(t) EXCEPT !.release = <<Head(@)>> \o WithoutTrailing(Tail(@), 0)]

-----------------------------------------------------------------------------
(* Parsing.  The Specifier pattern: "===" takes any text, ".*" goes with == *)
(* and != and nothing but a pre- or post-release in front of it, ~= asks    *)
(* for two release numbers, and only == and != take a local version.        *)
(* What it refuses is a LegacySpecifier.                                    *)
IsSpecifier(op, text, wild) ==
  \/ op = "==="
  \/ /\ ~IsLegacy(text)
     /\ wild => op \in {"==", "!="} /\ text.dev = <<>>
     /\ text.local # <<>> => op \in {"==", "!="} /\ ~wild
     /\ op = "~=" => Len(text.release) >= 2

LegacyOps == {"==", "!=", "<=", ">=", "<", ">"}

IsPep440(s) == IsSpecifier(s.op, s.text, s.wild)

(* _canonical_spec, which __eq__ and __hash__ compare: a text with ".*" is  *)
(* no version and is kept as it is.                                         *)
CanonicalSpec(s) ==
  [op |-> s.op, wild |-> s.wild,
   text |-> IF s.wild THEN s.text ELSE Canonical(s.text)]

SpecEq(r, s) == /\ IsPep440(r) = IsPep440(s)
                /\ CanonicalSpec(r) = CanonicalSpec(s)

-----------------------------------------------------------------------------
(* Prefix matching.  A text is split at its dots; an item is the sequence   *)
(* of the numbers and words it runs together, <<1>> for "1", <<0, "a", 1>>  *)
(* for "0a1", <<"post", 1>> for "post1"; one of odd length starts with a    *)
(* number.                                                                  *)
DotItems(t) ==
  LET n == Len(t.release)
      epoch(i) == IF i = 1 /\ t.epoch # 0 THEN <<t.epoch, "!">> ELSE <<>>
      glued(i) == IF i = n
                  THEN t.pre \o (IF t.post # <<>> /\ t.post[1] = "-"
                                 THEN t.post ELSE <<>>)
                  ELSE <<>>
  IN [i \in 1..n |-> epoch(i) \o <<t.release[i]>> \o glued(i)]
     \o (IF t.post # <<>> /\ t.post[1] # "-" THEN <<t.post>> ELSE <<>>)
     \o (IF t.dev # <<>> THEN <<<<"dev">> \o t.dev>> ELSE <<>>)

(* _prefix_regex: "0a1" is two items; other spellings stay one *)
SplitItem(item) ==
  IF Len(item) = 3 /\ item[2] \in {"a", "b", "c", "rc"} /\ item[3] # NoNumber
  THEN <<<<item[1]>>, <<item[2], item[3]>>>>
  ELSE <<item>>

VersionSplit(t) ==
  FoldLeft(LAMBDA split, item : split \o SplitItem(item), <<>>, DotItems(t))

NumericItems(items) == {i \in DOMAIN items : Len(items[i]) = 1}

(* how many positions from the first on are in the set *)
Leading(positions) == Cardinality({i \in positions : 1..i \subseteq positions})

(* _pad_version: the shorter run of leading numbers is filled with zeros *)
PadTo(items, n) ==
  LET d == Leading(NumericItems(items))
  IN SubSeq(items, 1, d) \o [i \in 1..(IF n > d THEN n - d ELSE 0) |-> <<0>>]
     \o SubSeq(items, d + 1, Len(items))

PrefixMatch(prospective, split) ==
  LET parts == VersionSplit(Public(prospective))
      cut == SubSeq(parts, 1, IF Len(split) < Len(parts) THEN Len(split)
                                                         ELSE Len(parts))
  IN PadTo(split, Leading(NumericItems(cut))) = PadTo(cut, Leading(NumericItems(split)))

-----------------------------------------------------------------------------
(* The operators.  All but === answer False for a LegacyVersion.            *)

CompareEqual(v, s) ==
  IF s.wild THEN PrefixMatch(v, VersionSplit(s.text))
  ELSE LET spec == Parse(s.text)
       IN Same(IF spec.local = <<>> THEN Public(v) ELSE v, spec)

LessEqual(v, text) == ~Less(Parse(text), Public(v))
GreaterEqual(v, text) == ~Less(Public(v), Parse(text))

(* _compare_compatible: at least the version, and its release without the   *)
(* last item in front of "post" and "dev" as a prefix.                      *)
CompareCompatible(v, text) ==
  LET items == VersionSplit(text)
      head == Leading({i \in DOMAIN items : Len(items[i]) % 2 = 1 \/ items[i][1] \notin {"post", "dev"}})
  IN GreaterEqual(v, text) /\ PrefixMatch(v, SubSeq(items, 1, head - 1))

SameBase(v, spec) == Same(BaseVersion(v), BaseVersion(spec))

(* A pre-release of the excluded version itself is not below it ... *)
CompareLess(v, text) ==
  LET spec == Parse(text)
  IN /\ Less(v, spec)
     /\ ~(~IsPrerelease(spec) /\ IsPrerelease(v) /\ SameBase(v, spec))

(* ... and neither its post-release nor its local version is above it.      *)
CompareGreater(v, text) ==
  LET spec == Parse(text)
  IN /\ Less(spec, v)
     /\ ~(~IsPostrelease(spec) /\ IsPostrelease(v) /\ SameBase(v, spec))
     /\ ~(v.local # <<>> /\ SameBase(v, spec))

(* _compare_arbitrary compares the two texts, unparsed *)
Compare(v, s) ==
  \/ s.op = "===" /\ ~s.wild /\ v = s.text
  \/ /\ ~IsLegacy(v)
     /\ CASE s.op = "==" -> CompareEqual(v, s)
          [] s.op = "!=" -> ~CompareEqual(v, s)
          [] s.op = "<=" -> LessEqual(v, s.text)
          [] s.op = ">=" -> GreaterEqual(v, s.text)
          [] s.op = "<" -> CompareLess(v, s.text)
          [] s.op = ">" -> CompareGreater(v, s.text)
          [] s.op = "~=" -> CompareCompatible(v, s.text)
          [] OTHER -> FALSE

(* LegacySpecifier: both sides as legacy texts *)
LegacyCompare(v, s) ==
  LET k == LegacyKey(Tokens(v))  l == LegacyKey(Tokens(s.text))
  IN CASE s.op = "==" -> k = l
       [] s.op = "!=" -> k # l
       [] s.op = "<=" -> ~KeyLess(l, k)
       [] s.op = ">=" -> ~KeyLess(k, l)
       [] s.op = "<" -> KeyLess(k, l)
       [] s.op = ">" -> KeyLess(l, k)

(* Specifier.prereleases: a specifier that names a pre-release asks for     *)
(* pre-releases, except with !=, < and >.  A LegacySpecifier has None.      *)
SpecPrereleases(s) ==
  /\ IsPep440(s)
  /\ s.op \in {"==", ">=", "<=", "~=", "==="} /\ (s.op = "===" => ~s.wild)
  /\ IsPrerelease(Parse(s.text))

(* _IndividualSpecifier.contains; a LegacySpecifier coerces the item to a   *)
(* LegacyVersion, which is never a pre-release.                             *)
SpecContains(s, v, prereleases) ==
  IF IsPep440(s) THEN (IsPrerelease(v) => prereleases) /\ Compare(v, s)
                 ELSE LegacyCompare(v, s)

(* _IndividualSpecifier.filter with a prereleases argument that is not      *)
(* None, the only way a set calls it: the pre-releases that are kept back   *)
(* are then none.                                                           *)
SpecFilter(s, items, prereleases) ==
  SelectSeq(items, LAMBDA v : SpecContains(s, v, prereleases))

-----------------------------------------------------------------------------
(* SpecifierSet *)

(* Adding to a Python set keeps the element that is already there.          *)
AddSpec(specs, s) ==
  IF \E r \in specs : SpecEq(r, s) THEN specs ELSE specs \cup {s}

NewSet(list, pre) == [specs |-> FoldLeft(AddSpec, {}, list), pre |-> pre]

Clash(a, b) == a.pre # <<>> /\ b.pre # <<>> /\ a.pre # b.pre

(* __and__ *)
MutAnd(a, b) ==
  [specs |-> {s \in a.specs : s.op \notin {r.op : r \in b.specs}} \cup b.specs,
   pre |-> IF a.pre = <<>> THEN b.pre ELSE a.pre]

And(a, b) ==
  [specs |-> FoldSet(LAMBDA s, specs : AddSpec(specs, s), a.specs, b.specs),
   pre |-> IF a.pre = <<>> THEN b.pre ELSE a.pre]

(* SpecifierSet.prereleases, None for a set without specifiers *)
SetPrereleases(set) ==
  IF set.pre # <<>> THEN set.pre
  ELSE IF set.specs = {} THEN <<>>
  ELSE <<\E s \in set.specs : SpecPrereleases(s)>>

Truthy(prereleases) == prereleases = <<TRUE>>

(* SpecifierSet.contains *)
SetContains(set, v) ==
  LET pre == Truthy(SetPrereleases(set))
  IN (IsPrerelease(v) => pre) /\ \A s \in set.specs : SpecContains(s, v, pre)

(* SpecifierSet.filter: one specifier after the other; without specifiers   *)
(* the legacy items are dropped, and pre-releases are given only when       *)
(* nothing else is there and the set has no opinion.                        *)
SetFilter(set, items) ==
  LET pre == SetPrereleases(set)
      known == SelectSeq(items, LAMBDA v : ~IsLegacy(v))
      final == SelectSeq(known, LAMBDA v : IsPrerelease(v) => Truthy(pre))
  IN IF set.specs # {}
     THEN FoldSet(LAMBDA s, left : SpecFilter(s, left, Truthy(pre)), items,
                  set.specs)
     ELSE IF final = <<>> /\ pre = <<>> THEN known ELSE final

-----------------------------------------------------------------------------
(* A caller narrows a set by what another requirement asks for; sets with   *)
(* opposite opinions about pre-releases are refused with ValueError.        *)
SpecInit == specSet = NewSet(<<>>, <<>>) /\ asked = {}

Combine(s, pre) ==
  /\ Cardinality(asked) < MaxAsks
  /\ ~Clash(specSet, NewSet(<<s>>, pre))
  /\ specSet' = And(specSet, NewSet(<<s>>, pre))
  /\ asked' = asked \cup {s}

SpecNext == \E s \in Asks, pre \in {<<>>, <<TRUE>>, <<FALSE>>} : Combine(s, pre)

(* Combining loses nothing that was asked for and adds nothing: a released  *)
(* version is in the set exactly when every specifier ever combined into it *)
(* accepts it (specifiers.py, SpecifierSet.__and__ and contains).  The      *)
(* exception is a specifier that was dropped because it compares equal to   *)
(* one that means something else: __eq__ folds the spelling and the trailing*)
(* zeros that ~= and === tell apart, and so does a legacy specifier with a  *)
(* local version.  And as soon as one specifier is not a legacy one, filter *)
(* answers like contains about every version, the pre-releases included.    *)
Misjudged(s) ==
  \E r \in asked : /\ SpecEq(r, s) /\ s # r
                   /\ s.op \in {"~=", "==="} \/ (~IsPep440(s) /\ s.text.local # <<>>)

CombinesExactly ==
  /\ (\E s \in asked : Misjudged(s)) \/
     \A v \in Items : ~IsPrerelease(v) =>
        (SetContains(specSet, v) <=> \A s \in asked : SpecContains(s, v, FALSE))
  /\ (\E s \in specSet.specs : IsPep440(s)) =>
        \A v \in Items : SetFilter(specSet, <<v>>) = <<v>> <=> SetContains(specSet, v)

-----------------------------------------------------------------------------
(* Environment markers.  A marker's text is the sequence of its tokens:     *)
(* "and", "or", the parentheses and names of MarkerItems, each of which is  *)
(* [lhs, op, rhs, wild] with sides [var, text]: var is "" for a quoted      *)
(* value, and text is the value or the name itself.                         *)

(* MARKER_EXPR: an atom, then and/or and another expression, all in one     *)
(* flat list; a list of its own only for parentheses.  A bool operator that *)
(* no expression follows is left unread.                                    *)
Failed == [ok |-> FALSE, list |-> <<>>, next |-> 0]

RECURSIVE ParseMarker(_, _)
ParseMarker(ts, i) ==
  LET inner == ParseMarker(ts, i + 1)
      atom == IF i > Len(ts) THEN Failed
              ELSE IF ts[i] \in DOMAIN MarkerItems
              THEN [ok |-> TRUE, next |-> i + 1,
                    list |-> <<[kind |-> "item", of |-> ts[i]]>>]
              ELSE IF ts[i] = "(" /\ inner.ok /\ inner.next <= Len(ts)
                      /\ ts[inner.next] = ")"
              THEN [ok |-> TRUE, next |-> inner.next + 1,
                    list |-> <<[kind |-> "list", of |-> inner.list]>>]
              ELSE Failed
      more == ParseMarker(ts, atom.next + 1)
  IN IF /\ atom.ok /\ atom.next <= Len(ts) /\ ts[atom.next] \in {"and", "or"}
        /\ more.ok
     THEN [more EXCEPT !.list = atom.list
                       \o <<[kind |-> "bool", of |-> ts[atom.next]]>> \o @]
     ELSE atom

ValidMarker(ts) ==
  LET whole == ParseMarker(ts, 1) IN whole.ok /\ whole.next = Len(ts) + 1

(* Texts compared as strings, token by token; digits sort before letters.   *)
Chars(t) == [i \in DOMAIN Tokens(t) |->
               IF Tokens(t)[i] >= Digits THEN Tokens(t)[i] - 1000 ELSE Tokens(t)[i]]

Outcome(b) == IF b THEN "true" ELSE "false"

(* _eval_op: as a specifier when operator and right side make one, else the *)
(* Python operator on the two strings; ~= has none.                         *)
EvalOp(lhs, op, rhs, wild) ==
  LET spec == [op |-> op, text |-> rhs, wild |-> wild]
      l == Chars(lhs)
      r == Chars(rhs)
      inside == \E i, j \in 0..Len(r) : SubSeq(r, i + 1, j) = l
  IN IF op \notin {"in", "not in"} /\ IsPep440(spec)
     THEN Outcome(SpecContains(spec, Parse(lhs), SpecPrereleases(spec)))
     ELSE CASE op = "in" -> Outcome(inside)
            [] op = "not in" -> Outcome(~inside)
            [] op = "<" -> Outcome(TupleLess(l, r))
            [] op = "<=" -> Outcome(~TupleLess(r, l))
            [] op = "==" -> Outcome(l = r)
            [] op = "!=" -> Outcome(l # r)
            [] op = ">=" -> Outcome(~TupleLess(l, r))
            [] op = ">" -> Outcome(TupleLess(r, l))
            [] OTHER -> "raise"

(* One side is looked up, the left one if it is a variable; a name that the *)
(* environment does not have raises UndefinedEnvironmentName.               *)
EvalItem(item) ==
  LET left == item.lhs.var # ""
      name == IF left THEN item.lhs.var ELSE item.rhs.var
  IN IF name \notin DOMAIN Env THEN "raise"
     ELSE EvalOp(IF left THEN Env[name] ELSE item.lhs.text, item.op,
                 IF left THEN item.rhs.text ELSE Env[name], item.wild)

(* _evaluate_markers: "or" opens a new group; everything is evaluated,      *)
(* whatever the others are; any group that is all true makes it true.       *)
MutGroups(list) ==
  {i \in DOMAIN list : list[i].kind = "bool"}

Groups(list) ==
  {i \in DOMAIN list : list[i].kind = "bool" /\ list[i].of = "or"}

RECURSIVE EvaluateMarkers(_)
EvaluateMarkers(list) ==
  LET value == [i \in DOMAIN list |->
                  CASE list[i].kind = "item" -> EvalItem(MarkerItems[list[i].of])
                    [] list[i].kind = "list" -> EvaluateMarkers(list[i].of)
                    [] OTHER -> "true"]
      ends == Groups(list) \cup {0, Len(list) + 1}
      group(a, b) == /\ a < b
                     /\ \A k \in (a + 1)..(b - 1) : k \notin ends
                                                     /\ value[k] = "true"
  IN IF \E i \in DOMAIN list : value[i] = "raise" THEN "raise"
     ELSE Outcome(\E a, b \in ends : group(a, b))

(* A marker is written token by token.                                      *)
MarkerInit == marker = <<>>

AddToken(t) ==
  LET operand == marker = <<>> \/ Last(marker) \in {"and", "or", "("}
  IN /\ Len(marker) < MaxTokens
     /\ operand <=> t \in DOMAIN MarkerItems \cup {"("}
     /\ marker' = Append(marker, t)

MarkerNext == \E t \in DOMAIN MarkerItems \cup {"and", "or", "(", ")"} : AddToken(t)

(* The meaning of a marker by its grammar: the last "or" outside            *)
(* parentheses first, then the last "and", then the operand.                *)
Depth(ts, k) == Cardinality({j \in 1..k : ts[j] = "("})
                - Cardinality({j \in 1..k : ts[j] = ")"})

RECURSIVE Meaning(_)
Meaning(ts) ==
  LET at(op) == {k \in DOMAIN ts : ts[k] = op /\ Depth(ts, k) = 0}
      left(k) == Meaning(SubSeq(ts, 1, k - 1))
      right(k) == Meaning(SubSeq(ts, k + 1, Len(ts)))
  IN CASE at("or") # {} -> left(Max(at("or"))) \/ right(Max(at("or")))
       [] at("or") = {} /\ at("and") # {} ->
            left(Max(at("and"))) /\ right(Max(at("and")))
       [] OTHER -> IF ts[1] = "(" THEN Meaning(SubSeq(ts, 2, Len(ts) - 1))
                   ELSE EvalItem(MarkerItems[ts[1]]) = "true"

(* A marker means what its grammar says, "and" before "or" at every depth,  *)
(* although the parser returns a flat list; it raises exactly when one of   *)
(* its items does, needed or not (markers.py, _evaluate_markers).           *)
MarkersByPrecedence ==
  ValidMarker(marker) =>
    EvaluateMarkers(ParseMarker(marker, 1).list) =
      IF \E i \in DOMAIN marker : /\ marker[i] \in DOMAIN MarkerItems
                                  /\ EvalItem(MarkerItems[marker[i]]) = "raise"
      THEN "raise" ELSE Outcome(Meaning(marker))
=============================================================================
