----------------------------- MODULE Pyparsing ------------------------------
(* The parser of requirement strings: pyparsing's elements, its packrat cache   *)
(* and scanString (src/src/pkg_resources/_vendor/pyparsing.py).                 *)
(*                                                                             *)
(* A grammar g maps ids to elements, records with the attributes __init__ sets; *)
(* `exprs` names the elements below. A text is a sequence of characters, a       *)
(* location counts from 0. A parse yields [k, loc, res]: "ok", the location      *)
(* after it and the tokens, or "fail" (ParseException) or "fatal"                *)
(* (ParseFatalException) at a location. An IndexError always becomes a           *)
(* ParseException at the end of the text, in the same call of _parse.            *)
(* Every call takes and returns the packrat cache m.                             *)
(*                                                                             *)
(* A result has tokens and named values here; the offsets that go with the names  *)
(* (_ParseResultsWithOffset) are in ParseResults.tla. Combine and Dict change      *)
(* offsets in place, in lists that a cached result shares (copy()), so an offset    *)
(* depends on what was parsed before; tokens and named values are never changed so. *)
EXTENDS Integers, Sequences, FiniteSets, FiniteSetsExt, SequencesExt

\* A ParseResults: a list of tokens and the occurrences of named ones, each
\* [n |-> name, v |-> token]. A token is a string, <<characters>>, or a nested result,
\* <<toks, names>>.
NoTokens == [toks |-> <<>>, names |-> <<>>, accum |-> {}, pr |-> TRUE]

\* pr: a ParseResults, not a plain list, which __new__ makes one
List(ts) == [NoTokens EXCEPT !.toks = ts, !.pr = FALSE]
Nested(r) == <<r.toks, r.names>>
IsNested(t) == Len(t) = 2

\* __new__ and __init__ with a name: a result keeps its names, an empty list gets none
Results(r, name, asList, modal) ==
  LET value == IF asList THEN IF r.pr THEN Nested(r)
                              ELSE IF IsNested(r.toks[1]) THEN r.toks[1]
                              ELSE <<<<r.toks[1]>>, <<>>>>
               ELSE IF r.toks # <<>> THEN r.toks[1] ELSE Nested(r)
      full == [r EXCEPT !.pr = TRUE]
  IN  IF name = "" THEN full
      ELSE [full EXCEPT !.accum = IF modal THEN @ ELSE @ \cup {name},
                        !.names = IF ~r.pr /\ r.toks = <<>> THEN @
                                  ELSE Append(@, [n |-> name, v |-> value])]

\* __iadd__
IAdd(a, b) ==
  [a EXCEPT !.toks = @ \o b.toks, !.accum = @ \cup b.accum, !.names = @ \o b.names]

\* _asStringList, joined
RECURSIVE Joined(_)
Joined(toks) ==
  IF toks = <<>> THEN <<>>
  ELSE (IF IsNested(Head(toks)) THEN Joined(Head(toks)[1]) ELSE Head(toks)[1])
       \o Joined(Tail(toks))

-----------------------------------------------------------------------------
White == {" ", "\n", "\t"}
Upper(c) == IF c = "a" THEN "A" ELSE IF c = "b" THEN "B" ELSE c

\* ParserElement.__init__: the attributes of a new element
Element == [kind |-> "Empty", exprs |-> <<>>, arg |-> <<>>, skip |-> TRUE, white |-> White,
            pre |-> TRUE, nullable |-> FALSE, asList |-> FALSE, name |-> "", modal |-> TRUE,
            ignore |-> <<>>, act |-> "none", duringTry |-> FALSE]

Ok(loc, res) == [k |-> "ok", loc |-> loc, res |-> res]
Fail(loc) == [k |-> "fail", loc |-> loc, res |-> NoTokens]
Fatal(loc) == [k |-> "fatal", loc |-> loc, res |-> NoTokens]
Nothing == List(<<>>)
String(v) == List(<<<<v>>>>)

\* instring[i], instring[i:j], instring.startswith(v, i)
At(s, i) == s[i + 1]
Slice(s, i, j) == SubSeq(s, i + 1, IF j < Len(s) THEN j ELSE Len(s))
StartsWith(s, v, i) == Slice(s, i, i + Len(v)) = v
UpperAll(v) == [i \in DOMAIN v |-> Upper(v[i])]

\* the first location from i, at most `end`, that is not in a run of In characters
RunEnd(s, i, end, In(_)) ==
  Min({j \in i..Max({i, end}) : j >= end \/ ~In(At(s, j))})

\* col
Col(s, loc) ==
  IF 0 < loc /\ loc < Len(s) /\ At(s, loc - 1) = "\n" THEN 1
  ELSE loc - Max({-1} \cup {i \in 0..(Min({loc, Len(s)}) - 1) : At(s, i) = "\n"})

-----------------------------------------------------------------------------
(* parseImpl of the tokens.                                                     *)

Literal(s, loc, v) ==
  IF loc >= Len(s) THEN Fail(Len(s))
  ELSE IF StartsWith(s, v, loc) THEN Ok(loc + Len(v), String(v)) ELSE Fail(loc)

CaselessLiteral(s, loc, v) ==
  IF UpperAll(Slice(s, loc, loc + Len(v))) = UpperAll(v) THEN Ok(loc + Len(v), String(v)) ELSE Fail(loc)

Keyword(s, loc, a) ==
  LET up(c) == IF a.caseless THEN Upper(c) ELSE c
      n == Len(a.match)
      text == Slice(s, loc, loc + n)
  IN  IF ~a.caseless /\ loc >= Len(s) THEN Fail(Len(s))
      ELSE IF /\ [i \in DOMAIN text |-> up(text[i])] = [i \in DOMAIN a.match |-> up(a.match[i])]
              /\ loc >= Len(s) - n \/ up(At(s, loc + n)) \notin a.ident
              /\ loc = 0 \/ up(At(s, loc - 1)) \notin a.ident
      THEN Ok(loc + n, String(a.match)) ELSE Fail(loc)

\* CaselessKeyword does not look at the character before
CaselessKeyword(s, loc, a) ==
  LET n == Len(a.match)
  IN  IF /\ UpperAll(Slice(s, loc, loc + n)) = UpperAll(a.match)
         /\ loc >= Len(s) - n \/ Upper(At(s, loc + n)) \notin a.ident
      THEN Ok(loc + n, String(a.match)) ELSE Fail(loc)

\* the location after a match counts from the start of the text, not of the match; the
\* value named mismatches is the list of their places
CloseMatch(s, loc, a) ==
  LET n == Len(a.match)
      wrong == {i \in 1..n : loc + n <= Len(s) /\ s[loc + i] # a.match[i]}
  IN  IF loc + n > Len(s) \/ Cardinality(wrong) > a.mismatches THEN Fail(loc)
      ELSE Ok(n, [String(Slice(s, loc, n)) EXCEPT !.pr = TRUE,
                    !.names = << [n |-> "original", v |-> <<a.match>>],
                                 [n |-> "mismatches", v |-> <<SetToSortSeq({i - 1 : i \in wrong}, <)>>] >>])

\* max = 0 and exact = 0: no limit; the regular expression of a plain Word raises no
\* IndexError and fails where it starts
Word(s, loc, a) ==
  LET plain == a.min = 1 /\ a.max = 0 /\ a.exact = 0
      most == IF a.exact > 0 THEN a.exact ELSE IF a.max > 0 THEN a.max ELSE Len(s)
      least == IF a.exact > 0 THEN a.exact ELSE a.min
      end == RunEnd(s, loc + 1, Min({loc + most, Len(s)}), LAMBDA c : c \in a.body)
      more == end < Len(s) /\ At(s, end) \in a.body
  IN  IF loc >= Len(s) THEN Fail(IF plain THEN loc ELSE Len(s))
      ELSE IF At(s, loc) \notin a.init THEN Fail(loc)
      ELSE IF \/ end - loc < least \/ (a.max > 0 /\ more)
              \/ a.keyword /\ (more \/ (loc > 0 /\ At(s, loc - 1) \in a.body))
      THEN Fail(IF plain THEN loc ELSE end)
      ELSE Ok(end, String(Slice(s, loc, end)))

\* a pattern is a sequence of alternatives, tried in order
Regex(s, loc, alternatives) ==
  LET hits == {i \in DOMAIN alternatives : StartsWith(s, alternatives[i], loc)}
      v == alternatives[Min(hits)]
  IN  IF hits = {} THEN Fail(loc)
      ELSE Ok(loc + Len(v), [String(v) EXCEPT !.pr = TRUE])

\* the pattern of QuotedString: where its loop may stop, for quote q, escape character
\* e and doubled quote dq
RECURSIVE QuotedStops(_, _, _)
QuotedStops(s, i, a) ==
  {i} \cup IF i >= Len(s) THEN {}
           ELSE IF a.esc /\ At(s, i) = "!"
           THEN IF i + 1 < Len(s) /\ (a.multiline \/ At(s, i + 1) # "\n") THEN QuotedStops(s, i + 2, a) ELSE {}
           ELSE IF At(s, i) # a.quote
           THEN IF a.multiline \/ At(s, i) # "\n" THEN QuotedStops(s, i + 1, a) ELSE {}
           ELSE IF a.doubled /\ StartsWith(s, <<a.quote, a.quote>>, i)
           THEN QuotedStops(s, i + 2, a) ELSE {}

\* re.sub of the escapes, then replace of the doubled quotes
RECURSIVE Unescape(_, _)
Unescape(v, a) ==
  IF v = <<>> THEN <<>>
  ELSE IF a.esc /\ Len(v) > 1 /\ v[1] = "!" THEN <<v[2]>> \o Unescape(SubSeq(v, 3, Len(v)), a)
  ELSE <<v[1]>> \o Unescape(Tail(v), a)

RECURSIVE Undouble(_, _)
Undouble(v, a) ==
  IF v = <<>> THEN <<>>
  ELSE IF a.doubled /\ Len(v) > 1 /\ v[1] = a.quote /\ v[2] = a.quote
  THEN <<a.quote>> \o Undouble(SubSeq(v, 3, Len(v)), a)
  ELSE <<v[1]>> \o Undouble(Tail(v), a)

QuotedString(s, loc, a) ==
  IF loc >= Len(s) THEN Fail(Len(s))
  ELSE IF At(s, loc) # a.quote THEN Fail(loc)
  ELSE LET ends == {i \in QuotedStops(s, loc + 1, a) : i < Len(s) /\ At(s, i) = a.quote}
           text == Slice(s, loc, Max(ends) + 1)
       IN  IF ends = {} THEN Fail(loc)
           ELSE Ok(Max(ends) + 1,
                   String(IF a.unquote THEN Undouble(Unescape(SubSeq(text, 2, Len(text) - 1), a), a)
                          ELSE text))

\* CharsNotIn, and White with the roles of the characters exchanged
Run(s, loc, a, inside) ==
  LET In(c) == (c \in a.chars) = inside
      most == IF a.exact > 0 THEN a.exact ELSE IF a.max > 0 THEN a.max ELSE Len(s)
      least == IF a.exact > 0 THEN a.exact ELSE a.min
      end == RunEnd(s, loc + 1, Min({loc + most, Len(s)}), In)
  IN  IF loc >= Len(s) THEN Fail(Len(s))
      ELSE IF ~In(At(s, loc)) THEN Fail(loc)
      ELSE IF end - loc < least THEN Fail(end) ELSE Ok(end, String(Slice(s, loc, end)))

CharsNotIn(s, loc, a) == Run(s, loc, a, FALSE)
WhiteToken(s, loc, a) == Run(s, loc, a, TRUE)

GoToColumn(s, loc, col) ==
  IF Col(s, loc) > col THEN Fail(loc)
  ELSE Ok(loc + col - Col(s, loc), String(Slice(s, loc, loc + col - Col(s, loc))))

LineStart(s, loc) == IF Col(s, loc) = 1 THEN Ok(loc, Nothing) ELSE Fail(loc)

LineEnd(s, loc) ==
  IF loc < Len(s) THEN IF At(s, loc) = "\n" THEN Ok(loc + 1, String(<<"\n">>)) ELSE Fail(loc)
  ELSE IF loc = Len(s) THEN Ok(loc + 1, Nothing) ELSE Fail(loc)

StringStart(s, loc, afterWhite) == IF loc = 0 \/ loc = afterWhite THEN Ok(loc, Nothing) ELSE Fail(loc)

StringEnd(s, loc) ==
  IF loc < Len(s) THEN Fail(loc) ELSE Ok(IF loc = Len(s) THEN loc + 1 ELSE loc, Nothing)

WordStart(s, loc, chars) ==
  IF loc = 0 THEN Ok(loc, Nothing)
  ELSE IF loc > Len(s) THEN Fail(Len(s))
  ELSE IF At(s, loc - 1) \in chars THEN Fail(loc)
  ELSE IF loc = Len(s) THEN Fail(Len(s))
  ELSE IF At(s, loc) \notin chars THEN Fail(loc) ELSE Ok(loc, Nothing)

\* before the first character Python looks at the last one
WordEnd(s, loc, chars) ==
  IF loc < Len(s) /\ (At(s, loc) \in chars \/ s[IF loc = 0 THEN Len(s) ELSE loc] \notin chars)
  THEN Fail(loc) ELSE Ok(loc, Nothing)

-----------------------------------------------------------------------------
(* The packrat cache: _FifoCache (size n > 0), or off (size 0).                 *)

EmptyCache(n) == [size |-> n, keys |-> <<>>, val |-> <<>>]
Cached(m, key) == \E i \in DOMAIN m.keys : m.keys[i] = key
CacheGet(m, key) == m.val[CHOOSE i \in DOMAIN m.keys : m.keys[i] = key]

\* cache[key] = value, then the oldest go until the size is kept
CacheSet(m, key, value) ==
  LET i == CHOOSE i \in DOMAIN m.keys : m.keys[i] = key
      keys == Append(m.keys, key)
      val == Append(m.val, value)
      from == IF Len(keys) > m.size THEN Len(keys) - m.size + 1 ELSE 1
  IN  IF Cached(m, key) THEN [m EXCEPT !.val[i] = value]
      ELSE [m EXCEPT !.keys = SubSeq(keys, from, Len(keys)), !.val = SubSeq(val, from, Len(val))]

-----------------------------------------------------------------------------
(* _parse of an element below, and what the classes with elements below do.     *)

\* grammar, text, element, location, doActions, callPreParse, cache
RECURSIVE Parse(_, _, _, _, _, _, _)

With(r, m) == [r |-> r, m |-> m]

\* `if exprtokens or exprtokens.haskeys(): resultlist += exprtokens`
AddTokens(res, more) == IF more.toks = <<>> /\ more.names = <<>> THEN res ELSE IAdd(res, more)

\* tryParse: no actions, and a fatal error is an ordinary one
TryParse(g, s, e, loc, m) ==
  LET after(x) == IF x.r.k = "fatal" THEN With(Fail(loc), x.m) ELSE x
  IN  after(Parse(g, s, e, loc, FALSE, TRUE, m))

\* _skipIgnorables: each ignored element as often as it matches, until none does; a fatal
\* error of an ignored element goes through
RECURSIVE SkipIgnorables(_, _, _, _, _, _)
SkipIgnorables(g, s, ignore, loc, found, m) ==
  LET after(x) == IF x.r.k = "ok" THEN SkipIgnorables(g, s, ignore, x.r.loc, TRUE, x.m)
                  ELSE IF x.r.k = "fatal" THEN [k |-> "fatal", loc |-> x.r.loc, found |-> FALSE, m |-> x.m]
                  ELSE SkipIgnorables(g, s, Tail(ignore), loc, found, x.m)
  IN  IF ignore = <<>> THEN [k |-> "ok", loc |-> loc, found |-> found, m |-> m]
      ELSE after(Parse(g, s, Head(ignore), loc, TRUE, TRUE, m))

RECURSIVE SkipAll(_, _, _, _, _)
SkipAll(g, s, ignore, loc, m) ==
  LET after(x) == IF x.found THEN SkipAll(g, s, ignore, x.loc, x.m) ELSE x
  IN  after(SkipIgnorables(g, s, ignore, loc, FALSE, m))

Reached(loc, m) == [k |-> "ok", loc |-> loc, m |-> m]
SkipIgnored(g, s, e, loc, m) ==
  IF g[e].ignore = <<>> THEN Reached(loc, m) ELSE SkipAll(g, s, g[e].ignore, loc, m)

\* preParse: x is the location after what is ignored, and the cache
SkipWhite(g, s, e, loc, x) ==
  LET col == g[e].arg
      goTo == IF Col(s, loc) = col THEN loc
              ELSE Min({j \in x.loc..Max({x.loc, Len(s)}) :
                          j >= Len(s) \/ At(s, j) \notin White \/ Col(s, j) = col})
  IN  IF x.k = "fatal" THEN x
      ELSE IF g[e].kind = "GoToColumn" THEN Reached(goTo, x.m)
      ELSE Reached(IF g[e].skip THEN RunEnd(s, x.loc, Len(s), LAMBDA c : c \in g[e].white) ELSE x.loc, x.m)

PreParse(g, s, e, loc, m) == SkipWhite(g, s, e, loc, SkipIgnored(g, s, e, loc, m))

\* And: the first element without preParse, the others one after the other; after an
\* _ErrorStop any failure is fatal
RECURSIVE AndRest(_, _, _, _, _, _, _, _)
AndRest(g, s, exprs, loc, act, res, stop, m) ==
  IF exprs = <<>> THEN With(Ok(loc, res), m)
  ELSE IF g[Head(exprs)].kind = "ErrorStop"
  THEN AndRest(g, s, Tail(exprs), loc, act, res, TRUE, m)
  ELSE LET after(x) == IF x.r.k = "ok"
                       THEN AndRest(g, s, Tail(exprs), x.r.loc, act, AddTokens(res, x.r.res), stop, x.m)
                       ELSE With(IF stop THEN Fatal(x.r.loc) ELSE x.r, x.m)
       IN  after(Parse(g, s, Head(exprs), loc, act, TRUE, m))

And(g, s, e, loc, act, m) ==
  LET after(x) == IF x.r.k # "ok" THEN x
                  ELSE AndRest(g, s, Tail(g[e].exprs), x.r.loc, act, x.r.res, FALSE, x.m)
  IN  after(Parse(g, s, g[e].exprs[1], loc, act, FALSE, m))

\* the first exception that got furthest
Furthest(loc, fails) ==
  IF fails = <<>> THEN Fail(loc) ELSE Fail(Max({fails[i].loc : i \in DOMAIN fails}))

\* MatchFirst: in order; a fatal error ends it
RECURSIVE MatchFirstFrom(_, _, _, _, _, _, _)
MatchFirstFrom(g, s, exprs, loc, act, fails, m) ==
  IF exprs = <<>> THEN With(Furthest(loc, fails), m)
  ELSE LET after(x) == IF x.r.k # "fail" THEN x
                       ELSE MatchFirstFrom(g, s, Tail(exprs), loc, act, Append(fails, x.r), x.m)
       IN  after(Parse(g, s, Head(exprs), loc, act, TRUE, m))

\* Or: all are tried, then parsed again from the longest match down, those of one
\* length in order
TryAll(g, s, exprs, loc, m) ==
  LET add(acc, e, x) == [m |-> x.m,
                         hits |-> IF x.r.k = "ok" THEN Append(acc.hits, <<x.r.loc, e>>) ELSE acc.hits,
                         fails |-> IF x.r.k = "ok" THEN acc.fails ELSE Append(acc.fails, x.r)]
  IN  FoldLeft(LAMBDA acc, e : add(acc, e, TryParse(g, s, e, loc, acc.m)),
               [m |-> m, hits |-> <<>>, fails |-> <<>>], exprs)

LongestFirst(hits) ==
  LET before(i, j) == hits[i][1] > hits[j][1] \/ (hits[i][1] = hits[j][1] /\ i < j)
      rank(i) == Cardinality({j \in DOMAIN hits : before(j, i)}) + 1
  IN  [k \in DOMAIN hits |-> hits[CHOOSE i \in DOMAIN hits : rank(i) = k][2]]

Or(g, s, e, loc, act, m) ==
  LET after(x) == MatchFirstFrom(g, s, LongestFirst(x.hits), loc, act, x.fails, x.m)
  IN  after(TryAll(g, s, g[e].exprs, loc, m))

\* Each: the elements in whatever order they match (EachMatch), then all parsed in that
\* order (EachInOrder)
EachRequired(g, exprs) ==
  SelectSeq(exprs, LAMBDA e : g[e].kind \notin {"Optional", "ZeroOrMore", "OneOrMore"})
Inner(g, exprs, kind) ==
  LET of == SelectSeq(exprs, LAMBDA e : g[e].kind = kind)
  IN  [i \in DOMAIN of |-> g[of[i]].exprs[1]]

RECURSIVE EachRound(_, _, _, _, _, _)
EachRound(g, s, exprs, tmp, st, m) ==
  IF tmp = <<>> THEN [st |-> st, m |-> m]
  ELSE LET e == Head(tmp)
           hit(x) == [st EXCEPT !.loc = x.r.loc, !.any = TRUE, !.order = Append(@, e),
                                !.reqd = IF Contains(@, e) THEN Remove(@, e) ELSE @,
                                !.opt = IF ~Contains(st.reqd, e) /\ Contains(@, e) THEN Remove(@, e) ELSE @]
           after(x) == EachRound(g, s, exprs, Tail(tmp), IF x.r.k = "ok" THEN hit(x) ELSE st, x.m)
       IN  after(TryParse(g, s, e, st.loc, m))

RECURSIVE EachMatch(_, _, _, _, _)
EachMatch(g, s, exprs, st, m) ==
  LET tmp == st.reqd \o st.opt \o Inner(g, exprs, "ZeroOrMore") \o Inner(g, exprs, "OneOrMore")
      after(x) == IF x.st.any THEN EachMatch(g, s, exprs, x.st, x.m) ELSE x
  IN  after(EachRound(g, s, exprs, tmp, [st EXCEPT !.any = FALSE], m))

RECURSIVE ParseAll(_, _, _, _, _, _, _)
ParseAll(g, s, exprs, loc, act, res, m) ==
  IF exprs = <<>> THEN With(Ok(loc, res), m)
  ELSE LET after(x) == IF x.r.k # "ok" THEN x
                       ELSE ParseAll(g, s, Tail(exprs), x.r.loc, act, IAdd(res, x.r.res), x.m)
       IN  after(Parse(g, s, Head(exprs), loc, act, TRUE, m))

EachInOrder(g, s, e, loc, act, x) ==
  LET exprs == g[e].exprs
      opt1 == Inner(g, exprs, "Optional")
      whole(c) == IF Contains(opt1, c)     \* opt1map
                  THEN exprs[CHOOSE i \in DOMAIN exprs : g[exprs[i]].kind = "Optional" /\ g[exprs[i]].exprs[1] = c]
                  ELSE c
      left == SelectSeq(exprs, LAMBDA c : g[c].kind = "Optional" /\ Contains(x.st.opt, g[c].exprs[1]))
  IN  IF x.st.reqd # <<>> THEN With(Fail(loc), x.m)
      ELSE ParseAll(g, s, [i \in DOMAIN x.st.order |-> whole(x.st.order[i])] \o left, loc, act, NoTokens, x.m)

Each(g, s, e, loc, act, m) ==
  LET exprs == g[e].exprs
      opt2 == SelectSeq(exprs, LAMBDA c : g[c].nullable /\ g[c].kind # "Optional")
      st == [loc |-> loc, any |-> TRUE, order |-> <<>>, opt |-> Inner(g, exprs, "Optional") \o opt2,
             reqd |-> EachRequired(g, exprs) \o Inner(g, exprs, "OneOrMore")]
  IN  EachInOrder(g, s, e, loc, act, EachMatch(g, s, exprs, st, m))

\* the check of stopOn
StopHere(g, s, e, loc, m) ==
  IF g[e].arg = <<>> THEN With(Fail(loc), m) ELSE TryParse(g, s, g[e].arg[1], loc, m)

\* _MultipleMatch: again and again until the element, or the check of stopOn, fails
RECURSIVE Repeat(_, _, _, _, _, _, _)
Repeat(g, s, e, loc, act, res, m) ==
  LET again(p) == IF p.k = "fatal" THEN With(Fatal(p.loc), p.m)
                  ELSE Parse(g, s, g[e].exprs[1], p.loc, act, TRUE, p.m)
      after(x) == IF x.r.k = "fatal" THEN x
                  ELSE IF x.r.k = "fail" THEN With(Ok(loc, res), x.m)
                  ELSE Repeat(g, s, e, x.r.loc, act, AddTokens(res, x.r.res), x.m)
      check(stop) == IF stop.r.k = "ok" THEN With(Ok(loc, res), stop.m) ELSE after(again(SkipIgnored(g, s, e, loc, stop.m)))
  IN  check(StopHere(g, s, e, loc, m))

OneOrMore(g, s, e, loc, act, m) ==
  LET after(x) == IF x.r.k # "ok" THEN x ELSE Repeat(g, s, e, x.r.loc, act, x.r.res, x.m)
      check(stop) == IF stop.r.k = "ok" THEN With(Fail(loc), stop.m)
                     ELSE after(Parse(g, s, g[e].exprs[1], loc, act, FALSE, stop.m))
  IN  check(StopHere(g, s, e, loc, m))

ZeroOrMore(g, s, e, loc, act, m) ==
  LET after(x) == IF x.r.k = "fail" THEN With(Ok(loc, Nothing), x.m) ELSE x
  IN  after(OneOrMore(g, s, e, loc, act, m))

\* Optional; arg holds the default, if any
Optional(g, s, e, loc, act, m) ==
  LET inner == g[g[e].exprs[1]]
      default == IF g[e].arg = <<>> THEN Nothing
                 ELSE IF inner.name = "" THEN List(<<g[e].arg>>)
                 ELSE Results(List(<<g[e].arg>>), inner.name, FALSE, TRUE)
      after(x) == IF x.r.k # "fail" THEN x ELSE With(Ok(loc, default), x.m)
  IN  after(Parse(g, s, g[e].exprs[1], loc, act, FALSE, m))

FollowedBy(g, s, e, loc, m) ==
  LET after(x) == IF x.r.k = "ok" THEN With(Ok(loc, Nothing), x.m) ELSE x
  IN  after(TryParse(g, s, g[e].exprs[1], loc, m))

NotAny(g, s, e, loc, m) ==
  LET after(x) == With(IF x.r.k = "ok" THEN Fail(loc) ELSE Ok(loc, Nothing), x.m)
  IN  after(TryParse(g, s, g[e].exprs[1], loc, m))

\* SkipTo: exprs is the target, arg holds failOn and ignore when given
RECURSIVE SkipIgnore(_, _, _, _, _)
SkipIgnore(g, s, e, loc, m) ==
  LET after(x) == IF x.r.k = "ok" THEN SkipIgnore(g, s, e, x.r.loc, x.m) ELSE [loc |-> loc, m |-> x.m]
  IN  after(TryParse(g, s, e, loc, m))

\* "ok" where the target, or failOn, matches
RECURSIVE SkipSearch(_, _, _, _, _)
SkipSearch(g, s, e, loc, m) ==
  LET a == g[e].arg
      skip(n) == IF a.ignore = <<>> THEN [loc |-> loc, m |-> n] ELSE SkipIgnore(g, s, a.ignore[1], loc, n)
      after(p, x) == IF x.r.k = "ok" THEN With(Ok(p.loc, Nothing), x.m)
                     ELSE IF x.r.k = "fatal" THEN x
                     ELSE SkipSearch(g, s, e, p.loc + 1, x.m)
      target(p) == after(p, Parse(g, s, g[e].exprs[1], p.loc, FALSE, FALSE, p.m))
      check(stop) == IF stop.r.k = "ok" THEN With(Ok(loc, Nothing), stop.m) ELSE target(skip(stop.m))
  IN  IF loc > Len(s) THEN With(Fail(loc), m)
      ELSE check(IF a.failOn = <<>> THEN With(Fail(loc), m) ELSE TryParse(g, s, a.failOn[1], loc, m))

SkipTo(g, s, e, loc, act, m) ==
  LET text(end) == [String(Slice(s, loc, end)) EXCEPT !.pr = TRUE]
      include(end, y) == IF y.r.k # "ok" THEN y ELSE With(Ok(y.r.loc, IAdd(text(end), y.r.res)), y.m)
      found(x) == IF ~g[e].arg.include THEN With(Ok(x.r.loc, text(x.r.loc)), x.m)
                  ELSE include(x.r.loc, Parse(g, s, g[e].exprs[1], x.r.loc, act, FALSE, x.m))
      after(x) == IF x.r.k = "ok" THEN found(x)
                  ELSE IF x.r.k = "fail" THEN With(Fail(loc), x.m) ELSE x
  IN  after(SkipSearch(g, s, e, loc, m))

\* ParseElementEnhance: Forward (failing while it has no expression), Group, Combine...
Enhance(g, s, e, loc, act, m) ==
  IF g[e].exprs = <<>> THEN With(Fail(loc), m) ELSE Parse(g, s, g[e].exprs[1], loc, act, FALSE, m)

TokenImpl(g, s, e, loc) ==
  LET a == g[e].arg
  IN  CASE g[e].kind = "Empty" -> Ok(loc, Nothing)
        [] g[e].kind = "NoMatch" -> Fail(loc)
        [] g[e].kind = "Literal" -> Literal(s, loc, a)
        [] g[e].kind = "CaselessLiteral" -> CaselessLiteral(s, loc, a)
        [] g[e].kind = "Keyword" -> Keyword(s, loc, a)
        [] g[e].kind = "CaselessKeyword" -> CaselessKeyword(s, loc, a)
        [] g[e].kind = "CloseMatch" -> CloseMatch(s, loc, a)
        [] g[e].kind = "Word" -> Word(s, loc, a)
        [] g[e].kind = "Regex" -> Regex(s, loc, a)
        [] g[e].kind = "QuotedString" -> QuotedString(s, loc, a)
        [] g[e].kind = "CharsNotIn" -> CharsNotIn(s, loc, a)
        [] g[e].kind = "White" -> WhiteToken(s, loc, a)
        [] g[e].kind = "GoToColumn" -> GoToColumn(s, loc, a)
        [] g[e].kind = "LineStart" -> LineStart(s, loc)
        [] g[e].kind = "LineEnd" -> LineEnd(s, loc)
        [] g[e].kind = "StringStart" -> StringStart(s, loc, RunEnd(s, 0, Len(s), LAMBDA c : c \in White))
        [] g[e].kind = "StringEnd" -> StringEnd(s, loc)
        [] g[e].kind = "WordStart" -> WordStart(s, loc, a)
        [] g[e].kind = "WordEnd" -> WordEnd(s, loc, a)

ParseImpl(g, s, e, loc, act, m) ==
  CASE g[e].kind = "And" -> And(g, s, e, loc, act, m)
    [] g[e].kind = "Or" -> Or(g, s, e, loc, act, m)
    [] g[e].kind = "MatchFirst" -> MatchFirstFrom(g, s, g[e].exprs, loc, act, <<>>, m)
    [] g[e].kind = "Each" -> Each(g, s, e, loc, act, m)
    [] g[e].kind = "OneOrMore" -> OneOrMore(g, s, e, loc, act, m)
    [] g[e].kind = "ZeroOrMore" -> ZeroOrMore(g, s, e, loc, act, m)
    [] g[e].kind = "Optional" -> Optional(g, s, e, loc, act, m)
    [] g[e].kind = "FollowedBy" -> FollowedBy(g, s, e, loc, m)
    [] g[e].kind = "NotAny" -> NotAny(g, s, e, loc, m)
    [] g[e].kind = "SkipTo" -> SkipTo(g, s, e, loc, act, m)
    [] g[e].kind \in {"Forward", "Group", "Combine", "Suppress", "Dict"} -> Enhance(g, s, e, loc, act, m)
    [] OTHER -> With(TokenImpl(g, s, e, loc), m)

\* Dict: each group of the list is named by its first token (here one character)
DictNames(res) ==
  FoldLeft(LAMBDA r, i :
             LET tok == r.toks[i][1]
                 rest == Tail(tok)
                 names == r.toks[i][2]
                 value == IF Len(tok) = 1 THEN <<<<>>>>
                          ELSE IF Len(tok) = 2 /\ (~IsNested(rest[1]) \/ names = <<>>) THEN rest[1]
                          ELSE <<rest, names>>
             IN  IF tok = <<>> THEN r
                 ELSE [r EXCEPT !.names = Append(@, [n |-> tok[1][1][1], v |-> value])],
           res, [i \in 1..Len(res.toks) |-> i])

\* postParse
PostParse(el, res) ==
  CASE el.kind = "Group" -> List(<<Nested(res)>>)
    [] el.kind = "Suppress" -> Nothing
    [] el.kind = "Combine" -> LET all == [res EXCEPT !.toks = <<<<Joined(res.toks)>>>>]
                              IN  IF el.name # "" /\ res.names # <<>> THEN List(<<Nested(all)>>) ELSE all
    [] el.kind = "Dict" -> LET d == DictNames(res)
                           IN  IF el.name # "" THEN List(<<Nested(d)>>) ELSE d
    [] OTHER -> res

\* external: the parse actions of the grammars. addCondition raises when the first token
\* is "b", as a ParseException or a fatal one; replaceWith returns a token
Action(el, start, r) ==
  LET first == IF r.res.toks = <<>> THEN <<>> ELSE r.res.toks[1]
  IN  CASE el.act = "not b" /\ first = <<<<"b">>>> -> Fail(start)
        [] el.act = "never b" /\ first = <<<<"b">>>> -> Fatal(start)
        [] el.act = "replace" -> Ok(r.loc, Results(List(<<<<<<"r">>>>>>), el.name, el.asList, el.modal))
        [] OTHER -> r

\* _parseNoCache
ParseNoCache(g, s, e, loc, act, pre, m) ==
  LET el == g[e]
      named(x) == Ok(x.r.loc, Results(PostParse(el, x.r.res), el.name, el.asList, el.modal))
      after(p, x) == IF x.r.k # "ok" THEN x
                     ELSE IF act \/ el.duringTry THEN With(Action(el, p.loc, named(x)), x.m)
                     ELSE With(named(x), x.m)
      impl(p) == IF p.k = "fatal" THEN With(Fatal(p.loc), p.m)
                 ELSE after(p, ParseImpl(g, s, e, p.loc, act, p.m))
  IN  impl(IF pre /\ el.pre THEN PreParse(g, s, e, loc, m) ELSE Reached(loc, m))

\* mutant: the key of the cache forgets whether the actions ran
MutCacheKey(s, e, loc, act, pre) == <<e, s, loc, pre, TRUE>>

CacheKey(s, e, loc, act, pre) == <<e, s, loc, pre, act>>

\* _parseCache
Parse(g, s, e, loc, act, pre, m) ==
  LET key == CacheKey(s, e, loc, act, pre)
      keep(x) == IF m.size = 0 THEN x ELSE With(x.r, CacheSet(x.m, key, x.r))
  IN  IF m.size > 0 /\ Cached(m, key) THEN With(CacheGet(m, key), m)
      ELSE keep(ParseNoCache(g, s, e, loc, act, pre, m))
=============================================================================
