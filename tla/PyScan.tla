------------------------------- MODULE PyScan -------------------------------
(* scanString and parseString of pyparsing                                       *)
(* (src/src/pkg_resources/_vendor/pyparsing.py), and what is built on them:        *)
(* transformString, searchString, split. scanString is a generator: between two    *)
(* of its matches other code may parse with the same elements, and the packrat      *)
(* cache is one for all of them.                                                  *)
EXTENDS PyGrammar

CONSTANTS
  Names,       \* of the grammars
  Grammar,     \* name -> steps that build it; its element is <<"top">>
  Texts,       \* name -> the texts that are scanned
  Others,      \* name -> the texts other code parses during a scan
  CacheSizes,  \* 0 stands for no enablePackrat()
  MaxParses    \* bound: parses by other code during a scan

Built == [n \in Names |-> Build(Grammar[n])]
Raw == [n \in Names |-> Built[n].g]                  \* as written
Merged == [n \in Names |-> Streamline(Built[n])]     \* after streamline()
Top == <<"top">>

VARIABLES
  gname, text, overlap,
  keepTabs, \* of the element: parseWithTabs() or transformString() set it
  loc,      \* scanString's location
  hits,     \* <<tokens, start, end>> it yielded
  cache,    \* ParserElement.packrat_cache
  last,     \* [pre, r] of the last attempt
  parses,   \* bound counter
  pc        \* "new", "scan", "done", "raised"

scanVars == <<gname, text, overlap, keepTabs, loc, hits, cache, last, parses, pc>>

NoAttempt == [pre |-> 0, r |-> Ok(0, Nothing)]

ScanInit ==
  /\ gname \in Names /\ text \in Texts[gname] /\ overlap \in BOOLEAN /\ keepTabs \in BOOLEAN
  /\ loc = 0 /\ hits = <<>> /\ last = NoAttempt /\ parses = 0 /\ pc = "new"
  /\ cache \in {EmptyCache(n) : n \in CacheSizes}

\* resetCache
Reset == EmptyCache(cache.size)

\* expandtabs(): spaces to the next column that is a multiple of eight
Spaces(n) == [i \in 1..n |-> " "]
ExpandTabs(s) ==
  FoldLeft(LAMBDA out, c : IF c = "\t" THEN out \o Spaces(8 - ((Col(out, Len(out)) - 1) % 8)) ELSE Append(out, c),
           <<>>, s)

\* the string that is parsed, to which all locations refer
Given(s) == IF keepTabs THEN s ELSE ExpandTabs(s)

\* the first next() of the generator
ScanStart ==
  /\ pc = "new" /\ pc' = "scan" /\ cache' = Reset
  /\ UNCHANGED <<gname, text, overlap, keepTabs, loc, hits, last, parses>>

\* preParse, then _parse without it
Attempt ==
  LET all(p, x) == [pre |-> p.loc, r |-> x.r, m |-> x.m]
      match(p) == all(p, IF p.k = "fatal" THEN With(Fatal(p.loc), p.m)
                         ELSE Parse(Merged[gname], Given(text), Top, p.loc, TRUE, FALSE, p.m))
  IN  match(PreParse(Merged[gname], Given(text), Top, loc, cache))

\* mutant: a match of nothing is yielded and the scan stays where it is
MutMoves(a) == a.r.k = "ok"

Moves(a) == a.r.k = "ok" /\ a.r.loc > loc

\* mutant: the scan goes on one character after the start of a match
MutAfterHit(a) == [loc |-> a.pre + 1, m |-> a.m]

\* where the scan goes on, and the cache: overlapping matches start one character on,
\* but where white space came before the match they do not overlap. This preParse is the
\* one of the attempt again, which did not raise
AfterHit(a) ==
  LET next(p) == [loc |-> IF p.loc > loc THEN a.r.loc ELSE loc + 1, m |-> p.m]
  IN  IF overlap THEN next(PreParse(Merged[gname], Given(text), Top, loc, a.m)) ELSE [loc |-> a.r.loc, m |-> a.m]

ScanHit(a) ==
  /\ Moves(a)
  /\ hits' = Append(hits, <<a.r.res, a.pre, a.r.loc>>)
  /\ \E next \in {AfterHit(a)} : loc' = next.loc /\ cache' = next.m
  /\ UNCHANGED pc

ScanMiss(a) ==
  /\ a.r.k # "fatal" /\ ~Moves(a)
  /\ loc' = a.pre + 1 /\ cache' = a.m
  /\ UNCHANGED <<hits, pc>>

\* a ParseFatalException goes through the generator
ScanRaise(a) ==
  /\ a.r.k = "fatal" /\ pc' = "raised" /\ cache' = a.m
  /\ UNCHANGED <<loc, hits>>

\* one turn of scanString's loop
ScanStep ==
  /\ pc = "scan" /\ loc <= Len(Given(text))
  /\ \E a \in {Attempt} : /\ ScanHit(a) \/ ScanMiss(a) \/ ScanRaise(a)
                          /\ last' = [pre |-> a.pre, r |-> a.r]
  /\ UNCHANGED <<gname, text, overlap, keepTabs, parses>>

ScanEnd ==
  /\ pc = "scan" /\ loc > Len(Given(text)) /\ pc' = "done"
  /\ UNCHANGED <<gname, text, overlap, keepTabs, loc, hits, cache, last, parses>>

\* parseString of a text, parseAll or not: [r, m], for a cache just reset
ParseString(g, s, parseAll, m) ==
  LET white(p) == RunEnd(s, p.loc, Len(s), LAMBDA c : c \in White)
      end(x, p) == With(IF p.k = "fatal" THEN Fatal(p.loc)
                        ELSE IF StringEnd(s, white(p)).k = "ok" THEN x.r ELSE Fail(white(p)), p.m)
      after(x) == IF x.r.k # "ok" \/ ~parseAll THEN x ELSE end(x, PreParse(g, s, Top, x.r.loc, x.m))
  IN  after(Parse(g, s, Top, 0, TRUE, TRUE, m))

\* other code parses between two matches
OtherParse(t, parseAll) ==
  /\ pc = "scan" /\ cache.size > 0 /\ parses < MaxParses /\ parses' = parses + 1
  /\ cache' = ParseString(Merged[gname], Given(t), parseAll, Reset).m
  /\ UNCHANGED <<gname, text, overlap, keepTabs, loc, hits, last, pc>>

ScanNext ==
  \/ ScanStart \/ ScanStep \/ ScanEnd
  \/ \E t \in Others[gname], parseAll \in BOOLEAN : OtherParse(t, parseAll)

-----------------------------------------------------------------------------
\* split(): the pieces of the string as the caller passed it, between the locations of the
\* matches, which refer to the one that was parsed
Split ==
  [i \in 1..Len(hits) + 1 |-> Slice(text, IF i = 1 THEN 0 ELSE hits[i - 1][3],
                                    IF i > Len(hits) THEN Len(text) ELSE hits[i][2])]

\* transformString(), which sets keepTabs: the pieces with tokens between them
Transformed(tokens) ==
  FoldLeft(LAMBDA out, i : out \o tokens[i] \o Split[i + 1], Split[1], [i \in DOMAIN hits |-> i])

\* What the packrat cache keeps for an element, a text, a location and its two flags is
\* what parsing there without any cache gives: tokens, named values, location or error, for
\* every element of the grammar, also when other code parsed between two matches and after
\* old entries were dropped. It says nothing of the offsets of the named values, which
\* Combine and Dict change inside cached results.
CacheSound ==
  \A i \in DOMAIN cache.keys :
    LET k == cache.keys[i]
    IN  cache.val[i] = Parse(Merged[gname], k[2], k[1], k[3], k[5], k[4], EmptyCache(0)).r

\* An expression of which streamline() changes the meaning: an Each takes the parts of the
\* nested ones in any order too (a & b & c relies on it), an And gets the error stop of a
\* nested one for the parts behind it (a - b relies on it), and an Or tries the next longest
\* of all alternatives when an action refuses one, not first those of the nested Or.
Remade(e) ==
  LET raw == Raw[gname][e]
      merged == Merged[gname][e]
  IN  /\ merged.exprs # raw.exprs
      /\ \/ raw.kind = "Each"
         \/ raw.kind = "And" /\ \E c \in Range(merged.exprs) : Raw[gname][c].kind = "ErrorStop"
         \/ raw.kind = "Or" /\ \E c \in Below(Raw[gname], {e}, {}) : Raw[gname][c].act # "none"

\* streamline() merges nested expressions of one class; the grammar matches the same,
\* and gives the same tokens and names, as the one that was written, unless one of its
\* expressions is remade.
StreamlineNeutral ==
  \/ last = NoAttempt \/ \E e \in DOMAIN Raw[gname] : Remade(e)
  \/ last.r = Parse(Raw[gname], Given(text), Top, last.pre, TRUE, FALSE, EmptyCache(0)).r

\* A scan without overlap yields matches that come one after the other inside the text,
\* so the pieces split() gives and the texts they matched make up the whole text again, and
\* so do those of transformString(). Two things break this in the code: a CloseMatch counts
\* its end from the start of the text, and split() of a text with a tab, unless the element
\* was told parseWithTabs(), cuts the text as it was given at locations in the expanded one.
SplitRejoins ==
  (/\ pc = "done" /\ ~overlap /\ (keepTabs \/ ~Contains(text, "\t"))
   /\ \A e \in DOMAIN Raw[gname] : Raw[gname][e].kind # "CloseMatch") =>
    Transformed([i \in DOMAIN hits |-> Slice(Given(text), hits[i][2], hits[i][3])]) = text

\* Every turn of scanString's loop moves forward, whatever matched or failed, so a scan
\* of a finite text ends.
ScanProgress == [][pc = "scan" /\ pc' = "scan" /\ parses' = parses => loc' > loc]_scanVars
=============================================================================
