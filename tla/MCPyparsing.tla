---------------------------- MODULE MCPyparsing -----------------------------
(* Grammars and texts for PyScan that use every class of pyparsing, and the      *)
(* edits of a ParseResults beside them.                                          *)
EXTENDS PyScan, ParseResults

CONSTANT MaxLen
VARIABLE part

T(id, kind, arg) == <<<<id>>, kind, <<>>, arg>>
X(id, kind, ids) == <<<<id>>, kind, [i \in DOMAIN ids |-> <<ids[i]>>], <<>> >>
XA(id, kind, ids, arg) == <<<<id>>, kind, [i \in DOMAIN ids |-> <<ids[i]>>], arg>>
Ids(ids) == [i \in DOMAIN ids |-> <<ids[i]>>]

Plain(chars) == [init |-> chars, body |-> chars, min |-> 1, max |-> 0, exact |-> 0, keyword |-> FALSE]
RunOf(chars, min, max, exact) == [chars |-> chars, min |-> min, max |-> max, exact |-> exact]
Act(act, duringTry) == [act |-> act, duringTry |-> duringTry]
Named(name, modal) == [name |-> name, modal |-> modal]
AB == {"a", "b"}

\* a requirement: a name, extras in brackets, versions
Requirement ==
  << T("w", "Word", Plain(AB)), XA("name", "setResultsName", <<"w">>, Named("n", TRUE)),
     T("e", "Word", [Plain(AB) EXCEPT !.max = 2]), XA("extra", "setResultsName", <<"e">>, Named("x", FALSE)),
     T("l", "Literal", <<"[">>), T("r", "Literal", <<"]">>),
     X("lb", "Suppress", <<"l">>), X("rb", "Suppress", <<"r">>) >>
  \o DelimitedList(<<"extras">>, <<"extra">>, <<",">>)
  \o << X("opt", "Optional", <<"extras">>), X("in1", "And", <<"lb", "opt">>), X("in", "And", <<"in1", "rb">>),
        X("br", "Optional", <<"in">>), T("end", "StringEnd", <<>>),
        X("r1", "And", <<"name", "br">>), XA("req", "setResultsName", <<"r1">>, Named("r", TRUE)),
        X("top", "And", <<"req", "end">>) >>

\* tokens of every kind, longest first, or one after the other with names
Tokens ==
  << T("kw", "Keyword", [match |-> <<"a">>, ident |-> AB, caseless |-> FALSE]),
     T("cl", "CaselessLiteral", <<"B", "a">>), T("ck", "CaselessKeyword", [match |-> <<"b">>, ident |-> {"A", "B"}]),
     T("re", "Regex", OneOfOrder(<<<<"a">>, <<"a", "a">>, <<"a", "a", "b">>, <<"a">> >>, 1)),
     T("w2", "Word", [Plain(AB) EXCEPT !.min = 2, !.max = 2, !.keyword = TRUE]),
     T("w1", "Word", [Plain(AB) EXCEPT !.exact = 1]),
     XA("re2", "setResultsName", <<"re">>, Named("n", FALSE)),
     X("o1", "Or", <<"kw", "cl">>), X("o2", "Or", <<"o1", "ck">>), X("o3", "Or", <<"w2", "re2">>),
     X("o", "Or", <<"o2", "o3">>), X("all", "OneOrMore", <<"o">>), X("top", "And", <<"all", "w1">>) >>

Quoted ==
  << T("q", "QuotedString", [quote |-> "'", esc |-> TRUE, doubled |-> TRUE, multiline |-> FALSE, unquote |-> TRUE]),
     T("qm", "QuotedString", [quote |-> "'", esc |-> FALSE, doubled |-> FALSE, multiline |-> TRUE, unquote |-> FALSE]),
     T("not", "CharsNotIn", RunOf({"'"}, 1, 0, 0)), XA("grouped", "Group", <<"q">>, <<>>),
     X("m", "MatchFirst", <<"grouped", "qm">>), X("top", "MatchFirst", <<"m", "not">>) >>

\* lines, columns and word borders
Lines ==
  << T("ls", "LineStart", <<>>), T("le", "LineEnd", <<>>), T("ss", "StringStart", <<>>),
     T("c2", "GoToColumn", 2), T("ws", "WordStart", AB), T("we", "WordEnd", AB),
     T("w", "White", RunOf({" "}, 1, 2, 0)), T("a", "Literal", <<"a">>),
     X("1", "And", <<"ls", "a">>), X("first", "And", <<"1", "le">>),
     X("2", "And", <<"c2", "a">>), X("3", "And", <<"2", "we">>),
     X("4", "And", <<"ws", "a">>), X("5", "And", <<"4", "w">>), X("6", "And", <<"ss", "a">>),
     X("7", "MatchFirst", <<"first", "3">>), X("8", "MatchFirst", <<"5", "6">>),
     X("top", "MatchFirst", <<"7", "8">>) >>

Close == << T("top", "CloseMatch", [match |-> <<"a", "b">>, mismatches |-> 1]) >>

\* any order, some of it optional or repeated
AnyOrder ==
  << T("a", "Literal", <<"a">>), T("b", "Literal", <<"b">>), T("c", "Literal", <<"c">>),
     X("oa", "Optional", <<"a">>), X("mb", "OneOrMore", <<"b">>), X("zc", "ZeroOrMore", <<"c">>),
     X("e", "Each", <<"oa", "mb", "zc">>), T("d", "Literal", <<",">>), X("top", "And", <<"e", "d">>) >>

\* a & b & c, which is one Each in another
NestedOrder ==
  << T("a", "Literal", <<"a">>), T("b", "Literal", <<"b">>), T("c", "Literal", <<"c">>),
     X("e", "Each", <<"a", "b">>), X("top", "Each", <<"e", "c">>) >>

\* a - b + a, which ignores # followed by an a; without the a that is a fatal error
Stops ==
  << T("a", "Literal", <<"a">>), T("b", "Literal", <<"b">>), T("-", "ErrorStop", <<>>), T("h", "Literal", <<"#">>),
     X("1", "And", <<"a", "-">>), X("2", "And", <<"1", "b">>), X("top", "And", <<"2", "a">>),
     X("3", "And", <<"h", "-">>), X("4", "And", <<"3", "a">>), X("hs", "Suppress", <<"4">>),
     X("top", "ignore", <<"hs">>) >>

\* x ^ y ^ z, where the action of the longest refuses it
NestedOr ==
  << T("y", "Literal", <<"b">>), T("c", "Literal", <<",">>), X("z", "And", <<"y", "c">>), X("x", "And", <<"z", "c">>),
     XA("x", "setParseAction", <<>>, Act("not b", FALSE)), X("o", "Or", <<"x", "y">>), X("top", "Or", <<"o", "z">>) >>

\* brackets, with a comment that is ignored
Brackets ==
  << T("a", "Word", Plain(AB)) >> \o NestedExpr(<<"n">>, <<"(">>, <<")">>, <<"a">>)
  \o << X("top", "OneOrMore", <<"n">>), T("h", "Literal", <<"#">>), X("hs", "Suppress", <<"h">>),
        X("top", "ignore", <<"hs">>) >>

\* two operators, with an action that also runs during a try
Operators ==
  << T("a", "Word", Plain(AB)), XA("a", "setParseAction", <<>>, Act("not b", TRUE)),
     T("+", "Literal", <<"+">>), T("-", "Literal", <<"-">>) >>
  \o InfixNotation(<<"top">>, <<"a">>, <<"+">>, FALSE, <<"-">>, TRUE)

\* actions that fail the match, or all of it, or change it, seen by a lookahead first
Actions ==
  << T("w", "Word", Plain(AB)), XA("w", "setParseAction", <<>>, Act("not b", FALSE)),
     X("f", "FollowedBy", <<"w">>), T("l", "Literal", <<"b">>),
     XA("l", "setParseAction", <<>>, Act("never b", FALSE)), X("n", "NotAny", <<"l">>),
     T("c", "Literal", <<",">>), XA("c", "setParseAction", <<>>, Act("replace", FALSE)),
     XA("cn", "setResultsName", <<"c">>, Named("n", TRUE)),
     X("1", "And", <<"f", "w">>), X("2", "And", <<"n", "cn">>), X("3", "Or", <<"1", "2">>),
     X("4", "And", <<"cn", "l">>), X("top", "MatchFirst", <<"4", "3">>) >>

\* everything up to a target; a repetition that stops at one
Skip ==
  << T("b", "Literal", <<"b">>), T("n", "Literal", <<"\n">>), T("c", "Literal", <<",">>), T("a", "Literal", <<"a">>),
     XA("s", "SkipTo", <<"b">>, [include |-> TRUE, failOn |-> Ids(<<"c">>), ignore |-> <<>>]),
     XA("t", "SkipTo", <<"c">>, [include |-> FALSE, failOn |-> <<>>, ignore |-> Ids(<<"b">>)]),
     XA("many", "OneOrMore", <<"a">>, Ids(<<"b">>)), XA("sn", "setResultsName", <<"s">>, Named("n", TRUE)),
     X("1", "And", <<"many", "t">>), X("2", "And", <<"sn", "c">>),
     X("top", "MatchFirst", <<"2", "1">>) >>

\* a dictionary of groups and joined parts, named inside, a default, and an error stop
Dictionary ==
  << T("a", "Word", Plain(AB)), XA("an", "setResultsName", <<"a">>, Named("x", TRUE)), T("c", "Literal", <<",">>), X("cs", "Suppress", <<"c">>),
     T("-", "ErrorStop", <<>>), X("p", "And", <<"a", "cs">>), XA("d", "Optional", <<"an">>, <<<<"z">> >>),
     X("kv", "And", <<"p", "d">>), X("g", "Group", <<"kv">>), X("gs", "OneOrMore", <<"g">>),
     X("dict", "Dict", <<"gs">>), T("e", "Empty", <<>>), T("no", "NoMatch", <<>>),
     X("de", "And", <<"dict", "e">>), T("h", "Literal", <<"#">>),
     XA("hn", "setResultsName", <<"h">>, Named("y", FALSE)), X("hh", "OneOrMore", <<"hn">>),
     XA("j", "Combine", <<"hh">>, <<>>), XA("jn", "setResultsName", <<"j">>, Named("n", TRUE)),
     X("stop", "And", <<"jn", "-", "a">>), X("m", "MatchFirst", <<"stop", "no">>), X("top", "MatchFirst", <<"m", "de">>) >>

MCNames == {"requirement", "tokens", "quoted", "lines", "close", "any order", "brackets", "operators",
            "actions", "skip", "dictionary", "nested order", "stops", "nested or"}

MCGrammar == [n \in MCNames |->
  CASE n = "requirement" -> Requirement [] n = "tokens" -> Tokens [] n = "quoted" -> Quoted
    [] n = "lines" -> Lines [] n = "close" -> Close [] n = "any order" -> AnyOrder
    [] n = "brackets" -> Brackets [] n = "operators" -> Operators [] n = "actions" -> Actions
    [] n = "skip" -> Skip [] n = "dictionary" -> Dictionary
    [] n = "nested order" -> NestedOrder [] n = "stops" -> Stops [] n = "nested or" -> NestedOr]

Chars(n) ==
  CASE n = "requirement" -> {"a", "[", ",", "]"} [] n = "tokens" -> {"a", "b", "B"}
    [] n = "quoted" -> {"a", "'", "!"} [] n = "lines" -> {"a", " ", "\n"} [] n = "close" -> {"a", "b"}
    [] n = "any order" -> {"a", "b", "c", ","} [] n = "brackets" -> {"(", ")", "a", "#"}
    [] n = "operators" -> {"a", "b", "+", "-"} [] n = "actions" -> {"a", "b", ",", " "}
    [] n = "skip" -> {"a", "b", ",", " ", "\t"} [] n = "dictionary" -> {"a", ",", "#"}
    [] n = "nested order" -> {"a", "b", "c"} [] n = "stops" -> {"a", "b", "#"} [] n = "nested or" -> {"b", ","}

\* longer texts, that the grammars are about
Longer == [n \in MCNames |->
  CASE n = "requirement" -> {<<"a", "[", "a", ",", "a", "]">>, <<"b", " ", "[", "]">>}
    [] n = "tokens" -> {<<"a", "a", "b", " ", "B", "a">>, <<"b", "a">>}
    [] n = "quoted" -> {<<"'", "a", "!", "'", "'">>, <<"'", "'", "'", "'">>}
    [] n = "lines" -> {<<" ", "a", "\n", "a", "\n">>, <<"a", " ", " ", "a">>}
    [] n = "close" -> {<<"a", "b", "b", "b", "a">>}
    [] n = "any order" -> {<<"c", "b", "a", "b", ",">>, <<"b", "c", "c", ",">>}
    [] n = "brackets" -> {<<"(", "(", ")", ")">>, <<"(", "#", ")">>}
    [] n = "operators" -> {<<"a", "+", "a">>, <<"a", "-", "b">>, <<"(", "a", ")">>}
    [] n = "actions" -> {<<"a", ",", ",", "b">>, <<"a", "b", ",", "a">>}
    [] n = "skip" -> {<<"a", "a", "b", "b", ",">>, <<"a", "\t", "b", ",">>}
    [] n = "dictionary" -> {<<"a", ",", "b", "a", ",">>, <<"#", "#", "a">>, <<"#", "#", ",">>}
    [] n = "nested order" -> {<<"a", "c", "b">>, <<"c", "b", "a", "b">>}
    [] n = "stops" -> {<<"a", "#", "a", "b", "a">>, <<"a", "b", "b">>, <<"#", "b", "a">>}
    [] n = "nested or" -> {<<"b", ",", ",", "b">>}]

\* other code parses a longest one of them
MCOthers == [n \in MCNames |-> {CHOOSE t \in Longer[n] : \A u \in Longer[n] : Len(u) <= Len(t)}]

MCTexts == [n \in MCNames |->
  LET short == IF n \in {"brackets", "operators", "requirement"} THEN MaxLen - 1 ELSE MaxLen
  IN  UNION {[1..k -> Chars(n)] : k \in 0..short} \cup Longer[n]]

NoScan == /\ gname \in Names /\ text = <<>> /\ overlap = FALSE /\ keepTabs = FALSE /\ loc = 0 /\ hits = <<>>
          /\ cache = EmptyCache(0) /\ last = NoAttempt /\ parses = 0 /\ pc = "new"

\* keepTabs makes no difference to a text without a tab
Init == \/ /\ part = "scan" /\ ScanInit /\ PrInit
           /\ overlap => cache.size > 0
           /\ keepTabs => Contains(text, "\t")
        \/ /\ part = "edit" /\ PrInit /\ NoScan /\ gname = "close"

Next == \/ part = "scan" /\ ScanNext /\ UNCHANGED <<editVars, part>>
        \/ part = "edit" /\ PrNext /\ UNCHANGED <<scanVars, part>>

Spec == Init /\ [][Next]_<<scanVars, editVars, part>>
=============================================================================
