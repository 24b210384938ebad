----------------------------- MODULE PyGrammar ------------------------------
(* How pyparsing grammars are put together: the constructors of the classes,    *)
(* leaveWhitespace, ignore, streamline, and the helpers that build expressions   *)
(* (src/src/pkg_resources/_vendor/pyparsing.py).                                 *)
(*                                                                             *)
(* A grammar is written as a sequence of steps <<id, what, exprs, arg>>; an id   *)
(* is a sequence of names, so that helpers can make ids of their own.            *)
EXTENDS Pyparsing, TLC

\* a grammar under construction: elements by id, and the order they were made in
NoGrammar == [g |-> [i \in {} |-> Element], order |-> <<>>]
Put(b, id, el) == [g |-> (id :> el) @@ b.g, order |-> IF id \in DOMAIN b.g THEN b.order ELSE Append(b.order, id)]

Nullable == {"Empty", "ErrorStop", "NoMatch", "Regex", "QuotedString", "White", "GoToColumn",
             "LineStart", "LineEnd", "StringStart", "StringEnd", "WordStart", "WordEnd"}

\* Token and its classes
NewToken(kind, arg) ==
  [Element EXCEPT !.kind = kind, !.arg = arg, !.nullable = kind \in Nullable,
                  !.skip = kind \notin {"CharsNotIn", "WordEnd", "ErrorStop"},
                  !.white = IF kind = "LineEnd" THEN White \ {"\n"}
                            ELSE IF kind = "White" THEN White \ arg.chars ELSE White]

\* ParseExpression, And, Or, MatchFirst, Each
NewExpression(g, kind, exprs) ==
  LET all == \A i \in DOMAIN exprs : g[exprs[i]].nullable
      some == \E i \in DOMAIN exprs : g[exprs[i]].nullable
  IN  [Element EXCEPT !.kind = kind, !.exprs = exprs, !.asList = kind \in {"And", "Each"},
                      !.nullable = IF kind \in {"And", "Each"} THEN all ELSE some,
                      !.pre = kind = "And",
                      !.skip = IF kind = "And" THEN g[exprs[1]].skip ELSE TRUE,
                      !.white = IF kind = "And" THEN g[exprs[1]].white ELSE White]

\* ParseElementEnhance and its classes
NewEnhance(g, kind, exprs, arg) ==
  LET in == g[exprs[1]]
  IN  [Element EXCEPT !.kind = kind, !.exprs = exprs, !.arg = arg,
         !.nullable = in.nullable \/ kind \in {"FollowedBy", "NotAny", "ZeroOrMore", "Optional", "SkipTo"},
         !.white = in.white, !.ignore = in.ignore, !.pre = in.pre \/ kind = "Combine",
         !.skip = IF kind = "Combine" THEN TRUE ELSE in.skip /\ kind # "NotAny",
         !.asList = IF kind \in {"Combine", "Suppress"} THEN FALSE
                    ELSE in.asList \/ kind \in {"OneOrMore", "ZeroOrMore", "Group", "Dict"}]

\* Forward.__lshift__
LShift(g, id, other) ==
  [g[id] EXCEPT !.exprs = <<other>>, !.nullable = g[other].nullable, !.white = g[other].white,
                !.skip = g[other].skip, !.asList = g[other].asList, !.ignore = @ \o g[other].ignore]

RECURSIVE Below(_, _, _)
Below(g, S, stop) ==
  LET T == S \cup UNION {Range(g[i].exprs) : i \in {j \in S : g[j].kind \notin stop}}
  IN  IF T = S THEN S ELSE Below(g, T, stop)

CopyOf(id) == Append(id, "copy")

\* leaveWhitespace of Combine: copies of everything below, up to a Forward
LeaveWhitespace(b, id) ==
  FoldLeft(LAMBDA c, i : Put(c, CopyOf(i), [b.g[i] EXCEPT !.skip = FALSE,
                               !.exprs = IF b.g[i].kind = "Forward" THEN @ ELSE [k \in DOMAIN @ |-> CopyOf(@[k])]]),
           b, SelectSeq(b.order, LAMBDA i : i \in Below(b.g, {id}, {"Forward"})))

\* ignore: the element, and all below it that do not ignore it yet; Combine keeps it
\* to itself
Ignore(b, id, other) ==
  [b EXCEPT !.g = [i \in DOMAIN b.g |->
     IF i \in Below(b.g, {id}, {"Combine"}) /\ ~Contains(b.g[i].ignore, other)
     THEN [b.g[i] EXCEPT !.ignore = Append(@, other)] ELSE b.g[i]]]

\* one step of building a grammar
BuildStep(b, step) ==
  LET id == step[1]
      kind == step[2]
      exprs == step[3]
      arg == step[4]
  IN  CASE kind \in {"And", "Or", "MatchFirst", "Each"} -> Put(b, id, NewExpression(b.g, kind, exprs))
        [] kind = "Forward" -> Put(b, id, [Element EXCEPT !.kind = "Forward"])
        [] kind = "<<" -> Put(b, id, LShift(b.g, id, exprs[1]))
        [] kind = "Combine" -> LET c == LeaveWhitespace(b, exprs[1])
                               IN  Put(c, id, NewEnhance(c.g, kind, <<CopyOf(exprs[1])>>, arg))
        [] kind \in {"OneOrMore", "ZeroOrMore", "Optional", "FollowedBy", "NotAny", "SkipTo",
                     "Group", "Suppress", "Dict"} -> Put(b, id, NewEnhance(b.g, kind, exprs, arg))
        [] kind = "setResultsName" -> Put(b, id, [b.g[exprs[1]] EXCEPT !.name = arg.name, !.modal = arg.modal])
        [] kind = "setParseAction" -> Put(b, id, [b.g[id] EXCEPT !.act = arg.act, !.duringTry = arg.duringTry])
        [] kind = "ignore" -> Ignore(b, id, exprs[1])
        [] OTHER -> Put(b, id, NewToken(kind, arg))

Build(steps) == FoldLeft(BuildStep, NoGrammar, steps)

-----------------------------------------------------------------------------
\* mutant: an expression with an action or a name is merged as well
MutMerges(g, id, c) == g[c].kind = g[id].kind

\* streamline of one ParseExpression: two parts, of which one is of the same class
Merges(g, id, c) == g[c].kind = g[id].kind /\ g[c].act = "none" /\ g[c].name = ""

Streamlined(g, id) ==
  LET el == g[id]
      first == el.exprs[1]
      one == IF Merges(g, id, first)
             THEN [el EXCEPT !.exprs = g[first].exprs \o <<el.exprs[2]>>, !.nullable = @ \/ g[first].nullable]
             ELSE el
      last == Last(one.exprs)
  IN  IF el.kind \notin {"And", "Or", "MatchFirst", "Each"} \/ Len(el.exprs) # 2 THEN el
      ELSE IF Merges(g, id, last)
      THEN [one EXCEPT !.exprs = Front(@) \o g[last].exprs, !.nullable = @ \/ g[last].nullable]
      ELSE one

\* what is below an element is built, and streamlined, before it
Streamline(b) == FoldLeft(LAMBDA g, id : [g EXCEPT ![id] = Streamlined(g, id)], b.g, b.order)

-----------------------------------------------------------------------------
(* The helpers.                                                                 *)

Of(id, part) == Append(id, part)

\* delimitedList
DelimitedList(id, expr, delim) ==
  << <<Of(id, "delim"), "Literal", <<>>, delim>>,
     <<Of(id, "suppress"), "Suppress", <<Of(id, "delim")>>, <<>> >>,
     <<Of(id, "next"), "And", <<Of(id, "suppress"), expr>>, <<>> >>,
     <<Of(id, "more"), "ZeroOrMore", <<Of(id, "next")>>, <<>> >>,
     <<id, "And", <<expr, Of(id, "more")>>, <<>> >> >>

\* nestedExpr with a content expression and no ignoreExpr
NestedExpr(id, opener, closer, content) ==
  << <<id, "Forward", <<>>, <<>> >>,
     <<Of(id, "open"), "Literal", <<>>, opener>>, <<Of(id, "("), "Suppress", <<Of(id, "open")>>, <<>> >>,
     <<Of(id, "close"), "Literal", <<>>, closer>>, <<Of(id, ")"), "Suppress", <<Of(id, "close")>>, <<>> >>,
     <<Of(id, "item"), "MatchFirst", <<id, content>>, <<>> >>,
     <<Of(id, "items"), "ZeroOrMore", <<Of(id, "item")>>, <<>> >>,
     <<Of(id, "left"), "And", <<Of(id, "("), Of(id, "items")>>, <<>> >>,
     <<Of(id, "all"), "And", <<Of(id, "left"), Of(id, ")")>>, <<>> >>,
     <<Of(id, "group"), "Group", <<Of(id, "all")>>, <<>> >>,
     <<id, "<<", <<Of(id, "group")>>, <<>> >> >>

\* one level of infixNotation: a binary operator, left or right associative; `last` is
\* the level above, `this` the Forward of this one
InfixLevel(id, last, op, right) ==
  LET again == IF right THEN id ELSE last
  IN  << <<id, "Forward", <<>>, <<>> >>,
         <<Of(id, "look1"), "And", <<last, op>>, <<>> >>,
         <<Of(id, "look2"), "And", <<Of(id, "look1"), again>>, <<>> >>,
         <<Of(id, "look"), "FollowedBy", <<Of(id, "look2")>>, <<>> >>,
         <<Of(id, "tail"), "And", <<op, again>>, <<>> >>,
         <<Of(id, "tails"), "OneOrMore", <<Of(id, "tail")>>, <<>> >>,
         <<Of(id, "term"), "And", <<last, Of(id, "tails")>>, <<>> >>,
         <<Of(id, "group"), "Group", <<Of(id, "term")>>, <<>> >>,
         <<Of(id, "match"), "And", <<Of(id, "look"), Of(id, "group")>>, <<>> >>,
         <<Of(id, "choice"), "MatchFirst", <<Of(id, "match"), last>>, <<>> >>,
         <<id, "<<", <<Of(id, "choice")>>, <<>> >> >>

\* infixNotation with two levels of operators, the first one binding closer
InfixNotation(id, base, op1, right1, op2, right2) ==
  << <<id, "Forward", <<>>, <<>> >>,
     <<Of(id, "("), "Literal", <<>>, <<"(">> >>, <<Of(id, "lpar"), "Suppress", <<Of(id, "(")>>, <<>> >>,
     <<Of(id, ")"), "Literal", <<>>, <<")">> >>, <<Of(id, "rpar"), "Suppress", <<Of(id, ")")>>, <<>> >>,
     <<Of(id, "in1"), "And", <<Of(id, "lpar"), id>>, <<>> >>,
     <<Of(id, "in"), "And", <<Of(id, "in1"), Of(id, "rpar")>>, <<>> >>,
     <<Of(id, "atom"), "MatchFirst", <<base, Of(id, "in")>>, <<>> >> >>
  \o InfixLevel(Of(id, "1"), Of(id, "atom"), op1, right1)
  \o InfixLevel(Of(id, "2"), Of(id, "1"), op2, right2)
  \o << <<id, "<<", <<Of(id, "2")>>, <<>> >> >>

\* oneOf: a symbol that begins another one is moved behind it, a second copy removed
RECURSIVE OneOfOrder(_, _)
OneOfOrder(symbols, i) ==
  LET later == {j \in DOMAIN symbols : j > i /\ StartsWith(symbols[j], symbols[i], 0)}
      j == Min(later)
      without == RemoveAt(symbols, j)
  IN  IF i >= Len(symbols) THEN symbols
      ELSE IF later = {} THEN OneOfOrder(symbols, i + 1)
      ELSE IF symbols[j] = symbols[i] THEN OneOfOrder(without, i)
      ELSE OneOfOrder(InsertAt(without, i, symbols[j]), i)

OneOf(id, symbols) == << <<id, "Regex", <<>>, OneOfOrder(symbols, 1)>> >>
=============================================================================
