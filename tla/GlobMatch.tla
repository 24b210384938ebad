------------------------------ MODULE GlobMatch ------------------------------
(* globmatch: a path matched against a glob pattern through a regular       *)
(* expression (globmatch/__init__.py, translation.py, pathutils.py).  A     *)
(* pattern is a sequence of tokens: characters, "*", "?", "/" and the       *)
(* character class "[ab]"; a path is a sequence of characters.  The name    *)
(* "start" that is put in front of both is one character here.              *)
EXTENDS Integers, Sequences, FiniteSets, SequencesExt, FiniteSetsExt

CONSTANTS GlobTokens,  \* the tokens of a pattern
          PathChars,   \* the characters of a path, "/" among them
          MaxPattern,  \* bound on the length of a pattern
          MaxPath      \* bound on the length of a path

VARIABLES pattern, path

globVars == <<pattern, path>>

Start == "s"

(* _fix_path_for_globmatch *)
RECURSIVE WithoutSlashes(_)
WithoutSlashes(s) ==
  IF s # <<>> /\ Head(s) = "/" THEN WithoutSlashes(Tail(s)) ELSE s
Fixed(s) == <<Start, "/">> \o WithoutSlashes(s)

(* iexplode_path: the parts between the slashes, several slashes as one; a  *)
(* slash at the end leaves an empty last part.                              *)
Slash(s, i) == i = 0 \/ i > Len(s) \/ s[i] = "/"
Explode(s) ==
  LET starts == {i \in 1..Len(s) : s[i] # "/" /\ Slash(s, i - 1)}
      end(i) == Min({j \in i..(Len(s) + 1) : Slash(s, j)}) - 1
      parts == [k \in 1..Cardinality(starts) |->
                  LET i == CHOOSE x \in starts :
                             Cardinality({y \in starts : y < x}) = k - 1
                  IN SubSeq(s, i, end(i))]
  IN IF Last(s) = "/" THEN Append(parts, <<>>) ELSE parts

DoubleStar == <<"*", "*">>

(* translate_glob_part and join_translated: the pieces of the regular       *)
(* expression.  "**" in the middle is ".*" that must stop behind a slash or *)
(* at the beginning ("dirs"), and takes no separator behind it; at the end  *)
(* it is ".+" and anything.  Other parts end in an optional separator, or   *)
(* with subentries_match in an optional separator and anything.             *)
Piece(token) == CASE token = "*" -> "names" [] token = "?" -> "name?"
                  [] OTHER -> token

MutPart(part) == IF part = DoubleStar THEN <<"any">>
              ELSE [i \in DOMAIN part |-> Piece(part[i])] \o <<"/">>

Part(part) == IF part = DoubleStar THEN <<"dirs">>
              ELSE [i \in DOMAIN part |-> Piece(part[i])] \o <<"/">>

LastPart(part, subentries) ==
  IF part = DoubleStar THEN <<"any+", "/?", "any">>
  ELSE [i \in DOMAIN part |-> Piece(part[i])]
       \o (IF subentries THEN <<"/?", "any">> ELSE <<"/?">>)

Translate(s, subentries) ==
  LET parts == Explode(s)
  IN FoldLeft(LAMBDA res, part : res \o Part(part), <<>>, Front(parts))
     \o LastPart(Last(parts), subentries)

(* The regular expression engine (external): where a match of the pieces    *)
(* can stand, as the set of the numbers of characters read.                 *)
Reaches(piece, s, from) ==
  LET one(c, i) == CASE c = "name" -> s[i] # "/"
                     [] c = "[ab]" -> s[i] \in {"a", "b"}
                     [] c = "any" -> TRUE
                     [] OTHER -> s[i] = c
      step(c) == {i + 1 : i \in {j \in from : j < Len(s) /\ one(c, j + 1)}}
      run(c) == {k \in 0..Len(s) : \E j \in from :
                    j <= k /\ \A i \in (j + 1)..k : one(c, i)}
  IN CASE piece = "names" -> run("name")
       [] piece = "name?" -> from \cup step("name")
       [] piece = "any" -> run("any")
       [] piece = "any+" -> run("any") \ {k \in 0..Len(s) : \A j \in from : k <= j}
       [] piece = "/?" -> from \cup step("/")
       [] piece = "dirs" -> {k \in run("any") : k = 0 \/ s[k] = "/"}
       [] OTHER -> step(piece)

Matches(s, pieces) ==
  Len(s) \in FoldLeft(LAMBDA at, piece : Reaches(piece, s, at), {0}, pieces)

(* glob_match, for one pattern *)
GlobMatch(p, g, subentries) == Matches(Fixed(p), Translate(Fixed(g), subentries))

-----------------------------------------------------------------------------
GlobInit == pattern = <<>> /\ path = <<>>

AddToPattern(t) == /\ Len(pattern) < MaxPattern /\ path = <<>>
                   /\ pattern' = Append(pattern, t) /\ UNCHANGED path

AddToPath(c) == /\ Len(path) < MaxPath
                /\ path' = Append(path, c) /\ UNCHANGED pattern

GlobNext == \/ \E t \in GlobTokens : AddToPattern(t)
            \/ \E c \in PathChars : AddToPath(c)

(* What a glob means, name by name: a part matches one name, "**" any       *)
(* number of them, at the end at least one.                                 *)
RECURSIVE NameMatch(_, _)
NameMatch(part, name) ==
  IF part = <<>> THEN name = <<>>
  ELSE \/ /\ Head(part) \in {"*", "?"} /\ NameMatch(Tail(part), name)
       \/ /\ name # <<>>
          /\ \/ Head(part) = "*" /\ NameMatch(part, Tail(name))
             \/ /\ \/ Head(part) \in {"?", Head(name)}
                   \/ Head(part) = "[ab]" /\ Head(name) \in {"a", "b"}
                /\ NameMatch(Tail(part), Tail(name))

RECURSIVE NamesMatch(_, _)
NamesMatch(parts, names) ==
  IF parts = <<>> THEN names = <<>>
  ELSE IF parts = <<DoubleStar>> THEN names # <<>> /\ names # <<<<>>>>
  ELSE IF Head(parts) = DoubleStar
  THEN \E k \in 0..Len(names) :
          NamesMatch(Tail(parts), SubSeq(names, k + 1, Len(names)))
  ELSE /\ names # <<>>
       /\ NameMatch(Head(parts), Head(names))
       /\ NamesMatch(Tail(parts), Tail(names))

Normal(s) == /\ s # <<>> /\ Head(s) # "/"
             /\ \A i \in 1..(Len(s) - 1) : ~(s[i] = "/" /\ s[i + 1] = "/")

(* The regular expression accepts a path exactly when its names match the   *)
(* parts of the pattern; the slash behind a directory may be there or not,  *)
(* and "*" also matches the empty name behind it (globmatch/translation.py, *)
(* join_translated and translate_glob_part).  With subentries_match it      *)
(* still accepts all of that.                                               *)
GlobFollowsNames ==
  LET names == Explode(path)
      parts == Explode(pattern)
  IN (Normal(path) /\ pattern # <<>> /\ Head(pattern) # "/" /\ Last(pattern) # "/") =>
       /\ GlobMatch(path, pattern, FALSE) <=>
            \/ NamesMatch(parts, names)
            \/ Last(names) = <<>> /\ NamesMatch(parts, Front(names))
       /\ GlobMatch(path, pattern, FALSE) => GlobMatch(path, pattern, TRUE)
=============================================================================
