---------------------------- MODULE ParseResults ----------------------------
(* Two of pyparsing's ParseResults (src/src/pkg_resources/_vendor/pyparsing.py)  *)
(* that a parse action may hold and edit. A result is a list of tokens and a      *)
(* dictionary that names some of them: a name has a list of occurrences, each     *)
(* [v |-> token, pos |-> offset of the token in the list of tokens].              *)
(*                                                                             *)
(* `lists` is the heap: the lists of occurrences by their identity, which copy()  *)
(* shares with the original and __delitem__ and insert() change in place. A list   *)
(* that is made has the edit and the name it was made for as its identity.         *)
EXTENDS Integers, Sequences, SequencesExt

CONSTANTS TokenIds, NameIds,  \* tokens, all different, and names
          MaxEdits            \* bound: edits

Objects == {"one", "two"}

VARIABLES
  toklist,   \* object -> __toklist
  tokdict,   \* object -> the names it has -> identity of the list of occurrences
  lists,     \* identity -> sequence of [v, pos]
  edits,     \* bound counter
  slipped    \* history: an edit after which an offset need not be exact (OffsetsExact)

editVars == <<toklist, tokdict, lists, edits, slipped>>

PrInit == /\ toklist = [o \in Objects |-> <<>>] /\ tokdict = [o \in Objects |-> [n \in {} |-> 0]]
          /\ lists = [k \in {} |-> <<>>] /\ edits = 0 /\ slipped = FALSE

Edited == edits < MaxEdits /\ edits' = edits + 1

Keys(o) == {tokdict[o][n] : n \in DOMAIN tokdict[o]}
Known(o) == Range(toklist[o]) \cup UNION {{x.v : x \in Range(lists[k])} : k \in Keys(o)}
Unknown(t) == t \in TokenIds /\ \A o \in Objects : t \notin Known(o)
Shared(o) == \E p \in Objects \ {o} : Keys(o) \cap Keys(p) # {}

\* self[name] = occurrence, for the names and occurrences in more: new lists, each
\* with what was there before it
Old(o, n) == IF n \in DOMAIN tokdict[o] THEN lists[tokdict[o][n]] ELSE <<>>
SetItems(o, more) ==
  LET made == {<<edits, n>> : n \in DOMAIN more}
  IN  /\ lists' = [k \in DOMAIN lists \cup made |->
                     IF k \in made THEN Old(o, k[2]) \o more[k[2]] ELSE lists[k]]
      /\ tokdict' = [tokdict EXCEPT ![o] = [n \in DOMAIN @ \cup DOMAIN more |->
                                             IF n \in DOMAIN more THEN <<edits, n>> ELSE @[n]]]

\* += of a result with one named token, as And does with the tokens of each part
AddNamed(o, t, n) ==
  /\ Edited /\ Unknown(t)
  /\ SetItems(o, [m \in {n} |-> << [v |-> t, pos |-> Len(toklist[o])] >>])
  /\ toklist' = [toklist EXCEPT ![o] = Append(@, t)]
  /\ UNCHANGED slipped

\* self[name] = token, without an offset: it gets offset 0 wherever the token is
SetByName(o, n, t) ==
  /\ Edited /\ t \in TokenIds
  /\ SetItems(o, [m \in {n} |-> << [v |-> t, pos |-> 0] >>])
  /\ slipped' = (slipped \/ \E j \in DOMAIN toklist[o] : toklist[o][j] = t /\ j # 1)
  /\ UNCHANGED toklist

\* self[i] = token
SetToken(o, i, t) ==
  /\ Edited /\ Unknown(t) /\ i + 1 \in DOMAIN toklist[o]
  /\ toklist' = [toklist EXCEPT ![o] = [@ EXCEPT ![i + 1] = t]]
  /\ UNCHANGED <<tokdict, lists, slipped>>

append(o, t) ==
  /\ Edited /\ Unknown(t)
  /\ toklist' = [toklist EXCEPT ![o] = Append(@, t)]
  /\ UNCHANGED <<tokdict, lists, slipped>>

\* the occurrences of every name of o, in place
Moved(occ, f) == [i \in DOMAIN occ |-> [v |-> occ[i].v, pos |-> f[occ[i].pos]]]
Shift(o, f) == lists' = [k \in DOMAIN lists |-> IF k \in Keys(o) THEN Moved(lists[k], f) ELSE lists[k]]

\* list.insert: a negative index counts from the end, one too large is the end
Place(n, i) == IF i > n THEN n ELSE IF i >= 0 THEN i ELSE IF n + i > 0 THEN n + i ELSE 0

\* the occurrences are compared with the index as it was passed, whatever its sign
Stays(o, i) == \E k \in Keys(o) : \E x \in Range(lists[k]) :
  x.pos = i \/ (i < 0 /\ x.pos < Place(Len(toklist[o]), i))
insert(o, i, t) ==
  /\ Edited /\ Unknown(t)
  /\ toklist' = [toklist EXCEPT ![o] = InsertAt(@, Place(Len(@), i) + 1, t)]
  /\ Shift(o, [p \in Nat |-> IF p > i THEN p + 1 ELSE p])
  /\ slipped' = (slipped \/ Shared(o) \/ Stays(o, i))
  /\ UNCHANGED tokdict

\* mutant: the offsets stay when a token before them goes
MutAfterDelete(p, i) == p

AfterDelete(p, i) == IF p > i THEN p - 1 ELSE p

\* del self[i], also by pop(); a slice deletes its indexes one by one from the last
DelItem(o, i) ==
  /\ Edited /\ i + 1 \in DOMAIN toklist[o]
  /\ toklist' = [toklist EXCEPT ![o] = RemoveAt(@, i + 1)]
  /\ Shift(o, [p \in Nat |-> AfterDelete(p, i)])
  /\ slipped' = (slipped \/ Shared(o))
  /\ UNCHANGED tokdict

\* del self[name]
DelName(o, n) ==
  /\ Edited /\ n \in DOMAIN tokdict[o]
  /\ tokdict' = [tokdict EXCEPT ![o] = [m \in DOMAIN @ \ {n} |-> @[m]]]
  /\ UNCHANGED <<toklist, lists, slipped>>

clear(o) ==
  /\ Edited
  /\ toklist' = [toklist EXCEPT ![o] = <<>>] /\ tokdict' = [tokdict EXCEPT ![o] = [n \in {} |-> 0]]
  /\ UNCHANGED <<lists, slipped>>

\* the other object becomes copy(): new list of tokens, the same lists of occurrences
copy(o, p) ==
  /\ Edited /\ o # p
  /\ toklist' = [toklist EXCEPT ![p] = toklist[o]] /\ tokdict' = [tokdict EXCEPT ![p] = tokdict[o]]
  /\ UNCHANGED <<lists, slipped>>

\* extend() with the other result: +=, the other's offsets from the end of this list
extend(o, p) ==
  /\ Edited /\ o # p /\ Known(o) \cap Known(p) = {}
  /\ SetItems(o, [n \in DOMAIN tokdict[p] |->
                    Moved(lists[tokdict[p][n]], [q \in Nat |-> q + Len(toklist[o])])])
  /\ toklist' = [toklist EXCEPT ![o] = @ \o toklist[p]]
  /\ UNCHANGED slipped

PrNext == \E o \in Objects :
  \/ \E t \in TokenIds : append(o, t) \/ \E i \in -MaxEdits..MaxEdits : insert(o, i, t)
  \/ \E t \in TokenIds, n \in NameIds : AddNamed(o, t, n) \/ SetByName(o, n, t)
  \/ \E t \in TokenIds, i \in 0..MaxEdits : SetToken(o, i, t)
  \/ \E i \in 0..MaxEdits : DelItem(o, i)
  \/ (\E n \in NameIds : DelName(o, n)) \/ clear(o)
  \/ \E p \in Objects : copy(o, p) \/ extend(o, p)

PrSpec == PrInit /\ [][PrNext]_editVars

\* The offset kept with a named result is the place of its token in the list as long as
\* the token is there, whatever is added, inserted, replaced, deleted, popped or joined to
\* it. Four edits break this in the code: insert() at the very place of a named token leaves
\* the offset behind (it shifts the offsets above the index only); insert() at a negative
\* index shifts every offset, also those of the tokens before the place; results[name] =
\* token gives offset 0 to a token that may stand elsewhere; and del or insert on a copy()
\* moves the offsets of the original, whose occurrence lists it shares.
Exact(s, occ) == \A x \in Range(occ) :
  x.v \in Range(s) => x.pos + 1 \in DOMAIN s /\ s[x.pos + 1] = x.v
OffsetsExact == ~slipped => \A o \in Objects : \A k \in Keys(o) : Exact(toklist[o], lists[k])
=============================================================================
